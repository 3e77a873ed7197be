--------------------------- MODULE SessionsProofs ----------------------------
(****************************************************************************)
(* What is proved of Sessions, for any number of sessions, events and       *)
(* addresses and every world:                                               *)
(*   - TypeCorrect and OnlyStraysLost: TypeOK and OrphansAreStrays;         *)
(*   - NeverDangles and AlwaysLive: NoDangling and PointersLive, as long as *)
(*     malloc does not hand out an address twice.                           *)
(* Without that condition PointersLive is wrong, as the run sessions_reuse  *)
(* shows.  What makes it enough is the invariant Owned: the pointers that   *)
(* outlive a session are exactly those the loop is about to drop.           *)
(****************************************************************************)
EXTENDS Sessions, SequenceTheorems, TLAPS

-----------------------------------------------------------------------------
(* The inductive invariant *)

(* what is in a session's queue *)
Queued == {"CONNECT", "HANGUP"}

(* a library of which k sessions were made *)
LibOf(k) == [heap : [Addrs -> 0 .. k], queue : [Addrs -> Seq(Queued)], frames : SUBSET Frame]

(* a variable of main.c is NULL or was given a session, and so is an event *)
Pointers(k) == {NoRef} \cup [addr : Addrs, gen : 1 .. k]
Events(k) == {NoEvt} \cup [kind : Kinds, addr : Addrs, gen : 1 .. k]

Shape ==
  /\ TypeOK
  /\ lib \in LibOf(made)
  /\ call \in Pointers(made) /\ reg \in Pointers(made) /\ evt \in Events(made)

(* a generation lives at one address, the one it was made at *)
Distinct ==
  \A a, b \in Addrs : lib.heap[a] # 0 /\ lib.heap[a] = lib.heap[b] => a = b
Placed ==
  \A ref \in {call, reg} : ref # NoRef =>
    \A a \in Addrs : lib.heap[a] = ref.gen => a = ref.addr

(* the event in hand: a caller is there, a session that hung up is gone, and a
   timeout is known *)
EventTrue ==
  pc = "event" => /\ evt.kind = "CONNECT" => Valid(lib, evt)
                  /\ evt.kind = "HANGUP" => lib.heap[evt.addr] = 0
                  /\ evt.kind = "TIMEOUT" => Valid(lib, evt) /\ evt.gen \in timedOut

(* the service has not heard of a session made for a stray frame *)
StraysUnknown ==
  /\ strays \subseteq 1 .. made
  /\ call.gen \notin strays /\ reg.gen \notin strays
  /\ evt.kind = "CONNECT" => evt.gen \notin strays
  /\ \A a \in Addrs : \A i \in 1 .. Len(lib.queue[a]) :
       lib.queue[a][i] = "CONNECT" => lib.heap[a] \notin strays

(* a session is pinged, or it is the registration *)
Pinged == \A a \in Live(lib) : a = reg.addr \/ a \in pings

(* while the loop runs, every session is looked after or a stray frame's *)
Cared(a) ==
  \/ lib.queue[a] # << >>
  \/ lib.heap[a] \in {call.gen, reg.gen} \cup timedOut \cup strays
  \/ pc = "event" /\ evt.kind = "CONNECT" /\ evt.addr = a
SessionsCared == pc \notin {"leave", "down"} => \A a \in Live(lib) : Cared(a)

Watched == Distinct /\ Placed /\ EventTrue /\ SessionsCared /\ StraysUnknown /\ Pinged

(* the rest holds only where an address names one generation for ever *)
Named(ref) == ref.gen = ref.addr
Addressed ==
  /\ call # NoRef => Named(call)
  /\ reg # NoRef => Named(reg)
  /\ evt # NoEvt => Named(evt)

(* a frame that may be sent again has its session, and a final frame has none *)
Sound(l, k) ==
  /\ \A a \in Addrs : l.heap[a] \in {0, a}
  /\ \A f \in l.frames :
       /\ f.done \/ Valid(l, f)
       /\ f.final => f.done /\ f.addr <= k /\ l.heap[f.addr] = 0

(* a CONNECT that nobody has seen yet is the first event of a session that
   main.c does not know, and so is the CONNECT in hand *)
CallersNew ==
  /\ \A a \in Addrs : \A i \in 1 .. Len(lib.queue[a]) :
       lib.queue[a][i] = "CONNECT" =>
         /\ i = 1 /\ call.addr # a /\ reg.addr # a
         /\ ~(pc = "event" /\ evt.kind = "CONNECT" /\ evt.addr = a)
  /\ pc = "event" /\ evt.kind = "CONNECT" => call.addr # evt.addr /\ reg.addr # evt.addr

(* a pointer names its session, or the loop is about to drop it *)
Dropping(ref) ==
  \/ pc = "event" /\ evt.kind = "HANGUP" /\ evt.addr = ref.addr
  \/ world.waveFails /\ pc = "leave"
  \/ pc = "down"
PointersOwned == \A ref \in {call, reg} : ref = NoRef \/ Valid(lib, ref) \/ Dropping(ref)

(* the session of a hangup has not come back when the event is freed *)
HungUpGone == pc = "free" /\ evt.kind = "HANGUP" => lib.heap[evt.addr] = 0

Owned ==
  /\ Addressed /\ Sound(lib, made) /\ CallersNew /\ PointersOwned /\ HungUpGone
  /\ badUse => world.waveFails

IInv == Shape /\ Watched /\ (~world.reuse => Owned)

-----------------------------------------------------------------------------
(* The library's operations *)

(* The numbers a world allows. *)
LEMMA WorldTypes ==
  ASSUME TypeOK
  PROVE  /\ world.sessions \in Nat \ {0} /\ world.reuse \in BOOLEAN /\ world.waveFails \in BOOLEAN
         /\ made \in Nat /\ made <= world.sessions
<1>1. world.sessions \in Nat \ {0} /\ world.reuse \in BOOLEAN /\ world.waveFails \in BOOLEAN
  BY WorldsAssumption DEF TypeOK
<1> QED
  BY <1>1 DEF TypeOK

(* The parts of a library. *)
LEMMA LibFields ==
  ASSUME NEW k, NEW l \in LibOf(k)
  PROVE  /\ l.heap \in [Addrs -> 0 .. k] /\ l.queue \in [Addrs -> Seq(Queued)]
         /\ l.frames \subseteq Frame
BY DEF LibOf

(* Generations already made stay below the bound. *)
LEMMA LibGrows ==
  ASSUME NEW k \in Nat, NEW l \in LibOf(k)
  PROVE  l \in LibOf(k + 1)
BY DEF LibOf

(* iax_send schedules one frame and changes nothing else. *)
LEMMA SendFrameOp ==
  ASSUME world.sessions \in Nat, NEW k \in Nat, k <= world.sessions,
         NEW l \in LibOf(k), NEW a \in Addrs, NEW final \in BOOLEAN
  PROVE  /\ SendFrame(l, a, final) \in LibOf(k)
         /\ SendFrame(l, a, final).heap = l.heap /\ SendFrame(l, a, final).queue = l.queue
         /\ SendFrame(l, a, final).frames
              = l.frames \cup {[addr |-> a, gen |-> l.heap[a], final |-> final, done |-> FALSE]}
<1> DEFINE f == [addr |-> a, gen |-> l.heap[a], final |-> final, done |-> FALSE]
<1>1. l.heap[a] \in 0 .. world.sessions
  BY DEF LibOf
<1>2. f \in Frame
  BY <1>1 DEF Frame
<1> HIDE DEF f
<1>3. SendFrame(l, a, final) = [l EXCEPT !.frames = @ \cup {f}]
  BY DEF SendFrame, f
<1> QED
  BY <1>2, <1>3 DEF LibOf, f

(* The frame iax_send schedules, whatever the library. *)
LEMMA SendFrameFields ==
  ASSUME NEW k, NEW l \in LibOf(k), NEW a, NEW final \in BOOLEAN
  PROVE  /\ SendFrame(l, a, final).heap = l.heap /\ SendFrame(l, a, final).queue = l.queue
         /\ SendFrame(l, a, final).frames
              = l.frames \cup {[addr |-> a, gen |-> l.heap[a], final |-> final, done |-> FALSE]}
BY DEF LibOf, SendFrame

(* destroy_session frees the address and marks its frames. *)
LEMMA DestroyOp ==
  ASSUME NEW k \in Nat, NEW l \in LibOf(k), NEW a \in Addrs
  PROVE  Destroy(l, a) \in LibOf(k)
<1> DEFINE Mark(f) == IF f.addr = a THEN [f EXCEPT !.done = TRUE] ELSE f
<1>1. \A f \in Frame : Mark(f) \in Frame
  BY DEF Frame
<1> HIDE DEF Mark
<1>2. {Mark(f) : f \in l.frames} \in SUBSET Frame
  BY <1>1, LibFields
<1>3. [l.heap EXCEPT ![a] = 0] \in [Addrs -> 0 .. k]
  BY LibFields
<1>4. [l.queue EXCEPT ![a] = << >>] \in [Addrs -> Seq(Queued)]
  BY LibFields
<1>5. Destroy(l, a) = [heap |-> [l.heap EXCEPT ![a] = 0], queue |-> [l.queue EXCEPT ![a] = << >>],
                       frames |-> {Mark(f) : f \in l.frames}]
  BY DEF Destroy, Mark
<1> QED
  BY <1>2, <1>3, <1>4, <1>5 DEF LibOf

(* What is left of a session at an address. *)
LEMMA DestroyAt ==
  ASSUME NEW k \in Nat, NEW l \in LibOf(k), NEW a \in Addrs, NEW b \in Addrs
  PROVE  /\ Destroy(l, a).heap[b] = IF b = a THEN 0 ELSE l.heap[b]
         /\ Destroy(l, a).queue[b] = IF b = a THEN << >> ELSE l.queue[b]
<1>1. l.heap \in [Addrs -> 0 .. k] /\ l.queue \in [Addrs -> Seq(Queued)]
  BY LibFields
<1>2. Destroy(l, a).heap[b] = IF b = a THEN 0 ELSE l.heap[b]
  BY <1>1 DEF Destroy
<1>3. Destroy(l, a).queue[b] = IF b = a THEN << >> ELSE l.queue[b]
  BY <1>1 DEF Destroy
<1> QED
  BY <1>2, <1>3

(* A frame after destroy_session comes from one before; those of the address
   are done. *)
LEMMA DestroyMarks ==
  ASSUME NEW k \in Nat, NEW l \in LibOf(k), NEW a, NEW g \in Destroy(l, a).frames
  PROVE  \E f \in l.frames :
           /\ g.addr = f.addr /\ g.gen = f.gen /\ g.final = f.final
           /\ IF f.addr = a THEN g.done ELSE g = f
<1>1. PICK f \in l.frames : g = IF f.addr = a THEN [f EXCEPT !.done = TRUE] ELSE f
  BY DEF Destroy
<1>2. f \in Frame
  BY LibFields
<1> QED
  BY <1>1, <1>2 DEF Frame

(* iax_session_new leaves the schedule alone. *)
LEMMA CreateFrames ==
  ASSUME NEW k, NEW l \in LibOf(k), NEW a, NEW events
  PROVE  Create(l, a, events).frames = l.frames
BY DEF LibOf, Create

(* A new session has the next generation. *)
LEMMA CreateOp ==
  ASSUME made \in Nat, NEW l \in LibOf(made), NEW a \in Addrs, NEW events \in Seq(Queued)
  PROVE  Create(l, a, events) \in LibOf(made + 1)
<1>1. [l.heap EXCEPT ![a] = made + 1] \in [Addrs -> 0 .. made + 1]
  BY DEF LibOf
<1>2. [l.queue EXCEPT ![a] = events] \in [Addrs -> Seq(Queued)]
  BY DEF LibOf
<1> QED
  BY <1>1, <1>2 DEF LibOf, Create

(* What a new session changes at an address. *)
LEMMA CreateAt ==
  ASSUME made \in Nat, NEW l \in LibOf(made), NEW a \in Addrs, NEW events \in Seq(Queued),
         NEW b \in Addrs
  PROVE  /\ Create(l, a, events).heap[b] = IF b = a THEN made + 1 ELSE l.heap[b]
         /\ Create(l, a, events).queue[b] = IF b = a THEN events ELSE l.queue[b]
<1>1. l.heap \in [Addrs -> 0 .. made] /\ l.queue \in [Addrs -> Seq(Queued)]
  BY LibFields
<1>2. Create(l, a, events).heap[b] = IF b = a THEN made + 1 ELSE l.heap[b]
  BY <1>1 DEF Create, LibOf
<1>3. Create(l, a, events).queue[b] = IF b = a THEN events ELSE l.queue[b]
  BY <1>1 DEF Create, LibOf
<1> QED
  BY <1>2, <1>3

(* A frame that a living session sends belongs to it. *)
LEMMA SendFrameSound ==
  ASSUME world.sessions \in Nat, NEW k \in Nat, k <= world.sessions,
         NEW l \in LibOf(k), Sound(l, k), NEW a \in Live(l)
  PROVE  Sound(SendFrame(l, a, FALSE), k)
<1> DEFINE c == SendFrame(l, a, FALSE)
           g == [addr |-> a, gen |-> l.heap[a], final |-> FALSE, done |-> FALSE]
<1>1. a \in Addrs /\ l.heap[a] # 0
  BY DEF Live
<1>2. c.heap = l.heap /\ c.frames = l.frames \cup {g}
  <2>1. c.heap = l.heap
    BY SendFrameFields
  <2>2. c.frames = l.frames \cup {g}
    BY SendFrameFields
  <2> QED
    BY <2>1, <2>2
<1> HIDE DEF c
<1>3. Valid(c, g) /\ ~g.final
  BY <1>1, <1>2 DEF Valid
<1> HIDE DEF g
<1>4. \A f \in c.frames : /\ f.done \/ Valid(c, f)
                          /\ f.final => f.done /\ f.addr <= k /\ c.heap[f.addr] = 0
  BY <1>2, <1>3 DEF Sound, Valid
<1> QED
  BY <1>2, <1>4 DEF Sound, c

(* Without its session a frame is done. *)
LEMMA DestroySound ==
  ASSUME NEW k \in Nat, NEW l \in LibOf(k), Sound(l, k), NEW a \in Addrs
  PROVE  Sound(Destroy(l, a), k)
<1> DEFINE d == Destroy(l, a)
<1>1. \A b \in Addrs : d.heap[b] = IF b = a THEN 0 ELSE l.heap[b]
  BY DestroyAt
<1>2. \A g \in d.frames : \E f \in l.frames :
        /\ g.addr = f.addr /\ g.gen = f.gen /\ g.final = f.final
        /\ IF f.addr = a THEN g.done ELSE g = f
  BY DestroyMarks
<1>3. l.frames \subseteq Frame
  BY LibFields
<1> HIDE DEF d
<1>4. ASSUME NEW g \in d.frames
      PROVE  /\ g.done \/ Valid(d, g)
             /\ g.final => g.done /\ g.addr <= k /\ d.heap[g.addr] = 0
  <2>1. PICK f \in l.frames : /\ g.addr = f.addr /\ g.gen = f.gen /\ g.final = f.final
                              /\ IF f.addr = a THEN g.done ELSE g = f
    BY <1>2
  <2>2. /\ f.addr \in Addrs /\ (f.done \/ Valid(l, f))
        /\ f.final => f.done /\ f.addr <= k /\ l.heap[f.addr] = 0
    BY <1>3 DEF Sound, Frame
  <2>3. CASE f.addr = a
    BY <1>1, <2>1, <2>2, <2>3
  <2>4. CASE f.addr # a
    BY <1>1, <2>1, <2>2, <2>4 DEF Valid
  <2> QED
    BY <2>3, <2>4
<1>5. \A b \in Addrs : d.heap[b] \in {0, b}
  BY <1>1 DEF Sound
<1> QED
  BY <1>4, <1>5 DEF Sound, d

(* A new session takes an address no session and no frame in use had. *)
LEMMA CreateSound ==
  ASSUME made \in Nat, NEW l \in LibOf(made), Sound(l, made), NEW a \in Addrs, a = made + 1,
         NEW events \in Seq(Queued)
  PROVE  Sound(Create(l, a, events), made + 1)
<1> DEFINE c == Create(l, a, events)
<1>1. \A b \in Addrs : c.heap[b] = IF b = a THEN made + 1 ELSE l.heap[b]
  BY CreateAt
<1>2. c.frames = l.frames
  BY CreateFrames
<1>3. l.heap \in [Addrs -> 0 .. made] /\ l.frames \subseteq Frame
  BY LibFields
<1> HIDE DEF c
<1>4. l.heap[a] = 0
  BY <1>3 DEF Sound
<1>5. ASSUME NEW f \in c.frames
      PROVE  /\ f.done \/ Valid(c, f)
             /\ f.final => f.done /\ f.addr <= made + 1 /\ c.heap[f.addr] = 0
  <2>1. /\ f.done \/ Valid(l, f)
        /\ f.final => f.done /\ f.addr <= made /\ l.heap[f.addr] = 0
    BY <1>2 DEF Sound
  <2>2. f.addr \in Addrs /\ f.addr \in Nat
    <3>1. f \in Frame
      BY <1>2, <1>3
    <3> QED
      BY <3>1, AddrsAssumption DEF Frame
  <2>3. f.done \/ Valid(c, f)
    BY <1>1, <1>4, <2>1 DEF Valid
  <2>4. f.final => f.addr # a /\ f.addr <= made + 1
    BY <2>1, <2>2
  <2> QED
    BY <1>1, <2>1, <2>2, <2>3, <2>4
<1>6. \A b \in Addrs : c.heap[b] \in {0, b}
  BY <1>1 DEF Sound
<1> QED
  BY <1>5, <1>6 DEF Sound, c

(* A new session with nothing in its queue, and perhaps one frame sent. *)
LEMMA RegisteredOp ==
  ASSUME world.sessions \in Nat, made \in Nat, made < world.sessions,
         NEW l \in LibOf(made), NEW a \in Addrs, NEW m \in Registered(l, a)
  PROVE  /\ m \in LibOf(made + 1)
         /\ \A b \in Addrs : /\ m.heap[b] = IF b = a THEN made + 1 ELSE l.heap[b]
                             /\ m.queue[b] = IF b = a THEN << >> ELSE l.queue[b]
         /\ Sound(l, made) /\ a = made + 1 => Sound(m, made + 1)
<1> DEFINE none == << >>
           c == Create(l, a, none)
           k == made + 1
<1>1. none \in Seq(Queued) /\ k \in Nat /\ k <= world.sessions
  OBVIOUS
<1>2. m \in {SendFrame(c, a, FALSE), c}
  BY DEF Registered
<1> HIDE DEF none
<1>3. \A b \in Addrs : /\ c.heap[b] = IF b = a THEN made + 1 ELSE l.heap[b]
                       /\ c.queue[b] = IF b = a THEN none ELSE l.queue[b]
  BY <1>1, CreateAt
<1>4. c \in LibOf(k)
  BY <1>1, CreateOp
<1>5. Sound(l, made) /\ a = made + 1 => Sound(c, k)
  BY <1>1, CreateSound
<1>6. a \in Live(c)
  BY <1>3 DEF Live
<1> HIDE DEF c, k
<1>7. SendFrame(c, a, FALSE) \in LibOf(k)
  BY <1>1, <1>4, SendFrameOp
<1>8. SendFrame(c, a, FALSE).heap = c.heap /\ SendFrame(c, a, FALSE).queue = c.queue
  BY <1>4, SendFrameFields
<1>9. Sound(c, k) => Sound(SendFrame(c, a, FALSE), k)
  BY <1>1, <1>4, <1>6, SendFrameSound
<1>10. m \in LibOf(k) /\ (Sound(c, k) => Sound(m, k))
  BY <1>2, <1>4, <1>7, <1>9
<1>11. m.heap = c.heap /\ m.queue = c.queue
  BY <1>2, <1>8
<1> QED
  BY <1>3, <1>5, <1>10, <1>11 DEF none, k

(* send_command_final schedules a frame and removes the session. *)
LEMMA SendFinalOp ==
  ASSUME world.sessions \in Nat, NEW k \in Nat, k <= world.sessions,
         NEW l \in LibOf(k), NEW a \in Addrs
  PROVE  /\ SendFinal(l, a) \in LibOf(k)
         /\ \A b \in Addrs : /\ SendFinal(l, a).heap[b] = IF b = a THEN 0 ELSE l.heap[b]
                             /\ SendFinal(l, a).queue[b] = IF b = a THEN << >> ELSE l.queue[b]
<1> DEFINE m == SendFrame(l, a, TRUE)
<1>1. m.heap = l.heap /\ m.queue = l.queue
  BY SendFrameFields
<1>2. m \in LibOf(k)
  BY SendFrameOp
<1> HIDE DEF m
<1>3. Destroy(m, a) \in LibOf(k)
  BY <1>2, DestroyOp
<1>4. \A b \in Addrs : /\ Destroy(m, a).heap[b] = IF b = a THEN 0 ELSE m.heap[b]
                       /\ Destroy(m, a).queue[b] = IF b = a THEN << >> ELSE m.queue[b]
  BY <1>2, DestroyAt
<1>5. SendFinal(l, a) = Destroy(m, a)
  BY DEF SendFinal, m
<1> QED
  BY <1>1, <1>3, <1>4, <1>5

(* It leaves only frames that are done. *)
LEMMA SendFinalSound ==
  ASSUME world.sessions \in Nat, NEW k \in Nat, k <= world.sessions,
         NEW l \in LibOf(k), Sound(l, k), NEW a \in Addrs, a <= k
  PROVE  Sound(SendFinal(l, a), k)
<1> DEFINE m == SendFrame(l, a, TRUE)
           d == SendFinal(l, a)
           s == [addr |-> a, gen |-> l.heap[a], final |-> TRUE, done |-> FALSE]
<1>1. m.frames = l.frames \cup {s}
  BY SendFrameFields
<1>2. m \in LibOf(k)
  BY SendFrameOp
<1>3. \A b \in Addrs : d.heap[b] = IF b = a THEN 0 ELSE l.heap[b]
  BY SendFinalOp
<1>4. l.frames \subseteq Frame
  BY LibFields
<1> HIDE DEF m
<1>5. \A g \in Destroy(m, a).frames : \E f \in m.frames :
        /\ g.addr = f.addr /\ g.gen = f.gen /\ g.final = f.final
        /\ IF f.addr = a THEN g.done ELSE g = f
  BY <1>2, DestroyMarks
<1>6. d = Destroy(m, a)
  BY DEF SendFinal, m
<1> HIDE DEF d
<1>7. ASSUME NEW g \in d.frames
      PROVE  /\ g.done \/ Valid(d, g)
             /\ g.final => g.done /\ g.addr <= k /\ d.heap[g.addr] = 0
  <2>1. PICK f \in m.frames : /\ g.addr = f.addr /\ g.gen = f.gen /\ g.final = f.final
                              /\ IF f.addr = a THEN g.done ELSE g = f
    BY <1>5, <1>6
  <2>2. CASE f.addr = a
    BY <1>3, <2>1, <2>2
  <2>3. CASE f.addr # a
    <3>1. f \in l.frames
      BY <1>1, <2>3
    <3>2. /\ f.addr \in Addrs /\ (f.done \/ Valid(l, f))
          /\ f.final => f.done /\ f.addr <= k /\ l.heap[f.addr] = 0
      BY <1>4, <3>1 DEF Sound, Frame
    <3> QED
      BY <1>3, <2>1, <2>3, <3>2 DEF Valid
  <2> QED
    BY <2>2, <2>3
<1>8. \A b \in Addrs : d.heap[b] \in {0, b}
  BY <1>3 DEF Sound
<1> QED
  BY <1>7, <1>8 DEF Sound, d

-----------------------------------------------------------------------------
(* Steps *)

(* What has a generation below the bound has the right type. *)
LEMMA ShapeStep ==
  ASSUME Shape, world' = world,
         made' \in Nat, made' <= world.sessions, lib' \in LibOf(made'), pings' \subseteq Addrs,
         call' \in Pointers(made'), reg' \in Pointers(made'), evt' \in Events(made'),
         pc' \in {"idle", "event", "free", "leave", "down"},
         pc' \in {"event", "free"} <=> evt' # NoEvt,
         gone' \subseteq Gens, strays' \subseteq Gens, timedOut' \subseteq Gens, badUse' \in BOOLEAN
  PROVE  Shape'
<1>1. TypeOK
  BY DEF Shape
<1>2. world.sessions \in Nat
  BY <1>1, WorldTypes
<1>3. /\ lib'.heap \in [Addrs -> 0 .. made'] /\ lib'.queue \in [Addrs -> Seq(Queued)]
      /\ lib'.frames \subseteq Frame
  BY LibFields
<1>4. Frame' = Frame /\ Gens' = Gens /\ Ref' = Ref
  BY DEF Frame, Gens, Ref
<1>5. lib'.heap \in [Addrs -> 0 .. world.sessions]
  BY <1>2, <1>3
<1>6. lib'.queue \in [Addrs -> Seq(Kinds)]
  <2>1. Queued \subseteq Kinds
    BY DEF Queued, Kinds
  <2>2. Seq(Queued) \subseteq Seq(Kinds)
    BY <2>1
  <2> QED
    BY <1>3, <2>2
<1>7. call' \in Ref /\ reg' \in Ref
  <2>1. NoRef \in Ref
    BY <1>2 DEF NoRef, Ref
  <2>2. [addr : Addrs, gen : 1 .. made'] \subseteq Ref
    BY <1>2 DEF Ref
  <2> QED
    BY <2>1, <2>2 DEF Pointers
<1>8. evt' \in [kind : Kinds, addr : Addrs, gen : Gens] \cup {NoEvt}
  <2>1. [kind : Kinds, addr : Addrs, gen : 1 .. made'] \subseteq [kind : Kinds, addr : Addrs, gen : Gens]
    BY <1>2 DEF Gens
  <2> QED
    BY <2>1 DEF Events
<1>9. made' \in 0 .. world.sessions
  BY <1>2
<1>10. TypeOK'
  BY <1>1, <1>3, <1>4, <1>5, <1>6, <1>7, <1>8, <1>9 DEF TypeOK
<1>11. (lib \in LibOf(made))'
  BY <1>4 DEF LibOf
<1> QED
  BY <1>10, <1>11 DEF Shape, Pointers, Events

(* What every state has: the parts of the library and of the pointers. *)
LEMMA Parts ==
  ASSUME Shape
  PROVE  /\ TypeOK /\ made \in Nat /\ made <= world.sessions /\ world.sessions \in Nat
         /\ lib \in LibOf(made)
         /\ lib.heap \in [Addrs -> 0 .. made] /\ lib.queue \in [Addrs -> Seq(Queued)]
         /\ lib.frames \subseteq Frame
         /\ call \in Pointers(made) /\ reg \in Pointers(made) /\ evt \in Events(made)
         /\ pings \subseteq Addrs /\ gone \subseteq Gens /\ strays \subseteq Gens /\ timedOut \subseteq Gens
         /\ badUse \in BOOLEAN
         /\ pc \in {"idle", "event", "free", "leave", "down"}
         /\ pc \in {"event", "free"} <=> evt # NoEvt
<1>1. TypeOK /\ lib \in LibOf(made)
  BY DEF Shape
<1>2. made \in Nat /\ made <= world.sessions /\ world.sessions \in Nat
  BY <1>1, WorldTypes
<1>3. /\ lib.heap \in [Addrs -> 0 .. made] /\ lib.queue \in [Addrs -> Seq(Queued)]
      /\ lib.frames \subseteq Frame
  BY <1>1, LibFields
<1>4. call \in Pointers(made) /\ reg \in Pointers(made) /\ evt \in Events(made)
  BY DEF Shape
<1> QED
  BY <1>1, <1>2, <1>3, <1>4 DEF TypeOK

(* A generation is not 0 and its address not NULL. *)
LEMMA PointerParts ==
  ASSUME NEW k \in Nat
  PROVE  /\ \A ref \in Pointers(k) : ref # NoRef => ref.addr \in Addrs /\ ref.gen \in 1 .. k
         /\ \A e \in Events(k) : e # NoEvt =>
              e.addr \in Addrs /\ e.gen \in 1 .. k /\ e.kind \in Kinds
         /\ NoRef.gen = 0 /\ NoRef.addr = NoAddr /\ NoAddr \notin Addrs
         /\ NoEvt.gen = 0 /\ NoEvt.addr = NoAddr /\ NoEvt.kind = "NULL"
         /\ Addrs \subseteq Nat \ {0}
BY AddrsAssumption DEF Pointers, Events, NoRef, NoEvt

(* A step that only sends frames, or marks them, keeps everything. *)
LEMMA QuietStep ==
  ASSUME IInv, lib' \in LibOf(made), lib'.heap = lib.heap, lib'.queue = lib.queue,
         UNCHANGED <<world, made, call, reg, evt, pc, strays, timedOut>>,
         gone' \subseteq Gens, pings' \subseteq Addrs, badUse' \in BOOLEAN,
         \A b \in Live(lib) : b \in pings => b \in pings',
         (~world.reuse /\ Owned) => Sound(lib', made) /\ badUse' = badUse
  PROVE  IInv'
<1>1. Shape /\ Watched
  BY DEF IInv
<1>2. Shape'
  BY <1>1, Parts, ShapeStep
<1>3. Watched'
  BY <1>1 DEF Watched, Distinct, Placed, EventTrue, SessionsCared, Cared, StraysUnknown, Pinged, Valid, Live
<1>4. ASSUME ~world.reuse
      PROVE  Owned'
  <2>1. Owned /\ Sound(lib', made) /\ badUse' = badUse
    BY <1>4 DEF IInv
  <2>2. Sound(lib, made)'
    BY <2>1 DEF Sound, Valid
  <2> QED
    BY <2>1, <2>2 DEF Owned, Addressed, Named, CallersNew, PointersOwned, Dropping, HungUpGone, Valid
<1> QED
  BY <1>2, <1>3, <1>4 DEF IInv

(* Only the schedule changes. *)
LEMMA FramesOp ==
  ASSUME NEW k, NEW l \in LibOf(k), NEW F \in SUBSET Frame
  PROVE  LET m == [l EXCEPT !.frames = F]
         IN  m \in LibOf(k) /\ m.heap = l.heap /\ m.queue = l.queue /\ m.frames = F
BY DEF LibOf

(* Fewer frames, or frames that are done, break nothing. *)
LEMMA FramesSound ==
  ASSUME NEW k, NEW l \in LibOf(k), Sound(l, k), NEW m, m.heap = l.heap,
         \A g \in m.frames : \E f \in l.frames : g = f \/ g = [f EXCEPT !.done = TRUE]
  PROVE  Sound(m, k)
<1>1. l.frames \subseteq Frame
  BY LibFields
<1>2. ASSUME NEW g \in m.frames
      PROVE  /\ g.done \/ Valid(m, g)
             /\ g.final => g.done /\ g.addr <= k /\ m.heap[g.addr] = 0
  <2>1. PICK f \in l.frames : g = f \/ g = [f EXCEPT !.done = TRUE]
    OBVIOUS
  <2>2. /\ f.done \/ Valid(l, f)
        /\ f.final => f.done /\ f.addr <= k /\ l.heap[f.addr] = 0
    BY DEF Sound
  <2>3. g.addr = f.addr /\ g.gen = f.gen /\ g.final = f.final /\ (g.done \/ g = f)
    BY <1>1, <2>1 DEF Frame
  <2> QED
    BY <2>2, <2>3 DEF Valid
<1> QED
  BY <1>2 DEF Sound

(* An acknowledgement marks frames. *)
LEMMA PeerAcksKeeps ==
  ASSUME IInv, NEW a \in Addrs, PeerAcks(a)
  PROVE  IInv'
<1> DEFINE Mark(f) == IF f.addr = a THEN [f EXCEPT !.done = TRUE] ELSE f
<1>1. Shape
  BY DEF IInv
<1>2. lib \in LibOf(made) /\ lib.frames \subseteq Frame
  BY <1>1, Parts
<1>3. \A f \in Frame : Mark(f) \in Frame
  BY DEF Frame
<1>4. {Mark(f) : f \in lib.frames} \in SUBSET Frame
  BY <1>2, <1>3
<1>5. lib' = [lib EXCEPT !.frames = {Mark(f) : f \in lib.frames}]
  BY DEF PeerAcks
<1>6. \A g \in {Mark(f) : f \in lib.frames} :
        \E f \in lib.frames : g = f \/ g = [f EXCEPT !.done = TRUE]
  OBVIOUS
<1> HIDE DEF Mark
<1>7. /\ lib' \in LibOf(made) /\ lib'.heap = lib.heap /\ lib'.queue = lib.queue
      /\ lib'.frames = {Mark(f) : f \in lib.frames}
  BY <1>2, <1>4, <1>5, FramesOp
<1>8. Sound(lib, made) => Sound(lib', made)
  BY <1>2, <1>6, <1>7, FramesSound
<1>9. /\ UNCHANGED <<world, made, call, reg, evt, pc, strays, timedOut, badUse>>
      /\ gone' \subseteq Gens /\ pings' = pings /\ pings' \subseteq Addrs /\ badUse' \in BOOLEAN
  BY <1>1, Parts DEF PeerAcks, main
<1> QED
  BY <1>7, <1>8, <1>9, QuietStep DEF Owned

(* A frame of a living session is sent: an answer to a PING, a ping or the
   renewal of the registration. *)
LEMMA SendKeeps ==
  ASSUME IInv, NEW a \in Addrs, lib' = SendFrame(lib, a, FALSE),
         UNCHANGED <<world, pings, made, main, gone, strays, timedOut>>, badUse' \in BOOLEAN,
         (~world.reuse /\ Owned) => a \in Live(lib) /\ badUse' = badUse
  PROVE  IInv'
<1>1. Shape
  BY DEF IInv
<1>2. /\ made \in Nat /\ made <= world.sessions /\ world.sessions \in Nat /\ lib \in LibOf(made)
      /\ gone \subseteq Gens /\ pings \subseteq Addrs /\ badUse \in BOOLEAN
  BY <1>1, Parts
<1>3. lib' \in LibOf(made) /\ lib'.heap = lib.heap /\ lib'.queue = lib.queue
  BY <1>2, SendFrameOp, ZenonT(40)
<1>4. (~world.reuse /\ Owned) => Sound(lib', made)
  BY <1>2, SendFrameSound DEF Owned
<1> QED
  BY <1>2, <1>3, <1>4, QuietStep DEF main

(* The peer's pings. *)
LEMMA PeerPingsKeeps ==
  ASSUME IInv, NEW a \in Addrs, PeerPings(a)
  PROVE  IInv'
BY SendKeeps, Parts DEF PeerPings, IInv

(* A peer that is gone. *)
LEMMA PeerGoneKeeps ==
  ASSUME IInv, NEW a \in Addrs, PeerGone(a)
  PROVE  IInv'
<1>1. Shape
  BY DEF IInv
<1>2. lib \in LibOf(made) /\ gone \subseteq Gens /\ pings \subseteq Addrs /\ badUse \in BOOLEAN
  BY <1>1, Parts
<1>3. lib.heap[a] \in Gens
  BY <1>1, Parts DEF PeerGone, Live, Gens
<1>4. /\ lib' = lib /\ gone' = gone \cup {lib.heap[a]} /\ pings' = pings
      /\ UNCHANGED <<world, made, call, reg, evt, pc, strays, timedOut, badUse>>
  BY DEF PeerGone, main
<1> QED
  BY <1>2, <1>3, <1>4, QuietStep DEF Owned

(* The pings of the library. *)
LEMMA PingKeeps ==
  ASSUME IInv, NEW a \in Addrs, Ping(a)
  PROVE  IInv'
<1>1. CASE a \in Live(lib)
  BY <1>1, SendKeeps, Parts DEF Ping, IInv
<1>2. CASE a \notin Live(lib)
  <2>1. Shape
    BY DEF IInv
  <2>2. lib \in LibOf(made) /\ gone \subseteq Gens /\ pings \subseteq Addrs /\ badUse \in BOOLEAN
    BY <2>1, Parts
  <2>3. /\ lib' = lib /\ gone' = gone /\ pings' = pings \ {a}
        /\ UNCHANGED <<world, made, call, reg, evt, pc, strays, timedOut, badUse>>
    BY <1>2 DEF Ping, main
  <2> QED
    BY <1>2, <2>2, <2>3, QuietStep DEF Owned
<1> QED
  BY <1>1, <1>2

(* The renewal of the registration: between two events the pointer is good, as
   long as no address comes back. *)
LEMMA RefreshKeeps ==
  ASSUME IInv, Refresh
  PROVE  IInv'
<1>1. Shape
  BY DEF IInv
<1>2. reg.addr \in Addrs /\ badUse \in BOOLEAN
  BY <1>1, Parts, PointerParts DEF Refresh
<1>3. (~world.reuse /\ Owned) => Valid(lib, reg)
  BY DEF Refresh, Owned, PointersOwned, Dropping
<1>4. Valid(lib, reg) => reg.addr \in Live(lib)
  BY DEF Valid, Live
<1>5. /\ lib' = SendFrame(lib, reg.addr, FALSE)
      /\ UNCHANGED <<world, pings, made, main, gone, strays, timedOut>>
      /\ badUse' = (badUse \/ ~Valid(lib, reg))
  BY DEF Refresh
<1>6. badUse' \in BOOLEAN
  BY <1>5
<1> QED
  BY <1>2, <1>3, <1>4, <1>5, <1>6, SendKeeps

-----------------------------------------------------------------------------
(* Steps of the network and of the library *)

(* The address of a new session was never used before. *)
LEMMA FreshAddress ==
  ASSUME Shape, NEW a \in Addrs, MayAllocate(lib, a)
  PROVE  /\ lib.heap[a] = 0
         /\ ~world.reuse => a = made + 1
         /\ ~world.reuse /\ Addressed => call.addr # a /\ reg.addr # a /\ evt.addr # a
<1>1. /\ made \in Nat /\ lib.heap \in [Addrs -> 0 .. made]
      /\ call \in Pointers(made) /\ reg \in Pointers(made) /\ evt \in Events(made)
  BY Parts
<1>2. lib.heap[a] = 0 /\ (~world.reuse => a = made + 1)
  BY DEF MayAllocate, Live
<1>3. \A ref \in Pointers(made) : Named(ref) \/ ref = NoRef => ref.addr # made + 1 \/ made + 1 \notin Addrs
  BY <1>1, PointerParts DEF Named
<1>4. \A e \in Events(made) : Named(e) \/ e = NoEvt => e.addr # made + 1 \/ made + 1 \notin Addrs
  BY <1>1, PointerParts DEF Named
<1> QED
  BY <1>1, <1>2, <1>3, <1>4 DEF Addressed

(* With no new CONNECT in a queue or in hand, and no new pointer to a session
   that has one, callers stay new. *)
LEMMA FewerCallers ==
  ASSUME CallersNew, pc' # "event",
         \A b \in Addrs : lib'.queue[b] # << >> =>
           /\ lib'.queue[b] = lib.queue[b]
           /\ b \in {call'.addr, reg'.addr} => b \in {call.addr, reg.addr}
  PROVE  CallersNew'
<1> SUFFICES ASSUME NEW b \in Addrs, NEW i \in 1 .. Len(lib'.queue[b]), lib'.queue[b][i] = "CONNECT"
             PROVE  i = 1 /\ call'.addr # b /\ reg'.addr # b
  BY DEF CallersNew
<1>1. lib'.queue[b] # << >>
  OBVIOUS
<1>2. lib'.queue[b] = lib.queue[b] /\ (b \in {call'.addr, reg'.addr} => b \in {call.addr, reg.addr})
  BY <1>1
<1> QED
  BY <1>2 DEF CallersNew

(* Where nothing is queued and no pointer set, the service hears of no stray. *)
LEMMA StraysKept ==
  ASSUME StraysUnknown, strays' = strays, 1 .. made \subseteq 1 .. made',
         call' = call, reg' = reg, evt'.kind = "CONNECT" => evt'.gen \notin strays,
         \A b \in Addrs : \/ lib'.queue[b] = << >>
                          \/ lib'.queue[b] = lib.queue[b] /\ lib'.heap[b] = lib.heap[b]
  PROVE  StraysUnknown'
<1>1. \A b \in Addrs : \A i \in 1 .. Len(lib'.queue[b]) :
        lib'.queue[b][i] = "CONNECT" => lib'.heap[b] \notin strays
  <2>1. Len(<< >>) = 0
    OBVIOUS
  <2> QED
    BY <2>1 DEF StraysUnknown
<1> QED
  BY <1>1 DEF StraysUnknown

(* A session is made for a frame from somebody unknown: events is what it
   queues, and without a CONNECT it is a stray one. *)
LEMMA UnknownKeeps ==
  ASSUME IInv, NEW a \in Addrs, FromUnknown(a), NEW events \in Seq(Queued),
         UNCHANGED <<world, main, gone, timedOut, badUse>>, lib' \in LibOf(made + 1),
         \A b \in Addrs : /\ lib'.heap[b] = IF b = a THEN made + 1 ELSE lib.heap[b]
                          /\ lib'.queue[b] = IF b = a THEN events ELSE lib.queue[b],
         Sound(lib, made) /\ a = made + 1 => Sound(lib', made + 1),
         \A i \in 1 .. Len(events) : events[i] = "CONNECT" => i = 1 /\ strays' = strays,
         \/ strays' = strays /\ events # << >>
         \/ strays' = strays \cup {made + 1}
  PROVE  IInv'
<1>1. Shape /\ Watched
  BY DEF IInv
<1>2. /\ made \in Nat /\ world.sessions \in Nat
      /\ lib.heap \in [Addrs -> 0 .. made]
      /\ call \in Pointers(made) /\ reg \in Pointers(made) /\ evt \in Events(made)
      /\ strays \subseteq 1 .. made
  BY <1>1, Parts DEF Watched, StraysUnknown
<1>3. /\ pc = "idle" /\ made < world.sessions /\ MayAllocate(lib, a)
      /\ pings' = pings \cup {a} /\ made' = made + 1
      /\ UNCHANGED <<world, call, reg, evt, pc, gone, timedOut, badUse>>
  BY DEF FromUnknown, main
<1>4. Shape'
  <2>1. Pointers(made) \subseteq Pointers(made + 1) /\ Events(made) \subseteq Events(made + 1)
    BY <1>2 DEF Pointers, Events
  <2>2. made' \in Nat /\ made' <= world.sessions /\ pings' \subseteq Addrs
    BY <1>1, <1>2, <1>3, Parts
  <2>3. strays' \subseteq Gens
    <3>1. made + 1 \in Gens /\ strays \subseteq Gens
      BY <1>2, <1>3 DEF Gens
    <3> QED
      BY <3>1
  <2> QED
    BY <1>1, <1>2, <1>3, <2>1, <2>2, <2>3, Parts, ShapeStep
<1>5. \A b \in Addrs : lib.heap[b] \in 0 .. made
  BY <1>2
<1>6. \A ref \in {call, reg} : ref # NoRef => ref.gen # made + 1
  BY <1>2, PointerParts
<1>7. Watched'
  <2>1. Distinct'
    <3> SUFFICES ASSUME NEW b \in Addrs, NEW c \in Addrs,
                        lib'.heap[b] # 0, lib'.heap[b] = lib'.heap[c]
                 PROVE  b = c
      BY DEF Distinct
    <3>1. \A x \in Addrs : lib.heap[x] # made + 1
      BY <1>2, <1>5
    <3>2. CASE b = a \/ c = a
      BY <3>1, <3>2
    <3>3. CASE b # a /\ c # a
      <4>1. lib.heap[b] # 0 /\ lib.heap[b] = lib.heap[c]
        BY <3>3
      <4> QED
        BY <1>1, <4>1 DEF Watched, Distinct
    <3> QED
      BY <3>2, <3>3
  <2>2. Placed'
    BY <1>1, <1>3, <1>6 DEF Watched, Placed
  <2>3. EventTrue'
    BY <1>3 DEF EventTrue
  <2>4. SessionsCared'
    BY <1>1, <1>3 DEF Watched, SessionsCared, Cared, Live
  <2>5. StraysUnknown'
    <3>1. strays' \subseteq strays \cup {made + 1} /\ strays' \subseteq 1 .. made + 1
      BY <1>2
    <3>2. call.gen # made + 1 /\ reg.gen # made + 1 /\ (evt.kind = "CONNECT" => evt.gen # made + 1)
      BY <1>2, PointerParts
    <3>3. \A b \in Addrs : \A i \in 1 .. Len(lib'.queue[b]) :
            lib'.queue[b][i] = "CONNECT" => lib'.heap[b] \notin strays'
      <4> SUFFICES ASSUME NEW b \in Addrs, NEW i \in 1 .. Len(lib'.queue[b]),
                          lib'.queue[b][i] = "CONNECT"
                   PROVE  lib'.heap[b] \notin strays'
        OBVIOUS
      <4>1. CASE b = a
        BY <1>2, <4>1
      <4>2. CASE b # a
        <5>1. lib.heap[b] \notin strays /\ lib.heap[b] # made + 1
          BY <1>1, <1>2, <1>5, <4>2 DEF Watched, StraysUnknown
        <5> QED
          BY <3>1, <4>2, <5>1
      <4> QED
        BY <4>1, <4>2
    <3> QED
      BY <1>1, <1>3, <3>1, <3>2, <3>3 DEF Watched, StraysUnknown
  <2>6. Pinged'
    BY <1>1, <1>3 DEF Watched, Pinged, Live
  <2> QED
    BY <2>1, <2>2, <2>3, <2>4, <2>5, <2>6 DEF Watched
<1>8. ASSUME ~world.reuse
      PROVE  Owned'
  <2>1. Owned
    BY <1>8 DEF IInv
  <2>2. lib.heap[a] = 0 /\ a = made + 1 /\ call.addr # a /\ reg.addr # a
    BY <1>1, <1>3, <1>8, <2>1, FreshAddress DEF Owned
  <2>3. Sound(lib, made)'
    BY <1>3, <2>1, <2>2 DEF Owned, Sound, Valid
  <2>4. CallersNew'
    BY <1>3, <2>1, <2>2 DEF Owned, CallersNew
  <2>5. PointersOwned'
    BY <1>3, <2>1, <2>2 DEF Owned, PointersOwned, Valid, Dropping
  <2>6. Addressed' /\ HungUpGone' /\ (badUse => world.waveFails)'
    BY <1>3, <2>1 DEF Owned, Addressed, Named, HungUpGone
  <2> QED
    BY <2>3, <2>4, <2>5, <2>6 DEF Owned
<1> QED
  BY <1>3, <1>4, <1>7, <1>8 DEF IInv

(* What iax_session_new leaves when the frame queues events. *)
LEMMA OpenedOp ==
  ASSUME Shape, NEW a \in Addrs, NEW events \in Seq(Queued), lib' = Create(lib, a, events)
  PROVE  /\ lib' \in LibOf(made + 1)
         /\ \A b \in Addrs : /\ lib'.heap[b] = IF b = a THEN made + 1 ELSE lib.heap[b]
                             /\ lib'.queue[b] = IF b = a THEN events ELSE lib.queue[b]
         /\ Sound(lib, made) /\ a = made + 1 => Sound(lib', made + 1)
<1>1. made \in Nat /\ lib \in LibOf(made)
  BY Parts
<1>2. lib' \in LibOf(made + 1)
  BY <1>1, CreateOp
<1>3. \A b \in Addrs : /\ lib'.heap[b] = IF b = a THEN made + 1 ELSE lib.heap[b]
                       /\ lib'.queue[b] = IF b = a THEN events ELSE lib.queue[b]
  BY <1>1, CreateAt
<1>4. Sound(lib, made) /\ a = made + 1 => Sound(lib', made + 1)
  BY <1>1, CreateSound
<1> QED
  BY <1>2, <1>3, <1>4

(* A caller appears: its CONNECT is queued. *)
LEMMA NewCallKeeps ==
  ASSUME IInv, NEW a \in Addrs, NewCall(a)
  PROVE  IInv'
<1> DEFINE events == <<"CONNECT">>
<1>1. events \in Seq(Queued) /\ events # << >> /\ \A i \in 1 .. Len(events) : i = 1
  BY DEF Queued
<1>2. Shape
  BY DEF IInv
<1>3. /\ FromUnknown(a) /\ lib' = Create(lib, a, events) /\ strays' = strays
      /\ UNCHANGED <<world, main, gone, timedOut, badUse>>
  BY DEF NewCall
<1> HIDE DEF events
<1>4. /\ lib' \in LibOf(made + 1)
      /\ \A b \in Addrs : /\ lib'.heap[b] = IF b = a THEN made + 1 ELSE lib.heap[b]
                          /\ lib'.queue[b] = IF b = a THEN events ELSE lib.queue[b]
      /\ Sound(lib, made) /\ a = made + 1 => Sound(lib', made + 1)
  BY <1>1, <1>2, <1>3, OpenedOp
<1> QED
  BY <1>1, <1>3, <1>4, UnknownKeeps

(* A stray frame opens a session that the service hears of at its end at most. *)
LEMMA StrayKeeps ==
  ASSUME IInv, NEW a \in Addrs, Stray(a)
  PROVE  IInv'
<1>1. Shape
  BY DEF IInv
<1>2. /\ FromUnknown(a) /\ strays' = strays \cup {made + 1}
      /\ UNCHANGED <<world, main, gone, timedOut, badUse>>
  BY DEF Stray
<1>3. ASSUME NEW events \in Seq(Queued), \A i \in 1 .. Len(events) : events[i] # "CONNECT",
             lib' \in LibOf(made + 1),
             \A b \in Addrs : /\ lib'.heap[b] = IF b = a THEN made + 1 ELSE lib.heap[b]
                              /\ lib'.queue[b] = IF b = a THEN events ELSE lib.queue[b],
             Sound(lib, made) /\ a = made + 1 => Sound(lib', made + 1)
      PROVE  IInv'
  BY <1>2, <1>3, UnknownKeeps
<1> DEFINE none == << >>
           end == <<"HANGUP">>
<1>4. none \in Seq(Queued) /\ \A i \in 1 .. Len(none) : none[i] # "CONNECT"
  OBVIOUS
<1>5. end \in Seq(Queued) /\ \A i \in 1 .. Len(end) : end[i] # "CONNECT"
  BY DEF Queued
<1>6. CASE lib' \in Registered(lib, a)
  <2>1. /\ made \in Nat /\ world.sessions \in Nat /\ made < world.sessions /\ lib \in LibOf(made)
    BY <1>1, <1>2, Parts DEF FromUnknown
  <2>2. /\ lib' \in LibOf(made + 1)
        /\ \A b \in Addrs : /\ lib'.heap[b] = IF b = a THEN made + 1 ELSE lib.heap[b]
                            /\ lib'.queue[b] = IF b = a THEN none ELSE lib.queue[b]
        /\ Sound(lib, made) /\ a = made + 1 => Sound(lib', made + 1)
    BY <1>6, <2>1, RegisteredOp
  <2> HIDE DEF none
  <2> QED
    BY <1>3, <1>4, <2>2
<1>7. CASE lib' = Create(lib, a, end)
  <2> HIDE DEF end
  <2>1. /\ lib' \in LibOf(made + 1)
        /\ \A b \in Addrs : /\ lib'.heap[b] = IF b = a THEN made + 1 ELSE lib.heap[b]
                            /\ lib'.queue[b] = IF b = a THEN end ELSE lib.queue[b]
        /\ Sound(lib, made) /\ a = made + 1 => Sound(lib', made + 1)
    BY <1>1, <1>5, <1>7, OpenedOp
  <2> QED
    BY <1>3, <1>5, <2>1
<1> QED
  BY <1>6, <1>7 DEF Stray, Registered

(* The NEW that a stray frame had overtaken makes a caller of its session. *)
LEMMA LateNewKeeps ==
  ASSUME IInv, NEW a \in Addrs, LateNew(a)
  PROVE  IInv'
<1>1. Shape /\ Watched
  BY DEF IInv
<1>2. /\ made \in Nat /\ lib \in LibOf(made) /\ lib.queue \in [Addrs -> Seq(Queued)]
      /\ call \in Pointers(made) /\ reg \in Pointers(made)
  BY <1>1, Parts
<1> DEFINE q == <<"CONNECT">>
           g == lib.heap[a]
<1>3. /\ pc = "idle" /\ a \in Live(lib) /\ g \in strays
      /\ lib' = [lib EXCEPT !.queue[a] = q] /\ strays' = strays \ {g}
      /\ UNCHANGED <<world, pings, made, call, reg, evt, pc, gone, timedOut, badUse>>
  BY DEF LateNew, main
<1>4. q \in Seq(Queued) /\ q # << >> /\ \A i \in 1 .. Len(q) : i = 1
  BY DEF Queued
<1> HIDE DEF q
<1>5. lib' = [lib EXCEPT !.queue = [lib.queue EXCEPT ![a] = q]]
  BY <1>2, <1>3 DEF LibOf
<1>6. lib' \in LibOf(made) /\ lib'.heap = lib.heap /\ lib'.frames = lib.frames
  <2>1. [lib.queue EXCEPT ![a] = q] \in [Addrs -> Seq(Queued)]
    BY <1>2, <1>4
  <2> QED
    BY <1>2, <1>5, <2>1 DEF LibOf
<1>7. \A b \in Addrs : lib'.queue[b] = IF b = a THEN q ELSE lib.queue[b]
  BY <1>2, <1>5 DEF LibOf
<1>8. Shape'
  <2>1. strays' \subseteq Gens
    BY <1>1, <1>3, Parts
  <2> QED
    BY <1>1, <1>3, <1>6, <2>1, Parts, ShapeStep
<1>9. Watched'
  <2>1. Distinct' /\ Placed' /\ EventTrue' /\ Pinged'
    BY <1>1, <1>3, <1>6 DEF Watched, Distinct, Placed, EventTrue, Pinged, Live
  <2>2. \A b \in Addrs : b # a /\ lib.heap[b] # 0 => lib.heap[b] # g
    BY <1>1, <1>3 DEF Watched, Distinct, Live
  <2>3. SessionsCared'
    BY <1>1, <1>3, <1>4, <1>6, <1>7, <2>2 DEF Watched, SessionsCared, Cared, Live
  <2>4. StraysUnknown'
    BY <1>1, <1>3, <1>6, <1>7 DEF Watched, StraysUnknown
  <2> QED
    BY <2>1, <2>3, <2>4 DEF Watched
<1>10. ASSUME ~world.reuse
       PROVE  Owned'
  <2>1. Owned
    BY <1>10 DEF IInv
  <2>2. Sound(lib, made)'
    BY <1>3, <1>6, <2>1 DEF Owned, Sound, Valid
  <2>3. call.addr # a /\ reg.addr # a
    <3>1. g = a /\ call.gen # g /\ reg.gen # g
      BY <1>1, <1>3, <2>1 DEF Owned, Sound, Live, Watched, StraysUnknown
    <3> QED
      BY <1>2, <2>1, <3>1, PointerParts DEF Owned, Addressed, Named
  <2>4. CallersNew'
    BY <1>3, <1>4, <1>7, <2>1, <2>3 DEF Owned, CallersNew
  <2>5. PointersOwned' /\ Addressed' /\ HungUpGone' /\ (badUse => world.waveFails)'
    BY <1>3, <1>6, <2>1 DEF Owned, PointersOwned, Valid, Dropping, Addressed, Named, HungUpGone
  <2> QED
    BY <2>2, <2>4, <2>5 DEF Owned
<1> QED
  BY <1>3, <1>8, <1>9, <1>10 DEF IInv

(* A POKE from somebody unknown: its session is gone again at once. *)
LEMMA PokeKeeps ==
  ASSUME IInv, NEW a \in Addrs, Poke(a)
  PROVE  IInv'
<1>1. Shape /\ Watched
  BY DEF IInv
<1>2. /\ made \in Nat /\ world.sessions \in Nat /\ lib \in LibOf(made)
      /\ call \in Pointers(made) /\ reg \in Pointers(made) /\ evt \in Events(made)
  BY <1>1, Parts
<1>3. /\ pc = "idle" /\ made < world.sessions /\ MayAllocate(lib, a)
      /\ lib' = Destroy(SendFrame(Create(lib, a, << >>), a, FALSE), a)
      /\ pings' = pings \cup {a} /\ made' = made + 1
      /\ UNCHANGED <<world, call, reg, evt, pc, gone, strays, timedOut, badUse>>
  BY DEF Poke, FromUnknown, main
<1> DEFINE s == SendFrame(Create(lib, a, << >>), a, FALSE)
<1>4. s \in Registered(lib, a)
  BY DEF Registered
<1>5. /\ s \in LibOf(made + 1)
      /\ \A b \in Addrs : /\ s.heap[b] = IF b = a THEN made + 1 ELSE lib.heap[b]
                          /\ s.queue[b] = IF b = a THEN << >> ELSE lib.queue[b]
  BY <1>2, <1>3, <1>4, RegisteredOp
<1>6. lib' = Destroy(s, a)
  BY <1>3
<1>7. made + 1 \in Nat
  BY <1>2
<1> HIDE DEF s
<1>8. lib' \in LibOf(made + 1)
  BY <1>5, <1>6, <1>7, DestroyOp
<1>9. lib.heap[a] = 0
  BY <1>1, <1>3, FreshAddress
<1>10. \A b \in Addrs : /\ lib'.heap[b] = lib.heap[b]
                        /\ lib'.queue[b] = IF b = a THEN << >> ELSE lib.queue[b]
  BY <1>5, <1>6, <1>7, <1>9, DestroyAt
<1>11. lib'.heap = lib.heap
  <2>1. lib.heap \in [Addrs -> 0 .. made] /\ lib'.heap \in [Addrs -> 0 .. made + 1]
    BY <1>2, <1>8, LibFields
  <2> QED
    BY <1>10, <2>1
<1>12. Shape'
  <2>1. Pointers(made) \subseteq Pointers(made + 1) /\ Events(made) \subseteq Events(made + 1)
    BY <1>2 DEF Pointers, Events
  <2>2. made' \in Nat /\ made' <= world.sessions /\ pings' \subseteq Addrs
    BY <1>1, <1>2, <1>3, Parts
  <2> QED
    BY <1>1, <1>2, <1>3, <1>8, <2>1, <2>2, Parts, ShapeStep
<1>13. Watched'
  <2>1. Distinct' /\ Placed'
    BY <1>1, <1>3, <1>11, ZenonT(40) DEF Watched, Distinct, Placed
  <2>2. EventTrue'
    BY <1>3 DEF EventTrue
  <2>3. SessionsCared'
    BY <1>1, <1>3, <1>9, <1>10, <1>11 DEF Watched, SessionsCared, Cared, Live
  <2>7. StraysUnknown'
    <3>1. 1 .. made \subseteq 1 .. made'
      BY <1>2, <1>3
    <3> QED
      BY <1>1, <1>3, <1>10, <1>11, <3>1, StraysKept DEF Watched, StraysUnknown
  <2>8. Pinged'
    BY <1>1, <1>3, <1>9, <1>10, <1>11 DEF Watched, Pinged, Live
  <2> QED
    BY <2>1, <2>2, <2>3, <2>7, <2>8 DEF Watched
<1>14. ASSUME ~world.reuse
       PROVE  Owned'
  <2>1. Owned
    BY <1>14 DEF IInv
  <2>2. a = made + 1
    BY <1>1, <1>3, <1>14, FreshAddress
  <2>3. Sound(lib, made)'
    <3>1. Sound(s, made + 1)
      BY <1>2, <1>3, <1>4, <2>1, <2>2, RegisteredOp DEF Owned
    <3>2. Sound(Destroy(s, a), made + 1)
      BY <1>5, <1>7, <3>1, DestroySound
    <3>3. Sound(lib', made + 1)
      BY <1>6, <3>2
    <3> QED
      BY <1>3, <3>3 DEF Sound, Valid
  <2>4. CallersNew'
    BY <1>3, <1>10, <2>1, FewerCallers DEF Owned
  <2>5. PointersOwned'
    BY <1>3, <1>11, <2>1 DEF Owned, PointersOwned, Valid, Dropping
  <2>6. Addressed' /\ HungUpGone' /\ (badUse => world.waveFails)'
    BY <1>3, <2>1 DEF Owned, Addressed, Named, HungUpGone
  <2> QED
    BY <2>3, <2>4, <2>5, <2>6 DEF Owned
<1> QED
  BY <1>3, <1>12, <1>13, <1>14 DEF IInv

(* A HANGUP, a REJECT or an INVAL is queued behind what is there. *)
LEMMA PeerEndsKeeps ==
  ASSUME IInv, NEW a \in Addrs, PeerEnds(a)
  PROVE  IInv'
<1>1. Shape /\ Watched
  BY DEF IInv
<1>2. /\ made \in Nat /\ lib \in LibOf(made) /\ lib.queue \in [Addrs -> Seq(Queued)]
  BY <1>1, Parts
<1>3. /\ pc = "idle" /\ a \in Live(lib)
      /\ lib' = [lib EXCEPT !.queue[a] = Append(@, "HANGUP")]
      /\ UNCHANGED <<world, pings, made, call, reg, evt, pc, gone, strays, timedOut, badUse>>
  BY DEF PeerEnds, main
<1> DEFINE q == Append(lib.queue[a], "HANGUP")
<1>4. q \in Seq(Queued) /\ Len(q) = Len(lib.queue[a]) + 1 /\ q # << >>
  BY <1>2 DEF Queued
<1>5. \A i \in 1 .. Len(q) : q[i] = "CONNECT" => i \in 1 .. Len(lib.queue[a]) /\ q[i] = lib.queue[a][i]
  <2>1. lib.queue[a] \in Seq(Queued) /\ "HANGUP" \in Queued
    BY <1>2 DEF Queued
  <2>2. \A i \in 1 .. Len(q) : q[i] = IF i = Len(lib.queue[a]) + 1 THEN "HANGUP" ELSE lib.queue[a][i]
    BY <2>1, AppendProperties
  <2> QED
    BY <1>4, <2>1, <2>2, LenProperties
<1>6. lib' = [lib EXCEPT !.queue = [lib.queue EXCEPT ![a] = q]]
  BY <1>2, <1>3 DEF LibOf
<1> HIDE DEF q
<1>7. lib' \in LibOf(made) /\ lib'.heap = lib.heap /\ lib'.frames = lib.frames
  <2>1. [lib.queue EXCEPT ![a] = q] \in [Addrs -> Seq(Queued)]
    BY <1>2, <1>4
  <2> QED
    BY <1>2, <1>6, <2>1 DEF LibOf
<1>8. \A b \in Addrs : lib'.queue[b] = IF b = a THEN q ELSE lib.queue[b]
  BY <1>2, <1>6 DEF LibOf
<1>9. Shape'
  BY <1>1, <1>3, <1>7, Parts, ShapeStep
<1>10. Watched'
  <2>1. Distinct' /\ Placed' /\ EventTrue'
    BY <1>1, <1>3, <1>7 DEF Watched, Distinct, Placed, EventTrue
  <2>2. SessionsCared'
    BY <1>1, <1>3, <1>4, <1>7, <1>8 DEF Watched, SessionsCared, Cared, Live
  <2>7. StraysUnknown'
    BY <1>1, <1>3, <1>4, <1>7, <1>8 DEF Watched, StraysUnknown
  <2>8. Pinged'
    BY <1>1, <1>3, <1>4, <1>7, <1>8 DEF Watched, Pinged, Live
  <2> QED
    BY <2>1, <2>2, <2>7, <2>8 DEF Watched
<1>11. ASSUME ~world.reuse
       PROVE  Owned'
  <2>1. Owned
    BY <1>11 DEF IInv
  <2>2. Sound(lib, made)'
    BY <1>3, <1>7, <2>1 DEF Owned, Sound, Valid
  <2>3. CallersNew'
    BY <1>3, <1>5, <1>8, <2>1 DEF Owned, CallersNew
  <2>4. PointersOwned' /\ Addressed' /\ HungUpGone' /\ (badUse => world.waveFails)'
    BY <1>3, <1>7, <2>1 DEF Owned, PointersOwned, Valid, Dropping, Addressed, Named, HungUpGone
  <2> QED
    BY <2>2, <2>3, <2>4 DEF Owned
<1> QED
  BY <1>3, <1>9, <1>10, <1>11 DEF IInv

(* A frame leaves the schedule; a final one takes a session with it, which an
   address that is not handed out again no longer has. *)
LEMMA FrameDoneKeeps ==
  ASSUME IInv, NEW f \in lib.frames, FrameDone(f)
  PROVE  IInv'
<1>1. Shape /\ Watched
  BY DEF IInv
<1>2. /\ made \in Nat /\ lib \in LibOf(made) /\ lib.frames \subseteq Frame
      /\ gone \subseteq Gens /\ pings \subseteq Addrs /\ badUse \in BOOLEAN
  BY <1>1, Parts
<1> DEFINE F == lib.frames \ {f}
           l == [lib EXCEPT !.frames = F]
<1>3. /\ pc = "idle" /\ lib' = IF f.final THEN Destroy(l, f.addr) ELSE l
      /\ UNCHANGED <<world, pings, made, call, reg, evt, pc, gone, strays, timedOut, badUse>>
  BY DEF FrameDone, main
<1>4. F \in SUBSET Frame /\ \A g \in F : \E h \in lib.frames : g = h
  BY <1>2
<1> HIDE DEF F
<1>5. l \in LibOf(made) /\ l.heap = lib.heap /\ l.queue = lib.queue /\ l.frames = F
  BY <1>2, <1>4, FramesOp
<1> HIDE DEF l
<1>6. Sound(lib, made) => Sound(l, made)
  BY <1>2, <1>4, <1>5, FramesSound
<1>7. CASE ~f.final
  BY <1>2, <1>3, <1>5, <1>6, <1>7, QuietStep DEF Owned
<1>8. CASE f.final
  <2>1. f.addr \in Addrs
    BY <1>2 DEF Frame
  <2>2. lib' = Destroy(l, f.addr) /\ lib' \in LibOf(made)
    BY <1>2, <1>3, <1>5, <1>8, <2>1, DestroyOp
  <2>3. \A b \in Addrs : /\ lib'.heap[b] = IF b = f.addr THEN 0 ELSE lib.heap[b]
                         /\ lib'.queue[b] = IF b = f.addr THEN << >> ELSE lib.queue[b]
    BY <1>2, <1>5, <2>1, <2>2, DestroyAt
  <2>4. Shape'
    BY <1>1, <1>3, <2>2, Parts, ShapeStep
  <2>5. Watched'
    <3>1. \A ref \in {call, reg} : ref # NoRef => ref.gen # 0
      BY <1>1, <1>2, Parts, PointerParts
    <3>2. Distinct' /\ Placed'
      BY <1>1, <1>3, <2>3, <3>1 DEF Watched, Distinct, Placed
    <3>3. EventTrue'
      BY <1>3 DEF EventTrue
    <3>4. SessionsCared'
      BY <1>1, <1>3, <2>3 DEF Watched, SessionsCared, Cared, Live
    <3>7. StraysUnknown'
      BY <1>1, <1>3, <2>3 DEF Watched, StraysUnknown
    <3>8. Pinged'
      BY <1>1, <1>3, <2>3 DEF Watched, Pinged, Live
    <3> QED
      BY <3>2, <3>3, <3>4, <3>7, <3>8 DEF Watched
  <2>6. ASSUME ~world.reuse
        PROVE  Owned'
    <3>1. Owned
      BY <2>6 DEF IInv
    <3>2. lib.heap[f.addr] = 0
      BY <1>8, <3>1 DEF Owned, Sound
    <3>3. Sound(lib', made)
      BY <1>2, <1>5, <1>6, <2>1, <2>2, <3>1, DestroySound DEF Owned
    <3>4. Sound(lib, made)'
      BY <1>3, <3>3 DEF Sound, Valid
    <3>5. CallersNew'
      BY <1>3, <2>3, <3>1 DEF Owned, CallersNew
    <3>6. PointersOwned'
      BY <1>3, <2>3, <3>1, <3>2 DEF Owned, PointersOwned, Valid, Dropping
    <3>7. Addressed' /\ HungUpGone' /\ (badUse => world.waveFails)'
      BY <1>3, <3>1 DEF Owned, Addressed, Named, HungUpGone
    <3> QED
      BY <3>4, <3>5, <3>6, <3>7 DEF Owned
  <2> QED
    BY <1>3, <2>4, <2>5, <2>6 DEF IInv
<1> QED
  BY <1>7, <1>8

(* A frame was sent often enough: the loop is told, if there is a session. *)
LEMMA FrameTimeoutKeeps ==
  ASSUME IInv, NEW f \in lib.frames, FrameTimeout(f)
  PROVE  IInv'
<1>1. Shape /\ Watched
  BY DEF IInv
<1>2. /\ made \in Nat /\ lib \in LibOf(made) /\ lib.frames \subseteq Frame
      /\ lib.heap \in [Addrs -> 0 .. made] /\ made <= world.sessions /\ world.sessions \in Nat
      /\ gone \subseteq Gens /\ strays \subseteq Gens /\ timedOut \subseteq Gens /\ pings \subseteq Addrs /\ badUse \in BOOLEAN
  BY <1>1, Parts
<1> DEFINE F == lib.frames \ {f}
           g == lib.heap[f.addr]
<1>3. /\ pc = "idle" /\ lib' = [lib EXCEPT !.frames = F]
      /\ UNCHANGED <<world, pings, made, call, reg, gone, strays, badUse>>
  BY DEF FrameTimeout
<1>4. F \in SUBSET Frame /\ \A h \in F : \E k \in lib.frames : h = k
  BY <1>2
<1> HIDE DEF F
<1>5. lib' \in LibOf(made) /\ lib'.heap = lib.heap /\ lib'.queue = lib.queue /\ lib'.frames = F
  BY <1>2, <1>3, <1>4, FramesOp
<1>6. Sound(lib, made) => Sound(lib', made)
  BY <1>2, <1>4, <1>5, FramesSound
<1>7. CASE f.addr \notin Live(lib)
  <2>1. UNCHANGED <<evt, pc, strays, timedOut>>
    BY <1>7 DEF FrameTimeout
  <2> QED
    BY <1>2, <1>3, <1>5, <1>6, <2>1, QuietStep DEF Owned
<1>8. CASE f.addr \in Live(lib)
  <2>1. /\ evt' = [kind |-> "TIMEOUT", addr |-> f.addr, gen |-> g]
        /\ pc' = "event" /\ timedOut' = timedOut \cup {g}
    BY <1>8 DEF FrameTimeout
  <2>2. f.addr \in Addrs /\ g \in 1 .. made /\ g \in Gens
    BY <1>2, <1>8 DEF Live, Gens
  <2>3. evt' \in Events(made) /\ evt' # NoEvt
    BY <2>1, <2>2 DEF Events, Kinds, NoEvt
  <2>4. Shape'
    <3>1. timedOut' \subseteq Gens
      BY <1>2, <2>1, <2>2
    <3> QED
      BY <1>1, <1>3, <1>5, <2>1, <2>3, <3>1, Parts, ShapeStep
  <2>5. Watched'
    <3>1. Distinct' /\ Placed'
      BY <1>1, <1>3, <1>5 DEF Watched, Distinct, Placed
    <3>2. EventTrue'
      BY <1>5, <2>1, <2>2 DEF EventTrue, Valid
    <3>3. SessionsCared'
      BY <1>1, <1>3, <1>5, <2>1 DEF Watched, SessionsCared, Cared, Live
    <3>7. StraysUnknown'
      BY <1>1, <1>3, <1>5, <2>1 DEF Watched, StraysUnknown
    <3>8. Pinged'
      BY <1>1, <1>3, <1>5, <2>1 DEF Watched, Pinged, Live
    <3> QED
      BY <3>1, <3>2, <3>3, <3>7, <3>8 DEF Watched
  <2>6. ASSUME ~world.reuse
        PROVE  Owned'
    <3>1. Owned
      BY <2>6 DEF IInv
    <3>2. Sound(lib, made)'
      BY <1>3, <1>6, <3>1 DEF Owned, Sound, Valid
    <3>3. g = f.addr
      BY <2>2, <3>1 DEF Owned, Sound
    <3>4. Addressed'
      BY <1>3, <2>1, <3>1, <3>3 DEF Owned, Addressed, Named
    <3>5. CallersNew'
      BY <1>3, <1>5, <2>1, <3>1 DEF Owned, CallersNew
    <3>6. PointersOwned'
      BY <1>3, <1>5, <3>1 DEF Owned, PointersOwned, Valid, Dropping
    <3>7. HungUpGone' /\ (badUse => world.waveFails)'
      BY <1>3, <2>1, <3>1 DEF Owned, HungUpGone
    <3> QED
      BY <3>2, <3>4, <3>5, <3>6, <3>7 DEF Owned
  <2> QED
    BY <1>3, <2>4, <2>5, <2>6 DEF IInv
<1> QED
  BY <1>7, <1>8

(* The next event of a session's jitterbuffer reaches the loop; a HANGUP has
   destroyed its session by then. *)
LEMMA DeliverKeeps ==
  ASSUME IInv, NEW a \in Addrs, Deliver(a)
  PROVE  IInv'
<1>1. Shape /\ Watched
  BY DEF IInv
<1>2. /\ made \in Nat /\ lib \in LibOf(made) /\ lib.queue \in [Addrs -> Seq(Queued)]
      /\ lib.heap \in [Addrs -> 0 .. made]
      /\ call \in Pointers(made) /\ reg \in Pointers(made)
  BY <1>1, Parts
<1> DEFINE kind == Head(lib.queue[a])
           q == Tail(lib.queue[a])
           g == lib.heap[a]
           l == [lib EXCEPT !.queue[a] = q]
<1>3. /\ pc = "idle" /\ pc' = "event" /\ a \in Live(lib) /\ lib.queue[a] # << >>
      /\ lib' = (IF kind = "HANGUP" THEN Destroy(l, a) ELSE l)
      /\ evt' = [kind |-> kind, addr |-> a, gen |-> g]
      /\ UNCHANGED <<world, pings, made, call, reg, gone, strays, timedOut, badUse>>
  BY DEF Deliver
<1>4. g \in 1 .. made /\ g # 0
  BY <1>2, <1>3 DEF Live
<1>5. /\ kind \in Queued /\ kind = lib.queue[a][1] /\ q \in Seq(Queued)
      /\ \A i \in 1 .. Len(q) : i + 1 \in 1 .. Len(lib.queue[a]) /\ q[i] = lib.queue[a][i + 1] /\ i + 1 # 1
      /\ 1 \in 1 .. Len(lib.queue[a])
  <2>1. lib.queue[a] \in Seq(Queued) /\ lib.queue[a] # << >>
    BY <1>2, <1>3
  <2> QED
    BY <2>1, HeadTailProperties
<1> HIDE DEF kind, q, g
<1>6. /\ l \in LibOf(made) /\ l.heap = lib.heap /\ l.frames = lib.frames
      /\ \A b \in Addrs : l.queue[b] = IF b = a THEN q ELSE lib.queue[b]
  <2>1. [lib.queue EXCEPT ![a] = q] \in [Addrs -> Seq(Queued)]
    BY <1>2, <1>5
  <2>2. l = [lib EXCEPT !.queue = [lib.queue EXCEPT ![a] = q]]
    BY <1>2 DEF LibOf
  <2>3. \A b \in Addrs : [lib.queue EXCEPT ![a] = q][b] = IF b = a THEN q ELSE lib.queue[b]
    BY <1>2
  <2> HIDE DEF l
  <2> QED
    BY <1>2, <2>1, <2>2, <2>3 DEF LibOf
<1> HIDE DEF l
<1>7. evt' \in Events(made) /\ evt' # NoEvt
  BY <1>3, <1>4, <1>5 DEF Events, Kinds, NoEvt, Queued
<1>8. ASSUME lib' \in LibOf(made)
      PROVE  Shape'
  BY <1>1, <1>3, <1>7, <1>8, Parts, ShapeStep
<1>9. ASSUME ~world.reuse, Owned
      PROVE  Sound(l, made) /\ g = a
  BY <1>2, <1>4, <1>6, <1>9 DEF Owned, Sound, Valid, g
<1>10. CASE kind = "CONNECT"
  <2>1. lib' = l
    BY <1>3, <1>10
  <2>2. Shape'
    BY <1>6, <1>8, <2>1
  <2>3. Watched'
    <3>1. Distinct' /\ Placed'
      BY <1>1, <1>3, <1>6, <2>1 DEF Watched, Distinct, Placed
    <3>2. EventTrue'
      BY <1>3, <1>4, <1>6, <1>10, <2>1 DEF EventTrue, Valid, g
    <3>3. SessionsCared'
      BY <1>1, <1>3, <1>6, <1>10, <2>1 DEF Watched, SessionsCared, Cared, Live
    <3>7. StraysUnknown'
      <4>1. g \notin strays
        BY <1>1, <1>3, <1>5, <1>10 DEF Watched, StraysUnknown, g
      <4>2. \A i \in 1 .. Len(q) : q[i] = "CONNECT" => lib.heap[a] \notin strays
        BY <4>1 DEF g
      <4> QED
        BY <1>1, <1>3, <1>6, <2>1, <4>1, <4>2 DEF Watched, StraysUnknown
    <3>8. Pinged'
      BY <1>1, <1>3, <1>6, <1>10, <2>1 DEF Watched, Pinged, Live
    <3> QED
      BY <3>1, <3>2, <3>3, <3>7, <3>8 DEF Watched
  <2>4. ASSUME ~world.reuse
        PROVE  Owned'
    <3>1. Owned
      BY <2>4 DEF IInv
    <3>2. Sound(lib, made)'
      BY <1>3, <1>9, <2>1, <2>4, <3>1 DEF Sound, Valid
    <3>3. Addressed'
      BY <1>3, <1>9, <2>4, <3>1 DEF Owned, Addressed, Named
    <3>4. /\ call.addr # a /\ reg.addr # a
          /\ \A i \in 1 .. Len(q) : q[i] # "CONNECT"
      BY <1>5, <1>10, <3>1, ZenonT(40) DEF Owned, CallersNew
    <3>5. CallersNew'
      <4>1. \A b \in Addrs : \A i \in 1 .. Len(lib'.queue[b]) : lib'.queue[b][i] = "CONNECT" =>
              i = 1 /\ call.addr # b /\ reg.addr # b /\ b # a
        BY <1>6, <2>1, <3>1, <3>4 DEF Owned, CallersNew
      <4> QED
        BY <1>3, <3>4, <4>1 DEF CallersNew
    <3>6. PointersOwned'
      BY <1>3, <1>6, <2>1, <3>1 DEF Owned, PointersOwned, Valid, Dropping
    <3>7. HungUpGone' /\ (badUse => world.waveFails)'
      BY <1>3, <3>1 DEF Owned, HungUpGone
    <3> QED
      BY <3>2, <3>3, <3>5, <3>6, <3>7 DEF Owned
  <2> QED
    BY <1>3, <2>2, <2>3, <2>4 DEF IInv
<1>11. CASE kind = "HANGUP"
  <2>1. lib' = Destroy(l, a)
    BY <1>3, <1>11
  <2>2. lib' \in LibOf(made)
    BY <1>2, <1>6, <2>1, DestroyOp
  <2>3. \A b \in Addrs : /\ lib'.heap[b] = IF b = a THEN 0 ELSE lib.heap[b]
                         /\ lib'.queue[b] = IF b = a THEN << >> ELSE lib.queue[b]
    BY <1>2, <1>6, <2>1, DestroyAt
  <2>4. Shape'
    BY <1>8, <2>2
  <2>5. Watched'
    <3>1. \A ref \in {call, reg} : ref # NoRef => ref.gen # 0
      BY <1>2, PointerParts
    <3>2. Distinct' /\ Placed'
      BY <1>1, <1>3, <2>3, <3>1 DEF Watched, Distinct, Placed
    <3>3. EventTrue'
      BY <1>3, <1>11, <2>3 DEF EventTrue
    <3>4. SessionsCared'
      BY <1>1, <1>3, <2>3 DEF Watched, SessionsCared, Cared, Live
    <3>7. StraysUnknown'
      BY <1>1, <1>3, <1>11, <2>3, StraysKept DEF Watched
    <3>8. Pinged'
      BY <1>1, <1>3, <2>3 DEF Watched, Pinged, Live
    <3> QED
      BY <3>2, <3>3, <3>4, <3>7, <3>8 DEF Watched
  <2>6. ASSUME ~world.reuse
        PROVE  Owned'
    <3>1. Owned
      BY <2>6 DEF IInv
    <3>2. Sound(lib', made)
      BY <1>2, <1>6, <1>9, <2>1, <2>6, <3>1, DestroySound
    <3>3. Sound(lib, made)'
      BY <1>3, <3>2 DEF Sound, Valid
    <3>4. Addressed'
      BY <1>3, <1>9, <2>6, <3>1 DEF Owned, Addressed, Named
    <3>5. CallersNew'
      <4>1. Len(<< >>) = 0
        OBVIOUS
      <4>2. \A b \in Addrs : \A i \in 1 .. Len(lib'.queue[b]) :
              lib'.queue[b] = lib.queue[b] /\ i \in 1 .. Len(lib.queue[b])
        BY <2>3, <4>1
      <4> QED
        BY <1>3, <1>11, <3>1, <4>2 DEF Owned, CallersNew
    <3>6. PointersOwned'
      BY <1>3, <1>11, <2>3, <3>1 DEF Owned, PointersOwned, Valid, Dropping
    <3>7. HungUpGone' /\ (badUse => world.waveFails)'
      BY <1>3, <3>1 DEF Owned, HungUpGone
    <3> QED
      BY <3>3, <3>4, <3>5, <3>6, <3>7 DEF Owned
  <2> QED
    BY <1>3, <2>4, <2>5, <2>6 DEF IInv
<1> QED
  BY <1>5, <1>10, <1>11 DEF Queued

-----------------------------------------------------------------------------
(* Steps of the service *)

(* What the loop has in hand. *)
LEMMA EventInHand ==
  ASSUME Shape, pc \in {"event", "free"}
  PROVE  /\ evt # NoEvt /\ evt.addr \in Addrs /\ evt.gen \in 1 .. made /\ evt.kind \in Kinds
         /\ [addr |-> evt.addr, gen |-> evt.gen] \in Pointers(made)
         /\ [addr |-> evt.addr, gen |-> evt.gen] # NoRef
<1>1. evt # NoEvt /\ evt \in Events(made) /\ made \in Nat
  BY Parts
<1>2. evt.addr \in Addrs /\ evt.gen \in 1 .. made /\ evt.kind \in Kinds
  BY <1>1, PointerParts
<1>3. [addr |-> evt.addr, gen |-> evt.gen].gen # 0 /\ NoRef.gen = 0
  BY <1>1, <1>2 DEF NoRef
<1> QED
  BY <1>1, <1>2, <1>3 DEF Pointers

(* A caller is accepted: main.c points to its session. *)
LEMMA AcceptKeeps ==
  ASSUME IInv, Accept
  PROVE  IInv'
<1>1. Shape /\ Watched
  BY DEF IInv
<1>2. /\ made \in Nat /\ made <= world.sessions /\ world.sessions \in Nat
      /\ lib \in LibOf(made) /\ badUse \in BOOLEAN
  BY <1>1, Parts
<1> DEFINE ref == [addr |-> evt.addr, gen |-> evt.gen]
<1>3. /\ pc = "event" /\ evt.kind = "CONNECT" /\ call = NoRef /\ call' = ref
      /\ lib' = SendFrame(lib, evt.addr, FALSE)
      /\ badUse' = (badUse \/ ~Valid(lib, evt))
      /\ (pc' = "free" /\ evt' = evt) \/ (pc' = "leave" /\ evt' = NoEvt)
      /\ UNCHANGED <<world, pings, made, reg, gone, strays, timedOut>>
  BY DEF Accept
<1>4. /\ evt # NoEvt /\ evt.addr \in Addrs /\ evt.gen \in 1 .. made
      /\ ref \in Pointers(made) /\ ref # NoRef /\ ref.addr = evt.addr /\ ref.gen = evt.gen
  BY <1>1, <1>3, EventInHand
<1> HIDE DEF ref
<1>5. lib' \in LibOf(made) /\ lib'.heap = lib.heap /\ lib'.queue = lib.queue
  <2>1. lib' \in LibOf(made)
    BY <1>2, <1>3, <1>4, SendFrameOp
  <2> QED
    BY <1>2, <1>3, <1>4, <2>1, SendFrameFields
<1>6. Valid(lib, evt) /\ badUse' = badUse
  <2>1. Valid(lib, evt)
    BY <1>1, <1>3 DEF Watched, EventTrue
  <2> QED
    BY <1>2, <1>3, <2>1
<1>7. Shape'
  <2>1. evt' \in Events(made) /\ (pc' \in {"event", "free"} <=> evt' # NoEvt)
    BY <1>1, <1>3, <1>4, Parts DEF Events
  <2>2. pc' \in {"idle", "event", "free", "leave", "down"}
    BY <1>3
  <2> QED
    BY <1>1, <1>3, <1>4, <1>5, <1>6, <2>1, <2>2, Parts, ShapeStep
<1>8. Watched'
  <2>1. Distinct'
    BY <1>1, <1>5 DEF Watched, Distinct
  <2>2. Placed'
    <3>1. \A a \in Addrs : lib.heap[a] = ref.gen => a = ref.addr
      BY <1>1, <1>4, <1>6 DEF Watched, Distinct, Valid
    <3>2. reg # NoRef => \A a \in Addrs : lib.heap[a] = reg.gen => a = reg.addr
      BY <1>1 DEF Watched, Placed
    <3> QED
      BY <1>3, <1>5, <3>1, <3>2 DEF Placed
  <2>3. EventTrue'
    BY <1>3 DEF EventTrue
  <2>4. SessionsCared'
    BY <1>1, <1>3, <1>4, <1>5, <1>6, PointerParts DEF Watched, SessionsCared, Cared, Live, Valid
  <2>7. StraysUnknown'
    BY <1>1, <1>3, <1>4, <1>5, <1>6, PointerParts DEF Watched, StraysUnknown
  <2>8. Pinged'
    BY <1>1, <1>3, <1>4, <1>5, <1>6, PointerParts DEF Watched, Pinged, Live
  <2> QED
    BY <2>1, <2>2, <2>3, <2>4, <2>7, <2>8 DEF Watched
<1>9. ASSUME ~world.reuse
      PROVE  Owned'
  <2>1. Owned
    BY <1>9 DEF IInv
  <2>2. Sound(lib, made)'
    <3>1. evt.addr \in Live(lib)
      BY <1>6 DEF Valid, Live
    <3>2. Sound(lib', made)
      BY <1>2, <1>3, <2>1, <3>1, SendFrameSound DEF Owned
    <3> QED
      BY <1>3, <3>2 DEF Sound, Valid
  <2>3. Addressed'
    BY <1>3, <1>4, <2>1 DEF Owned, Addressed, Named
  <2>4. CallersNew'
    <3>1. \A a \in Addrs : \A i \in 1 .. Len(lib.queue[a]) : lib.queue[a][i] = "CONNECT" =>
            i = 1 /\ call'.addr # a /\ reg.addr # a
      BY <1>3, <1>4, <2>1 DEF Owned, CallersNew
    <3>2. pc' # "event"
      BY <1>3
    <3> QED
      BY <1>3, <1>5, <3>1, <3>2 DEF CallersNew
  <2>5. PointersOwned'
    BY <1>3, <1>4, <1>5, <1>6, <2>1 DEF Owned, PointersOwned, Valid, Dropping
  <2>6. HungUpGone' /\ (badUse => world.waveFails)'
    BY <1>3, <1>6, <2>1 DEF Owned, HungUpGone
  <2> QED
    BY <2>2, <2>3, <2>4, <2>5, <2>6 DEF Owned
<1> QED
  BY <1>3, <1>7, <1>8, <1>9 DEF IInv

(* A caller is rejected: its session is gone before the event is freed. *)
LEMMA RejectKeeps ==
  ASSUME IInv, Reject
  PROVE  IInv'
<1>1. Shape /\ Watched
  BY DEF IInv
<1>2. /\ made \in Nat /\ made <= world.sessions /\ world.sessions \in Nat
      /\ lib \in LibOf(made) /\ badUse \in BOOLEAN
      /\ call \in Pointers(made) /\ reg \in Pointers(made)
  BY <1>1, Parts
<1>3. /\ pc = "event" /\ evt.kind = "CONNECT" /\ pc' = "free"
      /\ lib' = SendFinal(lib, evt.addr)
      /\ badUse' = (badUse \/ ~Valid(lib, evt))
      /\ UNCHANGED <<world, pings, made, call, reg, evt, gone, strays, timedOut>>
  BY DEF Reject
<1>4. evt # NoEvt /\ evt.addr \in Addrs /\ evt.gen \in 1 .. made
  BY <1>1, <1>3, EventInHand
<1>5. /\ lib' \in LibOf(made)
      /\ \A b \in Addrs : /\ lib'.heap[b] = IF b = evt.addr THEN 0 ELSE lib.heap[b]
                          /\ lib'.queue[b] = IF b = evt.addr THEN << >> ELSE lib.queue[b]
  BY <1>2, <1>3, <1>4, SendFinalOp
<1>6. badUse' = badUse
  <2>1. Valid(lib, evt)
    BY <1>1, <1>3 DEF Watched, EventTrue
  <2> QED
    BY <1>2, <1>3, <2>1
<1>7. Shape'
  BY <1>1, <1>3, <1>4, <1>5, <1>6, Parts, ShapeStep
<1>8. Watched'
  <2>1. \A ref \in {call, reg} : ref # NoRef => ref.gen # 0
    BY <1>2, PointerParts
  <2>2. Distinct' /\ Placed'
    BY <1>1, <1>3, <1>5, <2>1 DEF Watched, Distinct, Placed
  <2>3. EventTrue'
    BY <1>3 DEF EventTrue
  <2>4. SessionsCared'
    BY <1>1, <1>3, <1>5 DEF Watched, SessionsCared, Cared, Live
  <2>7. StraysUnknown'
    BY <1>1, <1>3, <1>5 DEF Watched, StraysUnknown
  <2>8. Pinged'
    BY <1>1, <1>3, <1>5 DEF Watched, Pinged, Live
  <2> QED
    BY <2>2, <2>3, <2>4, <2>7, <2>8 DEF Watched
<1>9. ASSUME ~world.reuse
      PROVE  Owned'
  <2>1. Owned
    BY <1>9 DEF IInv
  <2>2. Sound(lib, made)'
    <3>1. evt.addr <= made
      BY <1>2, <1>4, <2>1 DEF Owned, Addressed, Named
    <3>2. Sound(lib', made)
      BY <1>2, <1>3, <1>4, <2>1, <3>1, SendFinalSound DEF Owned
    <3> QED
      BY <1>3, <3>2 DEF Sound, Valid
  <2>3. Addressed' /\ HungUpGone' /\ (badUse => world.waveFails)'
    BY <1>3, <1>6, <2>1 DEF Owned, Addressed, Named, HungUpGone
  <2>4. CallersNew'
    BY <1>3, <1>5, <2>1, FewerCallers DEF Owned
  <2>5. PointersOwned'
    BY <1>3, <1>5, <2>1 DEF Owned, PointersOwned, CallersNew, Valid, Dropping
  <2> QED
    BY <2>2, <2>3, <2>4, <2>5 DEF Owned
<1> QED
  BY <1>3, <1>7, <1>8, <1>9 DEF IInv

(* The end of another session, or of the call: the pointer goes with it. *)
LEMMA EndCallKeeps ==
  ASSUME IInv, EndCall
  PROVE  IInv'
<1>1. Shape /\ Watched
  BY DEF IInv
<1>2. /\ made \in Nat /\ lib \in LibOf(made) /\ badUse \in BOOLEAN
      /\ call \in Pointers(made) /\ reg \in Pointers(made)
  BY <1>1, Parts
<1>3. /\ pc = "event" /\ evt.kind # "CONNECT" /\ evt.addr # reg.addr /\ pc' = "free"
      /\ call' = (IF evt.addr = call.addr THEN NoRef ELSE call)
      /\ UNCHANGED <<world, lib, pings, made, reg, evt, gone, strays, timedOut, badUse>>
  BY DEF EndCall
<1>4. evt # NoEvt /\ evt.addr \in Addrs /\ evt.kind \in {"TIMEOUT", "HANGUP"}
  BY <1>1, <1>3, EventInHand DEF Kinds
<1>5. NoRef.addr = NoAddr /\ NoAddr \notin Addrs /\ NoRef \in Pointers(made)
  BY <1>2, PointerParts DEF Pointers
<1>6. Shape'
  BY <1>1, <1>2, <1>3, <1>4, <1>5, Parts, ShapeStep
<1>7. Watched'
  <2>1. Distinct' /\ Placed' /\ EventTrue'
    BY <1>1, <1>3 DEF Watched, Distinct, Placed, EventTrue
  <2>2. SessionsCared'
    <3> SUFFICES ASSUME NEW a \in Addrs, lib.heap[a] # 0
                 PROVE  Cared(a)'
      BY <1>3 DEF SessionsCared, Live
    <3>1. \/ lib.queue[a] # << >>
          \/ lib.heap[a] \in {call.gen, reg.gen} \cup timedOut \cup strays
      BY <1>1, <1>3 DEF Watched, SessionsCared, Cared, Live
    <3>2. CASE lib.heap[a] = call.gen
      <4>1. call # NoRef
        BY <3>2, PointerParts, <1>2
      <4>2. a = call.addr
        BY <1>1, <3>2, <4>1 DEF Watched, Placed
      <4>3. evt.addr = call.addr => lib.heap[a] \in timedOut
        BY <1>1, <1>3, <1>4, <4>2 DEF Watched, EventTrue, Valid
      <4> QED
        BY <1>3, <3>2, <4>3 DEF Cared
    <3>3. CASE lib.heap[a] # call.gen
      BY <1>3, <3>1, <3>3 DEF Cared
    <3> QED
      BY <3>2, <3>3
  <2>3. StraysUnknown'
    <3>1. call'.gen \in {call.gen, 0} /\ 0 \notin strays
      BY <1>1, <1>2, <1>3, PointerParts DEF Watched, StraysUnknown
    <3> QED
      BY <1>1, <1>3, <3>1 DEF Watched, StraysUnknown
  <2>4. Pinged'
    BY <1>1, <1>3 DEF Watched, Pinged, Live
  <2> QED
    BY <2>1, <2>2, <2>3, <2>4 DEF Watched
<1>8. ASSUME ~world.reuse
      PROVE  Owned'
  <2>1. Owned
    BY <1>8 DEF IInv
  <2>2. Sound(lib, made)'
    BY <1>3, <2>1 DEF Owned, Sound, Valid
  <2>3. Addressed' /\ (badUse => world.waveFails)'
    BY <1>3, <2>1 DEF Owned, Addressed, Named
  <2>4. CallersNew'
    BY <1>3, <1>5, <2>1, FewerCallers DEF Owned
  <2>5. PointersOwned'
    BY <1>3, <2>1 DEF Owned, PointersOwned, Valid, Dropping
  <2>6. HungUpGone'
    BY <1>1, <1>3 DEF Watched, EventTrue, HungUpGone
  <2> QED
    BY <2>2, <2>3, <2>4, <2>5, <2>6 DEF Owned
<1> QED
  BY <1>3, <1>6, <1>7, <1>8 DEF IInv

(* The session of a HANGUP is destroyed once more, or not. *)
LEMMA HangupAgain ==
  ASSUME Shape, pc \in {"event", "free"},
         lib' = IF evt.kind = "HANGUP" THEN Destroy(lib, evt.addr) ELSE lib
  PROVE  /\ lib' \in LibOf(made)
         /\ \A b \in Addrs :
              \/ lib'.heap[b] = lib.heap[b] /\ lib'.queue[b] = lib.queue[b]
              \/ /\ evt.kind = "HANGUP" /\ b = evt.addr
                 /\ lib'.heap[b] = 0 /\ lib'.queue[b] = << >>
         /\ Sound(lib, made) => Sound(lib', made)
<1>1. made \in Nat /\ lib \in LibOf(made) /\ evt.addr \in Addrs
  BY Parts, EventInHand
<1>2. CASE evt.kind = "HANGUP"
  <2>1. lib' = Destroy(lib, evt.addr)
    BY <1>2
  <2>2. lib' \in LibOf(made)
    BY <1>1, <2>1, DestroyOp
  <2>3. \A b \in Addrs : /\ lib'.heap[b] = IF b = evt.addr THEN 0 ELSE lib.heap[b]
                         /\ lib'.queue[b] = IF b = evt.addr THEN << >> ELSE lib.queue[b]
    BY <1>1, <2>1, DestroyAt
  <2>4. Sound(lib, made) => Sound(lib', made)
    BY <1>1, <2>1, DestroySound
  <2> QED
    BY <1>2, <2>2, <2>3, <2>4
<1>3. CASE evt.kind # "HANGUP"
  BY <1>1, <1>3
<1> QED
  BY <1>2, <1>3

(* The end of the call when the audio does not stop: the service leaves. *)
LEMMA EndCallFailsKeeps ==
  ASSUME IInv, EndCallFails
  PROVE  IInv'
<1>1. Shape /\ Watched
  BY DEF IInv
<1>2. /\ made \in Nat /\ lib \in LibOf(made) /\ badUse \in BOOLEAN
      /\ call \in Pointers(made) /\ reg \in Pointers(made)
  BY <1>1, Parts
<1>3. /\ world.waveFails /\ pc = "event" /\ evt' = NoEvt /\ pc' = "leave"
      /\ lib' = IF evt.kind = "HANGUP" THEN Destroy(lib, evt.addr) ELSE lib
      /\ UNCHANGED <<world, pings, made, call, reg, gone, strays, timedOut, badUse>>
  BY DEF EndCallFails
<1>4. /\ lib' \in LibOf(made)
      /\ \A b \in Addrs :
           \/ lib'.heap[b] = lib.heap[b] /\ lib'.queue[b] = lib.queue[b]
           \/ lib'.heap[b] = 0 /\ lib'.queue[b] = << >>
      /\ Sound(lib, made) => Sound(lib', made)
  BY <1>1, <1>3, HangupAgain
<1>5. Shape'
  <2>1. evt' \in Events(made)
    BY <1>3 DEF Events
  <2> QED
    BY <1>1, <1>2, <1>3, <1>4, <2>1, Parts, ShapeStep
<1>6. Watched'
  <2>1. \A ref \in {call, reg} : ref # NoRef => ref.gen # 0
    BY <1>2, PointerParts
  <2>2. Distinct' /\ Placed'
    BY <1>1, <1>3, <1>4, <2>1 DEF Watched, Distinct, Placed
  <2>3. StraysUnknown'
    BY <1>1, <1>3, <1>4 DEF Watched, StraysUnknown, NoEvt
  <2>4. Pinged'
    BY <1>1, <1>3, <1>4 DEF Watched, Pinged, Live
  <2> QED
    BY <1>3, <2>2, <2>3, <2>4 DEF Watched, EventTrue, SessionsCared
<1>7. ASSUME ~world.reuse
      PROVE  Owned'
  <2>1. Owned
    BY <1>7 DEF IInv
  <2>2. Sound(lib, made)'
    BY <1>3, <1>4, <2>1 DEF Owned, Sound, Valid
  <2>3. Addressed' /\ HungUpGone' /\ (badUse => world.waveFails)'
    BY <1>3, <2>1 DEF Owned, Addressed, Named, HungUpGone
  <2>4. CallersNew'
    BY <1>3, <1>4, <2>1, FewerCallers DEF Owned
  <2>5. PointersOwned'
    BY <1>3 DEF PointersOwned, Dropping
  <2> QED
    BY <2>2, <2>3, <2>4, <2>5 DEF Owned
<1> QED
  BY <1>3, <1>5, <1>6, <1>7 DEF IInv

(* An event is freed; the session of a HANGUP is long gone, unless its address
   is another's now. *)
LEMMA FreeKeeps ==
  ASSUME IInv, Free
  PROVE  IInv'
<1>1. Shape /\ Watched
  BY DEF IInv
<1>2. /\ made \in Nat /\ lib \in LibOf(made) /\ badUse \in BOOLEAN
      /\ call \in Pointers(made) /\ reg \in Pointers(made)
  BY <1>1, Parts
<1>3. /\ pc = "free" /\ evt' = NoEvt /\ pc' = "idle"
      /\ lib' = IF evt.kind = "HANGUP" THEN Destroy(lib, evt.addr) ELSE lib
      /\ UNCHANGED <<world, pings, made, call, reg, gone, strays, timedOut, badUse>>
  BY DEF Free
<1>4. /\ lib' \in LibOf(made)
      /\ \A b \in Addrs :
           \/ lib'.heap[b] = lib.heap[b] /\ lib'.queue[b] = lib.queue[b]
           \/ /\ evt.kind = "HANGUP" /\ b = evt.addr
              /\ lib'.heap[b] = 0 /\ lib'.queue[b] = << >>
      /\ Sound(lib, made) => Sound(lib', made)
  BY <1>1, <1>3, HangupAgain
<1>5. Shape'
  <2>1. evt' \in Events(made)
    BY <1>3 DEF Events
  <2> QED
    BY <1>1, <1>2, <1>3, <1>4, <2>1, Parts, ShapeStep
<1>6. Watched'
  <2>1. \A ref \in {call, reg} : ref # NoRef => ref.gen # 0
    BY <1>2, PointerParts
  <2>2. Distinct' /\ Placed'
    BY <1>1, <1>3, <1>4, <2>1 DEF Watched, Distinct, Placed
  <2>3. EventTrue'
    BY <1>3 DEF EventTrue
  <2>4. SessionsCared'
    BY <1>1, <1>3, <1>4 DEF Watched, SessionsCared, Cared, Live
  <2>7. StraysUnknown'
    BY <1>1, <1>3, <1>4, StraysKept DEF Watched, NoEvt
  <2>8. Pinged'
    BY <1>1, <1>3, <1>4 DEF Watched, Pinged, Live
  <2> QED
    BY <2>2, <2>3, <2>4, <2>7, <2>8 DEF Watched
<1>7. ASSUME ~world.reuse
      PROVE  Owned'
  <2>1. Owned
    BY <1>7 DEF IInv
  <2>2. Sound(lib, made)'
    BY <1>3, <1>4, <2>1 DEF Owned, Sound, Valid
  <2>3. Addressed' /\ HungUpGone' /\ (badUse => world.waveFails)'
    BY <1>3, <2>1 DEF Owned, Addressed, Named, HungUpGone
  <2>4. CallersNew'
    BY <1>3, <1>4, <2>1, FewerCallers DEF Owned
  <2>5. PointersOwned'
    <3>1. \A b \in Addrs : lib'.heap[b] = lib.heap[b]
      BY <1>3, <1>4, <2>1 DEF Owned, HungUpGone
    <3> QED
      BY <1>3, <2>1, <3>1 DEF Owned, PointersOwned, Valid, Dropping
  <2> QED
    BY <2>2, <2>3, <2>4, <2>5 DEF Owned
<1> QED
  BY <1>3, <1>5, <1>6, <1>7 DEF IInv

(* The service is told to stop. *)
LEMMA ShutdownKeeps ==
  ASSUME IInv, Shutdown
  PROVE  IInv'
<1>1. Shape /\ Watched
  BY DEF IInv
<1>2. /\ pc = "idle" /\ pc' = "leave"
      /\ UNCHANGED <<world, lib, pings, made, call, reg, evt, gone, strays, timedOut, badUse>>
  BY DEF Shutdown
<1>3. Shape'
  BY <1>1, <1>2, Parts, ShapeStep
<1>4. Watched'
  BY <1>1, <1>2 DEF Watched, Distinct, Placed, EventTrue, SessionsCared, StraysUnknown, Pinged, Live
<1>5. ASSUME ~world.reuse
      PROVE  Owned'
  <2>1. Owned
    BY <1>5 DEF IInv
  <2>2. Sound(lib, made)'
    BY <1>2, <2>1 DEF Owned, Sound, Valid
  <2> QED
    BY <1>2, <2>1, <2>2 DEF Owned, Addressed, Named, CallersNew, PointersOwned, Dropping, Valid, HungUpGone
<1> QED
  BY <1>2, <1>3, <1>4, <1>5 DEF IInv

(* The registration ended: its session is destroyed and another one made. *)
LEMMA RenewKeeps ==
  ASSUME IInv, RenewRegistration
  PROVE  IInv'
<1>1. Shape /\ Watched
  BY DEF IInv
<1>2. /\ made \in Nat /\ made <= world.sessions /\ world.sessions \in Nat
      /\ lib \in LibOf(made) /\ lib.heap \in [Addrs -> 0 .. made] /\ badUse \in BOOLEAN
      /\ call \in Pointers(made) /\ reg \in Pointers(made) /\ evt \in Events(made)
  BY <1>1, Parts
<1> DEFINE l == Destroy(lib, reg.addr)
<1>3. /\ pc = "event" /\ evt.kind # "CONNECT" /\ evt.addr = reg.addr /\ pc' = "free"
      /\ made < world.sessions
      /\ call' = (IF evt.addr = call.addr THEN NoRef ELSE call)
      /\ UNCHANGED <<world, pings, evt, gone, strays, timedOut, badUse>>
  BY DEF RenewRegistration
<1>4. PICK a \in Addrs : /\ MayAllocate(l, a) /\ lib' \in Registered(l, a)
                         /\ reg' = [addr |-> a, gen |-> made + 1] /\ made' = made + 1
  BY DEF RenewRegistration
<1>5. evt # NoEvt /\ evt.addr \in Addrs /\ reg.addr \in Addrs
  BY <1>1, <1>3, EventInHand
<1>6. /\ l \in LibOf(made)
      /\ \A b \in Addrs : /\ l.heap[b] = IF b = reg.addr THEN 0 ELSE lib.heap[b]
                          /\ l.queue[b] = IF b = reg.addr THEN << >> ELSE lib.queue[b]
  BY <1>2, <1>5, DestroyOp, DestroyAt
<1>7. Sound(lib, made) => Sound(l, made)
  BY <1>2, <1>5, DestroySound
<1> HIDE DEF l
<1>8. /\ lib' \in LibOf(made + 1)
      /\ \A b \in Addrs : /\ lib'.heap[b] = IF b = a THEN made + 1 ELSE l.heap[b]
                          /\ lib'.queue[b] = IF b = a THEN << >> ELSE l.queue[b]
      /\ Sound(l, made) /\ a = made + 1 => Sound(lib', made + 1)
  BY <1>2, <1>3, <1>4, <1>6, RegisteredOp
<1>9. /\ \A b \in Addrs : lib.heap[b] \in 0 .. made
      /\ \A ref \in {call, reg} : ref # NoRef => ref.gen \in 1 .. made /\ ref.addr \in Addrs
      /\ evt.gen \in 1 .. made
      /\ NoRef.addr = NoAddr /\ NoAddr \notin Addrs
  BY <1>2, <1>5, PointerParts
<1>10. call' \in {call, NoRef} /\ reg'.addr = a /\ reg'.gen = made + 1
  BY <1>3, <1>4
<1>11. Shape'
  <2>1. Pointers(made) \subseteq Pointers(made + 1) /\ Events(made) \subseteq Events(made + 1)
    BY <1>2 DEF Pointers, Events
  <2>2. call' \in Pointers(made + 1) /\ reg' \in Pointers(made + 1) /\ evt' \in Events(made + 1)
    BY <1>2, <1>3, <1>4, <1>10, <2>1 DEF Pointers
  <2>3. made' \in Nat /\ made' <= world.sessions
    BY <1>2, <1>3, <1>4
  <2>4. pc' \in {"idle", "event", "free", "leave", "down"} /\ (pc' \in {"event", "free"} <=> evt' # NoEvt)
    BY <1>3, <1>5
  <2> QED
    BY <1>1, <1>3, <1>4, <1>8, <2>2, <2>3, <2>4, Parts, ShapeStep
<1>12. Watched'
  <2>1. Distinct'
    BY <1>1, <1>2, <1>6, <1>8, <1>9 DEF Watched, Distinct
  <2>2. Placed'
    <3>1. \A b \in Addrs : lib'.heap[b] = made + 1 => b = a
      BY <1>2, <1>6, <1>8, <1>9
    <3>2. call # NoRef => \A b \in Addrs : lib'.heap[b] = call.gen => b = call.addr
      BY <1>1, <1>2, <1>6, <1>8, <1>9 DEF Watched, Placed
    <3> QED
      BY <1>10, <3>1, <3>2 DEF Placed
  <2>3. EventTrue'
    BY <1>3 DEF EventTrue
  <2>4. SessionsCared'
    <3> SUFFICES ASSUME NEW b \in Addrs, lib'.heap[b] # 0
                 PROVE  Cared(b)'
      BY DEF SessionsCared, Live
    <3>1. CASE b = a
      BY <1>8, <1>10, <3>1 DEF Cared
    <3>2. CASE b # a
      <4>1. b # reg.addr /\ lib'.heap[b] = lib.heap[b] /\ lib'.queue[b] = lib.queue[b]
        BY <1>6, <1>8, <3>2
      <4>2. \/ lib.queue[b] # << >>
            \/ lib.heap[b] \in {call.gen, reg.gen} \cup timedOut \cup strays
        BY <1>1, <1>3, <4>1 DEF Watched, SessionsCared, Cared, Live
      <4>3. lib.heap[b] # reg.gen
        BY <1>1, <1>5, <1>9, <4>1 DEF Watched, Placed
      <4>4. lib.heap[b] = call.gen => call' = call
        <5>1. ASSUME lib.heap[b] = call.gen
              PROVE  b = call.addr
          <6>1. call # NoRef
            BY <4>1, <5>1 DEF NoRef
          <6> QED
            BY <1>1, <5>1, <6>1 DEF Watched, Placed
        <5> QED
          BY <1>3, <4>1, <5>1
      <4> QED
        BY <1>3, <4>1, <4>2, <4>3, <4>4 DEF Cared
    <3> QED
      BY <3>1, <3>2
  <2>5. StraysUnknown'
    <3>1. call'.gen \in {call.gen, 0} /\ 0 \notin strays /\ made + 1 \notin strays
      BY <1>1, <1>2, <1>10 DEF Watched, StraysUnknown, NoRef
    <3>2. strays \subseteq 1 .. made + 1
      BY <1>1, <1>2 DEF Watched, StraysUnknown
    <3>3. \A b \in Addrs : \A i \in 1 .. Len(lib'.queue[b]) :
            lib'.queue[b][i] = "CONNECT" => lib'.heap[b] \notin strays
      <4>1. Len(<< >>) = 0
        OBVIOUS
      <4>2. \A b \in Addrs : \/ lib'.queue[b] = << >>
                             \/ lib'.queue[b] = lib.queue[b] /\ lib'.heap[b] = lib.heap[b]
        BY <1>6, <1>8
      <4> QED
        BY <1>1, <4>1, <4>2 DEF Watched, StraysUnknown
    <3> QED
      BY <1>1, <1>3, <1>4, <1>10, <3>1, <3>2, <3>3 DEF Watched, StraysUnknown
  <2>6. Pinged'
    BY <1>1, <1>3, <1>6, <1>8, <1>10 DEF Watched, Pinged, Live
  <2> QED
    BY <2>1, <2>2, <2>3, <2>4, <2>5, <2>6 DEF Watched
<1>13. ASSUME ~world.reuse
       PROVE  Owned'
  <2>1. Owned
    BY <1>13 DEF IInv
  <2>2. a = made + 1
    BY <1>4, <1>13 DEF MayAllocate
  <2>3. Sound(lib, made)'
    <3>1. Sound(lib', made + 1)
      BY <1>7, <1>8, <2>1, <2>2 DEF Owned
    <3> QED
      BY <1>4, <3>1 DEF Sound, Valid
  <2>4. Addressed'
    BY <1>3, <1>10, <2>1, <2>2 DEF Owned, Addressed, Named
  <2>5. CallersNew'
    BY <1>3, <1>6, <1>8, <1>9, <1>10, <2>1, FewerCallers DEF Owned
  <2>6. PointersOwned'
    <3>1. Valid(lib', reg')
      BY <1>2, <1>8, <1>10 DEF Valid
    <3>2. ASSUME call' # NoRef
          PROVE  Valid(lib', call')
      <4>1. call' = call /\ call.addr # evt.addr /\ call # NoRef
        BY <1>3, <3>2
      <4>2. Valid(lib, call)
        BY <1>3, <2>1, <4>1 DEF Owned, PointersOwned, Dropping
      <4>3. call.addr # a
        BY <1>2, <1>9, <2>1, <2>2, <4>1 DEF Owned, Addressed, Named
      <4> QED
        BY <1>3, <1>6, <1>8, <4>1, <4>2, <4>3 DEF Valid
    <3> QED
      BY <3>1, <3>2 DEF PointersOwned
  <2>7. HungUpGone'
    <3>1. evt.addr # a
      BY <1>2, <1>5, <1>9, <2>1, <2>2 DEF Owned, Addressed, Named
    <3> QED
      BY <1>3, <1>5, <1>6, <1>8, <3>1 DEF HungUpGone
  <2>8. (badUse => world.waveFails)'
    BY <1>3, <2>1 DEF Owned
  <2> QED
    BY <2>3, <2>4, <2>5, <2>6, <2>7, <2>8 DEF Owned
<1> QED
  BY <1>3, <1>11, <1>12, <1>13 DEF IInv

(* The service leaves: it hangs up and drops its registration. *)
LEMMA LeaveKeeps ==
  ASSUME IInv, Leave
  PROVE  IInv'
<1>1. Shape /\ Watched
  BY DEF IInv
<1>2. /\ made \in Nat /\ made <= world.sessions /\ world.sessions \in Nat
      /\ lib \in LibOf(made) /\ badUse \in BOOLEAN
      /\ call \in Pointers(made) /\ reg \in Pointers(made) /\ evt \in Events(made)
  BY <1>1, Parts
<1> DEFINE l == IF call = NoRef THEN lib ELSE SendFinal(lib, call.addr)
<1>3. /\ pc = "leave" /\ pc' = "down" /\ reg' = NoRef
      /\ lib' = IF reg = NoRef THEN l ELSE Destroy(l, reg.addr)
      /\ badUse' = (badUse \/ (call # NoRef /\ ~Valid(lib, call)))
      /\ pings' = pings \ {call.addr}
      /\ UNCHANGED <<world, made, call, evt, gone, strays, timedOut>>
  BY DEF Leave
<1>4. /\ call # NoRef => call.addr \in Addrs /\ call.gen \in 1 .. made
      /\ reg # NoRef => reg.addr \in Addrs
      /\ NoRef.addr = NoAddr /\ NoAddr \notin Addrs /\ NoRef \in Pointers(made)
  BY <1>2, PointerParts DEF Pointers
<1>5. /\ l \in LibOf(made)
      /\ \A b \in Addrs : \/ l.heap[b] = lib.heap[b] /\ l.queue[b] = lib.queue[b]
                          \/ l.heap[b] = 0 /\ l.queue[b] = << >>
  <2>1. CASE call = NoRef
    BY <1>2, <2>1
  <2>2. CASE call # NoRef
    BY <1>2, <1>4, <2>2, SendFinalOp
  <2> QED
    BY <2>1, <2>2
<1>6. Sound(lib, made) /\ (call # NoRef => call.addr <= made) => Sound(l, made)
  BY <1>2, <1>4, SendFinalSound
<1> HIDE DEF l
<1>7. /\ lib' \in LibOf(made)
      /\ \A b \in Addrs : \/ lib'.heap[b] = lib.heap[b] /\ lib'.queue[b] = lib.queue[b]
                          \/ lib'.heap[b] = 0 /\ lib'.queue[b] = << >>
      /\ Sound(l, made) => Sound(lib', made)
  <2>1. CASE reg = NoRef
    BY <1>3, <1>5, <2>1
  <2>2. CASE reg # NoRef
    <3>1. lib' \in LibOf(made)
      BY <1>2, <1>3, <1>4, <1>5, <2>2, DestroyOp
    <3>2. \A b \in Addrs : /\ lib'.heap[b] = IF b = reg.addr THEN 0 ELSE l.heap[b]
                           /\ lib'.queue[b] = IF b = reg.addr THEN << >> ELSE l.queue[b]
      BY <1>2, <1>3, <1>4, <1>5, <2>2, DestroyAt
    <3>3. Sound(l, made) => Sound(lib', made)
      BY <1>2, <1>3, <1>4, <1>5, <2>2, DestroySound
    <3> QED
      BY <1>5, <3>1, <3>2, <3>3
  <2> QED
    BY <2>1, <2>2
<1>11. /\ call # NoRef => lib'.heap[call.addr] = 0
       /\ reg # NoRef => lib'.heap[reg.addr] = 0
  <2>1. reg # NoRef => lib'.heap[reg.addr] = 0
    BY <1>2, <1>3, <1>4, <1>5, DestroyAt
  <2>2. call # NoRef => l.heap[call.addr] = 0
    BY <1>2, <1>4, SendFinalOp DEF l
  <2>3. \A b \in Addrs : l.heap[b] = 0 => lib'.heap[b] = 0
    BY <1>2, <1>3, <1>4, <1>5, DestroyAt
  <2> QED
    BY <1>4, <2>1, <2>2, <2>3
<1>8. Shape'
  <2>1. badUse' \in BOOLEAN
    BY <1>3
  <2> QED
    BY <1>1, <1>2, <1>3, <1>4, <1>7, <2>1, Parts, ShapeStep
<1>9. Watched'
  <2>1. call # NoRef => call.gen # 0
    BY <1>2, <1>4
  <2>2. Distinct' /\ Placed'
    BY <1>1, <1>3, <1>7, <2>1 DEF Watched, Distinct, Placed
  <2>3. StraysUnknown'
    <3>1. reg'.gen = 0 /\ 0 \notin strays
      BY <1>1, <1>3 DEF Watched, StraysUnknown, NoRef
    <3> QED
      BY <1>1, <1>3, <1>7, <3>1 DEF Watched, StraysUnknown
  <2>4. Pinged'
    BY <1>1, <1>3, <1>4, <1>7, <1>11 DEF Watched, Pinged, Live
  <2> QED
    BY <1>3, <2>2, <2>3, <2>4 DEF Watched, EventTrue, SessionsCared
<1>10. ASSUME ~world.reuse
       PROVE  Owned'
  <2>1. Owned
    BY <1>10 DEF IInv
  <2>2. Sound(lib, made)'
    <3>1. call # NoRef => call.addr <= made
      BY <1>2, <1>4, <2>1 DEF Owned, Addressed, Named
    <3>2. Sound(lib', made)
      BY <1>6, <1>7, <2>1, <3>1 DEF Owned
    <3> QED
      BY <1>3, <3>2 DEF Sound, Valid
  <2>3. Addressed' /\ HungUpGone'
    BY <1>3, <2>1 DEF Owned, Addressed, Named, HungUpGone
  <2>4. CallersNew'
    BY <1>3, <1>4, <1>7, <2>1, FewerCallers DEF Owned
  <2>5. PointersOwned'
    BY <1>3 DEF PointersOwned, Dropping
  <2>6. (badUse => world.waveFails)'
    BY <1>3, <2>1 DEF Owned, PointersOwned, Dropping
  <2> QED
    BY <2>2, <2>3, <2>4, <2>5, <2>6 DEF Owned
<1> QED
  BY <1>3, <1>8, <1>9, <1>10 DEF IInv

-----------------------------------------------------------------------------
(* The theorems *)

(* Before anything has happened, a library of the right shape is enough. *)
LEMMA ShapeInit ==
  ASSUME Init, made \in 0 .. 1, lib \in LibOf(made), reg \in Pointers(made)
  PROVE  Shape
<1>1. world \in Worlds /\ world.sessions \in Nat \ {0}
  BY WorldsAssumption DEF Init
<1>2. /\ pings = {} /\ call = NoRef /\ evt = NoEvt /\ pc = "idle"
      /\ gone = {} /\ strays = {} /\ timedOut = {} /\ badUse = FALSE
  BY DEF Init
<1>3. made \in 0 .. world.sessions
  BY <1>1
<1>4. /\ lib.heap \in [Addrs -> 0 .. made] /\ lib.queue \in [Addrs -> Seq(Queued)]
      /\ lib.frames \subseteq Frame
  BY LibFields
<1>5. lib.heap \in [Addrs -> 0 .. world.sessions]
  BY <1>1, <1>3, <1>4
<1>6. lib.queue \in [Addrs -> Seq(Kinds)]
  <2>1. Queued \subseteq Kinds
    BY DEF Queued, Kinds
  <2>2. Seq(Queued) \subseteq Seq(Kinds)
    BY <2>1
  <2> QED
    BY <1>4, <2>2
<1>7. call \in Ref /\ reg \in Ref
  <2>1. NoRef \in Ref
    BY <1>1 DEF NoRef, Ref
  <2>2. [addr : Addrs, gen : 1 .. made] \subseteq Ref
    BY <1>1, <1>3 DEF Ref
  <2> QED
    BY <1>2, <2>1, <2>2 DEF Pointers
<1>8. TypeOK
  BY <1>1, <1>2, <1>3, <1>4, <1>5, <1>6, <1>7 DEF TypeOK
<1> QED
  BY <1>2, <1>8 DEF Shape, Pointers, Events

(* The service starts with its registration, or with no session at all. *)
LEMMA InitHolds == Init => IInv
<1> SUFFICES ASSUME Init
             PROVE  IInv
  OBVIOUS
<1>1. world \in Worlds /\ world.sessions \in Nat \ {0}
  BY WorldsAssumption DEF Init
<1>2. /\ pings = {} /\ call = NoRef /\ evt = NoEvt /\ pc = "idle"
      /\ gone = {} /\ strays = {} /\ timedOut = {} /\ badUse = FALSE
  BY DEF Init
<1> DEFINE none == [heap |-> [b \in Addrs |-> 0], queue |-> [b \in Addrs |-> << >>], frames |-> {}]
<1>3. /\ none \in LibOf(0) /\ none.frames = {}
      /\ \A b \in Addrs : none.heap[b] = 0 /\ none.queue[b] = << >>
  BY DEF LibOf
<1>4. \/ lib = none /\ reg = NoRef /\ made = 0
      \/ \E a \in Addrs :
           /\ world.reuse \/ a = 1
           /\ LET l == [none EXCEPT !.heap[a] = 1]
              IN lib = l \/ lib = SendFrame(l, a, FALSE)
           /\ reg = [addr |-> a, gen |-> 1] /\ made = 1
  BY DEF Init
<1>5. NoRef.addr = NoAddr /\ NoAddr \notin Addrs
  BY AddrsAssumption DEF NoRef
<1> HIDE DEF none
<1>6. CASE lib = none /\ reg = NoRef /\ made = 0
  <2>1. Shape
    BY <1>3, <1>6, ShapeInit DEF Pointers
  <2>2. Watched
    BY <1>2, <1>3, <1>6 DEF Watched, Distinct, Placed, EventTrue, SessionsCared, StraysUnknown, Pinged,
       Live, NoEvt
  <2>3. Len(<< >>) = 0
    OBVIOUS
  <2>4. Addressed /\ Sound(lib, made) /\ CallersNew
    BY <1>2, <1>3, <1>6, <2>3 DEF Addressed, Sound, CallersNew
  <2>5. PointersOwned /\ HungUpGone /\ ~badUse
    BY <1>2, <1>6 DEF PointersOwned, HungUpGone
  <2> QED
    BY <2>1, <2>2, <2>4, <2>5 DEF IInv, Owned
<1>7. CASE \E a \in Addrs :
             /\ world.reuse \/ a = 1
             /\ LET l == [none EXCEPT !.heap[a] = 1]
                IN lib = l \/ lib = SendFrame(l, a, FALSE)
             /\ reg = [addr |-> a, gen |-> 1] /\ made = 1
  <2> PICK a \in Addrs : /\ world.reuse \/ a = 1
                         /\ LET l == [none EXCEPT !.heap[a] = 1]
                            IN lib = l \/ lib = SendFrame(l, a, FALSE)
                         /\ reg = [addr |-> a, gen |-> 1] /\ made = 1
    BY <1>7
  <2> DEFINE l == [none EXCEPT !.heap[a] = 1]
  <2>1. /\ l \in LibOf(made) /\ l.frames = {}
        /\ \A b \in Addrs : l.heap[b] = (IF b = a THEN 1 ELSE 0) /\ l.queue[b] = << >>
    <3> DEFINE h == [b \in Addrs |-> IF b = a THEN 1 ELSE 0]
    <3>1. h \in [Addrs -> 0 .. 1] /\ {} \in SUBSET Frame
      OBVIOUS
    <3>2. [b \in Addrs |-> << >>] \in [Addrs -> Seq(Queued)]
      OBVIOUS
    <3>3. l = [heap |-> h, queue |-> [b \in Addrs |-> << >>], frames |-> {}]
      <4> DEFINE z == [b \in Addrs |-> 0]
      <4>1. [z EXCEPT ![a] = 1] = h
        OBVIOUS
      <4> HIDE DEF h
      <4>2. l = [none EXCEPT !.heap = [none.heap EXCEPT ![a] = 1]]
        BY DEF none
      <4>3. l = [none EXCEPT !.heap = h]
        BY <4>1, <4>2 DEF none
      <4> DEFINE q == [b \in Addrs |-> << >>]
      <4>4. none = [heap |-> z, queue |-> q, frames |-> {}]
        BY DEF none
      <4> HIDE DEF z, q, l
      <4>5. l = [heap |-> h, queue |-> q, frames |-> {}]
        BY <4>3, <4>4
      <4> QED
        BY <4>5 DEF q
    <3>4. \A b \in Addrs : h[b] = (IF b = a THEN 1 ELSE 0)
      OBVIOUS
    <3> HIDE DEF h, l
    <3> QED
      BY <3>1, <3>2, <3>3, <3>4 DEF LibOf
  <2>2. lib = l \/ lib = SendFrame(l, a, FALSE)
    OBVIOUS
  <2> HIDE DEF l
  <2>0. made \in Nat /\ made <= world.sessions /\ world.sessions \in Nat
    BY <1>1
  <2>3. SendFrame(l, a, FALSE) \in LibOf(made)
    BY <2>0, <2>1, SendFrameOp
  <2>4. SendFrame(l, a, FALSE).heap = l.heap /\ SendFrame(l, a, FALSE).queue = l.queue
    BY <2>1, SendFrameFields
  <2>5. /\ lib \in LibOf(made)
        /\ \A b \in Addrs : lib.heap[b] = (IF b = a THEN 1 ELSE 0) /\ lib.queue[b] = << >>
    BY <2>1, <2>2, <2>3, <2>4
  <2>6. reg.addr = a /\ reg.gen = 1 /\ reg \in Pointers(1) /\ reg # NoRef
    BY DEF Pointers, NoRef
  <2>7. Shape
    BY <2>5, <2>6, ShapeInit
  <2>8. Watched
    BY <1>2, <2>5, <2>6 DEF Watched, Distinct, Placed, EventTrue, SessionsCared, Cared, StraysUnknown,
       Pinged, Live, NoEvt
  <2>9. ASSUME ~world.reuse
        PROVE  Owned
    <3>1. a = 1
      BY <2>9
    <3>2. Sound(lib, made)
      <4>1. Sound(l, made) /\ a \in Live(l)
        BY <2>1, <3>1 DEF Sound, Live
      <4>2. Sound(SendFrame(l, a, FALSE), made)
        BY <2>0, <2>1, <4>1, SendFrameSound
      <4> QED
        BY <2>2, <4>1, <4>2
    <3>3. Len(<< >>) = 0
      OBVIOUS
    <3>4. Addressed /\ CallersNew
      BY <1>2, <2>5, <2>6, <3>1, <3>3 DEF Addressed, Named, CallersNew
    <3>5. PointersOwned /\ HungUpGone /\ ~badUse
      BY <1>2, <2>5, <2>6 DEF PointersOwned, HungUpGone, Valid
    <3> QED
      BY <3>2, <3>4, <3>5 DEF Owned
  <2> QED
    BY <2>7, <2>8, <2>9 DEF IInv
<1> QED
  BY <1>4, <1>6, <1>7

(* Every step keeps the invariant. *)
LEMMA NextHolds == IInv /\ [Next]_vars => IInv'
<1> SUFFICES ASSUME IInv, [Next]_vars
             PROVE  IInv'
  OBVIOUS
<1>1. CASE Library
  BY <1>1, PingKeeps, DeliverKeeps, FrameDoneKeeps, FrameTimeoutKeeps DEF Library
<1>2. CASE Service
  BY <1>2, AcceptKeeps, RejectKeeps, EndCallKeeps, EndCallFailsKeeps, RenewKeeps, FreeKeeps,
     RefreshKeeps, ShutdownKeeps, LeaveKeeps DEF Service
<1>3. CASE Network
  BY <1>3, NewCallKeeps, StrayKeeps, LateNewKeeps, PokeKeeps, PeerAcksKeeps, PeerPingsKeeps, PeerGoneKeeps, PeerEndsKeeps
     DEF Network
<1>4. CASE UNCHANGED vars
  <2>1. /\ UNCHANGED <<world, lib, pings, made, call, reg, evt, pc, gone, strays, timedOut, badUse>>
    BY <1>4 DEF vars, main
  <2>2. Shape
    BY DEF IInv
  <2> QED
    BY <2>1, <2>2, Parts, QuietStep DEF Owned
<1> QED
  BY <1>1, <1>2, <1>3, <1>4 DEF Next

(* The invariant holds in every state the program reaches. *)
LEMMA Invariant == Spec => []IInv
BY InitHolds, NextHolds, PTL DEF Spec

(* The library's lists, main.c's variables and the event in hand have their
   types: no generation is made twice and no event is left when the loop sleeps. *)
THEOREM TypeCorrect == Spec => []TypeOK
<1>1. IInv => TypeOK
  BY DEF IInv, Shape
<1> QED
  BY <1>1, Invariant, PTL

(* Every session but the registration's is pinged, and between two events one
   that a stray frame made is the only session the service may not know of: the
   others are the call, the registration, have an event on its way or were
   reported to have timed out, whatever malloc does. *)
THEOREM OnlyStraysLost == Spec => []OrphansAreStrays
<1>1. IInv => OrphansAreStrays
  BY DEF IInv, Watched, SessionsCared, Cared, Pinged, OrphansAreStrays
<1> QED
  BY <1>1, Invariant, PTL

(* While addresses are not handed out again, main.c uses no freed session unless
   the audio fails, and every frame that may be sent again has the session it
   was sent for. *)
THEOREM NeverDangles == Spec => [](~world.reuse => NoDangling)
<1>1. IInv => (~world.reuse => NoDangling)
  BY DEF IInv, Owned, Sound, NoDangling
<1> QED
  BY <1>1, Invariant, PTL

(* While addresses are not handed out again, session and registeredSession are
   NULL or name a living session whenever the loop waits for an event. *)
THEOREM AlwaysLive == Spec => [](~world.reuse => PointersLive)
<1>1. IInv => (~world.reuse => PointersLive)
  BY DEF IInv, Owned, PointersOwned, Dropping, PointersLive
<1> QED
  BY <1>1, Invariant, PTL

=============================================================================
