---------------------------- MODULE StartupProofs ----------------------------
(* Proofs about Startup, for every command line, port and width of addresses:
   what is released, and when; what the SCM is told, whatever the handler
   reports between two writes of the status record; and that the parser and the
   screening of callers do what README.md says of the options, where settings.c
   does not depart from it. *)
EXTENDS Startup, TLAPS, SequenceTheorems, FiniteSetTheorems

(* what a call needs, the registration and the call itself apart *)
Ready == {"service", "settings", "winsock", "socket", "wave"}

(* what ServiceMain holds when it comes to a step *)
Phase ==
  /\ pc = "initialize" => held = {}
  /\ pc = "parse" => held = {"service"}
  /\ pc = "winsock" => held = {"service", "settings"}
  /\ pc = "iax" => held = {"service", "settings", "winsock"}
  /\ pc = "register" => held = {"service", "settings", "winsock", "socket"}
  /\ pc \in {"select", "wave"} =>
       /\ {"service", "settings", "winsock", "socket"} \subseteq held
       /\ held \subseteq {"service", "settings", "winsock", "socket", "registration"}
  /\ pc \in {"started", "waiting", "events"} =>
       /\ Ready \subseteq held
       /\ held \subseteq Ready \cup {"registration", "call"}
  /\ pc = "close" => held \subseteq Resources \ {"call", "registration"}
  /\ pc = "stop iax" => held \subseteq {"service", "settings", "winsock", "socket", "stray"}
  /\ pc = "cleanup" => held \subseteq {"service", "settings", "winsock", "stray"}
  /\ pc = "forget" => held \subseteq {"service", "settings"}
  /\ pc \in {"end", "free", "freed"} => held \subseteq {"service"}
  /\ pc = "gone" => held = {}

(* what is held can be used, and main.c knows of the socket *)
Usable ==
  /\ held \subseteq Resources /\ iaxPort \in Int
  /\ \A r \in held : Needs(r) \subseteq held
  /\ "socket" \in held => iaxPort > NoPort

IInv == Phase /\ Usable

LEMMA InitHolds == Init => IInv
<1> SUFFICES ASSUME Init PROVE IInv
  OBVIOUS
<1>1. pc = "initialize" /\ held = {} /\ iaxPort = -1
  BY DEF Init, NoPort
<1>2. QED
  BY <1>1 DEF IInv, Phase, Usable, NoPort

(* A step that changes nothing but what it says keeps what is held usable. *)
LEMMA StartHolds == IInv /\ Start => IInv'
<1> SUFFICES ASSUME IInv, Start PROVE IInv'
  OBVIOUS
<1> USE DEF IInv, Usable, Go, Progress, Fail
<1>1. CASE InitializeService
  <2>1. Phase'
    BY <1>1 DEF InitializeService, Phase, Ready, Resources
  <2>2. Usable'
    BY <1>1, ZenonT(40) DEF InitializeService, Phase, Ready, Resources, Needs, NoPort
  <2>3. QED
    BY <2>1, <2>2
<1>2. CASE ReadArgument
  <2>1. Phase'
    BY <1>2 DEF ReadArgument, Phase, Ready, Resources
  <2>2. Usable'
    BY <1>2 DEF ReadArgument, Phase, Ready, Resources, Needs, NoPort
  <2>3. QED
    BY <2>1, <2>2
<1>3. CASE Parsed
  <2>1. Phase'
    BY <1>3 DEF Parsed, Phase, Ready, Resources
  <2>2. Usable'
    BY <1>3 DEF Parsed, Phase, Ready, Resources, Needs, NoPort
  <2>3. QED
    BY <2>1, <2>2
<1>4. CASE StartWinsock
  <2>1. /\ pc = "winsock" /\ UNCHANGED iaxPort
        /\ \/ pc' = "hangup" /\ held' \in {held, held \cup {"winsock"}}
           \/ pc' = "iax" /\ held' = held \cup {"winsock"}
    BY <1>4, ZenonT(40) DEF StartWinsock
  <2>2. held = {"service", "settings"}
    BY <2>1 DEF Phase
  <2>3. held' \in {{"service", "settings"}, {"service", "settings", "winsock"}}
    BY <2>1, <2>2
  <2>4. Phase'
    BY <2>1, <2>2 DEF Phase
  <2>5. Usable'
    BY <2>1, <2>3 DEF Resources, Needs
  <2>6. QED
    BY <2>4, <2>5
<1>5. CASE InitIax
  <2>1. /\ pc = "iax"
        /\ \/ pc' = "hangup" /\ iaxPort' = -1 /\ held' \in {held, held \cup {"stray"}}
           \/ pc' = "hangup" /\ iaxPort' \in 1 .. P - 1 /\ held' = held \cup {"socket"}
           \/ pc' = "register" /\ iaxPort' \in 1 .. P - 1 /\ held' = held \cup {"socket"}
    BY <1>5, ZenonT(40) DEF InitIax, NoPort
  <2>2. held = {"service", "settings", "winsock"}
    BY <2>1 DEF Phase
  <2>3. Phase'
    BY <2>1, <2>2 DEF Phase
  <2>4. \/ held' \in {held, held \cup {"stray"}} /\ iaxPort' = -1
        \/ held' = held \cup {"socket"} /\ iaxPort' \in Int /\ iaxPort' > -1
    BY <2>1, WidthsAssumption
  <2>5. Usable'
    BY <2>2, <2>4 DEF Resources, Needs, NoPort
  <2>6. QED
    BY <2>3, <2>5
<1>6. CASE Register
  <2>1. /\ pc = "register" /\ UNCHANGED iaxPort
        /\ held' \in {held, held \cup {"registration"}} /\ pc' \in {"hangup", "select"}
    BY <1>6 DEF Register
  <2>2. held = {"service", "settings", "winsock", "socket"}
    BY <2>1 DEF Phase
  <2>3. Phase'
    BY <2>1, <2>2 DEF Phase
  <2>4. Usable'
    BY <2>1, <2>2 DEF Resources, Needs
  <2>5. QED
    BY <2>3, <2>4
<1>7. CASE Select
  <2>1. pc = "select" /\ UNCHANGED <<iaxPort, held>> /\ pc' \in {"hangup", "wave"}
    BY <1>7 DEF Select
  <2>2. Phase'
    BY <2>1 DEF Phase
  <2>3. Usable'
    BY <2>1
  <2>4. QED
    BY <2>2, <2>3
<1>8. CASE OpenWave
  <2>1. /\ pc = "wave" /\ UNCHANGED iaxPort
        /\ \/ pc' = "hangup" /\ UNCHANGED held
           \/ pc' = "started" /\ held' = held \cup {"wave"}
    BY <1>8 DEF OpenWave
  <2>2. /\ {"service", "settings", "winsock", "socket"} \subseteq held
        /\ held \subseteq {"service", "settings", "winsock", "socket", "registration"}
    BY <2>1 DEF Phase
  <2>3. Phase'
    BY <2>1, <2>2 DEF Phase, Ready
  <2>4. Usable'
    BY <2>1, <2>2 DEF Resources, Needs
  <2>5. QED
    BY <2>3, <2>4
<1>9. CASE Started
  <2>1. Phase'
    BY <1>9 DEF Started, Phase, Ready, Resources
  <2>2. Usable'
    BY <1>9 DEF Started, Phase, Ready, Resources, Needs, NoPort
  <2>3. QED
    BY <2>1, <2>2
<1>10. QED
  BY <1>1, <1>2, <1>3, <1>4, <1>5, <1>6, <1>7, <1>8, <1>9 DEF Start

LEMMA ServeHolds == IInv /\ Serve => IInv'
<1> SUFFICES ASSUME IInv, Serve PROVE IInv'
  OBVIOUS
<1> USE DEF IInv, Usable, Go, Progress, Fail
<1>1. CASE WakeShutdown
  <2>1. Phase'
    BY <1>1 DEF WakeShutdown, Phase, Ready, Resources
  <2>2. Usable'
    BY <1>1 DEF WakeShutdown, Phase, Ready, Resources, Needs, NoPort
  <2>3. QED
    BY <2>1, <2>2
<1>2. CASE Wake
  <2>1. Phase'
    BY <1>2 DEF Wake, Phase, Ready, Resources
  <2>2. Usable'
    BY <1>2 DEF Wake, Phase, Ready, Resources, Needs, NoPort
  <2>3. QED
    BY <2>1, <2>2
<1>3. CASE WaitFails
  <2>1. Phase'
    BY <1>3 DEF WaitFails, Phase, Ready, Resources
  <2>2. Usable'
    BY <1>3 DEF WaitFails, Phase, Ready, Resources, Needs, NoPort
  <2>3. QED
    BY <2>1, <2>2
<1>4. CASE \E address \in Addresses : Connect(address)
  <2>1. /\ pc = "events" /\ UNCHANGED iaxPort
        /\ held' = held \cup {"call"} /\ pc' \in {"hangup", "events"}
    BY <1>4 DEF Connect
  <2>2. Ready \subseteq held /\ held \subseteq Ready \cup {"registration", "call"}
    BY <2>1 DEF Phase
  <2>3. Phase'
    BY <2>1, <2>2 DEF Phase
  <2>4. Usable'
    BY <2>1, <2>2 DEF Ready, Resources, Needs
  <2>5. QED
    BY <2>3, <2>4
<1>5. CASE CallEnds
  <2>1. Phase'
    BY <1>5 DEF CallEnds, Phase, Ready, Resources
  <2>2. Usable'
    BY <1>5 DEF CallEnds, Phase, Ready, Resources, Needs, NoPort
  <2>3. QED
    BY <2>1, <2>2
<1>6. CASE Renew
  <2>1. Phase'
    BY <1>6 DEF Renew, Phase, Ready, Resources
  <2>2. Usable'
    BY <1>6 DEF Renew, Phase, Ready, Resources, Needs, NoPort
  <2>3. QED
    BY <2>1, <2>2
<1>7. CASE NoMoreEvents
  <2>1. Phase'
    BY <1>7 DEF NoMoreEvents, Phase, Ready, Resources
  <2>2. Usable'
    BY <1>7 DEF NoMoreEvents, Phase, Ready, Resources, Needs, NoPort
  <2>3. QED
    BY <2>1, <2>2
<1>8. QED
  BY <1>1, <1>2, <1>3, <1>4, <1>5, <1>6, <1>7 DEF Serve

LEMMA LeaveHolds == IInv /\ Leave => IInv'
<1> SUFFICES ASSUME IInv, Leave PROVE IInv'
  OBVIOUS
<1> USE DEF IInv, Usable, Go, Progress, Fail, Release
<1>1. CASE Hangup
  <2>1. Phase'
    BY <1>1 DEF Hangup, Phase, Ready, Resources
  <2>2. Usable'
    BY <1>1 DEF Hangup, Phase, Ready, Resources, Needs, NoPort
  <2>3. QED
    BY <2>1, <2>2
<1>2. CASE CloseWave
  <2>1. Phase'
    BY <1>2 DEF CloseWave, Phase, Ready, Resources
  <2>2. Usable'
    BY <1>2 DEF CloseWave, Phase, Ready, Resources, Needs, NoPort
  <2>3. QED
    BY <2>1, <2>2
<1>3. CASE StopIax
  <2>1. Phase'
    BY <1>3 DEF StopIax, Phase, Ready, Resources
  <2>2. Usable'
    BY <1>3 DEF StopIax, Phase, Ready, Resources, Needs, NoPort
  <2>3. QED
    BY <2>1, <2>2
<1>4. CASE Cleanup
  <2>1. Phase'
    BY <1>4 DEF Cleanup, Phase, Ready, Resources
  <2>2. Usable'
    BY <1>4 DEF Cleanup, Phase, Ready, Resources, Needs, NoPort
  <2>3. QED
    BY <2>1, <2>2
<1>5. CASE Forget
  <2>1. Phase'
    BY <1>5 DEF Forget, Phase, Ready, Resources
  <2>2. Usable'
    BY <1>5 DEF Forget, Phase, Ready, Resources, Needs, NoPort
  <2>3. QED
    BY <2>1, <2>2
<1>6. CASE End
  <2>1. Phase'
    BY <1>6 DEF End, Phase, Ready, Resources
  <2>2. Usable'
    BY <1>6 DEF End, Phase, Ready, Resources, Needs, NoPort
  <2>3. QED
    BY <2>1, <2>2
<1>7. CASE Free
  <2>1. Phase'
    BY <1>7 DEF Free, Phase, Ready, Resources
  <2>2. Usable'
    BY <1>7 DEF Free, Phase, Ready, Resources, Needs, NoPort
  <2>3. QED
    BY <2>1, <2>2
<1>8. CASE Freed
  <2>1. Phase'
    BY <1>8 DEF Freed, Phase, Ready, Resources
  <2>2. Usable'
    BY <1>8 DEF Freed, Phase, Ready, Resources, Needs, NoPort
  <2>3. QED
    BY <2>1, <2>2
<1>9. QED
  BY <1>1, <1>2, <1>3, <1>4, <1>5, <1>6, <1>7, <1>8 DEF Leave

LEMMA StepHolds == IInv /\ [Next]_vars => IInv'
<1> SUFFICES ASSUME IInv, [Next]_vars PROVE IInv'
  OBVIOUS
<1>1. CASE Start \/ Serve \/ Leave
  BY <1>1, StartHolds, ServeHolds, LeaveHolds
<1>2. CASE Write \/ Control \/ HandleStop \/ HandleInterrogate \/ UNCHANGED vars
  <2>1. UNCHANGED <<pc, iaxPort, held>>
    BY <1>2 DEF Write, Control, HandleStop, HandleInterrogate, vars, service
  <2>2. QED
    BY <2>1 DEF IInv, Phase, Usable
<1>3. CASE ProcessEnds
  <2>1. pc' = "gone" /\ held' = {} /\ iaxPort' = iaxPort
    BY <1>3 DEF ProcessEnds
  <2>2. QED
    BY <2>1 DEF IInv, Phase, Usable
<1>4. QED
  BY <1>1, <1>2, <1>3 DEF Next, Manager

(* Whatever fails and whenever the service is stopped, each resource is released
   while what its release needs is there, and none is left in the end. *)
THEOREM NothingLeft == Spec => []Unwound
<1>1. IInv => Unwound
  BY DEF IInv, Phase, Usable, Unwound
<1>2. QED
  BY InitHolds, StepHolds, <1>1, PTL DEF Spec

-----------------------------------------------------------------------------
(* What the SCM is told *)

(* the writes there are *)
StateWrites == [do : {"set"}, field : {"CurrentState"}, value : States]
CountWrites == [do : {"set"}, field : {"CheckPoint", "WaitHint"}, value : Nat]
CodeWrites == [do : {"set"}, field : {"Win32ExitCode"}, value : {Success, Failure}]
AimWrites == [do : {"aim"}, state : {"none", "running", "stopped"}]
Writes == StateWrites \cup CountWrites \cup CodeWrites \cup AimWrites \cup {CountOn, Report}

(* what is left to write ends with a report; the state and the target it sets are
   x only *)
Reported == todo \in Seq(Writes) /\ (todo # << >> => todo[Len(todo)] = Report)
OnlyState(x) == \A k \in 1 .. Len(todo) : todo[k] \in StateWrites => todo[k].value = x
OnlyAim(x) == \A k \in 1 .. Len(todo) : todo[k] \in AimWrites => todo[k].state = x

(* the record says x, or the next write makes it *)
IsOrNext(field, x) ==
  status[field] = x \/ (Len(todo) > 0 /\ todo[1] = Set(field, x))
Aimed(x) == target = x \/ \E k \in 1 .. Len(todo) : todo[k] = Aim(x)

(* what the SCM knows after it was told the record *)
Heard == IF status.CurrentState = "none" \/ scm.CurrentState = "stopped" THEN scm ELSE status

Starting == {"parse", "winsock", "iax", "register", "select", "wave", "started"}
Leaving == {"hangup", "close", "stop iax", "cleanup", "forget", "end"}
Ending == {"free", "freed", "gone"}

(* the state the record and the SCM may show while ServiceMain is at a step *)
Shown(state) ==
  /\ pc \in {"initialize"} \cup Starting => state \notin {"running", "stopped"}
  /\ pc \in {"waiting", "events", "hangup"} => state # "stopped"
  /\ pc = "hangup" => (state = "running" => Ready \subseteq held)
  /\ pc \in Leaving \ {"hangup"} => state \notin {"running", "stopped"}
  /\ pc \in Ending => state # "running"

(* ... and where the writes lead to *)
Leads ==
  /\ pc = "initialize" => status = Fresh /\ todo = << >>
  /\ pc \in Starting => OnlyState("start pending") /\ OnlyAim("running") /\ Aimed("running")
  /\ pc \in {"waiting", "events"} => OnlyState("running")
  /\ pc \in Leaving => OnlyState("stop pending") /\ OnlyAim("stopped") /\ Aimed("stopped")
  /\ pc = "hangup" =>
       /\ IsOrNext("CurrentState", "stop pending")
       /\ todo = << >> => scm.CurrentState = "stop pending"
  /\ pc = "free" =>
       /\ OnlyState("stopped") /\ IsOrNext("CurrentState", "stopped")
       /\ todo = << >> => scm.CurrentState = "stopped"
  /\ pc = "freed" => OnlyState("stopped") /\ scm.CurrentState = "stopped"
  /\ pc = "gone" =>
       /\ todo = << >>
       /\ status = Fresh \/ scm.CurrentState = "stopped"

Told == TypeOK /\ Reported /\ Shown(status.CurrentState) /\ Shown(scm.CurrentState) /\ Leads

-----------------------------------------------------------------------------
(* One write of the record, of the target or to the SCM. *)
LEMMA OneWrite ==
  ASSUME TypeOK, Reported, Write
  PROVE  /\ todo # << >> /\ todo[1] \in Writes
         /\ todo' \in Seq(Writes) /\ Len(todo') = Len(todo) - 1
         /\ \A k \in 1 .. Len(todo') : todo'[k] = todo[k + 1]
         /\ status' \in Statuses /\ target' \in {"none", "running", "stopped"}
         /\ status'.CurrentState = IF todo[1] \in StateWrites THEN todo[1].value ELSE status.CurrentState
         /\ target' = IF todo[1] \in AimWrites THEN todo[1].state ELSE target
         /\ scm' = IF todo[1] = Report THEN Heard ELSE scm
         /\ todo[1] = Report => status' = status
         /\ UNCHANGED <<pc, held, exitCode, iaxPort, shift32, control, shutdown>>
<1> DEFINE w == todo[1]
<1>1. /\ todo # << >> /\ todo \in Seq(Writes) /\ todo' = Tail(todo) /\ Head(todo) = w
      /\ UNCHANGED <<pc, held, exitCode, iaxPort, shift32, control, shutdown>>
  BY DEF Write, Reported
<1>2. /\ w \in Writes
      /\ todo' \in Seq(Writes) /\ Len(todo') = Len(todo) - 1
      /\ \A k \in 1 .. Len(todo') : todo'[k] = todo[k + 1]
  BY <1>1, HeadTailProperties
<1>3. \/ /\ w.do = "set" /\ status' = [status EXCEPT ![w.field] = w.value]
         /\ UNCHANGED <<target, scm>>
      \/ /\ w.do = "aim" /\ target' = w.state /\ UNCHANGED <<status, scm>>
      \/ /\ w.do = "count" /\ status' = [status EXCEPT !.CheckPoint = @ + 1]
         /\ UNCHANGED <<target, scm>>
      \/ /\ w.do = "report" /\ scm' = Heard /\ UNCHANGED <<status, target>>
  BY <1>1 DEF Write, Tell, Heard
<1>4. status \in Statuses /\ target \in {"none", "running", "stopped"}
  BY DEF TypeOK
<1> DEFINE Outcome ==
      /\ status' \in Statuses /\ target' \in {"none", "running", "stopped"}
      /\ status'.CurrentState = IF w \in StateWrites THEN w.value ELSE status.CurrentState
      /\ target' = IF w \in AimWrites THEN w.state ELSE target
      /\ scm' = IF w = Report THEN Heard ELSE scm
      /\ w = Report => status' = status
<1> HIDE DEF w
<1>5. ASSUME w \in StateWrites PROVE Outcome
  <2>1. w.do = "set" /\ w.field = "CurrentState" /\ w.value \in States
    BY <1>5 DEF StateWrites
  <2>2. w \notin CodeWrites /\ w \notin AimWrites /\ w # Report
    BY <2>1 DEF CodeWrites, AimWrites, Report
  <2>3. status' = [status EXCEPT !.CurrentState = w.value] /\ UNCHANGED <<target, scm>>
    BY <1>3, <2>1
  <2>4. QED
    BY <1>4, <1>5, <2>1, <2>2, <2>3 DEF Statuses
<1>6. ASSUME w \in CountWrites PROVE Outcome
  <2>1. w.do = "set" /\ w.field \in {"CheckPoint", "WaitHint"} /\ w.value \in Nat
    BY <1>6 DEF CountWrites
  <2>2. w \notin StateWrites /\ w \notin CodeWrites /\ w \notin AimWrites /\ w # Report
    BY <2>1 DEF StateWrites, CodeWrites, AimWrites, Report
  <2>3. status' = [status EXCEPT ![w.field] = w.value] /\ UNCHANGED <<target, scm>>
    BY <1>3, <2>1
  <2>4. QED
    BY <1>4, <2>1, <2>2, <2>3 DEF Statuses
<1>7. ASSUME w \in CodeWrites PROVE Outcome
  <2>1. w.do = "set" /\ w.field = "Win32ExitCode" /\ w.value \in {Success, Failure}
    BY <1>7 DEF CodeWrites
  <2>2. w \notin StateWrites /\ w \notin AimWrites /\ w # Report
    BY <2>1 DEF StateWrites, AimWrites, Report
  <2>3. status' = [status EXCEPT !.Win32ExitCode = w.value] /\ UNCHANGED <<target, scm>>
    BY <1>3, <2>1
  <2>5. w.value \in {Success, Failure}
    BY <2>1
  <2>4. QED
    BY <1>4, <2>1, <2>2, <2>3, <2>5 DEF Statuses
<1>8. ASSUME w \in AimWrites PROVE Outcome
  <2>1. w.do = "aim" /\ w.state \in {"none", "running", "stopped"}
    BY <1>8 DEF AimWrites
  <2>2. w \notin StateWrites /\ w \notin CodeWrites /\ w # Report
    BY <2>1 DEF StateWrites, CodeWrites, Report
  <2>3. target' = w.state /\ UNCHANGED <<status, scm>>
    BY <1>3, <2>1
  <2>4. QED
    BY <1>4, <1>8, <2>1, <2>2, <2>3
<1>9. ASSUME w = CountOn PROVE Outcome
  <2>1. w.do = "count"
    BY <1>9 DEF CountOn
  <2>2. w \notin StateWrites /\ w \notin CodeWrites /\ w \notin AimWrites /\ w # Report
    BY <2>1 DEF StateWrites, CodeWrites, AimWrites, Report
  <2>3. status' = [status EXCEPT !.CheckPoint = @ + 1] /\ UNCHANGED <<target, scm>>
    BY <1>3, <2>1
  <2>4. QED
    BY <1>4, <2>2, <2>3 DEF Statuses
<1>10. ASSUME w = Report PROVE Outcome
  <2>1. w.do = "report"
    BY <1>10 DEF Report
  <2>2. w \notin StateWrites /\ w \notin CodeWrites /\ w \notin AimWrites
    BY <2>1 DEF StateWrites, CodeWrites, AimWrites
  <2>3. scm' = Heard /\ UNCHANGED <<status, target>>
    BY <1>3, <2>1
  <2>4. QED
    BY <1>4, <1>10, <2>2, <2>3
<1>11. Outcome
  BY <1>2, <1>5, <1>6, <1>7, <1>8, <1>9, <1>10 DEF Writes
<1>12. QED
  BY <1>1, <1>2, <1>11 DEF w

-----------------------------------------------------------------------------
(* The lists of writes of service.c. *)
LEMMA Kinds ==
  /\ \A f, v : Set(f, v) \notin AimWrites
  /\ \A f, v : f # "CurrentState" => Set(f, v) \notin StateWrites
  /\ \A f, v : Set(f, v).value = v
  /\ \A x : Aim(x) \notin StateWrites /\ Aim(x).state = x
  /\ \A v \in States : Set("CurrentState", v) \in StateWrites /\ Set("CurrentState", v) \in Writes
  /\ \A v \in {Success, Failure} : Set("Win32ExitCode", v) \in CodeWrites
  /\ \A v : Set("CurrentState", v) # Report /\ Set("Win32ExitCode", v) # Report
  /\ \A f \in {"CheckPoint", "WaitHint"} : \A v \in Nat : Set(f, v) \in Writes
  /\ \A x \in {"none", "running", "stopped"} : Aim(x) \in Writes
  /\ Report \in Writes /\ Report \notin StateWrites /\ Report \notin AimWrites
<1>1. /\ \A f, v : Set(f, v) \notin AimWrites
      /\ \A f, v : f # "CurrentState" => Set(f, v) \notin StateWrites
      /\ \A f, v : Set(f, v).value = v
  BY DEF Set, AimWrites, StateWrites
<1>2. \A x : Aim(x) \notin StateWrites /\ Aim(x).state = x
  BY DEF Aim, StateWrites
<1>3. \A v \in States : Set("CurrentState", v) \in StateWrites
  BY DEF Set, StateWrites
<1>4. \A f \in {"CheckPoint", "WaitHint"} : \A v \in Nat : Set(f, v) \in CountWrites
  BY DEF Set, CountWrites
<1>5. \A x \in {"none", "running", "stopped"} : Aim(x) \in AimWrites
  BY DEF Aim, AimWrites
<1>6. Report \notin StateWrites /\ Report \notin AimWrites
  BY DEF Report, StateWrites, AimWrites
<1>7. \A v \in {Success, Failure} : Set("Win32ExitCode", v) \in CodeWrites
  BY DEF Set, CodeWrites
<1>8. \A v : Set("CurrentState", v) # Report /\ Set("Win32ExitCode", v) # Report
  BY DEF Set, Report
<1>9. QED
  BY <1>1, <1>2, <1>3, <1>4, <1>5, <1>6, <1>7, <1>8 DEF Writes

(* the same list with its writes unnamed *)
LEMMA FiveWrites ==
  ASSUME NEW a, NEW b, NEW c, NEW d, todo' = <<a, b, c, d, Report>>,
         a \in Writes, b \in Writes, c \in Writes, d \in Writes, Report \in Writes,
         b \notin StateWrites, c \notin StateWrites, d \notin StateWrites, Report \notin StateWrites,
         a \notin AimWrites, b \notin AimWrites, c \notin AimWrites, Report \notin AimWrites
  PROVE  /\ Reported' /\ \A x : x = a.value => OnlyState(x)'
         /\ \A x : x = d.state => OnlyAim(x)'
         /\ \A x : d = Aim(x) => Aimed(x)'
         /\ \A field, x : a = Set(field, x) => IsOrNext(field, x)'
         /\ todo' # << >>
<1>1. todo' \in Seq(Writes)
  OBVIOUS
<1>2. /\ Len(todo') = 5 /\ todo'[1] = a /\ todo'[2] = b /\ todo'[3] = c /\ todo'[4] = d
      /\ todo'[5] = Report
  OBVIOUS
<1>3. Reported'
  BY <1>1, <1>2 DEF Reported
<1>4. ASSUME NEW x, x = a.value PROVE OnlyState(x)'
  BY <1>2, <1>4 DEF OnlyState
<1>5. ASSUME NEW x, x = d.state PROVE OnlyAim(x)'
  BY <1>2, <1>5 DEF OnlyAim
<1>6. ASSUME NEW x, d = Aim(x) PROVE Aimed(x)'
  BY <1>2, <1>6 DEF Aimed
<1>7. ASSUME NEW field, NEW x, a = Set(field, x) PROVE IsOrNext(field, x)'
  BY <1>2, <1>7 DEF IsOrNext
<1>8. QED
  BY <1>2, <1>3, <1>4, <1>5, <1>6, <1>7

(* BeginServiceStatus sets one state only and aims at one only. *)
LEMMA BeginWrites ==
  ASSUME NEW goal, NEW pending, NEW hint, todo' = BeginServiceStatus(goal, pending, hint),
         Set("CurrentState", pending) \in Writes, Set("WaitHint", hint) \in Writes,
         Aim(goal) \in Writes
  PROVE  /\ Reported' /\ todo' # << >>
         /\ \A x : x = pending => OnlyState(x)' /\ IsOrNext("CurrentState", x)'
         /\ \A x : x = goal => OnlyAim(x)' /\ Aimed(x)'
<1> DEFINE w1 == Set("CurrentState", pending)
           w2 == Set("CheckPoint", 0)
           w3 == Set("WaitHint", hint)
           w4 == Aim(goal)
<1>1. todo' = <<w1, w2, w3, w4, Report>>
  BY DEF BeginServiceStatus
<1>2. w1 \in Writes /\ w1.value = pending /\ w1 \notin AimWrites
  BY Kinds
<1>3. w2 \in Writes /\ w2 \notin StateWrites /\ w2 \notin AimWrites
  BY Kinds
<1>4. w3 \in Writes /\ w3 \notin StateWrites /\ w3 \notin AimWrites
  BY Kinds
<1>5. w4 \in Writes /\ w4.state = goal /\ w4 \notin StateWrites
  BY Kinds
<1>6. Report \in Writes /\ Report \notin StateWrites /\ Report \notin AimWrites
  BY Kinds
<1> HIDE DEF w1, w2, w3, w4
<1>7. /\ Reported' /\ todo' # << >>
      /\ \A x : x = w1.value => OnlyState(x)'
      /\ \A x : x = w4.state => OnlyAim(x)'
      /\ \A x : w4 = Aim(x) => Aimed(x)'
      /\ \A field, x : w1 = Set(field, x) => IsOrNext(field, x)'
  BY <1>1, <1>2, <1>3, <1>4, <1>5, <1>6, FiveWrites, Zenon
<1>8. w1 = Set("CurrentState", pending) /\ w4 = Aim(goal)
  BY Zenon DEF w1, w4
<1>9. QED
  BY <1>2, <1>5, <1>7, <1>8, Zenon

(* ProgressServiceStatus sets no state and aims at nothing. *)
LEMMA ProgressWrites ==
  ASSUME todo' \in {<< >>, <<CountOn, Report>>}
  PROVE  /\ Reported' /\ \A x : OnlyState(x)' /\ OnlyAim(x)'
<1>1. CASE todo' = << >>
  BY <1>1 DEF Reported, OnlyState, OnlyAim
<1>2. CASE todo' = <<CountOn, Report>>
  <2>1. /\ Len(todo') = 2 /\ todo'[1] = CountOn /\ todo'[2] = Report
        /\ todo' \in Seq({CountOn, Report})
    BY <1>2
  <2>2. {CountOn, Report} \cap (StateWrites \cup AimWrites) = {}
    BY DEF CountOn, Report, StateWrites, AimWrites
  <2>3. todo' \in Seq(Writes)
    BY <2>1 DEF Writes
  <2>4. \A k \in 1 .. Len(todo') : todo'[k] \notin StateWrites /\ todo'[k] \notin AimWrites
    BY <2>1, <2>2
  <2>5. QED
    BY <2>1, <2>3, <2>4 DEF Reported, OnlyState, OnlyAim
<1>3. QED
  BY <1>1, <1>2

(* EndServiceStatus sets the state that was aimed at. *)
LEMMA EndWrites ==
  ASSUME target \in {"running", "stopped"}, todo' = EndServiceStatus
  PROVE  /\ Reported' /\ \A x : x = target => OnlyState(x)'
         /\ Len(todo') = 5 /\ todo'[1] = Set("CurrentState", target)
<1>0. todo' = <<Set("CurrentState", target), Set("CheckPoint", 0), Set("WaitHint", 0),
                Aim("none"), Report>>
  BY DEF EndServiceStatus
<1>1. /\ Len(todo') = 5 /\ todo' \in Seq({Set("CurrentState", target), Set("CheckPoint", 0),
                                         Set("WaitHint", 0), Aim("none"), Report})
      /\ todo'[1] = Set("CurrentState", target) /\ todo'[2] = Set("CheckPoint", 0)
      /\ todo'[3] = Set("WaitHint", 0) /\ todo'[4] = Aim("none") /\ todo'[5] = Report
  BY <1>0
<1>2. /\ Set("CurrentState", target) \in StateWrites
      /\ Set("CheckPoint", 0) \in CountWrites /\ Set("WaitHint", 0) \in CountWrites
      /\ Aim("none") \in AimWrites
  BY DEF Set, Aim, StateWrites, CountWrites, AimWrites, States
<1>3. /\ {Set("CheckPoint", 0), Set("WaitHint", 0), Aim("none"), Report} \cap StateWrites = {}
      /\ Set("CurrentState", target).value = target
  BY DEF Set, Aim, Report, StateWrites
<1>4. todo' \in Seq(Writes)
  BY <1>1, <1>2 DEF Writes
<1>5. ASSUME NEW x, x = target PROVE OnlyState(x)'
  BY <1>1, <1>3, <1>5 DEF OnlyState
<1>6. QED
  BY <1>1, <1>4, <1>5 DEF Reported

(* FreeService sets the exit code, then reports. *)
LEMMA FreeWrites ==
  ASSUME exitCode \in {Success, Failure}, todo' = FreeService
  PROVE  Reported' /\ \A x : OnlyState(x)'
<1>1. /\ Len(todo') = 2 /\ todo' \in Seq({Set("Win32ExitCode", exitCode), Report})
      /\ todo'[1] = Set("Win32ExitCode", exitCode) /\ todo'[2] = Report
  BY DEF FreeService
<1>2. Set("Win32ExitCode", exitCode) \in CodeWrites
  BY DEF Set, CodeWrites
<1>3. {Set("Win32ExitCode", exitCode), Report} \cap StateWrites = {}
  BY DEF Set, Report, StateWrites
<1>4. todo' \in Seq(Writes)
  BY <1>1, <1>2 DEF Writes
<1>5. ASSUME NEW x PROVE OnlyState(x)'
  BY <1>1, <1>3 DEF OnlyState
<1>6. QED
  BY <1>1, <1>4, <1>5 DEF Reported

(* What one write does to what is left and to what is told. *)
LEMMA WriteStep ==
  ASSUME TypeOK, Reported, Write
  PROVE  /\ TypeOK' /\ Reported' /\ todo # << >>
         /\ \A x : OnlyState(x) =>
               OnlyState(x)' /\ status'.CurrentState \in {x, status.CurrentState}
         /\ \A x : OnlyAim(x) => OnlyAim(x)' /\ (Aimed(x) => Aimed(x)')
         /\ \A x \in States :
               OnlyState(x) /\ IsOrNext("CurrentState", x) => status'.CurrentState = x
         /\ todo' = << >> => scm' = Heard /\ status' = status
         /\ scm' \in {scm, Heard}
         /\ UNCHANGED <<pc, held, exitCode>>
<1>1. /\ todo # << >> /\ todo[1] \in Writes
      /\ todo' \in Seq(Writes) /\ Len(todo') = Len(todo) - 1
      /\ \A k \in 1 .. Len(todo') : todo'[k] = todo[k + 1]
      /\ status' \in Statuses /\ target' \in {"none", "running", "stopped"}
      /\ status'.CurrentState = IF todo[1] \in StateWrites THEN todo[1].value ELSE status.CurrentState
      /\ target' = IF todo[1] \in AimWrites THEN todo[1].state ELSE target
      /\ scm' = IF todo[1] = Report THEN Heard ELSE scm
      /\ todo[1] = Report => status' = status
      /\ UNCHANGED <<pc, held, exitCode, iaxPort, shift32, control, shutdown>>
  BY OneWrite
<1>2. /\ todo \in Seq(Writes) /\ Len(todo) \in Nat /\ Len(todo) >= 1
      /\ todo[Len(todo)] = Report
  BY <1>1 DEF Reported
<1>3. TypeOK'
  <2>1. scm' \in Statuses
    BY <1>1 DEF TypeOK, Heard
  <2>2. QED
    BY <1>1, <2>1 DEF TypeOK
<1>4. Reported'
  <2>1. ASSUME todo' # << >> PROVE todo'[Len(todo')] = Report
    <3>1. Len(todo') \in Nat /\ Len(todo') # 0
      BY <1>1, <2>1
    <3>2. Len(todo') \in 1 .. Len(todo') /\ Len(todo') + 1 = Len(todo)
      BY <1>1, <1>2, <3>1
    <3>3. QED
      BY <1>1, <1>2, <3>2
  <2>2. QED
    BY <1>1, <2>1 DEF Reported
<1>5. ASSUME NEW k \in 1 .. Len(todo') PROVE k + 1 \in 1 .. Len(todo) /\ todo'[k] = todo[k + 1]
  BY <1>1, <1>2
<1>6. 1 \in 1 .. Len(todo)
  BY <1>2
<1>7. ASSUME NEW x, OnlyState(x)
      PROVE  OnlyState(x)' /\ status'.CurrentState \in {x, status.CurrentState}
  <2>1. OnlyState(x)'
    BY <1>5, <1>7 DEF OnlyState
  <2>2. QED
    BY <1>1, <1>6, <1>7, <2>1 DEF OnlyState
<1>9. ASSUME NEW x, OnlyAim(x) PROVE OnlyAim(x)' /\ (Aimed(x) => Aimed(x)')
  <2>1. OnlyAim(x)'
    BY <1>5, <1>9 DEF OnlyAim
  <2>2. ASSUME target = x PROVE target' = x
    BY <1>1, <1>6, <1>9, <2>2 DEF OnlyAim
  <2>3. ASSUME NEW k \in 1 .. Len(todo), todo[k] = Aim(x), target' # x
        PROVE  \E n \in 1 .. Len(todo') : todo'[n] = Aim(x)
    <3>1. k # 1
      <4>1. SUFFICES ASSUME k = 1 PROVE target' = x
        BY <2>3
      <4>2. todo[1] = Aim(x) /\ todo[1] \in Writes
        BY <1>1, <2>3, <4>1
      <4>3. todo[1] \in AimWrites /\ todo[1].state = x
        <5>1. todo[1].do = "aim" /\ todo[1].state = x
          BY <4>2 DEF Aim
        <5>2. QED
          BY <4>2, <5>1 DEF Writes, StateWrites, CountWrites, CodeWrites, CountOn, Report
      <4>4. QED
        BY <1>1, <4>3
    <3>2. k - 1 \in 1 .. Len(todo') /\ (k - 1) + 1 = k
      BY <1>1, <1>2, <3>1
    <3>3. todo'[k - 1] = todo[k]
      BY <1>1, <3>2
    <3>4. QED
      BY <2>3, <3>2, <3>3
  <2>4. QED
    BY <2>1, <2>2, <2>3 DEF Aimed
<1>10. ASSUME NEW x \in States, OnlyState(x), IsOrNext("CurrentState", x)
       PROVE  status'.CurrentState = x
  <2>1. CASE todo[1] = Set("CurrentState", x)
    BY <1>1, <2>1, Kinds
  <2>2. CASE status.CurrentState = x
    BY <1>7, <1>10, <2>2
  <2>3. QED
    BY <1>10, <2>1, <2>2 DEF IsOrNext
<1>12. ASSUME todo' = << >> PROVE scm' = Heard /\ status' = status
  <2>1. Len(todo) = 1
    BY <1>1, <1>2, <1>12
  <2>2. todo[1] = Report
    BY <1>2, <2>1
  <2>3. QED
    BY <1>1, <2>2
<1>13. scm' \in {scm, Heard} /\ UNCHANGED <<pc, held, exitCode>>
  BY <1>1
<1>14. QED
  BY <1>1, <1>3, <1>4, <1>7, <1>9, <1>10, <1>12, <1>13

-----------------------------------------------------------------------------
(* Told holds at first. *)
LEMMA ToldAtFirst == Init => Told
<1> SUFFICES ASSUME Init PROVE Told
  OBVIOUS
<1>1. /\ shift32 \in {0, W} /\ pc = "initialize" /\ iaxPort = NoPort /\ exitCode = Success
      /\ held = {} /\ status = Fresh /\ target = "none" /\ todo = << >>
      /\ scm = [Fresh EXCEPT !.CurrentState = "start pending"]
      /\ control = "none" /\ shutdown = FALSE
  BY DEF Init
<1>2. status \in Statuses /\ status.CurrentState = "none"
      /\ scm \in Statuses /\ scm.CurrentState = "start pending"
  BY <1>1 DEF Fresh, Statuses, States
<1>3. TypeOK
  BY <1>1, <1>2 DEF TypeOK, Steps
<1>4. Reported
  <2>1. todo = << >>
    BY <1>1
  <2>2. QED
    BY <2>1 DEF Reported
<1>5. Leads
  BY <1>1 DEF Leads, Starting, Leaving
<1>6. Shown(status.CurrentState) /\ Shown(scm.CurrentState)
  BY <1>1, <1>2 DEF Shown, Leaving, Ending, Starting
<1>7. QED
  BY <1>3, <1>4, <1>5, <1>6 DEF Told

(* When nothing is left to write, what was to be written is. *)
LEMMA AllWritten ==
  ASSUME NEW field, NEW x, todo = << >>, IsOrNext(field, x)
  PROVE  status[field] = x
<1>1. Len(todo) = 0
  OBVIOUS
<1>2. QED
  BY <1>1 DEF IsOrNext

(* ... and the target is what was aimed at. *)
LEMMA AllAimed ==
  ASSUME NEW x, todo = << >>, Aimed(x)
  PROVE  target = x
<1>1. Len(todo) = 0
  OBVIOUS
<1>2. QED
  BY <1>1 DEF Aimed

(* Whatever the step, the SCM sees a record that may be shown. *)
LEMMA WriteTold ==
  ASSUME Told, Write
  PROVE  Told'
<1>1. TypeOK /\ Reported /\ Shown(status.CurrentState) /\ Shown(scm.CurrentState) /\ Leads
  BY DEF Told
<1>2. /\ TypeOK' /\ Reported' /\ todo # << >>
      /\ \A x : OnlyState(x) =>
            OnlyState(x)' /\ status'.CurrentState \in {x, status.CurrentState}
      /\ \A x : OnlyAim(x) => OnlyAim(x)' /\ (Aimed(x) => Aimed(x)')
      /\ \A x \in States :
            OnlyState(x) /\ IsOrNext("CurrentState", x) => status'.CurrentState = x
      /\ todo' = << >> => scm' = Heard /\ status' = status
      /\ scm' \in {scm, Heard}
      /\ UNCHANGED <<pc, held, exitCode>>
  BY <1>1, WriteStep
<1>3. exitCode \in {Success, Failure} /\ pc \in Steps
  BY <1>1 DEF TypeOK
<1>4. Shown(status.CurrentState)'
  <2>1. CASE pc \in Starting
    <3>1. OnlyState("start pending")
      BY <1>1, <2>1 DEF Leads
    <3>2. status'.CurrentState \in {"start pending", status.CurrentState}
      BY <1>2, <3>1
    <3>3. status.CurrentState \notin {"running", "stopped"}
      BY <1>1, <2>1 DEF Shown
    <3>4. QED
      BY <1>2, <2>1, <3>2, <3>3 DEF Shown, Starting, Leaving, Ending
  <2>2. CASE pc \in {"waiting", "events"}
    <3>1. OnlyState("running")
      BY <1>1, <2>2 DEF Leads
    <3>2. status'.CurrentState \in {"running", status.CurrentState}
      BY <1>2, <3>1
    <3>3. status.CurrentState # "stopped"
      BY <1>1, <2>2 DEF Shown
    <3>4. QED
      BY <1>2, <2>2, <3>2, <3>3 DEF Shown, Starting, Leaving, Ending
  <2>3. CASE pc \in Leaving
    <3>1. OnlyState("stop pending")
      BY <1>1, <2>3 DEF Leads
    <3>2. status'.CurrentState \in {"stop pending", status.CurrentState}
      BY <1>2, <3>1
    <3>3. QED
      BY <1>1, <1>2, <2>3, <3>2 DEF Shown, Starting, Leaving, Ending
  <2>4. CASE pc \in {"free", "freed"}
    <3>1. OnlyState("stopped")
      BY <1>1, <2>4 DEF Leads
    <3>2. status'.CurrentState # "running"
      BY <1>1, <1>2, <2>4, <3>1 DEF Shown, Ending
    <3>3. QED
      BY <1>2, <2>4, <3>2 DEF Shown, Starting, Leaving, Ending
  <2>5. pc \notin {"initialize", "gone"}
    BY <1>1, <1>2 DEF Leads
  <2>6. QED
    BY <1>3, <2>1, <2>2, <2>3, <2>4, <2>5 DEF Steps, Starting, Leaving
<1>5. Shown(scm.CurrentState)'
  BY <1>1, <1>2 DEF Shown, Heard
<1>6. Leads'
  <2>1. pc \in Starting => OnlyState("start pending")' /\ OnlyAim("running")' /\ Aimed("running")'
    BY <1>1, <1>2 DEF Leads
  <2>2. pc \in {"waiting", "events"} => OnlyState("running")'
    BY <1>1, <1>2 DEF Leads
  <2>3. pc \in Leaving => OnlyState("stop pending")' /\ OnlyAim("stopped")' /\ Aimed("stopped")'
    BY <1>1, <1>2 DEF Leads
  <2>4. ASSUME pc = "hangup"
        PROVE  /\ IsOrNext("CurrentState", "stop pending")'
               /\ todo' = << >> => scm'.CurrentState = "stop pending"
    <3>1. status'.CurrentState = "stop pending"
      BY <1>1, <1>2, <2>4 DEF Leads, Leaving, States
    <3>2. scm.CurrentState # "stopped"
      BY <1>1, <2>4 DEF Shown
    <3>3. QED
      BY <1>2, <3>1, <3>2 DEF IsOrNext, Heard
  <2>5. ASSUME pc = "free"
        PROVE  /\ OnlyState("stopped")' /\ IsOrNext("CurrentState", "stopped")'
               /\ todo' = << >> => scm'.CurrentState = "stopped"
    <3>1. status'.CurrentState = "stopped" /\ OnlyState("stopped")'
      BY <1>1, <1>2, <2>5 DEF Leads, States
    <3>2. QED
      BY <1>2, <3>1 DEF IsOrNext, Heard
  <2>6. ASSUME pc = "freed" PROVE OnlyState("stopped")' /\ scm'.CurrentState = "stopped"
    <3>1. OnlyState("stopped") /\ scm.CurrentState = "stopped"
      BY <1>1, <2>6 DEF Leads
    <3>2. QED
      BY <1>2, <3>1 DEF Heard
  <2>7. pc' = pc /\ pc \notin {"initialize", "gone"}
    BY <1>1, <1>2 DEF Leads
  <2>8. QED
    BY <2>1, <2>2, <2>3, <2>4, <2>5, <2>6, <2>7 DEF Leads
<1>7. QED
  BY <1>2, <1>4, <1>5, <1>6 DEF Told

(* The handler reports the record as it is, between any two writes. *)
LEMMA ManagerTold ==
  ASSUME IInv, Told, Control \/ HandleStop \/ HandleInterrogate \/ UNCHANGED vars
  PROVE  Told'
<1>1. TypeOK /\ Reported /\ Shown(status.CurrentState) /\ Shown(scm.CurrentState) /\ Leads
  BY DEF Told
<1>2. /\ scm' = scm \/ ("service" \in held /\ scm' = Heard)
      /\ control' \in {control, "none", "stop", "interrogate"} /\ shutdown' \in {shutdown, TRUE}
      /\ UNCHANGED <<shift32, pc, iaxPort, exitCode, held, status, target, todo>>
  BY DEF Control, HandleStop, HandleInterrogate, Tell, Heard, vars, service
<1>3. TypeOK'
  BY <1>1, <1>2 DEF TypeOK, Heard
<1>4. Reported'
  BY <1>1, <1>2 DEF Reported
<1>5. Shown(status.CurrentState)' /\ Shown(scm.CurrentState)'
  BY <1>1, <1>2 DEF Shown, Heard
<1>6. Leads'
  <2>1. ASSUME pc = "hangup", todo = << >> PROVE scm'.CurrentState = "stop pending"
    <3>1. status.CurrentState = "stop pending" /\ scm.CurrentState = "stop pending"
      <4>1. IsOrNext("CurrentState", "stop pending") /\ scm.CurrentState = "stop pending"
        BY <1>1, <2>1 DEF Leads
      <4>2. QED
        BY <2>1, <4>1, AllWritten
    <3>2. QED
      BY <1>2, <3>1 DEF Heard
  <2>2. scm.CurrentState = "stopped" => scm' = scm
    BY <1>2 DEF Heard
  <2>3. pc = "gone" => scm' = scm
    BY <1>2 DEF IInv, Phase
  <2>4. QED
    BY <1>1, <1>2, <2>1, <2>2, <2>3, ZenonT(40) DEF Leads, OnlyState, OnlyAim, Aimed, IsOrNext
<1>7. QED
  BY <1>3, <1>4, <1>5, <1>6 DEF Told

(* Once it has heard of the stop the process ends, the record as it is. *)
LEMMA EndTold ==
  ASSUME Told, ProcessEnds
  PROVE  Told'
<1>1. TypeOK /\ Shown(status.CurrentState) /\ Shown(scm.CurrentState)
  BY DEF Told
<1>2. /\ scm.CurrentState = "stopped" /\ pc' = "gone" /\ held' = {} /\ todo' = << >> /\ control' = "none"
      /\ UNCHANGED <<shift32, iaxPort, exitCode, status, target, scm, shutdown>>
  BY DEF ProcessEnds
<1>3. TypeOK'
  BY <1>1, <1>2 DEF TypeOK, Steps
<1>4. Reported'
  <2>1. Reported' <=> (todo' \in Seq(Writes) /\ (todo' # << >> => todo'[Len(todo')] = Report))
    BY DEF Reported
  <2>2. QED
    BY <1>2, <2>1
<1>5. pc \in Ending
  BY <1>1, <1>2 DEF Shown, TypeOK, Steps, Starting, Leaving, Ending
<1>6. status.CurrentState # "running"
  BY <1>1, <1>5 DEF Shown
<1>7. Shown(status.CurrentState)' /\ Shown(scm.CurrentState)'
  BY <1>2, <1>6 DEF Shown, Starting, Leaving, Ending
<1>8. Leads'
  BY <1>2 DEF Leads, Starting, Leaving
<1>9. QED
  BY <1>3, <1>4, <1>7, <1>8 DEF Told

(* The ways ServiceMain goes from step to step. *)
BeginStart == BeginServiceStatus("running", "start pending", 1000)
BeginStop == BeginServiceStatus("stopped", "stop pending", 1000)
Few == {<< >>, <<CountOn, Report>>}
Moved ==
  \/ /\ pc = "initialize" /\ pc' = "parse"
     /\ todo' = BeginStart
  \/ /\ pc = "initialize" /\ pc' = "gone" /\ todo' = << >>
  \/ /\ pc \in Starting /\ pc' \in Starting /\ todo' \in Few
  \/ /\ pc \in Starting \cup {"waiting", "events"} /\ pc' = "hangup"
     /\ todo' = BeginStop
     /\ pc \in {"waiting", "events"} => Ready \subseteq held'
  \/ /\ pc = "started" /\ pc' = "waiting" /\ todo' = EndServiceStatus
  \/ /\ pc \in {"waiting", "events"} /\ pc' \in {"waiting", "events"} /\ todo' = << >>
  \/ /\ pc \in Leaving \ {"end"} /\ pc' \in Leaving \ {"hangup"} /\ todo' \in Few
  \/ /\ pc = "end" /\ pc' = "free" /\ todo' = EndServiceStatus
  \/ /\ pc = "free" /\ pc' = "freed" /\ todo' = FreeService
  \/ /\ pc = "freed" /\ pc' = "gone" /\ todo' = << >>

(* The two calls ServiceMain makes of BeginServiceStatus. *)
LEMMA StartWrites ==
  ASSUME todo' = BeginStart
  PROVE  /\ Reported' /\ OnlyState("start pending")' /\ OnlyAim("running")' /\ Aimed("running")'
         /\ IsOrNext("CurrentState", "start pending")' /\ todo' # << >>
<1> DEFINE hint == 1000
<1>1. todo' = BeginServiceStatus("running", "start pending", hint)
  BY Zenon DEF BeginStart
<1>2. Set("CurrentState", "start pending") \in Writes
  BY Kinds DEF States
<1>3. Set("WaitHint", hint) \in Writes
  BY Kinds
<1>4. Aim("running") \in Writes
  BY Kinds
<1> HIDE DEF hint
<1>5. /\ Reported' /\ todo' # << >>
      /\ \A x : x = "start pending" => OnlyState(x)' /\ IsOrNext("CurrentState", x)'
      /\ \A x : x = "running" => OnlyAim(x)' /\ Aimed(x)'
  BY <1>1, <1>2, <1>3, <1>4, BeginWrites, Zenon
<1>6. QED
  BY <1>5, Zenon

LEMMA StopWrites ==
  ASSUME todo' = BeginStop
  PROVE  /\ Reported' /\ OnlyState("stop pending")' /\ OnlyAim("stopped")' /\ Aimed("stopped")'
         /\ IsOrNext("CurrentState", "stop pending")' /\ todo' # << >>
<1> DEFINE hint == 1000
<1>1. todo' = BeginServiceStatus("stopped", "stop pending", hint)
  BY Zenon DEF BeginStop
<1>2. Set("CurrentState", "stop pending") \in Writes
  BY Kinds DEF States
<1>3. Set("WaitHint", hint) \in Writes
  BY Kinds
<1>4. Aim("stopped") \in Writes
  BY Kinds
<1> HIDE DEF hint
<1>5. /\ Reported' /\ todo' # << >>
      /\ \A x : x = "stop pending" => OnlyState(x)' /\ IsOrNext("CurrentState", x)'
      /\ \A x : x = "stopped" => OnlyAim(x)' /\ Aimed(x)'
  BY <1>1, <1>2, <1>3, <1>4, BeginWrites, Zenon
<1>6. QED
  BY <1>5, Zenon

(* A checkpoint is counted and reported, or there is none. *)
LEMMA ProgressIsFew == ProgressServiceStatus \in Few /\ << >> \in Few
BY DEF ProgressServiceStatus, Few

(* Every step of ServiceMain is one of those. *)
LEMMA StartMoves ==
  ASSUME Start
  PROVE  Moved /\ todo = << >> /\ UNCHANGED <<shift32, status, target, scm, control>>
<1> USE ProgressIsFew
<1>1. CASE InitializeService
  <2>1. \/ Go("initialize", "parse", BeginStart)
        \/ Go("initialize", "gone", << >>)
    BY <1>1 DEF InitializeService, BeginStart
  <2>2. QED
    BY <2>1 DEF Go, Moved, Starting
<1>2. CASE ReadArgument
  <2>1. \/ Go("parse", "hangup", BeginStop)
        \/ Go("parse", "parse", << >>)
    BY <1>2 DEF ReadArgument, Fail, BeginStop
  <2>2. QED
    BY <2>1 DEF Go, Moved, Starting
<1>3. CASE Parsed
  <2>1. \/ Go("parse", "hangup", BeginStop)
        \/ Go("parse", "winsock", ProgressServiceStatus)
    BY <1>3 DEF Parsed, Fail, Progress, BeginStop
  <2>2. QED
    BY <2>1 DEF Go, Moved, Starting
<1>4. CASE StartWinsock
  <2>1. \/ Go("winsock", "hangup", BeginStop)
        \/ Go("winsock", "iax", ProgressServiceStatus)
    BY <1>4 DEF StartWinsock, Fail, Progress, BeginStop
  <2>2. QED
    BY <2>1 DEF Go, Moved, Starting
<1>5. CASE InitIax
  <2>1. \/ Go("iax", "hangup", BeginStop)
        \/ Go("iax", "register", << >>)
    BY <1>5 DEF InitIax, Fail, BeginStop
  <2>2. QED
    BY <2>1 DEF Go, Moved, Starting
<1>6. CASE Register
  <2>1. \/ Go("register", "hangup", BeginStop)
        \/ Go("register", "select", ProgressServiceStatus)
    BY <1>6 DEF Register, Fail, Progress, BeginStop
  <2>2. QED
    BY <2>1 DEF Go, Moved, Starting
<1>7. CASE Select
  <2>1. \/ Go("select", "hangup", BeginStop)
        \/ Go("select", "wave", ProgressServiceStatus)
    BY <1>7 DEF Select, Fail, Progress, BeginStop
  <2>2. QED
    BY <2>1 DEF Go, Moved, Starting
<1>8. CASE OpenWave
  <2>1. \/ Go("wave", "hangup", BeginStop)
        \/ Go("wave", "started", ProgressServiceStatus)
    BY <1>8 DEF OpenWave, Fail, Progress, BeginStop
  <2>2. QED
    BY <2>1 DEF Go, Moved, Starting
<1>9. CASE Started
  <2>1. Go("started", "waiting", EndServiceStatus)
    BY <1>9 DEF Started
  <2>2. QED
    BY <2>1 DEF Go, Moved, Starting
<1>10. QED
  BY <1>1, <1>2, <1>3, <1>4, <1>5, <1>6, <1>7, <1>8, <1>9 DEF Start

LEMMA ServeMoves ==
  ASSUME IInv, Serve
  PROVE  Moved /\ todo = << >> /\ UNCHANGED <<shift32, status, target, scm, control>>
<1>0. pc \in {"waiting", "events"} => Ready \subseteq held
  BY DEF IInv, Phase
<1>1. CASE WakeShutdown
  <2>1. Go("waiting", "hangup", BeginStop) /\ held' = held
    BY <1>1, ZenonT(40) DEF WakeShutdown, BeginStop
  <2>2. QED
    BY <1>0, <2>1 DEF Go, Moved, Ready
<1>2. CASE Wake
  <2>1. Go("waiting", "events", << >>)
    BY <1>2 DEF Wake
  <2>2. QED
    BY <1>0, <2>1 DEF Go, Moved, Ready
<1>3. CASE WaitFails
  <2>1. Go("waiting", "hangup", BeginStop) /\ held' = held
    BY <1>3 DEF WaitFails, Fail, BeginStop
  <2>2. QED
    BY <1>0, <2>1 DEF Go, Moved, Ready
<1>4. CASE \E address \in Addresses : Connect(address)
  <2>1. \/ Go("events", "hangup", BeginStop) /\ held' = held \cup {"call"}
        \/ Go("events", "events", << >>)
    BY <1>4 DEF Connect, Fail, BeginStop
  <2>2. QED
    BY <1>0, <2>1 DEF Go, Moved, Ready
<1>5. CASE CallEnds
  <2>1. \/ Go("events", "hangup", BeginStop) /\ held' = held
        \/ Go("events", "events", << >>)
    BY <1>5, ZenonT(40) DEF CallEnds, Fail, BeginStop
  <2>2. QED
    BY <1>0, <2>1 DEF Go, Moved, Ready
<1>6. CASE Renew
  <2>1. \/ Go("events", "hangup", BeginStop) /\ held' = held \ {"registration"}
        \/ Go("events", "events", << >>)
    BY <1>6, ZenonT(40) DEF Renew, Fail, BeginStop
  <2>2. QED
    BY <1>0, <2>1 DEF Go, Moved, Ready
<1>7. CASE NoMoreEvents
  <2>1. Go("events", "waiting", << >>)
    BY <1>7 DEF NoMoreEvents
  <2>2. QED
    BY <1>0, <2>1 DEF Go, Moved, Ready
<1>8. QED
  BY <1>1, <1>2, <1>3, <1>4, <1>5, <1>6, <1>7 DEF Serve

LEMMA LeaveMoves ==
  ASSUME Leave
  PROVE  Moved /\ todo = << >> /\ UNCHANGED <<shift32, status, target, scm, control>>
<1> USE ProgressIsFew
<1>1. CASE Hangup
  <2>1. Go("hangup", "close", ProgressServiceStatus)
    BY <1>1 DEF Hangup, Release, Progress
  <2>2. QED
    BY <2>1 DEF Go, Moved, Leaving
<1>2. CASE CloseWave
  <2>1. Go("close", "stop iax", ProgressServiceStatus)
    BY <1>2 DEF CloseWave, Release, Progress
  <2>2. QED
    BY <2>1 DEF Go, Moved, Leaving
<1>3. CASE StopIax
  <2>1. Go("stop iax", "cleanup", ProgressServiceStatus)
    BY <1>3 DEF StopIax, Release, Progress
  <2>2. QED
    BY <2>1 DEF Go, Moved, Leaving
<1>4. CASE Cleanup
  <2>1. Go("cleanup", "forget", ProgressServiceStatus)
    BY <1>4 DEF Cleanup, Release, Progress
  <2>2. QED
    BY <2>1 DEF Go, Moved, Leaving
<1>5. CASE Forget
  <2>1. Go("forget", "end", ProgressServiceStatus)
    BY <1>5 DEF Forget, Release, Progress
  <2>2. QED
    BY <2>1 DEF Go, Moved, Leaving
<1>6. CASE End
  <2>1. Go("end", "free", EndServiceStatus)
    BY <1>6 DEF End
  <2>2. QED
    BY <2>1 DEF Go, Moved, Leaving
<1>7. CASE Free
  <2>1. Go("free", "freed", FreeService)
    BY <1>7 DEF Free
  <2>2. QED
    BY <2>1 DEF Go, Moved, Leaving
<1>8. CASE Freed
  <2>1. Go("freed", "gone", << >>)
    BY <1>8 DEF Freed
  <2>2. QED
    BY <2>1 DEF Go, Moved, Leaving
<1>9. QED
  BY <1>1, <1>2, <1>3, <1>4, <1>5, <1>6, <1>7, <1>8 DEF Leave

(* CHECK stores the error code. *)
LEMMA FailCode ==
  ASSUME NEW from, Fail(from)
  PROVE  exitCode' = Failure
BY DEF Fail

(* Such a step keeps the port and the exit code in their types. *)
LEMMA StepTyped ==
  ASSUME TypeOK, Start \/ Serve \/ Leave
  PROVE  /\ iaxPort' \in {NoPort} \cup 0 .. P - 1 /\ exitCode' \in {Success, Failure}
         /\ shutdown' = shutdown
<1>0. iaxPort \in {NoPort} \cup 0 .. P - 1 /\ exitCode \in {Success, Failure}
  BY DEF TypeOK
<1>1. iaxPort' = iaxPort \/ InitIax
  BY DEF Start, InitializeService, ReadArgument, Parsed, StartWinsock, Register, Select, OpenWave,
         Started, Serve, WakeShutdown, Wake, WaitFails, Connect, CallEnds, Renew, NoMoreEvents,
         Leave, Hangup, CloseWave, StopIax, Cleanup, Forget, End, Free, Freed, Release
<1>2. InitIax => iaxPort' = NoPort \/ iaxPort' \in 1 .. P - 1
  BY DEF InitIax
<1>3. iaxPort' \in {NoPort} \cup 0 .. P - 1
  BY <1>0, <1>1, <1>2, WidthsAssumption
<1>4. exitCode' = exitCode \/ exitCode' = Failure
  <2>1. CASE Start
    BY <2>1, FailCode DEF Start, InitializeService, ReadArgument, Parsed, StartWinsock, InitIax,
                          Register, Select, OpenWave, Started
  <2>2. CASE Serve
    BY <2>2, FailCode DEF Serve, WakeShutdown, Wake, WaitFails, Connect, CallEnds, Renew,
                          NoMoreEvents
  <2>3. CASE Leave
    BY <2>3 DEF Leave, Hangup, CloseWave, StopIax, Cleanup, Forget, End, Free, Freed, Release
  <2>4. QED
    BY <2>1, <2>2, <2>3
<1>5. shutdown' = shutdown
  BY DEF Start, InitializeService, ReadArgument, Parsed, StartWinsock, InitIax, Register, Select,
         OpenWave, Started, Serve, WakeShutdown, Wake, WaitFails, Connect, CallEnds, Renew,
         NoMoreEvents, Leave, Hangup, CloseWave, StopIax, Cleanup, Forget, End, Free, Freed, Release
<1>6. QED
  BY <1>0, <1>3, <1>4, <1>5

(* A step of ServiceMain finds the record and the SCM as the writes before left
   them, and begins writes that lead to where it goes. *)
LEMMA MovedTold ==
  ASSUME IInv, IInv', Told, Start \/ Serve \/ Leave
  PROVE  Told'
<1>1. TypeOK /\ Reported /\ Shown(status.CurrentState) /\ Shown(scm.CurrentState) /\ Leads
  BY DEF Told
<1>2. Moved /\ todo = << >> /\ UNCHANGED <<shift32, status, target, scm, control>>
  BY StartMoves, ServeMoves, LeaveMoves
<1>3. /\ iaxPort' \in {NoPort} \cup 0 .. P - 1 /\ exitCode' \in {Success, Failure}
      /\ shutdown' = shutdown
  BY <1>1, StepTyped
<1> DEFINE Rest == Reported' /\ Shown(status.CurrentState)' /\ Shown(scm.CurrentState)' /\ Leads'
<1> HIDE DEF Rest
<1>4. ASSUME pc' \in Steps, Rest PROVE Told'
  <2>1. held' \subseteq Resources
    BY DEF IInv, Usable
  <2>2. TypeOK'
    BY <1>1, <1>2, <1>3, <1>4, <2>1 DEF TypeOK
  <2>3. QED
    BY <1>4, <2>2 DEF Told, Rest
<1>5. ASSUME pc = "initialize", pc' = "parse", todo' = BeginStart PROVE pc' \in Steps /\ Rest
  <2>1. /\ Reported' /\ OnlyState("start pending")' /\ OnlyAim("running")' /\ Aimed("running")'
    BY <1>5, StartWrites
  <2>2. Leads'
    BY <1>5, <2>1 DEF Leads, Leaving
  <2>3. Shown(status.CurrentState)' /\ Shown(scm.CurrentState)'
    BY <1>1, <1>2, <1>5 DEF Shown, Starting, Leaving, Ending
  <2>4. QED
    BY <1>5, <2>1, <2>2, <2>3 DEF Rest, Steps
<1>6. ASSUME pc = "initialize", pc' = "gone", todo' = << >> PROVE pc' \in Steps /\ Rest
  <2>1. status' = Fresh /\ Reported'
    BY <1>1, <1>2, <1>6 DEF Leads, Reported
  <2>2. Leads'
    BY <1>6, <2>1 DEF Leads, Starting, Leaving
  <2>3. Shown(status.CurrentState)' /\ Shown(scm.CurrentState)'
    BY <1>1, <1>2, <1>6 DEF Shown, Starting, Leaving, Ending
  <2>4. QED
    BY <1>6, <2>1, <2>2, <2>3 DEF Rest, Steps
<1>7. ASSUME pc \in Starting, pc' \in Starting, todo' \in Few PROVE pc' \in Steps /\ Rest
  <2>1. Reported' /\ OnlyState("start pending")' /\ OnlyAim("running")'
    BY <1>7, ProgressWrites DEF Few
  <2>2. target = "running"
    BY <1>1, <1>2, <1>7, AllAimed DEF Leads
  <2>3. Aimed("running")'
    BY <1>2, <2>2 DEF Aimed
  <2>4. Leads'
    BY <1>7, <2>1, <2>3 DEF Leads, Starting, Leaving
  <2>5. Shown(status.CurrentState)' /\ Shown(scm.CurrentState)'
    BY <1>1, <1>2, <1>7 DEF Shown, Starting, Leaving, Ending
  <2>6. QED
    BY <1>7, <2>1, <2>4, <2>5 DEF Rest, Steps, Starting
<1>8. ASSUME pc \in Starting \cup {"waiting", "events"}, pc' = "hangup", todo' = BeginStop,
             pc \in {"waiting", "events"} => Ready \subseteq held'
      PROVE  pc' \in Steps /\ Rest
  <2>1. /\ Reported' /\ OnlyState("stop pending")' /\ OnlyAim("stopped")' /\ Aimed("stopped")'
        /\ IsOrNext("CurrentState", "stop pending")' /\ todo' # << >>
    BY <1>8, StopWrites
  <2>3. Leads'
    BY <1>8, <2>1 DEF Leads, Starting, Leaving
  <2>4. Shown(status.CurrentState)' /\ Shown(scm.CurrentState)'
    BY <1>1, <1>2, <1>8 DEF Shown, Starting, Leaving, Ending
  <2>5. QED
    BY <1>8, <2>1, <2>3, <2>4 DEF Rest, Steps
<1>9. ASSUME pc = "started", pc' = "waiting", todo' = EndServiceStatus PROVE pc' \in Steps /\ Rest
  <2>1. target = "running"
    BY <1>1, <1>2, <1>9, AllAimed DEF Leads, Starting
  <2>2. Reported' /\ OnlyState("running")'
    BY <1>9, <2>1, EndWrites
  <2>3. Leads'
    BY <1>9, <2>2 DEF Leads, Starting, Leaving
  <2>4. Shown(status.CurrentState)' /\ Shown(scm.CurrentState)'
    BY <1>1, <1>2, <1>9 DEF Shown, Starting, Leaving, Ending
  <2>5. QED
    BY <1>9, <2>2, <2>3, <2>4 DEF Rest, Steps
<1>10. ASSUME pc \in {"waiting", "events"}, pc' \in {"waiting", "events"}, todo' = << >>
       PROVE  pc' \in Steps /\ Rest
  <2>1. Reported' /\ OnlyState("running")'
    BY <1>10, ProgressWrites
  <2>2. Leads'
    BY <1>10, <2>1 DEF Leads, Starting, Leaving
  <2>3. Shown(status.CurrentState)' /\ Shown(scm.CurrentState)'
    BY <1>1, <1>2, <1>10 DEF Shown, Starting, Leaving, Ending
  <2>4. QED
    BY <1>10, <2>1, <2>2, <2>3 DEF Rest, Steps
<1>11. ASSUME pc \in Leaving \ {"end"}, pc' \in Leaving \ {"hangup"}, todo' \in Few
       PROVE  pc' \in Steps /\ Rest
  <2>1. Reported' /\ OnlyState("stop pending")' /\ OnlyAim("stopped")'
    BY <1>11, ProgressWrites DEF Few
  <2>2. target = "stopped"
    BY <1>1, <1>2, <1>11, AllAimed DEF Leads
  <2>3. Aimed("stopped")'
    BY <1>2, <2>2 DEF Aimed
  <2>4. Leads'
    BY <1>11, <2>1, <2>3 DEF Leads, Starting, Leaving
  <2>5. pc = "hangup" => status.CurrentState = "stop pending" /\ scm.CurrentState = "stop pending"
    <3>1. pc = "hangup" => IsOrNext("CurrentState", "stop pending") /\ scm.CurrentState = "stop pending"
      BY <1>1, <1>2 DEF Leads
    <3>2. QED
      BY <1>2, <3>1, AllWritten
  <2>6. Shown(status.CurrentState)' /\ Shown(scm.CurrentState)'
    BY <1>1, <1>2, <1>11, <2>5 DEF Shown, Starting, Leaving, Ending
  <2>7. QED
    BY <1>11, <2>1, <2>4, <2>6 DEF Rest, Steps, Leaving
<1>12. ASSUME pc = "end", pc' = "free", todo' = EndServiceStatus PROVE pc' \in Steps /\ Rest
  <2>1. target = "stopped"
    BY <1>1, <1>2, <1>12, AllAimed DEF Leads, Leaving
  <2>2. /\ Reported' /\ OnlyState("stopped")'
        /\ Len(todo') = 5 /\ todo'[1] = Set("CurrentState", "stopped")
    BY <1>12, <2>1, EndWrites
  <2>3. IsOrNext("CurrentState", "stopped")'
    BY <2>2 DEF IsOrNext
  <2>4. Leads'
    BY <1>12, <2>2, <2>3 DEF Leads, Starting, Leaving
  <2>5. Shown(status.CurrentState)' /\ Shown(scm.CurrentState)'
    BY <1>1, <1>2, <1>12 DEF Shown, Starting, Leaving, Ending
  <2>6. QED
    BY <1>12, <2>2, <2>4, <2>5 DEF Rest, Steps
<1>13. ASSUME pc = "free", pc' = "freed", todo' = FreeService
       PROVE  pc' \in Steps /\ Rest
  <2>1. scm.CurrentState = "stopped"
    BY <1>1, <1>2, <1>13 DEF Leads
  <2>2. exitCode \in {Success, Failure}
    BY <1>1 DEF TypeOK
  <2>3. Reported' /\ OnlyState("stopped")'
    BY <1>13, <2>2, FreeWrites
  <2>4. Leads'
    BY <1>2, <1>13, <2>1, <2>3 DEF Leads, Starting, Leaving
  <2>5. Shown(status.CurrentState)' /\ Shown(scm.CurrentState)'
    BY <1>1, <1>2, <1>13 DEF Shown, Starting, Leaving, Ending
  <2>6. QED
    BY <1>13, <2>3, <2>4, <2>5 DEF Rest, Steps
<1>14. ASSUME pc = "freed", pc' = "gone", todo' = << >>
       PROVE  pc' \in Steps /\ Rest
  <2>1. scm.CurrentState = "stopped"
    BY <1>1, <1>14 DEF Leads
  <2>2. Reported'
    BY <1>14, ProgressWrites
  <2>3. Leads'
    BY <1>2, <1>14, <2>1 DEF Leads, Starting, Leaving
  <2>4. Shown(status.CurrentState)' /\ Shown(scm.CurrentState)'
    BY <1>1, <1>2, <1>14 DEF Shown, Starting, Leaving, Ending
  <2>5. QED
    BY <1>14, <2>2, <2>3, <2>4 DEF Rest, Steps
<1>15. QED
  BY <1>2, <1>4, <1>5, <1>6, <1>7, <1>8, <1>9, <1>10, <1>11, <1>12, <1>13, <1>14 DEF Moved

(* Together with what is held, Told is inductive. *)
LEMMA StatusStep == IInv /\ Told /\ [Next]_vars => (IInv /\ Told)'
<1> SUFFICES ASSUME IInv, Told, [Next]_vars PROVE IInv' /\ Told'
  OBVIOUS
<1>1. IInv'
  BY StepHolds
<1>2. CASE Write
  BY <1>1, <1>2, WriteTold
<1>3. CASE Start \/ Serve \/ Leave
  BY <1>1, <1>3, MovedTold
<1>4. CASE Control \/ HandleStop \/ HandleInterrogate \/ UNCHANGED vars
  BY <1>1, <1>4, ManagerTold
<1>5. CASE ProcessEnds
  BY <1>1, <1>5, EndTold
<1>6. QED
  BY <1>2, <1>3, <1>4, <1>5 DEF Next, Manager

-----------------------------------------------------------------------------
(* The record, the target, the port and what is held keep their types, whatever
   the service is started with and whatever it still has to write. *)
THEOREM TypeCorrect == Spec => []TypeOK
<1>1. Told => TypeOK
  BY DEF Told
<1>2. QED
  BY InitHolds, ToldAtFirst, StatusStep, <1>1, PTL DEF Spec

(* Whichever step fails, and between whichever two writes of the record the
   control handler reports it, the SCM hears "running" only while all that a call
   needs is there, "stopped" only when nothing but the service is left, and
   this before a service that was begun is gone. *)
THEOREM SafelyTold == Spec => []ScmTold
<1>1. IInv /\ Told => ScmTold
  <2> SUFFICES ASSUME IInv, Told PROVE ScmTold
    OBVIOUS
  <2>1. pc \in Steps /\ Shown(scm.CurrentState) /\ Leads
    BY DEF Told, TypeOK
  <2>2. scm.CurrentState = "running" => Ready \subseteq held
    BY <2>1 DEF Shown, Starting, Leaving, Ending, Steps, IInv, Phase
  <2>3. scm.CurrentState = "stopped" => held \subseteq {"service"}
    BY <2>1 DEF Shown, Starting, Leaving, Ending, Steps, IInv, Phase
  <2>4. pc = "gone" /\ status # Fresh => scm.CurrentState = "stopped"
    BY <2>1 DEF Leads
  <2>5. QED
    BY <2>2, <2>3, <2>4 DEF ScmTold, Ready
<1>2. QED
  BY InitHolds, ToldAtFirst, StatusStep, <1>1, PTL DEF Spec

-----------------------------------------------------------------------------
(* AsWritten: what ParseSettings makes of a command line *)

(* Powers of 2 are positive: they count the subsets of a finite set. *)
LEMMA Powers ==
  ASSUME NEW k \in Nat
  PROVE  2^k \in Nat \ {0}
<1>1. IsFiniteSet(1 .. k) /\ Cardinality(1 .. k) = k
  BY FS_Interval
<1>2. IsFiniteSet(SUBSET (1 .. k)) /\ Cardinality(SUBSET (1 .. k)) = 2^k
  BY <1>1, FS_SUBSET
<1>3. SUBSET (1 .. k) # {}
  OBVIOUS
<1> QED BY <1>2, <1>3, FS_CardinalityType, FS_EmptySet

HostType == [Address : Nat, Network : Nat]
Parser ==
  [AllowedHosts : Seq(HostType), ForbiddenHosts : Seq(HostType), Register : BOOLEAN,
   Host : BOOLEAN, UserName : BOOLEAN, Secret : BOOLEAN, Port : Int,
   RingTone : BOOLEAN, PlayLoop : BOOLEAN, lastFlag : Letters \cup {"none"}]

LEMMA NotRejected == \A s \in Parser : s # Rejected
<1> SUFFICES ASSUME NEW s \in Parser, s = Rejected PROVE FALSE
  OBVIOUS
<1>1. "lastFlag" \in DOMAIN s
  BY DEF Parser
<1>2. DOMAIN s = {"rejected"}
  BY DEF Rejected
<1> QED BY <1>1, <1>2

(* the line as settings.c splits and understands it: a flag is one character, a
   number whatever begins with one, and a port or a card of any size *)
Split(line, S) == Tiled(line, S) /\ \A j \in S : line[j].kind = "flag"

Understood(line, S) ==
  /\ Split(line, S)
  /\ \A j \in S : line[j].letter \in {"a", "f", "p", "v", "c", "h", "u", "s", "r", "l"}
  /\ \A arg \in Given(line, S, "a") \cup Given(line, S, "f") : arg.kind = "subnet"
  /\ \A arg \in Given(line, S, "p") \cup Given(line, S, "c") : Scans(arg)
  /\ \A arg \in Given(line, S, "v") : Scans(arg) /\ arg.value \in 0 .. MaxVolume
  /\ \A letter \in {"h", "u", "s", "r"} : Empty \notin Given(line, S, letter)
  /\ IsGiven(line, S, "l") => IsGiven(line, S, "r")
  /\ IsGiven(line, S, "h") = IsGiven(line, S, "u")
  /\ IsGiven(line, S, "h") = IsGiven(line, S, "s")

(* ... which is how README.md describes it, where the two agree. *)
LEMMA AsDescribed ==
  ASSUME NEW line, NEW S, Tiled(line, S), Agreed(line, S)
  PROVE  Split(line, S) /\ (Understood(line, S) <=> WellFormed(line, S))
<1>1. Split(line, S)
  BY DEF Split, Agreed
<1>2. /\ \A arg \in Given(line, S, "p") : Scans(arg) <=> Uint(arg, "p")
      /\ \A arg \in Given(line, S, "c") : Scans(arg) <=> Uint(arg, "c")
  BY DEF Agreed, Scans, Uint
<1>3. \A arg \in Given(line, S, "v") :
        Scans(arg) /\ arg.value \in 0 .. MaxVolume <=> Uint(arg, "v")
  BY DEF Agreed, Scans, Uint
<1>4. (\A letter \in {"p", "v", "c"} : \A arg \in Given(line, S, letter) : Uint(arg, letter)) <=>
        /\ \A arg \in Given(line, S, "p") : Uint(arg, "p")
        /\ \A arg \in Given(line, S, "v") : Uint(arg, "v")
        /\ \A arg \in Given(line, S, "c") : Uint(arg, "c")
  OBVIOUS
<1> DEFINE Numbers == \A letter \in {"p", "v", "c"} : \A arg \in Given(line, S, letter) : Uint(arg, letter)
           Scanned == /\ \A arg \in Given(line, S, "p") \cup Given(line, S, "c") : Scans(arg)
                      /\ \A arg \in Given(line, S, "v") : Scans(arg) /\ arg.value \in 0 .. MaxVolume
<1>5. Scanned <=> Numbers
  BY <1>2, <1>3, <1>4
<1>6. (Understood(line, S) /\ Scanned => WellFormed(line, S)) /\ (Understood(line, S) => Scanned)
  <2>1. Understood(line, S) => Scanned
    BY DEF Understood
  <2>2. Understood(line, S) /\ Numbers => WellFormed(line, S)
    BY DEF Understood, WellFormed
  <2> QED BY <1>5, <2>1, <2>2
<1>7. WellFormed(line, S) => Understood(line, S)
  <2>1. WellFormed(line, S) => Numbers
    BY DEF WellFormed
  <2>2. WellFormed(line, S) /\ Scanned => Understood(line, S)
    BY <1>1 DEF Understood, WellFormed
  <2> QED BY <1>5, <2>1, <2>2
<1> QED BY <1>1, <1>6, <1>7

(* S holds the places of the flags among the first n arguments, so far as they
   are read; the last of them may wait for its parameter *)
Waits(line, n, S) == n \in S /\ line[n].letter # "l"
Places(line, n, S) ==
  /\ S \subseteq 1 .. n
  /\ n # 0 => 1 \in S
  /\ \A j \in S :
       /\ line[j].kind = "flag"
       /\ IF line[j].letter = "l" THEN j = n \/ j + 1 \in S
          ELSE j + 1 \notin S /\ (j + 2 <= n => j + 2 \in S)
  /\ \A j \in (1 .. n) \ S : j - 1 \in S /\ line[j - 1].letter # "l"

(* ... and there is no other way to read them *)
Alone(line, n, S) ==
  \A T \in SUBSET DOMAIN line : Split(line, T) => T \cap (1 .. n) = S

LEMMA ArgumentFacts ==
  ASSUME NEW arg \in Arguments
  PROVE  /\ arg.kind = "flag" => arg.letter \in Letters /\ arg.letter # "none"
         /\ Scans(arg) => arg.value \in Int
         /\ arg.kind = "subnet" => arg.address \in Nat /\ arg.bits \in 0 .. W
<1>1. 2^W \in Nat
  BY Powers, WidthsAssumption
<1> QED BY <1>1, WidthsAssumption, LettersAssumption DEF Arguments, Scans, Text, Empty, Addresses

(* A flag or a parameter more *)
LEMMA FlagPlaces ==
  ASSUME NEW line, NEW n \in Nat, NEW S, Places(line, n, S), ~Waits(line, n, S), line[n + 1].kind = "flag"
  PROVE  Places(line, n + 1, S \cup {n + 1})
<1>1. n # 0 => \/ n \in S /\ line[n].letter = "l"
               \/ n \notin S /\ n - 1 \in S /\ line[n - 1].letter # "l"
  BY DEF Places, Waits
<1>2. S \cup {n + 1} \subseteq 1 .. n + 1 /\ 1 \in S \cup {n + 1} /\ n + 1 \notin S /\ n + 2 \notin S
  BY DEF Places
<1>3. ASSUME NEW j \in S
      PROVE  IF line[j].letter = "l" THEN j = n + 1 \/ j + 1 \in S \cup {n + 1}
             ELSE j + 1 \notin S \cup {n + 1} /\ (j + 2 <= n + 1 => j + 2 \in S \cup {n + 1})
  <2>1. j \in 1 .. n
    BY DEF Places
  <2>2. CASE line[j].letter = "l"
    BY <2>1, <2>2 DEF Places
  <2>3. CASE line[j].letter # "l"
    BY <2>1, <2>3, <1>1 DEF Places
  <2> QED BY <2>2, <2>3
<1>4. ASSUME NEW j \in (1 .. n + 1) \ (S \cup {n + 1})
      PROVE  j - 1 \in S /\ line[j - 1].letter # "l"
  BY DEF Places
<1>5. IF line[n + 1].letter = "l" THEN n + 1 = n + 1 \/ n + 2 \in S \cup {n + 1}
      ELSE n + 2 \notin S \cup {n + 1} /\ (n + 3 <= n + 1 => n + 3 \in S \cup {n + 1})
  BY <1>2
<1> QED BY <1>2, <1>3, <1>4, <1>5 DEF Places

LEMMA ParameterPlaces ==
  ASSUME NEW line, NEW n \in Nat, NEW S, Places(line, n, S), Waits(line, n, S)
  PROVE  Places(line, n + 1, S)
<1>1. ASSUME NEW j \in S
      PROVE  IF line[j].letter = "l" THEN j = n + 1 \/ j + 1 \in S
             ELSE j + 1 \notin S /\ (j + 2 <= n + 1 => j + 2 \in S)
  <2>1. j \in 1 .. n
    BY DEF Places
  <2>2. j = n => j + 1 \notin S
    BY <2>1 DEF Places
  <2>3. j + 2 = n + 1 => line[j].letter = "l"
    BY <2>1 DEF Places, Waits
  <2> QED BY <2>1, <2>2, <2>3 DEF Places, Waits
<1>2. n + 1 \notin S /\ 1 \in S
  BY DEF Places, Waits
<1> QED BY <1>1, <1>2 DEF Places, Waits

LEMMA FlagAlone ==
  ASSUME NEW line \in Seq(Arguments), NEW n \in 0 .. Len(line) - 1, NEW S,
         Places(line, n, S), ~Waits(line, n, S), Alone(line, n, S)
  PROVE  Alone(line, n + 1, S \cup {n + 1})
<1> SUFFICES ASSUME NEW T \in SUBSET DOMAIN line, Split(line, T)
             PROVE  T \cap (1 .. n + 1) = S \cup {n + 1}
  BY DEF Alone
<1>1. T \cap (1 .. n) = S
  BY DEF Alone
<1>2. n \in Nat /\ Len(line) \in Nat /\ n + 1 \in DOMAIN line /\ DOMAIN line = 1 .. Len(line) /\ line # << >>
  OBVIOUS
<1>3. n + 1 \in T
  <2>1. CASE n = 0
    BY <2>1, <1>2 DEF Split, Tiled
  <2>2. CASE n # 0 /\ n \in S
    BY <2>2, <1>1, <1>2 DEF Split, Tiled, Waits
  <2>3. CASE n # 0 /\ n \notin S
    <3>1. n - 1 \in S /\ line[n - 1].letter # "l"
      BY <2>3, <1>2 DEF Places
    <3>2. n - 1 \in T
      BY <3>1, <1>1
    <3> QED BY <3>1, <3>2, <1>2 DEF Split, Tiled
  <2> QED BY <2>1, <2>2, <2>3
<1> QED BY <1>1, <1>2, <1>3

LEMMA ParameterAlone ==
  ASSUME NEW line \in Seq(Arguments), NEW n \in 0 .. Len(line) - 1, NEW S,
         Places(line, n, S), Waits(line, n, S), Alone(line, n, S)
  PROVE  Alone(line, n + 1, S)
<1> SUFFICES ASSUME NEW T \in SUBSET DOMAIN line, Split(line, T)
             PROVE  T \cap (1 .. n + 1) = S
  BY DEF Alone
<1>1. T \cap (1 .. n) = S
  BY DEF Alone
<1>2. n \in Nat /\ n \in T /\ line[n].letter # "l"
  BY <1>1 DEF Waits
<1>3. n + 1 \notin T
  BY <1>2 DEF Split, Tiled
<1> QED BY <1>1, <1>2, <1>3

(* the flags that have their parameter *)
Named(line, n, S, letter) == {j \in S : line[j].letter = letter /\ j < n}

HostOf(arg, shift) == [Address |-> arg.address, Network |-> Network(arg.bits, shift)]
Lists(hosts, line, D, shift) ==
  /\ hosts \in Seq(HostType)
  /\ \A k \in DOMAIN hosts : \E j \in D : hosts[k] = HostOf(line[j + 1], shift)
  /\ \A j \in D : \E k \in DOMAIN hosts : hosts[k] = HostOf(line[j + 1], shift)

Fits(letter, arg) ==
  /\ letter \in {"a", "f", "p", "v", "c", "h", "u", "s", "r"}
  /\ letter \in {"a", "f"} => arg.kind = "subnet"
  /\ letter \in {"p", "c"} => Scans(arg)
  /\ letter = "v" => Scans(arg) /\ arg.value \in 0 .. MaxVolume
  /\ letter \in {"h", "u", "s", "r"} => arg # Empty

(* the settings s are what the first n arguments say *)
Stands(s, line, n, S, shift) ==
  /\ s.Host = (Named(line, n, S, "h") # {})
  /\ s.UserName = (Named(line, n, S, "u") # {})
  /\ s.Secret = (Named(line, n, S, "s") # {})
  /\ s.Register = (s.Host \/ s.UserName \/ s.Secret)
  /\ s.RingTone = (Named(line, n, S, "r") # {})
  /\ s.PlayLoop = (\E j \in S : line[j].letter = "l")
  /\ Lists(s.AllowedHosts, line, Named(line, n, S, "a"), shift)
  /\ Lists(s.ForbiddenHosts, line, Named(line, n, S, "f"), shift)

Reads(s, line, n, S, shift) ==
  /\ s \in Parser /\ Places(line, n, S) /\ Alone(line, n, S)
  /\ s.lastFlag = IF Waits(line, n, S) THEN line[n].letter ELSE "none"
  /\ \A j \in S : j < n /\ line[j].letter # "l" => Fits(line[j].letter, line[j + 1])
  /\ Stands(s, line, n, S, shift)

LEMMA FlagNamed ==
  ASSUME NEW line, NEW n \in Nat, NEW S, Places(line, n, S), ~Waits(line, n, S),
         NEW letter, letter # "l"
  PROVE  Named(line, n + 1, S \cup {n + 1}, letter) = Named(line, n, S, letter)
<1>1. S \subseteq 1 .. n
  BY DEF Places
<1>2. ASSUME NEW j \in S, line[j].letter = letter PROVE j < n
  BY <1>1, <1>2 DEF Waits
<1>3. ~ (n + 1 < n + 1) /\ \A j \in S : j < n => j < n + 1
  BY <1>1
<1> DEFINE A == Named(line, n + 1, S \cup {n + 1}, letter)
           B == Named(line, n, S, letter)
<1>4. ASSUME NEW j \in A PROVE j \in B
  <2>1. j \in S /\ line[j].letter = letter
    BY <1>3 DEF Named
  <2> QED BY <2>1, <1>2 DEF Named
<1>5. ASSUME NEW j \in B PROVE j \in A
  BY <1>3 DEF Named
<1> HIDE DEF A, B
<1>6. A = B
  BY <1>4, <1>5
<1> QED BY <1>6 DEF A, B

And(places, j) == places \cup {j}

LEMMA ParameterNamed ==
  ASSUME NEW line, NEW n \in Nat, NEW S, Places(line, n, S), Waits(line, n, S), NEW letter
  PROVE  /\ line[n].letter = letter => Named(line, n + 1, S, letter) = And(Named(line, n, S, letter), n)
         /\ line[n].letter # letter => Named(line, n + 1, S, letter) = Named(line, n, S, letter)
<1>1. S \subseteq 1 .. n /\ n \in S
  BY DEF Places, Waits
<1>2. \A j \in S : j < n + 1 /\ (j < n \/ j = n)
  BY <1>1
<1> QED BY <1>1, <1>2 DEF Named, And

LEMMA FlagReads ==
  ASSUME NEW line \in Seq(Arguments), NEW n \in 0 .. Len(line) - 1, NEW S, NEW s, NEW shift,
         Reads(s, line, n, S, shift), ~Waits(line, n, S), line[n + 1].kind = "flag"
  PROVE  Reads(TakeFlag(s, line[n + 1]), line, n + 1, S \cup {n + 1}, shift)
<1> DEFINE R == S \cup {n + 1}
           t == TakeFlag(s, line[n + 1])
<1>1. n \in Nat /\ line[n + 1] \in Arguments
  OBVIOUS
<1>2. Places(line, n + 1, R) /\ Alone(line, n + 1, R)
  BY <1>1, FlagPlaces, FlagAlone DEF Reads
<1>3. /\ t \in Parser
      /\ t.lastFlag = IF line[n + 1].letter = "l" THEN "none" ELSE line[n + 1].letter
      /\ t.PlayLoop = (s.PlayLoop \/ line[n + 1].letter = "l")
      /\ t.Host = s.Host /\ t.UserName = s.UserName /\ t.Secret = s.Secret
      /\ t.Register = s.Register /\ t.RingTone = s.RingTone
      /\ t.AllowedHosts = s.AllowedHosts /\ t.ForbiddenHosts = s.ForbiddenHosts
  <2>1. line[n + 1].letter \in Letters
    BY <1>1, ArgumentFacts
  <2>2. s \in Parser /\ s.lastFlag = "none"
    BY DEF Reads
  <2>3. CASE line[n + 1].letter = "l"
    BY <2>2, <2>3 DEF TakeFlag, Parser
  <2>4. CASE line[n + 1].letter # "l"
    <3>1. s.PlayLoop \in BOOLEAN
      BY <2>2 DEF Parser
    <3> QED BY <2>1, <2>2, <2>4, <3>1 DEF TakeFlag, Parser
  <2> QED BY <2>3, <2>4
<1>4. \A letter \in {"h", "u", "s", "r", "a", "f"} : Named(line, n + 1, R, letter) = Named(line, n, S, letter)
  BY <1>1, FlagNamed DEF Reads
<1>5. (\E j \in R : line[j].letter = "l") <=> (\E j \in S : line[j].letter = "l") \/ line[n + 1].letter = "l"
  OBVIOUS
<1>6. Stands(t, line, n + 1, R, shift)
  <2> HIDE DEF R, t
  <2> QED BY <1>3, <1>4, <1>5 DEF Stands, Reads
<1>7. t.lastFlag = IF Waits(line, n + 1, R) THEN line[n + 1].letter ELSE "none"
  BY <1>3 DEF Waits
<1>8. ASSUME NEW j \in R, j < n + 1, line[j].letter # "l" PROVE Fits(line[j].letter, line[j + 1])
  <2>1. j \in S /\ j \in 1 .. n
    BY <1>1, <1>8 DEF Reads, Places
  <2>2. j < n
    BY <1>1, <1>8, <2>1 DEF Waits
  <2> QED BY <1>8, <2>1, <2>2 DEF Reads
<1> QED BY <1>2, <1>3, <1>6, <1>7, <1>8 DEF Reads

(* A parameter is accepted exactly if it fits its flag. *)
LEMMA Refused ==
  ASSUME NEW s \in Parser, NEW arg \in Arguments, NEW shift, s.lastFlag # "none",
         ~Fits(s.lastFlag, arg)
  PROVE  TakeParameter(s, arg, shift) = Rejected
<1> DEFINE flag == s.lastFlag
<1>1. flag \notin {"c", "v", "a", "f", "p", "r", "h", "u", "s"} \/ flag \in {"c", "v", "a", "f", "p", "r", "h", "u", "s"}
  OBVIOUS
<1>2. CASE flag \notin {"c", "v", "a", "f", "p", "r", "h", "u", "s"}
  BY <1>2 DEF TakeParameter
<1>3. CASE flag \in {"c", "p"}
  BY <1>3 DEF TakeParameter, Fits
<1>4. CASE flag = "v"
  BY <1>4 DEF TakeParameter, Fits
<1>5. CASE flag \in {"a", "f"}
  BY <1>5 DEF TakeParameter, Fits
<1>6. CASE flag = "r"
  BY <1>6 DEF TakeParameter, Fits
<1>7. CASE flag \in {"h", "u", "s"}
  <2>1. arg = Empty
    BY <1>7 DEF Fits
  <2> QED BY <1>7, <2>1 DEF TakeParameter, Registered
<1> QED BY <1>2, <1>3, <1>4, <1>5, <1>6, <1>7

LEMMA Accepted ==
  ASSUME NEW s \in Parser, NEW arg \in Arguments, NEW shift \in {0, W}, s.lastFlag # "none",
         Fits(s.lastFlag, arg), NEW t, t = TakeParameter(s, arg, shift)
  PROVE  /\ t \in Parser /\ t.lastFlag = "none" /\ t.PlayLoop = s.PlayLoop
         /\ t.Host = (s.Host \/ s.lastFlag = "h")
         /\ t.UserName = (s.UserName \/ s.lastFlag = "u")
         /\ t.Secret = (s.Secret \/ s.lastFlag = "s")
         /\ t.Register = (s.Register \/ s.lastFlag \in {"h", "u", "s"})
         /\ t.RingTone = (s.RingTone \/ s.lastFlag = "r")
         /\ t.AllowedHosts = IF s.lastFlag = "a" THEN AppendHost(arg, s.AllowedHosts, shift) ELSE s.AllowedHosts
         /\ t.ForbiddenHosts = IF s.lastFlag = "f" THEN AppendHost(arg, s.ForbiddenHosts, shift) ELSE s.ForbiddenHosts
<1> DEFINE flag == s.lastFlag
<1>1. /\ s.Host \in BOOLEAN /\ s.UserName \in BOOLEAN /\ s.Secret \in BOOLEAN /\ s.Register \in BOOLEAN
      /\ s.RingTone \in BOOLEAN /\ s.PlayLoop \in BOOLEAN
  BY DEF Parser
<1>2. CASE flag = "c"
  <2>1. t = [s EXCEPT !.lastFlag = "none"]
    BY <1>2 DEF TakeParameter, Fits
  <2>2. /\ t \in Parser /\ t.lastFlag = "none"
        /\ t.Register = s.Register /\ t.Host = s.Host /\ t.UserName = s.UserName
        /\ t.Secret = s.Secret /\ t.RingTone = s.RingTone /\ t.PlayLoop = s.PlayLoop
        /\ t.AllowedHosts = s.AllowedHosts
        /\ t.ForbiddenHosts = s.ForbiddenHosts
    BY <2>1 DEF Parser
  <2> QED BY <1>1, <1>2, <2>2
<1>3. CASE flag = "v"
  <2>1. t = [s EXCEPT !.lastFlag = "none"]
    BY <1>3 DEF TakeParameter, Fits
  <2>2. /\ t \in Parser /\ t.lastFlag = "none"
        /\ t.Register = s.Register /\ t.Host = s.Host /\ t.UserName = s.UserName
        /\ t.Secret = s.Secret /\ t.RingTone = s.RingTone /\ t.PlayLoop = s.PlayLoop
        /\ t.AllowedHosts = s.AllowedHosts
        /\ t.ForbiddenHosts = s.ForbiddenHosts
    BY <2>1 DEF Parser
  <2> QED BY <1>1, <1>3, <2>2
<1>4. CASE flag = "p"
  <2>1. t = [[s EXCEPT !.lastFlag = "none"] EXCEPT !.Port = arg.value % P]
    BY <1>4 DEF TakeParameter, Fits
  <2>2. arg.value % P \in Int
    BY <1>4, ArgumentFacts, WidthsAssumption DEF Fits
  <2>3. /\ t \in Parser /\ t.lastFlag = "none"
        /\ t.Register = s.Register /\ t.Host = s.Host /\ t.UserName = s.UserName
        /\ t.Secret = s.Secret /\ t.RingTone = s.RingTone /\ t.PlayLoop = s.PlayLoop
        /\ t.AllowedHosts = s.AllowedHosts
        /\ t.ForbiddenHosts = s.ForbiddenHosts
    BY <2>1, <2>2 DEF Parser
  <2> QED BY <1>1, <1>4, <2>3
<1>5. ASSUME arg.kind = "subnet", NEW hosts \in Seq(HostType)
      PROVE  AppendHost(arg, hosts, shift) \in Seq(HostType)
  <2>1. arg.address \in Nat /\ arg.bits \in 0 .. W /\ W \in Nat
    BY <1>5, ArgumentFacts, WidthsAssumption
  <2>2. HostOf(arg, shift) \in HostType
    BY <2>1 DEF HostOf, HostType, Network
  <2> QED BY <2>2 DEF AppendHost, HostOf
<1>6. s.AllowedHosts \in Seq(HostType) /\ s.ForbiddenHosts \in Seq(HostType)
  BY DEF Parser
<1>7. CASE flag = "a"
  <2>1. t = [[s EXCEPT !.lastFlag = "none"] EXCEPT !.AllowedHosts = AppendHost(arg, s.AllowedHosts, shift)]
    BY <1>7 DEF TakeParameter, Fits, Parser
  <2>2. AppendHost(arg, s.AllowedHosts, shift) \in Seq(HostType)
    BY <1>5, <1>6, <1>7 DEF Fits
  <2>3. /\ t \in Parser /\ t.lastFlag = "none"
        /\ t.Register = s.Register /\ t.Host = s.Host /\ t.UserName = s.UserName
        /\ t.Secret = s.Secret /\ t.RingTone = s.RingTone /\ t.PlayLoop = s.PlayLoop
        /\ t.AllowedHosts = AppendHost(arg, s.AllowedHosts, shift)
        /\ t.ForbiddenHosts = s.ForbiddenHosts
    BY <2>1, <2>2 DEF Parser
  <2> QED BY <1>1, <1>7, <2>3
<1>8. CASE flag = "f"
  <2>1. t = [[s EXCEPT !.lastFlag = "none"] EXCEPT !.ForbiddenHosts = AppendHost(arg, s.ForbiddenHosts, shift)]
    BY <1>8 DEF TakeParameter, Fits, Parser
  <2>2. AppendHost(arg, s.ForbiddenHosts, shift) \in Seq(HostType)
    BY <1>5, <1>6, <1>8 DEF Fits
  <2>3. /\ t \in Parser /\ t.lastFlag = "none"
        /\ t.Register = s.Register /\ t.Host = s.Host /\ t.UserName = s.UserName
        /\ t.Secret = s.Secret /\ t.RingTone = s.RingTone /\ t.PlayLoop = s.PlayLoop
        /\ t.AllowedHosts = s.AllowedHosts
        /\ t.ForbiddenHosts = AppendHost(arg, s.ForbiddenHosts, shift)
    BY <2>1, <2>2 DEF Parser
  <2> QED BY <1>1, <1>8, <2>3
<1>9. CASE flag = "r"
  <2>1. t = [[s EXCEPT !.lastFlag = "none"] EXCEPT !.RingTone = TRUE]
    BY <1>9 DEF TakeParameter, Fits
  <2>2. /\ t \in Parser /\ t.lastFlag = "none"
        /\ t.Register = s.Register /\ t.Host = s.Host /\ t.UserName = s.UserName
        /\ t.Secret = s.Secret /\ t.RingTone = TRUE /\ t.PlayLoop = s.PlayLoop
        /\ t.AllowedHosts = s.AllowedHosts
        /\ t.ForbiddenHosts = s.ForbiddenHosts
    BY <2>1 DEF Parser
  <2> QED BY <1>1, <1>9, <2>2
<1>10. CASE flag = "h"
  <2>1. t = [[[s EXCEPT !.lastFlag = "none"] EXCEPT !.Host = TRUE] EXCEPT !.Register = TRUE]
    BY <1>10 DEF TakeParameter, Fits, Registered
  <2>2. /\ t \in Parser /\ t.lastFlag = "none"
        /\ t.Register = TRUE /\ t.Host = TRUE /\ t.UserName = s.UserName
        /\ t.Secret = s.Secret /\ t.RingTone = s.RingTone /\ t.PlayLoop = s.PlayLoop
        /\ t.AllowedHosts = s.AllowedHosts
        /\ t.ForbiddenHosts = s.ForbiddenHosts
    BY <2>1 DEF Parser
  <2> QED BY <1>1, <1>10, <2>2
<1>11. CASE flag = "u"
  <2>1. t = [[[s EXCEPT !.lastFlag = "none"] EXCEPT !.UserName = TRUE] EXCEPT !.Register = TRUE]
    BY <1>11 DEF TakeParameter, Fits, Registered
  <2>2. /\ t \in Parser /\ t.lastFlag = "none"
        /\ t.Register = TRUE /\ t.Host = s.Host /\ t.UserName = TRUE
        /\ t.Secret = s.Secret /\ t.RingTone = s.RingTone /\ t.PlayLoop = s.PlayLoop
        /\ t.AllowedHosts = s.AllowedHosts
        /\ t.ForbiddenHosts = s.ForbiddenHosts
    BY <2>1 DEF Parser
  <2> QED BY <1>1, <1>11, <2>2
<1>12. CASE flag = "s"
  <2>1. t = [[[s EXCEPT !.lastFlag = "none"] EXCEPT !.Secret = TRUE] EXCEPT !.Register = TRUE]
    BY <1>12 DEF TakeParameter, Fits, Registered
  <2>2. /\ t \in Parser /\ t.lastFlag = "none"
        /\ t.Register = TRUE /\ t.Host = s.Host /\ t.UserName = s.UserName
        /\ t.Secret = TRUE /\ t.RingTone = s.RingTone /\ t.PlayLoop = s.PlayLoop
        /\ t.AllowedHosts = s.AllowedHosts
        /\ t.ForbiddenHosts = s.ForbiddenHosts
    BY <2>1 DEF Parser
  <2> QED BY <1>1, <1>12, <2>2
<1> QED BY <1>2, <1>3, <1>4, <1>7, <1>8, <1>9, <1>10, <1>11, <1>12 DEF Fits

(* The host of the next parameter comes first; that of no other is forgotten. *)
LEMMA Appended ==
  ASSUME NEW line, NEW D, NEW shift, NEW hosts, Lists(hosts, line, D, shift), NEW n,
         NEW more, more = AppendHost(line[n + 1], hosts, shift), more \in Seq(HostType)
  PROVE  Lists(more, line, And(D, n), shift)
<1> DEFINE h == HostOf(line[n + 1], shift)
<1>1. hosts \in Seq(HostType) /\ more = << h >> \o hosts
  BY DEF Lists, AppendHost, HostOf
<1>2. /\ DOMAIN more = 1 .. Len(hosts) + 1 /\ DOMAIN hosts = 1 .. Len(hosts) /\ Len(hosts) \in Nat
      /\ more[1] = h /\ \A k \in DOMAIN hosts : k + 1 \in DOMAIN more /\ more[k + 1] = hosts[k]
      /\ \A k \in DOMAIN more : k = 1 \/ (k - 1 \in DOMAIN hosts /\ more[k] = hosts[k - 1])
  <2> HIDE DEF h
  <2> QED BY <1>1
<1>3. ASSUME NEW k \in DOMAIN more PROVE \E j \in D \cup {n} : more[k] = HostOf(line[j + 1], shift)
  <2>1. CASE k = 1
    BY <1>2, <2>1
  <2>2. CASE k # 1
    <3>1. k - 1 \in DOMAIN hosts /\ more[k] = hosts[k - 1]
      BY <1>2, <2>2
    <3> QED BY <3>1 DEF Lists
  <2> QED BY <2>1, <2>2
<1>4. ASSUME NEW j \in D \cup {n} PROVE \E k \in DOMAIN more : more[k] = HostOf(line[j + 1], shift)
  <2>1. CASE j = n
    BY <1>2, <2>1
  <2>2. CASE j \in D
    <3>1. PICK k \in DOMAIN hosts : hosts[k] = HostOf(line[j + 1], shift)
      BY <2>2 DEF Lists
    <3>2. k + 1 \in DOMAIN more /\ more[k + 1] = HostOf(line[j + 1], shift)
      BY <3>1, <1>2
    <3> QED BY <3>2
  <2> QED BY <2>1, <2>2
<1> QED BY <1>3, <1>4 DEF Lists, And

LEMMA ParameterReads ==
  ASSUME NEW line \in Seq(Arguments), NEW n \in 0 .. Len(line) - 1, NEW S, NEW s, NEW shift \in {0, W},
         Reads(s, line, n, S, shift), Waits(line, n, S), Fits(line[n].letter, line[n + 1])
  PROVE  Reads(TakeParameter(s, line[n + 1], shift), line, n + 1, S, shift)
<1> DEFINE t == TakeParameter(s, line[n + 1], shift)
           flag == line[n].letter
<1>1. n \in Nat /\ n # 0 /\ line[n] \in Arguments /\ line[n + 1] \in Arguments
  BY DEF Waits, Reads, Places
<1>2. Places(line, n + 1, S) /\ Alone(line, n + 1, S) /\ n \in S /\ n + 1 \notin S
  <2>1. Places(line, n, S) /\ Alone(line, n, S)
    BY DEF Reads
  <2>2. n \in S /\ n + 1 \notin S
    BY <1>1, <2>1 DEF Waits, Places
  <2> QED BY <1>1, <2>1, <2>2, ParameterPlaces, ParameterAlone
<1>3. s \in Parser /\ s.lastFlag = flag /\ flag # "none"
  <2>1. line[n].kind = "flag"
    BY DEF Reads, Waits, Places
  <2> QED BY <1>1, <2>1, ArgumentFacts DEF Reads
<1>4. /\ t \in Parser /\ t.lastFlag = "none" /\ t.PlayLoop = s.PlayLoop
      /\ t.Host = (s.Host \/ flag = "h")
      /\ t.UserName = (s.UserName \/ flag = "u")
      /\ t.Secret = (s.Secret \/ flag = "s")
      /\ t.Register = (s.Register \/ flag \in {"h", "u", "s"})
      /\ t.RingTone = (s.RingTone \/ flag = "r")
      /\ t.AllowedHosts = IF flag = "a" THEN AppendHost(line[n + 1], s.AllowedHosts, shift) ELSE s.AllowedHosts
      /\ t.ForbiddenHosts = IF flag = "f" THEN AppendHost(line[n + 1], s.ForbiddenHosts, shift) ELSE s.ForbiddenHosts
  <2> HIDE DEF flag, t
  <2>1. t = TakeParameter(s, line[n + 1], shift) /\ Fits(s.lastFlag, line[n + 1])
    BY <1>3 DEF t, flag
  <2> QED BY <1>1, <1>3, <2>1, Accepted
<1>5. \A letter :
        /\ flag = letter => Named(line, n + 1, S, letter) = And(Named(line, n, S, letter), n)
        /\ flag # letter => Named(line, n + 1, S, letter) = Named(line, n, S, letter)
  <2>1. Places(line, n, S)
    BY DEF Reads
  <2>2. n \in Nat
    BY <1>1
  <2> QED BY <2>1, <2>2, ParameterNamed
<1>6. Stands(s, line, n, S, shift)
  BY DEF Reads
<1>7. Lists(t.AllowedHosts, line, Named(line, n + 1, S, "a"), shift)
  <2>1. Lists(s.AllowedHosts, line, Named(line, n, S, "a"), shift)
    BY <1>6 DEF Stands
  <2>2. t.AllowedHosts \in Seq(HostType)
    BY <1>4 DEF Parser
  <2>3. CASE flag = "a"
    <3> HIDE DEF flag, t
    <3>1. Lists(t.AllowedHosts, line, And(Named(line, n, S, "a"), n), shift)
      BY <1>4, <2>1, <2>2, <2>3, Appended
    <3> QED BY <3>1, <1>5, <2>3
  <2>4. CASE flag # "a"
    <3> HIDE DEF flag, t
    <3> QED BY <1>4, <1>5, <2>1, <2>4
  <2> QED BY <2>3, <2>4
<1>8. Lists(t.ForbiddenHosts, line, Named(line, n + 1, S, "f"), shift)
  <2>1. Lists(s.ForbiddenHosts, line, Named(line, n, S, "f"), shift)
    BY <1>6 DEF Stands
  <2>2. t.ForbiddenHosts \in Seq(HostType)
    BY <1>4 DEF Parser
  <2>3. CASE flag = "f"
    <3> HIDE DEF flag, t
    <3>1. Lists(t.ForbiddenHosts, line, And(Named(line, n, S, "f"), n), shift)
      BY <1>4, <2>1, <2>2, <2>3, Appended
    <3> QED BY <3>1, <1>5, <2>3
  <2>4. CASE flag # "f"
    <3> HIDE DEF flag, t
    <3> QED BY <1>4, <1>5, <2>1, <2>4
  <2> QED BY <2>3, <2>4
<1>9. Stands(t, line, n + 1, S, shift)
  <2> DEFINE N(letter) == Named(line, n, S, letter)
             N2(letter) == Named(line, n + 1, S, letter)
  <2>1. \A letter : (N2(letter) # {}) = (N(letter) # {} \/ flag = letter)
    <3> HIDE DEF flag
    <3> QED BY <1>5 DEF And
  <2>2. s.Host = (N("h") # {}) /\ s.UserName = (N("u") # {}) /\ s.Secret = (N("s") # {})
        /\ s.Register = (s.Host \/ s.UserName \/ s.Secret) /\ s.RingTone = (N("r") # {})
        /\ s.PlayLoop = (\E j \in S : line[j].letter = "l")
    BY <1>6 DEF Stands
  <2> HIDE DEF flag, t, N, N2
  <2>3. t.Host = (N2("h") # {}) /\ t.UserName = (N2("u") # {}) /\ t.Secret = (N2("s") # {})
        /\ t.RingTone = (N2("r") # {})
    BY <1>4, <2>1, <2>2
  <2>4. t.Register = (t.Host \/ t.UserName \/ t.Secret)
    BY <1>4, <2>2
  <2>5. t.PlayLoop = (\E j \in S : line[j].letter = "l")
    BY <1>4, <2>2
  <2> QED BY <1>7, <1>8, <2>3, <2>4, <2>5 DEF Stands, N2
<1>10. t.lastFlag = IF Waits(line, n + 1, S) THEN line[n + 1].letter ELSE "none"
  BY <1>2, <1>4 DEF Waits
<1>11. ASSUME NEW j \in S, j < n + 1, line[j].letter # "l" PROVE Fits(line[j].letter, line[j + 1])
  <2>1. j < n \/ j = n
    BY <1>1, <1>11 DEF Reads, Places
  <2>2. CASE j < n
    BY <1>11, <2>2 DEF Reads
  <2> QED BY <2>1, <2>2
<1> QED BY <1>2, <1>4, <1>9, <1>10, <1>11 DEF Reads

(* An argument that is not taken makes the line ill-formed, however it is read. *)
LEMMA TakeReads ==
  ASSUME NEW line \in Seq(Arguments), NEW n \in 0 .. Len(line) - 1, NEW S, NEW s, NEW shift \in {0, W},
         Reads(s, line, n, S, shift), NEW t, t = Take(s, line[n + 1], shift)
  PROVE  \/ t # Rejected /\ \E T : Reads(t, line, n + 1, T, shift)
         \/ t = Rejected /\ ~ \E T \in SUBSET DOMAIN line : Understood(line, T)
<1>1. /\ n \in Nat /\ n + 1 \in DOMAIN line /\ line[n + 1] \in Arguments /\ DOMAIN line = 1 .. Len(line)
      /\ n \in S => n # 0 /\ line[n] \in Arguments /\ line[n].kind = "flag"
  BY DEF Reads, Places
<1>2. s.lastFlag = "none" <=> ~Waits(line, n, S)
  BY <1>1, ArgumentFacts DEF Reads, Waits
<1>3. \A T : Reads(t, line, n + 1, T, shift) => t # Rejected
  BY NotRejected DEF Reads
<1>4. CASE ~Waits(line, n, S) /\ line[n + 1].kind = "flag"
  <2>1. t = TakeFlag(s, line[n + 1])
    BY <1>2, <1>4 DEF Take
  <2>2. Reads(t, line, n + 1, S \cup {n + 1}, shift)
    BY <1>4, <2>1, FlagReads
  <2> QED BY <2>2, <1>3
<1>5. CASE ~Waits(line, n, S) /\ line[n + 1].kind # "flag"
  <2>1. t = Rejected
    BY <1>2, <1>5 DEF Take, TakeFlag
  <2>2. SUFFICES ASSUME NEW T \in SUBSET DOMAIN line, Split(line, T) PROVE FALSE
    BY <2>1 DEF Understood
  <2>3. T \cap (1 .. n) = S
    BY <2>2 DEF Reads, Alone
  <2>4. n + 1 \notin T
    BY <1>5, <2>2 DEF Split, Tiled
  <2>5. CASE n = 0
    BY <1>1, <2>2, <2>4, <2>5 DEF Split, Tiled
  <2>6. CASE n # 0 /\ n \in S
    BY <1>1, <1>5, <2>2, <2>3, <2>4, <2>6 DEF Split, Tiled, Waits
  <2>7. CASE n # 0 /\ n \notin S
    <3>1. n - 1 \in S /\ line[n - 1].letter # "l"
      BY <1>1, <2>7 DEF Reads, Places
    <3>2. n \in DOMAIN line /\ n \notin T
      BY <1>1, <2>3, <2>7
    <3>3. n + 1 \in DOMAIN line \ T /\ (n + 1) - 1 = n
      BY <1>1, <2>4
    <3>4. (n + 1) - 1 \in T
      BY <2>2, <3>3 DEF Split, Tiled
    <3> QED BY <3>2, <3>3, <3>4
  <2> QED BY <2>5, <2>6, <2>7
<1>6. CASE Waits(line, n, S) /\ Fits(line[n].letter, line[n + 1])
  <2>1. t = TakeParameter(s, line[n + 1], shift)
    BY <1>2, <1>6 DEF Take
  <2>2. Reads(t, line, n + 1, S, shift)
    BY <1>6, <2>1, ParameterReads
  <2> QED BY <2>2, <1>3
<1>7. CASE Waits(line, n, S) /\ ~Fits(line[n].letter, line[n + 1])
  <2>1. s \in Parser /\ s.lastFlag = line[n].letter /\ n \in S /\ line[n].letter # "l"
    BY <1>7 DEF Reads, Waits
  <2>2. t = Rejected
    BY <1>1, <1>2, <1>7, <2>1, Refused DEF Take
  <2>3. SUFFICES ASSUME NEW T \in SUBSET DOMAIN line, Understood(line, T) PROVE FALSE
    BY <2>2
  <2>4. n \in T
    BY <2>1, <2>3 DEF Reads, Alone, Understood
  <2>5. line[n + 1] \in Given(line, T, line[n].letter)
    BY <2>4 DEF Given
  <2>6. line[n].letter \in {"a", "f", "p", "v", "c", "h", "u", "s", "r"}
    BY <2>1, <2>3, <2>4 DEF Understood
  <2> QED BY <1>7, <2>3, <2>5, <2>6 DEF Understood, Fits
<1> QED BY <1>4, <1>5, <1>6, <1>7

(* What is left at the end of the line: nothing may be missing. *)
LEMMA Ended ==
  ASSUME NEW line \in Seq(Arguments), NEW S, NEW s, NEW shift, Reads(s, line, Len(line), S, shift)
  PROVE  /\ \A T \in SUBSET DOMAIN line : Split(line, T) => T = S
         /\ \A T \in SUBSET DOMAIN line : Understood(line, T) => T = S /\ Complete(s)
         /\ Complete(s) => S \in SUBSET DOMAIN line /\ Understood(line, S)
<1> DEFINE n == Len(line)
<1>1. n \in Nat /\ DOMAIN line = 1 .. n /\ (n = 0 <=> line = << >>)
  OBVIOUS
<1>2. /\ s \in Parser /\ Places(line, n, S) /\ Alone(line, n, S) /\ S \subseteq 1 .. n
      /\ s.lastFlag = IF Waits(line, n, S) THEN line[n].letter ELSE "none"
      /\ \A j \in S : j < n /\ line[j].letter # "l" => Fits(line[j].letter, line[j + 1])
      /\ Stands(s, line, n, S, shift)
  BY DEF Reads, Places
<1>3. s.lastFlag = "none" <=> ~Waits(line, n, S)
  <2>1. ASSUME Waits(line, n, S) PROVE line[n] \in Arguments /\ line[n].kind = "flag"
    <3>1. n \in S
      BY <2>1 DEF Waits
    <3>2. n \in DOMAIN line /\ line[n].kind = "flag"
      BY <1>1, <1>2, <3>1 DEF Places
    <3> HIDE DEF n
    <3> QED BY <3>2
  <2> QED BY <1>2, <2>1, ArgumentFacts DEF Waits
<1>4. ~Waits(line, n, S) => Split(line, S)
  <2> HIDE DEF n
  <2> SUFFICES ASSUME ~Waits(line, n, S) PROVE Split(line, S)
    OBVIOUS
  <2>1. ASSUME NEW j \in S
        PROVE  /\ line[j].kind = "flag"
               /\ IF line[j].letter = "l" THEN j = n \/ j + 1 \in S
                  ELSE /\ j + 1 \in DOMAIN line \ S
                       /\ j + 2 \in DOMAIN line => j + 2 \in S
    BY <1>1, <1>2 DEF Places, Waits
  <2>2. \A j \in DOMAIN line \ S : j - 1 \in S /\ line[j - 1].letter # "l"
    BY <1>1, <1>2 DEF Places
  <2>3. line # << >> => 1 \in S
    BY <1>1, <1>2 DEF Places
  <2> QED BY <2>1, <2>2, <2>3 DEF Split, Tiled, n
<1>5. Split(line, S) => ~Waits(line, n, S)
  BY <1>1 DEF Split, Tiled, Waits
<1>6. \A T \in SUBSET DOMAIN line : Split(line, T) => T = S
  BY <1>1, <1>2 DEF Alone
<1>7. ASSUME ~Waits(line, n, S), NEW letter, letter # "l"
      PROVE  Named(line, n, S, letter) # {} <=> IsGiven(line, S, letter)
  <2>1. \A j \in S : line[j].letter = letter => j < n
    BY <1>1, <1>2, <1>7 DEF Waits
  <2> QED BY <2>1 DEF Named, IsGiven
<1>8. ~Waits(line, n, S) =>
        (Complete(s) <=> /\ IsGiven(line, S, "l") => IsGiven(line, S, "r")
                         /\ IsGiven(line, S, "h") = IsGiven(line, S, "u")
                         /\ IsGiven(line, S, "h") = IsGiven(line, S, "s"))
  <2> SUFFICES ASSUME ~Waits(line, n, S)
               PROVE  (Complete(s) <=> /\ IsGiven(line, S, "l") => IsGiven(line, S, "r")
                                       /\ IsGiven(line, S, "h") = IsGiven(line, S, "u")
                                       /\ IsGiven(line, S, "h") = IsGiven(line, S, "s"))
    OBVIOUS
  <2> DEFINE G(letter) == IsGiven(line, S, letter)
  <2> DEFINE N(letter) == Named(line, n, S, letter) # {}
  <2>5. N("h") = G("h") /\ N("u") = G("u") /\ N("s") = G("s") /\ N("r") = G("r")
    BY <1>7 DEF IsGiven
  <2>6. /\ s.Host = N("h") /\ s.UserName = N("u") /\ s.Secret = N("s") /\ s.RingTone = N("r")
        /\ s.Register = (s.Host \/ s.UserName \/ s.Secret) /\ s.lastFlag = "none"
    BY <1>2, <1>3 DEF Stands
  <2>1. /\ s.Host = G("h") /\ s.UserName = G("u") /\ s.Secret = G("s") /\ s.RingTone = G("r")
        /\ s.Register = (s.Host \/ s.UserName \/ s.Secret) /\ s.lastFlag = "none"
    <3> HIDE DEF N, G
    <3> QED BY <2>5, <2>6
  <2>2. s.PlayLoop = G("l")
    BY <1>2 DEF Stands, IsGiven
  <2>3. \A letter : G(letter) \in BOOLEAN
    BY DEF IsGiven
  <2> HIDE DEF G
  <2>4. Complete(s) <=> (G("l") => G("r")) /\ G("h") = G("u") /\ G("h") = G("s")
    BY <2>1, <2>2, <2>3 DEF Complete
  <2> QED BY <2>4 DEF G
<1>9. ASSUME ~Waits(line, n, S), NEW letter, letter # "l", NEW arg \in Given(line, S, letter)
      PROVE  Fits(letter, arg)
  <2>1. PICK j \in S : line[j].letter = letter /\ arg = line[j + 1]
    BY DEF Given
  <2>2. j < n
    BY <1>1, <1>2, <1>9, <2>1 DEF Waits
  <2> QED BY <1>2, <1>9, <2>1, <2>2
<1>10. ASSUME ~Waits(line, n, S)
       PROVE  /\ \A j \in S : line[j].letter \in {"a", "f", "p", "v", "c", "h", "u", "s", "r", "l"}
              /\ \A arg \in Given(line, S, "a") \cup Given(line, S, "f") : arg.kind = "subnet"
              /\ \A arg \in Given(line, S, "p") \cup Given(line, S, "c") : Scans(arg)
              /\ \A arg \in Given(line, S, "v") : Scans(arg) /\ arg.value \in 0 .. MaxVolume
              /\ \A letter \in {"h", "u", "s", "r"} : Empty \notin Given(line, S, letter)
  <2>1. ASSUME NEW j \in S PROVE line[j].letter \in {"a", "f", "p", "v", "c", "h", "u", "s", "r", "l"}
    <3>1. j < n \/ line[j].letter = "l"
      BY <1>1, <1>2, <1>10 DEF Waits
    <3> QED BY <1>2, <3>1 DEF Fits
  <2> QED BY <1>9, <1>10, <2>1 DEF Fits
<1>11. Complete(s) => ~Waits(line, n, S)
  BY <1>3 DEF Complete
<1>12. Complete(s) => Understood(line, S)
  <2> HIDE DEF n
  <2> QED BY <1>4, <1>8, <1>10, <1>11 DEF Understood
<1>13. ASSUME NEW T \in SUBSET DOMAIN line, Understood(line, T) PROVE T = S /\ Complete(s)
  <2>1. T = S
    BY <1>6, <1>13 DEF Understood
  <2>2. ~Waits(line, n, S)
    BY <1>5, <1>13, <2>1 DEF Understood
  <2> HIDE DEF n
  <2> QED BY <1>8, <1>13, <2>1, <2>2 DEF Understood
<1> QED BY <1>1, <1>2, <1>6, <1>12, <1>13

(* Clearing the low bits of an address in a subnet gives the subnet's. *)
LEMMA Cleared ==
  ASSUME NEW d \in Nat \ {0}, NEW a \in Nat, a % d = 0, NEW x \in Nat
  PROVE  x - (x % d) = a <=> a <= x /\ x < a + d
  OBVIOUS

LEMMA Screened ==
  ASSUME NEW arg \in Arguments, arg.kind = "subnet", Plain(arg), NEW shift, NEW address \in Addresses
  PROVE  Masked(address, HostOf(arg, shift).Network) = HostOf(arg, shift).Address <=> Inside(address, arg)
<1>1. arg.address \in Nat /\ arg.bits \in 0 .. W /\ W \in Nat
  BY ArgumentFacts, WidthsAssumption
<1> DEFINE d == 2^(W - arg.bits)
<1>2. d \in Nat \ {0}
  BY <1>1, Powers
<1>3. address \in Nat
  <2>1. 2^W \in Nat
    BY <1>1, Powers
  <2> QED BY <2>1 DEF Addresses
<1>4. HostOf(arg, shift).Network = W - arg.bits /\ HostOf(arg, shift).Address = arg.address
  BY <1>1 DEF HostOf, Network, Plain
<1>5. Masked(address, W - arg.bits) = address - (address % d) /\ arg.address % d = 0
  BY DEF Masked, Plain
<1>6. Inside(address, arg) <=> arg.address <= address /\ address < arg.address + d
  BY DEF Inside
<1> HIDE DEF d
<1>7. address - (address % d) = arg.address <=> arg.address <= address /\ address < arg.address + d
  BY <1>1, <1>2, <1>3, <1>5, Cleared
<1> QED BY <1>4, <1>5, <1>6, <1>7

(* A list of hosts has an address exactly if one of the subnets it was given has. *)
LEMMA Listed ==
  ASSUME NEW line \in Seq(Arguments), NEW S \in SUBSET DOMAIN line, Understood(line, S), NEW shift,
         NEW letter \in {"a", "f"}, NEW hosts, Lists(hosts, line, Named(line, Len(line), S, letter), shift)
  PROVE  /\ hosts = << >> <=> ~IsGiven(line, S, letter)
         /\ \A address \in Addresses : (\A arg \in Given(line, S, letter) : Plain(arg)) =>
              (ContainsHost(address, hosts) <=> \E arg \in Given(line, S, letter) : Inside(address, arg))
<1> DEFINE D == Named(line, Len(line), S, letter)
<1>1. hosts \in Seq(HostType) /\ (hosts = << >> <=> DOMAIN hosts = {})
  <2>1. hosts \in Seq(HostType)
    BY DEF Lists
  <2> QED BY <2>1
<1>2. /\ \A j \in D : j \in S /\ line[j].letter = letter
      /\ \A j \in S : line[j].letter = letter => j \in D
  <2>1. ASSUME NEW j \in S, line[j].letter = letter PROVE j < Len(line)
    BY <2>1 DEF Understood, Split, Tiled
  <2> QED BY <2>1 DEF Named
<1>3. \A j \in D : line[j + 1] \in Given(line, S, letter)
  <2> HIDE DEF D
  <2> QED BY <1>2 DEF Given
<1>4. \A arg \in Given(line, S, letter) : \E j \in D : arg = line[j + 1]
  <2> HIDE DEF D
  <2> QED BY <1>2 DEF Given
<1>5. \A arg \in Given(line, S, letter) : arg \in Arguments /\ arg.kind = "subnet"
  <2>1. ASSUME NEW j \in S, line[j].letter = letter PROVE line[j + 1] \in Arguments
    BY <2>1 DEF Understood, Split, Tiled
  <2>2. \A arg \in Given(line, S, letter) : arg.kind = "subnet"
    BY DEF Understood
  <2> QED BY <2>1, <2>2 DEF Given
<1>6. /\ \A k \in DOMAIN hosts : \E j \in D : hosts[k] = HostOf(line[j + 1], shift)
      /\ \A j \in D : \E k \in DOMAIN hosts : hosts[k] = HostOf(line[j + 1], shift)
  BY DEF Lists
<1> HIDE DEF D
<1>7. hosts = << >> <=> ~IsGiven(line, S, letter)
  BY <1>1, <1>2, <1>6 DEF IsGiven
<1>8. ASSUME NEW address \in Addresses, \A arg \in Given(line, S, letter) : Plain(arg)
      PROVE  ContainsHost(address, hosts) <=> \E arg \in Given(line, S, letter) : Inside(address, arg)
  <2>1. ASSUME NEW k \in DOMAIN hosts, Masked(address, hosts[k].Network) = hosts[k].Address
        PROVE  \E arg \in Given(line, S, letter) : Inside(address, arg)
    <3>1. PICK j \in D : hosts[k] = HostOf(line[j + 1], shift)
      BY <1>6
    <3>2. line[j + 1] \in Given(line, S, letter) /\ line[j + 1] \in Arguments /\ line[j + 1].kind = "subnet"
      BY <1>3, <1>5
    <3> QED BY <1>8, <2>1, <3>1, <3>2, Screened
  <2>2. ASSUME NEW arg \in Given(line, S, letter), Inside(address, arg)
        PROVE  \E k \in DOMAIN hosts : Masked(address, hosts[k].Network) = hosts[k].Address
    <3>1. PICK j \in D : arg = line[j + 1]
      BY <1>4
    <3>2. PICK k \in DOMAIN hosts : hosts[k] = HostOf(arg, shift)
      BY <1>6, <3>1
    <3> QED BY <1>5, <1>8, <2>2, <3>2, Screened
  <2> QED BY <2>1, <2>2 DEF ContainsHost
<1> QED BY <1>7, <1>8

-----------------------------------------------------------------------------
(* ... and what ServiceMain does with it *)

(* what is left of the line when it was parsed *)
Outcome(line, s, shift) ==
  \/ s = Rejected /\ ~ \E T \in SUBSET DOMAIN line : Understood(line, T)
  \/ /\ s # Rejected
     /\ \E S \in SUBSET DOMAIN line :
          /\ Understood(line, S) /\ \A T \in SUBSET DOMAIN line : Split(line, T) => T = S
          /\ Lists(s.AllowedHosts, line, Named(line, Len(line), S, "a"), shift)
          /\ Lists(s.ForbiddenHosts, line, Named(line, Len(line), S, "f"), shift)

Parsing ==
  /\ argv \in Seq(Arguments) /\ shift32 \in {0, W}
  /\ pc = "initialize" => i = 1
  /\ pc = "parse" => i \in 1 .. Len(argv) + 1 /\ \E S : Reads(settings, argv, i - 1, S, shift32)
  /\ pc \notin {"initialize", "parse"} /\ "service" \in held => Outcome(argv, settings, shift32)

LEMMA FirstReads ==
  ASSUME NEW line \in Seq(Arguments), NEW shift
  PROVE  Reads(Defaults, line, 0, {}, shift)
<1>1. Defaults \in Parser
  BY WidthsAssumption DEF Defaults, Parser
<1>2. Places(line, 0, {})
  BY DEF Places
<1>3. Alone(line, 0, {})
  BY DEF Alone
<1>4. \A letter : Named(line, 0, {}, letter) = {}
  BY DEF Named
<1>5. Lists(<< >>, line, {}, shift)
  BY DEF Lists
<1>6. Stands(Defaults, line, 0, {}, shift)
  BY <1>4, <1>5 DEF Stands, Defaults
<1>7. ~Waits(line, 0, {}) /\ Defaults.lastFlag = "none"
  BY DEF Waits, Defaults
<1> QED BY <1>1, <1>2, <1>3, <1>6, <1>7 DEF Reads

LEMMA ReadHolds ==
  ASSUME Parsing, ReadArgument
  PROVE  Parsing'
<1> DEFINE n == i - 1
<1>1. /\ pc = "parse" /\ i \in 1 .. Len(argv) /\ argv \in Seq(Arguments) /\ shift32 \in {0, W}
      /\ i' = i + 1 /\ argv' = argv /\ shift32' = shift32
      /\ settings' = Take(settings, argv[i], shift32)
      /\ \/ settings' = Rejected /\ pc' = "hangup"
         \/ settings' # Rejected /\ pc' = "parse"
  <2>1. /\ pc = "parse" /\ i \in 1 .. Len(argv) + 1 /\ argv \in Seq(Arguments) /\ shift32 \in {0, W}
    BY DEF Parsing, ReadArgument
  <2>2. i <= Len(argv) /\ i' = i + 1 /\ settings' = Take(settings, argv[i], shift32)
    BY DEF ReadArgument
  <2>3. /\ argv' = argv /\ shift32' = shift32
        /\ \/ settings' = Rejected /\ pc' = "hangup"
           \/ settings' # Rejected /\ pc' = "parse"
    BY DEF ReadArgument, Fail, Go
  <2>4. i \in 1 .. Len(argv)
    BY <2>1, <2>2
  <2> QED BY <2>1, <2>2, <2>3, <2>4
<1>2. PICK S : Reads(settings, argv, n, S, shift32)
  BY <1>1 DEF Parsing
<1>3. n \in 0 .. Len(argv) - 1 /\ i = n + 1 /\ i' - 1 = n + 1 /\ i' \in 1 .. Len(argv) + 1
  BY <1>1
<1>4. settings' = Take(settings, argv[n + 1], shift32)
  BY <1>1, <1>3
<1> HIDE DEF n
<1>5. \/ settings' # Rejected /\ \E T : Reads(settings', argv, n + 1, T, shift32)
      \/ settings' = Rejected /\ ~ \E T \in SUBSET DOMAIN argv : Understood(argv, T)
  BY <1>1, <1>2, <1>3, <1>4, TakeReads
<1>6. CASE settings' # Rejected
  BY <1>1, <1>3, <1>5, <1>6 DEF Parsing
<1>7. CASE settings' = Rejected
  <2>1. Outcome(argv', settings', shift32')
    BY <1>1, <1>5, <1>7 DEF Outcome
  <2> QED BY <1>1, <1>7, <2>1 DEF Parsing
<1> QED BY <1>6, <1>7

LEMMA ParsedHolds ==
  ASSUME Parsing, Parsed
  PROVE  Parsing'
<1>1. /\ pc = "parse" /\ argv \in Seq(Arguments) /\ shift32 \in {0, W}
      /\ i = Len(argv) + 1 /\ argv' = argv /\ shift32' = shift32
      /\ \/ ~Complete(settings) /\ settings' = Rejected /\ pc' = "hangup"
         \/ Complete(settings) /\ settings' = settings /\ pc' = "winsock"
  <2>1. /\ pc = "parse" /\ i \in 1 .. Len(argv) + 1 /\ argv \in Seq(Arguments) /\ shift32 \in {0, W}
    BY DEF Parsing, Parsed
  <2>2. /\ i > Len(argv) /\ argv' = argv /\ shift32' = shift32
        /\ \/ ~Complete(settings) /\ settings' = Rejected /\ pc' = "hangup"
           \/ Complete(settings) /\ settings' = settings /\ pc' = "winsock"
    BY DEF Parsed, Fail, Progress, Go
  <2>3. i = Len(argv) + 1
    BY <2>1, <2>2
  <2> QED BY <2>1, <2>2, <2>3
<1>2. PICK S : Reads(settings, argv, Len(argv), S, shift32)
  BY <1>1 DEF Parsing
<1>3. /\ \A T \in SUBSET DOMAIN argv : Split(argv, T) => T = S
      /\ \A T \in SUBSET DOMAIN argv : Understood(argv, T) => T = S /\ Complete(settings)
      /\ Complete(settings) => S \in SUBSET DOMAIN argv /\ Understood(argv, S)
  BY <1>1, <1>2, Ended
<1>4. /\ settings # Rejected
      /\ Lists(settings.AllowedHosts, argv, Named(argv, Len(argv), S, "a"), shift32)
      /\ Lists(settings.ForbiddenHosts, argv, Named(argv, Len(argv), S, "f"), shift32)
  BY <1>2, NotRejected DEF Reads, Stands
<1>5. Outcome(argv', settings', shift32')
  <2>1. CASE ~Complete(settings)
    BY <1>1, <1>3, <2>1 DEF Outcome
  <2>2. CASE Complete(settings)
    BY <1>1, <1>3, <1>4, <2>2 DEF Outcome
  <2> QED BY <2>1, <2>2
<1> QED BY <1>1, <1>5 DEF Parsing

(* All that comes later leaves the settings alone. *)
Later ==
  /\ pc \notin {"initialize", "parse"} /\ pc' \notin {"initialize", "parse"}
  /\ UNCHANGED <<argv, shift32, settings>>
  /\ "service" \in held' => "service" \in held

LEMMA LaterHolds ==
  ASSUME Parsing, Later
  PROVE  Parsing'
  BY DEF Parsing, Later

LEMMA Moves ==
  ASSUME NEW from
  PROVE  /\ \A to, writes : Go(from, to, writes) => pc = from /\ pc' = to /\ argv' = argv /\ shift32' = shift32
         /\ \A to : Progress(from, to) => pc = from /\ pc' = to /\ argv' = argv /\ shift32' = shift32
         /\ Fail(from) => pc = from /\ pc' = "hangup" /\ argv' = argv /\ shift32' = shift32
  BY DEF Progress, Fail, Go

LEMMA ParsingStep == IInv /\ Parsing /\ [Next]_vars => Parsing'
<1> SUFFICES ASSUME IInv, Parsing, [Next]_vars PROVE Parsing'
  OBVIOUS
<1>1. CASE InitializeService
  <2>1. /\ pc = "initialize" /\ argv' = argv /\ shift32' = shift32 /\ i' = i
        /\ \/ pc' = "parse" /\ settings' = Defaults
           \/ pc' = "gone" /\ held' = held
    BY <1>1 DEF InitializeService, Go
  <2>2. i = 1 /\ held = {} /\ argv \in Seq(Arguments) /\ shift32 \in {0, W} /\ Len(argv) \in Nat
    BY <2>1 DEF IInv, Phase, Parsing
  <2>3. CASE pc' = "parse" /\ settings' = Defaults
    <3>1. Reads(settings', argv', 0, {}, shift32') /\ i' - 1 = 0 /\ i' \in 1 .. Len(argv') + 1
      BY <2>1, <2>2, <2>3, FirstReads
    <3> QED BY <2>1, <2>2, <2>3, <3>1 DEF Parsing
  <2>4. CASE pc' = "gone" /\ held' = held
    BY <2>1, <2>2, <2>4 DEF Parsing
  <2> QED BY <2>1, <2>3, <2>4
<1>2. CASE ReadArgument
  BY <1>2, ReadHolds
<1>3. CASE Parsed
  BY <1>3, ParsedHolds
<1>4. CASE Start /\ ~InitializeService /\ ~ReadArgument /\ ~Parsed
  <2>1. CASE StartWinsock
    <3>0. settings' = settings
      BY <2>1 DEF StartWinsock
    <3>1. "service" \in held' => "service" \in held
      BY <2>1 DEF StartWinsock
    <3>2. pc = "winsock" /\ pc' \in {"hangup", "iax"} /\ argv' = argv /\ shift32' = shift32
      BY <2>1, Moves DEF StartWinsock
    <3>3. Later
      BY <3>0, <3>1, <3>2 DEF Later
    <3> QED BY <3>3, LaterHolds
  <2>2. CASE InitIax
    <3>0. settings' = settings
      BY <2>2 DEF InitIax
    <3>1. "service" \in held' => "service" \in held
      BY <2>2 DEF InitIax
    <3>2. pc = "iax" /\ pc' \in {"hangup", "register"} /\ argv' = argv /\ shift32' = shift32
      BY <2>2, Moves DEF InitIax
    <3>3. Later
      BY <3>0, <3>1, <3>2 DEF Later
    <3> QED BY <3>3, LaterHolds
  <2>3. CASE Register
    <3>0. settings' = settings
      BY <2>3 DEF Register
    <3>1. "service" \in held' => "service" \in held
      BY <2>3 DEF Register
    <3>2. pc = "register" /\ pc' \in {"hangup", "select"} /\ argv' = argv /\ shift32' = shift32
      BY <2>3, Moves DEF Register
    <3>3. Later
      BY <3>0, <3>1, <3>2 DEF Later
    <3> QED BY <3>3, LaterHolds
  <2>4. CASE Select
    <3>0. settings' = settings
      BY <2>4 DEF Select
    <3>1. "service" \in held' => "service" \in held
      BY <2>4 DEF Select
    <3>2. pc = "select" /\ pc' \in {"hangup", "wave"} /\ argv' = argv /\ shift32' = shift32
      BY <2>4, Moves DEF Select
    <3>3. Later
      BY <3>0, <3>1, <3>2 DEF Later
    <3> QED BY <3>3, LaterHolds
  <2>5. CASE OpenWave
    <3>0. settings' = settings
      BY <2>5 DEF OpenWave
    <3>1. "service" \in held' => "service" \in held
      BY <2>5 DEF OpenWave
    <3>2. pc = "wave" /\ pc' \in {"hangup", "started"} /\ argv' = argv /\ shift32' = shift32
      BY <2>5, Moves DEF OpenWave
    <3>3. Later
      BY <3>0, <3>1, <3>2 DEF Later
    <3> QED BY <3>3, LaterHolds
  <2>6. CASE Started
    <3>0. settings' = settings
      BY <2>6 DEF Started
    <3>1. "service" \in held' => "service" \in held
      BY <2>6 DEF Started
    <3>2. pc = "started" /\ pc' \in {"waiting"} /\ argv' = argv /\ shift32' = shift32
      BY <2>6, Moves DEF Started
    <3>3. Later
      BY <3>0, <3>1, <3>2 DEF Later
    <3> QED BY <3>3, LaterHolds
  <2> QED BY <1>4, <2>1, <2>2, <2>3, <2>4, <2>5, <2>6 DEF Start
<1>5. CASE Serve
  <2>1. CASE WakeShutdown
    <3>0. settings' = settings
      BY <2>1 DEF WakeShutdown
    <3>1. "service" \in held' => "service" \in held
      BY <2>1 DEF WakeShutdown
    <3>2. pc = "waiting" /\ pc' \in {"hangup"} /\ argv' = argv /\ shift32' = shift32
      BY <2>1 DEF WakeShutdown, Go
    <3>3. Later
      BY <3>0, <3>1, <3>2 DEF Later
    <3> QED BY <3>3, LaterHolds
  <2>2. CASE Wake
    <3>0. settings' = settings
      BY <2>2 DEF Wake
    <3>1. "service" \in held' => "service" \in held
      BY <2>2 DEF Wake
    <3>2. pc = "waiting" /\ pc' \in {"events"} /\ argv' = argv /\ shift32' = shift32
      BY <2>2, Moves DEF Wake
    <3>3. Later
      BY <3>0, <3>1, <3>2 DEF Later
    <3> QED BY <3>3, LaterHolds
  <2>3. CASE WaitFails
    <3>0. settings' = settings
      BY <2>3 DEF WaitFails
    <3>1. "service" \in held' => "service" \in held
      BY <2>3 DEF WaitFails
    <3>2. pc = "waiting" /\ pc' \in {"hangup"} /\ argv' = argv /\ shift32' = shift32
      BY <2>3, Moves DEF WaitFails
    <3>3. Later
      BY <3>0, <3>1, <3>2 DEF Later
    <3> QED BY <3>3, LaterHolds
  <2>4. ASSUME NEW address \in Addresses, Connect(address) PROVE Parsing'
    <3>0. settings' = settings
      BY <2>4 DEF Connect
    <3>1. "service" \in held' => "service" \in held
      BY <2>4 DEF Connect
    <3>2. pc = "events" /\ pc' \in {"hangup", "events"} /\ argv' = argv /\ shift32' = shift32
      BY <2>4, Moves DEF Connect
    <3>3. Later
      BY <3>0, <3>1, <3>2 DEF Later
    <3> QED BY <3>3, LaterHolds
  <2>5. CASE CallEnds
    <3>0. settings' = settings
      BY <2>5 DEF CallEnds
    <3>1. "service" \in held' => "service" \in held
      BY <2>5 DEF CallEnds
    <3>2. pc = "events" /\ pc' \in {"hangup", "events"} /\ argv' = argv /\ shift32' = shift32
      BY <2>5, Moves DEF CallEnds
    <3>3. Later
      BY <3>0, <3>1, <3>2 DEF Later
    <3> QED BY <3>3, LaterHolds
  <2>6. CASE Renew
    <3>0. settings' = settings
      BY <2>6 DEF Renew
    <3>1. "service" \in held' => "service" \in held
      BY <2>6 DEF Renew
    <3>2. pc = "events" /\ pc' \in {"hangup", "events"} /\ argv' = argv /\ shift32' = shift32
      BY <2>6, Moves DEF Renew
    <3>3. Later
      BY <3>0, <3>1, <3>2 DEF Later
    <3> QED BY <3>3, LaterHolds
  <2>7. CASE NoMoreEvents
    <3>0. settings' = settings
      BY <2>7 DEF NoMoreEvents
    <3>1. "service" \in held' => "service" \in held
      BY <2>7 DEF NoMoreEvents
    <3>2. pc = "events" /\ pc' \in {"waiting"} /\ argv' = argv /\ shift32' = shift32
      BY <2>7, Moves DEF NoMoreEvents
    <3>3. Later
      BY <3>0, <3>1, <3>2 DEF Later
    <3> QED BY <3>3, LaterHolds
  <2> QED BY <1>5, <2>1, <2>2, <2>3, <2>4, <2>5, <2>6, <2>7 DEF Serve
<1>6. CASE Leave
  <2>1. Later
    BY <1>6 DEF Later, Progress, Go, Release, Leave, Hangup, CloseWave, StopIax, Cleanup, Forget, End, Free, Freed
  <2> QED BY <2>1, LaterHolds
<1>7. CASE Write \/ Control \/ HandleStop \/ HandleInterrogate \/ UNCHANGED vars
  <2>1. UNCHANGED <<argv, shift32, pc, settings, i, held>>
    BY <1>7 DEF Write, Control, HandleStop, HandleInterrogate, vars
  <2> QED BY <2>1 DEF Parsing
<1>8. CASE ProcessEnds
  <2>1. argv' = argv /\ shift32' = shift32 /\ pc' = "gone" /\ held' = {}
    BY <1>8 DEF ProcessEnds
  <2>2. argv \in Seq(Arguments) /\ shift32 \in {0, W}
    BY DEF Parsing
  <2> QED BY <2>1, <2>2 DEF Parsing
<1> QED BY <1>1, <1>2, <1>3, <1>4, <1>5, <1>6, <1>7, <1>8 DEF Next, Start, Manager

(* The service is started exactly with the command lines that README.md's
   description makes sense of, and screens its callers by the subnets they name,
   in whatever order and number; for addresses of any width and any line where
   settings.c keeps to the description, and subnets that name their hosts. *)
THEOREM UnderstoodAsWritten == Spec => []AsWritten
<1>1. Init => IInv /\ Parsing
  <2>1. Init => Parsing
    BY LinesAssumption DEF Init, Parsing
  <2> QED BY <2>1, InitHolds
<1>2. (IInv /\ Parsing) /\ [Next]_vars => (IInv /\ Parsing)'
  BY StepHolds, ParsingStep
<1>3. IInv /\ Parsing => AsWritten
  <2> SUFFICES ASSUME Parsing, pc \notin {"initialize", "parse"}, "service" \in held
               PROVE  /\ settings # Rejected => \E S \in SUBSET DOMAIN argv : Tiled(argv, S)
                      /\ \A S \in SUBSET DOMAIN argv : Tiled(argv, S) /\ Agreed(argv, S) =>
                           /\ settings # Rejected <=> WellFormed(argv, S)
                           /\ settings # Rejected =>
                                \/ \E arg \in Given(argv, S, "a") \cup Given(argv, S, "f") : ~Plain(arg)
                                \/ \A address \in Addresses : Admits(settings, address) <=> MayCall(argv, S, address)
    BY DEF AsWritten
  <2>1. Outcome(argv, settings, shift32) /\ argv \in Seq(Arguments)
    BY DEF Parsing
  <2>2. settings # Rejected => \E S \in SUBSET DOMAIN argv : Tiled(argv, S)
    BY <2>1 DEF Outcome, Understood, Split
  <2>3. ASSUME NEW S \in SUBSET DOMAIN argv, Tiled(argv, S), Agreed(argv, S), settings # Rejected
        PROVE  /\ Understood(argv, S)
               /\ Lists(settings.AllowedHosts, argv, Named(argv, Len(argv), S, "a"), shift32)
               /\ Lists(settings.ForbiddenHosts, argv, Named(argv, Len(argv), S, "f"), shift32)
    <3>1. Split(argv, S)
      BY <2>3, AsDescribed
    <3> QED BY <2>1, <2>3, <3>1 DEF Outcome
  <2>4. ASSUME NEW S \in SUBSET DOMAIN argv, Tiled(argv, S), Agreed(argv, S)
        PROVE  settings # Rejected <=> WellFormed(argv, S)
    <3>1. Understood(argv, S) <=> WellFormed(argv, S)
      BY <2>4, AsDescribed
    <3>2. settings = Rejected => ~Understood(argv, S)
      BY <2>1 DEF Outcome
    <3>3. settings # Rejected => Understood(argv, S)
      BY <2>3, <2>4
    <3> QED BY <3>1, <3>2, <3>3
  <2>5. ASSUME NEW S \in SUBSET DOMAIN argv, Tiled(argv, S), Agreed(argv, S), settings # Rejected,
               \A arg \in Given(argv, S, "a") \cup Given(argv, S, "f") : Plain(arg),
               NEW address \in Addresses
        PROVE  Admits(settings, address) <=> MayCall(argv, S, address)
    <3>1. /\ Understood(argv, S)
          /\ Lists(settings.AllowedHosts, argv, Named(argv, Len(argv), S, "a"), shift32)
          /\ Lists(settings.ForbiddenHosts, argv, Named(argv, Len(argv), S, "f"), shift32)
      BY <2>3, <2>5
    <3>2. /\ settings.AllowedHosts = << >> <=> ~IsGiven(argv, S, "a")
          /\ ContainsHost(address, settings.AllowedHosts) <=> \E arg \in Given(argv, S, "a") : Inside(address, arg)
      BY <2>1, <2>5, <3>1, Listed
    <3>3. /\ settings.ForbiddenHosts = << >> <=> ~IsGiven(argv, S, "f")
          /\ ContainsHost(address, settings.ForbiddenHosts) <=> \E arg \in Given(argv, S, "f") : Inside(address, arg)
      BY <2>1, <2>5, <3>1, Listed
    <3>4. ~IsGiven(argv, S, "f") => Given(argv, S, "f") = {}
      BY DEF IsGiven, Given
    <3> QED BY <3>2, <3>3, <3>4 DEF Admits, MayCall
  <2> QED BY <2>2, <2>4, <2>5
<1> QED BY <1>1, <1>2, <1>3, PTL DEF Spec

=============================================================================
