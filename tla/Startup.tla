------------------------------- MODULE Startup -------------------------------
(***************************************************************************)
(* The life of the service: ServiceMain's start, calls and end (src/main.c), *)
(* the status it reports step by step (src/service.c) and the control        *)
(* handler, which a thread of the service control manager (SCM) runs over    *)
(* the same status record.                                                  *)
(*                                                                         *)
(* Any step of the start may fail, and so may a wait or the audio later; all *)
(* of them leave through the same LEAVE.  The fields of the record are       *)
(* written one after the other, and the handler may report between two.      *)
(* What a call does in between is left to Sessions and Wave.                *)
(***************************************************************************)
EXTENDS Settings

CONSTANT CommandLines     \* what the service may be started with

ASSUME LinesAssumption == CommandLines \subseteq Seq(Arguments)

VARIABLES
  argv, shift32,
  pc,         \* where ServiceMain is
  settings,   \* main.c: settings, or Rejected if that is NULL
  i,          \* settings.c: the next argument
  iaxPort,    \* main.c: iaxPort
  exitCode,   \* main.c: exitCode
  held,       \* what the process has in its hands
  status,     \* service->Status
  target,     \* service->TargetState
  todo,       \* what is left of the function of service.c that is running
  scm,        \* the last status the SCM was told
  control,    \* the control that is on its way to Handler
  shutdown    \* is the shutdown event set?

service == <<status, target, todo, scm>>
vars == <<argv, shift32, pc, settings, i, iaxPort, exitCode, held, service, control, shutdown>>

Success == 0
Failure == 1      \* any other code
NoPort == -1

(* "stray" is a socket iax_init could not bind and did not close *)
Resources == {"service", "settings", "winsock", "socket", "stray", "registration", "wave", "call"}

(* what the use and the release of a resource need *)
Needs(r) ==
  CASE r = "service" -> {}
    [] r \in {"settings", "winsock"} -> {"service"}
    [] r \in {"socket", "stray"} -> {"service", "winsock"}
    [] r = "registration" -> {"settings", "socket"}
    [] r = "wave" -> {"service", "settings"}
    [] r = "call" -> {"socket", "wave"}

States == {"none", "start pending", "running", "stop pending", "stopped"}
Statuses == [CurrentState : States, CheckPoint : Nat, WaitHint : Nat, Win32ExitCode : {Success, Failure}]

Steps ==
  { "initialize", "parse", "winsock", "iax", "register", "select", "wave", "started",
    "waiting", "events",
    "hangup", "close", "stop iax", "cleanup", "forget", "end", "free", "freed", "gone" }

-----------------------------------------------------------------------------
(* The functions of service.c, as the writes they make one after the other *)

Set(field, value) == [do |-> "set", field |-> field, value |-> value]
Aim(state) == [do |-> "aim", state |-> state]           \* TargetState
CountOn == [do |-> "count"]                             \* dwCheckPoint++
Report == [do |-> "report"]                             \* SetServiceStatus

\* mutants: the function aims at the pending state; at nothing; it keeps an older aim
BeginAimsAtPending(state, pending, waitHint) ==
  << Set("CurrentState", pending), Set("CheckPoint", 0), Set("WaitHint", waitHint),
     Aim(pending), Report >>
BeginWithoutAim(state, pending, waitHint) ==
  << Set("CurrentState", pending), Set("CheckPoint", 0), Set("WaitHint", waitHint), Report >>
BeginKeepsAim(state, pending, waitHint) ==
  << Set("CurrentState", pending), Set("CheckPoint", 0), Set("WaitHint", waitHint),
     Aim(IF target = "none" THEN state ELSE target), Report >>

(* pending is the state on the way; the service never pauses *)
BeginServiceStatus(state, pending, waitHint) ==
  << Set("CurrentState", pending), Set("CheckPoint", 0), Set("WaitHint", waitHint),
     Aim(state), Report >>

ProgressServiceStatus == IF target = "none" THEN << >> ELSE << CountOn, Report >>

EndServiceStatus ==
  IF target = "none" THEN << >>
  ELSE << Set("CurrentState", target), Set("CheckPoint", 0), Set("WaitHint", 0),
          Aim("none"), Report >>

(* the end of FreeService, which comes after EndServiceStatus has reported the stop *)
FreeService == << Set("Win32ExitCode", exitCode), Report >>

(* SetServiceStatus: the SCM refuses a record without a state, and takes the first
   STOPPED for the last word of the service *)
Tell(record) ==
  scm' = IF record.CurrentState = "none" \/ scm.CurrentState = "stopped" THEN scm ELSE record

(* the next write; a report is a copy of the record as it is *)
Write ==
  /\ todo # << >> /\ todo' = Tail(todo)
  /\ LET w == Head(todo)
     IN \/ /\ w.do = "set" /\ status' = [status EXCEPT ![w.field] = w.value]
           /\ UNCHANGED <<target, scm>>
        \/ /\ w.do = "aim" /\ target' = w.state /\ UNCHANGED <<status, scm>>
        \/ /\ w.do = "count" /\ status' = [status EXCEPT !.CheckPoint = @ + 1]
           /\ UNCHANGED <<target, scm>>
        \/ /\ w.do = "report" /\ Tell(status) /\ UNCHANGED <<status, target>>
  /\ UNCHANGED <<argv, shift32, pc, settings, i, iaxPort, exitCode, held, control, shutdown>>

(* ServiceMain goes from a step to the next, which starts with the writes *)
Go(from, to, writes) ==
  /\ todo = << >> /\ todo' = writes
  /\ pc = from /\ pc' = to
  /\ UNCHANGED <<argv, shift32, status, target, scm, control>>

Progress(from, to) == Go(from, to, ProgressServiceStatus)

(* CHECK: the error code and off to LEAVE, which begins with the pending stop *)
Fail(from) ==
  /\ Go(from, "hangup", BeginServiceStatus("stopped", "stop pending", 1000))
  /\ exitCode' = Failure

-----------------------------------------------------------------------------
(* The start *)

Fresh == [CurrentState |-> "none", CheckPoint |-> 0, WaitHint |-> 0, Win32ExitCode |-> Success]

Init ==
  /\ argv \in CommandLines /\ shift32 \in {0, W}
  /\ pc = "initialize" /\ settings = Rejected /\ i = 1 /\ iaxPort = NoPort /\ exitCode = Success
  /\ held = {} /\ status = Fresh /\ target = "none" /\ todo = << >>
  /\ scm = [Fresh EXCEPT !.CurrentState = "start pending"]     \* the SCM's own
  /\ control = "none" /\ shutdown = FALSE

(* InitializeService; without the events or the handler it gives all back and
   ServiceMain returns *)
InitializeService ==
  /\ \/ /\ Go("initialize", "parse", BeginServiceStatus("running", "start pending", 1000))
        /\ held' = {"service"} /\ settings' = Defaults
     \/ Go("initialize", "gone", << >>) /\ UNCHANGED <<held, settings>>
  /\ UNCHANGED <<i, iaxPort, exitCode, shutdown>>

(* ParseSettings, argument by argument; what was allocated is freed again if one
   is wrong or missing *)
ReadArgument ==
  /\ pc = "parse" /\ i <= Len(argv)
  /\ settings' = Take(settings, argv[i], shift32)
  /\ \/ settings' = Rejected /\ Fail("parse")
     \/ settings' # Rejected /\ Go("parse", "parse", << >>) /\ UNCHANGED exitCode
  /\ i' = i + 1
  /\ UNCHANGED <<iaxPort, held, shutdown>>

Parsed ==
  /\ pc = "parse" /\ i > Len(argv)
  /\ \/ /\ ~Complete(settings) /\ Fail("parse")
        /\ settings' = Rejected /\ UNCHANGED held
     \/ /\ Complete(settings) /\ Progress("parse", "winsock")
        /\ held' = held \cup {"settings"} /\ UNCHANGED <<settings, exitCode>>
  /\ UNCHANGED <<i, iaxPort, shutdown>>

(* WSAStartup fails, or it works and the version is too old or fits *)
StartWinsock ==
  /\ \/ Fail("winsock") /\ UNCHANGED held
     \/ Fail("winsock") /\ held' = held \cup {"winsock"}
     \/ /\ Progress("winsock", "iax")
        /\ held' = held \cup {"winsock"} /\ UNCHANGED exitCode
  /\ UNCHANGED <<settings, i, iaxPort, shutdown>>

(* iax_init: no socket; a socket it cannot bind; another port if the wanted one
   is in use, or if none (0) was wanted; or the wanted port *)
InitIax ==
  /\ \/ /\ Fail("iax") /\ iaxPort' = NoPort
        /\ held' \in {held, held \cup {"stray"}}
     \/ /\ Fail("iax") /\ iaxPort' \in (1 .. P - 1) \ {settings.Port}
        /\ held' = held \cup {"socket"}
     \/ /\ Go("iax", "register", << >>)
        /\ settings.Port \in 1 .. P - 1 /\ iaxPort' = settings.Port
        /\ held' = held \cup {"socket"} /\ UNCHANGED exitCode
  /\ UNCHANGED <<settings, i, shutdown>>

(* REG_START *)
Register ==
  /\ \/ Fail("register") /\ settings.Register /\ UNCHANGED held
     \/ /\ Progress("register", "select") /\ settings.Register
        /\ held' = held \cup {"registration"} /\ UNCHANGED exitCode
     \/ Progress("register", "select") /\ ~settings.Register /\ UNCHANGED <<held, exitCode>>
  /\ UNCHANGED <<settings, i, iaxPort, shutdown>>

(* WSAEventSelect *)
Select ==
  /\ \/ Fail("select")
     \/ Progress("select", "wave") /\ UNCHANGED exitCode
  /\ UNCHANGED <<settings, i, iaxPort, held, shutdown>>

(* InitializeWave, which gives back what it took if it fails *)
OpenWave ==
  /\ \/ Fail("wave") /\ UNCHANGED held
     \/ Progress("wave", "started") /\ held' = held \cup {"wave"} /\ UNCHANGED exitCode
  /\ UNCHANGED <<settings, i, iaxPort, shutdown>>

Started ==
  /\ Go("started", "waiting", EndServiceStatus)
  /\ UNCHANGED <<settings, i, iaxPort, exitCode, held, shutdown>>

-----------------------------------------------------------------------------
(* Service *)

(* WaitForServiceEvents: the shutdown event comes first *)
WakeShutdown ==
  /\ shutdown
  /\ Go("waiting", "hangup", BeginServiceStatus("stopped", "stop pending", 1000))
  /\ UNCHANGED <<settings, i, iaxPort, exitCode, held, shutdown>>

Wake ==
  /\ ~shutdown /\ Go("waiting", "events", << >>)
  /\ UNCHANGED <<settings, i, iaxPort, exitCode, held, shutdown>>

(* the wait or what follows it (WSAResetEvent, HandleDoneWaveHeaders) fails *)
WaitFails ==
  /\ Fail("waiting")
  /\ UNCHANGED <<settings, i, iaxPort, held, shutdown>>

(* IAX_EVENT_CONNECT: somebody who may call, while there is no call; StartWave
   may fail, with the call begun *)
Connect(address) ==
  /\ pc = "events" /\ "call" \notin held /\ Admits(settings, address)
  /\ held' = held \cup {"call"}
  /\ \/ Fail("events")
     \/ Go("events", "events", << >>) /\ UNCHANGED exitCode
  /\ UNCHANGED <<settings, i, iaxPort, shutdown>>

(* the call ends, or StopWave fails and it stays *)
CallEnds ==
  /\ "call" \in held
  /\ \/ Fail("events") /\ UNCHANGED held
     \/ /\ Go("events", "events", << >>)
        /\ held' = held \ {"call"} /\ UNCHANGED exitCode
  /\ UNCHANGED <<settings, i, iaxPort, shutdown>>

(* the registration ends and is started anew *)
Renew ==
  /\ "registration" \in held
  /\ \/ Fail("events") /\ held' = held \ {"registration"}
     \/ Go("events", "events", << >>) /\ UNCHANGED <<held, exitCode>>
  /\ UNCHANGED <<settings, i, iaxPort, shutdown>>

NoMoreEvents ==
  /\ Go("events", "waiting", << >>)
  /\ UNCHANGED <<settings, i, iaxPort, exitCode, held, shutdown>>

-----------------------------------------------------------------------------
(* LEAVE *)

Release(from, to, what) ==
  /\ Progress(from, to) /\ held' = held \ what
  /\ UNCHANGED <<settings, i, iaxPort, exitCode, shutdown>>

Hangup == Release("hangup", "close", {"call", "registration"})

CloseWave == Release("close", "stop iax", {"wave"})

\* mutant: only a socket on the wanted port is closed
StopIaxIfWanted ==
  Release("stop iax", "cleanup",
          IF settings # Rejected /\ iaxPort = settings.Port THEN {"socket"} ELSE {})

(* iax_shutdown, if there is a port *)
StopIax == Release("stop iax", "cleanup", IF iaxPort > NoPort THEN {"socket"} ELSE {})

(* WSACleanup closes the sockets nobody closed *)
Cleanup == Release("cleanup", "forget", {"winsock", "stray"})

Forget == Release("forget", "end", {"settings"})

End ==
  /\ Go("end", "free", EndServiceStatus)
  /\ UNCHANGED <<settings, i, iaxPort, exitCode, held, shutdown>>

Free ==
  /\ Go("free", "freed", FreeService)
  /\ UNCHANGED <<settings, i, iaxPort, exitCode, held, shutdown>>

Freed ==
  /\ Go("freed", "gone", << >>) /\ held' = held \ {"service"}
  /\ UNCHANGED <<settings, i, iaxPort, exitCode, shutdown>>

-----------------------------------------------------------------------------
(* The SCM and Handler, in a thread of their own *)

(* Stops are accepted from the registration of the handler on, also while the
   service starts; one that has stopped is sent no control. *)
Control ==
  /\ control = "none" /\ "service" \in held /\ scm.CurrentState # "stopped"
  /\ control' \in {"stop", "interrogate"}
  /\ UNCHANGED <<argv, shift32, pc, settings, i, iaxPort, exitCode, held, service, shutdown>>

(* SERVICE_CONTROL_STOP or _SHUTDOWN *)
HandleStop ==
  /\ control = "stop" /\ control' = "none"
  /\ shutdown' = TRUE
  /\ UNCHANGED <<argv, shift32, pc, settings, i, iaxPort, exitCode, held, service>>

(* SERVICE_CONTROL_INTERROGATE: the record as ServiceMain's thread left it.
   Once that is freed nothing is known of what is reported. *)
HandleInterrogate ==
  /\ control = "interrogate" /\ control' = "none"
  /\ IF "service" \in held THEN Tell(status) ELSE UNCHANGED scm
  /\ UNCHANGED <<argv, shift32, pc, settings, i, iaxPort, exitCode, held, status, target, todo, shutdown>>

(* With the last service stopped the dispatcher returns and main ends the process,
   wherever ServiceMain's thread is. *)
ProcessEnds ==
  /\ scm.CurrentState = "stopped" /\ pc # "gone"
  /\ pc' = "gone" /\ held' = {} /\ todo' = << >> /\ control' = "none"
  /\ UNCHANGED <<argv, shift32, settings, i, iaxPort, exitCode, status, target, scm, shutdown>>

-----------------------------------------------------------------------------
Start ==
  \/ InitializeService \/ ReadArgument \/ Parsed
  \/ StartWinsock \/ InitIax \/ Register \/ Select \/ OpenWave \/ Started
Serve ==
  \/ WakeShutdown \/ Wake \/ WaitFails
  \/ (\E address \in Addresses : Connect(address)) \/ CallEnds \/ Renew \/ NoMoreEvents
Leave == Hangup \/ CloseWave \/ StopIax \/ Cleanup \/ Forget \/ End \/ Free \/ Freed
Manager == Control \/ HandleStop \/ HandleInterrogate \/ ProcessEnds

Next == Write \/ Start \/ Serve \/ Leave \/ Manager

Spec == Init /\ [][Next]_vars

(* ServiceMain's thread runs.  That the events run dry is not asked for. *)
FairSpec ==
  Spec /\ WF_vars(Write) /\ WF_vars(Start) /\ WF_vars(WakeShutdown) /\ WF_vars(Leave)

-----------------------------------------------------------------------------
(* Properties *)

TypeOK ==
  /\ shift32 \in {0, W}
  /\ pc \in Steps /\ iaxPort \in {NoPort} \cup 0 .. P - 1
  /\ exitCode \in {Success, Failure} /\ held \subseteq Resources
  /\ status \in Statuses /\ scm \in Statuses /\ target \in {"none", "running", "stopped"}
  /\ control \in {"none", "stop", "interrogate"} /\ shutdown \in BOOLEAN

(* Whichever step of the start fails, and whenever the service ends, what is held
   is released once and while all that its release uses is still there, and
   nothing is left at the end: main.c's LEAVE, whose tests read variables that
   only the steps that were reached have set. *)
Unwound ==
  /\ \A r \in held : Needs(r) \subseteq held
  /\ pc = "gone" => held = {}

(* The SCM hears that the service runs only while it has all it needs to take a
   call, that it has stopped only when nothing but the service itself is left,
   and this it hears before a service that was begun is gone: the handler may report
   the record between any two writes of it, and the process ends with the stop. *)
ScmTold ==
  /\ scm.CurrentState = "running" => {"service", "settings", "winsock", "socket", "wave"} \subseteq held
  /\ scm.CurrentState = "stopped" => held \subseteq {"service"}
  /\ pc = "gone" /\ status # Fresh => scm.CurrentState = "stopped"

(* The service is started exactly if README.md's description of the options makes
   sense of its command line, and takes calls from exactly the hosts that this
   names, whatever the order and the number of the options.  Not so where
   settings.c departs from README.md: Agreed says where.  And a subnet that is a
   /0 or has bits of a host says nothing of whom it screens (host.c). *)
AsWritten ==
  pc \notin {"initialize", "parse"} /\ "service" \in held =>
    /\ settings # Rejected => \E S \in SUBSET DOMAIN argv : Tiled(argv, S)
    /\ \A S \in SUBSET DOMAIN argv : Tiled(argv, S) /\ Agreed(argv, S) =>
         /\ settings # Rejected <=> WellFormed(argv, S)
         /\ settings # Rejected =>
              \/ \E arg \in Given(argv, S, "a") \cup Given(argv, S, "f") : ~Plain(arg)
              \/ \A address \in Addresses : Admits(settings, address) <=> MayCall(argv, S, address)

(* A stop is answered, whether it comes while the service starts, runs or stops, and
   so is a failure: the SCM is told that the service has stopped, unless events keep
   coming (main.c's inner loop does not look at the event). *)
StopAnswered ==
  \/ shutdown \/ exitCode = Failure ~> scm.CurrentState = "stopped"
  \/ <>[](pc = "events")

=============================================================================
