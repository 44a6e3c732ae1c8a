--------------------------- MODULE StartupProofs ---------------------------
(***************************************************************************)
(* Proofs about Startup: whichever phase fails and whatever comes late,    *)
(* the parent tells the truth, and DISPLAY, the window manager and the     *)
(* ping observer agree.                                                    *)
(***************************************************************************)
EXTENDS Startup, TLAPS

\* The phases in which the report is out or given up.
Over == {"serving"} \cup GivenUp

\* The http thread says that it is ready only once it listens, and says so once.
ReadyInv ==
  /\ server \in {"stdio", "buses", "address", "socket", "spawn x", "await x", "attach",
                 "observe", "spawn http"} => http = "off"
  /\ http \in {"off", "connecting", "binding"} /\ server # "exited" => ready = {}
  /\ ready = {"ok"} /\ server # "exited" => http = "listening"
  /\ server \in {"report", "serving"} => ready = {"ok"}

\* The pipe is open until the server has written its exports or has given up; exports
\* in the pipe are the report of a server that was ready.
PipeInv ==
  /\ Forked /\ server \notin Over => "server" \in holders
  /\ Forked /\ server = "serving" => pipe = "exports"
  /\ pipe = "exports" => server \in Over /\ ready = {"ok"}
  /\ server \notin Over => exports = {}
  /\ Forked /\ exports # {} => pipe = "exports"

\* DISPLAY is set once the main thread has a window manager, or not at all.
XInv ==
  /\ xwm \/ server = "attach" => xserver = "handled"
  /\ server \in {"stdio", "buses", "address", "socket", "spawn x", "attach"} => ~xwm
  /\ server \in {"stdio", "buses", "address", "socket", "spawn x", "await x", "attach"} =>
       "DISPLAY" \notin env /\ ~observer
  /\ server = "observe" => "DISPLAY" \in env
  /\ server \in {"spawn http", "await http", "report"} => (xwm <=> "DISPLAY" \in env)

\* TypeOK in three parts, of which each prover gets what it can do.
Flags == handle \in BOOLEAN /\ xwm \in BOOLEAN /\ observer \in BOOLEAN

Enums ==
  /\ server \in Phases
  /\ parent \in {"none", "reading", "exit 0", "exit 1"}
  /\ pipe \in {"", "exports", "failure"}
  /\ xserver \in {"off", "starting", "ready", "broken", "handled"}
  /\ http \in {"off", "connecting", "binding", "listening", "ended"}
  /\ server = "exited" => http = "off"

Subsets ==
  /\ holders \subseteq {"server", "bus"}
  /\ buses \subseteq {"dbus", "at-spi"}
  /\ env \subseteq Variables
  /\ exports \subseteq Variables
  /\ ready \subseteq {"ok", "err"}

IInv == /\ Flags /\ Enums /\ Subsets
        /\ ReadyInv /\ PipeInv /\ XInv /\ ParentIsTruthful /\ DisplayAgrees

\* The three parts are all of TypeOK.
LEMMA TypeParts == Flags /\ Enums /\ Subsets => TypeOK
  BY DEF TypeOK, Flags, Enums, Subsets

\* Both ways to start satisfy the invariant.
LEMMA InitInv == Init => IInv
<1> SUFFICES ASSUME Init PROVE IInv
  OBVIOUS
<1>1. Flags  BY DEF Init, Flags
<1>2. Enums  BY DEF Init, Enums, Phases, Waiting, GivenUp
<1>3. Subsets  BY DEF Init, Subsets
<1>4. ReadyInv /\ PipeInv /\ XInv
  BY DEF Init, ReadyInv, PipeInv, XInv, Forked, Over, GivenUp
<1>5. ParentIsTruthful /\ DisplayAgrees  BY DEF Init, ParentIsTruthful, DisplayAgrees
<1> QED  BY <1>1, <1>2, <1>3, <1>4, <1>5 DEF IInv

USE DEF xVars, httpVars, reportVars

\* No step turns a flag into anything but a flag.
LEMMA FlagsStep ==
  ASSUME Flags, [Next]_vars PROVE Flags'
<1> USE DEF Flags
<1>1. CASE MainStep
  <2>1. CASE RedirectStdio  BY <2>1 DEF RedirectStdio
  <2>2. CASE SpawnBuses  BY <2>2 DEF SpawnBuses, Run, Inherited
  <2>3. CASE BindSocket  BY <2>3 DEF BindSocket
  <2>4. CASE SpawnXWayland  BY <2>4 DEF SpawnXWayland
  <2>5. CASE XWaylandUp  BY <2>5 DEF XWaylandUp
  <2>6. CASE XWaylandTimeout  BY <2>6 DEF XWaylandTimeout
  <2>7. CASE SpawnHttp  BY <2>7 DEF SpawnHttp
  <2>8. CASE HttpReady  BY <2>8 DEF HttpReady
  <2>9. CASE HttpFailed  BY <2>9 DEF HttpFailed
  <2>10. CASE Report  BY <2>10 DEF Report, Reported
  <2>11. CASE Unwind  BY <2>11 DEF Unwind
  <2>12. CASE Exit  BY <2>12 DEF Exit
  <2>13. CASE NoAddress  BY <2>13 DEF NoAddress, Run, Inherited
  <2>14. CASE Address  BY <2>14 DEF Address, Run, Inherited
  <2>15. CASE WmAttached  BY <2>15 DEF WmAttached
  <2>16. CASE Observes  BY <2>16 DEF Observes
  <2>17. CASE AttachWm  BY <2>17 DEF AttachWm
  <2>18. CASE XWaylandLate  BY <2>18 DEF XWaylandLate
  <2>19. CASE Fails  BY <2>19 DEF Fails
  <2> QED
    BY <1>1, <2>1, <2>2, <2>3, <2>4, <2>5, <2>6, <2>7, <2>8, <2>9, <2>10, <2>11,
       <2>12, <2>13, <2>14, <2>15, <2>16, <2>17, <2>18, <2>19
    DEF MainStep, OwnStep, DaemonAnswers, XServerAnswers
<1>2. CASE XServer  BY <1>2 DEF XServer
<1>3. CASE HttpConnects  BY <1>3 DEF HttpConnects
<1>4. CASE HttpBinds  BY <1>4 DEF HttpBinds
<1>5. CASE ParentReads  BY <1>5 DEF ParentReads
<1>6. CASE UNCHANGED vars  BY <1>6 DEF vars
<1> QED  BY <1>1, <1>2, <1>3, <1>4, <1>5, <1>6 DEF Next

\* No step takes the other variables out of their sets; a dead server has no http
\* thread.
LEMMA EnumsStep ==
  ASSUME Enums, [Next]_vars PROVE Enums'
<1> USE DEF Enums, Phases, Waiting, GivenUp, Forked
<1>1. CASE MainStep
  <2>1. CASE RedirectStdio  BY <2>1 DEF RedirectStdio
  <2>2. CASE SpawnBuses  BY <2>2 DEF SpawnBuses, Run, Inherited
  <2>3. CASE BindSocket  BY <2>3 DEF BindSocket
  <2>4. CASE SpawnXWayland  BY <2>4 DEF SpawnXWayland
  <2>5. CASE XWaylandUp  BY <2>5 DEF XWaylandUp
  <2>6. CASE XWaylandTimeout  BY <2>6 DEF XWaylandTimeout
  <2>7. CASE SpawnHttp  BY <2>7 DEF SpawnHttp
  <2>8. CASE HttpReady  BY <2>8 DEF HttpReady
  <2>9. CASE HttpFailed  BY <2>9 DEF HttpFailed
  <2>10. CASE Report  BY <2>10 DEF Report, Reported
  <2>11. CASE Unwind  BY <2>11 DEF Unwind
  <2>12. CASE Exit  BY <2>12 DEF Exit
  <2>13. CASE NoAddress  BY <2>13 DEF NoAddress, Run, Inherited
  <2>14. CASE Address  BY <2>14 DEF Address, Run, Inherited
  <2>15. CASE WmAttached  BY <2>15 DEF WmAttached
  <2>16. CASE Observes  BY <2>16 DEF Observes
  <2>17. CASE AttachWm  BY <2>17 DEF AttachWm
  <2>18. CASE XWaylandLate  BY <2>18 DEF XWaylandLate
  <2>19. CASE Fails  BY <2>19 DEF Fails
  <2> QED
    BY <1>1, <2>1, <2>2, <2>3, <2>4, <2>5, <2>6, <2>7, <2>8, <2>9, <2>10, <2>11,
       <2>12, <2>13, <2>14, <2>15, <2>16, <2>17, <2>18, <2>19
    DEF MainStep, OwnStep, DaemonAnswers, XServerAnswers
<1>2. CASE XServer  BY <1>2 DEF XServer
<1>3. CASE HttpConnects
  <2>1. server # "exited"  BY <1>3 DEF HttpConnects
  <2> QED  BY <1>3, <2>1 DEF HttpConnects
<1>4. CASE HttpBinds
  <2>1. server # "exited"  BY <1>4 DEF HttpBinds
  <2> QED  BY <1>4, <2>1 DEF HttpBinds
<1>5. CASE ParentReads  BY <1>5 DEF ParentReads
<1>6. CASE UNCHANGED vars  BY <1>6 DEF vars
<1> QED  BY <1>1, <1>2, <1>3, <1>4, <1>5, <1>6 DEF Next

\* Variables, daemons and readiness stay within what there is.
LEMMA SubsetsStep ==
  ASSUME Subsets, [Next]_vars PROVE Subsets'
<1> USE DEF Subsets, Variables
<1>1. CASE MainStep
  <2>1. CASE RedirectStdio  BY <2>1 DEF RedirectStdio
  <2>2. CASE SpawnBuses  BY <2>2 DEF SpawnBuses, Run, Inherited
  <2>3. CASE BindSocket  BY <2>3 DEF BindSocket
  <2>4. CASE SpawnXWayland  BY <2>4 DEF SpawnXWayland
  <2>5. CASE XWaylandUp  BY <2>5 DEF XWaylandUp
  <2>6. CASE XWaylandTimeout  BY <2>6 DEF XWaylandTimeout
  <2>7. CASE SpawnHttp  BY <2>7 DEF SpawnHttp
  <2>8. CASE HttpReady  BY <2>8 DEF HttpReady
  <2>9. CASE HttpFailed  BY <2>9 DEF HttpFailed
  <2>10. CASE Report  BY <2>10 DEF Report, Reported
  <2>11. CASE Unwind  BY <2>11 DEF Unwind
  <2>12. CASE Exit  BY <2>12 DEF Exit
  <2>13. CASE NoAddress  BY <2>13 DEF NoAddress, Run, Inherited
  <2>14. CASE Address  BY <2>14 DEF Address, Run, Inherited
  <2>15. CASE WmAttached  BY <2>15 DEF WmAttached
  <2>16. CASE Observes  BY <2>16 DEF Observes
  <2>17. CASE AttachWm  BY <2>17 DEF AttachWm
  <2>18. CASE XWaylandLate  BY <2>18 DEF XWaylandLate
  <2>19. CASE Fails  BY <2>19 DEF Fails
  <2> QED
    BY <1>1, <2>1, <2>2, <2>3, <2>4, <2>5, <2>6, <2>7, <2>8, <2>9, <2>10, <2>11,
       <2>12, <2>13, <2>14, <2>15, <2>16, <2>17, <2>18, <2>19
    DEF MainStep, OwnStep, DaemonAnswers, XServerAnswers
<1>2. CASE XServer  BY <1>2 DEF XServer
<1>3. CASE HttpConnects  BY <1>3 DEF HttpConnects
<1>4. CASE HttpBinds  BY <1>4 DEF HttpBinds
<1>5. CASE ParentReads  BY <1>5 DEF ParentReads
<1>6. CASE UNCHANGED vars  BY <1>6 DEF vars
<1> QED  BY <1>1, <1>2, <1>3, <1>4, <1>5, <1>6 DEF Next

\* What has been sent through ready_tx is true, and stays true.
LEMMA ReadyStep ==
  ASSUME Enums, ReadyInv, [Next]_vars PROVE ReadyInv'
<1> USE DEF Enums, ReadyInv
<1>1. CASE MainStep
  <2>1. CASE RedirectStdio  BY <2>1 DEF RedirectStdio
  <2>2. CASE SpawnBuses  BY <2>2 DEF SpawnBuses, Run, Inherited
  <2>3. CASE BindSocket  BY <2>3 DEF BindSocket
  <2>4. CASE SpawnXWayland  BY <2>4 DEF SpawnXWayland
  <2>5. CASE XWaylandUp  BY <2>5 DEF XWaylandUp
  <2>6. CASE XWaylandTimeout  BY <2>6 DEF XWaylandTimeout
  <2>7. CASE SpawnHttp  BY <2>7 DEF SpawnHttp
  <2>8. CASE HttpReady  BY <2>8 DEF HttpReady
  <2>9. CASE HttpFailed  BY <2>9 DEF HttpFailed
  <2>10. CASE Report  BY <2>10 DEF Report, Reported
  <2>11. CASE Unwind  BY <2>11 DEF Unwind
  <2>12. CASE Exit  BY <2>12 DEF Exit
  <2>13. CASE NoAddress  BY <2>13 DEF NoAddress, Run, Inherited
  <2>14. CASE Address  BY <2>14 DEF Address, Run, Inherited
  <2>15. CASE WmAttached  BY <2>15 DEF WmAttached
  <2>16. CASE Observes  BY <2>16 DEF Observes
  <2>17. CASE AttachWm  BY <2>17 DEF AttachWm
  <2>18. CASE XWaylandLate  BY <2>18 DEF XWaylandLate
  <2>19. CASE Fails  BY <2>19 DEF Fails
  <2> QED
    BY <1>1, <2>1, <2>2, <2>3, <2>4, <2>5, <2>6, <2>7, <2>8, <2>9, <2>10, <2>11,
       <2>12, <2>13, <2>14, <2>15, <2>16, <2>17, <2>18, <2>19
    DEF MainStep, OwnStep, DaemonAnswers, XServerAnswers
<1>2. CASE XServer  BY <1>2 DEF XServer
<1>3. CASE HttpConnects  BY <1>3 DEF HttpConnects
<1>4. CASE HttpBinds  BY <1>4 DEF HttpBinds
<1>5. CASE ParentReads  BY <1>5 DEF ParentReads
<1>6. CASE UNCHANGED vars  BY <1>6 DEF vars
<1> QED  BY <1>1, <1>2, <1>3, <1>4, <1>5, <1>6 DEF Next

\* The server keeps its end of the pipe until it has reported or given up; so a parent
\* that reads the end of the file has read the truth.
LEMMA PipeStep ==
  ASSUME Enums, ReadyInv, PipeInv, ParentIsTruthful, [Next]_vars PROVE PipeInv' /\ ParentIsTruthful'
<1> USE DEF Enums, ReadyInv, PipeInv, ParentIsTruthful, Forked, Over, GivenUp
<1>1. CASE MainStep
  <2>1. CASE RedirectStdio  BY <2>1 DEF RedirectStdio
  <2>2. CASE SpawnBuses  BY <2>2 DEF SpawnBuses, Run, Inherited
  <2>3. CASE BindSocket  BY <2>3 DEF BindSocket
  <2>4. CASE SpawnXWayland  BY <2>4 DEF SpawnXWayland
  <2>5. CASE XWaylandUp  BY <2>5 DEF XWaylandUp
  <2>6. CASE XWaylandTimeout  BY <2>6 DEF XWaylandTimeout
  <2>7. CASE SpawnHttp  BY <2>7 DEF SpawnHttp
  <2>8. CASE HttpReady  BY <2>8 DEF HttpReady
  <2>9. CASE HttpFailed  BY <2>9 DEF HttpFailed
  <2>10. CASE Report  BY <2>10 DEF Report, Reported
  <2>11. CASE Unwind  BY <2>11 DEF Unwind
  <2>12. CASE Exit  BY <2>12 DEF Exit
  <2>13. CASE NoAddress  BY <2>13 DEF NoAddress, Run, Inherited
  <2>14. CASE Address  BY <2>14 DEF Address, Run, Inherited
  <2>15. CASE WmAttached  BY <2>15 DEF WmAttached
  <2>16. CASE Observes  BY <2>16 DEF Observes
  <2>17. CASE AttachWm  BY <2>17 DEF AttachWm
  <2>18. CASE XWaylandLate  BY <2>18 DEF XWaylandLate
  <2>19. CASE Fails  BY <2>19 DEF Fails
  <2> QED
    BY <1>1, <2>1, <2>2, <2>3, <2>4, <2>5, <2>6, <2>7, <2>8, <2>9, <2>10, <2>11,
       <2>12, <2>13, <2>14, <2>15, <2>16, <2>17, <2>18, <2>19
    DEF MainStep, OwnStep, DaemonAnswers, XServerAnswers
<1>2. CASE XServer  BY <1>2 DEF XServer
<1>3. CASE HttpConnects
  <2>1. server # "exited" /\ ready = {}  BY <1>3 DEF HttpConnects
  <2> QED  BY <1>3, <2>1 DEF HttpConnects
<1>4. CASE HttpBinds
  <2>1. server # "exited" /\ ready = {}  BY <1>4 DEF HttpBinds
  <2> QED  BY <1>4, <2>1 DEF HttpBinds
<1>5. CASE ParentReads
  <2>1. server \in Over  BY <1>5 DEF ParentReads
  <2> QED  BY <1>5, <2>1 DEF ParentReads
<1>6. CASE UNCHANGED vars  BY <1>6 DEF vars
<1> QED  BY <1>1, <1>2, <1>3, <1>4, <1>5, <1>6 DEF Next

\* DISPLAY is set, reported and acted on in agreement, phase by phase.
LEMMA XStep ==
  ASSUME Flags, Enums, XInv, DisplayAgrees, [Next]_vars PROVE XInv' /\ DisplayAgrees'
<1> USE DEF XInv, DisplayAgrees
<1>1. CASE MainStep
  <2>1. CASE RedirectStdio  BY <2>1 DEF RedirectStdio
  <2>2. CASE SpawnBuses  BY <2>2 DEF SpawnBuses, Run, Inherited
  <2>3. CASE BindSocket  BY <2>3 DEF BindSocket
  <2>4. CASE SpawnXWayland  BY <2>4 DEF SpawnXWayland
  <2>5. CASE XWaylandUp  BY <2>5 DEF XWaylandUp
  <2>6. CASE XWaylandTimeout  BY <2>6 DEF XWaylandTimeout
  <2>7. CASE SpawnHttp  BY <2>7 DEF SpawnHttp
  <2>8. CASE HttpReady  BY <2>8 DEF HttpReady
  <2>9. CASE HttpFailed  BY <2>9 DEF HttpFailed
  <2>10. CASE Report
    <3>1. "DISPLAY" \in Reported <=> xwm  BY DEF Reported
    <3> QED  BY <2>10, <3>1 DEF Report
  <2>11. CASE Unwind  BY <2>11 DEF Unwind
  <2>12. CASE Exit  BY <2>12 DEF Exit
  <2>13. CASE NoAddress  BY <2>13 DEF NoAddress, Run, Inherited
  <2>14. CASE Address  BY <2>14 DEF Address, Run, Inherited
  <2>15. CASE WmAttached  BY <2>15 DEF WmAttached
  <2>16. CASE Observes  BY <2>16 DEF Observes
  <2>17. CASE AttachWm  BY <2>17 DEF AttachWm
  <2>18. CASE XWaylandLate  BY <2>18 DEF XWaylandLate
  <2>19. CASE Fails  BY <2>19 DEF Fails
  <2> QED
    BY <1>1, <2>1, <2>2, <2>3, <2>4, <2>5, <2>6, <2>7, <2>8, <2>9, <2>10, <2>11,
       <2>12, <2>13, <2>14, <2>15, <2>16, <2>17, <2>18, <2>19
    DEF MainStep, OwnStep, DaemonAnswers, XServerAnswers
<1>2. CASE XServer  BY <1>2 DEF XServer
<1>3. CASE HttpConnects  BY <1>3 DEF HttpConnects
<1>4. CASE HttpBinds  BY <1>4 DEF HttpBinds
<1>5. CASE ParentReads  BY <1>5 DEF ParentReads
<1>6. CASE UNCHANGED vars  BY <1>6 DEF vars
<1> QED  BY <1>1, <1>2, <1>3, <1>4, <1>5, <1>6 DEF Next

\* The inductive invariant of the startup.
THEOREM Invariance == Spec => []IInv
<1>1. IInv /\ [Next]_vars => IInv'
  <2> SUFFICES ASSUME IInv, [Next]_vars PROVE IInv'  OBVIOUS
  <2>0. /\ Flags /\ Enums /\ Subsets
        /\ ReadyInv /\ PipeInv /\ XInv /\ ParentIsTruthful /\ DisplayAgrees
    BY DEF IInv
  <2>1. Flags' /\ Enums' /\ Subsets'  BY <2>0, FlagsStep, EnumsStep, SubsetsStep
  <2>2. ReadyInv'  BY <2>0, ReadyStep
  <2>3. PipeInv' /\ ParentIsTruthful'  BY <2>0, PipeStep
  <2>4. XInv' /\ DisplayAgrees'  BY <2>0, XStep
  <2> QED  BY <2>1, <2>2, <2>3, <2>4 DEF IInv
<1> QED  BY InitInv, <1>1, PTL DEF Spec

\* Startup's types; the http thread ends with the server.
THEOREM TypeCorrect == Spec => []TypeOK
<1>1. IInv => TypeOK  BY TypeParts DEF IInv
<1> QED  BY <1>1, Invariance, PTL

\* daemon.rs:44-45: exit status 0 of the parent means a bound port, 1 a server that
\* has given up without a report, however the phases fail and the threads interleave.
THEOREM Truthful == Spec => []ParentIsTruthful
<1>1. IInv => ParentIsTruthful  BY DEF IInv
<1> QED  BY <1>1, Invariance, PTL

\* main.rs:312-316,406: the DISPLAY reported, the DISPLAY of the server, the window
\* manager and the observer agree, however late XWayland is.
THEOREM Display == Spec => []DisplayAgrees
<1>1. IInv => DisplayAgrees  BY DEF IInv
<1> QED  BY <1>1, Invariance, PTL
=============================================================================
