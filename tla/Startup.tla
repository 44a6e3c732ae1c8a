------------------------------ MODULE Startup ------------------------------
(***************************************************************************)
(* Startup of the server (run_server in src/main.rs), with the parent that *)
(* `desktop-mcp fork` leaves on the terminal (src/daemon.rs) and the bus   *)
(* daemons of src/a11y.rs.                                                 *)
(*                                                                         *)
(* The parent learns of the outcome through a pipe: it reads until no      *)
(* process has the write end open any more.  The main thread takes one     *)
(* step per phase; the X server, the http thread and the parent run        *)
(* concurrently.  A timeout is a step that may be taken while the awaited  *)
(* event has not happened.  Where the code waits for another program and   *)
(* has no timeout, the wait is a phase of its own.                         *)
(***************************************************************************)
EXTENDS FiniteSets

VARIABLES
  server,    \* the phase the main thread is in
  parent,    \* the waiting parent, "none" if the server runs in the foreground
  holders,   \* processes that have the write end of the pipe open
  pipe,      \* what has been written to it
  buses,     \* bus daemons that are running
  handle,    \* whether run_server has the A11yBuses
  env,       \* variables set in the server's own environment
  exports,   \* variables reported to the user
  xserver,   \* the XWayland process
  xwm,       \* whether the X11 window manager is attached
  observer,  \* whether the _NET_WM_PING observer is connected
  http,      \* the http thread
  ready      \* what it has sent through ready_tx

vars == <<server, parent, holders, pipe, buses, handle, env, exports,
          xserver, xwm, observer, http, ready>>

xVars == <<xserver, xwm, observer>>
httpVars == <<http, ready>>
reportVars == <<pipe, holders, exports>>

\* Phases that only another program ends: the address is read from dbus-daemon, the
\* window manager and the ping observer make round trips to the X server.
Waiting == {"address", "attach", "observe"}

\* The server has failed: run_server returns, its locals and parameters have been
\* dropped, main has returned.
GivenUp == {"failing", "leaving", "exited"}

Phases == {"stdio", "buses", "socket", "spawn x", "await x", "spawn http",
           "await http", "report", "serving"} \cup Waiting \cup GivenUp
Forked == parent # "none"

Variables == {"WAYLAND_DISPLAY", "DISPLAY", "DBUS_SESSION_BUS_ADDRESS"}

-----------------------------------------------------------------------------
(* The end of the server: an error, returned from main *)

\* Any of the fallible steps leaves run_server through `?`, without a note.
Fails ==
  /\ server \in {"stdio", "socket", "await x", "spawn http", "serving"}
  /\ server' = "failing"
  /\ UNCHANGED <<parent, reportVars, buses, handle, env, xVars, httpVars>>

\* The locals of run_server are dropped, and with them the buses, if they have been
\* handed over; after the locals its parameters, ready_pipe among them.  The other
\* threads go on.
Unwind ==
  /\ server = "failing"
  /\ server' = "leaving"
  /\ buses' = IF handle THEN {} ELSE buses
  /\ holders' = (holders \ {"server"}) \ (IF handle THEN {"bus"} ELSE {})
  /\ UNCHANGED <<parent, pipe, handle, env, exports, xVars, httpVars>>

\* Mutant: only the main thread ends.
ExitDetached ==
  /\ server = "leaving"
  /\ server' = "exited"
  /\ UNCHANGED <<parent, reportVars, buses, handle, env, xVars, httpVars>>

\* main returns, and all threads go with it.
Exit ==
  /\ server = "leaving"
  /\ server' = "exited"
  /\ http' = "off"
  /\ UNCHANGED <<parent, reportVars, buses, handle, env, xVars, ready>>

-----------------------------------------------------------------------------
(* The phases of the main thread *)

\* redirect_stdio, only in the forked child.
RedirectStdio ==
  /\ server = "stdio"
  /\ server' = "buses"
  /\ UNCHANGED <<parent, reportVars, buses, handle, env, xVars, httpVars>>

\* Mutant: the pipe lacks O_CLOEXEC.
PassedOn(bs) == IF Forked /\ bs # {} THEN {"bus"} ELSE {}

\* The helper processes that inherit the write end: O_CLOEXEC, so none does.
Inherited(bs) == {}

\* spawn_buses has the buses bs running.
Run(bs) ==
  /\ buses' = bs
  /\ holders' = (holders \ {"bus"}) \cup Inherited(bs)

\* dbus-daemon is spawned, or there is none.
SpawnBuses ==
  /\ server = "buses"
  /\ \/ server' = "socket" /\ UNCHANGED <<buses, holders>>
     \/ server' = "address" /\ Run({"dbus"})
  /\ UNCHANGED <<parent, pipe, exports, handle, env, xVars, httpVars>>

\* Its output ended without an address, so it is killed, or could not be read.
NoAddress ==
  /\ server = "address"
  /\ server' = "socket"
  /\ Run({}) \/ Run({"dbus"})
  /\ UNCHANGED <<parent, pipe, exports, handle, env, xVars, httpVars>>

\* The address is there, and the variables are set; at-spi-bus-launcher then fails,
\* is not installed, or runs.
Address ==
  /\ server = "address"
  /\ server' = "socket"
  /\ env' = env \cup {"DBUS_SESSION_BUS_ADDRESS"}
  /\ \/ Run({"dbus"}) /\ handle' \in BOOLEAN
     \/ Run({"dbus", "at-spi"}) /\ handle' = TRUE
  /\ UNCHANGED <<parent, pipe, exports, xVars, httpVars>>

\* The event loop with its sources, DesktopState and the listening socket.
BindSocket ==
  /\ server = "socket"
  /\ server' = "spawn x"
  /\ env' = (env \cup {"WAYLAND_DISPLAY"}) \ {"DISPLAY"}
  /\ UNCHANGED <<parent, reportVars, buses, handle, xVars, httpVars>>

\* XWayland::spawn; on failure X11 is left out.
SpawnXWayland ==
  /\ server = "spawn x"
  /\ \/ server' = "await x" /\ xserver' = "starting"
     \/ server' = "spawn http" /\ xserver' \in {"off", "starting"}
  /\ UNCHANGED <<parent, reportVars, buses, handle, env, xwm, observer, httpVars>>

\* The event loop runs while the server waits for XWayland.  When it is ready,
\* start_wm is called,
AttachWm ==
  /\ server = "await x" /\ xserver = "ready"
  /\ server' = "attach"
  /\ xserver' = "handled"
  /\ UNCHANGED <<parent, reportVars, buses, handle, env, xwm, observer, httpVars>>

\* which may fail.
WmAttached ==
  /\ server = "attach"
  /\ server' = "await x"
  /\ xwm' \in BOOLEAN
  /\ UNCHANGED <<parent, reportVars, buses, handle, env, xserver, observer, httpVars>>

\* XWayland has failed, or comes so late that the server is serving already.
XWaylandLate ==
  /\ \/ server = "await x" /\ xserver = "broken" /\ UNCHANGED xwm
     \/ server = "serving" /\ xserver = "broken" /\ UNCHANGED xwm
     \/ server = "serving" /\ xserver = "ready" /\ xwm' \in BOOLEAN
  /\ xserver' = "handled"
  /\ UNCHANGED <<server, parent, reportVars, buses, handle, env, observer, httpVars>>

\* XWayland is ready in time: DISPLAY is set,
XWaylandUp ==
  /\ server = "await x" /\ xwm
  /\ server' = "observe"
  /\ env' = env \cup {"DISPLAY"}
  /\ UNCHANGED <<parent, reportVars, buses, handle, xVars, httpVars>>

\* and setup_x11_ping connects or does not.
Observes ==
  /\ server = "observe"
  /\ server' = "spawn http"
  /\ observer' \in BOOLEAN
  /\ UNCHANGED <<parent, reportVars, buses, handle, env, xserver, xwm, httpVars>>

\* ... or has not become ready within 10 s.
XWaylandTimeout ==
  /\ server = "await x" /\ ~xwm
  /\ server' = "spawn http"
  /\ UNCHANGED <<parent, reportVars, buses, handle, env, xVars, httpVars>>

SpawnHttp ==
  /\ server = "spawn http"
  /\ server' = "await http"
  /\ http' = "connecting"
  /\ UNCHANGED <<parent, reportVars, buses, handle, env, xVars, ready>>

HttpReady ==
  /\ server = "await http"
  /\ ready = {"ok"}
  /\ server' = "report"
  /\ UNCHANGED <<parent, reportVars, buses, handle, env, xVars, httpVars>>

\* An error of the http thread, or no answer within 15 s: report_failure writes a
\* note and closes the pipe before anything else is undone.  The http thread may yet
\* bind the port.
HttpFailed ==
  /\ server = "await http"
  /\ ready # {"ok"}
  /\ server' = "failing"
  /\ pipe' = IF Forked THEN "failure" ELSE pipe
  /\ holders' = holders \ {"server"}
  /\ UNCHANGED <<parent, buses, handle, env, exports, xVars, httpVars>>

\* Mutant: DISPLAY is reported as soon as there is an X server.
ReportedIfSpawned == {"WAYLAND_DISPLAY"}
  \cup (IF xserver # "off" THEN {"DISPLAY"} ELSE {})
  \cup (IF handle THEN {"DBUS_SESSION_BUS_ADDRESS"} ELSE {})

Reported == {"WAYLAND_DISPLAY"}
  \cup (IF xwm THEN {"DISPLAY"} ELSE {})
  \cup (IF handle THEN {"DBUS_SESSION_BUS_ADDRESS"} ELSE {})

Report ==
  /\ server = "report"
  /\ server' = "serving"
  /\ exports' = Reported
  /\ pipe' = IF Forked THEN "exports" ELSE pipe
  /\ holders' = holders \ {"server"}
  /\ UNCHANGED <<parent, buses, handle, env, xVars, httpVars>>

\* What the main thread does on its own, or with a timeout.
OwnStep ==
  \/ RedirectStdio \/ SpawnBuses \/ BindSocket \/ SpawnXWayland
  \/ XWaylandUp \/ XWaylandTimeout \/ SpawnHttp
  \/ HttpReady \/ HttpFailed \/ Report \/ Unwind \/ Exit

\* What it does once another program has answered.
DaemonAnswers == NoAddress \/ Address
XServerAnswers == WmAttached \/ Observes

MainStep ==
  \/ OwnStep \/ DaemonAnswers \/ XServerAnswers
  \/ AttachWm \/ XWaylandLate \/ Fails

-----------------------------------------------------------------------------
(* The X server, the http thread and the parent *)

XServer ==
  /\ xserver = "starting"
  /\ xserver' \in {"ready", "broken"}
  /\ UNCHANGED <<server, parent, reportVars, buses, handle, env, xwm, observer, httpVars>>

\* The accessibility connection, made or given up within 5 s; the runtime may
\* fail before that.
HttpConnects ==
  /\ http = "connecting"
  /\ \/ http' = "binding" /\ UNCHANGED ready
     \/ http' = "ended" /\ ready' = {"err"}
  /\ UNCHANGED <<server, parent, reportVars, buses, handle, env, xVars>>

\* Mutant: readiness is reported before the port is bound.
BindLater ==
  /\ http = "binding"
  /\ http' \in {"listening", "ended"}
  /\ ready' = {"ok"}
  /\ UNCHANGED <<server, parent, reportVars, buses, handle, env, xVars>>

\* axum::serve does not return, so a thread that listens does so to the end.
HttpBinds ==
  /\ http = "binding"
  /\ \/ http' = "listening" /\ ready' = {"ok"}
     \/ http' = "ended" /\ ready' = {"err"}
  /\ UNCHANGED <<server, parent, reportVars, buses, handle, env, xVars>>

\* parent_wait_and_print
ParentReads ==
  /\ parent = "reading"
  /\ holders = {}
  /\ parent' = IF pipe = "exports" THEN "exit 0" ELSE "exit 1"
  /\ UNCHANGED <<server, reportVars, buses, handle, env, xVars, httpVars>>

-----------------------------------------------------------------------------
\* `desktop-mcp fork`, right after fork_daemon: the parent has closed its write
\* end.  Otherwise `desktop-mcp run`.
Init ==
  /\ \/ server = "stdio" /\ parent = "reading" /\ holders = {"server"}
     \/ server = "buses" /\ parent = "none" /\ holders = {}
  /\ pipe = ""
  /\ buses = {}
  /\ handle = FALSE
  /\ env = {}
  /\ exports = {}
  /\ xserver = "off"
  /\ xwm = FALSE
  /\ observer = FALSE
  /\ http = "off"
  /\ ready = {}

Next == MainStep \/ XServer \/ HttpConnects \/ HttpBinds \/ ParentReads

Spec == Init /\ [][Next]_vars

\* The code lets the main thread and the parent go on.  That the phases in Waiting
\* end is no merit of the code, which has no timeout there (read_line of spawn_buses,
\* the round trips of start_wm and X11Ping::connect): it is assumed of dbus-daemon
\* and of the X server that they answer or close the connection.
OthersAnswer == WF_vars(DaemonAnswers) /\ WF_vars(XServerAnswers)

FairSpec == Spec /\ WF_vars(OwnStep) /\ WF_vars(ParentReads) /\ OthersAnswer

-----------------------------------------------------------------------------
(* Properties *)

\* Every variable keeps its shape; the http thread ends with the server.
TypeOK ==
  /\ server \in Phases
  /\ parent \in {"none", "reading", "exit 0", "exit 1"}
  /\ holders \subseteq {"server", "bus"}
  /\ pipe \in {"", "exports", "failure"}
  /\ buses \subseteq {"dbus", "at-spi"}
  /\ handle \in BOOLEAN
  /\ env \subseteq Variables
  /\ exports \subseteq Variables
  /\ xserver \in {"off", "starting", "ready", "broken", "handled"}
  /\ xwm \in BOOLEAN
  /\ observer \in BOOLEAN
  /\ http \in {"off", "connecting", "binding", "listening", "ended"}
  /\ ready \subseteq {"ok", "err"}
  /\ server = "exited" => http = "off"

\* daemon.rs:44-45: the parent's exit status matches the outcome: with 0 the MCP
\* port is bound and stays so while the server lives; with 1 the server has given up
\* without a report, though its process and its port may live a little longer.
ParentIsTruthful ==
  /\ parent = "exit 0" => http = "listening" \/ server = "exited"
  /\ parent = "exit 1" => server \in GivenUp /\ exports = {}

\* main.rs:312-316,406: DISPLAY is reported exactly if the server itself runs with
\* it, and then the window manager is attached; X11 windows are pinged only then.
DisplayAgrees ==
  /\ server = "serving" => ("DISPLAY" \in exports <=> "DISPLAY" \in env)
  /\ "DISPLAY" \in exports \cup env => xwm
  /\ observer => "DISPLAY" \in env

\* daemon.rs:21-23: the parent returns to the shell, even if a daemon that the
\* server spawned outlives it, as long as no other program keeps the server waiting.
ParentReturns == parent = "reading" ~> parent # "reading"

\* a11y.rs:22: the bus daemons are "killed on drop": once spawn_buses has returned,
\* none runs that the server does not hold.
NoStrayBus == server # "address" /\ buses # {} => handle
=============================================================================
