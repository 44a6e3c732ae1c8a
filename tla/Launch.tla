------------------------------- MODULE Launch -------------------------------
(***************************************************************************)
(* The launch_app tool (src/mcp.rs): the http thread spawns the            *)
(* application and then sends the compositor a request that waits for a    *)
(* new window.  The application runs from the first step on, so the        *)
(* module composes the call with the tracker and the clients of Tracker.   *)
(***************************************************************************)
EXTENDS Tracker

CONSTANTS
  App,       \* the Wayland client that the application will be
  Launcher   \* the launch_app call

ASSUME LaunchAssumption ==
  App \in Clients /\ Launcher \in Calls /\ {"interact", "launch"} \subseteq Kinds

VARIABLE stage   \* how far the call is: see Stages

launchVars == <<vars, stage>>

Stages == {"called", "spawned", "waiting", "done"}

\* A window opened before the launch is not the application's.
AppRuns == stage # "called"

-----------------------------------------------------------------------------
\* cmd.spawn
Spawn ==
  /\ stage = "called"
  /\ stage' = "spawned"
  /\ replies' = {}
  /\ UNCHANGED <<windows, nextId, alive, advert, support, pingVars, pending, wait, hist>>

\* perform_launch: Action::None, then the wait.  Nothing orders this step with
\* what the application has done since it was spawned.
LaunchWait ==
  /\ stage = "spawned"
  /\ stage' = "waiting"
  /\ \E t \in Timeouts, watch \in {{}} \cup {{i} : i \in Ids} :
       StartWait(Launcher, "launch", watch, t)

\* The answer to the call ends it.
Answers == stage' = IF stage = "waiting" /\ Launcher \notin pending' THEN "done" ELSE stage

\* The compositor and its clients, while the call is under way.
Others ==
  /\ \/ Activity \/ Answer \/ TimerTick \/ Heartbeat \/ Elapse
     \/ \E c \in Calls \ {Launcher}, t \in Timeouts, watch \in {{}} \cup {{i} : i \in Ids} :
          StartWait(c, "interact", watch, t)
  /\ \A i \in Ids : windows'[i] = {App} => AppRuns
  /\ Answers

LaunchInit == Init /\ stage = "called"

LaunchNext == Spawn \/ LaunchWait \/ Others

LaunchSpec == LaunchInit /\ [][LaunchNext]_launchVars

-----------------------------------------------------------------------------
(* Properties *)

LaunchReplies == {r \in replies : r.call = Launcher}

\* The tracker is composed with the call as it is: it keeps its types.
LaunchTypeOK == TypeOK /\ stage \in Stages /\ (stage # "waiting" => Launcher \notin pending)

\* ipc.rs:93-94, evaluate_waits: a launch that is not timed out shows at least
\* one window that opened after the wait began and is still there, even if
\* windows that opened meanwhile have closed again.
SettledLaunchHasNewWindow ==
  \A r \in LaunchReplies : ~r.timedOut =>
    \E i \in r.new : i >= r.hist.firstId /\ i \in Open
=============================================================================
