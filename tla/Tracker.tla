------------------------------ MODULE Tracker ------------------------------
(***************************************************************************)
(* The transition tracker of the compositor (src/tracker.rs), with the     *)
(* window and client events of src/comp.rs that feed it.                   *)
(*                                                                         *)
(* A tool call injects an action and then waits until the UI has settled:  *)
(* two ping-pong rounds to the clients that matter, without a surface      *)
(* commit in a round (interaction tools), or a quiet period (the `wait`    *)
(* tool).  Every call has a deadline; at the deadline the state is         *)
(* returned with timed_out set.                                            *)
(*                                                                         *)
(* All handlers run on the one compositor thread, so a handler is an       *)
(* action.  A step of time is an action of its own, Elapse; the instants   *)
(* of the code are kept as the time left or gone by since.  An Option is a *)
(* set with at most one element.                                           *)
(***************************************************************************)
EXTENDS Naturals, FiniteSets

CONSTANTS
  Clients,      \* Wayland clients: each has one xdg ShellClient, a ping key
  XWins,        \* X11 window ids the X server hands out: a ping key each
  Mortal,       \* the Wayland clients that may exit or crash
  Observer,     \* whether the X11 ping observer connected (x11ping is Some)
  Calls,        \* tool calls that may be waiting at the same time
  Kinds,        \* the tunings of the tools under study
  Timeouts,     \* the values wait_ms may have, in steps of time
  MaxId,        \* bound: windows opened in a behaviour
  MaxSerial,    \* bound: X11 ping serials told apart, more than MaxId
  QuietTime,    \* quiet_time_ms of the `wait` tool
  SettleGrace,  \* X11_SETTLE_GRACE
  FrozenAfter   \* FROZEN_AFTER

AllKinds == {"interact", "launch", "wait"}

ASSUME ConstantsAssumption ==
  /\ Clients \cap XWins = {}
  /\ Mortal \subseteq Clients
  /\ Observer \in BOOLEAN
  /\ Kinds \subseteq AllKinds
  /\ Timeouts \subseteq Nat \ {0}
  /\ MaxId \in Nat
  /\ MaxSerial \in Nat
  /\ QuietTime \in Nat
  /\ SettleGrace \in Nat
  /\ FrozenAfter \in Nat

VARIABLES
  windows,      \* id -> the key that owns the window, {} if no window has the id
  nextId,       \* next_window_id
  alive,        \* Wayland clients that are connected
  advert,       \* whether an X11 window lists _NET_WM_PING in WM_PROTOCOLS
  support,      \* x11_ping_support, the cached answer to that question
  outstanding,  \* ping_states: the serial of the unanswered ping of a key
  age,          \* time since that ping was sent, 0 if there is none
  net,          \* serials of X11 pings and pongs on their way, for each window
  pending,      \* calls that have an entry in waits
  wait,         \* that entry
  replies,      \* the replies sent by the step just taken
  hist          \* history, read by properties only: see HistRec

vars == <<windows, nextId, alive, advert, support, outstanding, age, net,
          pending, wait, replies, hist>>

pingVars == <<outstanding, age, net>>

\* An Option of an element of S.
Option(S) == {{}} \cup {{s} : s \in S}

Keys == Clients \cup XWins
Ids == 1..MaxId
Serials == 1..MaxSerial

MaxOf(m, n) == IF m < n THEN n ELSE m
QuietCap == MaxOf(QuietTime, SettleGrace)

\* Mutant: one round is taken to be enough.
OneRound == 1

QUIET_ROUNDS == 2

(***************************************************************************)
(* The struct Wait.  round is None iff ~running; quietRounds saturates at  *)
(* QUIET_ROUNDS, the only value it is compared with.  left is the time to  *)
(* the deadline, quiet the time since the last activity (saturated).       *)
(* kind stands for expect_new_window, quiet_time and require_activity.     *)
(***************************************************************************)
WaitRec == [kind: AllKinds, watch: SUBSET Ids, known: SUBSET Ids,
            changed: SUBSET Ids, closed: SUBSET Ids,
            quietRounds: 0..QUIET_ROUNDS, running: BOOLEAN,
            round: SUBSET Keys, dirty: BOOLEAN, active: BOOLEAN,
            left: Nat, quiet: 0..QuietCap]

NewWait(kind, watch, known, left) ==
  [kind |-> kind, watch |-> watch, known |-> known,
   changed |-> {}, closed |-> {}, quietRounds |-> 0, running |-> FALSE,
   round |-> {}, dirty |-> FALSE, active |-> FALSE, left |-> left, quiet |-> 0]

Idle == NewWait("interact", {}, {}, 0)

(***************************************************************************)
(* What a call has seen since it started.  stale: keys whose unanswered    *)
(* ping is older than the call; heard: keys that answered a ping sent      *)
(* during the call; calm: ping rounds started since the last relevant      *)
(* activity; firstId: the ids from here on were given out later.           *)
(***************************************************************************)
HistRec == [stale: SUBSET Keys, heard: SUBSET Keys, calm: 0..2,
            firstId: 1..(MaxId + 1)]

NoHist == [stale |-> {}, heard |-> {}, calm |-> 0, firstId |-> 1]

ReplyRec == [call: Calls, timedOut: BOOLEAN, new: SUBSET Ids,
             wait: WaitRec, hist: HistRec]

-----------------------------------------------------------------------------
(* Windows and ping keys *)

Open == {i \in Ids : windows[i] # {}}

WindowsOf(k) == {i \in Ids : windows[i] = {k}}

Owns(k) == WindowsOf(k) # {}

\* A wait is about every window, or about the watched one and those that are
\* not in known_at_start.
Relevant(w, i) == w.watch = {} \/ i \in w.watch \/ i \notin w.known

RelevantKeys(w) == {k \in Keys : \E i \in WindowsOf(k) : Relevant(w, i)}

\* The probe of x11ping.rs, through the cache.
SupportsPing(x) == IF support[x] # {} THEN support[x] = {TRUE}
                                      ELSE Observer /\ advert[x]

Pingable(k) == k \in Clients \/ SupportsPing(k)

Targets(w) == {k \in RelevantKeys(w) : Pingable(k)}

GraceNeeded(w) == \E k \in RelevantKeys(w) : ~Pingable(k)

Probed(X) == [x \in XWins |-> IF x \in X THEN {SupportsPing(x)} ELSE support[x]]

Frozen(k) == outstanding[k] # {} /\ age[k] > FrozenAfter

-----------------------------------------------------------------------------
(* Notes of window activity *)

Touched(w, I) ==
  [w EXCEPT !.changed = @ \cup I, !.dirty = TRUE, !.active = TRUE, !.quiet = 0]

Gone(w, I) ==
  [w EXCEPT !.closed = @ \cup I, !.dirty = TRUE, !.active = TRUE, !.quiet = 0]

\* note_window_activity for the windows I; note_window_closed likewise.
NoteActivity(w, I) ==
  LET R == {i \in I : Relevant(w, i)} IN IF R = {} THEN w ELSE Touched(w, R)

\* Mutant: a window that opened during the call may close unnoticed.
NoteWatchedClosed(w, I) ==
  LET R == {i \in I : w.watch = {} \/ i \in w.watch}
  IN  IF R = {} THEN w ELSE Gone(w, R)

NoteClosed(w, I) ==
  LET R == {i \in I : Relevant(w, i)} IN IF R = {} THEN w ELSE Gone(w, R)

\* The calls the event on the windows I matters to.
Disturbed(I) == {c \in pending : \E i \in I : Relevant(wait[c], i)}

\* Only relevant events end the calm.
Ruffled(I) ==
  [c \in Calls |-> IF c \in Disturbed(I) THEN [hist[c] EXCEPT !.calm = 0] ELSE hist[c]]

ToldActivity(I) ==
  [c \in Calls |-> IF c \in pending THEN NoteActivity(wait[c], I) ELSE wait[c]]

ToldClosed(I) ==
  [c \in Calls |-> IF c \in pending THEN NoteClosed(wait[c], I) ELSE wait[c]]

\* The ping of key k is answered; the answer counts as heard if the ping was
\* sent after the call began.
Answered(hs, k) ==
  [c \in Calls |-> IF c \notin pending THEN hs[c]
                   ELSE IF k \in hs[c].stale THEN [hs[c] EXCEPT !.stale = @ \ {k}]
                   ELSE [hs[c] EXCEPT !.heard = @ \cup {k}]]

\* The ping of key k is dropped.
Forgotten(hs, k) == [c \in Calls |-> [hs[c] EXCEPT !.stale = @ \ {k}]]

-----------------------------------------------------------------------------
(* Sending pings: ensure_ping and ensure_x11_ping *)

\* Serials come from a counter; all that counts is that a new one differs from
\* those still on their way.  Wayland pongs carry none.
FreshSerial(k) ==
  IF k \in Clients THEN {0}
  ELSE {s \in Serials \ net[k] : \A t \in Serials \ net[k] : s <= t}

\* A ping that is still unanswered is joined, not repeated.
Pinged(K) ==
  [k \in Keys |-> IF k \in K /\ outstanding[k] = {} THEN FreshSerial(k)
                                                    ELSE outstanding[k]]

\* Mutant: an unanswered ping is sent anew, and its age starts over.
RepeatPings(K) ==
  /\ \A k \in K : FreshSerial(k) # {}
  /\ outstanding' = Pinged(K)
  /\ net' = [x \in XWins |-> net[x] \cup Pinged(K)[x]]
  /\ age' = [k \in Keys |-> IF k \in K THEN 0 ELSE age[k]]

\* The guard is the bound MaxSerial: with more serials than windows, hence more
\* than unanswered X11 pings, it always holds.
SendPings(K) ==
  /\ \A k \in K : FreshSerial(k) # {}
  /\ outstanding' = Pinged(K)
  /\ net' = [x \in XWins |-> net[x] \cup Pinged(K)[x]]
  /\ UNCHANGED age

-----------------------------------------------------------------------------
(* tracker_tick: start a round for every wait that has none *)

Starts(w) == ~w.running /\ w.left > 0

Started(w) ==
  IF Starts(w) THEN [w EXCEPT !.running = TRUE, !.round = Targets(w), !.dirty = FALSE]
               ELSE w

RoundStarts(P, ws) == {c \in P : Starts(ws[c])}

Calmer(hs, S) ==
  [c \in Calls |-> IF c \in S THEN [hs[c] EXCEPT !.calm = IF @ < 2 THEN @ + 1 ELSE 2]
                              ELSE hs[c]]

-----------------------------------------------------------------------------
(* evaluate_waits: which waits are over, given the ping table out *)

\* Mutant: any activity will do for the launched app's first window.
ExpectingActivity(w) == w.kind = "launch" /\ ~w.active

\* Still waiting for the launched app's first window.
Expecting(w) == w.kind = "launch" /\ Open \subseteq w.known

RoundComplete(w, out) ==
  /\ w.left > 0
  /\ ~Expecting(w)
  /\ w.running
  /\ \A k \in w.round : out[k] = {}

\* Mutant: the round counts although something changed while it ran.
RoundsRun(w) ==
  IF w.quietRounds < QUIET_ROUNDS THEN w.quietRounds + 1 ELSE w.quietRounds

\* Mutant: has_activity, which is never reset, is read in place of round_dirty.
RoundsWithoutActivity(w) == IF w.active THEN 0 ELSE RoundsRun(w)

QuietRounds(w) ==
  IF w.dirty THEN 0
  ELSE IF w.quietRounds < QUIET_ROUNDS THEN w.quietRounds + 1 ELSE w.quietRounds

Evaluated(w, out) ==
  IF RoundComplete(w, out)
  THEN [w EXCEPT !.running = FALSE, !.round = {}, !.dirty = FALSE,
                 !.quietRounds = QuietRounds(w)]
  ELSE IF w.left > 0 /\ Expecting(w) THEN [w EXCEPT !.running = FALSE, !.round = {}]
  ELSE w

IsSettled(w) ==
  IF w.kind = "wait" THEN w.active /\ w.quiet >= QuietTime
                     ELSE QuietRounds(w) >= QUIET_ROUNDS

\* Mutant: the deadline is looked at only when a round is complete.
FinishesInRound(w, out) ==
  /\ \A k \in w.round : out[k] = {}
  /\ w.left = 0 \/ (RoundComplete(w, out) /\ IsSettled(w))

Finishes(w, out) ==
  \/ w.left = 0
  \/ /\ RoundComplete(w, out)
     /\ IsSettled(w)
     /\ GraceNeeded(w) => w.quiet >= SettleGrace

\* Mutant: what is new is told for all waiting calls alike.
NewToAll(c, w, h, out) ==
  [call |-> c, timedOut |-> w.left = 0,
   new |-> {i \in Open : i \notin w.known /\ \A d \in pending : i \notin wait[d].known},
   wait |-> Evaluated(w, out), hist |-> h]

\* The snapshot: the window list with its new flags, closed_windows, timed_out.
ReplyTo(c, w, h, out) ==
  [call |-> c, timedOut |-> w.left = 0, new |-> Open \ w.known,
   wait |-> Evaluated(w, out), hist |-> h]

\* ws, hs: the waits P and their history as the handler leaves them; the
\* support of every relevant X11 window has been probed by now.
EvaluateWaits(P, ws, hs, out) ==
  LET finished == {c \in P : Finishes(ws[c], out)} IN
  /\ pending' = P \ finished
  /\ wait' = [c \in Calls |-> IF c \in P \ finished THEN Evaluated(ws[c], out) ELSE Idle]
  /\ hist' = [c \in Calls |-> IF c \in P \ finished THEN hs[c] ELSE NoHist]
  /\ replies' = {ReplyTo(c, ws[c], hs[c], out) : c \in finished}
  /\ support' = Probed({x \in XWins : \E c \in P : x \in RelevantKeys(ws[c])})

TrackerTick(P, ws, hs) ==
  LET S == RoundStarts(P, ws)
      K == UNION {Targets(ws[c]) : c \in S}
  IN  /\ SendPings(K)
      /\ EvaluateWaits(P, [c \in Calls |-> IF c \in P THEN Started(ws[c]) ELSE ws[c]],
                       Calmer(hs, S), Pinged(K))

-----------------------------------------------------------------------------
(* Windows and clients: the events of comp.rs as far as the tracker sees them *)

\* register_window: a fresh id, and activity on it.
Register(k) ==
  /\ nextId \in Ids
  /\ windows' = [windows EXCEPT ![nextId] = {k}]
  /\ nextId' = nextId + 1
  /\ wait' = ToldActivity({nextId})
  /\ hist' = Ruffled({nextId})
  /\ replies' = {}
  /\ UNCHANGED pending

NewToplevel(c) ==
  /\ c \in alive
  /\ Register(c)
  /\ UNCHANGED <<alive, advert, support, pingVars>>

\* map_window_request, mapped_override_redirect_window: the id may have been
\* that of a window destroyed before.
MapX11(x) ==
  /\ ~Owns(x)
  /\ \E b \in BOOLEAN : advert' = [advert EXCEPT ![x] = b]
  /\ Register(x)
  /\ UNCHANGED <<alive, support, pingVars>>

Unregister(I) ==
  /\ windows' = [i \in Ids |-> IF i \in I THEN {} ELSE windows[i]]
  /\ wait' = ToldClosed(I)
  /\ replies' = {}
  /\ UNCHANGED <<nextId, pending>>

ToplevelDestroyed(i) ==
  /\ \E c \in Clients : windows[i] = {c}
  /\ Unregister({i})
  /\ hist' = Ruffled({i})
  /\ UNCHANGED <<alive, advert, support, pingVars>>

\* The disconnect destroys all the toplevels of the client.  Nothing touches
\* ping_states.
ClientDies(c) ==
  /\ c \in alive \cap Mortal
  /\ alive' = alive \ {c}
  /\ Unregister(WindowsOf(c))
  /\ hist' = Ruffled(WindowsOf(c))
  /\ UNCHANGED <<advert, support, pingVars>>

\* Mutant: the cached ping support outlives the window.
ForgetOutstanding(x) ==
  /\ outstanding' = [outstanding EXCEPT ![x] = {}]
  /\ age' = [age EXCEPT ![x] = 0]
  /\ UNCHANGED support

\* forget_x11_ping
ForgetPing(x) ==
  /\ outstanding' = [outstanding EXCEPT ![x] = {}]
  /\ age' = [age EXCEPT ![x] = 0]
  /\ support' = [support EXCEPT ![x] = {}]

\* unmapped_window, destroyed_window
UnmapX11(x) ==
  /\ Owns(x)
  /\ Unregister(WindowsOf(x))
  /\ ForgetPing(x)
  /\ hist' = Forgotten(Ruffled(WindowsOf(x)), x)
  /\ UNCHANGED <<alive, advert, net>>

\* A commit, a popup closed, a property or geometry change of a window.
Commit(i) ==
  /\ windows[i] # {}
  /\ wait' = ToldActivity({i})
  /\ hist' = Ruffled({i})
  /\ replies' = {}
  /\ UNCHANGED <<windows, nextId, pending, alive, advert, support, pingVars>>

-----------------------------------------------------------------------------
(* Calls, pongs and timers *)

\* start_wait, which ends in a tick of the whole tracker.
StartWait(c, kind, watch, t) ==
  /\ c \notin pending
  /\ TrackerTick(pending \cup {c},
                 [wait EXCEPT ![c] = NewWait(kind, watch, Open, t)],
                 [hist EXCEPT ![c] =
                    [NoHist EXCEPT !.stale = {k \in Keys : outstanding[k] # {}},
                                   !.firstId = nextId]])
  /\ UNCHANGED <<windows, nextId, alive, advert>>

\* The 50 ms timer, idle while nothing waits.
TimerTick ==
  /\ pending # {}
  /\ TrackerTick(pending, wait, hist)
  /\ UNCHANGED <<windows, nextId, alive, advert>>

\* note_pong.  The shell lets only the answer to its one pending ping through.
Pong(c) ==
  /\ c \in alive
  /\ outstanding[c] # {}
  /\ outstanding' = [outstanding EXCEPT ![c] = {}]
  /\ age' = [age EXCEPT ![c] = 0]
  /\ EvaluateWaits(pending, wait, Answered(hist, c), outstanding')
  /\ UNCHANGED <<windows, nextId, alive, advert, net>>

\* note_x11_pong: an answer counts only if it carries the serial waited for.
Matches(x, s) == s \in outstanding[x]

X11Pong(x, s) ==
  /\ s \in net[x]
  /\ net' = [net EXCEPT ![x] = @ \ {s}]
  /\ outstanding' = [outstanding EXCEPT ![x] = IF Matches(x, s) THEN {} ELSE @]
  /\ age' = [age EXCEPT ![x] = IF Matches(x, s) THEN 0 ELSE @]
  /\ EvaluateWaits(pending, wait, IF Matches(x, s) THEN Answered(hist, x) ELSE hist,
                   outstanding')
  /\ UNCHANGED <<windows, nextId, alive, advert>>

\* Every window's client is pinged every few seconds, call or no call.
Heartbeat ==
  LET X == {x \in XWins : Owns(x)} IN
  /\ SendPings({k \in Keys : Owns(k) /\ Pingable(k)})
  /\ support' = Probed(X)
  /\ replies' = {}
  /\ UNCHANGED <<windows, nextId, alive, advert, pending, wait, hist>>

\* Mutant: the time left is not kept from running below zero.
LaterUnchecked(w) == [w EXCEPT !.left = @ - 1, !.quiet = IF @ < QuietCap THEN @ + 1 ELSE @]

Later(w) == [w EXCEPT !.left = IF @ > 0 THEN @ - 1 ELSE 0,
                      !.quiet = IF @ < QuietCap THEN @ + 1 ELSE @]

Elapse ==
  /\ wait' = [c \in Calls |-> IF c \in pending THEN Later(wait[c]) ELSE wait[c]]
  /\ age' = [k \in Keys |-> IF outstanding[k] # {} /\ age[k] <= FrozenAfter
                            THEN age[k] + 1 ELSE age[k]]
  /\ replies' = {}
  /\ UNCHANGED <<windows, nextId, alive, advert, support, outstanding, net,
                 pending, hist>>

-----------------------------------------------------------------------------
Init ==
  /\ windows = [i \in Ids |-> {}]
  /\ nextId = 1
  /\ alive = Clients
  /\ advert = [x \in XWins |-> FALSE]
  /\ support = [x \in XWins |-> {}]
  /\ outstanding = [k \in Keys |-> {}]
  /\ age = [k \in Keys |-> 0]
  /\ net = [x \in XWins |-> {}]
  /\ pending = {}
  /\ wait = [c \in Calls |-> Idle]
  /\ replies = {}
  /\ hist = [c \in Calls |-> NoHist]

\* What clients do to their windows; a call that begins.
Activity ==
  \/ \E c \in Clients : NewToplevel(c) \/ ClientDies(c)
  \/ \E x \in XWins : MapX11(x) \/ UnmapX11(x)
  \/ \E i \in Ids : ToplevelDestroyed(i) \/ Commit(i)

CallStarts ==
  \E c \in Calls, kind \in Kinds, t \in Timeouts :
    \E watch \in {{}} \cup {{i} : i \in Ids} : StartWait(c, kind, watch, t)

Answer == \/ \E c \in Clients : Pong(c)
          \/ \E x \in XWins, s \in Serials : X11Pong(x, s)

Next == Activity \/ CallStarts \/ Answer \/ TimerTick \/ Heartbeat \/ Elapse

Spec == Init /\ [][Next]_vars

\* The timers of main.rs fire and time passes; nothing is assumed of clients.
FairSpec == Spec /\ WF_vars(TimerTick) /\ WF_vars(Heartbeat) /\ WF_vars(Elapse)

\* Clients that answer every ping, but no reliance on the passing of time.
ResponsiveSpec ==
  /\ Spec
  /\ WF_vars(TimerTick)
  /\ \A c \in Clients : WF_vars(Pong(c))
  /\ \A x \in XWins, s \in Serials : WF_vars(X11Pong(x, s))

-----------------------------------------------------------------------------
(* Properties *)

\* Every variable keeps the shape the Rust types give it.
TypeOK ==
  /\ windows \in [Ids -> Option(Keys)]
  /\ nextId \in 1..(MaxId + 1)
  /\ alive \in SUBSET Clients
  /\ advert \in [XWins -> BOOLEAN]
  /\ support \in [XWins -> SUBSET BOOLEAN]
  /\ outstanding \in [Keys -> SUBSET (0..MaxSerial)]
  /\ \A x \in XWins : outstanding[x] \subseteq Serials
  /\ age \in [Keys -> 0..(FrozenAfter + 1)]
  /\ net \in [XWins -> SUBSET Serials]
  /\ pending \in SUBSET Calls
  /\ wait \in [Calls -> WaitRec]
  /\ replies \in SUBSET ReplyRec
  /\ hist \in [Calls -> HistRec]

\* A reply that reports a settled transition of an interaction.
SettledReplies == {r \in replies : ~r.timedOut /\ r.wait.kind # "wait"}

\* tracker.rs:84,138: a transition is not called complete before each client
\* the call is about has answered a ping that was sent after the action: the
\* first round may join a ping already on its way, the second one cannot.
SettledOnlyWhenHeard ==
  \A r \in SettledReplies : \A i \in Open \cap r.wait.known :
    \A k \in Keys : /\ windows[i] = {k}
                    /\ Relevant(r.wait, i)
                    /\ Pingable(k)
                    => k \in r.hist.heard

\* evaluate_waits: the last ping-pong round of a settled transition began after
\* the last relevant activity, so nothing changed while it ran.
LastRoundQuiet == \A r \in SettledReplies : r.hist.calm >= 1

\* README and promt.md:28: two rounds passed without any change of the UI.
BothRoundsQuiet == \A r \in SettledReplies : r.hist.calm >= 2

\* build_snapshot with known_at_start: the new windows of a reply are those
\* given an id during the call that are still there, and closed_windows names
\* each relevant window that went away during the call, whoever else waits.
ReplyAccountsForWindows ==
  \A r \in replies :
    /\ r.new = {i \in Open : i >= r.hist.firstId}
    /\ r.wait.closed = {i \in 1..(nextId - 1) :
                          /\ i \in r.wait.known \/ i >= r.hist.firstId
                          /\ Relevant(r.wait, i)
                          /\ i \notin Open}

\* forget_x11_ping: X11 window ids are reused, but a window never starts out
\* with the ping or the ping support of the window that had its id before.
NothingInherited ==
  \A x \in XWins : /\ ~Owns(x) => outstanding[x] = {} /\ support[x] = {}
                   /\ support[x] \subseteq {Observer /\ advert[x]}

\* ensure_ping: a round does not wait for a client that is gone.
NoDeadClientAwaited ==
  \A c \in pending : wait[c].running =>
    \A k \in wait[c].round \cap Clients : k \in alive \/ outstanding[k] = {}

\* Every call is answered, whatever clients do: at its deadline if not before.
EveryCallAnswered == \A c \in Calls : c \in pending ~> c \notin pending

\* evaluate_waits: once the UI is left alone every call settles by its ping
\* rounds, without the help of the deadline.  A heartbeat pings clients that
\* have already answered, so this is said of the time between two heartbeats.
Quiescent == <>[][~(Activity \/ CallStarts \/ Heartbeat)]_vars
Converges == Quiescent => \A c \in Calls : c \in pending ~> c \notin pending

\* heartbeat: a client that owns a window and leaves its ping unanswered is
\* reported frozen in the end: its ping is neither dropped nor sent anew, and
\* there always is a next one, whether or not calls are waiting.
FreezeDetected ==
  \A k \in Keys :
    /\ []<>(~Owns(k) \/ Frozen(k) \/ outstanding[k] = {})
    /\ []<>(~Owns(k) \/ ~Pingable(k) \/ outstanding[k] # {})

-----------------------------------------------------------------------------
(* What a call is promised *)

\* What the call of the wait w with the history h began with.
Request(w, h) == [kind |-> w.kind, watch |-> w.watch, known |-> w.known,
                  before |-> 1..(h.firstId - 1)]

Clock(w) == [left |-> w.left, quiet |-> w.quiet]

\* The windows whose client answers no pings.
Silent == {i \in Ids : \E k \in Keys : windows[i] = {k} /\ ~Pingable(k)}

Told(r) == [call |-> r.call, timedOut |-> r.timedOut, new |-> r.new,
            closed |-> r.wait.closed]

Promise == INSTANCE Transition WITH
  Windows <- Ids,
  Grace   <- SettleGrace,
  open    <- Open,
  ever    <- 1..(nextId - 1),
  silent  <- Silent,
  calls   <- [c \in pending |-> Request(wait[c], hist[c])],
  clock   <- [c \in pending |-> Clock(wait[c])],
  stirred <- {c \in pending : wait[c].active},
  asked   <- {c \in pending : hist[c].calm >= 1},
  answers <- {Told(r) : r \in replies}

\* tracker_tick, evaluate_waits: the tracker keeps the promise of Transition.  For
\* each call, whatever others are under way, its rounds, grace period and deadline
\* amount to just that.
ImplementsTransition == Promise!Spec
=============================================================================
