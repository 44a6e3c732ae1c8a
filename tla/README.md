# desktop-mcp: TLA+ models and proofs

desktop-mcp is a virtual desktop for language models: a headless Wayland
compositor (smithay, with XWayland) whose windows are driven and observed
through MCP tools. A tool call injects input, waits until the user interface
has settled, and returns a snapshot. This directory models the parts of it that
decide *when* and *about what* a call answers, *where* input goes, and how the
server comes up; TLC checks the models on small instances and TLAPS proves the
central results for every instance. Paths below are relative to `src/`.

## 1. The system

### Threads and processes

* The **main (compositor) thread** runs a calloop event loop. Every Wayland and
  X11 handler, every request of a tool, and three timers (33 ms render, 50 ms
  tracker tick, 3 s heartbeat) run there, one after the other. There is no other
  writer of `DesktopState`.
* The **http thread** runs tokio with axum and rmcp: the MCP tools and the web
  monitor. It sends a `Request` through a calloop channel and awaits a oneshot
  reply.
* **X11 reader threads** (one of the window manager, one of the ping observer)
  turn X11 traffic into events of the main loop.
* **Processes**: the clients, XWayland, `dbus-daemon`, `at-spi-bus-launcher`,
  and, with `desktop-mcp fork`, the parent that waits on a pipe.

### Inventory

| component | state | operations | what makes it correct |
|---|---|---|---|
| transition tracker (`src/tracker.rs`) | `waits` (one `Wait` per call that waits), `ping_states`, `x11_ping_support` | `start_wait`, `note_window_activity`, `note_window_closed`, `note_pong`, `note_x11_pong`, `tracker_tick`, `evaluate_waits`, `heartbeat`, `client_frozen` | "settled" means that each client concerned has processed the action; every call returns; a reply accounts for its own time only; frozen clients are found; nothing outlives its window |
| registry and focus (`src/comp.rs`) | `windows`, `next_window_id`, `space`, `focused_window`, the seat's focus | `register_window`, `unregister_window`, `focus_window_by_id`, `surface_associated`, `configure_*`, `commit` | registry and stack agree; the window called focused gets the keys; focus moves only when it should |
| input (`src/comp.rs`, `perform_action`) | `pointer_loc`, the seat's pointer and its implicit grab | click, mouse_down/up/move, scroll, type, key, focus | a press goes where the caller aimed, and the keyboard follows |
| launch (`src/mcp.rs`, `launch_app`) | none of its own: two steps of the http thread | spawn, request | a settled launch shows the application's window |
| request path (`src/mcp.rs` `perform`, `src/monitor.rs` `state_json`, `src/comp.rs` `handle_request`) | the channel, the oneshot | send, perform, refuse, wait or answer at once, client-side timeout | each request is performed at most once, in order, before its answer; every call returns, and in time |
| startup and fork (`src/main.rs`, `src/daemon.rs`) | phase, pipe, environment, XWayland, readiness channel | one phase after another, each may fail | the parent returns and tells the truth; what is reported is what runs |
| accessibility buses (`src/a11y.rs`) | child processes, environment | `spawn_buses`, drop | no process outlives the server |
| accessibility snapshot (`src/a11y.rs`, `src/mcp.rs` `render_result`) | none between calls | `snapshot`, `walk`, attaching trees to windows | bounded by nodes, depth and time; says where it was cut; a window gets its own tree |
| X11 ping observer (`src/x11ping.rs`) | an X11 connection | `supports_ping`, `send_ping`, `parse_pong` | a pong is matched with the ping it answers |
| keys (`src/keys.rs`) | a keymap table; the seat's locks | `for_char`, `for_name`, `parse_combo` | what is typed arrives as it was meant, modifiers are released |
| rendering, frame store (`src/render.rs`) | the last frame behind a mutex | `store`, `png`, captures | pixels; the lock must not hold up calls for ever |
| monitor (`src/monitor.rs`) | none | `frame.png`, `state.json` | read-only; `state.json` returns though it has no timeout |

### Behaviours that are hard

* *Interleaving on one thread.* Handlers are atomic, but a call stretches over
  many of them: its action, ticks, pongs, commits, other calls and time
  interleave in every order.
* *Answers that come late.* A pong may answer a ping sent before the call, or
  one of a window that is gone and whose X11 id has been given out again.
* *Deadlines* against rounds that never complete, clients that never answer,
  expectations (`expect_new_window`) that are never met.
* *State in two places*: registry and `space`, `focused_window` and the seat,
  the position of the pointer and the surface of its last motion.
* *A thread that is held up.* Round trips to the X server, rendering and the
  lock of the frame store block the compositor thread, while callers' own
  timeouts, deadlines of waits and new requests go on.
* *Partial failure*: a window without a surface, half-started buses, an X
  server that comes up late or not at all.

Every such spot is listed, with its line, under `hazards` in `PROJECT.json`.

## 2. The models

| module | models | checked by |
|---|---|---|
| `Tracker.tla` | the tracker, with the window and client events that feed it | five configurations, and through `Launch` |
| `TrackerProofs.tla` | theorems about `Tracker`: types, settled replies, id reuse, what replies list | TLAPS |
| `Transition.tla` | abstract specification: what a call that waits is promised | refined by `Tracker` |
| `TransitionProofs.tla` | theorem that `Tracker` implements `Transition` | TLAPS |
| `Desktop.tla` | registry, stack, focus, pointer, input tools | two configurations |
| `DesktopProofs.tla` | theorems about `Desktop`, and lemmas about its stack | TLAPS |
| `Launch.tla` | `launch_app`, composed with `Tracker` by EXTENDS | one configuration |
| `LaunchProofs.tla` | theorems about `Launch`, on top of those about `Tracker` and `Transition` | TLAPS |
| `Startup.tla` | startup, fork, buses | two configurations |
| `StartupProofs.tla` | theorems about `Startup` | TLAPS |
| `Service.tla` | abstract specification: what the server promises of a call | refined by `Calls` |
| `Calls.tla` | the request path with its timeouts and the compositor thread | one configuration |
| `CallsProofs.tla` | theorems about `Calls`, among them that it implements `Service` | TLAPS |
| `Keys.tla` | key mapping, combinations, the key events sent | through `MCTools` |
| `KeysProofs.tla` | theorems about `Keys` | TLAPS |
| `Accessibility.tla` | the walk of the trees and their attachment to windows | through `MCTools` |
| `AccessibilityProofs.tla` | theorems about `Accessibility` | TLAPS |
| `MCTools.tla` | small instances of `Keys` and `Accessibility` | one configuration |

`map` in `PROJECT.json` gives the lines each definition stands for.

### Tracker

Actions are handlers: `NewToplevel`, `MapX11`, `ToplevelDestroyed`,
`ClientDies`, `UnmapX11`, `Commit` are the events of `comp.rs`; `StartWait`,
`Pong`, `X11Pong`, `TimerTick`, `Heartbeat` are `start_wait`, `note_pong`,
`note_x11_pong`, the 50 ms and the 3 s timer. As in the code, `StartWait` ends
in a tick of *all* waits, and a tick and a pong end in `evaluate_waits`;
`TrackerTick` and `EvaluateWaits` are operators that those actions include.

* An `Option` is a set with at most one element. A `Wait` is a record (`wait[c]`
  for the call `c`), its `kind` standing for `expect_new_window`, `quiet_time`
  and `require_activity`, which only ever come in the three combinations of the
  `Tuning`s in `mcp.rs`. A request with `wait_ms = 0` is answered without a
  `Wait` and does not touch this state.
* *Time.* `Elapse` is a step of time. The deadline is the time left, the last
  activity the time since (saturated at the larger of the two thresholds it is
  compared with), the age of a ping saturates just above `FROZEN_AFTER`. No
  relation between the length of a step and the 50 ms tick is assumed: any
  number of ticks may fall between two steps of time, and any number of steps
  between two ticks.
* *Pings.* `outstanding[k]` is the entry of `ping_states`. A Wayland pong
  reaches `note_pong` only for the shell's one pending ping, so it carries no
  serial. X11 serials come from a global counter; the model tells apart only
  "new" from "still on its way", so a fresh serial is one that is not in `net`.
  Each window that had an X11 id leaves at most one serial in `net` there (a
  second ping waits for the answer to the first), so with more serials than
  windows `MaxSerial` never blocks a ping.
* *X11 support.* Whether the observer is connected is fixed (`Observer`): it is
  set up before the first X11 window can be mapped. Whether a window
  advertises `_NET_WM_PING` is chosen when it is mapped. The cache is filled
  where the code fills it, for every relevant window at each evaluation and
  heartbeat. Sending a ping is taken to succeed.
* *History.* `hist` and `replies` are read by properties only: which pings are
  older than a call, which clients have been heard since, how many rounds were
  started since the last relevant activity, and the replies of the step.

### Transition

What the caller of a tool may rely on, in the words of a caller: windows appear,
change and vanish; a call begins with what it knows then (`Begun`); what happens
to a window stirs the calls it concerns, makes an earlier asking of the clients
worthless to them and sets their quiet time back (`Stirs`); time passes (`Pass`);
the server may ask the clients and answer (`Proceed`). At that point all calls
whose time is up are answered, and any of those that have settled (`Settled`),
which are calls that were under way before this step:

* an interaction, if the clients were asked for it *in an earlier step* and
  nothing that concerns it has changed since; asking and answering in one step is
  only allowed where there is no client to be asked (`NobodyToAsk`);
* a launch, if moreover a window is open that was not before;
* a `wait`, if something has happened and then nothing for `QuietTime`;
* and each of them, if it is about a window whose client cannot be asked
  (`silent`, an X11 window without `_NET_WM_PING`), only after `Grace` without a
  change.

`Answer` fixes what the caller is told. There are no pings, rounds or pongs. When
a call that has settled is answered is left open, since it depends on them; that
it is answered at all is the business of the liveness properties.

`Promise` in `Tracker` is the mapping: `open` and `ever` are the registry and the
ids given out, a call is what its `Wait` has from the start (`Request`), `stirred`
is `has_activity`, `asked` says that a round was started since the last relevant
activity, `clock` is the deadline and the time since the last activity, `silent`
the windows that are not pinged, the answers are what the replies of the step say (`Told`). An event of
a window is `Appear`, `Vanish` or `Change`; `start_wait` is `Begin`; a pong and a
tick are `Go`; a heartbeat concerns no call.

### Desktop

`windows`, `space` (a sequence, topmost last), `focused`, and of the seat the
keyboard focus and the pointer's focus. `Focus(i, s, f)` is
`focus_window_by_id` in full: raise, look up the surface, set the keyboard
focus, and only then `focused_window`; a window without a surface is raised all
the same. Which window is told that it is activated is output that nothing here
reads back, and is left out. A surface is named by its
window, so `keyboard` and `pointer.on` may name a window that has closed; when
smithay drops such a focus is not decided by `src/`, so `DropDeadFocus` is a
step that may or may not be taken; `focus_changed` then sets `focused_window` to
none as well. Whether smithay's space keeps
override-redirect windows above the rest is a constant; the runs say that it
does, the proof holds for both.

Coordinates are abstracted to `covers`, the windows under the pointer, chosen
anew whenever the pointer or a window moves; several windows may cover it. The
pointer record `on / latest / held` is the implicit grab: while a button is
held, a motion changes `latest` but the button's events go to `on`. `input`
holds the events of the step just taken. `scroll` moves the pointer as
`mouse_move` does and needs no action of its own. A call that names an unknown
window fails before it changes anything and is no step.

### Launch

The http thread spawns the application (`Spawn`) and then sends the request
(`LaunchWait`). The compositor goes on in between (`Others` includes all actions
of `Tracker`, and other calls); the application may open windows as soon as it
is spawned, not before.

A window opened between `spawn` and the handling of the request counts as an old
one (`mcp.rs:652`): the call then waits for another until its deadline. The
model has this interleaving; the property states what it must not lead to.

### Startup

The main thread goes through the phases of `run_server`; a timeout is a step it
may take while the awaited event has not happened. Three waits have no timeout and
are phases of their own (`Waiting`), which only another program ends: the address
line of `dbus-daemon` (`a11y.rs:49`), the X11 handshake of `start_wm` and that of
the ping observer. `holders` are the processes with the write end of the readiness
pipe: `Inherited` is empty because the pipe is created with `O_CLOEXEC`. The
initial states are those of `desktop-mcp fork`, after `fork_daemon`, and of
`desktop-mcp run`, which has no parent and no pipe.

A failing server ends in three steps, in the order of the code. `report_failure`
writes its note and closes the pipe (`HttpFailed`, `main.rs:385,389,480-484`), so
that the parent may return from here on; `Unwind` drops the locals of `run_server`,
the buses among them, and the pipe of the failures that are not reported; `Exit` is
the return of `main`, which takes the other threads with it. Until then the http
thread goes on, and may yet bind its port. So a parent that exits with 1 says that
the server has given up, not that it is gone.

The log line for a server that returns (`main.rs:375-377`) is left out:
`axum::serve` is documented not to return.

### Calls and Service

`Calls` follows each call through the three places that know of it. The caller's
task (`stage`): `Send` is `perform` up to the await, `Receive`, `GiveUp` and
`TreesRead` are what it may wake up to. The `channel`. And the compositor
`thread`, which takes a request and performs its action (`TakeRequest`), refuses
it, answers at once or starts a wait (`Acts`), evaluates the waits on a timer
(`Tick`, `Evaluate`), renders (`RenderTick`, `Stored`), and may go down (`Gone`),
which drops the reply senders it owns. It is the main thread: with it the process
ends (`ProcessEnds`, which a signal may also cause at any time), and the clients of
the calls under way lose their connections. In between the http threads may still
see a dropped sender. `Views` are the monitor's requests: no wait and no timeout.

* A handler that may take time is cut in two, and time passes in it only as long
  as `stall` lasts: this is a round trip to the X server, a rendering, or the
  lock of the frame store, which `png` keeps while it encodes. `delay` of a call
  is the time it lost that way; properties are stated relative to it.
* *Time* is urgent: it passes only when nobody who could go on wants to
  (`CallersWait`, `ThreadWaits`). So "late" is always somebody's doing. A wait that
  is due is taken up at once; in the code it is taken up by the next tick of the
  50 ms timer (`main.rs:237-248`), so a real call may be one tick later than
  `Punctual` says.
* `evaluate_waits` reads the clock once (`tracker.rs:346`): `Evaluating` fixes the
  waits that are due, what becomes due afterwards is left to the next time.
* *Width.* `wait_ms + 30_000` is taken modulo `Width` (a release build) or panics
  (a debug build: the limit 0); the request has been sent by then.
* What makes a wait settle is `Tracker`'s business: here any wait may settle.

`Service` knows of a call only whether it is under way, how it ended, which
requests are queued and which performed, and that a server that goes down may take
queued requests and calls under way with it. `Promise` in `Calls` instantiates it
with `Status(c)` for the caller and `channel` for the queue.

### Keys

A call of `press_key` or `type_text` is a sequence of key events that
`perform_action` sends in its loops; `phase` says in which loop it is and `next`
in which round. `TypeText` and `PressKey` begin a call (with the parsing, whose
failure sends nothing), `TypeChar`, `ModDown`, `Tap` and `ModUp` are one round
each, `LoopEnds` goes on to the next loop and `Reply` ends the call. `held`,
`locks` and `got` are the client's side: the keys that are down and the locks that
are on, which both outlast the call, and the symbols it made of the events with the
same keymap.

* `KeyMapper` is `FirstPress`, `ForChar`, `ForName` and `Modifier`, for any
  `Layout` and any `KeyChar`. The client picks the symbol of a key by its `Level`,
  for the modifiers and locks that are on: key types differ (letters follow Caps
  Lock, the keypad Num Lock, Pause gives Break with Control), while the code takes
  every second level for one that shift selects (`keys.rs:44-50`).
* `KeysAssumption` has what the proofs need of the keymap and the `us` keymap
  satisfies: modifiers and locks yield no character, Return and Tab yield theirs,
  a symbol *that has a character* is on the plain level or on the one that shift
  selects, only the shift key has a name with "shift" that a combination can
  contain. Nothing is assumed of the levels of other symbols.
* The properties say what arrives in all cases: the symbol at the level the client
  selects. That it is the one asked for is claimed when no lock is on and shift
  selects its level. It is not after `press_key` of `Caps_Lock` or `Num_Lock`,
  since nothing in the code looks at the locks, nor for `Break` or `Sys_Rq`, which
  arrive as `Pause` and `Print`.
* `Trim` drops white space of any kind, as `str::trim` does: a part that is a
  blank, a tab or a newline is empty, and refused, as is the "+" that splits into
  two empty parts. `press_key` takes "a single character" (`mcp.rs:166`,
  `keys.rs:68`); these four are the ones it cannot press. `type_text` can.
* A combination is the sequence of the words between its "+". Upper and lower
  case are abstracted: of the spellings of a word, one or two stand for all.
* The loops run inside one handler, so nothing comes between two rounds. They are
  steps here since that is what the properties are about: what holds after each.

### Accessibility

`A11y::snapshot` asks the applications for one value after the other, over the
bus, while they go on; each answer is chosen when it is asked for (`Walk`,
`LoseChild`, `NextApp`, `NextFrame`). So a node is a place in the tree that is
read and not an object: an application may list an object twice, below itself, or
change its lists at any time. `stack` holds the calls of the recursive `walk` with
the child that comes next in each of them, `read` the nodes in the order they were
read, `budget` what the calls share by reference.

* `WalkChild` is one round of the loop over the children together with the call
  it makes, up to that call's own loop; `Truncate` is the end of a loop for want
  of budget, `LoseChild` a child that cannot be reached, `Return` the end of a
  call.
* `GiveUp` is the 4 s timeout, or an error of the registry: nothing is kept.
* A frame has a pid and a name, and belongs to a window of the compositor's
  snapshot or to none (`of`), which the code cannot see. `Attach` is the choice
  that `render_result` makes among the frames; it is a function of them and of
  the windows.
* Roles, states, extents and texts are data; an error in fetching one of them is
  passed over.

## 3. What is checked

| run | result | shows |
|---|---|---|
| `tracker_settle` | pass | `SettledOnlyWhenHeard`, `LastRoundQuiet`, `NothingInherited`, and that `Tracker` implements `Transition` (`ImplementsTransition`); types |
| `tracker_answer` | pass | `EveryCallAnswered`, `FreezeDetected` under the timers alone, for all three kinds of calls |
| `tracker_converge` | pass | `Converges` with clients that answer |
| `tracker_dead_client` | violation | finding 1 |
| `tracker_gap` | violation | finding 2 |
| `desktop_focus` | pass | `SpaceIsRegistry`, `FocusedHasKeyboard`, `FocusIsKept`, `AimedPressHits`, types |
| `desktop_click` | violation | finding 3 |
| `launch_settle` | pass | `SettledLaunchHasNewWindow`, `ReplyAccountsForWindows` and `ImplementsTransition` with two calls that overlap, types of the composition |
| `startup_fork` | pass | `ParentIsTruthful`, `DisplayAgrees`, types; `ParentReturns` if the helper programs answer |
| `startup_stray_bus` | violation | finding 4 |
| `calls_travel` | pass | `Punctual`, `GivesUpOnlyWhenStalled`, `EveryCallReturns` if no handler is held up for ever, and that `Calls` implements `Service` (`ImplementsService`); types |
| `tools_data` | pass | `ComboArrives`, `TextArrives`, `KeysReleased`, key event by key event; `SharesBudget`, `ReadsInOrder`, `CutIsTold`, `OwnTreeAttached`, answer by answer; types |

### Bounds

* `MaxId`, the windows opened in one behaviour: 1 to 3. Two are enough for a
  window to be known and another to be new, and for an X11 id to be reused; three
  for a focused window, one that takes over, and one between them in the stack.
* One Wayland client and one X11 id: the two kinds of key, with their different
  rules. Two calls where calls interact (`launch_settle`).
* `Timeouts` of 1 or 2 steps, `SettleGrace`, `QuietTime` and `FrozenAfter` of 0
  or 1: each is reached, and each is not reached, before the others.
* `MaxSerial = MaxId + 1`, so that it never bites.
* `ImplementsTransition` has two runs. `tracker_settle` has one call, but both kinds
  of clients, windows that cannot be asked and all kinds of calls; `launch_settle`
  has two calls that overlap, with one client and no grace.
* `Reachable`, the windows that may be under the pointer: two of three, so that
  they may overlap, and one that never does.

* `Calls`: two tool calls and a view, so that one is queued while another is
  served and a third waits; a wait shorter and one longer than the stall;
  `Width = 4`, so that the longer one overflows; `StallMax = 2`, more than
  `Grace`, so that a call is given up and performed afterwards.
* `Keys` in `MCTools`: a keymap of fourteen keys with the cases the code tells
  apart: two levels or one, a character that two keys produce, a symbol without a
  character, the modifiers; and of the key types those that the keys of the `us`
  keymap have: letters, keypad, Pause/Break and plain two levels, with both locks.
  Combinations of up to three words (two modifiers and a key, in any order, twice
  the same), texts of up to three characters (a shifted one between two plain
  ones), repetitions 0 to 2 (0 counts as 1). Any number of calls, one after the
  other, so that a lock is on for those that follow.
* `Accessibility` in `MCTools`: `MAX_NODES = 4` and `MAX_DEPTH = 2`, so that each
  cuts some tree before the other does, and a cut can fall on the root, on an inner
  node and below the last one; three children, so that one lies between two others;
  two frames, which are enough to compete for a window. The run has either key
  events or one snapshot: they share no state.

A `wait` of the model that is bounded in this way is the same code path as a
longer one: timers only ever compare with their thresholds.

### Fairness

`FairSpec` of `Tracker` assumes that the 50 ms and the 3 s timer fire and that
time passes: the timers re-arm themselves unconditionally (`main.rs:236-259`).
Nothing is assumed of clients. `ResponsiveSpec` (for `Converges` only) assumes
clients that answer pings, and no passing of time: what converges does so
without the deadline. `Converges` is stated for behaviours that are quiet from
some point on, without heartbeats too: a heartbeat pings clients that have
already answered the current round, and a round is complete only when all of its
clients have no ping unanswered at the same moment.

`FairSpec` of `Calls` assumes that the tasks of the callers run and that no
handler takes for ever (weak fairness; `stall` bounds what they take), and strong
fairness of taking a request, of the tracker's timer and of time: calloop serves
each of its ready sources in turn, so that a render timer that fires again and
again keeps neither the channel nor the other timer from being served. `Gone` and
`ProcessEnds` are not fair: the server may stay up. That no handler takes for ever
is an assumption and no merit of the code: the round trips to the X server have no
timeout.

`FairSpec` of `Startup` assumes that the main thread takes the steps that are its
own or have a timeout, and that the parent reads. This the code justifies. It
assumes besides that the phases in `Waiting` end (`OthersAnswer`): that
`dbus-daemon` writes its address line or closes its output, and that the X server
answers the handshakes of `start_wm` and `X11Ping::connect` or closes the
connection. The code has no timeout there; without the assumption the parent may
wait for ever, and `ParentReturns` fails.

### Findings

1. *A dead client is awaited* (`NoDeadClientAwaited`). A client that exits with
   a ping unanswered keeps its entry in `ping_states`; the round never completes
   and the call lasts until its deadline.
2. *A gap between two rounds* (`BothRoundsQuiet`). `round_dirty` is cleared when
   a round starts, so a change after one round and before the next is not seen:
   two rounds pass "without changes" although the UI changed between them. What
   does hold, and is proved, is `LastRoundQuiet`.
3. *Click at the current position* (`PressHitsWhatIsThere`). Without
   coordinates there is no pointer motion; the press goes to the surface of the
   last one, the keyboard focus to the window that is there now.
4. *A stray bus* (`NoStrayBus`). If `spawn_buses` fails half way, dropping the
   `Child` does not kill `dbus-daemon`.

Two more disagreements were met that no run is about. The header of `keys.rs`
(`keys.rs:1-3`) says that what is pressed is exactly what clients decode; `Break` and
`Sys_Rq`, and any letter after `press_key` of `Caps_Lock`, are decoded as something
else. `mcp.rs:166` takes any single character, but "+" and white space cannot be
pressed.

`PROJECT.json` quotes the line that each of them contradicts.

## 4. What is proved

The theorems hold for every value of the constants that the modules' assumptions
allow: any clients, X11 windows, calls, callers, thresholds and bounds.

| theorem | statement |
|---|---|
| `TypeCorrect` | `Spec => []TypeOK` of `Tracker` |
| `Invariance` | `Spec => []IInv` |
| `Heard` | `Spec => []SettledOnlyWhenHeard` |
| `Quiet` | `Spec => []LastRoundQuiet` |
| `Afresh` | `Spec => []NothingInherited` |
| `Accounting` | `Spec => []ReplyAccountsForWindows` |
| `Implementation` (`TransitionProofs`) | `Spec => ImplementsTransition`: `Tracker` implements `Transition` |
| `TypeSafe` | `Spec => []TypeOK` of `Desktop` |
| `StackSafe` | `Spec => []SpaceIsRegistry` |
| `FocusSafe` | `Spec => []FocusedHasKeyboard` |
| `PressSafe` | `Spec => []AimedPressHits` |
| `FocusKept` | `Spec => FocusIsKept` |
| `LaunchInvariance` | `LaunchSpec => []LaunchInv` |
| `LaunchShowsWindow` | `LaunchSpec => []SettledLaunchHasNewWindow` |
| `LaunchTypeCorrect`, `LaunchAccounting` | `LaunchTypeOK`, `ReplyAccountsForWindows` in the composition |
| `LaunchImplementation` | `LaunchSpec => ImplementsTransition` |
| `Truthful`, `Display`, `TypeCorrect`, `Invariance` | `ParentIsTruthful`, `DisplayAgrees`, `TypeOK` of `Startup`, and their invariant |
| `Punctuality`, `Patience`, `TypeCorrect`, `Invariance` | `Punctual`, `GivesUpOnlyWhenStalled`, `TypeOK` of `Calls`, and their invariant |
| `Implementation` (`CallsProofs`) | `Spec => ImplementsService`: `Calls` implements `Service` |
| `NoKeyStaysDown`, `CombosArrive`, `TextsArrive`, `KeysTypes`, `KeysInvariant` | `KeysReleased`, `ComboArrives`, `TextArrives`, `KeysTypeOK` of `Keys`, and their invariant |
| `BudgetIsShared`, `WalkedInOrder`, `CutsAreTold`, `OwnTreeIsAttached`, `SnapshotTypes`, `SnapshotInvariant` | `SharesBudget`, `ReadsInOrder`, `CutIsTold`, `OwnTreeAttached`, `SnapshotTypeOK` of `Accessibility`, and their invariant |

*The argument for `Heard`.* A reply is sent when the second quiet round ends,
but the first round may have joined pings that are older than the call. `IInv`
says, of each waiting call:

* `StaleInv`: a stale key (its ping is older than the call) still has that ping
  unanswered. So a stale ping cannot be sent anew, and when no ping of a key is
  unanswered the key is not stale.
* `RoundInv`: a running round contains the key of every relevant window known
  at the start that can be pinged; after a first completed round none of these
  keys is stale; and a key of such a round that is neither stale nor awaited has
  been heard.
* `CalmInv`: a running round that is not dirty began after the last relevant
  activity.

Windows that open later are not claimed: they are new, and their first commit is
activity. Ids are never reused (`IdsGiven`), so a window known at the start keeps
its owner; `NothingInherited` keeps an X11 window from becoming pingable, or
from losing a ping, behind the round's back. `EventInv` and `EvaluateInv` show
that events and evaluations keep these parts, and `NextInv` takes one action at
a time.

*The argument for `Accounting`.* `Accounts` says of a waiting call that its record
is, at every moment, the one it would have to report if it ended then:
`known_at_start` are ids from before the call and include all such windows that
are still open, and `closed` is exactly what has gone since. It depends on ids
growing (`IdsGiven`) and on every closing window being noted in every waiting
call; rounds, pongs and time leave it alone.

*The argument that `Tracker` implements `Transition`.* The invariants used are
those of the state that a step leads to: `LastRoundQuiet` makes a call that is
answered before its time settled in the sense of `Transition` (`EarlyIsSettled`; the
round that vouches for calm was started by an earlier step, unless there was no
client to ping, `NoTargets`), `SilentNeedsGrace` gives it the time of grace,
`ReplyAccountsForWindows` makes what it is told the `Answer` (`RepliesAreAnswers`).
The rest is a simulation. `NotesStir` shows that a note reaches exactly the calls
that the event concerns; `EvaluateProceeds`, that a pass over the waits is a
`Proceed`, if it is known for which calls the clients were asked in its course;
`TickProceeds`, that a tick asks them for the calls whose round it starts, and
`PongGoes`, that a pong asks them for none. `NextMaps` takes one action at a time.
`LaunchMaps` does the same for the composition, where a spawn is no step of
`Transition`.

*The argument for `Desktop`.* `DesktopInv` comes in layers, each kept with the
help of those before it. `RegistryInv`: ids are given out in order, and only open
windows have a surface or lie under the pointer. `StackInv`: the stack holds the
open windows, each once; the first lemmas prove what taking a window out, putting
it on top of its layer and looking under the pointer do to a stack of that kind,
place by place (`WithoutStack`, `OnTopStack`, `UnderOne`). `FocusAgrees`: at most one
window is focused, it has a surface and the keyboard; then a dead keyboard focus
can be dropped only when no window is focused, and closing a window that is not
focused leaves the focused one alone. `SeatInv` and `EventInv` add the seat and
the events of the step: a press that is aimed goes to the one window that
`Under` finds, which is open, has a surface, and hence takes the focus.
`FocusKept` is an action property: with `DesktopInv`, `NextKeepsFocus` goes
through the actions and finds who may take the focus away.

*The argument for `Launch`.* `TrackerInv` is the tracker's own invariant; the
lemmas of `TrackerProofs` are about its handlers and are
used as they are, since `Launch` takes the same steps. `KindInv` says that the
launcher's wait expects a new window as long as it lasts, `ReplyInv` that what it
settles with is not empty: such a wait cannot complete a round while all open
windows are known. `SettledLaunchHasNewWindow` then follows with `Accounted`.

*The argument for `Startup`.* `ReadyInv` ties what the http thread has said to
what it does, `PipeInv` the pipe to the phase of the server, `XInv` the
environment to the phase of the X server. The types are split in three
(`Flags`, `Enums`, `Subsets`) because no one prover does them together.

*The argument for `Calls`.* `Places` says that a request is in one place: queued
once and not performed yet, or in hand or waiting and performed; `Accounted`,
that whoever still listens without an answer is in one of them. `Clocks` is what
makes `Punctual` inductive: a request that is queued or in hand has lost all its
time to the compositor, and one that waits has used no more than what its wait
has not left. `Limited` gives the caller `Grace` more than that. The simulation of
`Service` follows from `Places` (the head of the channel was never performed) and
`Accounted` (a result comes of a performed request); the end of the process is a
loss of the queue and of the calls under way (`EndIsLoss`).

*The argument for `Keys`.* `HeldInv` says which keys are down in each round: of the
modifiers, the first `next - 1` while they go down, all of them while the key is
tapped, and those that are left while they go up in the reverse order. That the
taps leave the modifiers down needs `SaysShift`: a tap lets shift go, which a combination
that names shift must not have done (`TapKeyYields` says what a tap does to the keys
and to the client). A key that is itself a modifier is the exception, and all
that is claimed of it is that it does not stay down. `GotInv` gives what the client
has received after each tap. For texts `Arrived(n)`, which gives for each symbol
received the place of its character, is kept by one more character
(`ArrivesOneMore`), whether the keymap has it or not. `CallInv` ties the loops to
the call's own combination. What is assumed of the keymap enters in
`ForCharYields`: the key found for a character is no modifier and yields it.

*The argument for `Accessibility`.* The properties speak of what was read; a reader
of the code thinks of the recursion. `WalkInv` connects the two. `StackInv`: the
stack names nodes that were read, callers before those they called. `HangInv`: what
was read since a call began hangs below its node, from the children its loop has
passed; hence what lies between a node and the next of its children is the earlier
children and what is below them. `LoopInv`: a loop passes a child only when it was
read or could not be reached, unless it ends for want of budget, and then says so.
Both are about every call on the stack, not only the one that runs, and that is
what a call that returns needs. With `NodeInv`, which ties a cut to the budget, each
action keeps `WalkInv`, and `ReadsInOrder`, `CutIsTold` and `SharesBudget` are parts
of it. Nothing is assumed of the applications: trees without end, circles and lists
that change are among the answers. `OwnTreeAttached` holds of any frames, whatever
the walk; its proof goes through the four cases of `Attach`.

*Only model-checked:* all liveness properties (out of the prover's reach):
`EveryCallAnswered`, `FreezeDetected`, `Converges`, `EveryCallReturns`,
`ParentReturns`. Every invariant, refinement and action property that a passing run checks is
proved.

## 5. What is not modelled

* Pixels, titles, geometry, texts, JSON: no property is about them. Of the
  rendering only the time it takes is modelled. `frame.png` and the page of the
  monitor read the last frame.
* The insides of smithay, XWayland, atspi, tokio, axum and rmcp. Where `src/`
  depends on them they are modelled as their users see them.
* A connection of the ping observer that breaks later, so that pings cannot be
  sent (`tracker.rs:304`); XWayland exiting at run time. Both mean that the X
  server is gone, with all X11 windows.
* The window between a new window manager and `set_var` (`main.rs:315`): what
  smithay's reader thread does with the environment is not in `src/`.
* The removal of finished waits by index, highest first (`tracker.rs:405-424`):
  the model removes a set of calls.
* Other layouts than `us` (the code pins it): the theorems hold for any that
  satisfies `KeysAssumption`, and nothing is said of others. The words of a
  combination in every spelling.
* How long a walk takes: `GiveUp` may come at any moment. What a snapshot's 4 s mean
  for the call is in `Calls`.
* An http client that disconnects while its call is under way: the task then ends
  like one that gave up.

## 6. Plan

Done: `Tracker` with `Transition`, `Desktop`, `Startup`, `Launch`, `Calls` with
`Service`, `Keys`, `Accessibility`; theorems about all of them, for every safety
property that a passing run checks. Left, in this order:

1. `Calls` as a refinement of `Transition`, too: its waits settle at any time, so
   what a wait settles with would have to be carried along.
2. Sending an X11 ping that fails (`tracker.rs:304`), with the loss of the ping
   observer at run time.
3. The list of waits as a list, with its removal by index (`tracker.rs:405-424`).
