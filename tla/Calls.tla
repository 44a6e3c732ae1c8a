------------------------------- MODULE Calls -------------------------------
(***************************************************************************)
(* How a call travels: perform of src/mcp.rs (the tools) and state_json of *)
(* src/monitor.rs run as tasks of the http threads; each sends a Request   *)
(* through a channel to the compositor thread (handle_request of           *)
(* src/comp.rs, then the tracker) and awaits the oneshot reply.  A tool    *)
(* gives up after wait_ms + 30 s; the monitor waits as long as it takes.   *)
(*                                                                         *)
(* The compositor thread may be held up in any handler, by a round trip to *)
(* the X server, by rendering or by a lock: a handler is cut where time    *)
(* may pass.  What makes a transition settle is Tracker's business; here   *)
(* it may settle at any time.                                              *)
(***************************************************************************)
EXTENDS Naturals, Sequences

CONSTANTS
  Tools,       \* calls of MCP tools, each made once; a retry is another call
  Views,       \* requests for the monitor's state.json
  Timeouts,    \* the values wait_ms may have, in steps of time
  Grace,       \* the 30 s added to wait_ms
  ReadTime,    \* the 4 s an accessibility snapshot may take
  Width,       \* the number of values of a u64
  StallMax     \* bound: time the compositor thread is held up in a behaviour

Callers == Tools \cup Views

ASSUME CallsAssumption ==
  /\ Tools \cap Views = {}
  /\ Timeouts \subseteq 0..(Width - 1)
  /\ Grace \in Nat /\ ReadTime \in Nat /\ Width \in Nat \ {0} /\ StallMax \in Nat

VARIABLES
  stage,      \* where the task of a caller is: see Stages
  waitMs,     \* wait_ms of a call
  limit,      \* the time after which a tool gives up
  age,        \* the time a call has taken
  reading,    \* the time its accessibility snapshot has taken
  outcome,    \* what the call returned
  channel,    \* requests on their way to the compositor
  thread,     \* what the compositor thread is doing: see Doing
  subject,    \* the request it acts on, or the waits it found due
  waits,      \* calls that have a Wait
  remaining,  \* the time to the deadline of that Wait
  answer,     \* what the oneshot of a call holds
  performed,  \* requests whose action has been injected
  stall,      \* how long the thread may still be held up
  delay       \* how long it was held up while the call lasted

callerVars == <<stage, waitMs, limit, age, reading, outcome>>
threadVars == <<thread, subject, waits, remaining, performed>>
clockVars == <<stall, delay>>
vars == <<callerVars, channel, threadVars, answer, clockVars>>

Stages == {"idle", "awaiting", "reading", "done"}
Doing == {"idle", "acting", "evaluating", "rendering", "gone", "exited"}
Down == thread \in {"gone", "exited"}

Answers == {"none", "settled", "timedOut", "refused", "dropped"}
Outcomes == {"none", "state", "refused", "gaveUp", "gone"}

-----------------------------------------------------------------------------
(* The tasks of the callers *)

\* Mutant: the time the client is given is the time the UI is given.
WaitOnly(w) == {w}

\* wait_ms + 30_000: a release build wraps, a debug build panics there and then.
Limits(w) == IF w + Grace < Width THEN {w + Grace} ELSE {0, (w + Grace) % Width}

Timeout(c) == IF c \in Views THEN {0} ELSE Timeouts

\* The request is sent before the time to wait is computed.  Nobody takes it once
\* the compositor is down, and nobody accepts the call once the process is.
Send(c) ==
  /\ stage[c] = "idle"
  /\ IF Down
     THEN /\ stage' = [stage EXCEPT ![c] = "done"]
          /\ outcome' = [outcome EXCEPT ![c] = "gone"]
          /\ UNCHANGED <<waitMs, limit, channel>>
     ELSE /\ stage' = [stage EXCEPT ![c] = "awaiting"]
          /\ channel' = Append(channel, c)
          /\ \E w \in Timeout(c) : \E l \in Limits(w) :
               waitMs' = [waitMs EXCEPT ![c] = w] /\ limit' = [limit EXCEPT ![c] = l]
          /\ UNCHANGED outcome
  /\ UNCHANGED <<age, reading, threadVars, answer, clockVars>>

Ended(c, o) ==
  /\ stage' = [stage EXCEPT ![c] = "done"]
  /\ outcome' = [outcome EXCEPT ![c] = o]

\* A state may be completed with the accessibility trees; errors end the call.
Receive(c) ==
  /\ stage[c] = "awaiting"
  /\ answer[c] # "none"
  /\ \/ answer[c] = "refused" /\ Ended(c, "refused")
     \/ answer[c] = "dropped" /\ Ended(c, "gone")
     \/ answer[c] \in {"settled", "timedOut"} /\ Ended(c, "state")
     \/ /\ answer[c] \in {"settled", "timedOut"} /\ c \in Tools
        /\ stage' = [stage EXCEPT ![c] = "reading"]
        /\ UNCHANGED outcome
  /\ UNCHANGED <<waitMs, limit, age, reading, channel, threadVars, answer, clockVars>>

\* Mutant: a tool sends its action again instead of giving up.
Retry(c) ==
  /\ stage[c] = "awaiting"
  /\ c \in Tools
  /\ answer[c] = "none"
  /\ age[c] >= limit[c]
  /\ channel' = Append(channel, c)
  /\ UNCHANGED <<callerVars, threadVars, answer, clockVars>>

\* tokio::time::timeout looks at the reply first.
GiveUp(c) ==
  /\ stage[c] = "awaiting"
  /\ c \in Tools
  /\ answer[c] = "none"
  /\ age[c] >= limit[c]
  /\ Ended(c, "gaveUp")
  /\ UNCHANGED <<waitMs, limit, age, reading, channel, threadVars, answer, clockVars>>

\* a11y.snapshot ends by itself or by its timeout; either way there is a state.
TreesRead(c) ==
  /\ stage[c] = "reading"
  /\ Ended(c, "state")
  /\ UNCHANGED <<waitMs, limit, age, reading, channel, threadVars, answer, clockVars>>

-----------------------------------------------------------------------------
(* The compositor thread *)

\* The channel source: perform_action begins.
TakeRequest ==
  /\ thread = "idle"
  /\ channel # <<>>
  /\ thread' = "acting"
  /\ subject' = {Head(channel)}
  /\ performed' = performed \cup {Head(channel)}
  /\ channel' = Tail(channel)
  /\ UNCHANGED <<callerVars, waits, remaining, answer, clockVars>>

Reply(C, a) == answer' = [c \in Callers |-> IF c \in C THEN a ELSE answer[c]]

\* perform_action returned an error; observing cannot fail.
Refuse ==
  /\ thread = "acting"
  /\ subject \subseteq Tools
  /\ Reply(subject, "refused")
  /\ thread' = "idle" /\ subject' = {}
  /\ UNCHANGED <<callerVars, channel, waits, remaining, performed, clockVars>>

\* timeout_ms = 0
ReplyAtOnce ==
  /\ thread = "acting"
  /\ \A c \in subject : waitMs[c] = 0
  /\ Reply(subject, "settled")
  /\ thread' = "idle" /\ subject' = {}
  /\ UNCHANGED <<callerVars, channel, waits, remaining, performed, clockVars>>

Due(W, left) == {c \in W : left[c] = 0}

\* evaluate_waits reads the clock once, before anything that may take time.
Evaluating(W, left) == thread' = "evaluating" /\ subject' = Due(W, left)

\* Mutant: the UI is given the time the client is given.
DeadlineOfClient(c) == limit[c]

Deadline(c) == waitMs[c]

\* start_wait, which ends in an evaluation of all waits.
StartWait ==
  /\ thread = "acting"
  /\ \A c \in subject : waitMs[c] > 0
  /\ waits' = waits \cup subject
  /\ remaining' = [c \in Callers |-> IF c \in subject THEN Deadline(c) ELSE remaining[c]]
  /\ Evaluating(waits', remaining')
  /\ UNCHANGED <<callerVars, channel, performed, answer, clockVars>>

\* The 50 ms timer, a pong.
Tick ==
  /\ thread = "idle"
  /\ waits # {}
  /\ Evaluating(waits, remaining)
  /\ UNCHANGED <<callerVars, channel, waits, remaining, performed, answer, clockVars>>

\* The rest of evaluate_waits: what was due is answered, the rest may settle.
\* reply.send does not care whether the caller still listens.
Evaluate ==
  /\ thread = "evaluating"
  /\ \E settled \in SUBSET (waits \ subject) :
       /\ answer' = [c \in Callers |-> IF c \in subject THEN "timedOut"
                                       ELSE IF c \in settled THEN "settled"
                                       ELSE answer[c]]
       /\ waits' = waits \ (subject \cup settled)
  /\ remaining' = [c \in Callers |-> IF c \in waits' THEN remaining[c] ELSE 0]
  /\ thread' = "idle" /\ subject' = {}
  /\ UNCHANGED <<callerVars, channel, performed, clockVars>>

\* The 33 ms timer.  Storing the frame waits for the monitor to be done with the
\* last one: FrameStore::png keeps the lock while it encodes.
RenderTick ==
  /\ thread = "idle"
  /\ thread' = "rendering"
  /\ UNCHANGED <<callerVars, channel, subject, waits, remaining, performed, answer, clockVars>>

\* Mutant: the monitor keeps the frame locked while it awaits its state.
StoredUnlessViewed ==
  /\ thread = "rendering"
  /\ \A v \in Views : stage[v] # "awaiting"
  /\ thread' = "idle"
  /\ UNCHANGED <<callerVars, channel, subject, waits, remaining, performed, answer, clockVars>>

Stored ==
  /\ thread = "rendering"
  /\ thread' = "idle"
  /\ UNCHANGED <<callerVars, channel, subject, waits, remaining, performed, answer, clockVars>>

Unanswered(c) == stage[c] = "awaiting" /\ answer[c] = "none"

Orphans == {c \in Callers : Unanswered(c)}

\* What the compositor thread owns is dropped.
Dropped ==
  /\ subject' = {}
  /\ channel' = <<>>
  /\ waits' = {} /\ remaining' = [c \in Callers |-> 0]

\* The event loop fails or panics: the reply senders in the channel and in the
\* waits are dropped, which the http threads may yet see.
Gone ==
  /\ ~Down
  /\ thread' = "gone"
  /\ Dropped
  /\ Reply(Orphans, "dropped")
  /\ UNCHANGED <<callerVars, performed, clockVars>>

Under(c) == stage[c] \in {"awaiting", "reading"}

\* The compositor thread is the main thread: with its end, or by a signal, the
\* process ends, and the clients of the calls under way lose their connection.
ProcessEnds ==
  /\ thread # "exited"
  /\ thread' = "exited"
  /\ Dropped
  /\ stage' = [c \in Callers |-> IF Under(c) THEN "done" ELSE stage[c]]
  /\ outcome' = [c \in Callers |-> IF Under(c) THEN "gone" ELSE outcome[c]]
  /\ UNCHANGED <<waitMs, limit, age, reading, performed, answer, clockVars>>

-----------------------------------------------------------------------------
(* Time *)

Busy == thread \in {"acting", "evaluating", "rendering"}

\* Mutant: an accessibility snapshot has no timeout.
CallersWaitForTrees ==
  \A c \in Callers : /\ stage[c] = "awaiting" => answer[c] = "none"
                     /\ stage[c] = "awaiting" /\ c \in Tools => age[c] < limit[c]

\* Nobody who can go on lets time pass: the callers, unless they have to wait,
\* and the compositor thread, unless it is held up in a handler.
CallersWait ==
  \A c \in Callers : /\ stage[c] = "awaiting" => answer[c] = "none"
                     /\ stage[c] = "awaiting" /\ c \in Tools => age[c] < limit[c]
                     /\ stage[c] = "reading" => reading[c] < ReadTime

\* (A wait that is due is taken up before time passes; in the code it may wait for
\* the next tick of the 50 ms timer, main.rs:237-248, which time here does not
\* resolve.)
ThreadWaits == /\ thread = "idle" => channel = <<>> /\ Due(waits, remaining) = {}
               /\ Busy => stall > 0

\* Time is of interest while a call or a wait is under way.
Elapse ==
  /\ CallersWait /\ ThreadWaits
  /\ waits # {} \/ \E c \in Callers : Under(c)
  /\ age' = [c \in Callers |-> IF Under(c) THEN age[c] + 1 ELSE age[c]]
  /\ reading' = [c \in Callers |-> IF stage[c] = "reading" THEN reading[c] + 1 ELSE reading[c]]
  /\ remaining' = [c \in Callers |-> IF c \in waits /\ remaining[c] > 0
                                     THEN remaining[c] - 1 ELSE remaining[c]]
  /\ stall' = IF Busy THEN stall - 1 ELSE stall
  /\ delay' = [c \in Callers |-> IF Busy /\ Under(c) THEN delay[c] + 1 ELSE delay[c]]
  /\ UNCHANGED <<stage, waitMs, limit, outcome, channel, thread, subject, waits,
                 answer, performed>>

-----------------------------------------------------------------------------
Init ==
  /\ stage = [c \in Callers |-> "idle"]
  /\ waitMs = [c \in Callers |-> 0]
  /\ limit = [c \in Callers |-> 0]
  /\ age = [c \in Callers |-> 0]
  /\ reading = [c \in Callers |-> 0]
  /\ outcome = [c \in Callers |-> "none"]
  /\ channel = <<>>
  /\ thread = "idle" /\ subject = {}
  /\ waits = {}
  /\ remaining = [c \in Callers |-> 0]
  /\ answer = [c \in Callers |-> "none"]
  /\ performed = {}
  /\ stall = StallMax
  /\ delay = [c \in Callers |-> 0]

CallerStep(c) == Receive(c) \/ GiveUp(c) \/ TreesRead(c)

Acts == Refuse \/ ReplyAtOnce \/ StartWait

Next ==
  \/ \E c \in Callers : Send(c) \/ CallerStep(c)
  \/ TakeRequest \/ Acts \/ Tick \/ Evaluate \/ RenderTick \/ Stored
  \/ Gone \/ ProcessEnds
  \/ Elapse

Spec == Init /\ [][Next]_vars

\* The tasks run, no handler is held up for ever, and the event loop serves each
\* of its sources in turn: a timer that fires again and again keeps neither the
\* channel from being read nor time from passing.
FairSpec ==
  /\ Spec
  /\ \A c \in Callers : WF_vars(CallerStep(c))
  /\ WF_vars(Acts) /\ WF_vars(Evaluate) /\ WF_vars(Stored)
  /\ SF_vars(TakeRequest) /\ SF_vars(Tick) /\ SF_vars(Elapse)

-----------------------------------------------------------------------------
(* Properties *)

\* The variables keep the shape the Rust types give them.
TypeOK ==
  /\ stage \in [Callers -> Stages]
  /\ waitMs \in [Callers -> Nat]
  /\ limit \in [Callers -> Nat]
  /\ age \in [Callers -> Nat]
  /\ reading \in [Callers -> 0..ReadTime]
  /\ outcome \in [Callers -> Outcomes]
  /\ channel \in Seq(Callers)
  /\ thread \in Doing
  /\ subject \in SUBSET Callers
  /\ waits \in SUBSET Callers
  /\ remaining \in [Callers -> Nat]
  /\ answer \in [Callers -> Answers]
  /\ performed \in SUBSET Callers
  /\ stall \in 0..StallMax
  /\ delay \in [Callers -> Nat]

\* README.md:111-113, evaluate_waits: a call takes no longer than its wait_ms and
\* the accessibility snapshot, but for the time the compositor was held up,
\* however many calls are queued or waiting.
Punctual == \A c \in Callers : age[c] <= waitMs[c] + delay[c] + reading[c]

\* mcp.rs:302-303: a tool gives up only on a compositor that was held up for
\* all of the grace time while the call lasted, or when wait_ms + 30_000
\* does not fit its type.
GivesUpOnlyWhenStalled ==
  \A c \in Callers :
    outcome[c] = "gaveUp" => delay[c] >= Grace \/ waitMs[c] + Grace >= Width

Status(c) == IF stage[c] = "idle" THEN "idle"
             ELSE IF stage[c] # "done" THEN "called"
             ELSE IF outcome[c] \in {"gaveUp", "gone"} THEN "error"
             ELSE outcome[c]

Promise == INSTANCE Service WITH status <- [c \in Callers |-> Status(c)], queue <- channel

\* ipc.rs:1-3: requests are performed at most once and in the order they were
\* sent, before a result is returned; a call that failed may yet be performed.
ImplementsService == Promise!Spec

\* Every call returns, the monitor's as well, though it has no timeout: what is
\* queued is taken up, waits end at their deadline, a compositor that goes down
\* takes the reply senders with it, and a process that ends its connections.
EveryCallReturns == \A c \in Callers : stage[c] = "awaiting" ~> stage[c] = "done"
=============================================================================
