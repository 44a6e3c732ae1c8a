----------------------------- MODULE Transition -----------------------------
(***************************************************************************)
(* What a tool call that waits is promised, with nothing said of pings or  *)
(* rounds: it is answered once, when its transition has settled or its     *)
(* time is up, and the answer accounts for its own time only, whatever     *)
(* other calls are under way.  It has settled                              *)
(*   - for an interaction, if the server has asked the clients in an       *)
(*     earlier step and nothing that concerns the call has changed since,  *)
(*     or if there is no client to be asked;                               *)
(*   - for a launch, if moreover a window is open that was not before;     *)
(*   - for the `wait` tool, if something that concerns it has happened and *)
(*     nothing more for the quiet time;                                    *)
(* and if, should the call be about a window whose client cannot be asked, *)
(* nothing has happened for the time of grace.                             *)
(***************************************************************************)
EXTENDS Naturals

CONSTANTS
  Calls,      \* calls that may be under way at the same time
  Windows,    \* windows there may ever be
  Kinds,      \* the kinds of calls made
  Timeouts,   \* the time a call may be given
  QuietTime,  \* the quiet time of the `wait` tool
  Grace       \* the time of grace of silent windows

VARIABLES
  open,       \* the windows that are open
  ever,       \* the windows that are or were open
  silent,     \* the open windows whose client cannot be asked
  calls,      \* the calls under way, each with what it began with
  clock,      \* the time each has left, and the time nothing has concerned it
  stirred,    \* those that something has happened to that concerns them
  asked,      \* those the clients have been asked for since that happened last
  answers     \* the answers given by the step just taken

transitionVars == <<open, ever, silent, calls, clock, stirred, asked, answers>>

\* What a call began with: the windows that were open and those that had been.
Begun(kind, watch) == [kind |-> kind, watch |-> watch, known |-> open, before |-> ever]

\* A call is about every window, or about the watched one and all new ones.
About(r, i) == r.watch = {} \/ i \in r.watch \/ i \notin r.known

\* Time is told apart up to the longer of the two times.
Cap == IF QuietTime < Grace THEN Grace ELSE QuietTime

Init ==
  /\ open = {} /\ ever = {} /\ silent = {}
  /\ calls = <<>> /\ clock = <<>>
  /\ stirred = {} /\ asked = {}
  /\ answers = {}

-----------------------------------------------------------------------------
(* What happens to windows *)

\* The calls that are about one of the windows I.
Concerned(I) == {c \in DOMAIN calls : \E i \in I : About(calls[c], i)}

Stirs(I) ==
  /\ stirred' = stirred \cup Concerned(I)
  /\ asked' = asked \ Concerned(I)
  /\ clock' = [c \in DOMAIN clock |-> IF c \in Concerned(I)
                                      THEN [clock[c] EXCEPT !.quiet = 0] ELSE clock[c]]
  /\ answers' = {}
  /\ UNCHANGED calls

Appear(i) ==
  /\ i \notin ever
  /\ open' = open \cup {i}
  /\ ever' = ever \cup {i}
  /\ silent' \in {silent, silent \cup {i}}
  /\ Stirs({i})

Vanish(I) ==
  /\ I \subseteq open
  /\ open' = open \ I
  /\ silent' = silent \ I
  /\ UNCHANGED ever
  /\ Stirs(I)

Change(i) ==
  /\ i \in open
  /\ UNCHANGED <<open, ever, silent>>
  /\ Stirs({i})

-----------------------------------------------------------------------------
(* What happens to calls *)

Answer(c, r, out) ==
  [call |-> c, timedOut |-> out, new |-> open \ r.before,
   closed |-> {i \in ever : /\ i \in r.known \/ i \notin r.before
                            /\ About(r, i)
                            /\ i \notin open}]

\* Nobody can be asked about the windows the call is about.
NobodyToAsk(r) == \A i \in open \ silent : ~ About(r, i)

\* The calls of under that have settled, with those in A being asked for just now.
\* One that only begins has not.
Settled(under, A) ==
  {c \in DOMAIN under \cap DOMAIN calls :
     /\ IF under[c].kind = "wait" THEN c \in stirred /\ clock[c].quiet >= QuietTime
                                  ELSE c \in asked \/ (c \in A /\ NobodyToAsk(under[c]))
     /\ (\E i \in silent : About(under[c], i)) => clock[c].quiet >= Grace
     /\ under[c].kind = "launch" => ~ open \subseteq under[c].known}

\* For some of the calls under way the clients are asked.  Of the calls whose time
\* is up all are answered; of those that have settled, any.
Proceed(under, time) ==
  /\ UNCHANGED <<open, ever, silent>>
  /\ \E A \in SUBSET DOMAIN under : \E S \in SUBSET Settled(under, A) :
       LET due == {c \in DOMAIN under : time[c].left = 0}
           stay == DOMAIN under \ (due \cup S)
       IN  /\ calls' = [c \in stay |-> under[c]]
           /\ clock' = [c \in stay |-> time[c]]
           /\ stirred' = stirred \cap stay
           /\ asked' = (asked \cup A) \cap stay
           /\ answers' = {Answer(c, under[c], c \in due) : c \in due \cup S}

Go == Proceed(calls, clock)

\* The server looks after all its calls when a call begins.
Begin(c, kind, watch, t) ==
  LET under == DOMAIN calls \cup {c} IN
  /\ c \notin DOMAIN calls
  /\ Proceed([d \in under |-> IF d = c THEN Begun(kind, watch) ELSE calls[d]],
             [d \in under |-> IF d = c THEN [left |-> t, quiet |-> 0] ELSE clock[d]])

Later(m) == [left  |-> IF m.left > 0 THEN m.left - 1 ELSE 0,
             quiet |-> IF m.quiet < Cap THEN m.quiet + 1 ELSE m.quiet]

Pass ==
  /\ clock' = [c \in DOMAIN clock |-> Later(clock[c])]
  /\ answers' = {}
  /\ UNCHANGED <<open, ever, silent, calls, stirred, asked>>

\* What concerns no call.
Elsewhere ==
  answers' = {} /\ UNCHANGED <<open, ever, silent, calls, clock, stirred, asked>>

Next ==
  \/ Elsewhere \/ Pass \/ Go
  \/ \E i \in Windows : Appear(i) \/ Change(i)
  \/ \E I \in SUBSET Windows : Vanish(I)
  \/ \E c \in Calls, kind \in Kinds, t \in Timeouts :
       \E watch \in {{}} \cup {{i} : i \in Windows} : Begin(c, kind, watch, t)

Spec == Init /\ [][Next]_transitionVars
=============================================================================
