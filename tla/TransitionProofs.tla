-------------------------- MODULE TransitionProofs --------------------------
(***************************************************************************)
(* Tracker implements Transition.  The steps are matched under the mapping *)
(* of Promise: an event of a window is Appear, Vanish or Change; a pong, a *)
(* tick and the start of a wait are Go and Begin, and the clients asked    *)
(* are those of the rounds started; a heartbeat concerns no call.          *)
(*                                                                         *)
(* That the clients were asked in an earlier step is what a round owes: of *)
(* one that starts in this step each target has a ping out (SendPings), so *)
(* it ends the wait only if it has no targets, that is, if all windows the *)
(* call is about are silent.                                               *)
(*                                                                         *)
(* What an answer may say has been proved of the replies of a step already *)
(* (LastRoundQuiet, ReplyAccountsForWindows): the proof uses both of the   *)
(* state that the step leads to.                                           *)
(***************************************************************************)
EXTENDS TrackerProofs

\* What is known of every state.
Known == TypeOK /\ IInv /\ LastRoundQuiet /\ ReplyAccountsForWindows

\* The mapping of Promise, by name.
Requests == [c \in pending |-> Request(wait[c], hist[c])]
Clocks == [c \in pending |-> Clock(wait[c])]
Stirred == {c \in pending : wait[c].active}
Asked == {c \in pending : hist[c].calm >= 1}
ToldNow == {Told(r) : r \in replies}

\* A call is about the same windows on both sides.
LEMMA AboutIsRelevant ==
  ASSUME NEW w, NEW h, NEW i
  PROVE  Promise!About(Request(w, h), i) <=> Relevant(w, i)
  BY DEF Promise!About, Request, Relevant

\* The request of a call does not change while it waits.
LEMMA SameRequest ==
  ASSUME NEW w, NEW v, NEW h, NEW g,
         v.kind = w.kind, v.watch = w.watch, v.known = w.known, g.firstId = h.firstId
  PROVE  Request(v, g) = Request(w, h)
  BY DEF Request

-----------------------------------------------------------------------------
(* Windows whose clients cannot be asked *)

\* The windows that stay keep their clients, and whether these can be asked.
Steady(I) ==
  \A i \in Ids \ I, k \in Keys : windows[i] = {k} => (Pingable(k)' <=> Pingable(k))

\* Probing a client tells what was told before, only faster.
LEMMA ProbedSteady ==
  ASSUME TypeOK, NEW X, support' = Probed(X), advert' = advert
  PROVE  \A k \in Keys : Pingable(k)' <=> Pingable(k)
<1>1. ASSUME NEW x \in XWins PROVE SupportsPing(x)' <=> SupportsPing(x)
  <2>1. SupportsPing(x) \in BOOLEAN
    BY ConstantsAssumption DEF SupportsPing, TypeOK
  <2>2. CASE x \in X
    <3>1. support'[x] = {SupportsPing(x)}
      BY <2>2 DEF Probed
    <3>2. SupportsPing(x)' <=> support'[x] = {TRUE}
      BY <3>1 DEF SupportsPing
    <3>3. CASE SupportsPing(x) = TRUE
      BY <3>1, <3>2, <3>3
    <3>4. CASE SupportsPing(x) = FALSE
      BY <3>1, <3>2, <3>4
    <3> QED BY <2>1, <3>3, <3>4
  <2>3. CASE x \notin X
    <3>1. support'[x] = support[x]
      BY <2>3 DEF Probed
    <3> QED BY <3>1 DEF SupportsPing
  <2> QED BY <2>2, <2>3
<1> QED BY <1>1 DEF Pingable, Keys

\* An unchanged cache tells what it told.
LEMMA SameSteady ==
  ASSUME support' = support, advert' = advert
  PROVE  \A k \in Keys : Pingable(k)' <=> Pingable(k)
  BY DEF Pingable, SupportsPing

\* A window whose clients cannot be asked is open.
LEMMA SilentIsOpen == Silent \subseteq Open
  BY DEF Silent, Open

\* If windows stay as they are, so do the silent ones.
LEMMA SilentSame ==
  ASSUME windows' = windows, \A k \in Keys : Pingable(k)' <=> Pingable(k)
  PROVE  Silent' = Silent
  BY DEF Silent

-----------------------------------------------------------------------------
(* Events of windows *)

\* A note of activity, or of a window that closed, stirs the calls it concerns.
LEMMA NotesStir ==
  ASSUME TypeOK, NEW I, pending' = pending, replies' = {},
         \A c \in pending : /\ wait'[c] \in {NoteActivity(wait[c], I), NoteClosed(wait[c], I)}
                            /\ hist'[c].calm = Ruffled(I)[c].calm
                            /\ hist'[c].firstId = hist[c].firstId
  PROVE  Promise!Stirs(I)
<1> DEFINE D == {c \in pending : \E i \in I : Relevant(wait[c], i)}
<1>1. ASSUME NEW c \in pending
      PROVE  /\ Request(wait'[c], hist'[c]) = Request(wait[c], hist[c])
             /\ Clock(wait'[c]) = IF c \in D THEN [Clock(wait[c]) EXCEPT !.quiet = 0]
                                             ELSE Clock(wait[c])
             /\ wait'[c].active <=> wait[c].active \/ c \in D
             /\ hist'[c].calm >= 1 <=> hist[c].calm >= 1 /\ c \notin D
  <2>1. c \in Calls /\ wait[c] \in WaitRec /\ hist[c] \in HistRec
    BY DEF TypeOK
  <2>2. CASE c \in D
    <3>1. /\ wait'[c].kind = wait[c].kind /\ wait'[c].watch = wait[c].watch
          /\ wait'[c].known = wait[c].known /\ wait'[c].left = wait[c].left
          /\ wait'[c].active /\ wait'[c].quiet = 0
      BY <2>1, <2>2 DEF NoteActivity, NoteClosed, Touched, Gone, WaitRec
    <3>2. hist'[c].calm = 0
      BY <2>1, <2>2 DEF Ruffled, Disturbed, HistRec
    <3>3. Clock(wait'[c]) = [Clock(wait[c]) EXCEPT !.quiet = 0]
      BY <3>1 DEF Clock
    <3> QED BY <2>2, <3>1, <3>2, <3>3, SameRequest
  <2>3. CASE c \notin D
    <3>1. wait'[c] = wait[c]
      BY <2>3 DEF NoteActivity, NoteClosed
    <3>2. hist'[c].calm = hist[c].calm
      BY <2>1, <2>3 DEF Ruffled, Disturbed
    <3> QED BY <2>3, <3>1, <3>2, SameRequest
  <2> QED BY <2>2, <2>3
<1>2. /\ Requests' = Requests
      /\ Clocks' = [c \in DOMAIN Clocks |-> IF c \in D THEN [Clocks[c] EXCEPT !.quiet = 0]
                                                    ELSE Clocks[c]]
  <2> HIDE DEF D
  <2>1. Requests' = Requests
    BY <1>1 DEF Requests
  <2>2. Clocks' = [c \in pending |-> IF c \in D THEN [Clocks[c] EXCEPT !.quiet = 0]
                                                ELSE Clocks[c]]
    BY <1>1 DEF Clocks
  <2>3. DOMAIN Clocks = pending
    BY DEF Clocks
  <2> QED BY <2>1, <2>2, <2>3
<1>3. Promise!Concerned(I) = D
  <2>1. DOMAIN Requests = pending
    BY DEF Requests
  <2>2. \A c \in pending : \A i : Promise!About(Requests[c], i) <=> Relevant(wait[c], i)
    BY AboutIsRelevant DEF Requests
  <2>3. Promise!Concerned(I) = {c \in DOMAIN Requests : \E i \in I : Promise!About(Requests[c], i)}
    BY DEF Promise!Concerned, Requests
  <2> QED BY <2>1, <2>2, <2>3
<1>4. Stirred' = Stirred \cup D
  BY <1>1 DEF Stirred
<1>5. Asked' = Asked \ D
  BY <1>1 DEF Asked
<1>6. ToldNow' = {}
  BY DEF ToldNow
<1> HIDE DEF D
<1> QED BY <1>2, <1>3, <1>4, <1>5, <1>6
        DEF Promise!Stirs, Requests, Clocks, Stirred, Asked, ToldNow

\* A window that opens appears.
LEMMA RegisterAppears ==
  ASSUME TypeOK, IInv, NEW k \in Keys, Register(k), Steady({})
  PROVE  \E i \in Ids : Promise!Appear(i)
<1>1. PICK n \in Ids : n = nextId
  BY DEF Register
<1>2. /\ nextId' = n + 1
      /\ windows' = [windows EXCEPT ![n] = {k}]
      /\ wait' = ToldActivity({n}) /\ hist' = Ruffled({n})
      /\ replies' = {} /\ pending' = pending
  BY <1>1 DEF Register
<1>3. windows \in [Ids -> Option(Keys)] /\ pending \subseteq Calls
  BY DEF TypeOK
<1>4. Open' = Open \cup {n}
  BY <1>2, <1>3 DEF Open
<1>5. /\ n \notin 1..(nextId - 1)
      /\ 1..(nextId' - 1) = (1..(nextId - 1)) \cup {n}
  BY <1>1, <1>2 DEF Ids
<1>6. ASSUME NEW c \in pending
      PROVE  /\ wait'[c] \in {NoteActivity(wait[c], {n}), NoteClosed(wait[c], {n})}
             /\ hist'[c].calm = Ruffled({n})[c].calm
             /\ hist'[c].firstId = hist[c].firstId
  BY <1>2, <1>3, RuffledStart DEF ToldActivity
<1>7. Promise!Stirs({n})
  BY <1>2, <1>6, NotesStir
<1>8. Silent' \in {Silent, Silent \cup {n}}
  <2>1. windows[n] = {}
    BY <1>1 DEF IInv, IdsGiven, Open
  <2>2. ASSUME NEW i \in Ids, i # n PROVE i \in Silent' <=> i \in Silent
    <3>1. windows'[i] = windows[i]
      BY <1>2, <1>3, <2>2
    <3> QED BY <3>1 DEF Steady, Silent
  <2>3. n \notin Silent
    BY <2>1 DEF Silent
  <2>4. Silent \subseteq Ids /\ Silent' \subseteq Ids
    BY DEF Silent
  <2> QED BY <2>2, <2>3, <2>4
<1>9. Promise!Appear(n)
  BY <1>4, <1>5, <1>7, <1>8 DEF Promise!Appear
<1> QED BY <1>9

\* Windows that close vanish.
LEMMA UnregisterVanishes ==
  ASSUME TypeOK, NEW I, I \subseteq Open, Unregister(I), Steady(I),
         \A c \in pending : /\ hist'[c].calm = Ruffled(I)[c].calm
                            /\ hist'[c].firstId = hist[c].firstId
  PROVE  \E J \in SUBSET Ids : Promise!Vanish(J)
<1>1. /\ windows' = [i \in Ids |-> IF i \in I THEN {} ELSE windows[i]]
      /\ wait' = ToldClosed(I)
      /\ replies' = {} /\ pending' = pending /\ nextId' = nextId
  BY DEF Unregister
<1>2. Open' = Open \ I
  BY <1>1 DEF Open
<1>3. pending \subseteq Calls
  BY DEF TypeOK
<1>4. Promise!Stirs(I)
  BY <1>1, <1>3, NotesStir DEF ToldClosed
<1>5. Silent' = Silent \ I
  <2>1. ASSUME NEW i \in Ids PROVE i \in Silent' <=> i \in Silent /\ i \notin I
    <3>1. CASE i \in I
      <4>1. windows'[i] = {}
        BY <1>1, <3>1
      <4> QED BY <3>1, <4>1 DEF Silent
    <3>2. CASE i \notin I
      <4>1. windows'[i] = windows[i]
        BY <1>1, <3>2
      <4> QED BY <3>2, <4>1 DEF Steady, Silent
    <3> QED BY <3>1, <3>2
  <2>2. Silent \subseteq Ids /\ Silent' \subseteq Ids
    BY DEF Silent
  <2> QED BY <2>1, <2>2
<1>6. Promise!Vanish(I)
  BY <1>1, <1>2, <1>4, <1>5 DEF Promise!Vanish
<1> QED BY <1>6 DEF Open

-----------------------------------------------------------------------------
(* evaluate_waits *)

\* A call that is answered before its time is up has settled in the sense of
\* Transition.
LEMMA EarlyIsSettled ==
  ASSUME NEW P \in SUBSET Calls, NEW ws \in [Calls -> WaitRec], NEW hs, NEW out,
         EvaluateWaits(P, ws, hs, out), LastRoundQuiet',
         NEW c \in P, Finishes(ws[c], out), ws[c].left # 0
  PROVE  /\ ws[c].kind = "wait" => ws[c].active /\ ws[c].quiet >= QuietTime
         /\ ws[c].kind # "wait" => hs[c].calm >= 1
         /\ ws[c].kind = "launch" => ~ Open \subseteq ws[c].known
         /\ GraceNeeded(ws[c]) => ws[c].quiet >= SettleGrace
         /\ \A k \in ws[c].round : out[k] = {}
         /\ ws[c].active \/ ws[c].quietRounds # 0
<1> DEFINE w == ws[c]
           r == ReplyTo(c, w, hs[c], out)
<1>1. /\ RoundComplete(w, out) /\ IsSettled(w)
      /\ GraceNeeded(w) => w.quiet >= SettleGrace
  BY DEF Finishes
<1>2. w.kind = "wait" => w.active /\ w.quiet >= QuietTime
  BY <1>1 DEF IsSettled
<1>3. w.kind = "launch" => ~ Open \subseteq w.known
  BY <1>1 DEF RoundComplete, Expecting
<1>4. ASSUME w.kind # "wait" PROVE hs[c].calm >= 1
  <2>1. r \in replies'
    BY DEF EvaluateWaits
  <2>2. ~ r.timedOut /\ r.hist = hs[c]
    BY DEF ReplyTo
  <2>3. w \in WaitRec /\ r.wait = Evaluated(w, out)
    BY DEF ReplyTo
  <2>4. r.wait.kind # "wait"
    BY <1>4, <2>3, EvaluatedFields
  <2> HIDE DEF r
  <2> QED BY <2>1, <2>2, <2>4 DEF LastRoundQuiet, SettledReplies
<1>5. \A k \in w.round : out[k] = {}
  BY <1>1 DEF RoundComplete
<1>6. w.active \/ w.quietRounds # 0
  <2>1. w.kind # "wait" => QuietRounds(w) >= 2
    BY <1>1 DEF IsSettled, QUIET_ROUNDS
  <2> QED BY <1>2, <2>1 DEF QuietRounds, QUIET_ROUNDS
<1> QED BY <1>1, <1>2, <1>3, <1>4, <1>5, <1>6

\* A call about a silent window has to wait for the grace time.
LEMMA SilentNeedsGrace ==
  ASSUME NEW w, NEW i \in Silent, Relevant(w, i)
  PROVE  GraceNeeded(w)
<1>1. PICK k \in Keys : windows[i] = {k} /\ ~Pingable(k)
  BY DEF Silent
<1>2. i \in WindowsOf(k)
  BY <1>1 DEF Silent, WindowsOf
<1>3. k \in RelevantKeys(w)
  BY <1>2 DEF RelevantKeys
<1> QED BY <1>1, <1>3 DEF GraceNeeded

\* A round without targets leaves nobody to ask.
LEMMA NoTargets ==
  ASSUME TypeOK, NEW w, Targets(w) = {}, NEW i \in Open \ Silent
  PROVE  ~Relevant(w, i)
<1>1. i \in Ids /\ windows[i] \in Option(Keys) /\ windows[i] # {}
  BY DEF TypeOK, Open
<1>2. PICK k \in Keys : windows[i] = {k}
  BY <1>1 DEF Option
<1>3. Pingable(k) /\ i \in WindowsOf(k)
  BY <1>1, <1>2 DEF Silent, WindowsOf
<1> QED BY <1>3 DEF Targets, RelevantKeys

\* What the caller is told is what Transition has it told.
LEMMA RepliesAreAnswers ==
  ASSUME NEW P \in SUBSET Calls, NEW ws \in [Calls -> WaitRec], NEW hs \in [Calls -> HistRec],
         NEW out, EvaluateWaits(P, ws, hs, out), UNCHANGED <<windows, nextId>>,
         TypeOK, ReplyAccountsForWindows',
         NEW c \in P, Finishes(ws[c], out)
  PROVE  Told(ReplyTo(c, ws[c], hs[c], out))
           = Promise!Answer(c, Request(ws[c], hs[c]), ws[c].left = 0)
<1> DEFINE w == ws[c]
           h == hs[c]
           r == ReplyTo(c, w, h, out)
           q == Request(w, h)
<1>1. r \in replies' /\ w \in WaitRec /\ h \in HistRec
  BY DEF EvaluateWaits
<1>2. /\ r.call = c /\ r.timedOut = (w.left = 0) /\ r.hist = h
      /\ r.wait = Evaluated(w, out)
  BY DEF ReplyTo
<1>3. r.wait.watch = w.watch /\ r.wait.known = w.known
  BY <1>1, <1>2, EvaluatedFields
<1>4. Open' = Open /\ nextId' = nextId
  BY DEF Open
<1> HIDE DEF r
<1>5. /\ r.new = {i \in Open : i >= h.firstId}
      /\ r.wait.closed = {i \in 1..(nextId - 1) :
                            /\ i \in r.wait.known \/ i >= h.firstId
                            /\ Relevant(r.wait, i)
                            /\ i \notin Open}
  BY <1>1, <1>2, <1>4 DEF ReplyAccountsForWindows
<1>6. q.known = w.known /\ q.before = 1..(h.firstId - 1)
  BY DEF Request
<1>7. h.firstId \in Nat \ {0} /\ nextId \in Nat
  BY <1>1, ConstantsAssumption DEF HistRec, TypeOK
<1>8. \A i \in Nat \ {0} : i \notin q.before <=> i >= h.firstId
  BY <1>6, <1>7
<1>9. \A i : Promise!About(q, i) <=> Relevant(r.wait, i)
  BY <1>3, AboutIsRelevant DEF Relevant
<1> HIDE DEF q, w, h
<1>10. r.new = Open \ q.before
  BY <1>5, <1>8 DEF Open, Ids
<1>11. r.wait.closed = {i \in 1..(nextId - 1) : /\ i \in q.known \/ i \notin q.before
                                                /\ Promise!About(q, i)
                                                /\ i \notin Open}
  BY <1>3, <1>5, <1>6, <1>7, <1>8, <1>9
<1>12. Told(r) = Promise!Answer(c, q, w.left = 0)
  BY <1>2, <1>10, <1>11 DEF Told, Promise!Answer
<1> QED BY <1>12 DEF r, q, w, h

\* Proceed under the mapping of Promise, for arguments that are not constants.
SettledCalls(under, A) ==
  {c \in DOMAIN under \cap DOMAIN Requests :
     /\ IF under[c].kind = "wait" THEN c \in Stirred /\ Clocks[c].quiet >= QuietTime
        ELSE \/ c \in Asked
             \/ c \in A /\ \A i \in Open \ Silent : ~ Promise!About(under[c], i)
     /\ (\E i \in Silent : Promise!About(under[c], i)) => Clocks[c].quiet >= SettleGrace
     /\ under[c].kind = "launch" => ~ Open \subseteq under[c].known}

Proceeds(under, time) ==
  /\ UNCHANGED <<Open, 1..(nextId - 1), Silent>>
  /\ \E A \in SUBSET DOMAIN under : \E S \in SUBSET SettledCalls(under, A) :
       LET due == {c \in DOMAIN under : time[c].left = 0}
           stay == DOMAIN under \ (due \cup S)
       IN  /\ Requests' = [c \in stay |-> under[c]]
           /\ Clocks' = [c \in stay |-> time[c]]
           /\ Stirred' = Stirred \cap stay
           /\ Asked' = (Asked \cup A) \cap stay
           /\ ToldNow' = {Promise!Answer(c, under[c], c \in due) : c \in due \cup S}

\* Go is one,
LEMMA GoProceeds == Promise!Go <=> Proceeds(Requests, Clocks)
  BY DEF Promise!Go, Promise!Proceed, Promise!Settled, Promise!NobodyToAsk,
         Proceeds, SettledCalls, Requests, Clocks, Stirred, Asked, ToldNow

\* and so is Begin.
LEMMA BeginProceeds ==
  ASSUME NEW c, NEW kind, NEW watch, NEW t, c \notin pending,
         NEW under, NEW time,
         under = [b \in pending \cup {c} |->
                    IF b = c THEN Promise!Begun(kind, watch) ELSE Requests[b]],
         time = [b \in pending \cup {c} |->
                   IF b = c THEN [left |-> t, quiet |-> 0] ELSE Clocks[b]],
         Proceeds(under, time)
  PROVE  Promise!Begin(c, kind, watch, t)
<1>1. DOMAIN Requests = pending
  BY DEF Requests
<1>2. Proceeds([b \in DOMAIN Requests \cup {c} |->
                  IF b = c THEN Promise!Begun(kind, watch) ELSE Requests[b]],
               [b \in DOMAIN Requests \cup {c} |->
                  IF b = c THEN [left |-> t, quiet |-> 0] ELSE Clocks[b]])
  BY <1>1
<1> QED
  BY <1>1, <1>2
  DEF Promise!Begin, Promise!Proceed, Promise!Settled, Promise!NobodyToAsk,
      Proceeds, SettledCalls, Requests, Clocks, Stirred, Asked, ToldNow

\* The waits P with their history as a handler leaves them for the evaluation, with
\* rounds just started for the calls A: such a round is over only if it had nobody
\* to ask, and a call that has just begun has no rounds behind it.
Prepared(P, ws, hs, A, out) ==
  /\ P \in SUBSET Calls /\ A \in SUBSET P
  /\ ws \in [Calls -> WaitRec] /\ hs \in [Calls -> HistRec]
  /\ \A c \in P : ws[c].active <=> c \in Stirred
  /\ \A c \in P : hs[c].calm >= 1 <=> c \in Asked \cup A
  /\ \A c \in A : (\A k \in ws[c].round : out[k] = {}) => Targets(ws[c]) = {}
  /\ \A c \in P \cap pending : ws[c].quiet = wait[c].quiet
  /\ \A c \in P \ pending : ~ws[c].active /\ ws[c].quietRounds = 0

\* The evaluation of waits so prepared is a Proceed that asks for the calls A.
LEMMA EvaluateProceeds ==
  ASSUME TypeOK, LastRoundQuiet', ReplyAccountsForWindows',
         NEW P, NEW ws, NEW hs, NEW A, NEW out, Prepared(P, ws, hs, A, out),
         EvaluateWaits(P, ws, hs, out), UNCHANGED <<windows, nextId, advert>>,
         NEW under, under = [c \in P |-> Request(ws[c], hs[c])],
         NEW time, time = [c \in P |-> Clock(ws[c])]
  PROVE  Proceeds(under, time)
<1> DEFINE due == {c \in DOMAIN under : time[c].left = 0}
           F == {c \in P : Finishes(ws[c], out)}
           S == F \cap SettledCalls(under, A)
           stay == P \ F
<1>0. /\ P \in SUBSET Calls /\ A \in SUBSET P
      /\ ws \in [Calls -> WaitRec] /\ hs \in [Calls -> HistRec]
      /\ \A c \in P : ws[c].active <=> c \in Stirred
      /\ \A c \in P : hs[c].calm >= 1 <=> c \in Asked \cup A
      /\ \A c \in A : (\A k \in ws[c].round : out[k] = {}) => Targets(ws[c]) = {}
      /\ \A c \in P \cap pending : ws[c].quiet = wait[c].quiet
      /\ \A c \in P \ pending : ~ws[c].active /\ ws[c].quietRounds = 0
  BY DEF Prepared
<1>1. /\ DOMAIN under = P /\ DOMAIN Requests = pending
      /\ \A c \in P : under[c] = Request(ws[c], hs[c]) /\ time[c] = Clock(ws[c])
      /\ \A c \in P : time[c].left = ws[c].left
      /\ \A c \in pending : Clocks[c].quiet = wait[c].quiet
  BY DEF Requests, Clocks, Clock
<1>2. \A c \in P : under[c].kind = ws[c].kind /\ under[c].known = ws[c].known
  BY <1>1 DEF Request
<1>3. due \cup S = F
  <2>1. due \subseteq F
    BY <1>1 DEF Finishes
  <2>2. ASSUME NEW c \in F, c \notin due PROVE c \in SettledCalls(under, A)
    <3>1. c \in P /\ ws[c].left # 0
      BY <1>1, <2>2
    <3>2. /\ ws[c].kind = "wait" => ws[c].active /\ ws[c].quiet >= QuietTime
          /\ ws[c].kind # "wait" => hs[c].calm >= 1
          /\ ws[c].kind = "launch" => ~ Open \subseteq ws[c].known
          /\ GraceNeeded(ws[c]) => ws[c].quiet >= SettleGrace
          /\ \A k \in ws[c].round : out[k] = {}
          /\ ws[c].active \/ ws[c].quietRounds # 0
      BY <1>0, <3>1, EarlyIsSettled
    <3>3. c \in pending /\ Clocks[c].quiet = ws[c].quiet
      BY <1>0, <1>1, <3>1, <3>2
    <3>4. \A i : Promise!About(under[c], i) <=> Relevant(ws[c], i)
      BY <1>1, <3>1, AboutIsRelevant
    <3>5. (\E i \in Silent : Promise!About(under[c], i)) => Clocks[c].quiet >= SettleGrace
      BY <3>2, <3>3, <3>4, SilentNeedsGrace
    <3>6. c \in A => \A i \in Open \ Silent : ~ Promise!About(under[c], i)
      BY <1>0, <3>2, <3>4, NoTargets
    <3>7. IF under[c].kind = "wait" THEN c \in Stirred /\ Clocks[c].quiet >= QuietTime
          ELSE \/ c \in Asked
               \/ c \in A /\ \A i \in Open \ Silent : ~ Promise!About(under[c], i)
      BY <1>0, <1>2, <3>1, <3>2, <3>3, <3>6
    <3>8. under[c].kind = "launch" => ~ Open \subseteq under[c].known
      BY <1>2, <3>1, <3>2
    <3>9. c \in DOMAIN under \cap DOMAIN Requests
      BY <1>1, <3>1, <3>3
    <3> QED BY <3>5, <3>7, <3>8, <3>9 DEF SettledCalls
  <2> HIDE DEF due, F
  <2> QED BY <2>1, <2>2
<1>4. ASSUME NEW c \in stay
      PROVE  /\ c \in pending'
             /\ Request(wait'[c], hist'[c]) = under[c]
             /\ Clock(wait'[c]) = time[c]
             /\ wait'[c].active <=> c \in Stirred
             /\ hist'[c].calm >= 1 <=> c \in Asked \cup A
  <2>1. c \in P /\ c \in Calls /\ ws[c] \in WaitRec
    BY <1>0
  <2>2. wait'[c] = Evaluated(ws[c], out) /\ hist'[c] = hs[c] /\ c \in pending'
    BY <2>1 DEF EvaluateWaits
  <2>3. /\ wait'[c].kind = ws[c].kind /\ wait'[c].watch = ws[c].watch
        /\ wait'[c].known = ws[c].known
    BY <2>1, <2>2, EvaluatedFields
  <2>4. /\ wait'[c].left = ws[c].left /\ wait'[c].active = ws[c].active
        /\ wait'[c].quiet = ws[c].quiet
    BY <2>1, <2>2 DEF Evaluated, WaitRec
  <2>5. Request(wait'[c], hist'[c]) = Request(ws[c], hs[c])
    BY <2>2, <2>3, SameRequest
  <2>6. Clock(wait'[c]) = Clock(ws[c])
    BY <2>4 DEF Clock
  <2> QED BY <1>0, <1>1, <2>1, <2>2, <2>4, <2>5, <2>6
<1>5. pending' = stay
  BY DEF EvaluateWaits
<1>6. ASSUME NEW c \in F
      PROVE  Told(ReplyTo(c, ws[c], hs[c], out)) = Promise!Answer(c, under[c], c \in due)
  <2>1. (c \in due) = (ws[c].left = 0)
    BY <1>1
  <2>2. under[c] = Request(ws[c], hs[c])
    BY <1>1
  <2>3. Told(ReplyTo(c, ws[c], hs[c], out))
          = Promise!Answer(c, Request(ws[c], hs[c]), ws[c].left = 0)
    BY <1>0, RepliesAreAnswers
  <2> QED BY <2>1, <2>2, <2>3
<1>7. ToldNow' = {Promise!Answer(c, under[c], c \in due) : c \in F}
  <2>1. replies' = {ReplyTo(c, ws[c], hs[c], out) : c \in F}
    BY DEF EvaluateWaits
  <2> HIDE DEF F, due
  <2>2. ToldNow' = {Told(ReplyTo(c, ws[c], hs[c], out)) : c \in F}
    BY <2>1 DEF ToldNow
  <2> QED BY <1>6, <2>2
<1>8. Requests' = [c \in stay |-> under[c]] /\ Clocks' = [c \in stay |-> time[c]]
  BY <1>4, <1>5 DEF Requests, Clocks
<1>9. Stirred' = Stirred \cap stay /\ Asked' = (Asked \cup A) \cap stay
  BY <1>4, <1>5 DEF Stirred, Asked
<1>10. UNCHANGED <<Open, 1..(nextId - 1), Silent>>
  <2>1. PICK X : support' = Probed(X)
    BY DEF EvaluateWaits
  <2>2. \A k \in Keys : Pingable(k)' <=> Pingable(k)
    BY <2>1, ProbedSteady
  <2>3. Silent' = Silent
    BY <2>2, SilentSame
  <2>4. Open' = Open /\ nextId' = nextId
    BY DEF Open
  <2> QED BY <2>3, <2>4
<1>11. /\ S \in SUBSET SettledCalls(under, A) /\ A \in SUBSET DOMAIN under
       /\ stay = DOMAIN under \ (due \cup S)
  BY <1>0, <1>1, <1>3
<1>12. ToldNow' = {Promise!Answer(c, under[c], c \in due) : c \in due \cup S}
  BY <1>3, <1>7
<1> HIDE DEF F, S, stay
<1>13. \E B \in SUBSET DOMAIN under : \E T \in SUBSET SettledCalls(under, B) :
         LET on == DOMAIN under \ (due \cup T)
         IN  /\ Requests' = [c \in on |-> under[c]]
             /\ Clocks' = [c \in on |-> time[c]]
             /\ Stirred' = Stirred \cap on
             /\ Asked' = (Asked \cup B) \cap on
             /\ ToldNow' = {Promise!Answer(c, under[c], c \in due) : c \in due \cup T}
  <2> HIDE DEF due
  <2> QED BY <1>8, <1>9, <1>11, <1>12, ZenonT(60)
<1> QED BY <1>10, <1>13 DEF Proceeds

\* So is tracker_tick: the clients are asked for the calls whose round it starts.
LEMMA TickProceeds ==
  ASSUME TypeOK, LastRoundQuiet', ReplyAccountsForWindows',
         NEW P \in SUBSET Calls, NEW ws \in [Calls -> WaitRec], NEW hs \in [Calls -> HistRec],
         TrackerTick(P, ws, hs), UNCHANGED <<windows, nextId, advert>>,
         \A c \in P : ws[c].active <=> c \in Stirred,
         \A c \in P : hs[c].calm >= 1 <=> c \in Asked,
         \A c \in P \cap pending : ws[c].quiet = wait[c].quiet,
         \A c \in P \ pending : ~ws[c].active /\ ws[c].quietRounds = 0,
         NEW under, under = [c \in P |-> Request(ws[c], hs[c])],
         NEW time, time = [c \in P |-> Clock(ws[c])]
  PROVE  Proceeds(under, time)
<1> DEFINE S == RoundStarts(P, ws)
           out == Pinged(UNION {Targets(ws[c]) : c \in S})
           started == [c \in Calls |-> IF c \in P THEN Started(ws[c]) ELSE ws[c]]
           calmer == Calmer(hs, S)
<1>1. EvaluateWaits(P, started, calmer, out)
  BY DEF TrackerTick
<1>2. started \in [Calls -> WaitRec]
  BY StartedType
<1>3. S \in SUBSET P
  BY DEF RoundStarts
<1>7. calmer \in [Calls -> HistRec]
  <2> HIDE DEF S
  <2> QED BY CalmerType
<1>4. ASSUME NEW c \in P
      PROVE  /\ Request(started[c], calmer[c]) = Request(ws[c], hs[c])
             /\ Clock(started[c]) = Clock(ws[c])
             /\ started[c].active = ws[c].active
             /\ started[c].quiet = ws[c].quiet
             /\ started[c].quietRounds = ws[c].quietRounds
             /\ calmer[c].calm >= 1 <=> c \in Asked \cup S
  <2>1. c \in Calls /\ ws[c] \in WaitRec /\ hs[c] \in HistRec /\ started[c] = Started(ws[c])
    OBVIOUS
  <2> HIDE DEF started, S
  <2>2. /\ started[c].kind = ws[c].kind /\ started[c].watch = ws[c].watch
        /\ started[c].known = ws[c].known /\ started[c].quietRounds = ws[c].quietRounds
    BY <2>1, StartedFields
  <2>3. /\ started[c].left = ws[c].left /\ started[c].active = ws[c].active
        /\ started[c].quiet = ws[c].quiet
    BY <2>1 DEF Started, WaitRec
  <2>4. calmer[c].firstId = hs[c].firstId
    BY <2>1 DEF Calmer, HistRec
  <2>5. Request(started[c], calmer[c]) = Request(ws[c], hs[c])
    BY <2>2, <2>4, SameRequest
  <2>6. calmer[c].calm >= 1 <=> c \in Asked \cup S
    BY <2>1, CalmerFields
  <2>7. Clock(started[c]) = Clock(ws[c])
    BY <2>3 DEF Clock
  <2> QED BY <2>2, <2>3, <2>5, <2>6, <2>7
\* Each target of a round that starts now has a ping out.
<1>8. ASSUME NEW c \in S, \A k \in started[c].round : out[k] = {}
      PROVE  Targets(started[c]) = {}
  <2>1. c \in P /\ c \in Calls /\ Starts(ws[c]) /\ started[c] = Started(ws[c])
    BY DEF RoundStarts
  <2>2. ws[c] \in WaitRec
    BY <2>1
  <2>3. /\ started[c].round = Targets(ws[c])
        /\ started[c].watch = ws[c].watch /\ started[c].known = ws[c].known
    BY <2>1, <2>2, StartedFields
  <2>4. SendPings(UNION {Targets(ws[b]) : b \in S})
    BY DEF TrackerTick
  <2>5. \A k \in Targets(ws[c]) : out[k] # {}
    <3>1. ASSUME NEW k \in Targets(ws[c]) PROVE out[k] # {}
      <4>1. k \in UNION {Targets(ws[b]) : b \in S} /\ k \in Keys
        BY DEF Targets, RelevantKeys
      <4>2. FreshSerial(k) # {}
        BY <2>4, <4>1 DEF SendPings
      <4> HIDE DEF S
      <4> QED BY <4>1, <4>2 DEF Pinged
    <3> QED BY <3>1
  <2>6. Targets(ws[c]) = {}
    BY <1>8, <2>3, <2>5
  <2> HIDE DEF started
  <2>7. Targets(started[c]) = Targets(ws[c])
    BY <2>3 DEF Targets, RelevantKeys, Relevant
  <2> QED BY <2>6, <2>7
<1> HIDE DEF S, out, started, calmer
<1>5. /\ under = [c \in P |-> Request(started[c], calmer[c])]
      /\ time = [c \in P |-> Clock(started[c])]
  BY <1>4
<1>6. \A c \in P : started[c].active <=> c \in Stirred
  BY <1>4
<1>9. /\ \A c \in P \cap pending : started[c].quiet = wait[c].quiet
      /\ \A c \in P \ pending : ~started[c].active /\ started[c].quietRounds = 0
  BY <1>4
<1>10. \A c \in P : calmer[c].calm >= 1 <=> c \in Asked \cup S
  BY <1>4
<1>11. PICK v, g, o, A : v = started /\ g = calmer /\ o = out /\ A = S
  OBVIOUS
<1>12. /\ EvaluateWaits(P, v, g, o)
       /\ v \in [Calls -> WaitRec] /\ g \in [Calls -> HistRec] /\ A \in SUBSET P
  BY <1>1, <1>2, <1>3, <1>7, <1>11
<1>13. /\ under = [c \in P |-> Request(v[c], g[c])]
       /\ time = [c \in P |-> Clock(v[c])]
  BY <1>5, <1>11
<1>14. /\ \A c \in P : v[c].active <=> c \in Stirred
       /\ \A c \in P : g[c].calm >= 1 <=> c \in Asked \cup A
       /\ \A c \in A : (\A k \in v[c].round : o[k] = {}) => Targets(v[c]) = {}
       /\ \A c \in P \cap pending : v[c].quiet = wait[c].quiet
       /\ \A c \in P \ pending : ~v[c].active /\ v[c].quietRounds = 0
  <2>1. \A c \in P : v[c].active <=> c \in Stirred
    BY <1>6, <1>11
  <2>2. \A c \in P : g[c].calm >= 1 <=> c \in Asked \cup A
    BY <1>10, <1>11
  <2>3. \A c \in A : (\A k \in v[c].round : o[k] = {}) => Targets(v[c]) = {}
    <3>1. \A c \in S : (\A k \in started[c].round : out[k] = {}) => Targets(started[c]) = {}
      BY <1>8
    <3> QED BY <1>11, <3>1
  <2>4. /\ \A c \in P \cap pending : v[c].quiet = wait[c].quiet
        /\ \A c \in P \ pending : ~v[c].active /\ v[c].quietRounds = 0
    BY <1>9, <1>11
  <2> QED BY <2>1, <2>2, <2>3, <2>4
<1>15. Prepared(P, v, g, A, o)
  BY <1>12, <1>14 DEF Prepared
<1> QED BY <1>12, <1>13, <1>15, EvaluateProceeds

-----------------------------------------------------------------------------
(* The steps of calls *)

\* A tick of the timer is a Go.
LEMMA TimerGoes ==
  ASSUME TypeOK, LastRoundQuiet', ReplyAccountsForWindows', TimerTick
  PROVE  Promise!Go
<1>1. /\ pending \in SUBSET Calls
      /\ wait \in [Calls -> WaitRec] /\ hist \in [Calls -> HistRec]
  BY DEF TypeOK
<1>2. TrackerTick(pending, wait, hist) /\ UNCHANGED <<windows, nextId, advert>>
  BY DEF TimerTick
<1>3. /\ Requests = [c \in pending |-> Request(wait[c], hist[c])]
      /\ Clocks = [c \in pending |-> Clock(wait[c])]
      /\ \A c \in pending : wait[c].active <=> c \in Stirred
      /\ \A c \in pending : hist[c].calm >= 1 <=> c \in Asked
  BY DEF Requests, Clocks, Stirred, Asked
<1> QED BY <1>1, <1>2, <1>3, TickProceeds, GoProceeds

\* A pong is one, for it does not touch what Transition knows of a call.
LEMMA PongGoes ==
  ASSUME TypeOK, LastRoundQuiet', ReplyAccountsForWindows',
         NEW hs \in [Calls -> HistRec], NEW out,
         \A c \in pending : hs[c].calm = hist[c].calm /\ hs[c].firstId = hist[c].firstId,
         EvaluateWaits(pending, wait, hs, out), UNCHANGED <<windows, nextId, advert>>
  PROVE  Promise!Go
<1>1. pending \in SUBSET Calls /\ wait \in [Calls -> WaitRec]
  BY DEF TypeOK
<1>2. /\ Requests = [c \in pending |-> Request(wait[c], hs[c])]
      /\ Clocks = [c \in pending |-> Clock(wait[c])]
  BY SameRequest DEF Requests, Clocks
<1>3. \A c \in pending : wait[c].active <=> c \in Stirred
  BY DEF Stirred
<1>4. \A c \in pending : hs[c].calm >= 1 <=> c \in Asked \cup {}
  BY DEF Asked
<1>5. Prepared(pending, wait, hs, {}, out)
  BY <1>1, <1>3, <1>4 DEF Prepared
<1> QED BY <1>2, <1>5, EvaluateProceeds, GoProceeds

\* A pong leaves the calm of a call and its start.
LEMMA AnsweredFields ==
  ASSUME TypeOK, NEW k \in Keys, NEW c \in Calls
  PROVE  /\ Answered(hist, k)[c].calm = hist[c].calm
         /\ Answered(hist, k)[c].firstId = hist[c].firstId
<1>1. hist[c] \in HistRec
  BY DEF TypeOK
<1> QED BY <1>1 DEF Answered, HistRec

\* A call that starts to wait begins.
LEMMA StartBegins ==
  ASSUME TypeOK, LastRoundQuiet', ReplyAccountsForWindows',
         NEW c \in Calls, NEW kind \in AllKinds, NEW watch \in SUBSET Ids, NEW t \in Nat,
         StartWait(c, kind, watch, t)
  PROVE  Promise!Begin(c, kind, watch, t)
<1> DEFINE w == NewWait(kind, watch, Open, t)
           h == [NoHist EXCEPT !.stale = {k \in Keys : outstanding[k] # {}},
                               !.firstId = nextId]
           ws == [wait EXCEPT ![c] = w]
           hs == [hist EXCEPT ![c] = h]
           P == pending \cup {c}
<1>1. w \in WaitRec
  BY NewWaitType DEF Open
<1>2. h \in HistRec /\ h.firstId = nextId /\ h.calm = 0
  BY NoHistType DEF HistRec, TypeOK, NoHist
<1>3. TrackerTick(P, ws, hs) /\ UNCHANGED <<windows, nextId, advert>> /\ c \notin pending
  BY DEF StartWait
<1>4. /\ Request(w, h) = Promise!Begun(kind, watch)
      /\ ~ w.active /\ w.quietRounds = 0
      /\ Clock(w) = [left |-> t, quiet |-> 0]
  BY <1>2 DEF Request, NewWait, Promise!Begun, Clock
<1> HIDE DEF w, h
<1>5. /\ ws \in [Calls -> WaitRec] /\ hs \in [Calls -> HistRec]
      /\ P \in SUBSET Calls
      /\ ws[c] = w /\ hs[c] = h
      /\ \A b \in pending : ws[b] = wait[b] /\ hs[b] = hist[b]
  BY <1>1, <1>2, <1>3 DEF TypeOK
<1> HIDE DEF ws, hs
<1>6. /\ \A b \in P : ws[b].active <=> b \in Stirred
      /\ \A b \in P : hs[b].calm >= 1 <=> b \in Asked
  BY <1>2, <1>3, <1>4, <1>5 DEF Stirred, Asked
<1>7. PICK under, time :
        /\ under = [b \in P |-> IF b = c THEN Promise!Begun(kind, watch) ELSE Requests[b]]
        /\ time = [b \in P |-> IF b = c THEN [left |-> t, quiet |-> 0] ELSE Clocks[b]]
  OBVIOUS
<1>8. under = [b \in P |-> Request(ws[b], hs[b])]
  BY <1>3, <1>4, <1>5, <1>7 DEF Requests
<1>9. time = [b \in P |-> Clock(ws[b])]
  BY <1>3, <1>4, <1>5, <1>7 DEF Clocks
<1>10. /\ \A b \in P \cap pending : ws[b].quiet = wait[b].quiet
       /\ \A b \in P \ pending : ~ws[b].active /\ ws[b].quietRounds = 0
  BY <1>3, <1>4, <1>5
<1>11. Proceeds(under, time)
  BY <1>3, <1>5, <1>6, <1>8, <1>9, <1>10, TickProceeds
<1> QED BY <1>3, <1>7, <1>11, BeginProceeds

\* Time passes for every call.
LEMMA TimePasses ==
  ASSUME TypeOK, Elapse
  PROVE  Promise!Pass
<1>1. ASSUME NEW c \in pending
      PROVE  /\ Request(wait'[c], hist'[c]) = Request(wait[c], hist[c])
             /\ Clock(wait'[c]) = Promise!Later(Clock(wait[c]))
             /\ wait'[c].active = wait[c].active
  <2>1. wait[c] \in WaitRec /\ wait'[c] = Later(wait[c]) /\ hist'[c] = hist[c]
    BY DEF Elapse, TypeOK
  <2>2. /\ wait'[c].kind = wait[c].kind /\ wait'[c].watch = wait[c].watch
        /\ wait'[c].known = wait[c].known
        /\ wait'[c].left = IF wait[c].left > 0 THEN wait[c].left - 1 ELSE 0
        /\ wait'[c].quiet = IF wait[c].quiet < QuietCap THEN wait[c].quiet + 1
                                                        ELSE wait[c].quiet
        /\ wait'[c].active = wait[c].active
    BY <2>1 DEF Later, WaitRec
  <2>3. Promise!Cap = QuietCap
    BY DEF Promise!Cap, QuietCap, MaxOf
  <2>4. Clock(wait'[c]) = Promise!Later(Clock(wait[c]))
    BY <2>2, <2>3 DEF Clock, Promise!Later
  <2> QED BY <2>1, <2>2, <2>4, SameRequest
<1>2. /\ pending' = pending /\ hist' = hist /\ replies' = {}
      /\ Open' = Open /\ nextId' = nextId /\ Silent' = Silent
  BY SameSteady, SilentSame DEF Elapse, Open
<1>3. /\ Clocks' = [c \in DOMAIN Clocks |-> Promise!Later(Clocks[c])]
      /\ Requests' = Requests /\ Stirred' = Stirred /\ Asked' = Asked /\ ToldNow' = {}
  BY <1>1, <1>2 DEF Clocks, Requests, Stirred, Asked, ToldNow
<1> QED BY <1>2, <1>3 DEF Promise!Pass, Clocks, Requests, Stirred, Asked, ToldNow

-----------------------------------------------------------------------------
(* Every step *)

\* The initial state.
LEMMA InitMaps == Init => Promise!Init
<1> SUFFICES ASSUME Init PROVE Promise!Init
  OBVIOUS
<1>1. pending = {} /\ replies = {} /\ nextId = 1 /\ Open = {} /\ Silent = {}
  BY DEF Init, Open, Silent
<1>2. Requests = <<>> /\ Clocks = <<>> /\ Stirred = {} /\ Asked = {} /\ ToldNow = {}
  BY <1>1 DEF Requests, Clocks, Stirred, Asked, ToldNow
<1> QED BY <1>1, <1>2 DEF Promise!Init, Requests, Clocks, Stirred, Asked, ToldNow

\* Each handler is a step of Transition, or changes nothing that it tells.
LEMMA NextMaps ==
  Known /\ Known' /\ [Next]_vars => [Promise!Next]_(Promise!transitionVars)
<1> SUFFICES ASSUME Known, Known', [Next]_vars
             PROVE  [Promise!Next]_(Promise!transitionVars)
  OBVIOUS
<1> DEFINE Goal == Promise!Next \/ UNCHANGED Promise!transitionVars
<1>1. TypeOK /\ IInv /\ LastRoundQuiet' /\ ReplyAccountsForWindows'
  BY DEF Known
<1>2. ASSUME NEW k \in Keys, Register(k), Steady({}) PROVE Goal
  BY <1>1, <1>2, RegisterAppears DEF Promise!Next
<1>3. ASSUME NEW I, I \subseteq Open, Unregister(I), Steady(I),
             \A c \in pending : /\ hist'[c].calm = Ruffled(I)[c].calm
                                /\ hist'[c].firstId = hist[c].firstId
      PROVE  Goal
  BY <1>1, <1>3, UnregisterVanishes DEF Promise!Next
<1>4. \A c \in pending : \A I : Ruffled(I)[c].firstId = hist[c].firstId
  BY <1>1, RuffledStart DEF TypeOK
<1>5. ASSUME NEW i \in Ids, ToplevelDestroyed(i) PROVE Goal
  <2>1. /\ {i} \subseteq Open /\ Unregister({i}) /\ hist' = Ruffled({i})
        /\ support' = support /\ advert' = advert
    BY <1>5 DEF ToplevelDestroyed, Open
  <2>3. Steady({i})
    BY <2>1, SameSteady DEF Steady
  <2>2. \A c \in pending : /\ hist'[c].calm = Ruffled({i})[c].calm
                           /\ hist'[c].firstId = hist[c].firstId
    BY <1>4, <2>1
  <2> QED BY <1>3, <2>1, <2>2, <2>3
<1>6. ASSUME NEW c \in Clients, ClientDies(c) PROVE Goal
  <2>1. PICK I : I = WindowsOf(c)
    OBVIOUS
  <2>2. /\ I \subseteq Open /\ Unregister(I) /\ hist' = Ruffled(I)
        /\ support' = support /\ advert' = advert
    BY <1>6, <2>1 DEF ClientDies, Open, WindowsOf
  <2>4. Steady(I)
    BY <2>2, SameSteady DEF Steady
  <2>3. \A b \in pending : /\ hist'[b].calm = Ruffled(I)[b].calm
                           /\ hist'[b].firstId = hist[b].firstId
    BY <1>4, <2>2
  <2> QED BY <1>3, <2>2, <2>3, <2>4
<1>7. ASSUME NEW x \in XWins, UnmapX11(x) PROVE Goal
  <2>1. PICK I : I = WindowsOf(x)
    OBVIOUS
  <2>2. I \subseteq Open /\ Unregister(I) /\ hist' = Forgotten(Ruffled(I), x)
    BY <1>7, <2>1 DEF UnmapX11, Open, WindowsOf
  <2>4. Steady(I)
    <3>1. ASSUME NEW i \in Ids \ I, NEW k \in Keys, windows[i] = {k}
          PROVE  Pingable(k)' <=> Pingable(k)
      <4>1. k # x
        BY <2>1, <3>1 DEF WindowsOf
      <4>2. support' = [support EXCEPT ![x] = {}] /\ advert' = advert
        BY <1>7 DEF UnmapX11, ForgetPing
      <4>3. k \in XWins => support'[k] = support[k]
        BY <1>1, <4>1, <4>2 DEF TypeOK
      <4> QED BY <4>2, <4>3 DEF Pingable, SupportsPing, Keys
    <3> QED BY <3>1 DEF Steady
  <2>3. ASSUME NEW c \in pending
        PROVE  /\ hist'[c].calm = Ruffled(I)[c].calm
               /\ hist'[c].firstId = hist[c].firstId
    <3>1. c \in Calls /\ Ruffled(I)[c] \in HistRec
      BY <1>1, RuffledType DEF TypeOK
    <3>2. hist'[c].calm = Ruffled(I)[c].calm /\ hist'[c].firstId = Ruffled(I)[c].firstId
      BY <2>2, <3>1 DEF Forgotten, HistRec
    <3> QED BY <1>4, <3>2
  <2> QED BY <1>3, <2>2, <2>3, <2>4
<1>8. ASSUME NEW i \in Ids, Commit(i) PROVE Goal
  <2>1. /\ wait' = ToldActivity({i}) /\ hist' = Ruffled({i}) /\ replies' = {}
        /\ pending' = pending /\ UNCHANGED <<windows, nextId>> /\ i \in Open
    BY <1>8 DEF Commit, Open
  <2>2. \A c \in pending : wait'[c] = NoteActivity(wait[c], {i})
    BY <1>1, <2>1 DEF ToldActivity, TypeOK
  <2>3. \A c \in pending :
          /\ wait'[c] \in {NoteActivity(wait[c], {i}), NoteClosed(wait[c], {i})}
          /\ hist'[c].calm = Ruffled({i})[c].calm
          /\ hist'[c].firstId = hist[c].firstId
    BY <1>4, <2>1, <2>2
  <2>4. Promise!Stirs({i})
    BY <1>1, <2>1, <2>3, NotesStir
  <2>5. Open' = Open /\ Silent' = Silent
    <3>1. support' = support /\ advert' = advert
      BY <1>8 DEF Commit
    <3> QED BY <2>1, <3>1, SameSteady, SilentSame DEF Open
  <2>6. Promise!Change(i)
    BY <2>1, <2>4, <2>5 DEF Promise!Change
  <2>7. i \in Ids
    OBVIOUS
  <2> QED BY <2>6, <2>7 DEF Promise!Next
<1>9. ASSUME NEW c \in Calls, NEW kind \in Kinds, NEW t \in Timeouts,
             NEW watch \in {{}} \cup {{i} : i \in Ids}, StartWait(c, kind, watch, t)
      PROVE  Goal
  <2>1. kind \in AllKinds /\ t \in Nat /\ watch \in SUBSET Ids
    BY ConstantsAssumption
  <2>2. Promise!Begin(c, kind, watch, t)
    BY <1>1, <1>9, <2>1, StartBegins
  <2> QED BY <2>2 DEF Promise!Next
<1>10. ASSUME NEW k \in Keys, NEW hs \in {hist, Answered(hist, k)}, NEW out,
              EvaluateWaits(pending, wait, hs, out), UNCHANGED <<windows, nextId, advert>>
       PROVE  Goal
  <2>1. hs \in [Calls -> HistRec]
    BY <1>1, AnsweredType DEF TypeOK
  <2>2. \A c \in pending : hs[c].calm = hist[c].calm /\ hs[c].firstId = hist[c].firstId
    BY <1>1, AnsweredFields DEF TypeOK
  <2> QED BY <1>1, <1>10, <2>1, <2>2, PongGoes DEF Promise!Next
<1>11. ASSUME NEW c \in Clients, Pong(c) PROVE Goal
  BY <1>10, <1>11 DEF Pong, Keys
<1>12. ASSUME NEW x \in XWins, NEW s \in Serials, X11Pong(x, s) PROVE Goal
  <2>1. (IF Matches(x, s) THEN Answered(hist, x) ELSE hist) \in {hist, Answered(hist, x)}
    OBVIOUS
  <2> QED BY <1>10, <1>12, <2>1 DEF X11Pong, Keys
<1>13. ASSUME TimerTick PROVE Goal
  BY <1>1, <1>13, TimerGoes DEF Promise!Next
<1>14. ASSUME Heartbeat PROVE Goal
  <2>1. replies' = {} /\ UNCHANGED <<windows, nextId, pending, wait, hist>> /\ Open' = Open
    BY <1>14 DEF Heartbeat, Open
  <2>4. Silent' = Silent
    <3>1. PICK X : support' = Probed(X) /\ advert' = advert
      BY <1>14 DEF Heartbeat
    <3> QED BY <1>1, <2>1, <3>1, ProbedSteady, SilentSame
  <2>2. /\ Requests' = Requests /\ Clocks' = Clocks /\ Stirred' = Stirred
        /\ Asked' = Asked /\ ToldNow' = {}
    BY <2>1 DEF Requests, Clocks, Stirred, Asked, ToldNow
  <2>3. Promise!Elsewhere
    BY <2>1, <2>2, <2>4 DEF Promise!Elsewhere, Requests, Clocks, Stirred, Asked, ToldNow
  <2> QED BY <2>3 DEF Promise!Next
<1>15. ASSUME Elapse PROVE Goal
  BY <1>1, <1>15, TimePasses DEF Promise!Next
<1>16. ASSUME UNCHANGED vars PROVE Goal
  <2>1. UNCHANGED <<windows, nextId, pending, wait, hist, replies>> /\ Open' = Open
    BY <1>16 DEF vars, Open
  <2>3. Silent' = Silent
    <3>1. support' = support /\ advert' = advert
      BY <1>16 DEF vars
    <3> QED BY <2>1, <3>1, SameSteady, SilentSame
  <2>2. /\ Requests' = Requests /\ Clocks' = Clocks /\ Stirred' = Stirred
        /\ Asked' = Asked /\ ToldNow' = ToldNow
    BY <2>1 DEF Requests, Clocks, Stirred, Asked, ToldNow
  <2> QED BY <2>1, <2>2, <2>3 DEF Promise!transitionVars, Requests, Clocks, Stirred, Asked, ToldNow
<1>17. ASSUME NEW c \in Clients, NewToplevel(c) PROVE Goal
  <2>1. Register(c) /\ support' = support /\ advert' = advert /\ c \in Keys
    BY <1>17 DEF NewToplevel, Keys
  <2> QED BY <1>2, <2>1, SameSteady DEF Steady
<1>18. ASSUME NEW x \in XWins, MapX11(x) PROVE Goal
  <2>1. Register(x) /\ support' = support /\ x \in Keys /\ ~Owns(x)
    BY <1>18 DEF MapX11, Keys
  <2>2. \A k \in Keys \ {x} : k \in XWins => advert'[k] = advert[k]
    BY <1>1, <1>18 DEF MapX11, TypeOK
  <2>3. ASSUME NEW i \in Ids, NEW k \in Keys, windows[i] = {k}
        PROVE  Pingable(k)' <=> Pingable(k)
    <3>1. k # x
      BY <2>1, <2>3 DEF Owns, WindowsOf
    <3>2. CASE k \in Clients
      BY <3>2 DEF Pingable
    <3>3. CASE k \in XWins
      <4>1. support'[k] = support[k] /\ advert'[k] = advert[k]
        BY <2>1, <2>2, <3>1, <3>3
      <4>2. SupportsPing(k)' <=> SupportsPing(k)
        BY <4>1 DEF SupportsPing
      <4>3. k \notin Clients
        BY <3>3, ConstantsAssumption
      <4> QED BY <4>2, <4>3 DEF Pingable
    <3> QED BY <3>2, <3>3 DEF Keys
  <2> QED BY <1>2, <2>1, <2>3 DEF Steady
<1>19. Goal
  <2> HIDE DEF Goal
  <2> QED BY <1>5, <1>6, <1>7, <1>8, <1>9, <1>11, <1>12, <1>13, <1>14, <1>15, <1>16,
             <1>17, <1>18
          DEF Next, Activity, CallStarts, Answer
<1> QED BY <1>19

\* tracker.rs: for any clients, windows and timeouts, and however calls overlap, the
\* rounds, deadlines and notes of the tracker amount to what Transition promises
\* each call: it is answered once, when settled or when its time is up, and
\* accounts for its own time only.
THEOREM Implementation == Spec => ImplementsTransition
<1>1. Init => Promise!Init
  BY InitMaps
<1>2. Known /\ Known' /\ [Next]_vars => [Promise!Next]_(Promise!transitionVars)
  BY NextMaps
<1>3. TypeOK /\ IInv /\ LastRoundQuiet /\ ReplyAccountsForWindows <=> Known
  BY DEF Known
<1> QED
  BY <1>1, <1>2, <1>3, TypeCorrect, Invariance, Quiet, Accounting, PTL
  DEF Spec, ImplementsTransition, Promise!Spec
=============================================================================
