--------------------------- MODULE TrackerProofs ---------------------------
(***************************************************************************)
(* Theorems about Tracker, for all values of its constants.                *)
(***************************************************************************)
EXTENDS Tracker, TLAPS

-----------------------------------------------------------------------------
(* Type correctness *)

\* The larger of the thresholds is a number.
LEMMA QuietCapType == QuietCap \in Nat
  BY ConstantsAssumption DEF QuietCap, MaxOf

\* A fresh wait, and what the notes make of one, are waits.
LEMMA NewWaitType ==
  ASSUME NEW kind \in AllKinds, NEW watch \in SUBSET Ids, NEW known \in SUBSET Ids,
         NEW left \in Nat
  PROVE  NewWait(kind, watch, known, left) \in WaitRec
  BY QuietCapType DEF NewWait, WaitRec, QUIET_ROUNDS

\* A wait with other windows, marks and quiet time is a wait.
LEMMA ActivityFields ==
  ASSUME NEW w \in WaitRec, NEW I \in SUBSET Ids, NEW b \in BOOLEAN, NEW n \in 0..QuietCap
  PROVE  /\ [w EXCEPT !.changed = I, !.dirty = b, !.active = b, !.quiet = n] \in WaitRec
         /\ [w EXCEPT !.closed = I, !.dirty = b, !.active = b, !.quiet = n] \in WaitRec
<1>1. [w EXCEPT !.changed = I, !.dirty = b, !.active = b, !.quiet = n] \in WaitRec
  BY DEF WaitRec
<1>2. [w EXCEPT !.closed = I, !.dirty = b, !.active = b, !.quiet = n] \in WaitRec
  BY DEF WaitRec
<1> QED BY <1>1, <1>2

\* note_window_activity and note_window_closed keep the type of a wait.
LEMMA NotedType ==
  ASSUME NEW w \in WaitRec, NEW I \in SUBSET Ids
  PROVE  NoteActivity(w, I) \in WaitRec /\ NoteClosed(w, I) \in WaitRec
<1> DEFINE R == {i \in I : Relevant(w, i)}
<1>1. /\ w.changed \cup R \in SUBSET Ids
      /\ w.closed \cup R \in SUBSET Ids
  BY DEF WaitRec
<1>2. 0 \in 0..QuietCap
  BY QuietCapType
<1>3. Touched(w, R) \in WaitRec /\ Gone(w, R) \in WaitRec
  BY <1>1, <1>2, ActivityFields DEF Touched, Gone
<1> QED BY <1>3 DEF NoteActivity, NoteClosed

\* Starting a round keeps the type of a wait.
LEMMA StartedType ==
  ASSUME NEW w \in WaitRec
  PROVE  Started(w) \in WaitRec
<1>1. Targets(w) \in SUBSET Keys
  BY DEF Targets, RelevantKeys
<1> HIDE DEF Targets
<1> QED BY <1>1 DEF Started, WaitRec

\* So does evaluating it,
LEMMA EvaluatedType ==
  ASSUME NEW w \in WaitRec, NEW out
  PROVE  Evaluated(w, out) \in WaitRec
<1>1. QuietRounds(w) \in 0..QUIET_ROUNDS
  BY DEF QuietRounds, QUIET_ROUNDS, WaitRec
<1> QED BY <1>1 DEF Evaluated, WaitRec

\* and so does the passing of time.
LEMMA LaterType ==
  ASSUME NEW w \in WaitRec
  PROVE  Later(w) \in WaitRec
<1> DEFINE l == IF w.left > 0 THEN w.left - 1 ELSE 0
           q == IF w.quiet < QuietCap THEN w.quiet + 1 ELSE w.quiet
<1>1. l \in Nat /\ q \in 0..QuietCap
  BY QuietCapType DEF WaitRec
<1> HIDE DEF l, q
<1>2. [w EXCEPT !.left = l, !.quiet = q] \in WaitRec
  BY <1>1 DEF WaitRec
<1> QED BY <1>2 DEF Later, l, q

\* The histories kept through an event, a pong, a new round.
LEMMA RuffledType ==
  ASSUME TypeOK, NEW I
  PROVE  Ruffled(I) \in [Calls -> HistRec]
<1>1. ASSUME NEW h \in HistRec, NEW n \in 0..2
      PROVE  [h EXCEPT !.calm = n] \in HistRec
  BY DEF HistRec
<1>2. hist \in [Calls -> HistRec]
  BY DEF TypeOK
<1>3. ASSUME NEW c \in Calls
      PROVE  Ruffled(I)[c] \in HistRec
  <2>1. hist[c] \in HistRec
    BY <1>2
  <2>2. [hist[c] EXCEPT !.calm = 0] \in HistRec
    <3>1. 0 \in 0..2
      OBVIOUS
    <3> QED BY <1>1, <2>1, <3>1, Zenon
  <2>3. Ruffled(I)[c] \in {hist[c], [hist[c] EXCEPT !.calm = 0]}
    BY DEF Ruffled
  <2> QED BY <2>1, <2>2, <2>3
<1>4. Ruffled(I) = [c \in Calls |-> Ruffled(I)[c]]
  BY DEF Ruffled
<1> QED BY <1>3, <1>4

\* Histories keep their type when a pong comes or a ping is forgotten,
LEMMA AnsweredType ==
  ASSUME NEW hs \in [Calls -> HistRec], NEW k \in Keys
  PROVE  /\ Answered(hs, k) \in [Calls -> HistRec]
         /\ Forgotten(hs, k) \in [Calls -> HistRec]
<1>1. Answered(hs, k) \in [Calls -> HistRec]
  BY DEF Answered, HistRec
<1>2. Forgotten(hs, k) \in [Calls -> HistRec]
  BY DEF Forgotten, HistRec
<1> QED BY <1>1, <1>2

\* and when rounds begin.
LEMMA CalmerType ==
  ASSUME NEW hs \in [Calls -> HistRec], NEW S
  PROVE  Calmer(hs, S) \in [Calls -> HistRec]
<1>1. ASSUME NEW c \in Calls, NEW n \in 0..2
      PROVE  [hs[c] EXCEPT !.calm = n] \in HistRec
  BY DEF HistRec
<1>2. ASSUME NEW c \in Calls
      PROVE  (IF hs[c].calm < 2 THEN hs[c].calm + 1 ELSE 2) \in 0..2
  BY DEF HistRec
<1> QED BY <1>1, <1>2 DEF Calmer

\* The empty history is one.
LEMMA NoHistType == NoHist \in HistRec
  BY ConstantsAssumption DEF NoHist, HistRec

\* The record of a call that does not wait is typed as well.
LEMMA IdleType == Idle \in WaitRec
  BY NewWaitType DEF Idle, AllKinds

\* A new serial is one serial or none.
LEMMA FreshType ==
  ASSUME NEW k \in Keys
  PROVE  /\ FreshSerial(k) \in SUBSET (0..MaxSerial)
         /\ k \in XWins => FreshSerial(k) \in SUBSET Serials
  BY ConstantsAssumption DEF FreshSerial, Serials, Keys

\* Sending pings keeps the type of what is outstanding,
LEMMA PingedType ==
  ASSUME TypeOK, NEW K
  PROVE  /\ Pinged(K) \in [Keys -> SUBSET (0..MaxSerial)]
         /\ \A x \in XWins : Pinged(K)[x] \subseteq Serials
  BY FreshType DEF Pinged, TypeOK, Keys

\* of their ages, and of what is on the network.
LEMMA SendPingsType ==
  ASSUME TypeOK, NEW K, SendPings(K)
  PROVE  /\ outstanding' \in [Keys -> SUBSET (0..MaxSerial)]
         /\ \A x \in XWins : outstanding'[x] \subseteq Serials
         /\ net' \in [XWins -> SUBSET Serials]
         /\ age' \in [Keys -> 0..(FrozenAfter + 1)]
  BY PingedType DEF SendPings, TypeOK

\* evaluate_waits keeps the types of all it changes.
LEMMA EvaluateType ==
  ASSUME TypeOK, NEW P \in SUBSET Calls, NEW ws \in [Calls -> WaitRec],
         NEW hs \in [Calls -> HistRec], NEW out, EvaluateWaits(P, ws, hs, out)
  PROVE  /\ support' \in [XWins -> SUBSET BOOLEAN]
         /\ pending' \in SUBSET Calls
         /\ wait' \in [Calls -> WaitRec]
         /\ replies' \in SUBSET ReplyRec
         /\ hist' \in [Calls -> HistRec]
<1>1. support' \in [XWins -> SUBSET BOOLEAN]
  <2>1. ASSUME NEW x \in XWins PROVE {SupportsPing(x)} \in SUBSET BOOLEAN
    BY ConstantsAssumption DEF SupportsPing, TypeOK
  <2> QED BY <2>1 DEF EvaluateWaits, Probed, TypeOK
<1>2. pending' \in SUBSET Calls
  BY DEF EvaluateWaits
<1>3. wait' \in [Calls -> WaitRec]
  BY EvaluatedType, IdleType DEF EvaluateWaits
<1>4. replies' \in SUBSET ReplyRec
  <2>1. ASSUME NEW c \in P PROVE ReplyTo(c, ws[c], hs[c], out) \in ReplyRec
    <3>1. Evaluated(ws[c], out) \in WaitRec
      BY EvaluatedType
    <3>2. Open \ ws[c].known \in SUBSET Ids
      BY DEF Open
    <3> QED BY <3>1, <3>2 DEF ReplyTo, ReplyRec
  <2> QED BY <2>1 DEF EvaluateWaits
<1>5. hist' \in [Calls -> HistRec]
  BY NoHistType DEF EvaluateWaits
<1> QED BY <1>1, <1>2, <1>3, <1>4, <1>5

\* So does tracker_tick, which ends in it.
LEMMA TickType ==
  ASSUME TypeOK, NEW P \in SUBSET Calls, NEW ws \in [Calls -> WaitRec],
         NEW hs \in [Calls -> HistRec], TrackerTick(P, ws, hs),
         UNCHANGED <<windows, nextId, alive, advert>>
  PROVE  TypeOK'
<1> DEFINE S == RoundStarts(P, ws)
           K == UNION {Targets(ws[c]) : c \in S}
           started == [c \in Calls |-> IF c \in P THEN Started(ws[c]) ELSE ws[c]]
<1>1. SendPings(K) /\ EvaluateWaits(P, started, Calmer(hs, S), Pinged(K))
  BY DEF TrackerTick
<1>2. started \in [Calls -> WaitRec]
  BY StartedType
<1>3. Calmer(hs, S) \in [Calls -> HistRec]
  <2>1. S \in SUBSET Calls
    BY DEF RoundStarts
  <2> HIDE DEF S
  <2> QED BY <2>1, CalmerType
<1> HIDE DEF S, K, started
<1> QED BY <1>1, <1>2, <1>3, EvaluateType, SendPingsType DEF TypeOK

\* Noting an event in all waits keeps their types.
LEMMA ToldType ==
  ASSUME TypeOK, NEW I \in SUBSET Ids
  PROVE  /\ ToldActivity(I) \in [Calls -> WaitRec]
         /\ ToldClosed(I) \in [Calls -> WaitRec]
  BY NotedType DEF ToldActivity, ToldClosed, TypeOK

\* So does a window that opens,
LEMMA RegisterType ==
  ASSUME TypeOK, NEW k \in Keys, Register(k)
  PROVE  /\ windows' \in [Ids -> Option(Keys)]
         /\ nextId' \in 1..(MaxId + 1)
         /\ wait' \in [Calls -> WaitRec]
         /\ hist' \in [Calls -> HistRec]
         /\ pending' = pending /\ replies' = {}
<1>1. nextId \in Ids /\ nextId' \in 1..(MaxId + 1)
  BY ConstantsAssumption DEF Register, Ids
<1>2. windows' \in [Ids -> Option(Keys)]
  BY <1>1 DEF Register, TypeOK, Option
<1>3. wait' \in [Calls -> WaitRec] /\ hist' \in [Calls -> HistRec]
  BY <1>1, ToldType, RuffledType DEF Register
<1> QED BY <1>1, <1>2, <1>3 DEF Register

\* and one that closes.
LEMMA UnregisterType ==
  ASSUME TypeOK, NEW I \in SUBSET Ids, Unregister(I)
  PROVE  /\ windows' \in [Ids -> Option(Keys)]
         /\ nextId' \in 1..(MaxId + 1)
         /\ wait' \in [Calls -> WaitRec]
         /\ pending' = pending /\ replies' = {}
  BY ToldType DEF Unregister, TypeOK, Option

\* The initial state is typed.
LEMMA InitType == Init => TypeOK
<1> SUFFICES ASSUME Init PROVE TypeOK
  OBVIOUS
<1>1. 1 \in 1..(MaxId + 1) /\ 0 \in 0..(FrozenAfter + 1)
  BY ConstantsAssumption
<1>2. /\ windows \in [Ids -> Option(Keys)]
      /\ nextId \in 1..(MaxId + 1)
      /\ alive \in SUBSET Clients
      /\ advert \in [XWins -> BOOLEAN]
      /\ support \in [XWins -> SUBSET BOOLEAN]
      /\ age \in [Keys -> 0..(FrozenAfter + 1)]
      /\ net \in [XWins -> SUBSET Serials]
  BY <1>1 DEF Init, Option
<1>3. /\ outstanding \in [Keys -> SUBSET (0..MaxSerial)]
      /\ \A x \in XWins : outstanding[x] \subseteq Serials
  BY DEF Init, Keys
<1>4. /\ pending \in SUBSET Calls
      /\ wait \in [Calls -> WaitRec]
      /\ replies \in SUBSET ReplyRec
      /\ hist \in [Calls -> HistRec]
  BY IdleType, NoHistType DEF Init
<1> QED BY <1>2, <1>3, <1>4 DEF TypeOK

\* A ping is taken off the table.
LEMMA ClearedType ==
  ASSUME TypeOK, NEW k \in Keys
  PROVE  /\ [outstanding EXCEPT ![k] = {}] \in [Keys -> SUBSET (0..MaxSerial)]
         /\ \A y \in XWins : [outstanding EXCEPT ![k] = {}][y] \subseteq Serials
         /\ [age EXCEPT ![k] = 0] \in [Keys -> 0..(FrozenAfter + 1)]
<1>1. [outstanding EXCEPT ![k] = {}] \in [Keys -> SUBSET (0..MaxSerial)]
  BY DEF TypeOK
<1>2. \A y \in XWins : [outstanding EXCEPT ![k] = {}][y] \subseteq Serials
  BY DEF TypeOK, Keys
<1>3. [age EXCEPT ![k] = 0] \in [Keys -> 0..(FrozenAfter + 1)]
  BY ConstantsAssumption DEF TypeOK
<1> QED BY <1>1, <1>2, <1>3

\* A call of any kind that begins to wait.
LEMMA StartType ==
  ASSUME TypeOK, NEW c \in Calls, NEW kind \in AllKinds,
         NEW watch \in SUBSET Ids, NEW t \in Nat, StartWait(c, kind, watch, t)
  PROVE  TypeOK'
<1> DEFINE h == [NoHist EXCEPT !.stale = {k \in Keys : outstanding[k] # {}},
                               !.firstId = nextId]
<1>1. NewWait(kind, watch, Open, t) \in WaitRec
  BY NewWaitType DEF Open
<1>2. h \in HistRec
  BY NoHistType DEF HistRec, TypeOK
<1> HIDE DEF h
<1>3. /\ [wait EXCEPT ![c] = NewWait(kind, watch, Open, t)] \in [Calls -> WaitRec]
      /\ [hist EXCEPT ![c] = h] \in [Calls -> HistRec]
  BY <1>1, <1>2 DEF TypeOK
<1>4. pending \cup {c} \in SUBSET Calls
  BY DEF TypeOK
<1>5. TrackerTick(pending \cup {c}, [wait EXCEPT ![c] = NewWait(kind, watch, Open, t)],
                  [hist EXCEPT ![c] = h])
  BY DEF StartWait, h
<1> QED BY <1>3, <1>4, <1>5, TickType DEF StartWait

\* The shape of the state is kept, action by action.
LEMMA NextType == TypeOK /\ [Next]_vars => TypeOK'
<1> SUFFICES ASSUME TypeOK, [Next]_vars PROVE TypeOK'
  OBVIOUS
<1>1. ASSUME NEW c \in Clients, NewToplevel(c) PROVE TypeOK'
  BY <1>1, RegisterType DEF NewToplevel, pingVars, TypeOK, Keys
<1>2. ASSUME NEW c \in Clients, ClientDies(c) PROVE TypeOK'
  <2>1. WindowsOf(c) \in SUBSET Ids
    BY DEF WindowsOf
  <2> QED BY <1>2, <2>1, UnregisterType, RuffledType DEF ClientDies, pingVars, TypeOK
<1>3. ASSUME NEW x \in XWins, MapX11(x) PROVE TypeOK'
  BY <1>3, RegisterType DEF MapX11, pingVars, TypeOK, Keys
<1>4. ASSUME NEW x \in XWins, UnmapX11(x) PROVE TypeOK'
  <2>1. WindowsOf(x) \in SUBSET Ids /\ x \in Keys
    BY DEF WindowsOf, Keys
  <2>2. hist' \in [Calls -> HistRec]
    BY <1>4, <2>1, RuffledType, AnsweredType DEF UnmapX11
  <2>3. support' \in [XWins -> SUBSET BOOLEAN]
    BY <1>4 DEF UnmapX11, ForgetPing, TypeOK
  <2> QED BY <1>4, <2>1, <2>2, <2>3, UnregisterType, ClearedType DEF UnmapX11, ForgetPing, TypeOK
<1>5. ASSUME NEW i \in Ids, ToplevelDestroyed(i) PROVE TypeOK'
  BY <1>5, UnregisterType, RuffledType DEF ToplevelDestroyed, pingVars, TypeOK
<1>6. ASSUME NEW i \in Ids, Commit(i) PROVE TypeOK'
  BY <1>6, ToldType, RuffledType DEF Commit, pingVars, TypeOK
<1>7. ASSUME NEW c \in Calls, NEW kind \in Kinds, NEW t \in Timeouts,
             NEW watch \in {{}} \cup {{i} : i \in Ids}, StartWait(c, kind, watch, t)
      PROVE  TypeOK'
  BY <1>7, StartType, ConstantsAssumption
<1>8. ASSUME NEW c \in Clients, Pong(c) PROVE TypeOK'
  <2>1. Answered(hist, c) \in [Calls -> HistRec]
    BY AnsweredType DEF TypeOK, Keys
  <2>2. /\ outstanding' \in [Keys -> SUBSET (0..MaxSerial)]
        /\ \A y \in XWins : outstanding'[y] \subseteq Serials
        /\ age' \in [Keys -> 0..(FrozenAfter + 1)]
    BY <1>8, ClearedType DEF Pong, Keys
  <2> QED BY <1>8, <2>1, <2>2, EvaluateType DEF Pong, TypeOK
<1>9. ASSUME NEW x \in XWins, NEW s \in Serials, X11Pong(x, s) PROVE TypeOK'
  <2>1. (IF Matches(x, s) THEN Answered(hist, x) ELSE hist) \in [Calls -> HistRec]
    BY AnsweredType DEF TypeOK, Keys
  <2>2. /\ outstanding' \in [Keys -> SUBSET (0..MaxSerial)]
        /\ \A y \in XWins : outstanding'[y] \subseteq Serials
        /\ age' \in [Keys -> 0..(FrozenAfter + 1)]
    <3>1. x \in Keys
      BY DEF Keys
    <3>2. CASE Matches(x, s)
      BY <1>9, <3>1, <3>2, ClearedType DEF X11Pong
    <3>3. CASE ~Matches(x, s)
      <4>1. outstanding' = outstanding /\ age' = age
        BY <1>9, <3>1, <3>3 DEF X11Pong, TypeOK
      <4> QED BY <4>1 DEF TypeOK
    <3> QED BY <3>2, <3>3
  <2>3. net' \in [XWins -> SUBSET Serials]
    BY <1>9 DEF X11Pong, TypeOK
  <2> QED BY <1>9, <2>1, <2>2, <2>3, EvaluateType DEF X11Pong, TypeOK
<1>10. ASSUME TimerTick PROVE TypeOK'
  BY <1>10, TickType DEF TimerTick, TypeOK
<1>11. ASSUME Heartbeat PROVE TypeOK'
  <2>1. support' \in [XWins -> SUBSET BOOLEAN]
    <3>1. ASSUME NEW x \in XWins PROVE {SupportsPing(x)} \in SUBSET BOOLEAN
      BY ConstantsAssumption DEF SupportsPing, TypeOK
    <3> QED BY <1>11, <3>1 DEF Heartbeat, Probed, TypeOK
  <2> QED BY <1>11, <2>1, SendPingsType DEF Heartbeat, TypeOK
<1>12. ASSUME Elapse PROVE TypeOK'
  <2>1. age' \in [Keys -> 0..(FrozenAfter + 1)]
    BY <1>12, ConstantsAssumption DEF Elapse, TypeOK
  <2>2. wait' \in [Calls -> WaitRec]
    BY <1>12, LaterType DEF Elapse, TypeOK
  <2> QED BY <1>12, <2>1, <2>2 DEF Elapse, TypeOK
<1>13. CASE UNCHANGED vars
  BY <1>13 DEF vars, TypeOK
<1> QED
  BY <1>1, <1>2, <1>3, <1>4, <1>5, <1>6, <1>7, <1>8, <1>9, <1>10, <1>11, <1>12, <1>13
  DEF Next, Activity, CallStarts, Answer

\* The state keeps the shape of the Rust types, for any clients, calls and
\* timeouts: no set of windows, keys or calls leaks in where it does not belong.
THEOREM TypeCorrect == Spec => []TypeOK
  BY InitType, NextType, PTL DEF Spec

-----------------------------------------------------------------------------
(* The inductive invariant behind a settled reply *)

\* Ids below nextId have been given out, and windows have no others.
IdsGiven == Open \subseteq 1..(nextId - 1)

\* A window the call has known from the start and is about, with its key.
Watches(w, i, k) ==
  /\ i \in w.known
  /\ windows[i] = {k}
  /\ Relevant(w, i)
  /\ Pingable(k)

\* A round without activity so far has begun after the last activity.
CalmInv(w, h) == w.running /\ ~w.dirty => h.calm >= 1

\* A ping older than the call is still unanswered.
StaleInv(h, out) == \A k \in h.stale : out[k] # {}

\* A round that runs covers each watched key; a completed round leaves no stale
\* ping; what a later round finds answered was asked during the call.
RoundInv(w, h, out) ==
  \A i \in Ids, k \in Keys : Watches(w, i, k) =>
    /\ w.running => k \in w.round
    /\ w.quietRounds >= 1 => k \notin h.stale
    /\ w.running /\ w.quietRounds >= 1 /\ out[k] = {} => k \in h.heard

CallInv(w, h, out) ==
  /\ w.known \subseteq 1..(nextId - 1)
  /\ CalmInv(w, h)
  /\ StaleInv(h, out)
  /\ RoundInv(w, h, out)

IInv ==
  /\ IdsGiven
  /\ NothingInherited
  /\ \A c \in pending : CallInv(wait[c], hist[c], outstanding)
  /\ SettledOnlyWhenHeard
  /\ LastRoundQuiet

\* A cache that can hold nothing but the truth b answers b.
LEMMA CacheTells ==
  ASSUME NEW b \in BOOLEAN, NEW cached, cached \subseteq {b}
  PROVE  (IF cached # {} THEN cached = {TRUE} ELSE b) <=> b
<1>1. cached = {} \/ cached = {b}
  OBVIOUS
<1>2. CASE b = TRUE
  BY <1>1, <1>2
<1>3. CASE b = FALSE
  BY <1>1, <1>3
<1> QED BY <1>2, <1>3

\* What the cache says of an X11 window is what the window advertises.
LEMMA SupportIs ==
  ASSUME TypeOK, NothingInherited, NEW x \in XWins
  PROVE  SupportsPing(x) <=> (Observer /\ advert[x])
<1>1. /\ support[x] \subseteq {Observer /\ advert[x]}
      /\ (Observer /\ advert[x]) \in BOOLEAN
  BY ConstantsAssumption DEF NothingInherited, TypeOK
<1> QED BY <1>1, CacheTells DEF SupportsPing

\* What the handlers leave of a wait.
LEMMA NotedFields ==
  ASSUME NEW w \in WaitRec, NEW I, NEW v \in {NoteActivity(w, I), NoteClosed(w, I)}
  PROVE  /\ v.kind = w.kind /\ v.watch = w.watch /\ v.known = w.known
         /\ v.running = w.running /\ v.round = w.round /\ v.quietRounds = w.quietRounds
         /\ ~v.dirty => ~w.dirty /\ ~\E i \in I : Relevant(w, i)
  BY DEF NoteActivity, NoteClosed, Touched, Gone, WaitRec

\* What starting a round changes of a wait, and what it leaves.
LEMMA StartedFields ==
  ASSUME NEW w \in WaitRec, NEW v, v = Started(w)
  PROVE  /\ v.kind = w.kind /\ v.watch = w.watch /\ v.known = w.known
         /\ v.quietRounds = w.quietRounds
         /\ Starts(w) => v.running /\ v.round = Targets(w) /\ ~v.dirty
         /\ ~Starts(w) => v = w
  BY DEF Started, WaitRec

\* What an evaluation changes of a wait, and what it leaves.
LEMMA EvaluatedFields ==
  ASSUME NEW w \in WaitRec, NEW out, NEW v, v = Evaluated(w, out)
  PROVE  /\ v.kind = w.kind /\ v.watch = w.watch /\ v.known = w.known
         /\ v.running => v = w
         /\ RoundComplete(w, out) => v.quietRounds = QuietRounds(w)
         /\ ~RoundComplete(w, out) => v.quietRounds = w.quietRounds
  BY DEF Evaluated, WaitRec

\* What the start of rounds changes in the histories.
LEMMA CalmerFields ==
  ASSUME NEW hs \in [Calls -> HistRec], NEW S, NEW c \in Calls
  PROVE  /\ Calmer(hs, S)[c] \in HistRec /\ hs[c] \in HistRec
         /\ Calmer(hs, S)[c].stale = hs[c].stale
         /\ Calmer(hs, S)[c].heard = hs[c].heard
         /\ c \in S => Calmer(hs, S)[c].calm >= 1
         /\ c \notin S => Calmer(hs, S)[c].calm = hs[c].calm
<1>1. Calmer(hs, S)[c] \in HistRec /\ hs[c] \in HistRec
  BY CalmerType
<1>2. CASE c \in S
  BY <1>1, <1>2 DEF Calmer, HistRec
<1>3. CASE c \notin S
  BY <1>1, <1>3 DEF Calmer
<1> QED BY <1>1, <1>2, <1>3

\* A new round covers what the call watches, and asks it anew.
LEMMA StartedInv ==
  ASSUME TypeOK, NEW K, SendPings(K), NEW w \in WaitRec, NEW h \in HistRec,
         CallInv(w, h, outstanding), NEW g \in HistRec,
         Starts(w) => Targets(w) \subseteq K /\ g.calm >= 1,
         ~Starts(w) => g.calm = h.calm,
         g.stale = h.stale, g.heard = h.heard
  PROVE  CallInv(Started(w), g, Pinged(K))
<1> DEFINE v == Started(w)
<1>1. /\ v.kind = w.kind /\ v.watch = w.watch /\ v.known = w.known
      /\ v.quietRounds = w.quietRounds
      /\ Starts(w) => v.running /\ v.round = Targets(w) /\ ~v.dirty
      /\ ~Starts(w) => v = w
  BY StartedFields
<1>2. \A k \in Keys : Pinged(K)[k] = {} => outstanding[k] = {} /\ k \notin K
  BY DEF SendPings, Pinged, Keys
<1> HIDE DEF v
<1>3. \A i, k : Watches(v, i, k) <=> Watches(w, i, k)
  BY <1>1 DEF Watches, Relevant
<1>4. CalmInv(v, g)
  BY <1>1 DEF CalmInv, CallInv
<1>5. StaleInv(g, Pinged(K))
  BY <1>2 DEF StaleInv, CallInv, HistRec
<1>6. RoundInv(v, g, Pinged(K))
  <2> SUFFICES ASSUME NEW i \in Ids, NEW k \in Keys, Watches(w, i, k)
               PROVE  /\ v.running => k \in v.round
                      /\ v.quietRounds >= 1 => k \notin g.stale
                      /\ v.running /\ v.quietRounds >= 1 /\ Pinged(K)[k] = {} => k \in g.heard
    BY <1>3 DEF RoundInv
  <2>1. k \in Targets(w)
    BY DEF Watches, Targets, RelevantKeys, WindowsOf
  <2> QED BY <1>1, <1>2, <2>1 DEF CallInv, RoundInv
<1> QED BY <1>1, <1>4, <1>5, <1>6 DEF CallInv, v

\* A completed round leaves no stale ping behind.
LEMMA EvaluatedInv ==
  ASSUME NEW w \in WaitRec, NEW h, NEW out, CallInv(w, h, out)
  PROVE  CallInv(Evaluated(w, out), h, out)
<1> DEFINE v == Evaluated(w, out)
<1>1. /\ v.kind = w.kind /\ v.watch = w.watch /\ v.known = w.known
      /\ v.running => v = w
      /\ RoundComplete(w, out) => v.quietRounds = QuietRounds(w)
      /\ ~RoundComplete(w, out) => v.quietRounds = w.quietRounds
  BY EvaluatedFields
<1> HIDE DEF v
<1>2. \A i, k : Watches(v, i, k) <=> Watches(w, i, k)
  BY <1>1 DEF Watches, Relevant
<1>3. RoundInv(v, h, out)
  <2> SUFFICES ASSUME NEW i \in Ids, NEW k \in Keys, Watches(w, i, k)
               PROVE  /\ v.running => k \in v.round
                      /\ v.quietRounds >= 1 => k \notin h.stale
                      /\ v.running /\ v.quietRounds >= 1 /\ out[k] = {} => k \in h.heard
    BY <1>2 DEF RoundInv
  <2>1. RoundComplete(w, out) => k \notin h.stale
    BY DEF RoundComplete, CallInv, RoundInv, StaleInv
  <2> QED BY <1>1, <2>1 DEF CallInv, RoundInv
<1> QED BY <1>1, <1>3 DEF CallInv, CalmInv, v

\* What a wait that settles now has heard, and how calm it has been.
LEMMA SettledInv ==
  ASSUME NEW w \in WaitRec, NEW h, NEW out, CallInv(w, h, out),
         RoundComplete(w, out), w.kind # "wait", IsSettled(w)
  PROVE  /\ h.calm >= 1
         /\ \A i \in Ids, k \in Keys : Watches(w, i, k) => k \in h.heard
<1>1. QuietRounds(w) >= 2
  BY DEF IsSettled, QUIET_ROUNDS
<1>2. ~w.dirty /\ w.quietRounds >= 1
  BY <1>1 DEF QuietRounds, QUIET_ROUNDS, WaitRec
<1> QED BY <1>2 DEF CallInv, CalmInv, RoundInv, RoundComplete

\* evaluate_waits keeps the invariant and sends only replies that were heard.
LEMMA EvaluateInv ==
  ASSUME TypeOK, TypeOK', IdsGiven, NothingInherited,
         NEW P \in SUBSET Calls, NEW ws \in [Calls -> WaitRec], NEW hs,
         \A c \in P : CallInv(ws[c], hs[c], outstanding'),
         EvaluateWaits(P, ws, hs, outstanding'),
         UNCHANGED <<windows, nextId, advert>>,
         \A x \in XWins : ~Owns(x) => outstanding'[x] = {}
  PROVE  IInv'
<1>1. Open' = Open /\ IdsGiven' /\ (\A k : WindowsOf(k)' = WindowsOf(k))
  BY DEF Open, IdsGiven, WindowsOf
<1>2. NothingInherited'
  <2> SUFFICES ASSUME NEW x \in XWins
               PROVE  /\ ~Owns(x) => outstanding'[x] = {} /\ support'[x] = {}
                      /\ support'[x] \subseteq {Observer /\ advert[x]}
    BY <1>1 DEF NothingInherited, Owns
  <2>1. CASE \E c \in P : x \in RelevantKeys(ws[c])
    <3>1. Owns(x)
      BY <2>1 DEF RelevantKeys, Owns
    <3>2. support'[x] = {SupportsPing(x)}
      BY <2>1 DEF EvaluateWaits, Probed
    <3>3. SupportsPing(x) = (Observer /\ advert[x])
      BY SupportIs, ConstantsAssumption DEF SupportsPing, TypeOK
    <3> QED BY <3>1, <3>2, <3>3
  <2>2. CASE ~\E c \in P : x \in RelevantKeys(ws[c])
    <3>1. support'[x] = support[x]
      BY <2>2 DEF EvaluateWaits, Probed
    <3> QED BY <3>1 DEF NothingInherited
  <2> QED BY <2>1, <2>2
<1>3. \A k \in Keys : Pingable(k)' <=> Pingable(k)
  <2> SUFFICES ASSUME NEW x \in XWins PROVE SupportsPing(x)' <=> SupportsPing(x)
    BY DEF Pingable, Keys
  <2>1. SupportsPing(x) <=> (Observer /\ advert[x])
    BY SupportIs
  <2>2. SupportsPing(x)' <=> (Observer /\ advert[x])'
    <3>1. /\ support'[x] \subseteq {Observer /\ advert'[x]}
          /\ (Observer /\ advert'[x]) \in BOOLEAN
      BY <1>2, ConstantsAssumption DEF NothingInherited, TypeOK
    <3> QED BY <3>1, CacheTells DEF SupportsPing
  <2> QED BY <2>1, <2>2
<1>4. ASSUME NEW c \in pending' PROVE CallInv(wait[c], hist[c], outstanding)'
  <2>1. c \in P /\ c \in Calls
    BY <1>4 DEF EvaluateWaits
  <2>2. wait'[c] = Evaluated(ws[c], outstanding') /\ hist'[c] = hs[c]
    BY <1>4, <2>1 DEF EvaluateWaits
  <2>3. CallInv(wait'[c], hist'[c], outstanding')
    BY <2>1, <2>2, EvaluatedInv
  <2>4. \A i \in Ids, k \in Keys : Watches(wait[c], i, k)' <=> Watches(wait'[c], i, k)
    BY <1>3 DEF Watches, Relevant
  <2> QED BY <2>3, <2>4 DEF CallInv, CalmInv, StaleInv, RoundInv
<1>5. ASSUME NEW r \in SettledReplies'
      PROVE  /\ r.hist.calm >= 1
             /\ \A i \in Ids, k \in Keys : Watches(r.wait, i, k) => k \in r.hist.heard
  <2>1. PICK c \in P : /\ Finishes(ws[c], outstanding')
                       /\ r = ReplyTo(c, ws[c], hs[c], outstanding')
    BY <1>5 DEF SettledReplies, EvaluateWaits
  <2>2. /\ ws[c] \in WaitRec /\ r.hist = hs[c] /\ r.timedOut = (ws[c].left = 0)
        /\ r.wait = Evaluated(ws[c], outstanding')
    BY <2>1 DEF ReplyTo
  <2>3. ~r.timedOut /\ r.wait.kind # "wait"
    BY <1>5 DEF SettledReplies
  <2>4. /\ r.wait.kind = ws[c].kind /\ r.wait.watch = ws[c].watch
        /\ r.wait.known = ws[c].known
    BY <2>2, EvaluatedFields
  <2>5. RoundComplete(ws[c], outstanding') /\ IsSettled(ws[c])
    BY <2>1, <2>2, <2>3 DEF Finishes
  <2>6. /\ hs[c].calm >= 1
        /\ \A i \in Ids, k \in Keys : Watches(ws[c], i, k) => k \in hs[c].heard
    BY <2>2, <2>3, <2>4, <2>5, SettledInv
  <2> QED BY <2>2, <2>4, <2>6 DEF Watches, Relevant
<1>6. SettledOnlyWhenHeard'
  BY <1>1, <1>3, <1>5 DEF SettledOnlyWhenHeard, Watches, Open
<1>7. LastRoundQuiet'
  BY <1>5 DEF LastRoundQuiet
<1> QED BY <1>1, <1>2, <1>4, <1>6, <1>7 DEF IInv

\* A tick keeps the invariant: rounds that start contain all that must be heard.
LEMMA TickInv ==
  ASSUME TypeOK, TypeOK', IdsGiven, NothingInherited,
         NEW P \in SUBSET Calls, NEW ws \in [Calls -> WaitRec],
         NEW hs \in [Calls -> HistRec],
         \A c \in P : CallInv(ws[c], hs[c], outstanding),
         TrackerTick(P, ws, hs),
         UNCHANGED <<windows, nextId, advert>>
  PROVE  IInv'
<1> DEFINE S == RoundStarts(P, ws)
           K == UNION {Targets(ws[c]) : c \in S}
           started == [c \in Calls |-> IF c \in P THEN Started(ws[c]) ELSE ws[c]]
<1>1. SendPings(K) /\ EvaluateWaits(P, started, Calmer(hs, S), Pinged(K))
  BY DEF TrackerTick
<1>2. started \in [Calls -> WaitRec] /\ Calmer(hs, S) \in [Calls -> HistRec]
  BY StartedType, CalmerType
<1>3. outstanding' = Pinged(K)
  BY <1>1 DEF SendPings
<1>4. ASSUME NEW c \in P PROVE CallInv(started[c], Calmer(hs, S)[c], Pinged(K))
  <2> DEFINE g == Calmer(hs, S)[c]
  <2> HIDE DEF S
  <2>1. /\ g \in HistRec /\ hs[c] \in HistRec
        /\ g.stale = hs[c].stale /\ g.heard = hs[c].heard
        /\ c \in S => g.calm >= 1
        /\ c \notin S => g.calm = hs[c].calm
    BY CalmerFields
  <2>2. (c \in S <=> Starts(ws[c])) /\ (c \in S => Targets(ws[c]) \subseteq K)
    BY DEF RoundStarts, S
  <2>3. started[c] = Started(ws[c])
    OBVIOUS
  <2> HIDE DEF g, S, K, started
  <2> QED BY <1>1, <2>1, <2>2, <2>3, StartedInv DEF g
<1>5. \A x \in XWins : ~Owns(x) => Pinged(K)[x] = {}
  <2>1. \A x \in K : Owns(x)
    BY DEF Targets, RelevantKeys, Owns
  <2> HIDE DEF K
  <2> QED BY <2>1 DEF Pinged, NothingInherited, Keys
<1> HIDE DEF S, K, started
<1> QED BY <1>1, <1>2, <1>3, <1>4, <1>5, EvaluateInv

\* An event at windows I disturbs the calm of the calls it matters to, and
\* leaves the windows a call has known from the start as they are, or gone.
LEMMA EventInv ==
  ASSUME TypeOK, TypeOK', IInv, NEW c \in pending, NEW I \in SUBSET Ids,
         wait'[c] \in {NoteActivity(wait[c], I), NoteClosed(wait[c], I)},
         hist'[c].calm = Ruffled(I)[c].calm,
         hist'[c].heard = Ruffled(I)[c].heard,
         hist'[c].stale \subseteq Ruffled(I)[c].stale,
         \A k \in hist'[c].stale : outstanding'[k] = outstanding[k],
         nextId' \in {nextId, nextId + 1},
         \A i \in Ids, k \in Keys : i \in wait[c].known /\ windows'[i] = {k} =>
           /\ windows[i] = {k}
           /\ Pingable(k)' => Pingable(k)
           /\ outstanding'[k] = outstanding[k]
  PROVE  CallInv(wait[c], hist[c], outstanding)'
<1> DEFINE w == wait[c]
           v == wait'[c]
           h == hist[c]
           g == hist'[c]
<1>1. c \in Calls /\ w \in WaitRec /\ h \in HistRec /\ CallInv(w, h, outstanding)
  BY DEF TypeOK, IInv
<1>2. /\ v.kind = w.kind /\ v.watch = w.watch /\ v.known = w.known
      /\ v.running = w.running /\ v.round = w.round /\ v.quietRounds = w.quietRounds
      /\ ~v.dirty => ~w.dirty /\ ~\E i \in I : Relevant(w, i)
  BY <1>1, NotedFields
<1>3. /\ g.heard = h.heard /\ g.stale \subseteq h.stale
      /\ ~v.dirty => g.calm = h.calm
  <2>1. Ruffled(I)[c] = IF c \in Disturbed(I) THEN [h EXCEPT !.calm = 0] ELSE h
    BY <1>1 DEF Ruffled
  <2>2. Ruffled(I)[c].heard = h.heard /\ Ruffled(I)[c].stale = h.stale
    BY <1>1, <2>1 DEF HistRec
  <2>3. ~v.dirty => Ruffled(I)[c].calm = h.calm
    BY <1>2, <2>1 DEF Disturbed
  <2> QED BY <2>2, <2>3
<1>4. w.known \subseteq 1..(nextId - 1) /\ nextId \in Nat
  BY <1>1, ConstantsAssumption DEF CallInv, TypeOK
<1>5. v.known \subseteq 1..(nextId' - 1)
  BY <1>2, <1>4
<1>6. CalmInv(v, g)
  BY <1>1, <1>2, <1>3 DEF CalmInv, CallInv
<1>7. StaleInv(g, outstanding')
  BY <1>1, <1>3 DEF StaleInv, CallInv
<1>8. \A i \in Ids, k \in Keys : Watches(w, i, k)' =>
        Watches(w, i, k) /\ outstanding'[k] = outstanding[k]
  BY <1>2 DEF Watches, Relevant
<1>9. RoundInv(w, h, outstanding)'
  BY <1>1, <1>2, <1>3, <1>8 DEF RoundInv, CallInv
<1> QED BY <1>5, <1>6, <1>7, <1>9 DEF CallInv, CalmInv, StaleInv

\* Pings may be sent, and time may pass, without harm.
LEMMA QuietStepInv ==
  ASSUME TypeOK, TypeOK', IInv, NEW c \in pending,
         wait'[c] \in {wait[c], Later(wait[c])}, hist'[c] = hist[c],
         UNCHANGED <<windows, nextId, advert>>, NothingInherited',
         \A k \in Keys : outstanding'[k] = {} => outstanding[k] = {}
  PROVE  CallInv(wait[c], hist[c], outstanding)'
<1> DEFINE w == wait[c]
           v == wait'[c]
<1>1. w \in WaitRec /\ hist[c] \in HistRec /\ CallInv(w, hist[c], outstanding)
  BY DEF TypeOK, IInv
<1>2. /\ v.kind = w.kind /\ v.watch = w.watch /\ v.known = w.known
      /\ v.running = w.running /\ v.round = w.round /\ v.quietRounds = w.quietRounds
      /\ v.dirty = w.dirty
  BY <1>1 DEF Later, WaitRec
<1>3. \A x \in XWins : SupportsPing(x)' <=> SupportsPing(x)
  <2> SUFFICES ASSUME NEW x \in XWins PROVE SupportsPing(x)' <=> SupportsPing(x)
    OBVIOUS
  <2>1. SupportsPing(x) <=> (Observer /\ advert[x])
    BY SupportIs DEF IInv
  <2>2. SupportsPing(x)' <=> (Observer /\ advert[x])'
    <3>1. /\ support'[x] \subseteq {Observer /\ advert'[x]}
          /\ (Observer /\ advert'[x]) \in BOOLEAN
      BY ConstantsAssumption DEF NothingInherited, TypeOK
    <3> QED BY <3>1, CacheTells DEF SupportsPing
  <2> QED BY <2>1, <2>2
<1>4. \A i \in Ids, k \in Keys : Watches(w, i, k)' <=> Watches(w, i, k)
  BY <1>2, <1>3 DEF Watches, Relevant, Pingable, Keys
<1>5. RoundInv(w, hist[c], outstanding)'
  BY <1>1, <1>2, <1>4 DEF RoundInv, CallInv
<1> QED BY <1>1, <1>2, <1>5 DEF CallInv, CalmInv, StaleInv, HistRec

\* A pong to the ping of key k: stale or heard.
LEMMA AnsweredInv ==
  ASSUME TypeOK, IInv, NEW k \in Keys, NEW c \in pending
  PROVE  CallInv(wait[c], Answered(hist, k)[c], [outstanding EXCEPT ![k] = {}])
<1> DEFINE w == wait[c]
           h == hist[c]
           g == Answered(hist, k)[c]
           out == [outstanding EXCEPT ![k] = {}]
<1>1. c \in Calls /\ w \in WaitRec /\ h \in HistRec /\ CallInv(w, h, outstanding)
  BY DEF TypeOK, IInv
<1>2. /\ g.calm = h.calm
      /\ g.stale = h.stale \ {k}
      /\ h.heard \subseteq g.heard
      /\ k \notin h.stale => k \in g.heard
  BY <1>1 DEF Answered, HistRec
<1>3. /\ out[k] = {}
      /\ \A j \in Keys : j # k => out[j] = outstanding[j]
  BY DEF TypeOK
<1> HIDE DEF g, out
<1>4. StaleInv(g, out)
  BY <1>1, <1>2, <1>3 DEF StaleInv, CallInv, HistRec
<1>5. RoundInv(w, g, out)
  BY <1>1, <1>2, <1>3 DEF RoundInv, CallInv
<1> QED BY <1>1, <1>2, <1>4, <1>5 DEF CallInv, CalmInv, g, out

\* Nothing waits at first.
LEMMA InitInv == Init => IInv
<1> SUFFICES ASSUME Init PROVE IInv
  OBVIOUS
<1>1. IdsGiven /\ (\A x \in XWins : ~Owns(x))
  BY DEF Init, IdsGiven, Open, Owns, WindowsOf
<1>2. NothingInherited
  BY DEF Init, NothingInherited, Keys
<1> QED BY <1>1, <1>2 DEF Init, IInv, SettledOnlyWhenHeard, LastRoundQuiet, SettledReplies

\* A step that sends no reply and keeps the rest of the invariant keeps it all.
LEMMA SilentInv ==
  ASSUME replies' = {}, IdsGiven', NothingInherited', pending' = pending,
         \A c \in pending : CallInv(wait[c], hist[c], outstanding)'
  PROVE  IInv'
  BY DEF IInv, SettledOnlyWhenHeard, LastRoundQuiet, SettledReplies

\* A window that opens is new to every waiting call.
LEMMA RegisterInv ==
  ASSUME TypeOK, TypeOK', IInv, NEW k \in Keys, Register(k),
         k \in XWins => ~Owns(k),
         UNCHANGED <<support, outstanding>>,
         \A x \in XWins : x # k => advert'[x] = advert[x]
  PROVE  IInv'
<1>1. /\ nextId \in Ids /\ nextId' = nextId + 1
      /\ windows' = [windows EXCEPT ![nextId] = {k}]
      /\ replies' = {} /\ pending' = pending
      /\ wait' = ToldActivity({nextId}) /\ hist' = Ruffled({nextId})
  BY DEF Register
<1>2. windows[nextId] = {}
  BY <1>1 DEF IInv, IdsGiven, Open, Ids
<1>3. IdsGiven'
  <2>1. Open' \subseteq Open \cup {nextId}
    BY <1>1 DEF Open, TypeOK
  <2>2. nextId \in Nat /\ nextId >= 1 /\ Open \subseteq 1..(nextId - 1)
    BY <1>1, ConstantsAssumption DEF Ids, IInv, IdsGiven
  <2>3. 1..(nextId - 1) \cup {nextId} \subseteq 1..(nextId' - 1)
    BY <1>1, <2>2
  <2> QED BY <2>1, <2>2, <2>3 DEF IdsGiven
<1>4. \A x \in XWins : x # k => (Owns(x)' <=> Owns(x))
  <2> SUFFICES ASSUME NEW x \in XWins, x # k
               PROVE  \A i \in Ids : windows'[i] = {x} <=> windows[i] = {x}
    BY DEF Owns, WindowsOf
  <2> QED BY <1>1, <1>2 DEF TypeOK
<1>5. Owns(k)'
  BY <1>1 DEF Owns, WindowsOf, TypeOK
<1>6. NothingInherited'
  BY <1>4, <1>5 DEF NothingInherited, IInv
<1>7. ASSUME NEW c \in pending PROVE CallInv(wait[c], hist[c], outstanding)'
  <2>1. c \in Calls /\ wait[c].known \subseteq 1..(nextId - 1)
    BY DEF IInv, CallInv, TypeOK
  <2>2. ASSUME NEW i \in Ids, NEW j \in Keys, i \in wait[c].known, windows'[i] = {j}
        PROVE  windows[i] = {j} /\ (Pingable(j)' => Pingable(j)) /\ outstanding'[j] = outstanding[j]
    <3>1. windows[i] = {j}
      BY <1>1, <2>1, <2>2 DEF TypeOK, Ids
    <3>2. j \in XWins => j # k
      BY <3>1 DEF Owns, WindowsOf
    <3>3. Pingable(j)' => Pingable(j)
      BY <3>2 DEF Pingable, SupportsPing, Keys
    <3> QED BY <3>1, <3>3
  <2>3. hist'[c].stale \subseteq Ruffled({nextId})[c].stale
    BY <1>1
  <2>4. wait'[c] = NoteActivity(wait[c], {nextId})
    BY <1>1, <2>1 DEF ToldActivity
  <2>5. {nextId} \in SUBSET Ids /\ nextId' \in {nextId, nextId + 1}
    BY <1>1
  <2>6. /\ hist'[c].calm = Ruffled({nextId})[c].calm
        /\ hist'[c].heard = Ruffled({nextId})[c].heard
        /\ \A j \in hist'[c].stale : outstanding'[j] = outstanding[j]
    BY <1>1
  <2> QED BY <2>2, <2>3, <2>4, <2>5, <2>6, EventInv
<1> QED BY <1>1, <1>3, <1>6, <1>7, SilentInv

\* A Wayland window that closes takes no key out of a running round.
LEMMA UnregisterInv ==
  ASSUME TypeOK, TypeOK', IInv, NEW I \in SUBSET Ids, Unregister(I),
         hist' = Ruffled(I),
         \A i \in I : \E c \in Clients : windows[i] = {c},
         UNCHANGED <<support, outstanding, advert>>
  PROVE  IInv'
<1>1. /\ windows' = [i \in Ids |-> IF i \in I THEN {} ELSE windows[i]]
      /\ wait' = ToldClosed(I)
      /\ replies' = {} /\ pending' = pending /\ nextId' = nextId
  BY DEF Unregister
<1>2. IdsGiven'
  BY <1>1 DEF IInv, IdsGiven, Open
<1>3. \A x \in XWins : Owns(x)' <=> Owns(x)
  BY <1>1, ConstantsAssumption DEF Owns, WindowsOf
<1>4. NothingInherited'
  BY <1>3 DEF NothingInherited, IInv
<1>5. ASSUME NEW c \in pending PROVE CallInv(wait[c], hist[c], outstanding)'
  <2>1. c \in Calls
    BY DEF TypeOK
  <2>2. ASSUME NEW i \in Ids, NEW j \in Keys, i \in wait[c].known, windows'[i] = {j}
        PROVE  windows[i] = {j} /\ (Pingable(j)' => Pingable(j)) /\ outstanding'[j] = outstanding[j]
    BY <1>1, <2>2 DEF Pingable, SupportsPing
  <2>3. wait'[c] = NoteClosed(wait[c], I)
    BY <1>1, <2>1 DEF ToldClosed
  <2> QED BY <1>1, <2>2, <2>3, EventInv
<1> QED BY <1>1, <1>2, <1>4, <1>5, SilentInv

\* An X11 window that closes leaves neither a ping nor a cached support behind.
LEMMA UnmapInv ==
  ASSUME TypeOK, TypeOK', IInv, NEW x \in XWins, UnmapX11(x)
  PROVE  IInv'
<1> DEFINE I == WindowsOf(x)
<1>1. /\ windows' = [i \in Ids |-> IF i \in I THEN {} ELSE windows[i]]
      /\ wait' = ToldClosed(I)
      /\ hist' = Forgotten(Ruffled(I), x)
      /\ replies' = {} /\ pending' = pending /\ nextId' = nextId /\ advert' = advert
      /\ outstanding' = [outstanding EXCEPT ![x] = {}]
      /\ support' = [support EXCEPT ![x] = {}]
  BY DEF UnmapX11, Unregister, ForgetPing
<1>2. I \in SUBSET Ids /\ x \in Keys
  BY DEF WindowsOf, Keys
<1>3. IdsGiven'
  BY <1>1 DEF IInv, IdsGiven, Open
<1>4. \A y \in XWins : y # x => (Owns(y)' <=> Owns(y))
  BY <1>1 DEF Owns, WindowsOf
<1>5. NothingInherited'
  BY <1>1, <1>2, <1>4 DEF NothingInherited, IInv, TypeOK, Keys
<1>6. ASSUME NEW c \in pending PROVE CallInv(wait[c], hist[c], outstanding)'
  <2>1. c \in Calls
    BY DEF TypeOK
  <2>2. ASSUME NEW i \in Ids, NEW j \in Keys, i \in wait[c].known, windows'[i] = {j}
        PROVE  windows[i] = {j} /\ (Pingable(j)' => Pingable(j)) /\ outstanding'[j] = outstanding[j]
    <3>1. windows[i] = {j} /\ j # x
      BY <1>1, <2>2 DEF WindowsOf
    <3> QED BY <1>1, <3>1 DEF Pingable, SupportsPing, TypeOK, Keys
  <2>3. wait'[c] = NoteClosed(wait[c], I)
    BY <1>1, <2>1 DEF ToldClosed
  <2>4. /\ hist'[c].calm = Ruffled(I)[c].calm
        /\ hist'[c].heard = Ruffled(I)[c].heard
        /\ hist'[c].stale = Ruffled(I)[c].stale \ {x}
        /\ Ruffled(I)[c].stale \subseteq Keys
    <3> DEFINE h == Ruffled(I)[c]
    <3>1. h \in HistRec
      BY <2>1, RuffledType
    <3>2. hist'[c] = [h EXCEPT !.stale = @ \ {x}]
      BY <1>1, <2>1 DEF Forgotten
    <3> HIDE DEF h
    <3>3. /\ hist'[c].calm = h.calm
          /\ hist'[c].heard = h.heard
          /\ hist'[c].stale = h.stale \ {x}
          /\ h.stale \subseteq Keys
      BY <3>1, <3>2 DEF HistRec
    <3> QED BY <3>3 DEF h
  <2>5. \A k \in hist'[c].stale : outstanding'[k] = outstanding[k]
    BY <1>1, <2>4 DEF TypeOK
  <2>6. \A i \in Ids, j \in Keys : i \in wait[c].known /\ windows'[i] = {j} =>
          /\ windows[i] = {j}
          /\ Pingable(j)' => Pingable(j)
          /\ outstanding'[j] = outstanding[j]
    BY <2>2
  <2>7. /\ wait'[c] \in {NoteActivity(wait[c], I), NoteClosed(wait[c], I)}
        /\ hist'[c].stale \subseteq Ruffled(I)[c].stale
        /\ nextId' \in {nextId, nextId + 1}
    BY <1>1, <2>3, <2>4
  <2> HIDE DEF I
  <2> QED BY <1>2, <2>4, <2>5, <2>6, <2>7, EventInv
<1> QED BY <1>1, <1>3, <1>5, <1>6, SilentInv

\* A pong makes its key heard, and may end rounds.
LEMMA PongInv ==
  ASSUME TypeOK, TypeOK', IInv, NEW k \in Keys, outstanding' = [outstanding EXCEPT ![k] = {}],
         EvaluateWaits(pending, wait, Answered(hist, k), outstanding'),
         UNCHANGED <<windows, nextId, advert>>
  PROVE  IInv'
<1>1. IdsGiven /\ NothingInherited
  BY DEF IInv
<1>2. \A c \in pending : CallInv(wait[c], Answered(hist, k)[c], outstanding')
  BY AnsweredInv
<1>3. \A x \in XWins : ~Owns(x) => outstanding'[x] = {}
  BY <1>1 DEF NothingInherited, TypeOK, Keys
<1>4. pending \in SUBSET Calls /\ wait \in [Calls -> WaitRec]
  BY DEF TypeOK
<1> QED BY <1>1, <1>2, <1>3, <1>4, EvaluateInv

\* A new call counts every ping that is outstanding as stale.
LEMMA StartInv ==
  ASSUME TypeOK, TypeOK', IInv, NEW c \in Calls, NEW kind \in AllKinds,
         NEW watch \in SUBSET Ids, NEW t \in Nat, StartWait(c, kind, watch, t)
  PROVE  IInv'
<1> DEFINE w == NewWait(kind, watch, Open, t)
           h == [NoHist EXCEPT !.stale = {k \in Keys : outstanding[k] # {}},
                               !.firstId = nextId]
           ws == [wait EXCEPT ![c] = w]
           hs == [hist EXCEPT ![c] = h]
           P == pending \cup {c}
<1>1. w \in WaitRec
  BY NewWaitType DEF Open
<1>2. h \in HistRec /\ h.stale = {k \in Keys : outstanding[k] # {}}
  BY NoHistType DEF HistRec, TypeOK
<1>3. w.known = Open /\ w.running = FALSE /\ w.quietRounds = 0
  BY DEF NewWait
<1>4. TrackerTick(P, ws, hs)
  BY DEF StartWait
<1> HIDE DEF w, h
<1>5. CallInv(w, h, outstanding)
  BY <1>2, <1>3 DEF CallInv, CalmInv, StaleInv, RoundInv, IInv, IdsGiven
<1>6. /\ ws \in [Calls -> WaitRec] /\ hs \in [Calls -> HistRec]
      /\ P \in SUBSET Calls
  BY <1>1, <1>2 DEF TypeOK
<1>7. \A b \in P : CallInv(ws[b], hs[b], outstanding)
  BY <1>5 DEF IInv, TypeOK
<1>8. UNCHANGED <<windows, nextId, advert>>
  BY DEF StartWait
<1> HIDE DEF ws, hs, P
<1> QED BY <1>4, <1>6, <1>7, <1>8, TickInv DEF IInv

\* A heartbeat pings only what has no ping outstanding.
LEMMA HeartbeatInv == ASSUME TypeOK, TypeOK', IInv, Heartbeat PROVE IInv'
<1> DEFINE K == {k \in Keys : Owns(k) /\ Pingable(k)}
           X == {x \in XWins : Owns(x)}
<1>1. /\ SendPings(K) /\ support' = Probed(X) /\ replies' = {}
      /\ UNCHANGED <<windows, nextId, alive, advert, pending, wait, hist>>
  BY DEF Heartbeat
<1>2. outstanding' = Pinged(K) /\ \A k \in K : FreshSerial(k) # {}
  BY <1>1 DEF SendPings
<1>3. \A k \in Keys : outstanding'[k] = {} => outstanding[k] = {}
  BY <1>2 DEF Pinged
<1>4. \A x \in XWins : Owns(x)' <=> Owns(x)
  BY <1>1 DEF Owns, WindowsOf
<1>5. NothingInherited'
  <2> SUFFICES ASSUME NEW x \in XWins
               PROVE  /\ ~Owns(x) => outstanding'[x] = {} /\ support'[x] = {}
                      /\ support'[x] \subseteq {Observer /\ advert[x]}
    BY <1>1, <1>4 DEF NothingInherited
  <2>1. CASE Owns(x)
    <3>1. support'[x] = {SupportsPing(x)}
      BY <1>1, <2>1 DEF Probed
    <3>2. SupportsPing(x) = (Observer /\ advert[x])
      BY SupportIs, ConstantsAssumption DEF SupportsPing, TypeOK, IInv
    <3> QED BY <2>1, <3>1, <3>2
  <2>2. CASE ~Owns(x)
    BY <1>1, <1>2, <2>2 DEF Probed, Pinged, NothingInherited, IInv, Keys
  <2> QED BY <2>1, <2>2
<1>6. IdsGiven'
  BY <1>1 DEF IInv, IdsGiven, Open
<1> QED BY <1>1, <1>3, <1>5, <1>6, QuietStepInv, SilentInv

\* Time alone changes no round.
LEMMA ElapseInv == ASSUME TypeOK, TypeOK', IInv, Elapse PROVE IInv'
<1>1. /\ replies' = {}
      /\ UNCHANGED <<windows, nextId, alive, advert, support, outstanding, net, pending, hist>>
  BY DEF Elapse
<1>2. \A c \in pending : wait'[c] = Later(wait[c])
  BY DEF Elapse, TypeOK
<1>3. IdsGiven' /\ NothingInherited'
  BY <1>1 DEF IInv, IdsGiven, Open, NothingInherited, Owns, WindowsOf
<1> QED BY <1>1, <1>2, <1>3, QuietStepInv, SilentInv

\* Every action keeps the invariant.
LEMMA NextInv == TypeOK /\ TypeOK' /\ IInv /\ [Next]_vars => IInv'
<1> SUFFICES ASSUME TypeOK, TypeOK', IInv, [Next]_vars PROVE IInv'
  OBVIOUS
<1>1. ASSUME NEW c \in Clients, NewToplevel(c) PROVE IInv'
  BY <1>1, RegisterInv, ConstantsAssumption DEF NewToplevel, pingVars, Keys
<1>2. ASSUME NEW c \in Clients, ClientDies(c) PROVE IInv'
  <2>1. WindowsOf(c) \in SUBSET Ids /\ \A i \in WindowsOf(c) : windows[i] = {c}
    BY DEF WindowsOf
  <2> QED BY <1>2, <2>1, UnregisterInv DEF ClientDies, pingVars
<1>3. ASSUME NEW x \in XWins, MapX11(x) PROVE IInv'
  <2>1. \A y \in XWins : y # x => advert'[y] = advert[y]
    BY <1>3 DEF MapX11, TypeOK
  <2> QED BY <1>3, <2>1, RegisterInv DEF MapX11, pingVars, Keys
<1>4. ASSUME NEW x \in XWins, UnmapX11(x) PROVE IInv'
  BY <1>4, UnmapInv
<1>5. ASSUME NEW i \in Ids, ToplevelDestroyed(i) PROVE IInv'
  BY <1>5, UnregisterInv DEF ToplevelDestroyed, pingVars
<1>6. ASSUME NEW i \in Ids, Commit(i) PROVE IInv'
  <2>1. /\ wait' = ToldActivity({i}) /\ hist' = Ruffled({i}) /\ replies' = {}
        /\ UNCHANGED <<windows, nextId, pending, advert, support, outstanding>>
    BY <1>6 DEF Commit, pingVars
  <2>2. ASSUME NEW c \in pending PROVE CallInv(wait[c], hist[c], outstanding)'
    <3>1. wait'[c] = NoteActivity(wait[c], {i})
      BY <2>1 DEF ToldActivity, TypeOK
    <3>2. \A j \in Keys : Pingable(j)' => Pingable(j)
      BY <2>1 DEF Pingable, SupportsPing
    <3> QED BY <2>1, <3>1, <3>2, EventInv
  <2>3. IdsGiven' /\ NothingInherited'
    BY <2>1 DEF IInv, IdsGiven, Open, NothingInherited, Owns, WindowsOf
  <2> QED BY <2>1, <2>2, <2>3, SilentInv
<1>7. ASSUME NEW c \in Calls, NEW kind \in Kinds, NEW t \in Timeouts,
             NEW watch \in {{}} \cup {{i} : i \in Ids}, StartWait(c, kind, watch, t)
      PROVE  IInv'
  BY <1>7, StartInv, ConstantsAssumption
<1>8. ASSUME NEW c \in Clients, Pong(c) PROVE IInv'
  BY <1>8, PongInv DEF Pong, Keys
<1>9. ASSUME NEW x \in XWins, NEW s \in Serials, X11Pong(x, s) PROVE IInv'
  <2>1. CASE Matches(x, s)
    BY <1>9, <2>1, PongInv DEF X11Pong, Keys
  <2>2. CASE ~Matches(x, s)
    <3>1. outstanding' = outstanding
      BY <1>9, <2>2 DEF X11Pong, TypeOK, Keys
    <3>2. EvaluateWaits(pending, wait, hist, outstanding')
      BY <1>9, <2>2 DEF X11Pong
    <3>3. \A y \in XWins : ~Owns(y) => outstanding'[y] = {}
      BY <3>1 DEF IInv, NothingInherited
    <3>4. /\ IdsGiven /\ NothingInherited
          /\ \A c \in pending : CallInv(wait[c], hist[c], outstanding')
      BY <3>1 DEF IInv
    <3>5. pending \in SUBSET Calls /\ wait \in [Calls -> WaitRec]
      BY DEF TypeOK
    <3>6. UNCHANGED <<windows, nextId, advert>>
      BY <1>9 DEF X11Pong
    <3> QED BY <3>2, <3>3, <3>4, <3>5, <3>6, EvaluateInv
  <2> QED BY <2>1, <2>2
<1>10. ASSUME TimerTick PROVE IInv'
  BY <1>10, TickInv DEF TimerTick, IInv, TypeOK
<1>11. ASSUME Heartbeat PROVE IInv'
  BY <1>11, HeartbeatInv
<1>12. ASSUME Elapse PROVE IInv'
  BY <1>12, ElapseInv
<1>13. CASE UNCHANGED vars
  <2>1. IdsGiven' /\ NothingInherited'
    BY <1>13 DEF vars, IInv, IdsGiven, Open, NothingInherited, Owns, WindowsOf
  <2>2. \A k \in Keys : Pingable(k)' = Pingable(k)
    BY <1>13 DEF vars, Pingable, SupportsPing
  <2>3. (\A c \in pending : CallInv(wait[c], hist[c], outstanding))'
    BY <1>13, <2>2 DEF vars, IInv, CallInv, CalmInv, StaleInv, RoundInv, Watches, Relevant
  <2>4. SettledOnlyWhenHeard' /\ LastRoundQuiet'
    BY <1>13, <2>2 DEF vars, IInv, SettledOnlyWhenHeard, LastRoundQuiet, SettledReplies,
       Open, Relevant
  <2> QED BY <2>1, <2>3, <2>4 DEF IInv
<1> QED
  BY <1>1, <1>2, <1>3, <1>4, <1>5, <1>6, <1>7, <1>8, <1>9, <1>10, <1>11, <1>12, <1>13
  DEF Next, Activity, CallStarts, Answer

\* The strengthening that makes the safety properties inductive.
THEOREM Invariance == Spec => []IInv
<1>1. TypeOK /\ IInv /\ [Next]_vars => (TypeOK /\ IInv)'
  BY NextType, NextInv
<1> QED BY InitType, InitInv, <1>1, PTL DEF Spec

\* evaluate_waits with QUIET_ROUNDS = 2: however commits, pongs, heartbeats,
\* other calls and X11 id reuse interleave, an interaction is reported settled
\* only after every client it is about answered a ping sent after the action.
THEOREM Heard == Spec => []SettledOnlyWhenHeard
<1>1. IInv => SettledOnlyWhenHeard
  BY DEF IInv
<1> QED BY <1>1, Invariance, PTL

\* round_dirty: the round that settles an interaction saw no relevant activity.
THEOREM Quiet == Spec => []LastRoundQuiet
<1>1. IInv => LastRoundQuiet
  BY DEF IInv
<1> QED BY <1>1, Invariance, PTL

\* forget_x11_ping: the ping table and the support cache never answer for an
\* X11 window that is gone, so a reused X11 id starts afresh.
THEOREM Afresh == Spec => []NothingInherited
<1>1. IInv => NothingInherited
  BY DEF IInv
<1> QED BY <1>1, Invariance, PTL

-----------------------------------------------------------------------------
(* ReplyAccountsForWindows is an invariant of Tracker.  A waiting call is  *)
(* told of each event; Accounts says that its record is, at every moment,  *)
(* the record it would have to report if the call ended then.              *)

(***************************************************************************)
(* The wait w of a call that began when f was the next id, in a state with *)
(* the windows O open and the next id n.                                   *)
(***************************************************************************)
Accounts(w, f, O, n) ==
  /\ f \in 1..n
  /\ w.known \subseteq 1..(f - 1)
  /\ O \cap 1..(f - 1) \subseteq w.known
  /\ w.closed = {i \in 1..(n - 1) : /\ i \in w.known \/ i >= f
                                    /\ Relevant(w, i)
                                    /\ i \notin O}

Accounted ==
  /\ \A c \in pending : Accounts(wait[c], hist[c].firstId, Open, nextId)
  /\ ReplyAccountsForWindows

-----------------------------------------------------------------------------
(* What the events do to an account *)

\* An account depends on three fields of the wait only.
LEMMA SameAccount ==
  ASSUME NEW w, NEW v, NEW f, NEW O, NEW n, Accounts(w, f, O, n),
         v.watch = w.watch, v.known = w.known, v.closed = w.closed
  PROVE  Accounts(v, f, O, n)
  BY DEF Accounts, Relevant

\* A window that opens is new, for it has a new id.
LEMMA OpenedAccount ==
  ASSUME NEW w, NEW v, NEW f, NEW O, NEW n \in Nat, Accounts(w, f, O, n),
         v.watch = w.watch, v.known = w.known, v.closed = w.closed
  PROVE  Accounts(v, f, O \cup {n}, n + 1)
<1>1. /\ f \in 1..n /\ f \in 1..(n + 1)
      /\ w.known \subseteq 1..(f - 1)
      /\ O \cap 1..(f - 1) \subseteq w.known
      /\ n \notin 1..(f - 1)
  BY DEF Accounts
<1>2. (O \cup {n}) \cap 1..(f - 1) \subseteq v.known
  BY <1>1
<1>3. \A i : i \in 1..((n + 1) - 1) /\ i \notin O \cup {n}
             <=> i \in 1..(n - 1) /\ i \notin O \cup {n}
  OBVIOUS
<1>4. \A i \in 1..(n - 1) : i # n
  OBVIOUS
<1>5. v.closed = {i \in 1..((n + 1) - 1) : /\ i \in v.known \/ i >= f
                                           /\ Relevant(v, i)
                                           /\ i \notin O \cup {n}}
  BY <1>3, <1>4 DEF Accounts, Relevant
<1> QED BY <1>1, <1>2, <1>5 DEF Accounts

\* A window that closes is noted if it is relevant.
LEMMA ClosedAccount ==
  ASSUME NEW w, NEW v, NEW f, NEW O, NEW n \in Nat, NEW I, Accounts(w, f, O, n),
         O \subseteq 1..(n - 1), I \subseteq O,
         v.watch = w.watch, v.known = w.known,
         v.closed = w.closed \cup {i \in I : Relevant(w, i)}
  PROVE  Accounts(v, f, O \ I, n)
<1>1. ASSUME NEW i \in I PROVE i \in 1..(n - 1) /\ (i \in w.known \/ i >= f)
  <2>1. i \in O /\ i \in 1..(n - 1)
    OBVIOUS
  <2>2. f \in 1..n /\ O \cap 1..(f - 1) \subseteq w.known
    BY DEF Accounts
  <2>3. CASE i \in 1..(f - 1)
    BY <2>1, <2>2, <2>3
  <2>4. CASE i \notin 1..(f - 1)
    BY <2>1, <2>2, <2>4
  <2> QED BY <2>1, <2>3, <2>4
<1>2. v.closed = {i \in 1..(n - 1) : /\ i \in v.known \/ i >= f
                                     /\ Relevant(v, i)
                                     /\ i \notin O \ I}
  <2> DEFINE Since(i) == (i \in w.known \/ i >= f) /\ Relevant(w, i)
  <2>1. w.closed = {i \in 1..(n - 1) : Since(i) /\ i \notin O}
    BY DEF Accounts
  <2>2. \A i : Relevant(v, i) <=> Relevant(w, i)
    BY DEF Relevant
  <2>3. \A i : i \in v.closed <=> i \in 1..(n - 1) /\ Since(i) /\ i \notin O \ I
    <3> HIDE DEF Since
    <3>1. \A i \in I : Relevant(w, i) => Since(i)
      BY <1>1 DEF Since
    <3>2. \A i : Since(i) => Relevant(w, i)
      BY DEF Since
    <3> QED BY <1>1, <2>1, <3>1, <3>2
  <2> QED BY <2>2, <2>3
<1> QED BY <1>2 DEF Accounts

\* A new wait knows exactly the open windows.
LEMMA NewAccount ==
  ASSUME NEW kind, NEW watch, NEW O, NEW t, NEW n \in Nat \ {0}, O \subseteq 1..(n - 1)
  PROVE  Accounts(NewWait(kind, watch, O, t), n, O, n)
<1> DEFINE w == NewWait(kind, watch, O, t)
<1>1. w.known = O /\ w.closed = {}
  BY DEF NewWait
<1> HIDE DEF w
<1>2. \A i \in 1..(n - 1) : ~(i >= n)
  OBVIOUS
<1>3. Accounts(w, n, O, n)
  BY <1>1, <1>2 DEF Accounts
<1> QED BY <1>3 DEF w

\* What the notes change and leave of an account.
LEMMA NotedAccount ==
  ASSUME NEW w \in WaitRec, NEW I
  PROVE  /\ NoteActivity(w, I).watch = w.watch
         /\ NoteActivity(w, I).known = w.known
         /\ NoteActivity(w, I).closed = w.closed
         /\ NoteClosed(w, I).watch = w.watch
         /\ NoteClosed(w, I).known = w.known
         /\ NoteClosed(w, I).closed = w.closed \cup {i \in I : Relevant(w, i)}
  BY DEF NoteActivity, NoteClosed, Touched, Gone, WaitRec

\* What a round, its end and the passing of time do not touch.
LEMMA SameRecord ==
  ASSUME NEW w \in WaitRec, NEW out, NEW v \in {Started(w), Evaluated(w, out), Later(w)}
  PROVE  v.watch = w.watch /\ v.known = w.known /\ v.closed = w.closed
  BY DEF Started, Evaluated, Later, WaitRec

-----------------------------------------------------------------------------
(* evaluate_waits *)

\* An evaluation leaves the accounts of the calls that wait on.
LEMMA EvaluateAccounts ==
  ASSUME IdsGiven, NEW P \in SUBSET Calls, NEW ws \in [Calls -> WaitRec], NEW hs, NEW out,
         \A c \in P : Accounts(ws[c], hs[c].firstId, Open, nextId),
         EvaluateWaits(P, ws, hs, out),
         UNCHANGED <<windows, nextId>>
  PROVE  Accounted'
<1>1. Open' = Open /\ nextId' = nextId
  BY DEF Open
<1>2. ASSUME NEW c \in pending' PROVE Accounts(wait[c], hist[c].firstId, Open, nextId)'
  <2>1. c \in P /\ c \in Calls /\ wait'[c] = Evaluated(ws[c], out) /\ hist'[c] = hs[c]
    BY DEF EvaluateWaits
  <2>2. /\ wait'[c].watch = ws[c].watch /\ wait'[c].known = ws[c].known
        /\ wait'[c].closed = ws[c].closed
    BY <2>1, SameRecord
  <2>3. Accounts(ws[c], hist'[c].firstId, Open', nextId')
    BY <1>1, <2>1
  <2> QED BY <2>2, <2>3, SameAccount
<1>3. ASSUME NEW r \in replies'
      PROVE  /\ r.new = {i \in Open : i >= r.hist.firstId}
             /\ r.wait.closed = {i \in 1..(nextId - 1) :
                                   /\ i \in r.wait.known \/ i >= r.hist.firstId
                                   /\ Relevant(r.wait, i)
                                   /\ i \notin Open}
  <2>1. PICK c \in P : r = ReplyTo(c, ws[c], hs[c], out)
    BY DEF EvaluateWaits
  <2>2. /\ r.new = Open \ ws[c].known /\ r.hist = hs[c]
        /\ r.wait = Evaluated(ws[c], out)
    BY <2>1 DEF ReplyTo
  <2>3. /\ r.wait.watch = ws[c].watch /\ r.wait.known = ws[c].known
        /\ r.wait.closed = ws[c].closed
    BY <2>2, SameRecord
  <2>4. Accounts(r.wait, r.hist.firstId, Open, nextId)
    <3>1. Accounts(ws[c], r.hist.firstId, Open, nextId)
      BY <2>2
    <3> QED BY <2>3, <3>1, SameAccount
  <2>5. \A i \in Open : i \notin r.wait.known <=> i >= r.hist.firstId
    BY <2>4 DEF Accounts, IdsGiven
  <2> QED BY <2>2, <2>3, <2>4, <2>5 DEF Accounts
<1> QED BY <1>1, <1>2, <1>3 DEF Accounted, ReplyAccountsForWindows, Relevant

\* So does a tick.
LEMMA TickAccounts ==
  ASSUME IdsGiven, NEW P \in SUBSET Calls, NEW ws \in [Calls -> WaitRec],
         NEW hs \in [Calls -> HistRec],
         \A c \in P : Accounts(ws[c], hs[c].firstId, Open, nextId),
         TrackerTick(P, ws, hs),
         UNCHANGED <<windows, nextId>>
  PROVE  Accounted'
<1> DEFINE S == RoundStarts(P, ws)
           out == Pinged(UNION {Targets(ws[c]) : c \in S})
           started == [c \in Calls |-> IF c \in P THEN Started(ws[c]) ELSE ws[c]]
<1>1. EvaluateWaits(P, started, Calmer(hs, S), out)
  BY DEF TrackerTick
<1>2. started \in [Calls -> WaitRec]
  BY StartedType
<1>3. ASSUME NEW c \in P
      PROVE  Accounts(started[c], Calmer(hs, S)[c].firstId, Open, nextId)
  <2>1. started[c] = Started(ws[c])
    OBVIOUS
  <2>2. /\ started[c].watch = ws[c].watch /\ started[c].known = ws[c].known
        /\ started[c].closed = ws[c].closed
    BY <2>1, SameRecord
  <2> HIDE DEF started, S
  <2>3. Calmer(hs, S)[c].firstId = hs[c].firstId
    BY DEF Calmer, HistRec
  <2>4. Accounts(ws[c], Calmer(hs, S)[c].firstId, Open, nextId)
    BY <2>3
  <2> QED BY <2>2, <2>4, SameAccount
<1> HIDE DEF S, out, started
<1> QED BY <1>1, <1>2, <1>3, EvaluateAccounts

-----------------------------------------------------------------------------
(* The actions *)

\* A step in which no call begins or ends, and no window opens or closes.
LEMMA SilentAccounts ==
  ASSUME Accounted, replies' = {}, pending' = pending,
         UNCHANGED <<windows, nextId>>,
         \A c \in pending : /\ wait'[c].watch = wait[c].watch
                            /\ wait'[c].known = wait[c].known
                            /\ wait'[c].closed = wait[c].closed
                            /\ hist'[c].firstId = hist[c].firstId
  PROVE  Accounted'
<1>1. Open' = Open /\ nextId' = nextId
  BY DEF Open
<1>2. ASSUME NEW c \in pending' PROVE Accounts(wait[c], hist[c].firstId, Open, nextId)'
  <2>1. Accounts(wait[c], hist'[c].firstId, Open', nextId')
    BY <1>1 DEF Accounted
  <2> QED BY <2>1, SameAccount
<1> QED BY <1>2 DEF Accounted, ReplyAccountsForWindows

\* Activity leaves the start of a call where it was.
LEMMA RuffledStart ==
  ASSUME TypeOK, NEW I, NEW c \in Calls
  PROVE  Ruffled(I)[c].firstId = hist[c].firstId
<1>1. hist[c] \in HistRec
  BY DEF TypeOK
<1> QED BY <1>1 DEF Ruffled, HistRec

\* The accounts of all calls when a window opens,
LEMMA RegisterAccounts ==
  ASSUME TypeOK, IInv, Accounted, NEW k \in Keys, Register(k)
  PROVE  Accounted'
<1>1. /\ nextId \in Ids /\ nextId' = nextId + 1
      /\ windows' = [windows EXCEPT ![nextId] = {k}]
      /\ wait' = ToldActivity({nextId}) /\ hist' = Ruffled({nextId})
      /\ replies' = {} /\ pending' = pending
  BY DEF Register
<1>2. Open' = Open \cup {nextId}
  <2>1. windows \in [Ids -> Option(Keys)]
    BY DEF TypeOK
  <2> QED BY <1>1, <2>1 DEF Open
<1>3. ASSUME NEW c \in pending' PROVE Accounts(wait[c], hist[c].firstId, Open, nextId)'
  <2>1. c \in pending /\ c \in Calls /\ wait[c] \in WaitRec
    BY <1>1 DEF TypeOK
  <2>2. wait'[c] = NoteActivity(wait[c], {nextId})
    BY <1>1, <2>1 DEF ToldActivity
  <2>3. hist'[c].firstId = hist[c].firstId
    BY <1>1, <2>1, RuffledStart
  <2>4. Accounts(wait[c], hist'[c].firstId, Open, nextId)
    BY <2>1, <2>3 DEF Accounted
  <2>5. /\ wait'[c].watch = wait[c].watch /\ wait'[c].known = wait[c].known
        /\ wait'[c].closed = wait[c].closed
    BY <2>1, <2>2, NotedAccount
  <2>6. nextId \in Nat
    BY <1>1 DEF Ids
  <2>7. Accounts(wait'[c], hist'[c].firstId, Open \cup {nextId}, nextId + 1)
    BY <2>4, <2>5, <2>6, OpenedAccount
  <2> QED BY <1>1, <1>2, <2>7
<1> QED BY <1>1, <1>3 DEF Accounted, ReplyAccountsForWindows

\* when windows close,
LEMMA UnregisterAccounts ==
  ASSUME TypeOK, IInv, Accounted, NEW I, I \subseteq Open, Unregister(I),
         \A c \in Calls : hist'[c].firstId = hist[c].firstId
  PROVE  Accounted'
<1>1. /\ windows' = [i \in Ids |-> IF i \in I THEN {} ELSE windows[i]]
      /\ wait' = ToldClosed(I)
      /\ replies' = {} /\ pending' = pending /\ nextId' = nextId
  BY DEF Unregister
<1>2. Open' = Open \ I
  BY <1>1 DEF Open
<1>3. ASSUME NEW c \in pending' PROVE Accounts(wait[c], hist[c].firstId, Open, nextId)'
  <2>1. c \in pending /\ c \in Calls /\ wait[c] \in WaitRec
    BY <1>1 DEF TypeOK
  <2>2. wait'[c] = NoteClosed(wait[c], I)
    BY <1>1, <2>1 DEF ToldClosed
  <2>3. Accounts(wait[c], hist'[c].firstId, Open, nextId)
    BY <2>1 DEF Accounted
  <2>4. /\ wait'[c].watch = wait[c].watch /\ wait'[c].known = wait[c].known
        /\ wait'[c].closed = wait[c].closed \cup {i \in I : Relevant(wait[c], i)}
    BY <2>1, <2>2, NotedAccount
  <2>5. nextId \in Nat /\ Open \subseteq 1..(nextId - 1)
    BY ConstantsAssumption DEF TypeOK, IInv, IdsGiven
  <2>6. Accounts(wait'[c], hist'[c].firstId, Open \ I, nextId)
    BY <2>3, <2>4, <2>5, ClosedAccount
  <2> QED BY <1>1, <1>2, <2>6
<1> QED BY <1>1, <1>3 DEF Accounted, ReplyAccountsForWindows

\* and when a call begins to wait.
LEMMA StartAccounts ==
  ASSUME TypeOK, IInv, Accounted, NEW c \in Calls, NEW kind \in AllKinds,
         NEW watch \in SUBSET Ids, NEW t \in Nat, StartWait(c, kind, watch, t)
  PROVE  Accounted'
<1> DEFINE w == NewWait(kind, watch, Open, t)
           h == [NoHist EXCEPT !.stale = {k \in Keys : outstanding[k] # {}},
                               !.firstId = nextId]
           ws == [wait EXCEPT ![c] = w]
           hs == [hist EXCEPT ![c] = h]
           P == pending \cup {c}
<1>1. w \in WaitRec
  BY NewWaitType DEF Open
<1>2. h \in HistRec /\ h.firstId = nextId
  BY NoHistType DEF HistRec, TypeOK
<1>3. TrackerTick(P, ws, hs) /\ UNCHANGED <<windows, nextId>>
  BY DEF StartWait
<1>4. Accounts(w, nextId, Open, nextId)
  <2>1. nextId \in Nat \ {0} /\ Open \subseteq 1..(nextId - 1)
    BY ConstantsAssumption DEF TypeOK, IInv, IdsGiven
  <2> QED BY <2>1, NewAccount
<1> HIDE DEF w, h
<1>5. /\ ws \in [Calls -> WaitRec] /\ hs \in [Calls -> HistRec]
      /\ P \in SUBSET Calls
  BY <1>1, <1>2 DEF TypeOK
<1>6. \A b \in P : Accounts(ws[b], hs[b].firstId, Open, nextId)
  BY <1>2, <1>4 DEF Accounted, TypeOK
<1> HIDE DEF ws, hs, P
<1> QED BY <1>3, <1>5, <1>6, TickAccounts DEF IInv

\* A pong that is the answer awaited, or one that is not.
LEMMA PongAccounts ==
  ASSUME TypeOK, IInv, Accounted, NEW hs, NEW out, EvaluateWaits(pending, wait, hs, out),
         \A c \in pending : hs[c].firstId = hist[c].firstId,
         UNCHANGED <<windows, nextId>>
  PROVE  Accounted'
<1>1. \A c \in pending : Accounts(wait[c], hs[c].firstId, Open, nextId)
  BY DEF Accounted
<1>2. pending \in SUBSET Calls /\ wait \in [Calls -> WaitRec]
  BY DEF TypeOK
<1> QED BY <1>1, <1>2, EvaluateAccounts DEF IInv

\* A pong leaves the start of a call where it was.
LEMMA AnsweredStart ==
  ASSUME TypeOK, NEW k \in Keys, NEW c \in Calls
  PROVE  Answered(hist, k)[c].firstId = hist[c].firstId
<1>1. hist[c] \in HistRec
  BY DEF TypeOK
<1> QED BY <1>1 DEF Answered, HistRec

\* Every action keeps the accounts.
LEMMA NextAccounts == TypeOK /\ IInv /\ Accounted /\ [Next]_vars => Accounted'
<1> SUFFICES ASSUME TypeOK, IInv, Accounted, [Next]_vars PROVE Accounted'
  OBVIOUS
<1>1. ASSUME NEW k \in Keys, Register(k) PROVE Accounted'
  BY <1>1, RegisterAccounts
<1>2. ASSUME NEW i \in Ids, ToplevelDestroyed(i) PROVE Accounted'
  <2>1. {i} \subseteq Open /\ Unregister({i}) /\ hist' = Ruffled({i})
    BY <1>2 DEF ToplevelDestroyed, Open
  <2> QED BY <2>1, RuffledStart, UnregisterAccounts
<1>3. ASSUME NEW c \in Clients, ClientDies(c) PROVE Accounted'
  <2>1. WindowsOf(c) \subseteq Open /\ Unregister(WindowsOf(c)) /\ hist' = Ruffled(WindowsOf(c))
    BY <1>3 DEF ClientDies, Open, WindowsOf
  <2> QED BY <2>1, RuffledStart, UnregisterAccounts
<1>4. ASSUME NEW x \in XWins, UnmapX11(x) PROVE Accounted'
  <2>1. /\ WindowsOf(x) \subseteq Open /\ Unregister(WindowsOf(x))
        /\ hist' = Forgotten(Ruffled(WindowsOf(x)), x)
    BY <1>4 DEF UnmapX11, Open, WindowsOf
  <2>2. ASSUME NEW c \in Calls PROVE hist'[c].firstId = hist[c].firstId
    <3>1. Ruffled(WindowsOf(x))[c] \in HistRec
      BY RuffledType
    <3>2. hist'[c].firstId = Ruffled(WindowsOf(x))[c].firstId
      BY <2>1, <3>1 DEF Forgotten, HistRec
    <3> QED BY <3>2, RuffledStart
  <2> QED BY <2>1, <2>2, UnregisterAccounts
<1>5. ASSUME NEW i \in Ids, Commit(i) PROVE Accounted'
  <2>1. /\ wait' = ToldActivity({i}) /\ hist' = Ruffled({i}) /\ replies' = {}
        /\ pending' = pending /\ UNCHANGED <<windows, nextId>>
    BY <1>5 DEF Commit
  <2>2. ASSUME NEW c \in pending
        PROVE  /\ wait'[c].watch = wait[c].watch /\ wait'[c].known = wait[c].known
               /\ wait'[c].closed = wait[c].closed
               /\ hist'[c].firstId = hist[c].firstId
    <3>1. c \in Calls /\ wait[c] \in WaitRec /\ wait'[c] = NoteActivity(wait[c], {i})
      BY <2>1 DEF ToldActivity, TypeOK
    <3> QED BY <2>1, <3>1, NotedAccount, RuffledStart
  <2> QED BY <2>1, <2>2, SilentAccounts
<1>6. ASSUME NEW c \in Calls, NEW kind \in Kinds, NEW t \in Timeouts,
             NEW watch \in {{}} \cup {{i} : i \in Ids}, StartWait(c, kind, watch, t)
      PROVE  Accounted'
  BY <1>6, StartAccounts, ConstantsAssumption
<1>7. ASSUME NEW c \in Clients, Pong(c) PROVE Accounted'
  <2>1. \A b \in pending : Answered(hist, c)[b].firstId = hist[b].firstId
    BY AnsweredStart DEF TypeOK, Keys
  <2> QED BY <1>7, <2>1, PongAccounts DEF Pong
<1>8. ASSUME NEW x \in XWins, NEW s \in Serials, X11Pong(x, s) PROVE Accounted'
  <2> DEFINE hs == IF Matches(x, s) THEN Answered(hist, x) ELSE hist
  <2>1. \A b \in pending : hs[b].firstId = hist[b].firstId
    BY AnsweredStart DEF TypeOK, Keys
  <2>2. EvaluateWaits(pending, wait, hs, outstanding') /\ UNCHANGED <<windows, nextId>>
    BY <1>8 DEF X11Pong
  <2> HIDE DEF hs
  <2> QED BY <2>1, <2>2, PongAccounts
<1>9. ASSUME TimerTick PROVE Accounted'
  <2>1. /\ TrackerTick(pending, wait, hist) /\ UNCHANGED <<windows, nextId>>
        /\ pending \in SUBSET Calls
        /\ wait \in [Calls -> WaitRec] /\ hist \in [Calls -> HistRec]
    BY <1>9 DEF TimerTick, TypeOK
  <2> QED BY <2>1, TickAccounts DEF IInv, Accounted
<1>10. ASSUME Heartbeat PROVE Accounted'
  <2>1. replies' = {} /\ UNCHANGED <<windows, nextId, pending, wait, hist>>
    BY <1>10 DEF Heartbeat
  <2> QED BY <2>1, SilentAccounts
<1>11. ASSUME Elapse PROVE Accounted'
  <2>1. /\ replies' = {} /\ UNCHANGED <<windows, nextId, pending, hist>>
        /\ \A c \in pending : wait'[c] = Later(wait[c]) /\ wait[c] \in WaitRec
    BY <1>11 DEF Elapse, TypeOK
  <2>2. \A c \in pending : /\ wait'[c].watch = wait[c].watch
                           /\ wait'[c].known = wait[c].known
                           /\ wait'[c].closed = wait[c].closed
    BY <2>1, SameRecord
  <2> QED BY <2>1, <2>2, SilentAccounts
<1>12. CASE UNCHANGED vars
  <2>1. UNCHANGED <<windows, nextId, pending, wait, hist, replies>> /\ Open' = Open
    BY <1>12 DEF vars, Open
  <2> QED BY <2>1 DEF Accounted, ReplyAccountsForWindows
<1> QED
  BY <1>1, <1>2, <1>3, <1>4, <1>5, <1>6, <1>7, <1>8, <1>9, <1>10, <1>11, <1>12
  DEF Next, Activity, CallStarts, Answer, NewToplevel, MapX11, Keys

\* build_snapshot, known_at_start, closed_windows: whatever happens while calls
\* overlap, each reply lists as new the open windows given an id during its own
\* call, and as closed the relevant ones that went away during it.
THEOREM Accounting == Spec => []ReplyAccountsForWindows
<1>1. Init => Accounted
  BY DEF Init, Accounted, ReplyAccountsForWindows
<1>2. (TypeOK /\ IInv) /\ Accounted /\ [Next]_vars => Accounted'
  BY NextAccounts
<1>3. Accounted => ReplyAccountsForWindows
  BY DEF Accounted
<1> QED BY <1>1, <1>2, <1>3, TypeCorrect, Invariance, PTL DEF Spec
=============================================================================
