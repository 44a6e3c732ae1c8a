---------------------------- MODULE LaunchProofs ----------------------------
(***************************************************************************)
(* Proofs about Launch: the tracker keeps its invariants in the            *)
(* composition with the launch_app call, and a launch that settles shows a *)
(* window that opened during it.                                           *)
(***************************************************************************)
EXTENDS Launch, TransitionProofs

\* The wait of the launch expects a new window, from its start to its end.
KindInv == Launcher \in pending => wait[Launcher].kind = "launch"

\* What the launch settles with is not empty.
ReplyInv == \A r \in LaunchReplies : ~r.timedOut => r.new # {}

StageInv == stage \in Stages /\ (stage # "waiting" => Launcher \notin pending)

\* The invariants of the tracker.
TrackerInv == TypeOK /\ IInv /\ Accounted

LaunchInv == TrackerInv /\ KindInv /\ ReplyInv /\ StageInv

-----------------------------------------------------------------------------
(* The handlers of the tracker, for the one wait that is a launch *)

\* A launch does not settle while no window is new.
LEMMA EvaluateLaunch ==
  ASSUME NEW P \in SUBSET Calls, NEW ws \in [Calls -> WaitRec], NEW hs, NEW out,
         Launcher \in P => ws[Launcher].kind = "launch",
         EvaluateWaits(P, ws, hs, out)
  PROVE  KindInv' /\ ReplyInv' /\ pending' \subseteq P
<1>1. pending' \subseteq P
  BY DEF EvaluateWaits
<1>2. KindInv'
  <2> SUFFICES ASSUME Launcher \in pending' PROVE wait'[Launcher].kind = "launch"
    BY DEF KindInv
  <2>1. Launcher \in P /\ Launcher \in Calls /\ wait'[Launcher] = Evaluated(ws[Launcher], out)
    BY DEF EvaluateWaits
  <2> QED BY <2>1, EvaluatedFields
<1>3. ReplyInv'
  <2> SUFFICES ASSUME NEW r \in replies', r.call = Launcher, ~r.timedOut PROVE r.new # {}
    BY DEF ReplyInv, LaunchReplies
  <2>1. PICK c \in P : r = ReplyTo(c, ws[c], hs[c], out) /\ Finishes(ws[c], out)
    BY DEF EvaluateWaits
  <2>2. c = Launcher /\ ws[c].left # 0 /\ r.new = Open \ ws[c].known
    BY <2>1 DEF ReplyTo
  <2>3. ~Expecting(ws[c])
    BY <2>1, <2>2 DEF Finishes, RoundComplete
  <2> QED BY <2>2, <2>3 DEF Expecting
<1> QED BY <1>1, <1>2, <1>3

\* A tick starts rounds, and then evaluates.
LEMMA TickLaunch ==
  ASSUME NEW P \in SUBSET Calls, NEW ws \in [Calls -> WaitRec], NEW hs,
         Launcher \in P => ws[Launcher].kind = "launch",
         TrackerTick(P, ws, hs)
  PROVE  KindInv' /\ ReplyInv' /\ pending' \subseteq P
<1> DEFINE started == [c \in Calls |-> IF c \in P THEN Started(ws[c]) ELSE ws[c]]
           S == RoundStarts(P, ws)
           out == Pinged(UNION {Targets(ws[c]) : c \in S})
<1>1. EvaluateWaits(P, started, Calmer(hs, S), out)
  BY DEF TrackerTick
<1>2. started \in [Calls -> WaitRec]
  BY StartedType
<1>3. Launcher \in P => started[Launcher].kind = "launch"
  BY StartedFields
<1> HIDE DEF started, S, out
<1> QED BY <1>1, <1>2, <1>3, EvaluateLaunch

\* A step that answers nobody and leaves the kind of the waits.
LEMMA SilentLaunch ==
  ASSUME KindInv, replies' = {}, pending' = pending,
         \A c \in pending : wait'[c].kind = wait[c].kind
  PROVE  KindInv' /\ ReplyInv' /\ pending' \subseteq pending
  BY DEF KindInv, ReplyInv, LaunchReplies

\* Windows and clients: a wait that is told of an event keeps its kind.
LEMMA ActivityLaunch ==
  ASSUME TypeOK, KindInv, Activity
  PROVE  KindInv' /\ ReplyInv' /\ pending' \subseteq pending
<1>1. \E I : wait' \in {ToldActivity(I), ToldClosed(I)} /\ replies' = {} /\ pending' = pending
  <2>1. ASSUME NEW k, Register(k)
        PROVE  wait' = ToldActivity({nextId}) /\ replies' = {} /\ pending' = pending
    BY <2>1 DEF Register
  <2>2. ASSUME NEW I, Unregister(I)
        PROVE  wait' = ToldClosed(I) /\ replies' = {} /\ pending' = pending
    BY <2>2 DEF Unregister
  <2>3. ASSUME NEW i \in Ids, Commit(i)
        PROVE  wait' = ToldActivity({i}) /\ replies' = {} /\ pending' = pending
    BY <2>3 DEF Commit
  <2> QED BY <2>1, <2>2, <2>3
          DEF Activity, NewToplevel, MapX11, ClientDies, UnmapX11, ToplevelDestroyed
<1>2. PICK I : wait' \in {ToldActivity(I), ToldClosed(I)} /\ replies' = {} /\ pending' = pending
  BY <1>1
<1>3. ASSUME NEW c \in pending PROVE wait'[c].kind = wait[c].kind
  <2>1. c \in Calls /\ wait[c] \in WaitRec
    BY DEF TypeOK
  <2>2. wait'[c] \in {NoteActivity(wait[c], I), NoteClosed(wait[c], I)}
    BY <1>2, <2>1 DEF ToldActivity, ToldClosed
  <2> QED BY <2>1, <2>2, NotedFields
<1> QED BY <1>2, <1>3, SilentLaunch

\* Pongs, timers and time.
LEMMA AnswerLaunch ==
  ASSUME TypeOK, KindInv, Answer \/ TimerTick \/ Heartbeat \/ Elapse
  PROVE  KindInv' /\ ReplyInv' /\ pending' \subseteq pending
<1>0. pending \in SUBSET Calls /\ wait \in [Calls -> WaitRec]
  BY DEF TypeOK
<1>1. ASSUME NEW hs, NEW out, EvaluateWaits(pending, wait, hs, out)
      PROVE  KindInv' /\ ReplyInv' /\ pending' \subseteq pending
  BY <1>0, <1>1, EvaluateLaunch DEF KindInv
<1>2. CASE Answer
  BY <1>1, <1>2 DEF Answer, Pong, X11Pong
<1>3. CASE TimerTick
  BY <1>0, <1>3, TickLaunch DEF TimerTick, KindInv
<1>4. CASE Heartbeat
  BY <1>4, SilentLaunch DEF Heartbeat
<1>5. CASE Elapse
  <2>1. replies' = {} /\ pending' = pending
    BY <1>5 DEF Elapse
  <2>2. ASSUME NEW c \in pending PROVE wait'[c].kind = wait[c].kind
    <3>1. wait'[c] = Later(wait[c]) /\ wait[c] \in WaitRec
      BY <1>0, <1>5 DEF Elapse
    <3> QED BY <3>1 DEF Later, WaitRec
  <2> QED BY <2>1, <2>2, SilentLaunch
<1> QED BY <1>2, <1>3, <1>4, <1>5

\* A call that begins to wait: the launch as a launch, or another one.
LEMMA StartLaunch ==
  ASSUME TypeOK, KindInv, NEW c \in Calls, NEW kind \in AllKinds, NEW watch \in SUBSET Ids,
         NEW t \in Nat, StartWait(c, kind, watch, t), c = Launcher => kind = "launch"
  PROVE  KindInv' /\ ReplyInv' /\ pending' \subseteq pending \cup {c}
<1> DEFINE w == NewWait(kind, watch, Open, t)
           ws == [wait EXCEPT ![c] = w]
           hs == [hist EXCEPT ![c] = [NoHist EXCEPT !.stale = {k \in Keys : outstanding[k] # {}},
                                                    !.firstId = nextId]]
           P == pending \cup {c}
<1>1. w \in WaitRec /\ w.kind = kind
  <2>1. w.kind = kind
    BY DEF NewWait
  <2> QED BY <2>1, NewWaitType DEF Open
<1> HIDE DEF w
<1>2. ws \in [Calls -> WaitRec] /\ P \in SUBSET Calls
  BY <1>1 DEF TypeOK
<1>3. Launcher \in P => ws[Launcher].kind = "launch"
  BY <1>1, LaunchAssumption DEF KindInv, TypeOK
<1>4. TrackerTick(P, ws, hs)
  BY DEF StartWait, w
<1> HIDE DEF ws, hs, P
<1>5. KindInv' /\ ReplyInv' /\ pending' \subseteq P
  BY <1>2, <1>3, <1>4, TickLaunch
<1> QED BY <1>5 DEF P

-----------------------------------------------------------------------------
(* The composition *)

\* The tracker keeps its invariants whichever step it takes, be it one of its
\* own or the start of a wait of any kind.
LEMMA TrackerStep ==
  ASSUME TrackerInv, [Next]_vars PROVE TrackerInv'
<1>1. TypeOK'
  BY NextType DEF TrackerInv
<1> QED BY <1>1, NextInv, NextAccounts DEF TrackerInv

\* The same for the start of a wait of any kind.
LEMMA TrackerStart ==
  ASSUME TrackerInv, NEW c \in Calls, NEW kind \in AllKinds, NEW watch \in SUBSET Ids,
         NEW t \in Nat, StartWait(c, kind, watch, t)
  PROVE  TrackerInv'
<1>1. TypeOK'
  BY StartType DEF TrackerInv
<1> QED BY <1>1, StartInv, StartAccounts DEF TrackerInv

\* Spawning the application is no business of the tracker.
LEMMA SpawnStep == ASSUME LaunchInv, Spawn PROVE LaunchInv'
<1>1. /\ TypeOK /\ IInv /\ Accounted /\ KindInv /\ StageInv
      /\ replies' = {} /\ stage' = "spawned" /\ stage = "called"
      /\ UNCHANGED <<windows, nextId, alive, advert, support, pingVars, pending, wait, hist>>
  BY DEF LaunchInv, TrackerInv, Spawn
<1>2. TypeOK'
  BY <1>1 DEF TypeOK, pingVars
<1>3. IInv'
  <2>1. IdsGiven' /\ NothingInherited'
    BY <1>1 DEF IInv, IdsGiven, Open, NothingInherited, Owns, WindowsOf, pingVars
  <2>2. \A c \in pending : CallInv(wait[c], hist[c], outstanding)'
    BY <1>1, <1>2, <2>1, QuietStepInv DEF pingVars
  <2> QED BY <1>1, <2>1, <2>2, SilentInv
<1>4. Accounted'
  BY <1>1, SilentAccounts
<1>5. KindInv' /\ ReplyInv'
  BY <1>1, SilentLaunch
<1>6. StageInv'
  BY <1>1 DEF StageInv, Stages
<1> QED BY <1>2, <1>3, <1>4, <1>5, <1>6 DEF LaunchInv, TrackerInv

\* The launch begins to wait, as a launch.
LEMMA WaitStep == ASSUME LaunchInv, LaunchWait PROVE LaunchInv'
<1>1. PICK t \in Timeouts, watch \in {{}} \cup {{i} : i \in Ids} :
        StartWait(Launcher, "launch", watch, t)
  BY DEF LaunchWait
<1>2. t \in Nat /\ watch \in SUBSET Ids /\ "launch" \in AllKinds /\ Launcher \in Calls
  BY ConstantsAssumption, LaunchAssumption DEF AllKinds
<1>3. TrackerInv'
  BY <1>1, <1>2, TrackerStart DEF LaunchInv
<1>4. KindInv' /\ ReplyInv'
  BY <1>1, <1>2, StartLaunch DEF LaunchInv, TrackerInv
<1>5. StageInv'
  BY DEF LaunchWait, StageInv, Stages
<1> QED BY <1>3, <1>4, <1>5 DEF LaunchInv

\* The tracker, its clients and other calls go on.
LEMMA OthersStep == ASSUME LaunchInv, Others PROVE LaunchInv'
<1>0. TypeOK /\ TrackerInv /\ KindInv /\ StageInv
  BY DEF LaunchInv, TrackerInv
<1>1. TrackerInv' /\ KindInv' /\ ReplyInv' /\ (Launcher \notin pending => Launcher \notin pending')
  <2>1. CASE Activity
    BY <1>0, <2>1, TrackerStep, ActivityLaunch DEF Next
  <2>2. CASE Answer \/ TimerTick \/ Heartbeat \/ Elapse
    BY <1>0, <2>2, TrackerStep, AnswerLaunch DEF Next
  <2>3. ASSUME NEW c \in Calls \ {Launcher}, NEW t \in Timeouts,
               NEW watch \in {{}} \cup {{i} : i \in Ids}, StartWait(c, "interact", watch, t)
        PROVE  TrackerInv' /\ KindInv' /\ ReplyInv'
               /\ (Launcher \notin pending => Launcher \notin pending')
    <3>1. t \in Nat /\ watch \in SUBSET Ids /\ "interact" \in AllKinds
      BY ConstantsAssumption DEF AllKinds
    <3>2. TrackerInv'
      BY <1>0, <2>3, <3>1, TrackerStart
    <3>3. KindInv' /\ ReplyInv' /\ pending' \subseteq pending \cup {c}
      BY <1>0, <2>3, <3>1, StartLaunch
    <3> QED BY <3>2, <3>3
  <2> QED BY <2>1, <2>2, <2>3 DEF Others
<1>2. StageInv'
  BY <1>0, <1>1 DEF Others, Answers, StageInv, Stages
<1> QED BY <1>1, <1>2 DEF LaunchInv

\* The invariants of the tracker hold in the composition, and what the launch
\* adds to them.
THEOREM LaunchInvariance == LaunchSpec => []LaunchInv
<1>1. LaunchInit => LaunchInv
  <2> SUFFICES ASSUME LaunchInit PROVE LaunchInv
    OBVIOUS
  <2>1. Init /\ stage = "called"
    BY DEF LaunchInit
  <2>2. TypeOK /\ IInv
    BY <2>1, InitType, InitInv
  <2>3. pending = {} /\ replies = {}
    BY <2>1 DEF Init
  <2>4. Accounted /\ KindInv /\ ReplyInv /\ StageInv
    BY <2>1, <2>3 DEF Accounted, ReplyAccountsForWindows, KindInv, ReplyInv, LaunchReplies,
                      StageInv, Stages
  <2> QED BY <2>2, <2>4 DEF LaunchInv, TrackerInv
<1>2. LaunchInv /\ [LaunchNext]_launchVars => LaunchInv'
  <2> SUFFICES ASSUME LaunchInv, [LaunchNext]_launchVars PROVE LaunchInv'
    OBVIOUS
  <2>1. CASE UNCHANGED launchVars
    <3>1. UNCHANGED vars /\ stage' = stage /\ UNCHANGED <<pending, wait, replies>>
      BY <2>1 DEF launchVars, vars
    <3>2. TrackerInv'
      BY <3>1, TrackerStep DEF LaunchInv
    <3> QED BY <3>1, <3>2 DEF LaunchInv, KindInv, ReplyInv, LaunchReplies, StageInv
  <2> QED BY <2>1, SpawnStep, WaitStep, OthersStep DEF LaunchNext
<1> QED BY <1>1, <1>2, PTL DEF LaunchSpec

\* ipc.rs:93-94: whatever opens, closes and commits meanwhile, a launch that is not
\* timed out shows a window that opened after its wait began and is still open.
THEOREM LaunchShowsWindow == LaunchSpec => []SettledLaunchHasNewWindow
<1>1. LaunchInv => SettledLaunchHasNewWindow
  <2> SUFFICES ASSUME LaunchInv, NEW r \in LaunchReplies, ~r.timedOut
               PROVE  \E i \in r.new : i >= r.hist.firstId /\ i \in Open
    BY DEF SettledLaunchHasNewWindow
  <2>1. r.new # {}
    BY DEF LaunchInv, ReplyInv
  <2>2. r.new = {i \in Open : i >= r.hist.firstId}
    BY DEF LaunchInv, TrackerInv, Accounted, ReplyAccountsForWindows, LaunchReplies
  <2> QED BY <2>1, <2>2
<1> QED BY <1>1, LaunchInvariance, PTL

\* The composition keeps the types of the tracker, and the launch waits only
\* between its request and its answer.
THEOREM LaunchTypeCorrect == LaunchSpec => []LaunchTypeOK
<1>1. LaunchInv => LaunchTypeOK
  BY DEF LaunchInv, TrackerInv, StageInv, LaunchTypeOK
<1> QED BY <1>1, LaunchInvariance, PTL

\* build_snapshot: next to a launch, too, each reply accounts for its own call.
THEOREM LaunchAccounting == LaunchSpec => []ReplyAccountsForWindows
<1>1. LaunchInv => ReplyAccountsForWindows
  BY DEF LaunchInv, TrackerInv, Accounted
<1> QED BY <1>1, LaunchInvariance, PTL

\* Each step of the composition is one of Transition, too: a spawn concerns no call.
LEMMA LaunchMaps ==
  LaunchInv /\ LaunchInv' /\ [LaunchNext]_launchVars
    => [Promise!Next]_(Promise!transitionVars)
<1> SUFFICES ASSUME LaunchInv, LaunchInv', [LaunchNext]_launchVars
             PROVE  [Promise!Next]_(Promise!transitionVars)
  OBVIOUS
<1>1. Known /\ Known'
  BY DEF LaunchInv, TrackerInv, Accounted, IInv, Known
<1>2. CASE [Next]_vars
  BY <1>1, <1>2, NextMaps
<1>3. CASE Spawn
  <2>1. replies' = {} /\ UNCHANGED <<windows, nextId, pending, wait, hist>> /\ Open' = Open
    BY <1>3 DEF Spawn, Open
  <2>2. /\ Requests' = Requests /\ Clocks' = Clocks /\ Stirred' = Stirred
        /\ Asked' = Asked /\ ToldNow' = {}
    BY <2>1 DEF Requests, Clocks, Stirred, Asked, ToldNow
  <2>4. Silent' = Silent
    <3>1. support' = support /\ advert' = advert
      BY <1>3 DEF Spawn
    <3> QED BY <2>1, <3>1, SameSteady, SilentSame
  <2>3. Promise!Elsewhere
    BY <2>1, <2>2, <2>4 DEF Promise!Elsewhere, Requests, Clocks, Stirred, Asked, ToldNow
  <2> QED BY <2>3 DEF Promise!Next
<1>4. ASSUME NEW kind \in {"interact", "launch"}, NEW c \in Calls, NEW t \in Timeouts,
             NEW watch \in {{}} \cup {{i} : i \in Ids}, StartWait(c, kind, watch, t)
      PROVE  Next
  BY <1>4, LaunchAssumption DEF Next, CallStarts
<1>5. CASE LaunchWait
  <2>1. Next
    BY <1>4, <1>5, LaunchAssumption DEF LaunchWait
  <2> QED BY <1>2, <2>1
<1>6. CASE Others
  <2>1. Next
    BY <1>4, <1>6 DEF Others, Next
  <2> QED BY <1>2, <2>1
<1>7. CASE UNCHANGED launchVars
  BY <1>2, <1>7 DEF launchVars
<1> QED BY <1>3, <1>5, <1>6, <1>7 DEF LaunchNext

\* mcp.rs, tracker.rs: with a launch next to other calls, whatever the application
\* does from the moment it runs, each call is answered as Transition promises.
THEOREM LaunchImplementation == LaunchSpec => ImplementsTransition
<1>1. LaunchInit => Promise!Init
  BY InitMaps DEF LaunchInit
<1>2. LaunchInv /\ LaunchInv' /\ [LaunchNext]_launchVars
        => [Promise!Next]_(Promise!transitionVars)
  BY LaunchMaps
<1> QED
  BY <1>1, <1>2, LaunchInvariance, PTL DEF LaunchSpec, ImplementsTransition, Promise!Spec
=============================================================================
