---------------------------- MODULE CallsProofs ----------------------------
(***************************************************************************)
(* Proofs about Calls: its types, who waits for what, the time a call may  *)
(* take, when a tool gives up, and that the detailed model implements      *)
(* Service.                                                                *)
(***************************************************************************)
EXTENDS Calls, TLAPS

Elems(s) == {s[i] : i \in 1..Len(s)}

Distinct(s) == \A i, j \in 1..Len(s) : s[i] = s[j] => i = j

\* The request perform_action works on.
InHand == IF thread = "acting" THEN subject ELSE {}

\* A request is in one place at a time: queued once, in hand, or waiting.
Places ==
  /\ Distinct(channel)
  /\ Elems(channel) \cap performed = {}
  /\ InHand \cup waits \subseteq performed
  /\ InHand \cap waits = {}
  /\ thread = "evaluating" => subject \subseteq waits
  /\ thread \in {"gone", "exited"} => channel = <<>> /\ waits = {}
  /\ \A c \in Elems(channel) \cup InHand \cup waits :
       answer[c] = "none" /\ stage[c] # "idle"

\* Who awaits an answer is queued, in hand or waiting; who has one was served.
Accounted ==
  \A c \in Callers :
    /\ Unanswered(c) => c \in Elems(channel) \cup InHand \cup waits
    /\ answer[c] \in {"settled", "timedOut", "refused"} => c \in performed
    /\ stage[c] = "reading" => c \in performed
    /\ stage[c] = "idle" => /\ c \notin performed /\ age[c] = 0
                           /\ answer[c] = "none" /\ outcome[c] = "none"

\* Time passes only for requests that are held up, and for waits.
Clocks ==
  \A c \in Callers :
    /\ c \in Elems(channel) \cup InHand => age[c] <= delay[c]
    /\ c \in waits => age[c] + remaining[c] <= waitMs[c] + delay[c]

Limited ==
  \A c \in Tools :
    stage[c] = "awaiting" /\ waitMs[c] + Grace < Width => limit[c] = waitMs[c] + Grace

IInv == TypeOK /\ Places /\ Accounted /\ Clocks /\ Limited
        /\ Punctual /\ GivesUpOnlyWhenStalled

-----------------------------------------------------------------------------
(* The channel *)

\* What a sequence holds is in the set it is a sequence over.
LEMMA ElemsType == ASSUME NEW S, NEW s \in Seq(S) PROVE Elems(s) \subseteq S
BY DEF Elems

\* The head of a queue without repetitions is not in the rest of it.
LEMMA TailElems ==
  ASSUME NEW S, NEW s \in Seq(S), s # <<>>, Distinct(s)
  PROVE  /\ Tail(s) \in Seq(S) /\ Head(s) \in S /\ Head(s) \in Elems(s)
         /\ Distinct(Tail(s))
         /\ Elems(Tail(s)) = Elems(s) \ {Head(s)}
<1>1. Len(s) \in Nat \ {0} /\ Tail(s) \in Seq(S) /\ Head(s) = s[1] /\ Head(s) \in S
  OBVIOUS
<1>2. Len(Tail(s)) = Len(s) - 1 /\ \A i \in 1..Len(Tail(s)) : Tail(s)[i] = s[i + 1]
  OBVIOUS
<1>3. Distinct(Tail(s))
  BY <1>1, <1>2 DEF Distinct
<1>4. ASSUME NEW e \in Elems(Tail(s)) PROVE e \in Elems(s) /\ e # Head(s)
  <2>1. PICK i \in 1..Len(Tail(s)) : e = s[i + 1]
    BY <1>2 DEF Elems
  <2>2. i + 1 \in 1..Len(s) /\ 1 \in 1..Len(s) /\ i + 1 # 1
    BY <1>1, <1>2
  <2> QED
    BY <1>1, <2>1, <2>2 DEF Elems, Distinct
<1>5. ASSUME NEW e \in Elems(s), e # Head(s) PROVE e \in Elems(Tail(s))
  <2>1. PICK i \in 1..Len(s) : e = s[i]
    BY DEF Elems
  <2>2. i - 1 \in 1..Len(Tail(s)) /\ Tail(s)[i - 1] = s[(i - 1) + 1] /\ (i - 1) + 1 = i
    BY <1>1, <1>2, <1>5, <2>1
  <2> QED
    BY <2>1, <2>2 DEF Elems
<1> QED
  <2>1. Head(s) \in Elems(s)
    BY <1>1 DEF Elems
  <2> QED
    BY <1>1, <1>3, <1>4, <1>5, <2>1

\* A queue without repetitions takes in an element it does not hold.
LEMMA AppendElems ==
  ASSUME NEW S, NEW s \in Seq(S), NEW e \in S, Distinct(s), e \notin Elems(s)
  PROVE  /\ Append(s, e) \in Seq(S)
         /\ Distinct(Append(s, e))
         /\ Elems(Append(s, e)) = Elems(s) \cup {e}
<1> DEFINE t == Append(s, e)
<1>1. Len(s) \in Nat /\ t \in Seq(S) /\ Len(t) = Len(s) + 1
  OBVIOUS
<1>2. t[Len(s) + 1] = e /\ \A i \in 1..Len(s) : t[i] = s[i]
  OBVIOUS
<1> HIDE DEF t
<1>3. \A i \in 1..Len(t) : i \in 1..Len(s) \/ i = Len(s) + 1
  BY <1>1
<1>4. \A i \in 1..Len(s) : s[i] # e
  BY DEF Elems
<1>5. Distinct(t)
  BY <1>1, <1>2, <1>3, <1>4 DEF Distinct
<1>6. ASSUME NEW x \in Elems(t) PROVE x \in Elems(s) \cup {e}
  BY <1>1, <1>2, <1>3, <1>6 DEF Elems
<1>7. ASSUME NEW x \in Elems(s) \cup {e} PROVE x \in Elems(t)
  BY <1>1, <1>2, <1>7 DEF Elems
<1> QED
  BY <1>1, <1>5, <1>6, <1>7 DEF t

-----------------------------------------------------------------------------
(* The invariant holds at the start and is kept by every step *)

\* Before the first call nothing is queued, waiting or answered.
LEMMA InitInv == Init => IInv
<1> SUFFICES ASSUME Init PROVE IInv
  OBVIOUS
<1>1. TypeOK
  BY CallsAssumption DEF Init, TypeOK, Stages, Doing, Answers, Outcomes
<1>2. Elems(channel) = {} /\ Distinct(channel)
  BY DEF Init, Elems, Distinct
<1>3. Places /\ Accounted /\ Clocks /\ Limited
  BY <1>2 DEF Init, Places, Accounted, Clocks, Limited, InHand, Unanswered, Callers
<1>4. Punctual /\ GivesUpOnlyWhenStalled
  BY CallsAssumption DEF Init, Punctual, GivesUpOnlyWhenStalled
<1> QED
  BY <1>1, <1>3, <1>4 DEF IInv

\* However wait_ms + 30_000 comes out, it is a time.
LEMMA LimitsType ==
  ASSUME NEW w \in Nat PROVE Limits(w) \subseteq Nat
BY CallsAssumption DEF Limits

\* A request goes to the end of the channel, or fails at once.
LEMMA SendInv == ASSUME IInv, NEW c \in Callers, Send(c) PROVE IInv'
<1>0. TypeOK /\ Places /\ Accounted /\ Clocks /\ Limited /\ Punctual /\ GivesUpOnlyWhenStalled
  BY DEF IInv
<1>1. CASE Down
  <2>1. /\ stage[c] = "idle"
        /\ stage' = [stage EXCEPT ![c] = "done"]
        /\ outcome' = [outcome EXCEPT ![c] = "gone"]
        /\ UNCHANGED <<waitMs, limit, channel, age, reading, threadVars, answer, clockVars>>
    BY <1>1 DEF Send
  <2>2. TypeOK'
    BY <1>0, <2>1 DEF TypeOK, threadVars, clockVars, Stages, Outcomes
  <2>3. Places' /\ Clocks'
    <3>1. \A d \in Callers : stage[d] # "idle" => stage'[d] # "idle"
      BY <1>0, <2>1 DEF TypeOK
    <3>2. InHand' = InHand /\ UNCHANGED <<channel, waits, performed, answer, thread, subject>>
      BY <2>1 DEF InHand, threadVars
    <3>3. Elems(channel) \cup InHand \cup waits \subseteq Callers
      BY <1>0, ElemsType DEF TypeOK, InHand
    <3>4. Places'
      BY <1>0, <3>1, <3>2, <3>3 DEF Places
    <3>5. Clocks'
      BY <1>0, <2>1, <3>2 DEF Clocks, threadVars, clockVars
    <3> QED
      BY <3>4, <3>5
  <2>4. Accounted' /\ Limited'
    BY <1>0, <2>1 DEF TypeOK, Accounted, Limited, Unanswered, InHand, Callers, threadVars, clockVars
  <2>5. Punctual' /\ GivesUpOnlyWhenStalled'
    BY <1>0, <2>1 DEF TypeOK, Punctual, GivesUpOnlyWhenStalled, threadVars, clockVars
  <2> QED
    BY <2>2, <2>3, <2>4, <2>5 DEF IInv
<1>2. CASE ~Down
  <2>0. PICK w \in Timeout(c) : \E l \in Limits(w) :
          waitMs' = [waitMs EXCEPT ![c] = w] /\ limit' = [limit EXCEPT ![c] = l]
    BY <1>2 DEF Send
  <2>1. PICK l \in Limits(w) :
          /\ stage[c] = "idle"
          /\ stage' = [stage EXCEPT ![c] = "awaiting"]
          /\ channel' = Append(channel, c)
          /\ waitMs' = [waitMs EXCEPT ![c] = w]
          /\ limit' = [limit EXCEPT ![c] = l]
          /\ UNCHANGED <<outcome, age, reading, threadVars, answer, clockVars>>
    BY <1>2, <2>0 DEF Send
  <2>2. w \in Nat /\ l \in Nat
    <3>1. w \in Nat
      BY CallsAssumption DEF Timeout
    <3> QED
      BY <3>1, LimitsType
  <2>3. w + Grace < Width => l = w + Grace
    BY <2>1 DEF Limits
  <2>4. c \notin Elems(channel) /\ c \notin InHand \cup waits /\ age[c] = 0
    BY <1>0, <2>1 DEF Places, Accounted
  <2>5. /\ channel' \in Seq(Callers) /\ Distinct(channel')
        /\ Elems(channel') = Elems(channel) \cup {c}
    BY <1>0, <2>1, <2>4, AppendElems DEF TypeOK, Places
  <2>6. TypeOK'
    BY <1>0, <2>1, <2>2, <2>5 DEF TypeOK, threadVars, clockVars, Stages
  <2>7. Places'
    <3>1. \A d \in Elems(channel') \cup InHand \cup waits : answer[d] = "none" /\ stage'[d] # "idle"
      BY <1>0, <2>1, <2>4, <2>5 DEF TypeOK, Places, Accounted
    <3> QED
      BY <1>0, <1>2, <2>1, <2>4, <2>5, <3>1 DEF Places, Accounted, InHand, threadVars, Down
  <2>8. Accounted'
    BY <1>0, <2>1, <2>5 DEF TypeOK, Accounted, Unanswered, InHand, threadVars
  <2>9. Clocks'
    BY <1>0, <2>1, <2>4, <2>5 DEF TypeOK, Clocks, InHand, threadVars, clockVars
  <2>10. Limited'
    BY <1>0, <2>1, <2>2, <2>3 DEF TypeOK, Limited, Callers
  <2>11. Punctual'
    BY <1>0, <2>1, <2>2, <2>4, CallsAssumption DEF TypeOK, Punctual, threadVars, clockVars
  <2>12. GivesUpOnlyWhenStalled'
    <3>1. outcome[c] = "none"
      BY <1>0, <2>1 DEF Accounted
    <3> QED
      BY <1>0, <2>1, <3>1 DEF TypeOK, GivesUpOnlyWhenStalled, clockVars
  <2> QED
    BY <2>6, <2>7, <2>8, <2>9, <2>10, <2>11, <2>12 DEF IInv
<1> QED
  BY <1>1, <1>2

\* Receive, GiveUp and TreesRead move a caller that is under way.
LEMMA CallerStepInv == ASSUME IInv, NEW c \in Callers, CallerStep(c) PROVE IInv'
<1>0. TypeOK /\ Places /\ Accounted /\ Clocks /\ Limited /\ Punctual /\ GivesUpOnlyWhenStalled
  BY DEF IInv
<1>1. UNCHANGED <<waitMs, limit, age, reading, channel, threadVars, answer, clockVars>>
  BY DEF CallerStep, Receive, GiveUp, TreesRead
<1>2. PICK t \in {"reading", "done"} :
        stage' = [stage EXCEPT ![c] = t] /\ (t = "reading" => c \in performed)
  <2>1. CASE Receive(c)
    BY <1>0, <2>1 DEF Receive, Ended, Accounted
  <2>2. CASE GiveUp(c) \/ TreesRead(c)
    BY <2>2 DEF GiveUp, TreesRead, Ended
  <2> QED
    BY <2>1, <2>2 DEF CallerStep
<1>3. stage[c] # "idle" /\ (answer[c] = "none" => t = "done")
  BY <1>0, <1>2 DEF CallerStep, Receive, GiveUp, TreesRead, Ended, TypeOK
<1>4. \/ outcome' = outcome
      \/ \E o \in {"refused", "gone", "state"} : outcome' = [outcome EXCEPT ![c] = o]
      \/ outcome' = [outcome EXCEPT ![c] = "gaveUp"] /\ GiveUp(c)
  BY DEF CallerStep, Receive, GiveUp, TreesRead, Ended
<1>5. TypeOK'
  BY <1>0, <1>1, <1>2, <1>4 DEF TypeOK, Stages, Outcomes, threadVars, clockVars
<1>6. Places' /\ Clocks'
  BY <1>0, <1>1, <1>2 DEF TypeOK, Places, Clocks, InHand, threadVars, clockVars
<1>7. Limited'
  BY <1>0, <1>1, <1>2 DEF TypeOK, Limited, Callers
<1>8. Accounted'
  <2>1. \A d \in Callers : stage'[d] = "idle" => outcome'[d] = outcome[d] /\ d # c
    BY <1>0, <1>2, <1>4 DEF TypeOK
  <2> QED
    BY <1>0, <1>1, <1>2, <1>3, <2>1 DEF TypeOK, Accounted, Unanswered, InHand, threadVars
<1>9. Punctual'
  BY <1>0, <1>1 DEF Punctual, clockVars
<1>10. GivesUpOnlyWhenStalled'
  <2>1. ASSUME GiveUp(c), waitMs[c] + Grace < Width PROVE delay[c] >= Grace
    <3>1. limit[c] = waitMs[c] + Grace /\ age[c] >= limit[c]
      BY <1>0, <2>1 DEF GiveUp, Limited
    <3>2. c \in Elems(channel) \cup InHand \cup waits
      BY <1>0, <2>1 DEF GiveUp, Accounted, Unanswered
    <3>3. age[c] <= delay[c] \/ age[c] + remaining[c] <= waitMs[c] + delay[c]
      BY <1>0, <3>2 DEF Clocks
    <3>4. /\ age[c] \in Nat /\ delay[c] \in Nat /\ remaining[c] \in Nat
          /\ waitMs[c] \in Nat /\ Grace \in Nat
      BY <1>0, CallsAssumption DEF TypeOK
    <3> QED
      BY <3>1, <3>3, <3>4
  <2>2. waitMs[c] + Grace < Width \/ waitMs[c] + Grace >= Width
    BY <1>0, CallsAssumption DEF TypeOK
  <2>3. \A d \in Callers : outcome'[d] = "gaveUp" => outcome[d] = "gaveUp" \/ (d = c /\ GiveUp(c))
    BY <1>0, <1>4 DEF TypeOK
  <2> QED
    BY <1>0, <1>1, <2>1, <2>2, <2>3 DEF GivesUpOnlyWhenStalled, clockVars
<1> QED
  BY <1>5, <1>6, <1>7, <1>8, <1>9, <1>10 DEF IInv

\* The request in hand is the oldest of the channel and was never performed.
LEMMA TakeRequestInv == ASSUME IInv, TakeRequest PROVE IInv'
<1>0. TypeOK /\ Places /\ Accounted /\ Clocks /\ Limited /\ Punctual /\ GivesUpOnlyWhenStalled
  BY DEF IInv
<1> DEFINE c == Head(channel)
<1>1. /\ thread = "idle" /\ thread' = "acting"
      /\ subject' = {c} /\ performed' = performed \cup {c}
      /\ channel' = Tail(channel) /\ channel # <<>>
      /\ UNCHANGED <<callerVars, waits, remaining, answer, clockVars>>
  BY DEF TakeRequest
<1>2. /\ channel' \in Seq(Callers) /\ c \in Callers /\ c \in Elems(channel)
      /\ Distinct(channel')
      /\ Elems(channel') = Elems(channel) \ {c}
  BY <1>0, <1>1, TailElems DEF TypeOK, Places
<1> HIDE DEF c
<1>3. InHand = {} /\ InHand' = {c}
  BY <1>1 DEF InHand
<1>4. c \notin performed /\ c \notin waits /\ answer[c] = "none" /\ stage[c] # "idle"
  BY <1>0, <1>2 DEF Places
<1>5. TypeOK'
  BY <1>0, <1>1, <1>2 DEF TypeOK, callerVars, clockVars, Doing
<1>6. Places'
  BY <1>0, <1>1, <1>2, <1>3, <1>4 DEF Places, callerVars
<1>7. Accounted'
  BY <1>0, <1>1, <1>2, <1>3, <1>4 DEF Accounted, Unanswered, callerVars
<1>8. Clocks'
  BY <1>0, <1>1, <1>2, <1>3, <1>4 DEF Clocks, callerVars, clockVars
<1>9. Limited' /\ Punctual' /\ GivesUpOnlyWhenStalled'
  BY <1>0, <1>1 DEF Limited, Punctual, GivesUpOnlyWhenStalled, callerVars, clockVars
<1> QED
  BY <1>5, <1>6, <1>7, <1>8, <1>9 DEF IInv

\* Refuse and ReplyAtOnce answer the request in hand.
LEMMA ReplyInv == ASSUME IInv, Refuse \/ ReplyAtOnce PROVE IInv'
<1>0. TypeOK /\ Places /\ Accounted /\ Clocks /\ Limited /\ Punctual /\ GivesUpOnlyWhenStalled
  BY DEF IInv
<1>1. PICK a \in {"refused", "settled"} :
        /\ thread = "acting" /\ thread' = "idle" /\ subject' = {}
        /\ answer' = [d \in Callers |-> IF d \in subject THEN a ELSE answer[d]]
        /\ UNCHANGED <<callerVars, channel, waits, remaining, performed, clockVars>>
  BY DEF Refuse, ReplyAtOnce, Reply
<1>2. InHand = subject /\ InHand' = {}
  BY <1>1 DEF InHand
<1>3. TypeOK'
  BY <1>0, <1>1 DEF TypeOK, callerVars, clockVars, Doing, Answers
<1>4. \A d \in Elems(channel) \cup waits : d \notin subject
  <2>1. InHand \subseteq performed /\ Elems(channel) \cap performed = {} /\ InHand \cap waits = {}
    BY <1>0 DEF Places
  <2> QED
    BY <1>2, <2>1
<1>5. Places'
  <2>1. \A d \in Elems(channel) \cup waits : d \in Callers
    BY <1>0, ElemsType DEF TypeOK
  <2> QED
    BY <1>0, <1>1, <1>2, <1>4, <2>1 DEF Places, callerVars
<1>6. Accounted'
  <2>1. \A d \in subject : d \in performed /\ stage[d] # "idle"
    BY <1>0, <1>2 DEF Places
  <2> QED
    BY <1>0, <1>1, <1>2, <2>1 DEF Accounted, Unanswered, callerVars
<1>7. Clocks' /\ Limited' /\ Punctual' /\ GivesUpOnlyWhenStalled'
  BY <1>0, <1>1, <1>2 DEF Clocks, Limited, Punctual, GivesUpOnlyWhenStalled, callerVars, clockVars
<1> QED
  BY <1>3, <1>5, <1>6, <1>7 DEF IInv

\* A wait begins with as much time left as wait_ms says.
LEMMA StartWaitInv == ASSUME IInv, StartWait PROVE IInv'
<1>0. TypeOK /\ Places /\ Accounted /\ Clocks /\ Limited /\ Punctual /\ GivesUpOnlyWhenStalled
  BY DEF IInv
<1>1. /\ thread = "acting" /\ thread' = "evaluating" /\ subject' \subseteq waits'
      /\ waits' = waits \cup subject
      /\ remaining' = [d \in Callers |-> IF d \in subject THEN waitMs[d] ELSE remaining[d]]
      /\ UNCHANGED <<callerVars, channel, performed, answer, clockVars>>
  BY DEF StartWait, Evaluating, Due, Deadline
<1>2. InHand = subject /\ InHand' = {}
  BY <1>1 DEF InHand
<1>3. TypeOK'
  BY <1>0, <1>1 DEF TypeOK, callerVars, clockVars, Doing
<1>4. Places' /\ Accounted'
  BY <1>0, <1>1, <1>2 DEF Places, Accounted, Unanswered, callerVars
<1>5. Clocks'
  <2>1. ASSUME NEW d \in Callers
        PROVE  /\ d \in Elems(channel) => age[d] <= delay[d]
               /\ d \in waits \cup subject => age[d] + remaining'[d] <= waitMs[d] + delay[d]
    <3>1. /\ d \in Elems(channel) \cup subject => age[d] <= delay[d]
          /\ d \in waits => age[d] + remaining[d] <= waitMs[d] + delay[d]
      BY <1>0, <1>2 DEF Clocks
    <3>2. age[d] \in Nat /\ delay[d] \in Nat /\ waitMs[d] \in Nat
      BY <1>0 DEF TypeOK
    <3>3. remaining'[d] = IF d \in subject THEN waitMs[d] ELSE remaining[d]
      BY <1>1
    <3> QED
      BY <3>1, <3>2, <3>3
  <2> QED
    BY <1>1, <1>2, <2>1 DEF Clocks, callerVars, clockVars
<1>6. Limited' /\ Punctual' /\ GivesUpOnlyWhenStalled'
  BY <1>0, <1>1 DEF Limited, Punctual, GivesUpOnlyWhenStalled, callerVars, clockVars
<1> QED
  BY <1>3, <1>4, <1>5, <1>6 DEF IInv

\* An evaluation that begins moves nothing.
LEMMA TickInv == ASSUME IInv, Tick PROVE IInv'
<1>0. TypeOK /\ Places /\ Accounted /\ Clocks /\ Limited /\ Punctual /\ GivesUpOnlyWhenStalled
  BY DEF IInv
<1>1. /\ thread = "idle" /\ thread' = "evaluating" /\ subject' \subseteq waits
      /\ UNCHANGED <<callerVars, channel, waits, remaining, performed, answer, clockVars>>
  BY DEF Tick, Evaluating, Due
<1>2. InHand = {} /\ InHand' = {}
  BY <1>1 DEF InHand
<1>3. TypeOK'
  BY <1>0, <1>1 DEF TypeOK, callerVars, clockVars, Doing
<1>4. Places' /\ Accounted' /\ Clocks'
  BY <1>0, <1>1, <1>2 DEF Places, Accounted, Unanswered, Clocks, callerVars, clockVars
<1>5. Limited' /\ Punctual' /\ GivesUpOnlyWhenStalled'
  BY <1>0, <1>1 DEF Limited, Punctual, GivesUpOnlyWhenStalled, callerVars, clockVars
<1> QED
  BY <1>3, <1>4, <1>5 DEF IInv

\* Rendering moves nothing: it only takes time.
LEMMA RenderInv == ASSUME IInv, RenderTick \/ Stored PROVE IInv'
<1>0. TypeOK /\ Places /\ Accounted /\ Clocks /\ Limited /\ Punctual /\ GivesUpOnlyWhenStalled
  BY DEF IInv
<1>1. /\ thread' \in {"idle", "rendering"} /\ thread \in {"idle", "rendering"}
      /\ UNCHANGED <<callerVars, channel, subject, waits, remaining, performed, answer, clockVars>>
  BY DEF RenderTick, Stored
<1>2. InHand = {} /\ InHand' = {}
  BY <1>1 DEF InHand
<1>3. TypeOK'
  BY <1>0, <1>1 DEF TypeOK, callerVars, clockVars, Doing
<1>4. Places' /\ Accounted' /\ Clocks'
  BY <1>0, <1>1, <1>2 DEF Places, Accounted, Unanswered, Clocks, callerVars, clockVars
<1>5. Limited' /\ Punctual' /\ GivesUpOnlyWhenStalled'
  BY <1>0, <1>1 DEF Limited, Punctual, GivesUpOnlyWhenStalled, callerVars, clockVars
<1> QED
  BY <1>3, <1>4, <1>5 DEF IInv

\* What is due or settled is answered and waits no more.
LEMMA EvaluateInv == ASSUME IInv, Evaluate PROVE IInv'
<1>0. TypeOK /\ Places /\ Accounted /\ Clocks /\ Limited /\ Punctual /\ GivesUpOnlyWhenStalled
  BY DEF IInv
<1>1. PICK settled \in SUBSET (waits \ subject) :
        /\ answer' = [d \in Callers |-> IF d \in subject THEN "timedOut"
                                        ELSE IF d \in settled THEN "settled"
                                        ELSE answer[d]]
        /\ waits' = waits \ (subject \cup settled)
  BY DEF Evaluate
<1>2. /\ thread = "evaluating" /\ thread' = "idle" /\ subject' = {}
      /\ remaining' = [d \in Callers |-> IF d \in waits' THEN remaining[d] ELSE 0]
      /\ UNCHANGED <<callerVars, channel, performed, clockVars>>
  BY DEF Evaluate
<1>3. InHand = {} /\ InHand' = {}
  BY <1>2 DEF InHand
<1>4. TypeOK'
  BY <1>0, <1>1, <1>2 DEF TypeOK, callerVars, clockVars, Doing, Answers
<1>5. subject \subseteq waits /\ waits \subseteq performed /\ waits \subseteq Callers
  BY <1>0, <1>2 DEF Places, TypeOK
<1>6. \A d \in waits : stage[d] # "idle" /\ d \notin Elems(channel)
  BY <1>0 DEF Places
<1>7. Places'
  <2>1. \A d \in Elems(channel) \cup waits' : d \in Callers /\ answer'[d] = answer[d]
    <3>1. \A d \in Elems(channel) \cup waits' : d \in Callers
      BY <1>0, <1>1, ElemsType DEF TypeOK
    <3>2. \A d \in Elems(channel) \cup waits' : d \notin subject \cup (waits \ waits')
      BY <1>1, <1>5, <1>6
    <3> QED
      BY <1>1, <1>5, <3>1, <3>2
  <2> QED
    BY <1>0, <1>1, <1>2, <1>3, <2>1 DEF Places, callerVars
<1>8. Accounted'
  <2>1. ASSUME NEW d \in Callers PROVE d \in subject \cup (waits \ waits') \/ answer'[d] = answer[d]
    BY <1>1
  <2> QED
    BY <1>0, <1>1, <1>2, <1>3, <1>5, <1>6, <2>1 DEF Accounted, Unanswered, callerVars
<1>9. Clocks'
  BY <1>0, <1>1, <1>2, <1>3 DEF Clocks, callerVars, clockVars
<1>10. Limited' /\ Punctual' /\ GivesUpOnlyWhenStalled'
  BY <1>0, <1>2 DEF Limited, Punctual, GivesUpOnlyWhenStalled, callerVars, clockVars
<1> QED
  BY <1>4, <1>7, <1>8, <1>9, <1>10 DEF IInv

\* A compositor that goes down leaves no call unanswered.
LEMMA GoneInv == ASSUME IInv, Gone PROVE IInv'
<1>0. TypeOK /\ Places /\ Accounted /\ Clocks /\ Limited /\ Punctual /\ GivesUpOnlyWhenStalled
  BY DEF IInv
<1>1. /\ thread' = "gone" /\ subject' = {} /\ channel' = <<>> /\ waits' = {}
      /\ remaining' = [d \in Callers |-> 0]
      /\ answer' = [d \in Callers |-> IF d \in Orphans THEN "dropped" ELSE answer[d]]
      /\ UNCHANGED <<callerVars, performed, clockVars>>
  BY DEF Gone, Dropped, Reply
<1>2. InHand' = {} /\ Elems(channel') = {} /\ Distinct(channel')
  BY <1>1 DEF InHand, Elems, Distinct
<1>3. TypeOK'
  BY <1>0, <1>1 DEF TypeOK, callerVars, clockVars, Doing, Answers
<1>4. Places'
  BY <1>0, <1>1, <1>2 DEF Places
<1>5. Accounted'
  BY <1>0, <1>1, <1>2 DEF Accounted, Orphans, Unanswered, callerVars
<1>6. Clocks' /\ Limited' /\ Punctual' /\ GivesUpOnlyWhenStalled'
  BY <1>0, <1>1, <1>2 DEF Clocks, Limited, Punctual, GivesUpOnlyWhenStalled, callerVars, clockVars
<1> QED
  BY <1>3, <1>4, <1>5, <1>6 DEF IInv

\* A process that ends leaves no call under way.
LEMMA ProcessEndsInv == ASSUME IInv, ProcessEnds PROVE IInv'
<1>0. TypeOK /\ Places /\ Accounted /\ Clocks /\ Limited /\ Punctual /\ GivesUpOnlyWhenStalled
  BY DEF IInv
<1>1. /\ thread' = "exited" /\ subject' = {} /\ channel' = <<>> /\ waits' = {}
      /\ remaining' = [d \in Callers |-> 0]
      /\ stage' = [d \in Callers |-> IF Under(d) THEN "done" ELSE stage[d]]
      /\ outcome' = [d \in Callers |-> IF Under(d) THEN "gone" ELSE outcome[d]]
      /\ UNCHANGED <<waitMs, limit, age, reading, performed, answer, clockVars>>
  BY DEF ProcessEnds, Dropped
<1>2. InHand' = {} /\ Elems(channel') = {} /\ Distinct(channel')
  BY <1>1 DEF InHand, Elems, Distinct
<1>3. TypeOK'
  BY <1>0, <1>1 DEF TypeOK, clockVars, Doing, Stages, Outcomes
<1>4. Places'
  BY <1>0, <1>1, <1>2 DEF Places
<1>5. \A d \in Callers : stage'[d] # "awaiting" /\ stage'[d] # "reading"
  BY <1>1 DEF Under
<1>6. \A d \in Callers : stage'[d] = "idle" => stage[d] = "idle" /\ outcome'[d] = outcome[d]
  BY <1>1 DEF Under
<1>7. Accounted'
  BY <1>0, <1>1, <1>5, <1>6 DEF Accounted, Unanswered
<1>8. Clocks' /\ Limited' /\ Punctual'
  BY <1>0, <1>1, <1>2, <1>5 DEF Clocks, Limited, Callers, Punctual, clockVars
<1>9. GivesUpOnlyWhenStalled'
  BY <1>0, <1>1 DEF GivesUpOnlyWhenStalled, clockVars
<1> QED
  BY <1>3, <1>4, <1>7, <1>8, <1>9 DEF IInv

\* The time of a call grows with its delay while it is queued or in hand, with
\* what is left of its wait while it waits, and with its reading time.
LEMMA ElapseInv == ASSUME IInv, Elapse PROVE IInv'
<1>0. TypeOK /\ Places /\ Accounted /\ Clocks /\ Limited /\ Punctual /\ GivesUpOnlyWhenStalled
  BY DEF IInv
<1>1. /\ age' = [d \in Callers |-> IF Under(d) THEN age[d] + 1 ELSE age[d]]
      /\ reading' = [d \in Callers |-> IF stage[d] = "reading" THEN reading[d] + 1 ELSE reading[d]]
      /\ remaining' = [d \in Callers |-> IF d \in waits /\ remaining[d] > 0
                                         THEN remaining[d] - 1 ELSE remaining[d]]
      /\ stall' = IF Busy THEN stall - 1 ELSE stall
      /\ delay' = [d \in Callers |-> IF Busy /\ Under(d) THEN delay[d] + 1 ELSE delay[d]]
  BY DEF Elapse
<1>2. UNCHANGED <<stage, waitMs, limit, outcome, channel, thread, subject, waits, answer, performed>>
  BY DEF Elapse
<1>3. InHand' = InHand
  BY <1>2 DEF InHand
<1>4. /\ \A d \in Callers : /\ age[d] \in Nat /\ delay[d] \in Nat /\ remaining[d] \in Nat
                            /\ reading[d] \in 0..ReadTime /\ waitMs[d] \in Nat
      /\ stall \in 0..StallMax /\ ReadTime \in Nat /\ StallMax \in Nat
  BY <1>0, CallsAssumption DEF TypeOK
<1>5. Busy => stall > 0
  BY DEF Elapse, ThreadWaits
<1>6. \A d \in Callers : stage[d] = "reading" => reading[d] < ReadTime
  BY DEF Elapse, CallersWait
<1>7. TypeOK'
  <2>1. age' \in [Callers -> Nat] /\ delay' \in [Callers -> Nat] /\ remaining' \in [Callers -> Nat]
    BY <1>1, <1>4
  <2>2. reading' \in [Callers -> 0..ReadTime]
    BY <1>1, <1>4, <1>6
  <2>3. stall' \in 0..StallMax
    BY <1>1, <1>4, <1>5
  <2> QED
    BY <1>0, <1>2, <2>1, <2>2, <2>3 DEF TypeOK
<1>8. Places'
  BY <1>0, <1>2, <1>3 DEF Places
<1>9. Accounted'
  BY <1>0, <1>1, <1>2, <1>3 DEF Accounted, Unanswered, Under
<1>10. Clocks'
  <2>1. ASSUME NEW d \in Callers, d \in Elems(channel) \cup InHand PROVE age'[d] <= delay'[d]
    <3>1. Busy
      <4>1. CASE d \in Elems(channel)
        <5>1. channel # <<>>
          BY <4>1 DEF Elems
        <5>2. thread # "idle"
          BY <5>1 DEF Elapse, ThreadWaits
        <5>3. ~Down
          BY <1>0, <5>1 DEF Places, Down
        <5> QED
          BY <1>0, <5>2, <5>3 DEF TypeOK, Doing, Busy, Down
      <4>2. CASE d \in InHand
        BY <4>2 DEF InHand, Busy
      <4> QED
        BY <2>1, <4>1, <4>2
    <3>2. age[d] <= delay[d]
      BY <1>0, <2>1 DEF Clocks
    <3> QED
      BY <1>1, <1>4, <3>1, <3>2
  <2>2. ASSUME NEW d \in Callers, d \in waits
        PROVE  age'[d] + remaining'[d] <= waitMs[d] + delay'[d]
    <3>1. age[d] + remaining[d] <= waitMs[d] + delay[d]
      BY <1>0, <2>2 DEF Clocks
    <3>2. CASE Busy
      BY <1>1, <1>4, <2>2, <3>1, <3>2
    <3>3. CASE ~Busy
      <4>1. thread = "idle"
        BY <1>0, <2>2, <3>3 DEF TypeOK, Doing, Busy, Places, Down
      <4>2. remaining[d] # 0
        BY <2>2, <4>1 DEF Elapse, ThreadWaits, Due
      <4> QED
        BY <1>1, <1>4, <2>2, <3>1, <3>3, <4>2
    <3> QED
      BY <3>2, <3>3
  <2> QED
    BY <1>2, <1>3, <2>1, <2>2 DEF Clocks
<1>11. Limited'
  BY <1>0, <1>2 DEF Limited
<1>12. Punctual'
  <2>1. ASSUME NEW d \in Callers PROVE age'[d] <= waitMs[d] + delay'[d] + reading'[d]
    <3>1. age[d] <= waitMs[d] + delay[d] + reading[d]
      BY <1>0 DEF Punctual
    <3>2. CASE ~Under(d)
      BY <1>1, <1>4, <3>1, <3>2 DEF Under
    <3>3. CASE stage[d] = "reading"
      BY <1>1, <1>4, <3>1, <3>3 DEF Under
    <3>4. CASE stage[d] = "awaiting"
      <4>1. d \in Elems(channel) \cup InHand \cup waits
        BY <1>0, <3>4 DEF Elapse, CallersWait, Accounted, Unanswered
      <4>2. age'[d] <= delay'[d] \/ age'[d] + remaining'[d] <= waitMs[d] + delay'[d]
        BY <1>2, <1>3, <1>10, <4>1 DEF Clocks
      <4>3. /\ age'[d] \in Nat /\ delay'[d] \in Nat /\ remaining'[d] \in Nat /\ waitMs[d] \in Nat
            /\ reading'[d] \in Nat
        BY <1>2, <1>4, <1>7 DEF TypeOK
      <4> QED
        BY <4>2, <4>3
    <3> QED
      BY <3>2, <3>3, <3>4 DEF Under
  <2> QED
    BY <1>2, <2>1 DEF Punctual
<1>13. GivesUpOnlyWhenStalled'
  <2>1. \A d \in Callers : delay[d] >= Grace => delay'[d] >= Grace
    BY <1>1, <1>4, CallsAssumption
  <2> QED
    BY <1>0, <1>2, <2>1 DEF GivesUpOnlyWhenStalled
<1> QED
  BY <1>7, <1>8, <1>9, <1>10, <1>11, <1>12, <1>13 DEF IInv

\* Everything below follows from this.
THEOREM Invariance == Spec => []IInv
<1>1. IInv /\ [Next]_vars => IInv'
  <2> SUFFICES ASSUME IInv, [Next]_vars PROVE IInv'
    OBVIOUS
  <2>1. ASSUME NEW c \in Callers, Send(c) \/ CallerStep(c) PROVE IInv'
    BY <2>1, SendInv, CallerStepInv
  <2>2. CASE TakeRequest
    BY <2>2, TakeRequestInv
  <2>3. CASE Acts
    BY <2>3, ReplyInv, StartWaitInv DEF Acts
  <2>4. CASE Tick
    BY <2>4, TickInv
  <2>5. CASE Evaluate
    BY <2>5, EvaluateInv
  <2>6. CASE Gone
    BY <2>6, GoneInv
  <2>10. CASE ProcessEnds
    BY <2>10, ProcessEndsInv
  <2>7. CASE Elapse
    BY <2>7, ElapseInv
  <2>8. CASE RenderTick \/ Stored
    BY <2>8, RenderInv
  <2>9. CASE UNCHANGED vars
    <3>1. UNCHANGED callerVars /\ UNCHANGED <<channel, threadVars, answer, clockVars>>
      BY <2>9 DEF vars
    <3>2. TypeOK'
      BY <3>1 DEF IInv, TypeOK, callerVars, threadVars, clockVars
    <3>3. Places' /\ Accounted' /\ Clocks'
      BY <3>1 DEF IInv, Places, Accounted, Clocks, InHand, Unanswered, callerVars, threadVars, clockVars
    <3>4. Limited' /\ Punctual' /\ GivesUpOnlyWhenStalled'
      BY <3>1 DEF IInv, Limited, Punctual, GivesUpOnlyWhenStalled, callerVars, clockVars
    <3> QED
      BY <3>2, <3>3, <3>4 DEF IInv
  <2> QED
    BY <2>1, <2>2, <2>3, <2>4, <2>5, <2>6, <2>10, <2>7, <2>8, <2>9 DEF Next
<1> QED
  BY InitInv, <1>1, PTL DEF Spec

\* The types, for any calls, timeouts and times.
THEOREM TypeCorrect == Spec => []TypeOK
<1>1. IInv => TypeOK
  BY DEF IInv
<1> QED
  BY <1>1, Invariance, PTL

\* No call takes longer than its wait, its snapshot and the stalls of the
\* compositor, however many calls there are.
THEOREM Punctuality == Spec => []Punctual
<1>1. IInv => Punctual
  BY DEF IInv
<1> QED
  BY <1>1, Invariance, PTL

\* A tool that gives up had a compositor that was stalled for the grace time,
\* unless its wait_ms + 30_000 overflowed.
THEOREM Patience == Spec => []GivesUpOnlyWhenStalled
<1>1. IInv => GivesUpOnlyWhenStalled
  BY DEF IInv
<1> QED
  BY <1>1, Invariance, PTL

-----------------------------------------------------------------------------
(* Calls implements Service *)

\* A step that ends the call of c, or leaves it under way, is a step of Service.
LEMMA StepOfCaller ==
  ASSUME IInv, NEW c \in Callers, Send(c) \/ CallerStep(c)
  PROVE  Promise!Call(c) \/ Promise!Return(c) \/ UNCHANGED Promise!serviceVars
<1> DEFINE st == [d \in Callers |-> Status(d)]
<1>0. TypeOK /\ Accounted
  BY DEF IInv
<1>1. /\ UNCHANGED performed
      /\ \A d \in Callers \ {c} : stage'[d] = stage[d] /\ outcome'[d] = outcome[d]
  BY <1>0 DEF TypeOK, CallerStep, Send, Receive, GiveUp, TreesRead, Ended, threadVars
<1>2. \A d \in Callers \ {c} : st'[d] = st[d]
  BY <1>1 DEF Status
<1>3. st' = [st EXCEPT ![c] = st'[c]]
  BY <1>2
<1>4. CASE Send(c)
  <2>1. st[c] = "idle"
    BY <1>4 DEF Send, Status
  <2>2. CASE Down
    <3>1. st'[c] = "error" /\ UNCHANGED channel
      BY <1>0, <1>4, <2>2 DEF Send, Status, TypeOK
    <3> QED
      BY <1>1, <1>3, <2>1, <3>1 DEF Promise!Call, Promise!Ends
  <2>3. CASE ~Down
    <3>1. st'[c] = "called" /\ channel' = Append(channel, c)
      BY <1>0, <1>4, <2>3 DEF Send, Status, TypeOK
    <3> QED
      BY <1>1, <1>3, <2>1, <3>1 DEF Promise!Call, Promise!Ends
  <2> QED
    BY <2>2, <2>3
<1>5. CASE CallerStep(c)
  <2>1. st[c] = "called" /\ UNCHANGED channel
    BY <1>5 DEF CallerStep, Receive, GiveUp, TreesRead, Status
  <2>2. \/ st'[c] = "error"
        \/ st'[c] \in {"state", "refused"} /\ c \in performed
        \/ st'[c] = "called"
    <3>1. CASE Receive(c)
      BY <1>0, <3>1 DEF Receive, Ended, Status, TypeOK, Accounted
    <3>2. CASE GiveUp(c)
      BY <1>0, <3>2 DEF GiveUp, Ended, Status, TypeOK
    <3>3. CASE TreesRead(c)
      BY <1>0, <3>3 DEF TreesRead, Ended, Status, TypeOK, Accounted
    <3> QED
      BY <1>5, <3>1, <3>2, <3>3 DEF CallerStep
  <2>3. CASE st'[c] = "called"
    <3>1. st' = st
      BY <1>2, <2>1, <2>3
    <3> QED
      BY <1>1, <2>1, <3>1 DEF Promise!serviceVars
  <2>4. CASE st'[c] # "called"
    BY <1>1, <1>3, <2>1, <2>2, <2>4 DEF Promise!Return, Promise!Ends
  <2> QED
    BY <2>3, <2>4
<1> QED
  BY <1>4, <1>5

\* A server that loses its queue may leave all its callers waiting.
LEMMA NothingLost ==
  ASSUME UNCHANGED <<stage, outcome, performed>>, channel' = <<>>
  PROVE  Promise!Lose
<1> DEFINE st == [d \in Callers |-> Status(d)]
<1>1. st' = [c \in Callers |-> IF c \in {} THEN "error" ELSE st[c]]
  BY DEF Status
<1>2. {} \in SUBSET {c \in Callers : st[c] = "called"}
  OBVIOUS
<1> QED
  BY <1>1, <1>2 DEF Promise!Lose

\* The calls a process takes with it are those under way.
LEMMA EndIsLoss == ASSUME IInv, ProcessEnds PROVE Promise!Lose
<1> DEFINE st == [d \in Callers |-> Status(d)]
           lost == {d \in Callers : Under(d)}
<1>1. /\ channel' = <<>> /\ UNCHANGED performed
      /\ stage' = [d \in Callers |-> IF Under(d) THEN "done" ELSE stage[d]]
      /\ outcome' = [d \in Callers |-> IF Under(d) THEN "gone" ELSE outcome[d]]
  BY DEF ProcessEnds, Dropped
<1>2. lost \in SUBSET {c \in Callers : st[c] = "called"}
  BY DEF Under, Status
<1>3. ASSUME NEW c \in Callers
      PROVE  Status(c)' = IF c \in lost THEN "error" ELSE Status(c)
  BY <1>1 DEF Under, Status
<1>4. st' = [c \in Callers |-> IF c \in lost THEN "error" ELSE st[c]]
  BY <1>3
<1> QED
  BY <1>1, <1>2, <1>4 DEF Promise!Lose

\* ImplementsService: every behaviour of Calls is one of Service.
THEOREM Implementation == Spec => ImplementsService
<1>1. Init => Promise!Init
  BY DEF Init, Promise!Init, Status
<1>2. IInv /\ [Next]_vars => [Promise!Next]_(Promise!serviceVars)
  <2> SUFFICES ASSUME IInv, [Next]_vars PROVE [Promise!Next]_(Promise!serviceVars)
    OBVIOUS
  <2>1. ASSUME NEW c \in Callers, Send(c) \/ CallerStep(c)
        PROVE [Promise!Next]_(Promise!serviceVars)
    BY <2>1, StepOfCaller DEF Promise!Next
  <2>2. CASE TakeRequest
    <3>1. /\ channel # <<>> /\ channel' = Tail(channel)
          /\ performed' = performed \cup {Head(channel)}
          /\ UNCHANGED <<stage, outcome>>
      BY <2>2 DEF TakeRequest, callerVars
    <3>2. Head(channel) \in Callers /\ Head(channel) \notin performed
      <4>1. Head(channel) \in Callers /\ Head(channel) \in Elems(channel)
        BY <3>1, TailElems DEF IInv, TypeOK, Places
      <4> QED
        BY <4>1 DEF IInv, Places
    <3>3. Promise!Perform(Head(channel))
      BY <3>1, <3>2 DEF Promise!Perform, Status
    <3> QED
      BY <3>2, <3>3 DEF Promise!Next
  <2>3. CASE Gone
    <3>1. UNCHANGED <<stage, outcome, performed>> /\ channel' = <<>>
      BY <2>3 DEF Gone, Dropped, callerVars
    <3>2. Promise!Lose
      BY <3>1, NothingLost
    <3> QED
      BY <3>2 DEF Promise!Next
  <2>5. CASE ProcessEnds
    BY <2>5, EndIsLoss DEF Promise!Next
  <2>4. CASE Acts \/ Tick \/ Evaluate \/ RenderTick \/ Stored \/ Elapse \/ UNCHANGED vars
    <3>1. UNCHANGED <<stage, outcome, channel, performed>>
      BY <2>4 DEF Acts, Refuse, ReplyAtOnce, StartWait, Tick, Evaluate,
                  RenderTick, Stored, Elapse, vars, callerVars, threadVars
    <3> QED
      BY <3>1 DEF Promise!serviceVars, Status
  <2> QED
    BY <2>1, <2>2, <2>3, <2>4, <2>5 DEF Next
<1> QED
  BY <1>1, <1>2, Invariance, PTL DEF Spec, ImplementsService, Promise!Spec
=============================================================================
