--------------------------- MODULE DesktopProofs ---------------------------
(***************************************************************************)
(* Proofs about the desktop: its type, the agreement of registry, stack    *)
(* and focus, where a press goes, and what may take the focus away.        *)
(*                                                                         *)
(* The invariant comes in layers, each proved to be kept with the help of  *)
(* those above it: the registry (ids are given out in order, and only open *)
(* windows have a surface or cover the pointer), the stack (it holds the   *)
(* open windows, each once), the focus (at most one window has it, and it  *)
(* has the keyboard), the seat, and the events of the step just taken.     *)
(***************************************************************************)
EXTENDS Desktop, SequenceTheorems, FiniteSetTheorems, TLAPS

-----------------------------------------------------------------------------
(* The stack of the space (comp.rs:84): what taking a window out of it and *)
(* putting one on top of its layer do, and which window surface_under      *)
(* finds.  A stack holds a set of windows, each of them once.              *)

\* s holds the windows W, each of them once.
StackOf(s, W) == s \in Seq(Ids) /\ ToSet(s) = W /\ IsInjective(s)

-----------------------------------------------------------------------------
(* Sequences *)

\* What InsertAt of the community modules returns, place by place.
LEMMA InsertAtElements ==
  ASSUME NEW S, NEW s \in Seq(S), NEW k \in 1..(Len(s) + 1), NEW e \in S
  PROVE  /\ InsertAt(s, k, e) \in Seq(S)
         /\ Len(InsertAt(s, k, e)) = Len(s) + 1
         /\ \A j \in 1..(Len(s) + 1) :
              InsertAt(s, k, e)[j] = IF j < k THEN s[j] ELSE IF j = k THEN e ELSE s[j - 1]
<1> DEFINE a == SubSeq(s, 1, k - 1)
           b == SubSeq(s, k, Len(s))
           c == a \o <<e>>
<1>1. Len(s) \in Nat /\ k \in Nat /\ \A j \in 1..Len(s) : s[j] \in S
  BY LenProperties, ElementOfSeq
<1>2. a \in Seq(S) /\ Len(a) = k - 1 /\ \A j \in 1..(k - 1) : a[j] = s[j]
  BY <1>1, SubSeqProperties
<1>3. /\ b \in Seq(S)
      /\ Len(b) = Len(s) - k + 1
      /\ \A j \in 1..(Len(s) - k + 1) : b[j] = s[k + j - 1]
  BY <1>1, SubSeqProperties
<1>4. <<e>> \in Seq(S) /\ Len(<<e>>) = 1 /\ <<e>>[1] = e
  OBVIOUS
<1>5. /\ c \in Seq(S)
      /\ Len(c) = k
      /\ \A j \in 1..k : c[j] = IF j < k THEN s[j] ELSE e
  <2> HIDE DEF a
  <2>1. /\ c \in Seq(S)
        /\ Len(c) = Len(a) + 1
        /\ \A j \in 1..(Len(a) + 1) : c[j] = IF j <= Len(a) THEN a[j] ELSE <<e>>[j - Len(a)]
    BY <1>2, <1>4, ConcatProperties
  <2>2. ASSUME NEW j \in 1..k PROVE c[j] = IF j < k THEN s[j] ELSE e
    <3>1. /\ j \in 1..(Len(a) + 1)
          /\ Len(a) = k - 1
          /\ j < k => a[j] = s[j]
          /\ j >= k => j - Len(a) = 1
      BY <1>1, <1>2
    <3>2. c[j] = IF j <= Len(a) THEN a[j] ELSE <<e>>[j - Len(a)]
      BY <2>1, <3>1
    <3> HIDE DEF c
    <3> QED BY <1>1, <1>4, <3>1, <3>2
  <2> QED BY <1>1, <1>2, <2>1, <2>2
<1> HIDE DEF a, b, c
<1>6. /\ c \o b \in Seq(S)
      /\ Len(c \o b) = Len(s) + 1
      /\ \A j \in 1..(Len(s) + 1) : (c \o b)[j] = IF j <= k THEN c[j] ELSE b[j - k]
  <2>1. k + (Len(s) - k + 1) = Len(s) + 1
    BY <1>1
  <2>2. Len(c) = k /\ Len(b) = Len(s) - k + 1
    BY <1>3, <1>5
  <2>3. /\ c \o b \in Seq(S)
        /\ Len(c \o b) = Len(c) + Len(b)
        /\ \A j \in 1..(Len(c) + Len(b)) : (c \o b)[j] = IF j <= Len(c) THEN c[j] ELSE b[j - Len(c)]
    BY <1>3, <1>5, ConcatProperties
  <2> QED BY <2>1, <2>2, <2>3
<1>7. ASSUME NEW j \in 1..(Len(s) + 1)
      PROVE  (c \o b)[j] = IF j < k THEN s[j] ELSE IF j = k THEN e ELSE s[j - 1]
  <2>1. CASE j <= k
    BY <1>1, <1>5, <1>6, <2>1
  <2>2. CASE j > k
    <3>1. j - k \in 1..(Len(s) - k + 1) /\ k + (j - k) - 1 = j - 1
      BY <1>1, <2>2
    <3>2. (c \o b)[j] = b[j - k]
      BY <1>1, <1>6, <2>2
    <3>3. b[j - k] = s[j - 1]
      BY <1>3, <3>1
    <3> QED BY <1>1, <2>2, <3>2, <3>3
  <2>3. j <= k \/ j > k
    BY <1>1
  <2> QED BY <2>1, <2>2, <2>3
<1>8. InsertAt(s, k, e) = c \o b
  BY DEF InsertAt, a, b, c
<1> QED BY <1>6, <1>7, <1>8

\* What RemoveAt of the community modules returns, place by place.
LEMMA RemoveAtElements ==
  ASSUME NEW S, NEW s \in Seq(S), NEW k \in 1..Len(s)
  PROVE  /\ RemoveAt(s, k) \in Seq(S)
         /\ Len(RemoveAt(s, k)) = Len(s) - 1
         /\ \A j \in 1..(Len(s) - 1) :
              RemoveAt(s, k)[j] = IF j < k THEN s[j] ELSE s[j + 1]
<1> DEFINE a == SubSeq(s, 1, k - 1)
           b == SubSeq(s, k + 1, Len(s))
<1>1. Len(s) \in Nat /\ k \in Nat /\ \A j \in 1..Len(s) : s[j] \in S
  BY LenProperties, ElementOfSeq
<1>2. a \in Seq(S) /\ Len(a) = k - 1 /\ \A j \in 1..(k - 1) : a[j] = s[j]
  BY <1>1, SubSeqProperties
<1>3. /\ b \in Seq(S)
      /\ Len(b) = Len(s) - k
      /\ \A j \in 1..(Len(s) - k) : b[j] = s[k + j]
  BY <1>1, SubSeqProperties
<1> HIDE DEF a, b
<1>4. /\ a \o b \in Seq(S)
      /\ Len(a \o b) = Len(s) - 1
      /\ \A j \in 1..(Len(s) - 1) : (a \o b)[j] = IF j <= k - 1 THEN a[j] ELSE b[j - (k - 1)]
  BY <1>1, <1>2, <1>3, ConcatProperties
<1>5. ASSUME NEW j \in 1..(Len(s) - 1)
      PROVE  (a \o b)[j] = IF j < k THEN s[j] ELSE s[j + 1]
  <2>1. CASE j < k
    BY <1>1, <1>2, <1>4, <2>1
  <2>2. CASE j >= k
    <3>1. j - (k - 1) \in 1..(Len(s) - k) /\ k + (j - (k - 1)) = j + 1
      BY <1>1, <2>2
    <3>2. (a \o b)[j] = b[j - (k - 1)]
      BY <1>1, <1>4, <2>2
    <3>3. b[j - (k - 1)] = s[j + 1]
      BY <1>3, <3>1
    <3> QED BY <1>1, <2>2, <3>2, <3>3
  <2>3. j < k \/ j >= k
    BY <1>1
  <2> QED BY <2>1, <2>2, <2>3
<1>6. RemoveAt(s, k) = a \o b
  BY DEF RemoveAt, a, b
<1> QED BY <1>4, <1>5, <1>6

-----------------------------------------------------------------------------
(* The stack *)

\* StackOf, place by place.
LEMMA StackElements ==
  ASSUME NEW s, NEW W
  PROVE  StackOf(s, W) <=>
           /\ s \in Seq(Ids)
           /\ \A j \in 1..Len(s) : s[j] \in W
           /\ \A i \in W : \E j \in 1..Len(s) : s[j] = i
           /\ \A j, k \in 1..Len(s) : s[j] = s[k] => j = k
<1>1. s \in Seq(Ids) => DOMAIN s = 1..Len(s)
  BY LenProperties
<1> QED BY <1>1 DEF StackOf, ToSet, IsInjective

\* A window that is taken out is gone, and the others stay where they are.
LEMMA WithoutStack ==
  ASSUME NEW s, NEW W, StackOf(s, W), NEW i
  PROVE  StackOf(Without(s, i), W \ {i})
<1>1. /\ s \in Seq(Ids) /\ DOMAIN s = 1..Len(s) /\ Len(s) \in Nat
      /\ ToSet(s) = W
  BY LenProperties DEF StackOf
<1>2. CASE i \notin W
  BY <1>1, <1>2 DEF Without, StackOf
<1>3. CASE i \in W
  <2> DEFINE k == CHOOSE n \in DOMAIN s : s[n] = i
             r == RemoveAt(s, k)
  <2>1. k \in 1..Len(s) /\ s[k] = i
    BY <1>1, <1>3 DEF ToSet
  <2>2. Without(s, i) = r
    BY <1>1, <1>3 DEF Without
  <2> HIDE DEF k
  <2>3. /\ r \in Seq(Ids) /\ Len(r) = Len(s) - 1
        /\ \A j \in 1..(Len(s) - 1) : r[j] = IF j < k THEN s[j] ELSE s[j + 1]
    BY <1>1, <2>1, RemoveAtElements
  <2> HIDE DEF r
  <2>4. /\ \A j \in 1..Len(s) : s[j] \in W
        /\ \A w \in W : \E j \in 1..Len(s) : s[j] = w
        /\ \A j, n \in 1..Len(s) : s[j] = s[n] => j = n
    BY StackElements
  <2>5. ASSUME NEW j \in 1..Len(r) PROVE r[j] \in W \ {i}
    <3>1. CASE j < k
      BY <1>1, <2>1, <2>3, <2>4, <3>1
    <3>2. CASE j >= k
      <4>1. j + 1 \in 1..Len(s) /\ j + 1 # k
        BY <1>1, <2>1, <2>3, <3>2
      <4>2. r[j] = s[j + 1]
        BY <1>1, <2>1, <2>3, <3>2
      <4> QED BY <2>1, <2>4, <4>1, <4>2
    <3> QED BY <2>1, <2>3, <1>1, <3>1, <3>2
  <2>6. ASSUME NEW w \in W \ {i} PROVE \E j \in 1..Len(r) : r[j] = w
    <3>1. PICK n \in 1..Len(s) : s[n] = w
      BY <2>4
    <3>2. n # k
      BY <2>1, <3>1
    <3>3. CASE n < k
      BY <1>1, <2>1, <2>3, <3>1, <3>3
    <3>4. CASE n > k
      <4>1. n - 1 \in 1..Len(r) /\ r[n - 1] = s[n]
        BY <1>1, <2>1, <2>3, <3>4
      <4> QED BY <3>1, <4>1
    <3> QED BY <1>1, <2>1, <3>2, <3>3, <3>4
  <2>7. ASSUME NEW j \in 1..Len(r), NEW n \in 1..Len(r), r[j] = r[n] PROVE j = n
    <3> DEFINE at(m) == IF m < k THEN m ELSE m + 1
    <3>1. /\ at(j) \in 1..Len(s) /\ r[j] = s[at(j)]
          /\ at(n) \in 1..Len(s) /\ r[n] = s[at(n)]
      BY <1>1, <2>1, <2>3
    <3>2. at(j) = at(n)
      BY <2>4, <2>7, <3>1
    <3> QED BY <1>1, <2>1, <2>3, <3>2
  <2> QED BY <2>2, <2>3, <2>5, <2>6, <2>7, StackElements
<1> QED BY <1>2, <1>3

\* A window that is not in the stack may be put anywhere in it.
LEMMA InsertStack ==
  ASSUME NEW s, NEW W, StackOf(s, W), NEW i \in Ids \ W, NEW k \in 1..(Len(s) + 1)
  PROVE  StackOf(InsertAt(s, k, i), W \cup {i})
<1> DEFINE r == InsertAt(s, k, i)
<1>1. s \in Seq(Ids) /\ Len(s) \in Nat /\ i \in Ids /\ i \notin W
  BY LenProperties DEF StackOf
<1>2. /\ r \in Seq(Ids) /\ Len(r) = Len(s) + 1
      /\ \A j \in 1..(Len(s) + 1) :
           r[j] = IF j < k THEN s[j] ELSE IF j = k THEN i ELSE s[j - 1]
  <2> HIDE DEF r
  <2>1. r = InsertAt(s, k, i)
    BY DEF r
  <2>2. s \in Seq(Ids) /\ i \in Ids /\ k \in 1..(Len(s) + 1)
    BY <1>1
  <2>3. /\ InsertAt(s, k, i) \in Seq(Ids) /\ Len(InsertAt(s, k, i)) = Len(s) + 1
        /\ \A j \in 1..(Len(s) + 1) :
             InsertAt(s, k, i)[j] = IF j < k THEN s[j] ELSE IF j = k THEN i ELSE s[j - 1]
    BY <2>2, InsertAtElements
  <2> QED BY <2>1, <2>3
<1> HIDE DEF r
<1>3. /\ \A j \in 1..Len(s) : s[j] \in W
      /\ \A w \in W : \E j \in 1..Len(s) : s[j] = w
      /\ \A j, n \in 1..Len(s) : s[j] = s[n] => j = n
  BY StackElements
<1> DEFINE from(m) == IF m < k THEN m ELSE m - 1
<1>4. ASSUME NEW j \in 1..Len(r), j # k
      PROVE  from(j) \in 1..Len(s) /\ r[j] = s[from(j)]
  BY <1>1, <1>2, <1>4
<1>5. k \in 1..Len(r) /\ r[k] = i
  BY <1>1, <1>2
<1>6. ASSUME NEW j \in 1..Len(r) PROVE r[j] \in W \cup {i}
  BY <1>3, <1>4, <1>5
<1>7. ASSUME NEW w \in W \cup {i} PROVE \E j \in 1..Len(r) : r[j] = w
  <2>1. CASE w = i
    BY <1>5, <2>1
  <2>2. CASE w \in W
    <3>1. PICK n \in 1..Len(s) : s[n] = w
      BY <1>3, <2>2
    <3> DEFINE to == IF n < k THEN n ELSE n + 1
    <3>2. to \in 1..Len(r) /\ r[to] = s[n]
      BY <1>1, <1>2, <3>1
    <3> QED BY <3>1, <3>2
  <2> QED BY <2>1, <2>2
<1>8. ASSUME NEW j \in 1..Len(r), NEW n \in 1..Len(r), r[j] = r[n] PROVE j = n
  <2>1. CASE j = k \/ n = k
    BY <1>3, <1>4, <1>5, <1>8, <2>1
  <2>2. CASE j # k /\ n # k
    <3>1. /\ from(j) \in 1..Len(s) /\ r[j] = s[from(j)]
          /\ from(n) \in 1..Len(s) /\ r[n] = s[from(n)]
      BY <1>4, <2>2
    <3>2. from(j) = from(n)
      BY <1>3, <1>8, <3>1
    <3> QED BY <1>1, <1>2, <2>2, <3>2
  <2> QED BY <2>1, <2>2
<1> QED BY <1>2, <1>6, <1>7, <1>8, StackElements DEF r

\* A window is put on top of its layer, wherever it was before.
LEMMA OnTopStack ==
  ASSUME NEW s, NEW W, StackOf(s, W), NEW i \in Ids
  PROVE  StackOf(OnTop(s, i), W \cup {i})
<1> DEFINE rest == Without(s, i)
           layer == {k \in DOMAIN rest :
                       OverlaysAbove /\ windows'[i] # "overlay" => windows'[rest[k]] # "overlay"}
<1>1. StackOf(rest, W \ {i})
  BY WithoutStack
<1>2. OnTop(s, i) = InsertAt(rest, Cardinality(layer) + 1, i)
  BY DEF OnTop
<1> HIDE DEF rest
<1>3. Len(rest) \in Nat /\ DOMAIN rest = 1..Len(rest)
  BY <1>1, LenProperties DEF StackOf
<1>4. IsFiniteSet(1..Len(rest)) /\ Cardinality(1..Len(rest)) = Len(rest)
  <2>1. \A n \in Nat : IsFiniteSet(1..n) /\ Cardinality(1..n) = n
    BY FS_Interval
  <2> QED BY <1>3, <2>1
<1>5. layer \subseteq 1..Len(rest)
  BY <1>3
<1> HIDE DEF layer
<1>6. Cardinality(layer) \in Nat /\ Cardinality(layer) <= Len(rest)
  BY <1>4, <1>5, FS_Subset, FS_CardinalityType
<1>7. Cardinality(layer) + 1 \in 1..(Len(rest) + 1)
  BY <1>3, <1>6
<1>8. i \in Ids \ (W \ {i})
  OBVIOUS
<1>9. StackOf(InsertAt(rest, Cardinality(layer) + 1, i), (W \ {i}) \cup {i})
  BY <1>1, <1>7, <1>8, InsertStack
<1>10. (W \ {i}) \cup {i} = W \cup {i}
  OBVIOUS
<1> QED BY <1>2, <1>9, <1>10

\* The top of the stack is one of its windows, and there is one unless it is empty.
LEMMA TopOfStack ==
  ASSUME NEW s, NEW W, StackOf(s, W)
  PROVE  /\ Top(s) = {} => W = {}
         /\ \A i \in Top(s) : i \in W /\ Top(s) = {i}
<1>1. s \in Seq(Ids) /\ Len(s) \in Nat /\ DOMAIN s = 1..Len(s)
  BY LenProperties DEF StackOf
<1>2. CASE s = <<>>
  <2>1. W = {}
    BY <1>2 DEF StackOf, ToSet
  <2> QED BY <1>2, <2>1 DEF Top
<1>3. CASE s # <<>>
  <2>1. Len(s) \in 1..Len(s)
    BY <1>1, <1>3, EmptySeq
  <2>2. s[Len(s)] \in W
    BY <2>1, StackElements
  <2>3. Top(s) = {s[Len(s)]}
    BY <1>3 DEF Top, Last
  <2> QED BY <2>2, <2>3
<1> QED BY <1>2, <1>3

\* surface_under finds at most one window, which has a surface and is at the
\* pointer.
LEMMA UnderOne ==
  ASSUME NEW s \in Seq(Ids), NEW C
  PROVE  /\ Under(s, C) \subseteq C \cap surface' \cap ToSet(s)
         /\ \A i, j \in Under(s, C) : i = j
<1> DEFINE T == C \cap surface'
           P == {k \in DOMAIN s : s[k] \in T /\ \A l \in k + 1..Len(s) : s[l] \notin T}
<1>1. Len(s) \in Nat /\ DOMAIN s = 1..Len(s)
  BY LenProperties
<1>2. Under(s, C) = {s[k] : k \in P}
  BY DEF Under
<1>3. ASSUME NEW k \in P, NEW l \in P PROVE k = l
  <2>1. k \in 1..Len(s) /\ l \in 1..Len(s) /\ s[k] \in T /\ s[l] \in T
    BY <1>1
  <2>2. ~ (k < l) /\ ~ (l < k)
    BY <1>1, <2>1
  <2> QED BY <2>1, <2>2
<1>4. \A k \in P : s[k] \in T /\ k \in DOMAIN s
  OBVIOUS
<1> HIDE DEF P, T
<1>5. \A i, j \in Under(s, C) : i = j
  BY <1>2, <1>3
<1>6. Under(s, C) \subseteq T \cap ToSet(s)
  BY <1>2, <1>4 DEF ToSet
<1> QED BY <1>5, <1>6 DEF T

-----------------------------------------------------------------------------
(* The invariant *)

WindowsType == windows \in [Ids -> Kinds \cup {"none"}]

RegistryInv ==
  /\ WindowsType
  /\ nextId \in 1..(MaxId + 1)
  /\ \A i \in Open : i < nextId
  /\ surface \subseteq Open
  /\ covers \subseteq Open

StackInv == StackOf(space, Open)

\* focused_window names a window with a surface, the one the keys go to.
FocusAgrees ==
  \/ focused = {}
  \/ \E i \in surface : focused = {i} /\ keyboard = {i}

SeatInv == keyboard \subseteq Ids /\ pointer \in PointerRec

EventInv == input \in SUBSET EventRec /\ AimedPressHits

DesktopInv == RegistryInv /\ StackInv /\ FocusAgrees /\ SeatInv /\ EventInv

-----------------------------------------------------------------------------
(* The tool calls *)

\* A tool call that is not about the keyboard's focus leaves it alone; the others
\* focus one of the windows W or none.
Focuses(W) == FocusAny(W, space, focused)

\* No tool call opens or closes a window, and each of them focuses at most one
\* window of those that are under the pointer, on top or asked for.
LEMMA ToolSurroundings ==
  ASSUME Tool
  PROVE  /\ UNCHANGED <<windows, nextId, surface>>
         /\ covers' \subseteq covers \cup Open
         /\ \/ UNCHANGED focusVars
            \/ \E C \in Places : Focuses(Under(space, C))
            \/ Focuses(Unfocused)
            \/ \E i \in Open : Focuses({i})
<1>1. ASSUME NEW C \in Places, MouseMove(C)
      PROVE  /\ UNCHANGED <<windows, nextId, surface>> /\ covers' \subseteq Open
             /\ UNCHANGED focusVars
  BY <1>1 DEF MouseMove, Places
<1>2. ASSUME NEW b \in Buttons, NEW C \in Places, NEW aimed \in BOOLEAN,
             Click(b, C, aimed) \/ MouseDown(b, C, aimed)
      PROVE  /\ UNCHANGED <<windows, nextId, surface>> /\ covers' \subseteq Open
             /\ Focuses(Under(space, C))
  BY <1>2 DEF Click, MouseDown, Aim, Places, Focuses
<1>3. ASSUME NEW b \in Buttons, NEW C \in Places, NEW aimed \in BOOLEAN,
             MouseUp(b, C, aimed)
      PROVE  /\ UNCHANGED <<windows, nextId, surface>> /\ covers' \subseteq Open
             /\ UNCHANGED focusVars
  BY <1>3 DEF MouseUp, Places
<1>4. ASSUME NEW valid \in BOOLEAN, Type(valid)
      PROVE  UNCHANGED <<windows, nextId, surface, covers>> /\ Focuses(Unfocused)
  BY <1>4 DEF Type, Focuses
<1>5. ASSUME NEW i \in Ids, FocusWindow(i)
      PROVE  /\ UNCHANGED <<windows, nextId, surface, covers>>
             /\ i \in Open /\ Focuses({i})
  BY <1>5 DEF FocusWindow, FocusAny, Focuses
<1> QED BY <1>1, <1>2, <1>3, <1>4, <1>5 DEF Tool

-----------------------------------------------------------------------------
(* The registry *)

\* A new window is open from then on, and the others stay open.
LEMMA RegisterStep ==
  ASSUME RegistryInv, NEW kind \in Kinds, Register(kind),
         surface' \subseteq surface \cup {nextId}
  PROVE  /\ RegistryInv'
         /\ Open' = Open \cup {nextId}
         /\ windows'[nextId] = kind
         /\ nextId \in Ids \ Open
<1>1. /\ nextId \in Ids /\ windows' = [windows EXCEPT ![nextId] = kind]
      /\ nextId' = nextId + 1 /\ covers' \in Shifted(nextId)
  BY DEF Register
<1>2. kind # "none"
  BY DEF Kinds
<1>3. WindowsType' /\ Open' = Open \cup {nextId} /\ windows'[nextId] = kind
  BY <1>1, <1>2 DEF WindowsType, Open, RegistryInv
<1>4. nextId \in Nat /\ nextId <= MaxId /\ MaxId \in Nat
  BY <1>1, DesktopAssumption DEF Ids
<1>5. nextId \in Ids \ Open
  BY <1>1, <1>4 DEF RegistryInv
<1>6. \A i \in Open : i \in Nat
  BY DEF Open, Ids
<1>7. (\A i \in Open : i < nextId)'
  BY <1>1, <1>3, <1>4, <1>6 DEF RegistryInv
<1>8. covers' \subseteq Open' /\ surface' \subseteq Open'
  BY <1>1, <1>3 DEF RegistryInv, Shifted
<1>9. (nextId \in 1..(MaxId + 1))'
  BY <1>1, <1>4
<1> QED BY <1>3, <1>5, <1>7, <1>8, <1>9 DEF RegistryInv

\* A step that neither opens nor closes a window.
LEMMA SameRegistry ==
  ASSUME RegistryInv, UNCHANGED <<windows, nextId>>,
         surface' \subseteq Open, covers' \subseteq Open
  PROVE  RegistryInv' /\ Open' = Open
  BY DEF RegistryInv, WindowsType, Open

\* A window that closes is closed for all.
LEMMA CloseStep ==
  ASSUME RegistryInv, NEW i \in Ids, Close(i)
  PROVE  RegistryInv' /\ Open' = Open \ {i}
<1>1. /\ i \in Open
      /\ windows' = [windows EXCEPT ![i] = "none"]
      /\ surface' = surface \ {i}
      /\ covers' = covers \ {i}
      /\ nextId' = nextId
  BY DEF Close, Unregister
<1>2. WindowsType' /\ Open' = Open \ {i}
  BY <1>1 DEF RegistryInv, WindowsType, Open
<1> QED BY <1>1, <1>2 DEF RegistryInv

\* The part of the registry every handler and every tool call keeps.
LEMMA NextRegistry == RegistryInv /\ [Next]_vars => RegistryInv'
<1> SUFFICES ASSUME RegistryInv, [Next]_vars PROVE RegistryInv'
  OBVIOUS
<1>1. CASE NewToplevel
  BY <1>1, RegisterStep DEF NewToplevel, Kinds
<1>2. CASE MapX11
  BY <1>2, RegisterStep DEF MapX11, Kinds
<1>3. CASE MapOverlay
  BY <1>3, RegisterStep DEF MapOverlay, Kinds
<1>4. CASE DropDeadFocus
  BY <1>4, SameRegistry DEF DropDeadFocus, RegistryInv
<1>5. ASSUME NEW i \in Ids, Associate(i) PROVE RegistryInv'
  <2>1. i \in Open
    BY <1>5 DEF Associate, Open
  <2> QED BY <1>5, <2>1, SameRegistry DEF Associate, RegistryInv
<1>6. ASSUME NEW i \in Ids, Close(i) PROVE RegistryInv'
  BY <1>6, CloseStep
<1>7. ASSUME NEW i \in Ids, Reconfigure(i) \/ Resized(i) PROVE RegistryInv'
  <2>1. i \in Open /\ covers' \in Shifted(i) /\ UNCHANGED <<windows, nextId, surface>>
    BY <1>7 DEF Reconfigure, Resized, Open
  <2>2. covers' \subseteq Open
    BY <2>1 DEF Shifted, RegistryInv
  <2> QED BY <2>1, <2>2, SameRegistry DEF RegistryInv
<1>8. CASE Tool
  BY <1>8, ToolSurroundings, SameRegistry DEF RegistryInv
<1>9. CASE UNCHANGED vars
  BY <1>9, SameRegistry DEF vars, RegistryInv
<1> QED
  BY <1>1, <1>2, <1>3, <1>4, <1>5, <1>6, <1>7, <1>8, <1>9 DEF Next, Activity

-----------------------------------------------------------------------------
(* The stack *)

\* Focusing a window of the stack restacks it, and no more.
LEMMA FocusKeepsStack ==
  ASSUME NEW V \in SUBSET Ids, NEW s, StackOf(s, V), NEW W \in SUBSET V, NEW f,
         FocusAny(W, s, f)
  PROVE  StackOf(space', V)
<1>1. CASE \E i \in W : Focus(i, s, f)
  <2>1. PICK i \in W : Focus(i, s, f)
    BY <1>1
  <2>2. i \in Ids /\ V \cup {i} = V /\ space' = OnTop(s, i)
    BY <2>1 DEF Focus
  <2> QED BY <2>2, OnTopStack
<1>2. CASE KeepFocus(s, f)
  BY <1>2 DEF KeepFocus
<1> QED BY <1>1, <1>2 DEF FocusAny

\* The windows a tool call may focus are windows of the stack.
LEMMA ToolFocusesOpen ==
  ASSUME StackInv, NEW C
  PROVE  Under(space, C) \subseteq Open /\ Unfocused \subseteq Open
<1>1. space \in Seq(Ids) /\ ToSet(space) = Open
  BY DEF StackInv, StackOf
<1>2. Under(space, C) \subseteq Open
  BY <1>1, UnderOne
<1>3. Unfocused \subseteq Open
  BY TopOfStack DEF Unfocused, StackInv
<1> QED BY <1>2, <1>3

\* Registry and space stay in step.
LEMMA NextStack == RegistryInv /\ StackInv /\ [Next]_vars => StackInv'
<1> SUFFICES ASSUME RegistryInv, StackInv, [Next]_vars PROVE StackInv'
  OBVIOUS
<1> Open \in SUBSET Ids
  BY DEF Open
<1>1. CASE NewToplevel
  <2>1. Open' = Open \cup {nextId} /\ nextId \in Ids
    BY <1>1, RegisterStep DEF NewToplevel, Kinds
  <2>2. space' = OnTop(space, nextId)
    BY <1>1 DEF NewToplevel, Focus
  <2> QED BY <2>1, <2>2, OnTopStack DEF StackInv
<1>2. CASE MapX11
  <2>1. Open' = Open \cup {nextId} /\ nextId \in Ids
    BY <1>2, RegisterStep DEF MapX11, Kinds
  <2>2. space' = OnTop(space, nextId)
    BY <1>2 DEF MapX11, Focus
  <2> QED BY <2>1, <2>2, OnTopStack DEF StackInv
<1>3. CASE MapOverlay
  <2>1. Open' = Open \cup {nextId} /\ nextId \in Ids
    BY <1>3, RegisterStep DEF MapOverlay, Kinds
  <2>2. space' = OnTop(space, nextId)
    BY <1>3 DEF MapOverlay, KeepFocus
  <2> QED BY <2>1, <2>2, OnTopStack DEF StackInv
<1>4. CASE DropDeadFocus
  BY <1>4 DEF DropDeadFocus, StackInv, Open
<1>5. ASSUME NEW i \in Ids, Associate(i) PROVE StackInv'
  <2>1. windows' = windows /\ FocusAny(Associated(i), space, focused) /\ i \in Open
    BY <1>5 DEF Associate, Open
  <2>2. Associated(i) \in SUBSET Open
    BY <2>1 DEF Associated
  <2>3. StackOf(space', Open)
    BY <2>1, <2>2, FocusKeepsStack DEF StackInv
  <2> QED BY <2>1, <2>3 DEF StackInv, Open
<1>6. ASSUME NEW i \in Ids, Close(i) PROVE StackInv'
  <2> DEFINE rest == Without(space, i)
             V == Open \ {i}
  <2>1. StackOf(rest, V)
    BY WithoutStack DEF StackInv
  <2>2. Open' = V
    BY <1>6, CloseStep
  <2>3. \/ FocusAny(Top(rest), rest, {})
        \/ space' = rest
    BY <1>6 DEF Close, Unregister, KeepFocus
  <2>4. Top(rest) \in SUBSET V
    BY <2>1, TopOfStack
  <2>5. V \in SUBSET Ids
    OBVIOUS
  <2> HIDE DEF V, rest
  <2>6. StackOf(space', V)
    BY <2>1, <2>3, <2>4, <2>5, FocusKeepsStack
  <2> QED BY <2>2, <2>6 DEF StackInv
<1>7. ASSUME NEW i \in Ids, Reconfigure(i) PROVE StackInv'
  <2>1. windows' = windows /\ space' = OnTop(space, i) /\ i \in Open
    BY <1>7 DEF Reconfigure, KeepFocus, Open
  <2>2. Open \cup {i} = Open
    BY <2>1
  <2>3. StackOf(space', Open)
    BY <2>1, <2>2, OnTopStack DEF StackInv
  <2> QED BY <2>1, <2>3 DEF StackInv, Open
<1>8. ASSUME NEW i \in Ids, Resized(i) PROVE StackInv'
  BY <1>8 DEF Resized, focusVars, StackInv, Open
<1>9. CASE Tool
  <2>1. Open' = Open
    BY <1>9, ToolSurroundings DEF Open
  <2>2. space' = space \/ \E W \in SUBSET Open : Focuses(W)
    BY <1>9, ToolSurroundings, ToolFocusesOpen DEF focusVars
  <2>3. StackOf(space', Open)
    BY <2>2, FocusKeepsStack DEF StackInv, Focuses
  <2> QED BY <2>1, <2>3 DEF StackInv
<1>10. CASE UNCHANGED vars
  BY <1>10 DEF vars, StackInv, Open
<1> QED
  BY <1>1, <1>2, <1>3, <1>4, <1>5, <1>6, <1>7, <1>8, <1>9, <1>10 DEF Next, Activity

-----------------------------------------------------------------------------
(* Focus *)

\* Focusing a window, or trying to, keeps the two in agreement.
LEMMA FocusStep ==
  ASSUME FocusAgrees, surface \subseteq surface', NEW W, NEW s,
         FocusAny(W, s, focused)
  PROVE  FocusAgrees'
<1>1. CASE \E i \in W : Focus(i, s, focused)
  <2>1. PICK i \in W : Focus(i, s, focused)
    BY <1>1
  <2>2. CASE i \in surface'
    BY <2>1, <2>2 DEF Focus, FocusAgrees
  <2>3. CASE i \notin surface'
    BY <2>1, <2>3 DEF Focus, FocusAgrees
  <2> QED BY <2>2, <2>3
<1>2. CASE KeepFocus(s, focused)
  BY <1>2 DEF KeepFocus, FocusAgrees
<1> QED BY <1>1, <1>2 DEF FocusAny

\* A window that closes hands the focus over or leaves nobody focused.
LEMMA UnregisterStep ==
  ASSUME FocusAgrees, NEW i \in Ids, Unregister(i)
  PROVE  FocusAgrees'
<1> DEFINE rest == Without(space, i)
<1>1. surface' = surface \ {i}
  BY DEF Unregister
<1>2. CASE focused = {i}
  <2>1. FocusAny(Top(rest), rest, {})
    BY <1>2 DEF Unregister
  <2>2. CASE \E j \in Top(rest) : Focus(j, rest, {})
    BY <2>2 DEF Focus, FocusAgrees
  <2>3. CASE KeepFocus(rest, {})
    BY <2>3 DEF KeepFocus, FocusAgrees
  <2> QED BY <2>1, <2>2, <2>3 DEF FocusAny
<1>3. CASE focused # {i}
  <2>1. focused' = focused /\ keyboard' = keyboard
    BY <1>3 DEF Unregister, KeepFocus
  <2> QED BY <1>1, <1>3, <2>1 DEF FocusAgrees
<1> QED BY <1>2, <1>3

\* No handler and no tool call breaks the agreement.
LEMMA NextFocus == RegistryInv /\ FocusAgrees /\ [Next]_vars => FocusAgrees'
<1> SUFFICES ASSUME RegistryInv, FocusAgrees, [Next]_vars PROVE FocusAgrees'
  OBVIOUS
<1>1. CASE NewToplevel \/ MapX11
  <2>1. surface \subseteq surface' /\ FocusAny({nextId}, space, focused)
    BY <1>1 DEF NewToplevel, MapX11, FocusAny
  <2> QED BY <2>1, FocusStep
<1>2. CASE MapOverlay
  BY <1>2 DEF MapOverlay, KeepFocus, FocusAgrees
<1>3. CASE DropDeadFocus
  <2>1. focused = {}
    BY <1>3 DEF DropDeadFocus, FocusAgrees, RegistryInv
  <2> QED BY <1>3, <2>1 DEF DropDeadFocus, FocusAgrees
<1>4. ASSUME NEW i \in Ids, Associate(i) PROVE FocusAgrees'
  <2>1. surface \subseteq surface' /\ FocusAny(Associated(i), space, focused)
    BY <1>4 DEF Associate
  <2> QED BY <2>1, FocusStep
<1>5. ASSUME NEW i \in Ids, Close(i) PROVE FocusAgrees'
  BY <1>5, UnregisterStep DEF Close
<1>6. ASSUME NEW i \in Ids, Reconfigure(i) \/ Resized(i) PROVE FocusAgrees'
  BY <1>6 DEF Reconfigure, Resized, KeepFocus, focusVars, FocusAgrees
<1>7. CASE Tool
  <2>1. surface' = surface /\ (UNCHANGED focusVars \/ \E W : Focuses(W))
    BY <1>7, ToolSurroundings
  <2> QED BY <2>1, FocusStep DEF Focuses, focusVars, FocusAgrees
<1>8. CASE UNCHANGED vars
  BY <1>8 DEF vars, FocusAgrees
<1> QED
  BY <1>1, <1>2, <1>3, <1>4, <1>5, <1>6, <1>7, <1>8 DEF Next, Activity

-----------------------------------------------------------------------------
(* The seat *)

\* Buttons keep the pointer a pointer.
LEMMA ButtonTypes ==
  ASSUME NEW p \in PointerRec, NEW b \in Buttons
  PROVE  Pressed(p, b) \in PointerRec /\ Released(p, b) \in PointerRec
<1>1. p.on \subseteq Ids /\ p.latest \subseteq Ids /\ p.held \subseteq Buttons
  BY DEF PointerRec
<1>2. Pressed(p, b) \in PointerRec
  BY <1>1 DEF Pressed, PointerRec
<1>3. Released(p, b) \in PointerRec
  BY <1>1 DEF Released, PointerRec
<1> QED BY <1>2, <1>3

\* Motions do too, and what is found where a call points are windows.
LEMMA AtType ==
  ASSUME StackInv, SeatInv, NEW C, NEW aimed
  PROVE  At(C, aimed) \in PointerRec /\ Under(space, C) \in SUBSET Ids
<1>1. Under(space, C) \in SUBSET Ids
  BY ToolFocusesOpen DEF Open
<1>2. At(C, aimed) \in PointerRec
  <2>1. pointer.on \subseteq Ids /\ pointer.latest \subseteq Ids /\ pointer.held \subseteq Buttons
    BY DEF SeatInv, PointerRec
  <2>2. Moved(pointer, Under(space, C)) \in PointerRec
    BY <1>1, <2>1 DEF Moved, PointerRec, SeatInv
  <2> QED BY <2>2 DEF At, SeatInv
<1> QED BY <1>1, <1>2

\* Only windows are given the keyboard.
LEMMA FocusKeyboard ==
  ASSUME keyboard \subseteq Ids, NEW W \in SUBSET Ids, NEW s, NEW f, FocusAny(W, s, f)
  PROVE  keyboard' \subseteq Ids
  BY DEF FocusAny, Focus, KeepFocus

\* The seat keeps its type.
LEMMA NextSeat == RegistryInv /\ StackInv /\ SeatInv /\ [Next]_vars => SeatInv'
<1> SUFFICES ASSUME RegistryInv, StackInv, SeatInv, [Next]_vars PROVE SeatInv'
  OBVIOUS
<1> Open \in SUBSET Ids
  BY DEF Open
<1>1. CASE NewToplevel \/ MapX11
  <2>1. nextId \in Ids /\ pointer' = pointer /\ FocusAny({nextId}, space, focused)
    BY <1>1 DEF NewToplevel, MapX11, Register, FocusAny
  <2> QED BY <2>1, FocusKeyboard DEF SeatInv
<1>2. CASE MapOverlay
  BY <1>2 DEF MapOverlay, Register, KeepFocus, SeatInv
<1>3. CASE DropDeadFocus
  BY <1>3 DEF DropDeadFocus, SeatInv
<1>4. ASSUME NEW i \in Ids, Associate(i) PROVE SeatInv'
  <2>1. /\ Associated(i) \in SUBSET Ids /\ pointer' = pointer
        /\ FocusAny(Associated(i), space, focused)
    BY <1>4 DEF Associate, Associated
  <2> QED BY <2>1, FocusKeyboard DEF SeatInv
<1>5. ASSUME NEW i \in Ids, Close(i) PROVE SeatInv'
  <2> DEFINE rest == Without(space, i)
  <2>1. /\ pointer' = pointer
        /\ FocusAny(Top(rest), rest, {}) \/ keyboard' = keyboard
    BY <1>5 DEF Close, Unregister, KeepFocus
  <2>2. StackOf(rest, Open \ {i})
    BY WithoutStack DEF StackInv
  <2>3. Top(rest) \in SUBSET Ids
    BY <2>2, TopOfStack
  <2> HIDE DEF rest
  <2> QED BY <2>1, <2>3, FocusKeyboard DEF SeatInv
<1>6. ASSUME NEW i \in Ids, Reconfigure(i) \/ Resized(i) PROVE SeatInv'
  BY <1>6 DEF Reconfigure, Resized, KeepFocus, focusVars, SeatInv
<1>7. CASE Tool
  <2>1. keyboard' \subseteq Ids
    <3>1. keyboard' = keyboard \/ \E W \in SUBSET Open : Focuses(W)
      BY <1>7, ToolSurroundings, ToolFocusesOpen DEF focusVars
    <3> QED BY <3>1, FocusKeyboard DEF SeatInv, Focuses
  <2>2. pointer' \in PointerRec
    <3>1. ASSUME NEW C \in Places, MouseMove(C) PROVE pointer' \in PointerRec
      BY <3>1, AtType DEF MouseMove
    <3>2. ASSUME NEW b \in Buttons, NEW C \in Places, NEW aimed \in BOOLEAN,
                 Click(b, C, aimed) \/ MouseDown(b, C, aimed) \/ MouseUp(b, C, aimed)
          PROVE  pointer' \in PointerRec
      <4> DEFINE p == At(C, aimed)
      <4>1. p \in PointerRec
        BY AtType
      <4>2. \/ pointer' = Released(Pressed(p, b), b)
            \/ pointer' = Pressed(p, b)
            \/ pointer' = Released(p, b)
        BY <3>2 DEF Click, MouseDown, MouseUp
      <4> HIDE DEF p
      <4>3. Pressed(p, b) \in PointerRec /\ Released(p, b) \in PointerRec
        BY <4>1, ButtonTypes
      <4>4. Released(Pressed(p, b), b) \in PointerRec
        BY <4>3, ButtonTypes
      <4> QED BY <4>2, <4>3, <4>4
    <3>3. ASSUME NEW valid \in BOOLEAN, Type(valid) PROVE pointer' \in PointerRec
      BY <3>3 DEF Type, SeatInv
    <3>4. ASSUME NEW i \in Ids, FocusWindow(i) PROVE pointer' \in PointerRec
      BY <3>4 DEF FocusWindow, SeatInv
    <3> QED BY <1>7, <3>1, <3>2, <3>3, <3>4 DEF Tool
  <2> QED BY <2>1, <2>2 DEF SeatInv
<1>8. CASE UNCHANGED vars
  BY <1>8 DEF vars, SeatInv
<1> QED
  BY <1>1, <1>2, <1>3, <1>4, <1>5, <1>6, <1>7, <1>8 DEF Next, Activity

-----------------------------------------------------------------------------
(* Events *)

\* Steps that deliver no event.
LEMMA NoEvents ==
  ASSUME input' = {}
  PROVE  EventInv'
  BY DEF EventInv, AimedPressHits

\* The event of a call whose position the pointer was free to follow goes to the
\* window found there, the one the call has focused.
LEMMA PressEvents ==
  ASSUME StackInv, SeatInv, surface' = surface, NEW C, NEW aimed \in BOOLEAN,
         Aim(C, aimed), input' = PressAt(C, aimed)
  PROVE  EventInv'
<1> DEFINE under == Under(space, C)
           to == At(C, aimed).on
           free == aimed /\ pointer.held = {}
           e == [kind |-> "press", to |-> to, under |-> under, aimed |-> free]
<1>1. input' = {e}
  BY DEF PressAt
<1>2. under \subseteq Ids /\ to \subseteq Ids
  BY AtType DEF PointerRec
<1>3. ASSUME free PROVE to = under
  <2>1. At(C, aimed) = [pointer EXCEPT !.latest = under, !.on = under]
    BY <1>3 DEF At, Moved
  <2>2. pointer \in PointerRec
    BY DEF SeatInv
  <2> HIDE DEF under
  <2> QED BY <2>1, <2>2 DEF PointerRec
<1>4. ASSUME under # {} PROVE focused' = under
  <2>1. PICK i \in under : Focus(i, space, focused)
    BY <1>4 DEF Aim, FocusAny
  <2>2. i \in surface' /\ under = {i}
    <3>1. space \in Seq(Ids)
      BY DEF StackInv, StackOf
    <3>2. under \subseteq surface' /\ \A j \in under : i = j
      BY <3>1, UnderOne
    <3> HIDE DEF under
    <3> QED BY <2>1, <3>2
  <2> QED BY <2>1, <2>2 DEF Focus
<1> HIDE DEF under, to
<1>5. free \in BOOLEAN
  OBVIOUS
<1> HIDE DEF free
<1>6. e \in EventRec
  BY <1>2, <1>5 DEF EventRec
<1>7. e.kind = "press" /\ e.aimed => e.to = e.under /\ (e.under # {} => focused' = e.under)
  BY <1>3, <1>4
<1> HIDE DEF e
<1>8. AimedPressHits'
  BY <1>1, <1>7 DEF AimedPressHits
<1> QED BY <1>1, <1>6, <1>8 DEF EventInv

\* Whatever is delivered is delivered where it should go.
LEMMA NextEvents ==
  RegistryInv /\ StackInv /\ SeatInv /\ EventInv /\ [Next]_vars /\ SeatInv' => EventInv'
<1> SUFFICES ASSUME RegistryInv, StackInv, SeatInv, EventInv, [Next]_vars, SeatInv'
             PROVE  EventInv'
  OBVIOUS
<1>1. CASE Activity
  <2>1. input' = {}
    BY <1>1 DEF Activity, NewToplevel, MapX11, MapOverlay, Register, DropDeadFocus,
                Associate, Close, Reconfigure, Resized
  <2> QED BY <2>1, NoEvents
<1>2. ASSUME NEW C \in Places, MouseMove(C) PROVE EventInv'
  BY <1>2, NoEvents DEF MouseMove
<1>3. ASSUME NEW b \in Buttons, NEW C \in Places, NEW aimed \in BOOLEAN,
             Click(b, C, aimed) \/ MouseDown(b, C, aimed)
      PROVE  EventInv'
  <2>1. surface' = surface /\ Aim(C, aimed) /\ input' = PressAt(C, aimed)
    BY <1>3 DEF Click, MouseDown
  <2> QED BY <2>1, PressEvents
<1>4. ASSUME NEW b \in Buttons, NEW C \in Places, NEW aimed \in BOOLEAN,
             MouseUp(b, C, aimed)
      PROVE  EventInv'
  BY <1>4, NoEvents DEF MouseUp
<1>5. ASSUME NEW valid \in BOOLEAN, Type(valid) PROVE EventInv'
  <2> DEFINE e == [kind |-> "key", to |-> keyboard', under |-> {}, aimed |-> FALSE]
  <2>1. input' = {e} \/ input' = {}
    BY <1>5 DEF Type
  <2>2. e \in EventRec /\ e.kind # "press"
    BY DEF SeatInv, EventRec
  <2> HIDE DEF e
  <2>3. CASE input' = {e}
    BY <2>2, <2>3 DEF EventInv, AimedPressHits
  <2> QED BY <2>1, <2>3, NoEvents
<1>6. ASSUME NEW i \in Ids, FocusWindow(i) PROVE EventInv'
  BY <1>6, NoEvents DEF FocusWindow
<1>7. CASE UNCHANGED vars
  BY <1>7 DEF vars, EventInv, AimedPressHits
<1> QED
  BY <1>1, <1>2, <1>3, <1>4, <1>5, <1>6, <1>7 DEF Next, Tool

-----------------------------------------------------------------------------
(* Theorems *)

\* The invariant of the desktop.
LEMMA DesktopSafe == Spec => []DesktopInv
<1>1. Init => DesktopInv
  <2> SUFFICES ASSUME Init PROVE DesktopInv
    OBVIOUS
  <2>1. Open = {}
    BY DEF Init, Open
  <2>2. MaxId \in Nat
    BY DesktopAssumption
  <2>3. RegistryInv
    BY <2>1, <2>2 DEF Init, RegistryInv, WindowsType
  <2>4. StackInv
    BY <2>1 DEF Init, StackInv, StackOf, ToSet, IsInjective
  <2>5. FocusAgrees
    BY DEF Init, FocusAgrees
  <2>6. SeatInv
    BY DEF Init, SeatInv, PointerRec
  <2>7. EventInv
    BY DEF Init, EventInv, AimedPressHits
  <2> QED BY <2>3, <2>4, <2>5, <2>6, <2>7 DEF DesktopInv
<1>2. DesktopInv /\ [Next]_vars => DesktopInv'
  BY NextRegistry, NextStack, NextFocus, NextSeat, NextEvents DEF DesktopInv
<1> QED BY <1>1, <1>2, PTL DEF Spec

\* comp.rs: every variable keeps the shape the Rust types give it, and only open
\* windows have a surface or a place under the pointer.
THEOREM TypeSafe == Spec => []TypeOK
<1>1. DesktopInv => TypeOK
  <2> SUFFICES ASSUME DesktopInv PROVE TypeOK
    OBVIOUS
  <2>1. focused \in SUBSET Ids
    BY DEF DesktopInv, RegistryInv, FocusAgrees, Open
  <2>2. space \in Seq(Ids)
    BY DEF DesktopInv, StackInv, StackOf
  <2> QED BY <2>1, <2>2 DEF DesktopInv, RegistryInv, WindowsType, SeatInv, EventInv, TypeOK
<1> QED BY <1>1, DesktopSafe, PTL

\* comp.rs:84,97: however maps, restacks and closes interleave, the space holds
\* the windows of the registry, each of them once.
THEOREM StackSafe == Spec => []SpaceIsRegistry
<1>1. DesktopInv => SpaceIsRegistry
  BY DEF DesktopInv, StackInv, StackOf, SpaceIsRegistry
<1> QED BY <1>1, DesktopSafe, PTL

\* focus_window_by_id, unregister_window, focus_changed: whatever the clients and
\* the tools do, in any order, the window reported as focused is open, has a
\* surface, and is the one that gets the keys.
THEOREM FocusSafe == Spec => []FocusedHasKeyboard
<1>1. DesktopInv => FocusedHasKeyboard
  BY DEF DesktopInv, FocusAgrees, FocusedHasKeyboard
<1> QED BY <1>1, DesktopSafe, PTL

\* pointer_motion, focus_under_pointer: a press at a given position goes to the
\* topmost window there, and that window has the focus from then on.
THEOREM PressSafe == Spec => []AimedPressHits
<1>1. DesktopInv => AimedPressHits
  BY DEF DesktopInv, EventInv
<1> QED BY <1>1, DesktopSafe, PTL

\* What may take the focus away from window i.
MayTakeFocus(i) ==
  \/ \E C \in Places, b \in Buttons, aimed \in BOOLEAN :
       Click(b, C, aimed) \/ MouseDown(b, C, aimed)
  \/ \E j \in Open : FocusWindow(j)
  \/ \E j \in Open' \ surface : j \in surface' /\ windows'[j] # "overlay"

\* No other step does.
LEMMA NextKeepsFocus ==
  ASSUME DesktopInv, [Next]_vars, NEW i \in Open \cap Open',
         focused = {i}, focused' # {i}
  PROVE  MayTakeFocus(i)
<1> RegistryInv /\ StackInv /\ FocusAgrees
  BY DEF DesktopInv
<1>1. CASE NewToplevel
  <2>1. /\ Open' = Open \cup {nextId} /\ nextId \notin Open
        /\ windows'[nextId] = "xdg"
    BY <1>1, RegisterStep DEF NewToplevel, Kinds
  <2>2. nextId \in surface' /\ nextId \notin surface
    BY <1>1, <2>1 DEF NewToplevel, RegistryInv
  <2> QED BY <2>1, <2>2 DEF MayTakeFocus
<1>2. CASE MapX11
  <2>1. nextId \notin Open
    BY <1>2, RegisterStep DEF MapX11, Kinds
  <2>2. nextId \notin surface' /\ Focus(nextId, space, focused)
    BY <1>2, <2>1 DEF MapX11, RegistryInv
  <2> QED BY <2>2 DEF Focus
<1>3. CASE MapOverlay
  BY <1>3 DEF MapOverlay, KeepFocus
<1>4. ASSUME NEW j \in Ids, Associate(j) PROVE MayTakeFocus(i)
  <2>1. /\ FocusAny(Associated(j), space, focused) /\ windows' = windows
        /\ j \notin surface /\ j \in surface' /\ windows[j] \in {"x11", "overlay"}
    BY <1>4 DEF Associate
  <2>2. Associated(j) # {}
    BY <2>1 DEF FocusAny, KeepFocus
  <2>3. windows'[j] # "overlay" /\ j \in Open'
    BY <2>1, <2>2 DEF Associated, Open
  <2> QED BY <2>1, <2>3 DEF MayTakeFocus
<1>5. ASSUME NEW j \in Ids, Close(j) PROVE MayTakeFocus(i)
  <2>1. i # j
    BY <1>5, CloseStep
  <2> QED BY <1>5, <2>1 DEF Close, Unregister, KeepFocus
<1>6. ASSUME NEW j \in Ids, Reconfigure(j) \/ Resized(j) PROVE MayTakeFocus(i)
  BY <1>6 DEF Reconfigure, Resized, KeepFocus, focusVars
<1>7. ASSUME NEW C \in Places, MouseMove(C) PROVE MayTakeFocus(i)
  BY <1>7 DEF MouseMove, focusVars
<1>8. ASSUME NEW b \in Buttons, NEW C \in Places, NEW aimed \in BOOLEAN,
             Click(b, C, aimed) \/ MouseDown(b, C, aimed)
      PROVE  MayTakeFocus(i)
  BY <1>8 DEF MayTakeFocus
<1>9. ASSUME NEW b \in Buttons, NEW C \in Places, NEW aimed \in BOOLEAN,
             MouseUp(b, C, aimed)
      PROVE  MayTakeFocus(i)
  BY <1>9 DEF MouseUp, focusVars
<1>10. ASSUME NEW valid \in BOOLEAN, Type(valid) PROVE MayTakeFocus(i)
  <2>1. keyboard # {}
    BY DEF FocusAgrees
  <2>2. Unfocused = {}
    BY <2>1 DEF Unfocused
  <2> QED BY <1>10, <2>2 DEF Type, FocusAny, KeepFocus
<1>11. ASSUME NEW j \in Ids, FocusWindow(j) PROVE MayTakeFocus(i)
  <2>1. j \in Open
    BY <1>11 DEF FocusWindow
  <2> QED BY <1>11, <2>1 DEF MayTakeFocus
<1>12. CASE UNCHANGED vars
  BY <1>12 DEF vars
<1>13. CASE DropDeadFocus
  <2>1. keyboard = {i}
    BY DEF FocusAgrees
  <2> QED BY <1>13, <2>1 DEF DropDeadFocus
<1> QED
  BY <1>1, <1>2, <1>3, <1>4, <1>5, <1>6, <1>7, <1>8, <1>9, <1>10, <1>11, <1>12, <1>13
  DEF Next, Activity, Tool

\* focus_window_by_id, surface_associated, ensure_keyboard_focus: a window that has
\* the focus keeps it until it closes, unless the user clicks or asks for another
\* one or an ordinary window gets its surface.
THEOREM FocusKept == Spec => FocusIsKept
<1>1. DesktopInv /\ [Next]_vars =>
        [\A i \in Open \cap Open' : focused = {i} /\ focused' # {i} =>
           \/ \E C \in Places, b \in Buttons, aimed \in BOOLEAN :
                Click(b, C, aimed) \/ MouseDown(b, C, aimed)
           \/ \E j \in Open : FocusWindow(j)
           \/ \E j \in Open' \ surface : j \in surface' /\ windows'[j] # "overlay"]_vars
  BY NextKeepsFocus DEF MayTakeFocus
<1> QED BY <1>1, DesktopSafe, PTL DEF Spec, FocusIsKept
=============================================================================
