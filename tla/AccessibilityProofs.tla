------------------------ MODULE AccessibilityProofs ------------------------
(***************************************************************************)
(* Theorems about Accessibility: the trees are read in order and within    *)
(* one budget, and tell where they were cut; a window gets its own tree.   *)
(* They hold for applications that answer anything, trees without end      *)
(* included, and for every budget and depth.                               *)
(***************************************************************************)
EXTENDS Accessibility, SequenceTheorems, TLAPS

-----------------------------------------------------------------------------
(* The inductive invariant *)

\* The first node is the root; children are listed only where they were asked for,
\* which is not at the last level.
NodeInv ==
  \A k \in DOMAIN read :
    /\ k = 1 => read[k].parent = 0
    /\ read[k].kids > 0 => read[k].asked
    /\ read[k].asked => read[k].depth < MAX_DEPTH
    /\ read[k].told => budget = 0

\* The stack names nodes that were read, callers before those they called.
StackInv ==
  /\ task = "walk" => stack # <<>>
  /\ \A s \in DOMAIN stack : /\ stack[s].node \in DOMAIN read
                             /\ stack[s].next <= read[stack[s].node].kids + 1
  /\ \A s, t \in DOMAIN stack : s < t => stack[s].node < stack[t].node

\* What was read since a call began hangs below its node, from the children that the
\* loop has passed.
HangInv ==
  \A s \in DOMAIN stack, m \in DOMAIN read :
    m > stack[s].node =>
      /\ read[m].parent >= stack[s].node
      /\ read[m].parent = stack[s].node => read[m].nth < stack[s].next

\* The loop passes a child when it was read or could not be reached, or when it ends
\* for want of budget.
LoopInv ==
  \A s \in DOMAIN stack :
    LET n == stack[s].node
    IN  /\ read[n].told => stack[s].next = read[n].kids + 1
        /\ \A i \in read[n].gone : i < stack[s].next
        /\ ~read[n].told => \A i \in 1..(stack[s].next - 1) : i \in read[n].gone \/ Reads(n, i)

WalkInv ==
  /\ SnapshotTypeOK
  /\ NodeInv
  /\ StackInv
  /\ HangInv
  /\ LoopInv
  /\ SharesBudget
  /\ ReadsInOrder
  /\ CutIsTold
-----------------------------------------------------------------------------
(* The calls under way *)

\* While a frame is walked, the top of the stack is a call for a node that was read.
LEMMA TopIsRead ==
  ASSUME SnapshotTypeOK, StackInv, task = "walk"
  PROVE  /\ Len(stack) \in Nat \ {0}
         /\ Top = stack[Len(stack)] /\ Top \in Call
         /\ Top.node \in 1..Len(read) /\ Top.next \in Nat \ {0}
         /\ Current = read[Top.node] /\ Current \in Node
         /\ Current.kids \in Nat /\ Current.depth \in 0..MAX_DEPTH
         /\ HasNext => Top.next <= Current.kids
<1>1. Len(stack) \in Nat \ {0}
  BY EmptySeq DEF SnapshotTypeOK, StackInv
<1>2. Top = stack[Len(stack)]
  BY DEF Top, Last
<1>3. Top \in Call
  BY <1>1, <1>2, ElementOfSeq DEF SnapshotTypeOK
<1>4. Top.node \in DOMAIN read
  BY <1>1, <1>2, LenProperties DEF SnapshotTypeOK, StackInv
<1>5. Top.node \in 1..Len(read)
  BY <1>4, LenProperties DEF SnapshotTypeOK
<1>6. Current \in Node
  BY <1>5, ElementOfSeq DEF SnapshotTypeOK, Current
<1>7. Current.kids \in 0..MaxKids /\ Current.depth \in 0..MAX_DEPTH
  BY <1>6, Zenon DEF Node
<1>8. Current.kids \in Nat
  BY <1>7, AccessibilityAssumption
<1> QED
  BY <1>1, <1>2, <1>3, <1>5, <1>6, <1>7, <1>8 DEF Call, Current, HasNext

\* The parts of what was read have their types.
LEMMA NodeParts ==
  ASSUME NEW nodes \in Seq(Node), NEW m \in 1..Len(nodes)
  PROVE  /\ nodes[m] \in Node
         /\ nodes[m].parent \in Nat /\ nodes[m].nth \in Nat \ {0}
         /\ nodes[m].depth \in 0..MAX_DEPTH /\ nodes[m].kids \in Nat
         /\ nodes[m].asked \in BOOLEAN /\ nodes[m].told \in BOOLEAN
         /\ nodes[m].gone \subseteq Nat
<1>1. nodes[m] \in Node
  BY ElementOfSeq
<1>2. nodes[m].asked \in BOOLEAN /\ nodes[m].told \in BOOLEAN
  BY <1>1, Zenon DEF Node
<1>3. /\ nodes[m].parent \in Nat /\ nodes[m].nth \in Nat \ {0}
      /\ nodes[m].depth \in 0..MAX_DEPTH /\ nodes[m].kids \in 0..MaxKids
      /\ nodes[m].gone \in SUBSET (1..MaxKids)
  BY <1>1, Zenon DEF Node
<1>4. nodes[m].kids \in Nat /\ nodes[m].gone \subseteq Nat
  BY <1>3, AccessibilityAssumption
<1> QED
  BY <1>1, <1>2, <1>3, <1>4

\* Each call under way is one for a node that was read.
LEMMA CallParts ==
  ASSUME SnapshotTypeOK, StackInv, NEW s \in 1..Len(stack)
  PROVE  /\ stack[s].node \in 1..Len(read)
         /\ stack[s].next \in Nat \ {0}
         /\ stack[s].next <= read[stack[s].node].kids + 1
         /\ \A t \in 1..Len(stack) : s < t => stack[s].node < stack[t].node
<1>1. /\ DOMAIN stack = 1..Len(stack) /\ DOMAIN read = 1..Len(read)
      /\ stack[s] \in Call
  BY LenProperties, ElementOfSeq DEF SnapshotTypeOK
<1> QED
  BY <1>1 DEF StackInv, Call

\* The call on top goes on to the nth child, the others stay where they are.
LEMMA TopMoves ==
  ASSUME NEW calls \in Seq(Call), calls # <<>>, NEW n \in Nat \ {0}
  PROVE  LET moved == [calls EXCEPT ![Len(calls)].next = n]
         IN  /\ moved \in Seq(Call) /\ moved # <<>>
             /\ Len(moved) = Len(calls)
             /\ \A s \in 1..Len(calls) :
                  /\ moved[s].node = calls[s].node
                  /\ moved[s].next = IF s = Len(calls) THEN n ELSE calls[s].next
<1> DEFINE call == [calls[Len(calls)] EXCEPT !.next = n]
           moved == [calls EXCEPT ![Len(calls)].next = n]
<1>1. Len(calls) \in Nat \ {0}
  BY EmptySeq
<1>2. calls[Len(calls)] \in Call
  BY <1>1, ElementOfSeq
<1>3. call \in Call /\ call.node = calls[Len(calls)].node /\ call.next = n
  BY <1>2 DEF Call
<1>4. moved = [calls EXCEPT ![Len(calls)] = call]
  OBVIOUS
<1> HIDE DEF call, moved
<1>5. /\ moved \in Seq(Call)
      /\ Len(moved) = Len(calls)
      /\ \A s \in 1..Len(calls) : moved[s] = IF s = Len(calls) THEN call ELSE calls[s]
  BY <1>1, <1>3, <1>4, ExceptSeq
<1>6. moved # <<>>
  BY <1>1, <1>5, EmptySeq
<1> QED
  BY <1>3, <1>5, <1>6 DEF moved

\* What a call of walk does to the nodes read: it adds one, a child of the top.
LEMMA WalkChildReads ==
  ASSUME WalkInv, WalkChild
  PROVE  /\ read' \in Seq(Node)
         /\ Len(read') = Len(read) + 1
         /\ \A m \in 1..Len(read) : read'[m] = read[m]
         /\ LET k == Len(read) + 1
            IN  /\ read'[k].parent = Top.node
                /\ read'[k].nth = Top.next
                /\ read'[k].depth = Current.depth + 1
                /\ read'[k].asked <=> (read'[k].depth < MAX_DEPTH /\ budget' > 0)
                /\ read'[k].kids > 0 => read'[k].asked
                /\ read'[k].gone = {}
                /\ ~read'[k].told
<1> USE AccessibilityAssumption
<1>1. /\ Top.node \in 1..Len(read) /\ Top.next \in Nat \ {0}
      /\ Current = read[Top.node] /\ Current \in Node
      /\ read \in Seq(Node)
  BY TopIsRead DEF WalkInv, WalkChild, SnapshotTypeOK
<1> DEFINE asked == Current.depth + 1 < MAX_DEPTH /\ budget' > 0
           New(n) == [parent |-> Top.node, nth |-> Top.next, depth |-> Current.depth + 1,
                      asked |-> asked, kids |-> n, gone |-> {}, told |-> FALSE]
<1>2. PICK n \in 0..MaxKids : (n > 0 => asked) /\ read' = Append(read, New(n))
  <2>1. Top.node # 0
    BY <1>1
  <2> QED
    BY <2>1, Zenon DEF WalkChild, Walk
<1>3. Current.depth + 1 \in 0..MAX_DEPTH
  <2>1. /\ Current.kids > 0 /\ Current.kids \in Nat
        /\ Current.depth \in 0..MAX_DEPTH
        /\ Top.node \in DOMAIN read
    <3>1. HasNext /\ SnapshotTypeOK /\ StackInv /\ task = "walk"
      BY DEF WalkInv, WalkChild
    <3> QED
      BY <1>1, <3>1, TopIsRead, LenProperties
  <2>2. Current.depth < MAX_DEPTH
    BY <1>1, <2>1 DEF WalkInv, NodeInv
  <2> QED
    BY <2>1, <2>2
<1>4. New(n) \in Node
  <2>1. asked \in BOOLEAN
    OBVIOUS
  <2> HIDE DEF asked
  <2> QED
    BY <1>1, <1>3, <2>1 DEF Node
<1>5. /\ New(n).parent = Top.node /\ New(n).nth = Top.next
      /\ New(n).depth = Current.depth + 1
      /\ New(n).asked = asked /\ New(n).kids = n /\ New(n).gone = {} /\ New(n).told = FALSE
  OBVIOUS
<1> HIDE DEF New
<1>6. /\ read' \in Seq(Node)
      /\ Len(read') = Len(read) + 1
      /\ \A m \in 1..Len(read) : read'[m] = read[m]
      /\ read'[Len(read) + 1] = New(n)
  BY <1>1, <1>2, <1>4, AppendProperties
<1> QED
  BY <1>2, <1>5, <1>6

\* What it does to the stack: the caller goes on to the next child when it returns.
LEMMA WalkChildCalls ==
  ASSUME WalkInv, WalkChild
  PROVE  /\ stack' \in Seq(Call)
         /\ Len(stack') = Len(stack) + 1
         /\ \A s \in 1..Len(stack) :
              /\ stack'[s].node = stack[s].node
              /\ stack'[s].next = IF s = Len(stack) THEN stack[s].next + 1 ELSE stack[s].next
         /\ stack'[Len(stack) + 1] = [node |-> Len(read) + 1, next |-> 1]
<1>1. /\ Len(stack) \in Nat \ {0} /\ stack \in Seq(Call) /\ stack # <<>>
      /\ Top = stack[Len(stack)] /\ Top.node # 0 /\ Top.next \in Nat \ {0}
      /\ Len(read) \in Nat
  BY TopIsRead, LenProperties DEF WalkInv, WalkChild, SnapshotTypeOK, StackInv
<1> DEFINE moved == [stack EXCEPT ![Len(stack)].next = Top.next + 1]
<1>2. stack' = Append(moved, [node |-> Len(read) + 1, next |-> 1])
  <2>1. Advanced = moved
    BY <1>1 DEF Advanced
  <2> QED
    BY <1>1, <2>1, Zenon DEF WalkChild, Walk
<1>3. /\ moved \in Seq(Call)
      /\ Len(moved) = Len(stack)
      /\ \A s \in 1..Len(stack) :
           /\ moved[s].node = stack[s].node
           /\ moved[s].next = IF s = Len(stack) THEN Top.next + 1 ELSE stack[s].next
  <2>1. Top.next + 1 \in Nat \ {0}
    BY <1>1
  <2> QED
    BY <1>1, <2>1, TopMoves
<1>4. [node |-> Len(read) + 1, next |-> 1] \in Call
  BY <1>1 DEF Call
<1> HIDE DEF moved
<1>5. /\ stack' \in Seq(Call)
      /\ Len(stack') = Len(stack) + 1
      /\ \A s \in 1..Len(stack) : stack'[s] = moved[s]
      /\ stack'[Len(stack) + 1] = [node |-> Len(read) + 1, next |-> 1]
  BY <1>2, <1>3, <1>4, AppendProperties
<1> QED
  BY <1>1, <1>3, <1>5

\* A child that is lost is noted at its parent.
LEMMA LoseChildReads ==
  ASSUME WalkInv, LoseChild
  PROVE  /\ read' \in Seq(Node)
         /\ Len(read') = Len(read)
         /\ \A m \in 1..Len(read) :
              /\ read'[m].parent = read[m].parent /\ read'[m].nth = read[m].nth
              /\ read'[m].depth = read[m].depth /\ read'[m].asked = read[m].asked
              /\ read'[m].kids = read[m].kids /\ read'[m].told = read[m].told
              /\ read'[m].gone = IF m = Top.node THEN read[m].gone \cup {Top.next}
                                                 ELSE read[m].gone
<1> USE AccessibilityAssumption
<1>1. /\ Top.node \in 1..Len(read) /\ Top.next \in Nat \ {0}
      /\ Current = read[Top.node] /\ Current \in Node
      /\ read \in Seq(Node)
  BY TopIsRead DEF WalkInv, LoseChild, SnapshotTypeOK
<1> DEFINE new == [Current EXCEPT !.gone = @ \cup {Top.next}]
<1>2. Top.next \in 1..MaxKids
  <2>1. Current.kids \in 0..MaxKids
    BY <1>1 DEF Node
  <2> QED
    BY <1>1, <2>1 DEF LoseChild, HasNext
<1>3. /\ new \in Node
      /\ new.parent = Current.parent /\ new.nth = Current.nth /\ new.depth = Current.depth
      /\ new.asked = Current.asked /\ new.kids = Current.kids /\ new.told = Current.told
      /\ new.gone = Current.gone \cup {Top.next}
  BY <1>1, <1>2 DEF Node
<1>4. read' = [read EXCEPT ![Top.node] = new]
  BY <1>1 DEF LoseChild
<1> HIDE DEF new
<1>5. /\ read' \in Seq(Node)
      /\ Len(read') = Len(read)
      /\ \A m \in 1..Len(read) : read'[m] = IF m = Top.node THEN new ELSE read[m]
  BY <1>1, <1>3, <1>4, ExceptSeq
<1> QED
  BY <1>1, <1>3, <1>5

\* So is that the list of its children was cut.
LEMMA TruncateReads ==
  ASSUME WalkInv, Truncate
  PROVE  /\ read' \in Seq(Node)
         /\ Len(read') = Len(read)
         /\ \A m \in 1..Len(read) :
              /\ read'[m].parent = read[m].parent /\ read'[m].nth = read[m].nth
              /\ read'[m].depth = read[m].depth /\ read'[m].asked = read[m].asked
              /\ read'[m].kids = read[m].kids /\ read'[m].gone = read[m].gone
              /\ m # Top.node => read'[m].told = read[m].told
         /\ read'[Top.node].told = TRUE
<1>1. /\ Top.node \in 1..Len(read)
      /\ Current = read[Top.node] /\ Current \in Node
      /\ read \in Seq(Node)
  BY TopIsRead DEF WalkInv, Truncate, SnapshotTypeOK
<1> DEFINE new == [Current EXCEPT !.told = TRUE]
<1>2. /\ new \in Node
      /\ new.parent = Current.parent /\ new.nth = Current.nth /\ new.depth = Current.depth
      /\ new.asked = Current.asked /\ new.kids = Current.kids /\ new.gone = Current.gone
      /\ new.told = TRUE
  BY <1>1 DEF Node
<1>3. read' = [read EXCEPT ![Top.node] = new]
  BY <1>1 DEF Truncate
<1> HIDE DEF new
<1>4. /\ read' \in Seq(Node)
      /\ Len(read') = Len(read)
      /\ \A m \in 1..Len(read) : read'[m] = IF m = Top.node THEN new ELSE read[m]
  BY <1>1, <1>2, <1>3, ExceptSeq
<1> QED
  BY <1>1, <1>2, <1>4

\* In both cases the loop of the call on top goes on.
LEMMA LoopMoves ==
  ASSUME WalkInv, LoseChild \/ Truncate
  PROVE  /\ stack' \in Seq(Call) /\ stack' # <<>>
         /\ Len(stack') = Len(stack)
         /\ \A s \in 1..Len(stack) :
              /\ stack'[s].node = stack[s].node
              /\ stack'[s].next = IF s # Len(stack) THEN stack[s].next
                                  ELSE IF budget = 0 THEN Current.kids + 1
                                  ELSE stack[s].next + 1
<1>1. /\ stack \in Seq(Call) /\ stack # <<>> /\ Len(stack) \in Nat
      /\ Top = stack[Len(stack)] /\ Top.next \in Nat \ {0}
      /\ Current.kids \in Nat
  BY TopIsRead, AccessibilityAssumption
  DEF WalkInv, LoseChild, Truncate, SnapshotTypeOK, StackInv, Node
<1>2. CASE LoseChild
  <2>1. stack' = [stack EXCEPT ![Len(stack)].next = Top.next + 1] /\ budget # 0
    BY <1>1, <1>2 DEF LoseChild, Advanced, WalkInv, SnapshotTypeOK
  <2>2. Top.next + 1 \in Nat \ {0}
    BY <1>1
  <2> QED
    BY <1>1, <2>1, <2>2, TopMoves
<1>3. CASE Truncate
  <2>1. stack' = [stack EXCEPT ![Len(stack)].next = Current.kids + 1] /\ budget = 0
    BY <1>3 DEF Truncate
  <2>2. Current.kids + 1 \in Nat \ {0}
    BY <1>1
  <2> QED
    BY <1>1, <2>1, <2>2, TopMoves
<1> QED
  BY <1>2, <1>3

\* When a call returns, those that are left stay as they are.
LEMMA ReturnCalls ==
  ASSUME WalkInv, Return
  PROVE  /\ stack' \in Seq(Call)
         /\ Len(stack') = Len(stack) - 1
         /\ \A s \in 1..(Len(stack) - 1) : stack'[s] = stack[s]
<1>1. Len(stack) \in Nat \ {0} /\ stack \in Seq(Call)
  BY TopIsRead DEF WalkInv, Return, SnapshotTypeOK
<1>2. \A s \in 1..(Len(stack) - 1) : stack[s] \in Call
  BY <1>1, ElementOfSeq
<1> DEFINE n == Len(stack) - 1
<1>3. stack' = SubSeq(stack, 1, n) /\ n \in Nat
  BY <1>1 DEF Return, Front
<1> HIDE DEF n
<1>4. /\ SubSeq(stack, 1, n) \in Seq(Call)
      /\ Len(SubSeq(stack, 1, n)) = IF 1 <= n THEN n - 1 + 1 ELSE 0
      /\ \A s \in 1..(n - 1 + 1) : SubSeq(stack, 1, n)[s] = stack[1 + s - 1]
  <2>1. \A s \in 1..n : stack[s] \in Call
    BY <1>2 DEF n
  <2> QED
    BY <1>3, <2>1, SubSeqProperties
<1>5. /\ stack' \in Seq(Call)
      /\ Len(stack') = n
      /\ \A s \in 1..n : stack'[s] = stack[s]
  BY <1>3, <1>4
<1> QED
  BY <1>5 DEF n

-----------------------------------------------------------------------------
(* Steps of walk *)

LEMMA WalkChildInv ==
  ASSUME WalkInv, WalkChild
  PROVE  WalkInv'
<1> USE AccessibilityAssumption
<1> DEFINE L == Len(read)
           D == Len(stack)
<1>1. /\ read \in Seq(Node) /\ DOMAIN read = 1..L /\ L \in Nat
      /\ stack \in Seq(Call) /\ DOMAIN stack = 1..D /\ D \in Nat \ {0}
  BY TopIsRead, LenProperties DEF WalkInv, WalkChild, SnapshotTypeOK
<1>2. /\ Top = stack[D] /\ Top.node \in 1..L /\ Top.next \in Nat \ {0}
      /\ Top.next <= Current.kids
      /\ Current = read[Top.node] /\ Current.kids \in Nat /\ Current.depth \in Nat
  <2>1. HasNext /\ SnapshotTypeOK /\ StackInv /\ task = "walk"
    BY DEF WalkInv, WalkChild
  <2> QED
    BY <2>1, TopIsRead
<1>3. /\ DOMAIN read' = 1..(L + 1) /\ Len(read') = L + 1
      /\ DOMAIN stack' = 1..(D + 1) /\ Len(stack') = D + 1
  BY <1>1, WalkChildReads, WalkChildCalls, LenProperties
<1>4. /\ budget \in 1..MAX_NODES /\ budget' = budget - 1
      /\ task = "walk" /\ task' = "walk"
  BY DEF WalkChild, WalkInv, SnapshotTypeOK
<1>5. /\ \A m \in 1..L : read'[m] = read[m]
      /\ read'[L + 1].parent = Top.node
      /\ read'[L + 1].nth = Top.next
      /\ read'[L + 1].depth = Current.depth + 1
      /\ read'[L + 1].asked <=> (read'[L + 1].depth < MAX_DEPTH /\ budget' > 0)
      /\ read'[L + 1].kids > 0 => read'[L + 1].asked
      /\ read'[L + 1].gone = {}
      /\ ~read'[L + 1].told
      /\ read'[L + 1] \in Node
  <2>1. read'[L + 1] \in Node
    BY <1>1, <1>3, WalkChildReads, ElementOfSeq
  <2> QED
    BY <2>1, WalkChildReads
<1>6. /\ \A s \in 1..D : /\ stack'[s].node = stack[s].node
                         /\ stack'[s].next = IF s = D THEN Top.next + 1 ELSE stack[s].next
      /\ stack'[D + 1].node = L + 1 /\ stack'[D + 1].next = 1
  BY <1>2, WalkChildCalls
<1>7. \A s \in 1..D : /\ stack[s].node \in 1..L /\ stack[s].next \in Nat \ {0}
                      /\ s < D => stack[s].node < Top.node
  BY <1>1, <1>2, CallParts DEF WalkInv
<1>8. /\ L >= 1 /\ L + budget = MAX_NODES
      /\ ~Current.told
      /\ \A i \in Current.gone : i < Top.next
      /\ \A i \in 1..(Top.next - 1) : i \in Current.gone \/ Reads(Top.node, i)
  <2>1. L >= 1
    BY <1>1, <1>2
  <2>2. L + budget = MAX_NODES
    BY <1>1, <2>1, EmptySeq DEF WalkInv, SharesBudget
  <2> QED
    BY <1>1, <1>2, <2>1, <2>2 DEF WalkInv, LoopInv
<1>9. \A n, i \in Nat : Reads(n, i)' <=> (Reads(n, i) \/ (n = Top.node /\ i = Top.next))
  <2> SUFFICES ASSUME NEW n \in Nat, NEW i \in Nat
               PROVE  Reads(n, i)' <=> (Reads(n, i) \/ (n = Top.node /\ i = Top.next))
    OBVIOUS
  <2>1. Reads(n, i)' <=> \E m \in 1..(L + 1) : read'[m].parent = n /\ read'[m].nth = i
    BY <1>3, Zenon DEF Reads
  <2>2. Reads(n, i) <=> \E m \in 1..L : read[m].parent = n /\ read[m].nth = i
    BY <1>1, Zenon DEF Reads
  <2>3. \A m : m \in 1..(L + 1) <=> (m \in 1..L \/ m = L + 1)
    BY <1>1
  <2> HIDE DEF L
  <2> QED
    BY <1>5, <2>1, <2>2, <2>3
<1> HIDE DEF L, D
<1>10. SnapshotTypeOK'
  BY <1>4, WalkChildReads, WalkChildCalls DEF WalkInv, SnapshotTypeOK, WalkChild
<1>11. NodeInv'
  BY <1>1, <1>3, <1>4, <1>5, <1>8 DEF WalkInv, NodeInv
<1>12. StackInv'
  <2>1. stack' # <<>>
    BY <1>1, <1>3
  <2>2. ASSUME NEW s \in 1..(D + 1)
        PROVE  stack'[s].node \in 1..(L + 1) /\ stack'[s].next <= read'[stack'[s].node].kids + 1
    <3>1. CASE s = D + 1
      <4>1. read'[L + 1].kids \in Nat
        BY <1>5 DEF Node
      <4> QED
        BY <1>1, <1>6, <3>1, <4>1
    <3>2. CASE s \in 1..D
      <4>1. /\ stack[s].node \in 1..L /\ read'[stack[s].node] = read[stack[s].node]
            /\ stack'[s].node = stack[s].node
            /\ stack[s].next <= read[stack[s].node].kids + 1
        BY <1>5, <1>6, <1>7, <3>2, CallParts DEF WalkInv, D
      <4>2. stack'[s].node \in 1..(L + 1)
        BY <1>1, <4>1
      <4>3. CASE s = D
        BY <1>2, <1>6, <4>1, <4>2, <4>3
      <4>4. CASE s # D
        BY <1>6, <3>2, <4>1, <4>2, <4>4
      <4> QED
        BY <4>3, <4>4
    <3> QED
      BY <1>1, <3>1, <3>2
  <2>3. ASSUME NEW s \in 1..(D + 1), NEW t \in 1..(D + 1), s < t
        PROVE  stack'[s].node < stack'[t].node
    <3>1. CASE t = D + 1
      BY <1>1, <1>6, <1>7, <2>3, <3>1
    <3>2. CASE t \in 1..D
      BY <1>1, <1>6, <2>3, <3>2 DEF WalkInv, StackInv
    <3> QED
      BY <1>1, <3>1, <3>2
  <2> QED
    BY <1>3, <2>1, <2>2, <2>3 DEF StackInv
<1>13. HangInv'
  <2> SUFFICES ASSUME NEW s \in 1..(D + 1), NEW m \in 1..(L + 1), m > stack'[s].node
               PROVE  /\ read'[m].parent >= stack'[s].node
                      /\ read'[m].parent = stack'[s].node => read'[m].nth < stack'[s].next
    BY <1>3 DEF HangInv
  <2>1. s \in 1..D
    BY <1>1, <1>6
  <2>4. stack[s].node \in Nat /\ Top.node \in Nat /\ (s # D => stack[s].node < Top.node)
    BY <1>1, <1>2, <1>7, <2>1
  <2>2. CASE m = L + 1
    <3>1. s = D => stack'[s].next = Top.next + 1 /\ stack[s].node = Top.node
      BY <1>2, <1>6, <2>1
    <3> QED
      BY <1>2, <1>5, <1>6, <2>1, <2>2, <2>4, <3>1
  <2>3. CASE m \in 1..L
    <3>1. /\ read[m].parent >= stack[s].node
          /\ read[m].parent = stack[s].node => read[m].nth < stack[s].next
      BY <1>1, <1>6, <2>1, <2>3 DEF WalkInv, HangInv
    <3>2. read[m].nth \in Nat
      BY <1>1, <2>3, NodeParts DEF L
    <3>3. /\ read'[m] = read[m] /\ stack'[s].node = stack[s].node
          /\ stack'[s].next = stack[s].next \/ stack'[s].next = stack[s].next + 1
          /\ stack[s].next \in Nat
      BY <1>2, <1>5, <1>6, <1>7, <2>1, <2>3
    <3> QED
      BY <3>1, <3>2, <3>3
  <2> QED
    BY <1>1, <2>2, <2>3
<1>14. LoopInv'
  <2> SUFFICES ASSUME NEW s \in 1..(D + 1), NEW n, n = stack'[s].node
               PROVE  /\ read'[n].told => stack'[s].next = read'[n].kids + 1
                      /\ \A i \in read'[n].gone : i < stack'[s].next
                      /\ ~read'[n].told =>
                           \A i \in 1..(stack'[s].next - 1) : i \in read'[n].gone \/ Reads(n, i)'
    BY <1>3, Zenon DEF LoopInv
  <2>1. CASE s = D + 1
    BY <1>1, <1>5, <1>6, <2>1
  <2>2. CASE s = D
    <3>1. /\ n = Top.node /\ n \in Nat /\ stack'[s].next = Top.next + 1
          /\ read'[n] = Current
      BY <1>1, <1>2, <1>5, <1>6, <2>2
    <3>2. \A i \in 1..Top.next : i \in 1..(Top.next - 1) \/ i = Top.next
      BY <1>2
    <3>3. \A i \in 1..Top.next : i \in Current.gone \/ Reads(n, i)'
      BY <1>2, <1>8, <1>9, <3>1, <3>2
    <3>4. Current.gone \subseteq Nat
      BY <1>1, <1>2, NodeParts DEF L
    <3> QED
      BY <1>2, <1>8, <3>1, <3>3, <3>4
  <2>3. CASE s \in 1..(D - 1)
    <3>1. n = stack[s].node /\ n \in 1..L /\ stack'[s].next = stack[s].next /\ read'[n] = read[n]
      BY <1>1, <1>5, <1>6, <1>7, <2>3
    <3>2. s \in DOMAIN stack /\ stack[s].next \in Nat
      BY <1>1, <1>7, <2>3
    <3> QED
      BY <1>1, <1>9, <3>1, <3>2 DEF WalkInv, LoopInv
  <2> QED
    BY <1>1, <2>1, <2>2, <2>3
<1>15. SharesBudget'
  BY <1>1, <1>3, <1>4, <1>8 DEF SharesBudget
<1>16. ReadsInOrder'
  <2> SUFFICES ASSUME NEW k \in 2..(L + 1)
               PROVE  LET up == read'[k].parent
                          between == (up + 1)..(k - 1)
                      IN  /\ up \in 1..(k - 1)
                          /\ read'[k].nth \in (1..read'[up].kids) \ read'[up].gone
                          /\ read'[k].depth = read'[up].depth + 1
                          /\ \A m \in between :
                               /\ read'[m].parent >= up
                               /\ read'[m].parent = up => read'[m].nth < read'[k].nth
                          /\ \A i \in 1..(read'[k].nth - 1) :
                               \/ i \in read'[up].gone
                               \/ \E m \in between : read'[m].parent = up /\ read'[m].nth = i
    BY <1>3, Zenon DEF ReadsInOrder
  <2>1. CASE k \in 2..L
    <3>1. /\ read'[k] = read[k]
          /\ read[k].parent \in 1..(k - 1) /\ k - 1 \in 1..L
          /\ \A m \in 1..(k - 1) : read'[m] = read[m]
      BY <1>1, <1>5, <2>1 DEF WalkInv, ReadsInOrder, L
    <3>2. read'[read[k].parent] = read[read[k].parent]
      BY <3>1
    <3>3. \A m \in (read[k].parent + 1)..(k - 1) : read'[m] = read[m]
      BY <1>1, <3>1
    <3>4. k \in 2..Len(read)
      BY <2>1 DEF L
    <3> DEFINE up == read[k].parent
               between == (up + 1)..(k - 1)
    <3>5. /\ read[k].nth \in (1..read[up].kids) \ read[up].gone
          /\ read[k].depth = read[up].depth + 1
          /\ \A m \in between : /\ read[m].parent >= up
                                /\ read[m].parent = up => read[m].nth < read[k].nth
          /\ \A i \in 1..(read[k].nth - 1) :
               i \in read[up].gone \/ \E m \in between : read[m].parent = up /\ read[m].nth = i
      BY <3>4, Zenon DEF WalkInv, ReadsInOrder
    <3> QED
      BY <3>1, <3>2, <3>3, <3>5
  <2>2. CASE k = L + 1
    <3>1. /\ read'[k].parent = Top.node /\ read'[k].nth = Top.next
          /\ read'[k].depth = Current.depth + 1
          /\ read'[Top.node] = Current
          /\ k - 1 = L
      BY <1>1, <1>2, <1>5, <2>2
    <3>2. \A m \in (Top.node + 1)..L : /\ read'[m].parent >= Top.node
                                       /\ read'[m].parent = Top.node => read'[m].nth < Top.next
      <4> SUFFICES ASSUME NEW m \in (Top.node + 1)..L
                   PROVE  /\ read[m].parent >= Top.node
                          /\ read[m].parent = Top.node => read[m].nth < Top.next
        BY <1>1, <1>2, <1>5
      <4>1. D \in DOMAIN stack /\ m \in DOMAIN read /\ m > stack[D].node
        BY <1>1, <1>2
      <4> QED
        BY <1>2, <4>1 DEF WalkInv, HangInv
    <3>3. ASSUME NEW i \in 1..(Top.next - 1), i \notin Current.gone
          PROVE  \E m \in (Top.node + 1)..L : read'[m].parent = Top.node /\ read'[m].nth = i
      <4>1. PICK m \in 1..L : read[m].parent = Top.node /\ read[m].nth = i
        BY <1>1, <1>8, <3>3 DEF Reads
      <4>2. m # 1
        <5>1. m = 1 => read[m].parent = 0
          BY <1>1, <4>1 DEF WalkInv, NodeInv
        <5> QED
          BY <1>1, <1>2, <4>1, <5>1
      <4>3. m \in 2..Len(read)
        BY <1>1, <4>1, <4>2 DEF L
      <4>4. read[m].parent \in 1..(m - 1)
        BY <4>3, Zenon DEF WalkInv, ReadsInOrder
      <4>5. m \in (Top.node + 1)..L
        BY <1>1, <1>2, <4>1, <4>4
      <4> QED
        BY <1>5, <4>1, <4>5
    <3> QED
      BY <1>1, <1>2, <1>8, <3>1, <3>2, <3>3
  <2> QED
    BY <1>1, <2>1, <2>2
<1>17. CutIsTold'
  <2> SUFFICES ASSUME NEW k \in 1..(L + 1)
               PROVE  /\ \/ \E s \in 1..(D + 1) :
                              stack'[s].node = k /\ stack'[s].next <= read'[k].kids
                         \/ read'[k].told <=>
                              \E i \in (1..read'[k].kids) \ read'[k].gone : ~Reads(k, i)'
                      /\ read'[k].asked \/ read'[k].depth = MAX_DEPTH \/ k = MAX_NODES
    BY <1>3, Zenon DEF CutIsTold
  <2>1. CASE k = L + 1
    <3>1. \/ \E s \in 1..(D + 1) : stack'[s].node = k /\ stack'[s].next <= read'[k].kids
          \/ read'[k].kids = 0
      <4>1. D + 1 \in 1..(D + 1) /\ read'[k].kids \in Nat
        BY <1>1, <1>5, <2>1 DEF Node
      <4> QED
        BY <1>6, <2>1, <4>1
    <3>2. read'[k].asked \/ read'[k].depth = MAX_DEPTH \/ k = MAX_NODES
      <4>1. read'[k].depth \in 0..MAX_DEPTH
        BY <1>5, <2>1 DEF Node
      <4>2. budget' = 0 => L + 1 = MAX_NODES
        BY <1>1, <1>4, <1>8
      <4> QED
        BY <1>4, <1>5, <2>1, <4>1, <4>2
    <3> QED
      BY <1>5, <2>1, <3>1, <3>2
  <2>2. CASE k \in 1..L
    <3>1. /\ read'[k] = read[k] /\ k \in DOMAIN read
          /\ read[k].asked \/ read[k].depth = MAX_DEPTH \/ k = MAX_NODES
          /\ read[k].kids \in Nat
      <4>1. read[k].kids \in Nat
        BY <1>1, <2>2, NodeParts DEF L
      <4>2. k \in DOMAIN read
        BY <1>1, <2>2
      <4> QED
        BY <1>5, <2>2, <4>1, <4>2 DEF WalkInv, CutIsTold
    <3>2. CASE k = Top.node /\ Top.next = Current.kids
      BY <1>1, <1>2, <1>8, <1>9, <3>1, <3>2
    <3>3. CASE k = Top.node /\ Top.next < Current.kids
      <4>1. D \in 1..(D + 1) /\ stack'[D].node = k /\ stack'[D].next <= read'[k].kids
        BY <1>1, <1>2, <1>6, <3>1, <3>3
      <4> QED
        BY <3>1, <4>1
    <3>4. CASE k # Top.node
      <4>1. \A i \in 1..read[k].kids : Reads(k, i)' <=> Reads(k, i)
        BY <1>9, <2>2, <3>1, <3>4
      <4>2. CASE \E s \in 1..D : stack[s].node = k /\ stack[s].next <= read[k].kids
        <5>1. PICK s \in 1..D : stack[s].node = k /\ stack[s].next <= read[k].kids
          BY <4>2
        <5>2. s # D
          BY <1>2, <3>4, <5>1
        <5>3. s \in 1..(D + 1) /\ stack'[s].node = k /\ stack'[s].next <= read'[k].kids
          BY <1>1, <1>6, <3>1, <5>1, <5>2
        <5> QED
          BY <3>1, <5>3
      <4>3. CASE read[k].told <=> \E i \in (1..read[k].kids) \ read[k].gone : ~Reads(k, i)
        BY <3>1, <4>1, <4>3
      <4> QED
        BY <1>1, <3>1, <4>2, <4>3 DEF WalkInv, CutIsTold
    <3> QED
      BY <1>2, <3>2, <3>3, <3>4
  <2> QED
    BY <1>1, <2>1, <2>2
<1> QED
  BY <1>10, <1>11, <1>12, <1>13, <1>14, <1>15, <1>16, <1>17 DEF WalkInv

LEMMA LoopTurnInv ==
  ASSUME WalkInv, LoseChild \/ Truncate
  PROVE  WalkInv'
<1> DEFINE L == Len(read)
           D == Len(stack)
           T == Top.node
<1>1. /\ read \in Seq(Node) /\ DOMAIN read = 1..L /\ L \in Nat
      /\ stack \in Seq(Call) /\ DOMAIN stack = 1..D /\ D \in Nat \ {0}
      /\ Top = stack[D] /\ T \in 1..L /\ Top.next \in Nat \ {0}
      /\ Top.next <= Current.kids
      /\ Current = read[T] /\ Current.kids \in Nat
      /\ task = "walk" /\ task' = "walk"
  <2>1. HasNext /\ SnapshotTypeOK /\ StackInv /\ task = "walk" /\ task' = "walk"
    BY DEF WalkInv, LoseChild, Truncate
  <2>2. read \in Seq(Node) /\ stack \in Seq(Call)
    BY <2>1 DEF SnapshotTypeOK
  <2> QED
    BY <2>1, <2>2, TopIsRead, LenProperties
<1>2. /\ read' \in Seq(Node) /\ Len(read') = L /\ DOMAIN read' = 1..L
      /\ \A m \in 1..L :
           /\ read'[m].parent = read[m].parent /\ read'[m].nth = read[m].nth
           /\ read'[m].depth = read[m].depth /\ read'[m].asked = read[m].asked
           /\ read'[m].kids = read[m].kids
           /\ m # T => read'[m].told = read[m].told /\ read'[m].gone = read[m].gone
  <2>1. CASE LoseChild
    BY <2>1, LoseChildReads, LenProperties
  <2>2. CASE Truncate
    BY <2>2, TruncateReads, LenProperties
  <2> QED
    BY <2>1, <2>2
<1>3. /\ budget' = budget /\ budget \in Nat
      /\ budget = 0 => read'[T].told = TRUE /\ read'[T].gone = Current.gone
      /\ budget # 0 => read'[T].told = Current.told /\ read'[T].gone = Current.gone \cup {Top.next}
  <2>1. budget \in Nat
    BY AccessibilityAssumption DEF WalkInv, SnapshotTypeOK
  <2>2. CASE LoseChild
    <3>1. budget' = budget /\ budget # 0
      BY <2>1, <2>2 DEF LoseChild
    <3> QED
      BY <1>1, <2>1, <2>2, <3>1, LoseChildReads
  <2>3. CASE Truncate
    <3>1. budget' = budget /\ budget = 0
      BY <2>3 DEF Truncate
    <3> QED
      BY <1>1, <2>1, <2>3, <3>1, TruncateReads
  <2> QED
    BY <2>2, <2>3
<1>4. /\ stack' \in Seq(Call) /\ stack' # <<>> /\ Len(stack') = D /\ DOMAIN stack' = 1..D
      /\ \A s \in 1..D :
           /\ stack'[s].node = stack[s].node
           /\ stack'[s].next = IF s # D THEN stack[s].next
                               ELSE IF budget = 0 THEN Current.kids + 1 ELSE Top.next + 1
  BY <1>1, LoopMoves, LenProperties
<1>5. \A s \in 1..D : /\ stack[s].node \in 1..L /\ stack[s].next \in Nat \ {0}
                      /\ stack[s].next <= read[stack[s].node].kids + 1
                      /\ s # D => stack[s].node # T
                      /\ \A t \in 1..D : s < t => stack[s].node < stack[t].node
  <2> SUFFICES ASSUME NEW s \in 1..D
               PROVE  /\ stack[s].node \in 1..L /\ stack[s].next \in Nat \ {0}
                      /\ stack[s].next <= read[stack[s].node].kids + 1
                      /\ s # D => stack[s].node # T
                      /\ \A t \in 1..D : s < t => stack[s].node < stack[t].node
    OBVIOUS
  <2>1. /\ stack[s].node \in 1..L /\ stack[s].next \in Nat \ {0}
        /\ stack[s].next <= read[stack[s].node].kids + 1
        /\ \A t \in 1..D : s < t => stack[s].node < stack[t].node
    BY CallParts DEF WalkInv
  <2> HIDE DEF L, D
  <2>2. s # D => s < D /\ D \in 1..D
    BY <1>1
  <2>3. Top = stack[D] /\ T = Top.node
    BY <1>1
  <2> HIDE DEF T
  <2>4. s # D => stack[s].node < T /\ T \in Nat
    BY <1>1, <2>1, <2>2, <2>3
  <2> QED
    BY <2>1, <2>4
<1>6. \A m \in 1..L : /\ read[m].nth \in Nat \ {0} /\ read[m].kids \in Nat
                      /\ read[m].gone \subseteq Nat /\ read[m].told \in BOOLEAN
  BY <1>1, NodeParts
<1>7. /\ ~Current.told
      /\ \A i \in Current.gone : i < Top.next
      /\ \A i \in 1..(Top.next - 1) : i \in Current.gone \/ Reads(T, i)
  BY <1>1 DEF WalkInv, LoopInv
<1>8. \A n, i : Reads(n, i)' <=> Reads(n, i)
  BY <1>1, <1>2 DEF Reads
<1>9. ~Reads(T, Top.next)
  <2> SUFFICES ASSUME NEW m \in 1..L, read[m].parent = T, read[m].nth = Top.next
               PROVE  FALSE
    BY <1>1 DEF Reads
  <2>1. m # 1
    BY <1>1 DEF WalkInv, NodeInv
  <2>2. m > T
    BY <1>1, <2>1 DEF WalkInv, ReadsInOrder
  <2>3. D \in DOMAIN stack /\ m \in DOMAIN read /\ m > stack[D].node
    BY <1>1, <2>2
  <2> QED
    BY <1>1, <2>3 DEF WalkInv, HangInv
<1> HIDE DEF L, D, T
<1>top. /\ stack'[D].node = T
        /\ stack'[D].next = IF budget = 0 THEN Current.kids + 1 ELSE Top.next + 1
        /\ read'[T].kids = Current.kids /\ Current.gone \subseteq Nat
        /\ D \in 1..D
  BY <1>1, <1>2, <1>4, <1>6 DEF T
<1>low. \A s \in 1..D : s # D => stack'[s].next = stack[s].next /\ stack'[s].node = stack[s].node
  BY <1>4
<1>10. SnapshotTypeOK'
  BY <1>1, <1>2, <1>3, <1>4 DEF WalkInv, SnapshotTypeOK, LoseChild, Truncate
<1>11. NodeInv'
  <2> SUFFICES ASSUME NEW k \in 1..L
               PROVE  /\ k = 1 => read'[k].parent = 0
                      /\ read'[k].kids > 0 => read'[k].asked
                      /\ read'[k].asked => read'[k].depth < MAX_DEPTH
                      /\ read'[k].told => budget' = 0
    BY <1>2 DEF NodeInv
  <2>1. /\ k = 1 => read[k].parent = 0
        /\ read[k].kids > 0 => read[k].asked
        /\ read[k].asked => read[k].depth < MAX_DEPTH
        /\ read[k].told => budget = 0
    BY <1>1 DEF WalkInv, NodeInv
  <2>2. read'[k].told => budget = 0
    BY <1>1, <1>2, <1>3, <1>7, <2>1
  <2> QED
    BY <1>2, <1>3, <2>1, <2>2
<1>12. StackInv'
  <2>1. \A s \in 1..D : stack'[s].node \in 1..L /\ stack'[s].next <= read'[stack'[s].node].kids + 1
    <3> SUFFICES ASSUME NEW s \in 1..D
                 PROVE  stack'[s].node \in 1..L /\ stack'[s].next <= read'[stack'[s].node].kids + 1
      OBVIOUS
    <3>1. CASE s = D
      BY <1>1, <1>top, <3>1
    <3>2. CASE s # D
      BY <1>2, <1>5, <1>low, <3>2
    <3> QED
      BY <3>1, <3>2
  <2>2. \A s, t \in 1..D : s < t => stack'[s].node < stack'[t].node
    BY <1>4, <1>5
  <2> QED
    BY <1>2, <1>4, <2>1, <2>2 DEF StackInv
<1>13. HangInv'
  <2> SUFFICES ASSUME NEW s \in 1..D, NEW m \in 1..L, m > stack'[s].node
               PROVE  /\ read'[m].parent >= stack'[s].node
                      /\ read'[m].parent = stack'[s].node => read'[m].nth < stack'[s].next
    BY <1>2, <1>4 DEF HangInv
  <2>1. /\ read[m].parent >= stack[s].node
        /\ read[m].parent = stack[s].node => read[m].nth < stack[s].next
    BY <1>1, <1>4 DEF WalkInv, HangInv
  <2>2. stack[s].next \in Nat /\ stack'[s].next \in Nat /\ stack'[s].next >= stack[s].next
    <3>1. CASE s = D
      BY <1>1, <1>top, <3>1
    <3>2. CASE s # D
      BY <1>5, <1>low, <3>2
    <3> QED
      BY <3>1, <3>2
  <2>3. /\ read'[m].parent = read[m].parent /\ read'[m].nth = read[m].nth /\ read[m].nth \in Nat
        /\ stack'[s].node = stack[s].node
    BY <1>2, <1>4, <1>6
  <2> QED
    BY <2>1, <2>2, <2>3
<1>14. LoopInv'
  <2> SUFFICES ASSUME NEW s \in 1..D, NEW n, n = stack'[s].node
               PROVE  /\ read'[n].told => stack'[s].next = read'[n].kids + 1
                      /\ \A i \in read'[n].gone : i < stack'[s].next
                      /\ ~read'[n].told =>
                           \A i \in 1..(stack'[s].next - 1) : i \in read'[n].gone \/ Reads(n, i)'
    BY <1>4, Zenon DEF LoopInv
  <2>1. CASE s = D
    <3>1. /\ n = T
          /\ stack'[s].next = IF budget = 0 THEN Current.kids + 1 ELSE Top.next + 1
      BY <1>top, <2>1
    <3>2. \A i \in 1..Top.next : i \in 1..(Top.next - 1) \/ i = Top.next
      BY <1>1
    <3>3. CASE budget = 0
      <4>1. \A i \in read'[T].gone : i < Current.kids + 1
        <5> SUFFICES ASSUME NEW i \in Current.gone
                     PROVE  i < Current.kids + 1
          BY <1>3, <3>3
        <5>1. i \in Nat /\ i < Top.next
          BY <1>7, <1>top
        <5> QED
          BY <1>1, <5>1
      <4> QED
        BY <1>3, <1>top, <3>1, <3>3, <4>1
    <3>4. CASE budget # 0
      <4>1. \A i \in read'[T].gone : i < Top.next + 1
        <5>1. \A i \in Current.gone : i \in Nat /\ i < Top.next
          BY <1>7, <1>top
        <5> QED
          BY <1>1, <1>3, <3>4, <5>1
      <4>2. read'[n].gone = Current.gone \cup {Top.next}
        BY <1>3, <3>1, <3>4
      <4>3. \A i \in 1..(Top.next - 1) : i \in Current.gone \/ Reads(n, i)
        BY <1>7, <3>1
      <4>4. \A i \in 1..Top.next : i \in read'[n].gone \/ Reads(n, i)'
        BY <1>8, <3>2, <4>2, <4>3
      <4>5. ~read'[n].told /\ stack'[s].next - 1 = Top.next
        BY <1>1, <1>3, <1>7, <3>1, <3>4
      <4>6. \A i \in read'[n].gone : i < stack'[s].next
        BY <3>1, <3>4, <4>1
      <4> QED
        BY <4>4, <4>5, <4>6
    <3> QED
      BY <3>3, <3>4
  <2>2. CASE s # D
    <3>1. /\ n = stack[s].node /\ n \in 1..L /\ stack'[s].next = stack[s].next
          /\ read'[n].told = read[n].told /\ read'[n].gone = read[n].gone
          /\ read'[n].kids = read[n].kids /\ s \in DOMAIN stack
      BY <1>1, <1>2, <1>4, <1>5, <2>2
    <3> QED
      BY <1>8, <3>1 DEF WalkInv, LoopInv
  <2> QED
    BY <2>1, <2>2
<1>15. SharesBudget'
  <2>1. read # <<>> => Len(read) + budget = MAX_NODES
    BY DEF WalkInv, SharesBudget
  <2>2. read # <<>>
    BY <1>1 DEF L
  <2> QED
    BY <1>2, <1>3, <2>1, <2>2 DEF SharesBudget, L
<1>16. ReadsInOrder'
  <2> SUFFICES ASSUME NEW k \in 2..L
               PROVE  LET up == read'[k].parent
                          between == (up + 1)..(k - 1)
                      IN  /\ up \in 1..(k - 1)
                          /\ read'[k].nth \in (1..read'[up].kids) \ read'[up].gone
                          /\ read'[k].depth = read'[up].depth + 1
                          /\ \A m \in between :
                               /\ read'[m].parent >= up
                               /\ read'[m].parent = up => read'[m].nth < read'[k].nth
                          /\ \A i \in 1..(read'[k].nth - 1) :
                               \/ i \in read'[up].gone
                               \/ \E m \in between : read'[m].parent = up /\ read'[m].nth = i
    BY <1>2, Zenon DEF ReadsInOrder
  <2> DEFINE up == read[k].parent
             between == (up + 1)..(k - 1)
  <2>1. /\ up \in 1..(k - 1)
        /\ read[k].nth \in (1..read[up].kids) \ read[up].gone
        /\ read[k].depth = read[up].depth + 1
        /\ \A m \in between : /\ read[m].parent >= up
                              /\ read[m].parent = up => read[m].nth < read[k].nth
        /\ \A i \in 1..(read[k].nth - 1) :
             i \in read[up].gone \/ \E m \in between : read[m].parent = up /\ read[m].nth = i
    BY Zenon DEF WalkInv, ReadsInOrder, L
  <2>2. k \in 1..L /\ up \in 1..L /\ \A m \in between : m \in 1..L
    BY <1>1, <2>1
  <2>3. /\ read'[k].parent = up /\ read'[k].nth = read[k].nth /\ read'[k].depth = read[k].depth
        /\ read'[up].kids = read[up].kids /\ read'[up].depth = read[up].depth
        /\ \A m \in between : read'[m].parent = read[m].parent /\ read'[m].nth = read[m].nth
    BY <1>2, <2>2
  <2>4. read[up].gone \subseteq read'[up].gone
    BY <1>1, <1>2, <1>3, <2>2
  <2>5. read[k].nth \notin read'[up].gone
    <3>1. up = T => Reads(T, read[k].nth)
      BY <1>1, <2>2 DEF Reads
    <3> QED
      BY <1>1, <1>2, <1>3, <1>9, <2>1, <2>2, <3>1
  <2> HIDE DEF between
  <2> QED
    BY <2>1, <2>3, <2>4, <2>5 DEF between
<1>17. CutIsTold'
  <2> SUFFICES ASSUME NEW k \in 1..L
               PROVE  /\ \/ \E s \in 1..D : stack'[s].node = k /\ stack'[s].next <= read'[k].kids
                         \/ read'[k].told <=>
                              \E i \in (1..read'[k].kids) \ read'[k].gone : ~Reads(k, i)'
                      /\ read'[k].asked \/ read'[k].depth = MAX_DEPTH \/ k = MAX_NODES
    BY <1>2, <1>4, Zenon DEF CutIsTold
  <2>1. read'[k].asked \/ read'[k].depth = MAX_DEPTH \/ k = MAX_NODES
    BY <1>1, <1>2 DEF WalkInv, CutIsTold
  <2>2. CASE k = T /\ budget = 0
    <3>1. PICK i \in 1..Current.kids : i = Top.next
      BY <1>1
    <3>2. i \notin Current.gone /\ ~Reads(k, i)
      BY <1>1, <1>7, <1>9, <2>2, <3>1
    <3>3. i \in (1..read'[k].kids) \ read'[k].gone /\ ~Reads(k, i)'
      BY <1>3, <1>8, <1>top, <2>2, <3>2
    <3>4. read'[k].told = TRUE
      BY <1>3, <2>2
    <3> QED
      BY <2>1, <3>3, <3>4, Zenon
  <2>3. CASE k = T /\ budget # 0 /\ Top.next = Current.kids
    <3>1. \A i \in 1..Top.next : i \in 1..(Top.next - 1) \/ i = Top.next
      BY <1>1
    <3>2. \A i \in 1..read'[k].kids : i \in read'[k].gone \/ Reads(k, i)'
      <4>1. read'[k].gone = Current.gone \cup {Top.next} /\ read'[k].kids = Top.next
        BY <1>3, <1>top, <2>3
      <4>2. \A i \in 1..(Top.next - 1) : i \in Current.gone \/ Reads(k, i)
        BY <1>7, <2>3
      <4> QED
        BY <1>8, <3>1, <4>1, <4>2
    <3> QED
      BY <1>3, <1>7, <2>1, <2>3, <3>2
  <2>4. CASE k = T /\ budget # 0 /\ Top.next < Current.kids
    <3>1. D \in 1..D /\ stack'[D].node = k /\ stack'[D].next <= read'[k].kids
      BY <1>1, <1>top, <2>4
    <3> QED
      BY <2>1, <3>1
  <2>5. CASE k # T
    <3>1. read'[k].told = read[k].told /\ read'[k].gone = read[k].gone /\ read'[k].kids = read[k].kids
      BY <1>2, <2>5
    <3>2. CASE \E s \in 1..D : stack[s].node = k /\ stack[s].next <= read[k].kids
      <4>1. PICK s \in 1..D : stack[s].node = k /\ stack[s].next <= read[k].kids
        BY <3>2
      <4>2. s # D
        BY <1>1, <2>5, <4>1 DEF T
      <4>3. stack'[s].node = k /\ stack'[s].next <= read'[k].kids
        BY <1>low, <3>1, <4>1, <4>2
      <4> QED
        BY <2>1, <4>3
    <3>3. CASE read[k].told <=> \E i \in (1..read[k].kids) \ read[k].gone : ~Reads(k, i)
      BY <1>8, <2>1, <3>1, <3>3
    <3> QED
      BY <1>1, <3>2, <3>3 DEF WalkInv, CutIsTold
  <2> QED
    BY <1>1, <2>2, <2>3, <2>4, <2>5
<1> QED
  BY <1>10, <1>11, <1>12, <1>13, <1>14, <1>15, <1>16, <1>17 DEF WalkInv

\* What order the nodes were read in depends on nothing else.
LEMMA OrderStays ==
  ASSUME ReadsInOrder, UNCHANGED read
  PROVE  ReadsInOrder'
<1> SUFFICES ASSUME NEW k \in 2..Len(read)
             PROVE  LET up == read'[k].parent
                        between == (up + 1)..(k - 1)
                    IN  /\ up \in 1..(k - 1)
                        /\ read'[k].nth \in (1..read'[up].kids) \ read'[up].gone
                        /\ read'[k].depth = read'[up].depth + 1
                        /\ \A m \in between :
                             /\ read'[m].parent >= up
                             /\ read'[m].parent = up => read'[m].nth < read'[k].nth
                        /\ \A i \in 1..(read'[k].nth - 1) :
                             \/ i \in read'[up].gone
                             \/ \E m \in between : read'[m].parent = up /\ read'[m].nth = i
  BY Zenon DEF ReadsInOrder
<1> DEFINE up == read[k].parent
           between == (up + 1)..(k - 1)
<1>1. /\ up \in 1..(k - 1)
      /\ read[k].nth \in (1..read[up].kids) \ read[up].gone
      /\ read[k].depth = read[up].depth + 1
      /\ \A m \in between : /\ read[m].parent >= up
                            /\ read[m].parent = up => read[m].nth < read[k].nth
      /\ \A i \in 1..(read[k].nth - 1) :
           i \in read[up].gone \/ \E m \in between : read[m].parent = up /\ read[m].nth = i
  BY Zenon DEF ReadsInOrder
<1> HIDE DEF between
<1> QED
  BY <1>1 DEF between

LEMMA ReturnInv ==
  ASSUME WalkInv, Return
  PROVE  WalkInv'
<1> DEFINE D == Len(stack) - 1
<1>1. /\ stack \in Seq(Call) /\ D \in Nat /\ DOMAIN stack = 1..(D + 1)
      /\ \A s \in 1..D : s \in DOMAIN stack
      /\ stack[D + 1].next > read[stack[D + 1].node].kids
      /\ read' = read /\ budget' = budget /\ frame' = frame /\ pid' = pid
      /\ read \in Seq(Node)
  <2>1. /\ Len(stack) \in Nat \ {0} /\ Top = stack[Len(stack)] /\ Current = read[Top.node]
        /\ Top.next \in Nat \ {0} /\ Current.kids \in Nat
    BY TopIsRead, NodeParts DEF WalkInv, Return, SnapshotTypeOK
  <2>2. /\ stack \in Seq(Call) /\ read \in Seq(Node)
        /\ read' = read /\ budget' = budget /\ frame' = frame /\ pid' = pid
        /\ ~(Top.next <= Current.kids)
    BY DEF WalkInv, Return, HasNext, SnapshotTypeOK
  <2>3. D + 1 = Len(stack) /\ DOMAIN stack = 1..Len(stack)
    BY <2>1, <2>2, LenProperties
  <2> QED
    BY <2>1, <2>2, <2>3
<1>2. /\ stack' \in Seq(Call) /\ Len(stack') = D /\ DOMAIN stack' = 1..D
      /\ \A s \in 1..D : stack'[s] = stack[s]
  BY ReturnCalls, LenProperties
<1> HIDE DEF D
<1>3. /\ task' \in {"walk", "frames"} /\ frames' \in Seq(Frame)
      /\ task' = "walk" => stack' # <<>>
  <2>1. frames \in Seq(Frame) /\ frame \in Frame /\ task = "walk" /\ Ends(stack')
    BY DEF WalkInv, SnapshotTypeOK, Return
  <2>2. CASE stack' = <<>>
    <3>1. task' = "frames" /\ frames' = Append(frames, frame)
      BY <2>1, <2>2 DEF Ends
    <3> QED
      BY <2>1, <3>1, AppendProperties
  <2>3. CASE stack' # <<>>
    BY <2>1, <2>3 DEF Ends
  <2> QED
    BY <2>2, <2>3
<1>4. \A n, i : Reads(n, i)' <=> Reads(n, i)
  BY <1>1 DEF Reads
<1>5. SnapshotTypeOK'
  BY <1>1, <1>2, <1>3 DEF WalkInv, SnapshotTypeOK
<1>6. NodeInv' /\ SharesBudget' /\ ReadsInOrder'
  <2>1. NodeInv'
    BY <1>1 DEF WalkInv, NodeInv
  <2>2. SharesBudget'
    BY <1>1 DEF WalkInv, SharesBudget
  <2>3. ReadsInOrder'
    BY <1>1, OrderStays DEF WalkInv
  <2> QED
    BY <2>1, <2>2, <2>3
<1>7. StackInv'
  BY <1>1, <1>2, <1>3 DEF WalkInv, StackInv
<1>8. HangInv'
  BY <1>1, <1>2 DEF WalkInv, HangInv
<1>9. LoopInv'
  BY <1>1, <1>2, <1>4 DEF WalkInv, LoopInv
<1>10. CutIsTold'
  <2> SUFFICES ASSUME NEW k \in DOMAIN read
               PROVE  /\ \/ \E s \in 1..D : stack'[s].node = k /\ stack'[s].next <= read[k].kids
                         \/ read[k].told <=>
                              \E i \in (1..read[k].kids) \ read[k].gone : ~Reads(k, i)'
                      /\ read[k].asked \/ read[k].depth = MAX_DEPTH \/ k = MAX_NODES
    BY <1>1, <1>2, Zenon DEF CutIsTold
  <2>1. read[k].asked \/ read[k].depth = MAX_DEPTH \/ k = MAX_NODES
    BY DEF WalkInv, CutIsTold
  <2>2. CASE \E s \in DOMAIN stack : stack[s].node = k /\ stack[s].next <= read[k].kids
    <3>1. PICK s \in DOMAIN stack : stack[s].node = k /\ stack[s].next <= read[k].kids
      BY <2>2
    <3>2. stack[s].next \in Nat /\ read[k].kids \in Nat
      <4>1. stack[s] \in Call /\ k \in 1..Len(read)
        BY <1>1, ElementOfSeq, LenProperties
      <4> QED
        BY <1>1, <4>1, NodeParts DEF Call
    <3>3. s # D + 1
      BY <1>1, <3>1, <3>2
    <3>4. s \in 1..D /\ stack'[s] = stack[s]
      BY <1>1, <1>2, <3>3
    <3> QED
      BY <2>1, <3>1, <3>4
  <2>3. CASE read[k].told <=> \E i \in (1..read[k].kids) \ read[k].gone : ~Reads(k, i)
    BY <1>4, <2>1, <2>3
  <2> QED
    BY <2>2, <2>3 DEF WalkInv, CutIsTold
<1> QED
  BY <1>5, <1>6, <1>7, <1>8, <1>9, <1>10 DEF WalkInv

-----------------------------------------------------------------------------
(* The other steps of snapshot_inner *)

\* A frame begins a tree of its own.
LEMMA NextFrameInv ==
  ASSUME WalkInv, NextFrame
  PROVE  WalkInv'
<1> USE AccessibilityAssumption
<1> DEFINE asked == 0 < MAX_DEPTH /\ budget' > 0
           Root(n) == [parent |-> 0, nth |-> 1, depth |-> 0, asked |-> asked, kids |-> n,
                       gone |-> {}, told |-> FALSE]
           call == [node |-> 1, next |-> 1]
<1>1. PICK n \in 0..MaxKids :
        (n > 0 => asked) /\ read' = Append(<<>>, Root(n)) /\ stack' = Append(<<>>, call)
  <2>1. Len(<<>>) + 1 = 1
    OBVIOUS
  <2> QED
    BY <2>1, Zenon DEF NextFrame, Walk
<1>2. /\ Root(n).parent = 0 /\ Root(n).nth = 1 /\ Root(n).depth = 0
      /\ Root(n).asked = asked /\ Root(n).kids = n /\ Root(n).gone = {} /\ Root(n).told = FALSE
      /\ call.node = 1 /\ call.next = 1 /\ call \in Call
  BY DEF Call
<1>3. Root(n) \in Node
  <2>1. asked \in BOOLEAN
    OBVIOUS
  <2> HIDE DEF asked
  <2> QED
    BY <2>1 DEF Node
<1> HIDE DEF Root, call
<1>4. /\ read' \in Seq(Node) /\ Len(read') = 1 /\ DOMAIN read' = 1..1 /\ read'[1] = Root(n)
      /\ stack' \in Seq(Call) /\ Len(stack') = 1 /\ DOMAIN stack' = 1..1 /\ stack'[1] = call
  BY <1>1, <1>2, <1>3
<1>5. /\ budget' = MAX_NODES - 1 /\ budget' \in 0..MAX_NODES
      /\ task' = "walk" /\ frame' \in Frame /\ frames' = frames /\ pid' = pid
  BY DEF NextFrame
<1>6. \A m \in DOMAIN read', s \in DOMAIN stack' : m = 1 /\ s = 1
  BY <1>4
<1>7. SnapshotTypeOK'
  BY <1>4, <1>5 DEF WalkInv, SnapshotTypeOK
<1>root. /\ read'[1].parent = 0 /\ read'[1].nth = 1 /\ read'[1].depth = 0
         /\ read'[1].kids = n /\ read'[1].gone = {} /\ read'[1].told = FALSE
         /\ read'[1].asked = asked
         /\ stack'[1].node = 1 /\ stack'[1].next = 1
  BY <1>2, <1>4
<1>8. NodeInv'
  <2>1. /\ read'[1].kids > 0 => read'[1].asked
        /\ read'[1].asked => read'[1].depth < MAX_DEPTH
    BY <1>1, <1>root
  <2> QED
    BY <1>4, <1>root, <2>1 DEF NodeInv
<1>9. StackInv'
  <2>1. stack' # <<>>
    BY <1>4
  <2> QED
    BY <1>4, <1>root, <2>1 DEF StackInv
<1>10. HangInv'
  BY <1>2, <1>4 DEF HangInv
<1>11. LoopInv'
  BY <1>2, <1>4 DEF LoopInv
<1>12. SharesBudget'
  BY <1>4, <1>5 DEF SharesBudget
<1>13. ReadsInOrder'
  BY <1>4 DEF ReadsInOrder
<1>14. CutIsTold'
  <2> SUFFICES /\ \/ \E s \in DOMAIN stack' : stack'[s].node = 1 /\ stack'[s].next <= read'[1].kids
                  \/ read'[1].told <=>
                       \E i \in (1..read'[1].kids) \ read'[1].gone : ~Reads(1, i)'
               /\ read'[1].asked \/ read'[1].depth = MAX_DEPTH \/ 1 = MAX_NODES
    <3>1. \A k \in DOMAIN read' : k = 1
      BY <1>4
    <3> QED
      BY <3>1, Zenon DEF CutIsTold
  <2>1. read'[1].asked \/ read'[1].depth = MAX_DEPTH \/ 1 = MAX_NODES
    <3>1. budget' > 0 \/ MAX_NODES = 1
      BY <1>5
    <3>2. 0 < MAX_DEPTH \/ MAX_DEPTH = 0
      OBVIOUS
    <3> QED
      BY <1>root, <3>1, <3>2
  <2>2. CASE n = 0
    BY <1>root, <2>1, <2>2
  <2>3. CASE n # 0
    BY <1>4, <1>root, <2>1, <2>3
  <2> QED
    BY <2>2, <2>3
<1> QED
  BY <1>7, <1>8, <1>9, <1>10, <1>11, <1>12, <1>13, <1>14 DEF WalkInv

\* The steps between the trees, and the end of the time, leave what was read alone.
LEMMA BetweenInv ==
  ASSUME WalkInv,
         Registry \/ NextApp \/ LastFrame \/ LastApp \/ GiveUp \/ UNCHANGED vars
  PROVE  WalkInv'
<1>1. /\ UNCHANGED <<frame, stack, budget, read>>
      /\ task' = "walk" => task = "walk"
  BY DEF Registry, NextApp, LastFrame, LastApp, GiveUp, vars
<1>2. SnapshotTypeOK'
  <2>1. /\ task' \in {"registry", "apps", "frames", "walk", "done"}
        /\ pid' \in Pids \cup {0}
        /\ frames' \in Seq(Frame)
    <3>1. /\ task \in {"registry", "apps", "frames", "walk", "done"}
          /\ pid \in Pids \cup {0} /\ frames \in Seq(Frame)
      BY DEF WalkInv, SnapshotTypeOK
    <3>2. CASE GiveUp
      BY <3>1, <3>2 DEF GiveUp
    <3>3. CASE Registry \/ NextApp \/ LastFrame \/ LastApp
      BY <3>1, <3>3 DEF Registry, NextApp, LastFrame, LastApp
    <3>4. CASE UNCHANGED vars
      BY <3>1, <3>4 DEF vars
    <3> QED
      BY <3>2, <3>3, <3>4
  <2> QED
    BY <1>1, <2>1 DEF WalkInv, SnapshotTypeOK
<1>3. NodeInv' /\ SharesBudget'
  BY <1>1 DEF WalkInv, NodeInv, SharesBudget
<1>4. StackInv'
  BY <1>1 DEF WalkInv, StackInv
<1>5. HangInv'
  BY <1>1 DEF WalkInv, HangInv
<1>6. \A n, i : Reads(n, i)' <=> Reads(n, i)
  BY <1>1 DEF Reads
<1>7. LoopInv'
  BY <1>1, <1>6 DEF WalkInv, LoopInv
<1>8. ReadsInOrder'
  BY <1>1, OrderStays DEF WalkInv
<1>9. CutIsTold'
  BY <1>1, <1>6 DEF WalkInv, CutIsTold
<1> QED
  BY <1>2, <1>3, <1>4, <1>5, <1>7, <1>8, <1>9 DEF WalkInv

\* Nothing was read at first.
LEMMA WalkInvInit ==
  ASSUME SnapshotInit
  PROVE  WalkInv
<1> USE AccessibilityAssumption DEF SnapshotInit
<1>1. SnapshotTypeOK
  BY DEF SnapshotTypeOK
<1>2. NodeInv /\ StackInv /\ SharesBudget
  BY DEF NodeInv, StackInv, SharesBudget
<1>3. HangInv /\ LoopInv
  BY DEF HangInv, LoopInv
<1>4. ReadsInOrder
  BY DEF ReadsInOrder
<1>5. CutIsTold
  BY DEF CutIsTold
<1> QED
  BY <1>1, <1>2, <1>3, <1>4, <1>5 DEF WalkInv

-----------------------------------------------------------------------------
(* Theorems *)

\* The invariant holds of every run of A11y::snapshot.
THEOREM SnapshotInvariant == SnapshotSpec => []WalkInv
<1>1. SnapshotInit => WalkInv
  BY WalkInvInit
<1>2. WalkInv /\ [SnapshotNext]_vars => WalkInv'
  <2> SUFFICES ASSUME WalkInv, [SnapshotNext]_vars
               PROVE  WalkInv'
    OBVIOUS
  <2>1. CASE WalkChild
    BY <2>1, WalkChildInv
  <2>2. CASE LoseChild \/ Truncate
    BY <2>2, LoopTurnInv
  <2>3. CASE Return
    BY <2>3, ReturnInv
  <2>4. CASE NextFrame
    BY <2>4, NextFrameInv
  <2>5. CASE Registry \/ NextApp \/ LastFrame \/ LastApp \/ GiveUp \/ UNCHANGED vars
    BY <2>5, BetweenInv
  <2> QED
    BY <2>1, <2>2, <2>3, <2>4, <2>5 DEF SnapshotNext
<1> QED
  BY <1>1, <1>2, PTL DEF SnapshotSpec

\* A11y::snapshot keeps its types: no tree is deeper than MAX_DEPTH, and the budget
\* never goes below zero.
THEOREM SnapshotTypes == SnapshotSpec => []SnapshotTypeOK
<1>1. WalkInv => SnapshotTypeOK
  BY DEF WalkInv
<1> QED
  BY <1>1, SnapshotInvariant, PTL

\* walk: one budget is shared by all calls for a frame, so that its tree has at most
\* MAX_NODES nodes.
THEOREM BudgetIsShared == SnapshotSpec => []SharesBudget
<1>1. WalkInv => SharesBudget
  BY DEF WalkInv
<1> QED
  BY <1>1, SnapshotInvariant, PTL

\* walk: the nodes are read depth first and in order, whatever the application answers.
THEOREM WalkedInOrder == SnapshotSpec => []ReadsInOrder
<1>1. WalkInv => ReadsInOrder
  BY DEF WalkInv
<1> QED
  BY <1>1, SnapshotInvariant, PTL

\* walk: a list of children that was cut says so, and no other list does.
THEOREM CutsAreTold == SnapshotSpec => []CutIsTold
<1>1. WalkInv => CutIsTold
  BY DEF WalkInv
<1> QED
  BY <1>1, SnapshotInvariant, PTL

\* render_result: a window's own tree is among those attached to it, unless only other
\* trees of the application bear its title.
THEOREM OwnTreeIsAttached == SnapshotSpec => []OwnTreeAttached
<1>1. OwnTreeAttached
  <2> SUFFICES ASSUME NEW w \in Windows, NEW title \in Titles
               PROVE  LET own == {i \in DOMAIN frames :
                                    frames[i].of = w /\ frames[i].pid = PidOf[w]}
                          titled == {i \in DOMAIN frames :
                                       frames[i].pid = PidOf[w] /\ frames[i].name = title}
                      IN  titled = {} \/ own \cap titled # {} =>
                            own = {} \/ own \cap Attach(w, title) # {}
    BY DEF OwnTreeAttached
  <2> DEFINE app == {i \in DOMAIN frames : frames[i].pid = PidOf[w]}
             matching == {i \in app : frames[i].name = title}
             own == {i \in DOMAIN frames : frames[i].of = w /\ frames[i].pid = PidOf[w]}
             titled == {i \in DOMAIN frames : frames[i].pid = PidOf[w] /\ frames[i].name = title}
  <2>1. titled = matching /\ own \subseteq app /\ matching \subseteq app
    OBVIOUS
  <2>2. Attach(w, title) = IF \E i \in matching : matching = {i} THEN matching
                           ELSE IF \E i \in app : app = {i} THEN app
                           ELSE IF matching # {} THEN matching
                           ELSE app
    BY DEF Attach
  <2>3. \/ Attach(w, title) = matching /\ matching # {}
        \/ Attach(w, title) = app /\ (matching = {} \/ \E i \in app : app = {i})
    <3> HIDE DEF app, matching
    <3> QED
      BY <2>2
  <2> HIDE DEF app, matching, own, titled
  <2> SUFFICES titled = {} \/ own \cap titled # {} => own = {} \/ own \cap Attach(w, title) # {}
    BY DEF own, titled
  <2> QED
    BY <2>1, <2>3
<1> QED
  BY <1>1, PTL
=============================================================================
