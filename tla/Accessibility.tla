--------------------------- MODULE Accessibility ---------------------------
(***************************************************************************)
(* The accessibility part of a tool's reply: A11y::snapshot reads the      *)
(* trees of all applications (src/a11y.rs), render_result attaches them to *)
(* the windows of the snapshot (src/mcp.rs).                               *)
(*                                                                         *)
(* Every value is fetched from the application over the bus, one call      *)
(* after the other, and the application goes on meanwhile: what it answers *)
(* is chosen at the moment it is asked.  Nothing keeps it from listing a   *)
(* node twice or below itself, so a node here is not an object of the      *)
(* application but a place in the tree that is read.                       *)
(***************************************************************************)
EXTENDS Naturals, Sequences, SequencesExt

CONSTANTS
  MAX_NODES,   \* nodes read for each frame
  MAX_DEPTH,   \* depth of the deepest node read
  MaxKids,     \* bound: children that a node lists
  MaxFrames,   \* bound: frames in the reply
  Windows,     \* windows of the compositor's snapshot that have a pid
  Other,       \* stands for any other window
  PidOf,       \* the pid of each
  Pids,        \* of all applications on the bus
  Titles

ASSUME AccessibilityAssumption ==
  /\ MAX_NODES \in Nat \ {0}
  /\ MAX_DEPTH \in Nat
  /\ MaxKids \in Nat
  /\ MaxFrames \in Nat
  /\ Other \notin Windows
  /\ Pids \subseteq Nat \ {0}
  /\ PidOf \in [Windows -> Pids]

VARIABLES
  task,     \* where snapshot_inner is: "registry", "apps", "frames", "walk"; "done"
  pid,      \* of the application whose frames are read, 0 if the bus does not tell
  frame,    \* the frame that is walked
  stack,    \* the calls of walk under way: the node, and which of its children is next
  budget,   \* nodes that may still be read
  read,     \* the nodes of the tree, in the order they are read
  frames    \* the trees read so far

vars == <<task, pid, frame, stack, budget, read, frames>>

\* name: the accessible name; of: the window it is the frame of, as nobody tells.
Frame == [pid : Pids \cup {0}, name : Titles, of : Windows \cup {Other}]

\* The place: nth child of its parent.  asked: get_children was called; kids: how
\* many it listed; gone: those that could not be reached; told: "...truncated" is
\* the last entry of the children in the reply.
Node == [parent : Nat, nth : Nat \ {0}, depth : 0..MAX_DEPTH, asked : BOOLEAN, kids : 0..MaxKids,
         gone : SUBSET (1..MaxKids), told : BOOLEAN]

\* A call of walk: the place of its node in read, and the child that comes next.
Call == [node : Nat \ {0}, next : Nat \ {0}]

-----------------------------------------------------------------------------
(* walk *)

Top == Last(stack)

Current == read[Top.node]

\* Mutant: the depth is not looked at.
WalkDeep(parent, nth, depth, callers) ==
  LET asked == budget' > 0
      before == IF parent = 0 THEN <<>> ELSE read
  IN  \E n \in 0..MaxKids :
        /\ n > 0 => asked
        /\ read' = Append(before, [parent |-> parent, nth |-> nth, depth |-> depth,
                                   asked |-> asked, kids |-> n, gone |-> {}, told |-> FALSE])
        /\ stack' = Append(callers, [node |-> Len(before) + 1, next |-> 1])

\* The call for the nth child of a parent: the node counts, its children are asked
\* for if any may be read; an error is no children.  walk refuses an empty budget,
\* too, which its callers have looked at before.
Walk(parent, nth, depth, callers) ==
  LET asked == depth < MAX_DEPTH /\ budget' > 0
      before == IF parent = 0 THEN <<>> ELSE read
  IN  \E n \in 0..MaxKids :
        /\ n > 0 => asked
        /\ read' = Append(before, [parent |-> parent, nth |-> nth, depth |-> depth,
                                   asked |-> asked, kids |-> n, gone |-> {}, told |-> FALSE])
        /\ stack' = Append(callers, [node |-> Len(before) + 1, next |-> 1])

\* The call on top of the stack with its loop over the children advanced.
Advanced == [stack EXCEPT ![Len(stack)].next = @ + 1]

HasNext == Top.next <= Current.kids

\* Mutant: the children are read last first.
WalkLastFirst ==
  /\ task = "walk" /\ HasNext
  /\ budget > 0
  /\ budget' = budget - 1
  /\ Walk(Top.node, Current.kids + 1 - Top.next, Current.depth + 1, Advanced)
  /\ UNCHANGED <<task, pid, frame, frames>>

WalkChild ==
  /\ task = "walk" /\ HasNext
  /\ budget > 0
  /\ budget' = budget - 1
  /\ Walk(Top.node, Top.next, Current.depth + 1, Advanced)
  /\ UNCHANGED <<task, pid, frame, frames>>

\* A child that cannot be reached costs nothing.
LoseChild ==
  /\ task = "walk" /\ HasNext
  /\ budget > 0
  /\ read' = [read EXCEPT ![Top.node].gone = @ \cup {Top.next}]
  /\ stack' = Advanced
  /\ UNCHANGED <<task, pid, frame, budget, frames>>

\* Mutant: the loop over the children ends without a word.
StopSilently ==
  /\ task = "walk" /\ HasNext
  /\ budget = 0
  /\ stack' = [stack EXCEPT ![Len(stack)].next = Current.kids + 1]
  /\ UNCHANGED <<task, pid, frame, budget, read, frames>>

\* The budget is looked at before each child.
Truncate ==
  /\ task = "walk" /\ HasNext
  /\ budget = 0
  /\ read' = [read EXCEPT ![Top.node].told = TRUE]
  /\ stack' = [stack EXCEPT ![Len(stack)].next = Current.kids + 1]
  /\ UNCHANGED <<task, pid, frame, budget, frames>>

Ends(stack1) ==
  IF stack1 = <<>> THEN task' = "frames" /\ frames' = Append(frames, frame)
                   ELSE UNCHANGED <<task, frames>>

\* Mutant: every child spends a copy of the budget.
ReturnCopy ==
  /\ task = "walk" /\ ~HasNext
  /\ stack' = Front(stack)
  /\ budget' = budget + Len(read) - Top.node
  /\ Ends(stack')
  /\ UNCHANGED <<pid, frame, read>>

\* The walk of a node returns; that of the frame itself ends in the reply.
Return ==
  /\ task = "walk" /\ ~HasNext
  /\ stack' = Front(stack)
  /\ Ends(stack')
  /\ UNCHANGED <<pid, frame, budget, read>>

-----------------------------------------------------------------------------
(* snapshot_inner *)

\* Applications and frames that cannot be reached are passed over: no step.
Registry ==
  /\ task = "registry"
  /\ task' = "apps"
  /\ UNCHANGED <<pid, frame, stack, budget, read, frames>>

\* The bus is asked for the pid of the application's connection.
NextApp ==
  /\ task = "apps"
  /\ pid' \in Pids \cup {0}
  /\ task' = "frames"
  /\ UNCHANGED <<frame, stack, budget, read, frames>>

\* A frame of the application, with a budget of its own.  It may belong to any
\* window of the application, or to none that was in the snapshot, and may have any
\* name by now.
NextFrame ==
  /\ task = "frames"
  /\ Len(frames) < MaxFrames
  /\ \E f \in Frame :
       /\ f.pid = pid
       /\ f.of \in Windows /\ pid # 0 => PidOf[f.of] = pid
       /\ frame' = f
  /\ budget' = MAX_NODES - 1
  /\ Walk(0, 1, 0, <<>>)
  /\ task' = "walk"
  /\ UNCHANGED <<pid, frames>>

LastFrame ==
  /\ task = "frames"
  /\ task' = "apps"
  /\ UNCHANGED <<pid, frame, stack, budget, read, frames>>

LastApp ==
  /\ task = "apps"
  /\ task' = "done"
  /\ UNCHANGED <<pid, frame, stack, budget, read, frames>>

\* The 4 s of A11y::snapshot are over, wherever snapshot_inner is; an error of the
\* registry ends it in the same way.
GiveUp ==
  /\ task # "done"
  /\ task' = "done"
  /\ frames' = <<>>
  /\ UNCHANGED <<pid, frame, stack, budget, read>>

-----------------------------------------------------------------------------
(* render_result *)

\* Mutant: the first frame with the title will do.
AttachFirst(window, title) ==
  LET app == {i \in DOMAIN frames : frames[i].pid = PidOf[window]}
      matching == {i \in app : frames[i].name = title}
  IN  IF matching # {} THEN {CHOOSE i \in matching : \A j \in matching : i <= j} ELSE app

\* The frames attached to a window with a screenshot, by their place in the reply:
\* the one with its title; else the only one of its application; else all with its
\* title; else all of the application.
Attach(window, title) ==
  LET app == {i \in DOMAIN frames : frames[i].pid = PidOf[window]}
      matching == {i \in app : frames[i].name = title}
  IN  IF \E i \in matching : matching = {i} THEN matching
      ELSE IF \E i \in app : app = {i} THEN app
      ELSE IF matching # {} THEN matching
      ELSE app

-----------------------------------------------------------------------------
SnapshotInit ==
  /\ task = "registry"
  /\ pid = 0
  /\ frame \in {f \in Frame : f.pid = 0 /\ f.of = Other}
  /\ stack = <<>> /\ read = <<>> /\ frames = <<>>
  /\ budget = 0

SnapshotNext ==
  \/ Registry \/ NextApp \/ NextFrame \/ LastFrame \/ LastApp \/ GiveUp
  \/ WalkChild \/ LoseChild \/ Truncate \/ Return

SnapshotSpec == SnapshotInit /\ [][SnapshotNext]_vars
-----------------------------------------------------------------------------
(* Properties *)

\* Types.
SnapshotTypeOK ==
  /\ task \in {"registry", "apps", "frames", "walk", "done"}
  /\ pid \in Pids \cup {0}
  /\ frame \in Frame
  /\ stack \in Seq(Call)
  /\ budget \in 0..MAX_NODES
  /\ read \in Seq(Node)
  /\ frames \in Seq(Frame)

\* a11y.rs: one budget is shared by the whole tree, at every depth of the calls: what
\* was read and what may still be read are MAX_NODES together.
SharesBudget == read # <<>> => Len(read) + budget = MAX_NODES

Reads(parent, nth) == \E m \in DOMAIN read : read[m].parent = parent /\ read[m].nth = nth

\* walk: however an application answers, the nodes are read depth first and in order:
\* what comes between a node and one of its children is the children before that one,
\* all that can be reached of them, with what is below them.
ReadsInOrder ==
  \A k \in 2..Len(read) :
    LET up == read[k].parent
        between == (up + 1)..(k - 1)
    IN  /\ up \in 1..(k - 1)
        /\ read[k].nth \in (1..read[up].kids) \ read[up].gone
        /\ read[k].depth = read[up].depth + 1
        /\ \A m \in between : /\ read[m].parent >= up
                              /\ read[m].parent = up => read[m].nth < read[k].nth
        /\ \A i \in 1..(read[k].nth - 1) :
             i \in read[up].gone \/ \E m \in between : read[m].parent = up /\ read[m].nth = i

\* a11y.rs:218-221: as soon as the loop over a node's children is over, each of them was
\* read or could not be reached, or the reply tells that the list was cut, which it
\* tells only if it was.  Where children were not asked for, it is for the depth,
\* or else the node is the last one that may be read.
CutIsTold ==
  \A k \in DOMAIN read :
    /\ (\E s \in DOMAIN stack : stack[s].node = k /\ stack[s].next <= read[k].kids) \/
       (read[k].told <=> \E i \in (1..read[k].kids) \ read[k].gone : ~Reads(k, i))
    /\ read[k].asked \/ read[k].depth = MAX_DEPTH \/ k = MAX_NODES

\* mcp.rs:337-367: whatever happened to the frames between the snapshot of the windows
\* and that of the trees, the frame of a window itself is among those attached to it,
\* if it was read and its pid is known, unless only others bear the window's title.
OwnTreeAttached ==
  task = "done" =>
    \A w \in Windows, title \in Titles :
      LET own == {i \in DOMAIN frames : frames[i].of = w /\ frames[i].pid = PidOf[w]}
          titled == {i \in DOMAIN frames : frames[i].pid = PidOf[w] /\ frames[i].name = title}
      IN  titled = {} \/ own \cap titled # {} =>
            own = {} \/ own \cap Attach(w, title) # {}
=============================================================================
