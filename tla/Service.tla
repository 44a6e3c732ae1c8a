------------------------------ MODULE Service ------------------------------
(***************************************************************************)
(* What the server promises of a call, whatever goes on inside it: a       *)
(* request is performed at most once and in the order of the calls, before *)
(* the caller sees its result.  A call that fails promises nothing: its    *)
(* request may have been performed, may still be, or may be lost.          *)
(***************************************************************************)
EXTENDS Sequences

CONSTANT Callers   \* the calls made, each of them once

VARIABLES
  status,     \* how far the caller of each call is
  queue,      \* calls accepted and not performed yet
  performed   \* calls performed

serviceVars == <<status, queue, performed>>

Outcomes == {"state", "refused", "error"}

Init ==
  /\ status = [c \in Callers |-> "idle"]
  /\ queue = <<>>
  /\ performed = {}

Ends(c, o) == status' = [status EXCEPT ![c] = o]

Call(c) ==
  /\ status[c] = "idle"
  /\ \/ Ends(c, "called") /\ queue' = Append(queue, c)
     \/ Ends(c, "error") /\ UNCHANGED queue
  /\ UNCHANGED performed

\* Whether or not its caller still waits.
Perform(c) ==
  /\ queue # <<>> /\ c = Head(queue)
  /\ c \notin performed
  /\ queue' = Tail(queue)
  /\ performed' = performed \cup {c}
  /\ UNCHANGED status

Return(c) ==
  /\ status[c] = "called"
  /\ \/ c \in performed /\ (Ends(c, "state") \/ Ends(c, "refused"))
     \/ Ends(c, "error")
  /\ UNCHANGED <<queue, performed>>

\* The server goes down with the requests it has not performed, and takes calls
\* that are under way with it.
Lose ==
  /\ queue' = <<>>
  /\ \E lost \in SUBSET {c \in Callers : status[c] = "called"} :
       status' = [c \in Callers |-> IF c \in lost THEN "error" ELSE status[c]]
  /\ UNCHANGED performed

Next == \/ \E c \in Callers : Call(c) \/ Perform(c) \/ Return(c)
        \/ Lose

Spec == Init /\ [][Next]_serviceVars
=============================================================================
