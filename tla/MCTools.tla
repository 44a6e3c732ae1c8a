------------------------------ MODULE MCTools ------------------------------
(***************************************************************************)
(* Small instances of Keys and Accessibility, the two parts of a tool that *)
(* share no state: what it types, and the trees it replies with.  A run is *)
(* one of either: a sequence of calls that press keys, or a snapshot.      *)
(***************************************************************************)
EXTENDS Keys, Accessibility

\* A few keys of the keymap stand for all of them, in the order of their key codes;
\* the keypad repeats a digit, Break is Pause with Control.
MCLayout == << <<"1", "exclam">>, <<"equal", "plus">>, <<"Tab", "ISO_Left_Tab">>,
               <<"Return">>, <<"Control_L">>, <<"a", "A">>, <<"Shift_L">>,
               <<"Alt_L">>, <<"space">>, <<"KP_End", "KP_1">>, <<"Super_L">>,
               <<"Caps_Lock">>, <<"Pause", "Break">>, <<"Num_Lock">> >>

MCKeyCodes == DOMAIN MCLayout

\* The key types: ALPHABETIC, KEYPAD, PC_CONTROL_LEVEL2, and TWO_LEVEL, of which
\* ONE_LEVEL is the case with no second level.
MCLevel ==
  [k \in MCKeyCodes |-> [on \in SUBSET {5, 7, 8, 11, 12, 14} |->
     CASE Len(MCLayout[k]) = 1 -> 1
       [] k = 6 -> IF (7 \in on) # (12 \in on) THEN 2 ELSE 1
       [] k = 10 -> IF (7 \in on) # (14 \in on) THEN 2 ELSE 1
       [] k = 13 -> IF 5 \in on THEN 2 ELSE 1
       [] OTHER -> IF 7 \in on THEN 2 ELSE 1]]

MCKeyChar ==
  [s \in {"1", "KP_1", "exclam", "equal", "plus", "Tab", "Return", "a", "A", "space"} |->
     CASE s \in {"1", "KP_1"} -> "1" [] s = "exclam" -> "!" [] s = "equal" -> "="
       [] s = "plus" -> "+" [] s = "Tab" -> "\t" [] s = "Return" -> "\r"
       [] s = "space" -> " " [] OTHER -> s]

MCChars == {"1", "!", "=", "+", "\t", "\r", "\n", "a", "A", " ", "~"}

\* The texts of up to three characters.
MCTexts == BoundedSeq(MCChars, 3)

Words == {"", " ", "ctrl", "Ctrl", "shift", "super", "a", "A", "1", "Enter", "plus", "Shift_L", "~",
          "KP_1", "Caps_Lock", "Num_Lock", "Break"}

\* The combinations of up to three parts.
MCCombos == BoundedSeq(Words, 3) \ {<<>>}

MCPidOf == [w \in Windows |-> 1]

Init == KeysInit /\ SnapshotInit

Next ==
  \/ task = "registry" /\ KeysNext /\ UNCHANGED vars
  \/ phase = "idle" /\ SnapshotNext /\ UNCHANGED keysVars

Spec == Init /\ [][Next]_<<keysVars, vars>>
=============================================================================
