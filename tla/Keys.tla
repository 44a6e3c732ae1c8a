------------------------------- MODULE Keys -------------------------------
(***************************************************************************)
(* The keyboard side of press_key and type_text: the key mapper of         *)
(* src/keys.rs, built from the "us" keymap, the key events that            *)
(* perform_action of src/comp.rs sends through the seat, one call after    *)
(* the other, and what the client makes of them with the same keymap.      *)
(*                                                                         *)
(* A combination is the sequence of the parts between its "+", each of     *)
(* them a word: the text "+" is two empty parts.  Of the spellings that    *)
(* differ only in upper and lower case, one or two stand for all.  An      *)
(* Option is a set with at most one element.                               *)
(***************************************************************************)
EXTENDS Naturals, Sequences, SequencesExt

CONSTANTS
  KeyCodes,                \* of the keymap
  Layout,                  \* of each key, the symbols on its levels
  Level,                   \* of each key, the level that the modifiers and locks select
  KeyChar,                 \* the character that a symbol produces: some have none
  Ctrl, Shift, Alt, Logo,  \* the codes of the modifier keys
  LockKeys,                \* of the keys that turn a lock on and off
  Chars,                   \* characters, in the keymap or not
  Texts,                   \* that are typed
  Combos,                  \* that are pressed
  Repeats                  \* the repetitions asked for

Modifiers == {Ctrl, Shift, Alt, Logo}

\* Words that contain "shift", whatever their case.
ShiftWords == {"shift", "Shift", "Shift_L", "shift_l"}

ASSUME KeysAssumption ==
  /\ KeyCodes \subseteq Nat
  /\ Modifiers \subseteq KeyCodes
  /\ \A m \in {Ctrl, Alt, Logo} : m # Shift
  /\ LockKeys \subseteq KeyCodes \ Modifiers
  /\ \A k \in KeyCodes : Layout[k] \in Seq(STRING)
  /\ \A k \in KeyCodes : \A on \in SUBSET (Modifiers \cup LockKeys) :
       Layout[k] # <<>> => Level[k][on] \in DOMAIN Layout[k]
  /\ KeyChar \in [DOMAIN KeyChar -> Chars]
  /\ "Return" \in DOMAIN KeyChar /\ KeyChar["Return"] = "\r"
  /\ "Tab" \in DOMAIN KeyChar /\ KeyChar["Tab"] = "\t"
  /\ \A k \in KeyCodes : \A l \in DOMAIN Layout[k] :
       /\ Layout[k][l] # ""
       /\ k \in Modifiers \cup LockKeys => Layout[k][l] \notin DOMAIN KeyChar
       /\ Layout[k][l] \in DOMAIN KeyChar =>
            (l = 1 => Level[k][{}] = 1) /\ (l = 2 => Level[k][{Shift}] = 2)
       /\ Layout[k][l] \in ShiftWords => k = Shift
  /\ Chars \cap ({""} \cup ShiftWords) = {}
  /\ Texts \subseteq Seq(Chars)
  /\ Combos \subseteq Seq(STRING) \ {<<>>}
  /\ Repeats \subseteq Nat

VARIABLES
  phase,   \* the loop perform_action is in: "text"; "mods", "taps", "release"; else
           \* "done", and "idle" between calls
  next,    \* the round of that loop
  text,    \* of Action::TypeText
  combo,   \* of Action::Key, with
  repeat,
  mods,    \* its modifiers
  press,   \* and its key
  held,    \* the keys that are down
  locks,   \* the locks that are on, which the seat keeps from call to call
  got      \* what the client received in this call: the symbols pressed, each with
           \* the modifiers that were down, other than shift

keysVars == <<phase, next, text, combo, repeat, mods, press, held, locks,
              got>>

Press == [key : KeyCodes, shift : BOOLEAN]

-----------------------------------------------------------------------------
(* KeyMapper *)

\* KeyMapper::new: of the keys and levels that have the symbol, the first.
FirstPress(syms) ==
  LET presses == {p \in KeyCodes \X {1, 2} : p[2] <= Len(Layout[p[1]]) /\ Layout[p[1]][p[2]] \in syms}
      first == {p \in presses : \A q \in presses : p[1] < q[1] \/ (p[1] = q[1] /\ p[2] <= q[2])}
  IN  {[key |-> p[1], shift |-> p[2] = 2] : p \in first}

\* Aliases and keysym names, whatever their case; unknown names map to none.
Canonical(name) ==
  CASE name \in {"enter", "Enter", "return"} -> "Return"
    [] name \in {"tab", "TAB"} -> "Tab"
    [] name = "shift_l" -> "Shift_L"
    [] OTHER -> name

ForChar(c) ==
  CASE c \in {"\n", "\r"} -> FirstPress({"Return"})
    [] c = "\t" -> FirstPress({"Tab"})
    [] OTHER -> FirstPress({s \in DOMAIN KeyChar : KeyChar[s] = c})

\* A single character is looked up as such before it is taken for a name.
ForName(name) ==
  IF name \in Chars /\ ForChar(name) # {} THEN ForChar(name)
                                          ELSE FirstPress({Canonical(name)})

Modifier(name) ==
  CASE name \in {"ctrl", "Ctrl", "control"} -> {Ctrl}
    [] name \in {"shift", "Shift"} -> {Shift}
    [] name = "alt" -> {Alt}
    [] name \in {"super", "meta", "win", "cmd", "logo"} -> {Logo}
    [] OTHER -> {}

\* str::trim, of white space other than within a word.
Trim(part) == IF part \in {" ", "\t", "\n", "\r"} THEN "" ELSE part

ParseCombo(parts) ==
  LET named == [i \in 1..(Len(parts) - 1) |-> Modifier(Trim(parts[i]))]
  IN  {[mods |-> [i \in DOMAIN named |-> CHOOSE k \in named[i] : TRUE], press |-> p] :
         p \in IF \A i \in DOMAIN named : named[i] # {} THEN ForName(Trim(Last(parts))) ELSE {}}

-----------------------------------------------------------------------------
(* The events sent by perform_action, and the client *)

\* The symbol of the key k while the modifiers and locks on are.
Symbol(k, on) == Layout[k][Level[k][on]]

\* What selects the level for a client, and for the seat.
On(client) == (client.held \cap Modifiers) \cup client.locks

\* key_event, to a client that has seen the given keys go down.
KeyEvent(client, k, down) ==
  [held |-> IF down THEN client.held \cup {k} ELSE client.held \ {k},
   locks |-> IF ~down \/ k \notin LockKeys THEN client.locks
             ELSE (client.locks \cup {k}) \ (client.locks \cap {k}),
   got |-> IF down /\ k \notin Modifiers
           THEN Append(client.got, [sym |-> Symbol(k, On(client)), mods |-> client.held \ {Shift}])
           ELSE client.got]

Client == [held |-> held, locks |-> locks, got |-> got]

Becomes(client) == held' = client.held /\ locks' = client.locks /\ got' = client.got

\* Mutant: the shift level of a key is not asked for.
TapPlain(client, k, shift) == KeyEvent(KeyEvent(client, k, TRUE), k, FALSE)

\* Mutant: shift is not let go.
TapAndHold(client, k, shift) ==
  LET shifted == IF shift THEN KeyEvent(client, Shift, TRUE) ELSE client
  IN  KeyEvent(KeyEvent(shifted, k, TRUE), k, FALSE)

TapKey(client, k, shift) ==
  LET shifted == IF shift THEN KeyEvent(client, Shift, TRUE) ELSE client
      tapped == KeyEvent(KeyEvent(shifted, k, TRUE), k, FALSE)
  IN  IF shift THEN KeyEvent(tapped, Shift, FALSE) ELSE tapped

\* Mutant: any modifier is taken for shift.
SaysModifier(parts) == Len(parts) > 1

\* combo.to_lowercase().contains("shift")
SaysShift(parts) == \E i \in DOMAIN parts : parts[i] \in ShiftWords

-----------------------------------------------------------------------------
(* Action::TypeText *)

TypeText ==
  /\ phase = "idle"
  /\ text' \in Texts
  /\ phase' = "text" /\ next' = 1
  /\ UNCHANGED <<combo, repeat, mods, press, held, locks, got>>

\* A character that the keymap does not have is skipped.
Types(c) ==
  \/ ForChar(c) = {} /\ UNCHANGED <<held, locks, got>>
  \/ \E p \in ForChar(c) : Becomes(TapKey(Client, p.key, p.shift))

TypeChar ==
  /\ phase = "text" /\ next <= Len(text)
  /\ Types(text[next])
  /\ next' = next + 1
  /\ UNCHANGED <<phase, text, combo, repeat, mods, press>>

-----------------------------------------------------------------------------
(* Action::Key *)

\* A combination that does not parse sends no event: no step.
PressKey ==
  /\ phase = "idle"
  /\ combo' \in Combos /\ repeat' \in Repeats
  /\ \E c \in ParseCombo(combo') : mods' = c.mods /\ press' = {c.press}
  /\ phase' = "mods" /\ next' = 1
  /\ UNCHANGED <<text, held, locks, got>>

ModDown ==
  /\ phase = "mods" /\ next <= Len(mods)
  /\ Becomes(KeyEvent(Client, mods[next], TRUE))
  /\ next' = next + 1
  /\ UNCHANGED <<phase, text, combo, repeat, mods, press>>

Taps == IF repeat = 0 THEN 1 ELSE repeat

Tap ==
  /\ phase = "taps" /\ next <= Taps
  /\ \E p \in press : Becomes(TapKey(Client, p.key, p.shift /\ ~SaysShift(combo)))
  /\ next' = next + 1
  /\ UNCHANGED <<phase, text, combo, repeat, mods, press>>

\* In reverse order.
ModUp ==
  /\ phase = "release" /\ next <= Len(mods)
  /\ Becomes(KeyEvent(Client, mods[Len(mods) + 1 - next], FALSE))
  /\ next' = next + 1
  /\ UNCHANGED <<phase, text, combo, repeat, mods, press>>

-----------------------------------------------------------------------------
Rounds ==
  CASE phase = "text" -> Len(text)
    [] phase = "taps" -> Taps
    [] OTHER -> Len(mods)

After == [text |-> "done", mods |-> "taps", taps |-> "release", release |-> "done"]

\* Mutant: the rounds of the next loop are counted on.
RunsOn ==
  /\ phase \in DOMAIN After /\ next > Rounds
  /\ phase' = After[phase]
  /\ UNCHANGED <<next, text, combo, repeat, mods, press, held, locks, got>>

LoopEnds ==
  /\ phase \in DOMAIN After /\ next > Rounds
  /\ phase' = After[phase] /\ next' = 1
  /\ UNCHANGED <<text, combo, repeat, mods, press, held, locks, got>>

\* The call is over.  What the client received is of the past, the keys that are down
\* stay down, the locks that are on stay on.
Reply ==
  /\ phase = "done"
  /\ phase' = "idle"
  /\ text' = <<>> /\ combo' = <<>> /\ repeat' = 0 /\ mods' = <<>> /\ press' = {} /\ got' = <<>>
  /\ UNCHANGED <<next, held, locks>>

KeysInit ==
  /\ phase = "idle" /\ next = 1
  /\ text = <<>> /\ combo = <<>> /\ repeat = 0 /\ mods = <<>> /\ press = {}
  /\ held = {} /\ locks = {} /\ got = <<>>

KeysNext ==
  \/ TypeText \/ TypeChar
  \/ PressKey \/ ModDown \/ Tap \/ ModUp
  \/ LoopEnds \/ Reply

KeysSpec == KeysInit /\ [][KeysNext]_keysVars
-----------------------------------------------------------------------------
(* Properties *)

\* Types; a loop is left after its last round.
KeysTypeOK ==
  /\ phase \in {"idle", "text", "mods", "taps", "release", "done"}
  /\ next \in 1..(Rounds + 1)
  /\ text \in Seq(Chars)
  /\ combo \in Seq(STRING)
  /\ repeat \in Nat
  /\ mods \in Seq(Modifiers)
  /\ press \subseteq Press
  /\ held \subseteq KeyCodes
  /\ locks \subseteq LockKeys
  /\ got \in Seq([sym : STRING, mods : SUBSET KeyCodes])

\* comp.rs:439-447: no key and no modifier stays down after a call, whatever the text or
\* the combination.  Of a call, only the locks are left to the next one.
KeysReleased == phase \in {"idle", "done"} => held = {}

Named == {mods[i] : i \in DOMAIN mods}

\* The modifiers that are down when p is pressed and those of ms are.
With(ms, p) == ms \cup (IF p.shift THEN {Shift} ELSE {})

\* Whether sym is what the name of a key stands for.
Typed(c) == IF c = "\n" THEN "\r" ELSE c
Means(name, sym) ==
  IF name \in Chars /\ ForChar(name) # {} THEN KeyChar[sym] = Typed(name)
                                          ELSE sym = Canonical(name)

\* keys.rs, comp.rs:436-448: a combination reaches the client as often as asked for and
\* each time with all the modifiers named and no others, shift showing in the symbol of
\* the key, whether named or implied.  It is the symbol named if no lock is on and the
\* modifiers select the level that has it; shift does not, on the key for Break.
ComboArrives ==
  phase = "done" =>
    \A p \in press : p.key \notin Modifiers \cup LockKeys =>
      /\ got = [i \in 1..Taps |-> [sym |-> Symbol(p.key, With(Named, p) \cup locks),
                                  mods |-> Named \ {Shift}]]
      /\ locks = {} /\ Level[p.key][With(Named, p)] = (IF p.shift THEN 2 ELSE 1) =>
           \A i \in DOMAIN got : Means(Trim(Last(combo)), got[i].sym)

\* The first n characters have arrived: what the client received is those of them that
\* the keymap has, in their order, and the characters themselves if no lock is on.
Arrived(n) ==
  \E at \in [DOMAIN got -> 1..n] :
    /\ \A i, j \in DOMAIN got : i < j => at[i] < at[j]
    /\ {at[i] : i \in DOMAIN got} = {j \in 1..n : ForChar(text[j]) # {}}
    /\ \A i \in DOMAIN got :
         \E p \in ForChar(text[at[i]]) :
           /\ got[i] = [sym |-> Symbol(p.key, With({}, p) \cup locks), mods |-> {}]
           /\ locks = {} => KeyChar[got[i].sym] = Typed(text[at[i]])

\* comp.rs:425-435: after each character the client has received the text so far,
\* without the characters the keymap does not have, and in the end all of it.  A lock
\* that an earlier call turned on changes symbols, not their number or order.
TextArrives ==
  /\ phase = "text" => Arrived(next - 1)
  /\ phase = "done" /\ press = {} => Arrived(Len(text))
=============================================================================
