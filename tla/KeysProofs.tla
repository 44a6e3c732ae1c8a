----------------------------- MODULE KeysProofs -----------------------------
(***************************************************************************)
(* Theorems about Keys: texts and combinations arrive as they were meant,  *)
(* as far as no lock is on, and leave no key down.  They hold for every    *)
(* keymap that satisfies the assumption, as the us keymap does, for every  *)
(* text and combination, and for any sequence of calls.                    *)
(***************************************************************************)
EXTENDS Keys, SequenceTheorems, TLAPS

-----------------------------------------------------------------------------
(* The inductive invariant *)

\* Of a call under way, what was asked for; between calls nothing is left of it.
CallInv ==
  /\ phase \in {"idle", "text"} => press = {}
  /\ phase \in {"mods", "taps", "release"} => press # {}
  /\ phase \in {"idle", "mods"} => got = <<>>
  /\ phase = "idle" \/ press # {} => text = <<>>
  /\ phase = "done" => next = 1
  /\ press # {} => \E c \in ParseCombo(combo) :
                     combo \in Combos /\ mods = c.mods /\ press = {c.press}

\* The modifiers go down one after the other, stay down while a key that is none of
\* them is tapped, and are let go in the reverse order.
HeldInv ==
  /\ phase = "mods" => held = {mods[i] : i \in 1..(next - 1)}
  /\ phase = "taps" => /\ held \subseteq Named
                       /\ \A p \in press : p.key \notin Modifiers => held = Named
  /\ phase = "release" => held \subseteq {mods[i] : i \in 1..(Len(mods) + 1 - next)}
  /\ phase = "text" => held = {}
  /\ KeysReleased

\* What a tap of a combination's key should yield.
Yield(p) == [sym |-> Symbol(p.key, With(Named, p) \cup locks), mods |-> Named \ {Shift}]

\* The taps so far did.
GotInv ==
  \A p \in press : p.key \notin Modifiers \cup LockKeys =>
    /\ phase = "taps" => got = [i \in 1..(next - 1) |-> Yield(p)]
    /\ phase \in {"release", "done"} => got = [i \in 1..Taps |-> Yield(p)]

KeysInv ==
  /\ KeysTypeOK
  /\ CallInv
  /\ HeldInv
  /\ GotInv
  /\ TextArrives
-----------------------------------------------------------------------------
(* The key mapper *)

\* A key that was found bears one of the symbols, on the level that is asked for.
LEMMA FirstPressBears ==
  ASSUME NEW syms, NEW p \in FirstPress(syms)
  PROVE  /\ p \in Press
         /\ LET l == IF p.shift THEN 2 ELSE 1
            IN  l <= Len(Layout[p.key]) /\ l \in DOMAIN Layout[p.key] /\ Layout[p.key][l] \in syms
<1>1. PICK q \in KeyCodes \X {1, 2} :
        /\ q[2] <= Len(Layout[q[1]]) /\ Layout[q[1]][q[2]] \in syms
        /\ p = [key |-> q[1], shift |-> q[2] = 2]
  BY Zenon DEF FirstPress
<1> DEFINE k == q[1]
           l == q[2]
<1>2. /\ k \in KeyCodes /\ l \in {1, 2}
      /\ l <= Len(Layout[k]) /\ Layout[k][l] \in syms
      /\ p = [key |-> k, shift |-> l = 2]
  BY <1>1
<1> HIDE DEF k, l
<1>3. p.key = k /\ p.shift = (l = 2)
  BY <1>2
<1>4. p \in Press
  <2>1. (l = 2) \in BOOLEAN
    OBVIOUS
  <2> QED
    BY <1>2, <2>1, Zenon DEF Press
<1>5. l = IF p.shift THEN 2 ELSE 1
  <2>1. CASE l = 2
    BY <1>3, <2>1
  <2>2. CASE l = 1
    BY <1>3, <2>2
  <2> QED
    BY <1>2, <2>1, <2>2
<1>6. l \in DOMAIN Layout[k]
  <2>1. Layout[k] \in Seq(STRING)
    BY <1>2, KeysAssumption
  <2>2. DOMAIN Layout[k] = 1..Len(Layout[k])
    BY <2>1, LenProperties
  <2> QED
    BY <1>2, <2>2
<1> QED
  BY <1>2, <1>3, <1>4, <1>5, <1>6

\* The key for a character is neither modifier nor lock, and shift alone selects the
\* level that yields the character.
LEMMA ForCharYields ==
  ASSUME NEW c \in Chars, NEW p \in ForChar(c)
  PROVE  /\ p \in Press /\ p.key \notin Modifiers \cup LockKeys
         /\ LET l == IF p.shift THEN 2 ELSE 1
            IN  /\ l <= Len(Layout[p.key])
                /\ Level[p.key][With({}, p)] = l
                /\ Layout[p.key][l] \in DOMAIN KeyChar
                /\ KeyChar[Layout[p.key][l]] = Typed(c)
<1> DEFINE l == IF p.shift THEN 2 ELSE 1
<1>1. ASSUME NEW syms, p \in FirstPress(syms),
             \A s \in syms : s \in DOMAIN KeyChar /\ KeyChar[s] = Typed(c)
      PROVE  /\ p \in Press /\ p.key \notin Modifiers \cup LockKeys
             /\ l <= Len(Layout[p.key])
             /\ Level[p.key][With({}, p)] = l
             /\ Layout[p.key][l] \in DOMAIN KeyChar
             /\ KeyChar[Layout[p.key][l]] = Typed(c)
  <2>1. /\ p \in Press
        /\ l <= Len(Layout[p.key]) /\ l \in DOMAIN Layout[p.key] /\ Layout[p.key][l] \in syms
    BY <1>1, FirstPressBears
  <2>2. p.key \in KeyCodes
    BY <2>1 DEF Press
  <2>3. Layout[p.key][l] \in DOMAIN KeyChar
    BY <1>1, <2>1
  <2>4. /\ p.key \notin Modifiers \cup LockKeys
        /\ l = 1 => Level[p.key][{}] = 1
        /\ l = 2 => Level[p.key][{Shift}] = 2
    BY <2>1, <2>2, <2>3, KeysAssumption
  <2>5. Level[p.key][With({}, p)] = l
    <3>1. CASE p.shift
      <4>1. With({}, p) = {Shift} /\ l = 2
        BY <3>1 DEF With
      <4> QED
        BY <2>4, <4>1
    <3>2. CASE ~p.shift
      <4>1. With({}, p) = {} /\ l = 1
        BY <3>2 DEF With
      <4> QED
        BY <2>4, <4>1
    <3> QED
      BY <3>1, <3>2
  <2> QED
    BY <1>1, <2>1, <2>3, <2>4, <2>5
<1>2. CASE c \in {"\n", "\r"}
  <2>1. p \in FirstPress({"Return"}) /\ Typed(c) = "\r"
    BY <1>2, Zenon DEF ForChar, Typed
  <2>2. \A s \in {"Return"} : s \in DOMAIN KeyChar /\ KeyChar[s] = Typed(c)
    BY <2>1, KeysAssumption
  <2> QED
    BY <1>1, <2>1, <2>2
<1>3. CASE c = "\t"
  <2>1. p \in FirstPress({"Tab"}) /\ Typed(c) = "\t"
    BY <1>3 DEF ForChar, Typed
  <2>2. \A s \in {"Tab"} : s \in DOMAIN KeyChar /\ KeyChar[s] = Typed(c)
    BY <2>1, KeysAssumption
  <2> QED
    BY <1>1, <2>1, <2>2
<1>4. CASE c \notin {"\n", "\r", "\t"}
  <2>1. p \in FirstPress({s \in DOMAIN KeyChar : KeyChar[s] = c}) /\ Typed(c) = c
    BY <1>4 DEF ForChar, Typed
  <2> QED
    BY <1>1, <2>1
<1> QED
  BY <1>2, <1>3, <1>4

\* A name stands for at most one modifier; only "shift" stands for Shift.
LEMMA ModifierIsOne ==
  ASSUME NEW name, Modifier(name) # {}
  PROVE  /\ (CHOOSE k \in Modifier(name) : TRUE) \in Modifiers
         /\ (CHOOSE k \in Modifier(name) : TRUE) = Shift <=> name \in {"shift", "Shift"}
<1> DEFINE k == CHOOSE k \in Modifier(name) : TRUE
<1>1. k \in Modifier(name)
  OBVIOUS
<1> HIDE DEF k
<1>2. CASE name \in {"shift", "Shift"}
  BY <1>1, <1>2 DEF Modifier, Modifiers, k
<1>3. CASE name \notin {"shift", "Shift"}
  <2>1. Modifier(name) \in {{Ctrl}, {Alt}, {Logo}, {}}
    BY <1>3 DEF Modifier
  <2>2. k \in {Ctrl, Alt, Logo}
    BY <1>1, <2>1
  <2> QED
    BY <1>3, <2>2, KeysAssumption DEF Modifiers, k
<1> QED
  BY <1>2, <1>3

\* The key for a name is a key that bears what the name stands for, and it is Shift if
\* the name says so.
LEMMA ForNameKey ==
  ASSUME NEW name, NEW p \in ForName(name)
  PROVE  /\ p \in Press /\ Layout[p.key] # <<>>
         /\ Means(name, Layout[p.key][IF p.shift THEN 2 ELSE 1])
         /\ name \in ShiftWords => p.key = Shift
<1>0. <<>> \in Seq(STRING) /\ Len(<<>>) = 0
  OBVIOUS
<1>1. CASE name \in Chars /\ ForChar(name) # {}
  <2>1. p \in ForChar(name)
    BY <1>1 DEF ForName
  <2>2. /\ p \in Press
        /\ (IF p.shift THEN 2 ELSE 1) <= Len(Layout[p.key])
        /\ KeyChar[Layout[p.key][IF p.shift THEN 2 ELSE 1]] = Typed(name)
    BY <1>1, <2>1, ForCharYields
  <2>3. Layout[p.key] # <<>>
    BY <1>0, <2>2
  <2>4. name \notin ShiftWords
    BY <1>1, KeysAssumption
  <2> QED
    BY <1>1, <2>2, <2>3, <2>4 DEF Means
<1>2. CASE ~(name \in Chars /\ ForChar(name) # {})
  <2>1. p \in FirstPress({Canonical(name)})
    BY <1>2 DEF ForName
  <2> DEFINE l == IF p.shift THEN 2 ELSE 1
  <2>2. /\ p \in Press /\ l \in DOMAIN Layout[p.key] /\ Layout[p.key][l] = Canonical(name)
        /\ l <= Len(Layout[p.key])
    BY <2>1, FirstPressBears
  <2>5. Layout[p.key] # <<>>
    BY <1>0, <2>2
  <2>3. name \in ShiftWords => Canonical(name) \in ShiftWords
    BY DEF ShiftWords, Canonical
  <2>4. p.key \in KeyCodes
    BY <2>2 DEF Press
  <2>6. Means(name, Layout[p.key][l])
    BY <1>2, <2>2 DEF Means
  <2>7. name \in ShiftWords => p.key = Shift
    BY <2>2, <2>3, <2>4, KeysAssumption
  <2> QED
    BY <2>2, <2>5, <2>6, <2>7
<1> QED
  BY <1>1, <1>2

\* A combination says "shift" exactly if shift is one of its modifiers, or its key.
LEMMA ParseComboParts ==
  ASSUME NEW parts \in Combos, NEW c \in ParseCombo(parts)
  PROVE  /\ c.mods \in Seq(Modifiers)
         /\ c.press \in Press /\ Layout[c.press.key] # <<>>
         /\ Means(Trim(Last(parts)), Layout[c.press.key][IF c.press.shift THEN 2 ELSE 1])
         /\ (\E i \in DOMAIN c.mods : c.mods[i] = Shift) => SaysShift(parts)
         /\ SaysShift(parts) /\ c.press.key \notin Modifiers =>
              \E i \in DOMAIN c.mods : c.mods[i] = Shift
<1> DEFINE n == Len(parts) - 1
           named == [i \in 1..n |-> Modifier(Trim(parts[i]))]
           chosen == [i \in DOMAIN named |-> CHOOSE k \in named[i] : TRUE]
<1>1. /\ parts \in Seq(STRING) /\ DOMAIN parts = 1..(n + 1) /\ n \in Nat
      /\ Last(parts) = parts[n + 1]
  <2>1. parts \in Seq(STRING) /\ parts # <<>>
    BY KeysAssumption
  <2>2. Len(parts) \in Nat \ {0} /\ DOMAIN parts = 1..Len(parts)
    BY <2>1, EmptySeq, LenProperties
  <2>3. n + 1 = Len(parts)
    BY <2>2
  <2> QED
    BY <2>1, <2>2, <2>3 DEF Last
<1>2. /\ \A i \in DOMAIN named : named[i] # {}
      /\ \E p \in ForName(Trim(Last(parts))) : c = [mods |-> chosen, press |-> p]
  <2>1. PICK p \in IF \A i \in DOMAIN named : named[i] # {} THEN ForName(Trim(Last(parts))) ELSE {} :
          c = [mods |-> chosen, press |-> p]
    BY Zenon DEF ParseCombo
  <2> HIDE DEF named, chosen
  <2> QED
    BY <2>1
<1>3. /\ c.mods = chosen /\ c.press \in ForName(Trim(parts[n + 1]))
  <2> HIDE DEF n, named, chosen
  <2>1. PICK p \in ForName(Trim(Last(parts))) : c = [mods |-> chosen, press |-> p]
    BY <1>2
  <2>2. c.mods = chosen /\ c.press = p
    BY <2>1
  <2> QED
    BY <1>1, <2>2
<1> HIDE DEF n
<1>4. \A i \in 1..n : /\ Modifier(Trim(parts[i])) # {}
                      /\ c.mods[i] = CHOOSE k \in Modifier(Trim(parts[i])) : TRUE
  BY <1>2, <1>3
<1>5. DOMAIN c.mods = 1..n
  BY <1>3
<1> HIDE DEF named, chosen
<1>6. \A i \in 1..n : /\ c.mods[i] \in Modifiers
                      /\ c.mods[i] = Shift <=> Trim(parts[i]) \in {"shift", "Shift"}
  BY <1>4, ModifierIsOne
<1>7. c.mods \in Seq(Modifiers)
  <2>1. c.mods = [i \in 1..n |-> c.mods[i]]
    BY <1>3, <1>5, Zenon DEF chosen
  <2> QED
    BY <1>1, <1>6, <2>1
<1>8. \A i \in 1..(n + 1) : Trim(parts[i]) \in ShiftWords <=> parts[i] \in ShiftWords
  BY DEF Trim, ShiftWords
<1>9. /\ c.press \in Press /\ Layout[c.press.key] # <<>>
      /\ Means(Trim(Last(parts)), Layout[c.press.key][IF c.press.shift THEN 2 ELSE 1])
      /\ parts[n + 1] \in ShiftWords => c.press.key = Shift
  BY <1>1, <1>3, <1>8, ForNameKey
<1>10. (\E i \in DOMAIN c.mods : c.mods[i] = Shift) => SaysShift(parts)
  <2> SUFFICES ASSUME NEW i \in 1..n, c.mods[i] = Shift
               PROVE  SaysShift(parts)
    BY <1>5
  <2>1. Trim(parts[i]) \in ShiftWords
    BY <1>6 DEF ShiftWords
  <2>2. i \in 1..(n + 1)
    BY <1>1
  <2> QED
    BY <1>1, <1>8, <2>1, <2>2 DEF SaysShift
<1>11. ASSUME SaysShift(parts), c.press.key \notin Modifiers
       PROVE  \E i \in DOMAIN c.mods : c.mods[i] = Shift
  <2>1. PICK i \in 1..(n + 1) : parts[i] \in ShiftWords
    BY <1>1, <1>11 DEF SaysShift
  <2>2. i # n + 1
    BY <1>9, <1>11, <2>1 DEF Modifiers
  <2>3. i \in 1..n
    BY <1>1, <2>1, <2>2
  <2>4. Trim(parts[i]) = parts[i]
    BY <2>1 DEF Trim, ShiftWords
  <2>5. parts[i] \in {"shift", "Shift"}
    <3>1. Modifier(parts[i]) # {}
      BY <1>4, <2>3, <2>4
    <3> QED
      BY <2>1, <3>1 DEF Modifier, ShiftWords
  <2> QED
    BY <1>5, <1>6, <2>3, <2>4, <2>5
<1> QED
  BY <1>7, <1>9, <1>10, <1>11

-----------------------------------------------------------------------------
(* Key events *)

\* What a tap does to a client: it yields the key's symbol once, if it is no modifier,
\* and no key is down and no lock on that was not before, but for the key's own lock.
LEMMA TapKeyYields ==
  ASSUME NEW client, NEW k, NEW shift \in BOOLEAN
  PROVE  LET tapped == TapKey(client, k, shift)
             on == On(client) \cup (IF shift THEN {Shift} ELSE {})
         IN  /\ tapped.held = client.held \ (IF shift THEN {k, Shift} ELSE {k})
             /\ tapped.locks \subseteq client.locks \cup (LockKeys \cap {k})
             /\ k \notin LockKeys => tapped.locks = client.locks
             /\ k \in Modifiers => tapped.got = client.got
             /\ k \notin Modifiers =>
                  tapped.got = Append(client.got,
                    [sym |-> Symbol(k, on), mods |-> client.held \ {Shift}])
<1>0. Shift \in Modifiers /\ Shift \notin LockKeys
  BY KeysAssumption DEF Modifiers
<1>1. ASSUME NEW before, NEW key
      PROVE  /\ KeyEvent(before, key, FALSE).held = before.held \ {key}
             /\ KeyEvent(before, key, FALSE).locks = before.locks
             /\ KeyEvent(before, key, FALSE).got = before.got
             /\ KeyEvent(before, key, TRUE).held = before.held \cup {key}
             /\ KeyEvent(before, key, TRUE).locks \subseteq before.locks \cup (LockKeys \cap {key})
             /\ key \notin LockKeys => KeyEvent(before, key, TRUE).locks = before.locks
             /\ key \in Modifiers => KeyEvent(before, key, TRUE).got = before.got
             /\ key \notin Modifiers =>
                  KeyEvent(before, key, TRUE).got = Append(before.got,
                    [sym |-> Symbol(key, On(before)), mods |-> before.held \ {Shift}])
  BY DEF KeyEvent
<1>2. CASE shift
  <2> DEFINE c1 == KeyEvent(client, Shift, TRUE)
             c2 == KeyEvent(c1, k, TRUE)
             c3 == KeyEvent(c2, k, FALSE)
             c4 == KeyEvent(c3, Shift, FALSE)
  <2>1. TapKey(client, k, shift) = c4
    BY <1>2 DEF TapKey
  <2>2. c1.held = client.held \cup {Shift} /\ c1.locks = client.locks /\ c1.got = client.got
    BY <1>0, <1>1
  <2> HIDE DEF c1
  <2>3. /\ c2.held = c1.held \cup {k}
        /\ c2.locks \subseteq c1.locks \cup (LockKeys \cap {k})
        /\ k \notin LockKeys => c2.locks = c1.locks
        /\ k \in Modifiers => c2.got = c1.got
        /\ k \notin Modifiers =>
             c2.got = Append(c1.got, [sym |-> Symbol(k, On(c1)), mods |-> c1.held \ {Shift}])
    BY <1>1
  <2> HIDE DEF c2
  <2>4. c3.held = c2.held \ {k} /\ c3.locks = c2.locks /\ c3.got = c2.got
    BY <1>1
  <2> HIDE DEF c3
  <2>5. c4.held = c3.held \ {Shift} /\ c4.locks = c3.locks /\ c4.got = c3.got
    BY <1>1
  <2> HIDE DEF c4
  <2>6. c1.held \ {Shift} = client.held \ {Shift} /\ On(c1) = On(client) \cup {Shift}
    BY <1>0, <2>2 DEF On
  <2>7. c4.held = client.held \ {k, Shift}
    BY <2>2, <2>3, <2>4, <2>5
  <2> QED
    BY <1>2, <2>1, <2>2, <2>3, <2>4, <2>5, <2>6, <2>7
<1>3. CASE ~shift
  <2> DEFINE c2 == KeyEvent(client, k, TRUE)
             c3 == KeyEvent(c2, k, FALSE)
  <2>1. TapKey(client, k, shift) = c3
    BY <1>3 DEF TapKey
  <2>2. /\ c2.held = client.held \cup {k}
        /\ c2.locks \subseteq client.locks \cup (LockKeys \cap {k})
        /\ k \notin LockKeys => c2.locks = client.locks
        /\ k \in Modifiers => c2.got = client.got
        /\ k \notin Modifiers =>
             c2.got = Append(client.got,
               [sym |-> Symbol(k, On(client)), mods |-> client.held \ {Shift}])
        /\ c3.held = c2.held \ {k} /\ c3.locks = c2.locks /\ c3.got = c2.got
    BY <1>1
  <2> HIDE DEF c2, c3
  <2>3. On(client) \cup {} = On(client)
    OBVIOUS
  <2> QED
    BY <1>3, <2>1, <2>2, <2>3
<1> QED
  BY <1>2, <1>3

Entry == [sym : STRING, mods : SUBSET KeyCodes]

\* With any modifiers and locks on, a key that has symbols yields one.
LEMMA SymbolType ==
  ASSUME NEW k \in KeyCodes, Layout[k] # <<>>, NEW on \in SUBSET (Modifiers \cup LockKeys)
  PROVE  Symbol(k, on) \in STRING
<1>1. Layout[k] \in Seq(STRING) /\ Level[k][on] \in DOMAIN Layout[k]
  BY KeysAssumption
<1>2. Level[k][on] \in 1..Len(Layout[k])
  BY <1>1, LenProperties
<1> QED
  BY <1>1, <1>2, ElementOfSeq DEF Symbol

\* A client's keys and locks and what it received keep their types.
LEMMA TapKeyTypes ==
  ASSUME NEW client, NEW k \in KeyCodes, NEW shift \in BOOLEAN, Layout[k] # <<>>,
         client.held \subseteq KeyCodes, client.locks \subseteq LockKeys, client.got \in Seq(Entry)
  PROVE  LET tapped == TapKey(client, k, shift)
         IN  /\ tapped.held \subseteq KeyCodes /\ tapped.locks \subseteq LockKeys
             /\ tapped.got \in Seq(Entry)
<1> DEFINE tapped == TapKey(client, k, shift)
           on == On(client) \cup (IF shift THEN {Shift} ELSE {})
           entry == [sym |-> Symbol(k, on), mods |-> client.held \ {Shift}]
<1>1. /\ tapped.held = client.held \ (IF shift THEN {k, Shift} ELSE {k})
      /\ tapped.locks \subseteq client.locks \cup (LockKeys \cap {k})
      /\ k \in Modifiers => tapped.got = client.got
      /\ k \notin Modifiers => tapped.got = Append(client.got, entry)
  BY TapKeyYields
<1>2. Symbol(k, on) \in STRING
  <2>1. on \in SUBSET (Modifiers \cup LockKeys)
    BY DEF On, Modifiers
  <2> QED
    BY <2>1, SymbolType
<1>3. entry \in Entry
  <2> HIDE DEF on
  <2> QED
    BY <1>2 DEF Entry
<1> HIDE DEF tapped, entry
<1>4. tapped.got \in Seq(Entry)
  BY <1>1, <1>3, AppendProperties
<1> QED
  BY <1>1, <1>4 DEF tapped

-----------------------------------------------------------------------------
(* Steps *)

\* Only modifiers and locks make a difference to what a tap should yield.
LEMMA SameYield ==
  ASSUME NEW p, mods' = mods, locks' = locks
  PROVE  Yield(p)' = Yield(p)
BY DEF Yield, Symbol, With, Named

\* What was received stands while no tap is added.
LEMMA SameGot ==
  ASSUME GotInv, press' = press, mods' = mods, repeat' = repeat, locks' = locks, got' = got,
         phase' = "taps" => phase = "taps" /\ next' = next,
         phase' \in {"release", "done"} => phase \in {"release", "done"}
  PROVE  GotInv'
<1> SUFFICES ASSUME NEW p \in press, p.key \notin Modifiers \cup LockKeys
             PROVE  /\ phase' = "taps" => got' = [i \in 1..(next' - 1) |-> Yield(p)']
                    /\ phase' \in {"release", "done"} => got' = [i \in 1..Taps' |-> Yield(p)']
  BY DEF GotInv
<1>1. Yield(p)' = Yield(p)
  BY SameYield
<1>2. Taps' = Taps
  BY DEF Taps
<1>3. CASE phase' = "taps"
  BY <1>1, <1>3 DEF GotInv
<1>4. CASE phase' \in {"release", "done"}
  BY <1>1, <1>2, <1>4 DEF GotInv
<1> QED
  BY <1>3, <1>4

LEMMA TypeTextInv ==
  ASSUME KeysInv, TypeText
  PROVE  KeysInv'
<1>1. /\ phase = "idle" /\ phase' = "text" /\ next' = 1 /\ text' \in Seq(Chars)
      /\ combo' = combo /\ repeat' = repeat /\ mods' = mods /\ press' = press
      /\ held' = held /\ locks' = locks /\ got' = got
      /\ press = {} /\ got = <<>> /\ held = {}
  BY KeysAssumption DEF TypeText, KeysInv, CallInv, HeldInv, KeysReleased
<1>2. KeysTypeOK'
  <2>1. Rounds' = Len(text') /\ Len(text') \in Nat
    BY <1>1, LenProperties DEF Rounds
  <2>2. next' \in 1..(Rounds' + 1)
    BY <1>1, <2>1
  <2> QED
    BY <1>1, <2>2 DEF KeysInv, KeysTypeOK
<1>3. CallInv' /\ HeldInv' /\ GotInv'
  BY <1>1 DEF CallInv, HeldInv, GotInv, KeysReleased
<1>4. TextArrives'
  <2> DEFINE at == [i \in DOMAIN got' |-> 0]
  <2>1. DOMAIN got' = {} /\ next' - 1 = 0
    BY <1>1
  <2>2. at \in [DOMAIN got' -> 1..(next' - 1)]
    BY <2>1
  <2>3. {at[i] : i \in DOMAIN got'} = {j \in 1..(next' - 1) : ForChar(text'[j]) # {}}
    BY <2>1
  <2> HIDE DEF at
  <2>4. Arrived(next - 1)'
    BY <2>1, <2>2, <2>3 DEF Arrived
  <2> QED
    BY <1>1, <2>4 DEF TextArrives
<1> QED
  BY <1>2, <1>3, <1>4 DEF KeysInv

\* What arrives of the character c while the locks ls are on.
Arrives(c, entry, ls) ==
  \E p \in ForChar(c) :
    /\ entry = [sym |-> Symbol(p.key, With({}, p) \cup ls), mods |-> {}]
    /\ ls = {} => KeyChar[entry.sym] = Typed(c)

\* The client received c, no more, and the keyboard is as before.
Received(c, before, after) ==
  /\ after.held = {} /\ after.locks = before.locks /\ after.got \in Seq(Entry)
  /\ \E entry \in Entry : after.got = Append(before.got, entry) /\ Arrives(c, entry, before.locks)

\* A character that is tapped, with no key down, arrives as it was meant.
LEMMA CharArrives ==
  ASSUME NEW c \in Chars, NEW p \in ForChar(c), NEW client,
         client.held = {}, client.locks \subseteq LockKeys, client.got \in Seq(Entry)
  PROVE  Received(c, client, TapKey(client, p.key, p.shift))
<1> DEFINE l == IF p.shift THEN 2 ELSE 1
<1>1. /\ p \in Press /\ p.key \notin Modifiers \cup LockKeys
      /\ l <= Len(Layout[p.key]) /\ KeyChar[Layout[p.key][l]] = Typed(c)
      /\ Level[p.key][With({}, p)] = l
  BY ForCharYields
<1> HIDE DEF l
<1>2. PICK k \in KeyCodes, shift \in BOOLEAN : k = p.key /\ shift = p.shift
  BY <1>1 DEF Press
<1>3. Layout[k] # <<>>
  <2>1. l \in {1, 2} /\ Layout[k] \in Seq(STRING)
    BY KeysAssumption DEF l
  <2>2. PICK n \in Nat : n = Len(Layout[k])
    BY <2>1, LenProperties
  <2>3. n # 0
    BY <1>1, <1>2, <2>1, <2>2
  <2> QED
    BY <2>1, <2>2, <2>3, EmptySeq
<1> DEFINE on == On(client) \cup (IF shift THEN {Shift} ELSE {})
           entry == [sym |-> Symbol(k, on), mods |-> client.held \ {Shift}]
<1>4. on = With({}, p) \cup client.locks
  BY <1>2 DEF On, With
<1>5. entry = [sym |-> Symbol(p.key, With({}, p) \cup client.locks), mods |-> {}]
  BY <1>2, <1>4
<1>6. client.locks = {} => KeyChar[entry.sym] = Typed(c)
  <2> SUFFICES ASSUME client.locks = {}
               PROVE  KeyChar[entry.sym] = Typed(c)
    OBVIOUS
  <2>1. entry.sym = Symbol(p.key, With({}, p))
    BY <1>5
  <2>2. Symbol(p.key, With({}, p)) = Layout[p.key][l]
    BY <1>1 DEF Symbol
  <2> QED
    BY <1>1, <2>1, <2>2
<1>7. entry \in Entry
  <2>1. on \in SUBSET (Modifiers \cup LockKeys)
    BY DEF On, Modifiers
  <2>2. Symbol(k, on) \in STRING
    BY <1>3, <2>1, SymbolType
  <2>3. client.held \ {Shift} = {}
    OBVIOUS
  <2> HIDE DEF on
  <2> QED
    BY <2>2, <2>3 DEF Entry
<1>8. /\ TapKey(client, k, shift).held = client.held \ (IF shift THEN {k, Shift} ELSE {k})
      /\ TapKey(client, k, shift).locks = client.locks
      /\ TapKey(client, k, shift).got = Append(client.got, entry)
  BY <1>1, <1>2, TapKeyYields
<1>9. TapKey(client, k, shift).got \in Seq(Entry)
  BY <1>3, TapKeyTypes
<1> HIDE DEF entry
<1>10. Arrives(c, entry, client.locks)
  BY <1>5, <1>6 DEF Arrives
<1> QED
  BY <1>2, <1>7, <1>8, <1>9, <1>10 DEF Received

\* Where in the first n characters of t the entries of what was received, r, come from.
Places(t, r, ls, n) ==
  {at \in [DOMAIN r -> 1..n] :
     /\ \A i, j \in DOMAIN r : i < j => at[i] < at[j]
     /\ {at[i] : i \in DOMAIN r} = {j \in 1..n : ForChar(t[j]) # {}}
     /\ \A i \in DOMAIN r : Arrives(t[at[i]], r[i], ls)}

LEMMA ArrivedPlaces ==
  ASSUME NEW n \in Nat
  PROVE  /\ Arrived(n) <=> \E at : at \in Places(text, got, locks, n)
         /\ Arrived(n)' <=> \E at : at \in Places(text', got', locks', n)
<1>1. Arrived(n) <=> \E at : at \in Places(text, got, locks, n)
  BY DEF Arrived, Places, Arrives
<1>2. Arrived(n)' <=> \E at : at \in Places(text', got', locks', n)
  BY DEF Arrived, Places, Arrives
<1> QED
  BY <1>1, <1>2

LEMMA SameArrived ==
  ASSUME NEW n \in Nat, NEW m, m = n, Arrived(n), got' = got, locks' = locks, text' = text
  PROVE  Arrived(m)'
<1>1. \E at : at \in Places(text', got', locks', n)
  BY ArrivedPlaces
<1> QED
  BY <1>1, ArrivedPlaces

\* What has arrived of a text is one character more.
LEMMA ArrivesOneMore ==
  ASSUME NEW n \in Nat, n + 1 <= Len(text), text \in Seq(Chars), got \in Seq(Entry), held = {},
         locks \subseteq LockKeys, Arrived(n), text' = text, Types(text[n + 1])
  PROVE  /\ Arrived(n + 1)'
         /\ held' = {} /\ locks' = locks
         /\ got' \in Seq(Entry)
<1> DEFINE g == Len(got)
           c == text[n + 1]
<1>1. /\ g \in Nat /\ DOMAIN got = 1..g /\ c \in Chars
      /\ 1..(n + 1) = 1..n \cup {n + 1} /\ n + 1 \notin 1..n
      /\ 1..(g + 1) = 1..g \cup {g + 1} /\ g + 1 \notin 1..g
  <2>1. g \in Nat /\ DOMAIN got = 1..g
    BY LenProperties
  <2>2. n + 1 \in 1..Len(text)
    BY LenProperties
  <2>3. c \in Chars
    BY <2>2, ElementOfSeq
  <2> QED
    BY <2>1, <2>3
<1>2. PICK at \in [1..g -> 1..n] :
        /\ \A i, j \in 1..g : i < j => at[i] < at[j]
        /\ {at[i] : i \in 1..g} = {j \in 1..n : ForChar(text[j]) # {}}
        /\ \A i \in 1..g : Arrives(text[at[i]], got[i], locks)
  BY <1>1 DEF Arrived, Arrives
<1> HIDE DEF g, c
<1>3. CASE ForChar(c) = {}
  <2>1. held' = {} /\ locks' = locks /\ got' = got
    BY <1>3 DEF c, Types
  <2>2. at \in [1..g -> 1..(n + 1)]
    BY <1>1
  <2>3. {j \in 1..(n + 1) : ForChar(text'[j]) # {}} = {j \in 1..n : ForChar(text[j]) # {}}
    BY <1>1, <1>3 DEF c
  <2>4. Arrived(n + 1)'
    <3>1. DOMAIN got' = 1..g /\ \A i \in 1..g : Arrives(text'[at[i]], got'[i], locks')
      BY <1>1, <1>2, <2>1
    <3>2. {at[i] : i \in 1..g} = {j \in 1..(n + 1) : ForChar(text'[j]) # {}}
      BY <1>2, <2>3
    <3>3. at \in Places(text', got', locks', n + 1)
      BY <1>2, <2>2, <3>1, <3>2 DEF Places
    <3> QED
      BY <3>3, ArrivedPlaces
  <2> QED
    BY <2>1, <2>4
<1>4. CASE ForChar(c) # {}
  <2>1. PICK p \in ForChar(c) : Becomes(TapKey(Client, p.key, p.shift))
    BY <1>4 DEF c, Types
  <2>2. /\ Client.held = {} /\ Client.got = got /\ Client.got \in Seq(Entry)
        /\ Client.locks = locks /\ Client.locks \subseteq LockKeys
    BY DEF Client
  <2>tapped. Received(c, Client, TapKey(Client, p.key, p.shift))
    <3>0. PICK client : client = Client
      OBVIOUS
    <3>1. PICK char : char = c
      OBVIOUS
    <3>2. /\ char \in Chars /\ p \in ForChar(char) /\ client.held = {} /\ client.got \in Seq(Entry)
          /\ client.locks \subseteq LockKeys
      BY <1>1, <2>2, <3>0, <3>1
    <3>3. Received(char, client, TapKey(client, p.key, p.shift))
      BY <3>2, CharArrives
    <3> QED
      BY <3>0, <3>1, <3>3, Zenon
  <2>3. PICK entry \in Entry : /\ TapKey(Client, p.key, p.shift).got = Append(got, entry)
                              /\ Arrives(c, entry, locks)
    BY <2>2, <2>tapped DEF Received
  <2>7. held' = {} /\ locks' = locks /\ got' = Append(got, entry) /\ got' \in Seq(Entry)
    BY <2>1, <2>2, <2>3, <2>tapped DEF Becomes, Received
  <2>9. /\ DOMAIN got' = 1..(g + 1)
        /\ \A i \in 1..g : got'[i] = got[i]
        /\ got'[g + 1] = entry
    <3>2. /\ Len(got') = g + 1 /\ got'[g + 1] = entry
          /\ \A i \in 1..g : got'[i] = got[i]
      BY <2>7, AppendProperties DEF g
    <3> QED
      BY <2>7, <3>2, LenProperties
  <2> DEFINE at1 == [i \in 1..(g + 1) |-> IF i = g + 1 THEN n + 1 ELSE at[i]]
  <2>10. /\ at1 \in [1..(g + 1) -> 1..(n + 1)]
         /\ at1[g + 1] = n + 1
         /\ \A i \in 1..g : at1[i] = at[i] /\ at1[i] \in 1..n
    BY <1>1
  <2> HIDE DEF at1
  <2>11. \A i, j \in 1..(g + 1) : i < j => at1[i] < at1[j]
    <3> SUFFICES ASSUME NEW i \in 1..(g + 1), NEW j \in 1..(g + 1), i < j
                 PROVE  at1[i] < at1[j]
      OBVIOUS
    <3>1. i \in 1..g /\ at1[i] = at[i] /\ at1[i] \in 1..n
      BY <1>1, <2>10
    <3>2. CASE j = g + 1
      BY <2>10, <3>1, <3>2
    <3>3. CASE j # g + 1
      <4>1. j \in 1..g /\ at1[j] = at[j]
        BY <1>1, <2>10, <3>3
      <4> QED
        BY <1>2, <3>1, <4>1
    <3> QED
      BY <3>2, <3>3
  <2>12. {at1[i] : i \in 1..(g + 1)} = {j \in 1..(n + 1) : ForChar(text'[j]) # {}}
    <3>1. {at1[i] : i \in 1..(g + 1)} = {at[i] : i \in 1..g} \cup {n + 1}
      BY <1>1, <2>10
    <3>2. {j \in 1..(n + 1) : ForChar(text'[j]) # {}} = {j \in 1..n : ForChar(text[j]) # {}} \cup {n + 1}
      BY <1>1, <1>4 DEF c
    <3> QED
      BY <1>2, <3>1, <3>2
  <2>13. \A i \in 1..(g + 1) : Arrives(text'[at1[i]], got'[i], locks')
    <3>1. Arrives(text'[at1[g + 1]], got'[g + 1], locks')
      BY <2>3, <2>7, <2>9, <2>10 DEF c
    <3>2. \A i \in 1..g : Arrives(text'[at1[i]], got'[i], locks')
      BY <1>2, <2>7, <2>9, <2>10
    <3> QED
      BY <1>1, <3>1, <3>2
  <2>14. Arrived(n + 1)'
    <3>1. at1 \in Places(text', got', locks', n + 1)
      BY <2>9, <2>10, <2>11, <2>12, <2>13 DEF Places
    <3> QED
      BY <3>1, ArrivedPlaces
  <2> QED
    BY <2>7, <2>14
<1> QED
  BY <1>3, <1>4

LEMMA TypeCharInv ==
  ASSUME KeysInv, TypeChar
  PROVE  KeysInv'
<1>1. /\ phase = "text" /\ phase' = "text" /\ next' = next + 1 /\ next \in Nat \ {0}
      /\ next <= Len(text) /\ text' = text /\ text \in Seq(Chars)
      /\ combo' = combo /\ repeat' = repeat /\ mods' = mods /\ press' = press
      /\ press = {} /\ held = {} /\ locks \subseteq LockKeys
      /\ got \in Seq(Entry)
      /\ Arrived(next - 1)
  BY DEF TypeChar, KeysInv, KeysTypeOK, CallInv, HeldInv, TextArrives, Entry
<1>2. PICK n \in Nat : n = next - 1
  BY <1>1
<1>3. n + 1 = next
  BY <1>1, <1>2
<1>4. Arrived(n + 1)' /\ held' = {} /\ locks' = locks /\ got' \in Seq(Entry)
  <2>1. Types(text[n + 1])
    BY <1>3 DEF TypeChar
  <2>2. Arrived(n) /\ n + 1 <= Len(text)
    BY <1>1, <1>2, <1>3
  <2> QED
    BY <1>1, <2>1, <2>2, ArrivesOneMore
<1>5. KeysTypeOK'
  <2>1. Rounds' = Len(text) /\ Len(text) \in Nat
    BY <1>1, LenProperties DEF Rounds
  <2>2. next' \in 1..(Rounds' + 1)
    BY <1>1, <2>1
  <2> QED
    BY <1>1, <1>4, <2>2 DEF KeysInv, KeysTypeOK, Entry
<1>6. CallInv' /\ HeldInv' /\ GotInv'
  BY <1>1, <1>4 DEF CallInv, HeldInv, GotInv, KeysReleased
<1>7. TextArrives'
  <2>1. next' - 1 = n + 1
    BY <1>1, <1>3
  <2>2. Arrived(next - 1)'
    BY <1>4, <2>1 DEF Arrived
  <2> QED
    BY <1>1, <2>2 DEF TextArrives
<1> QED
  BY <1>5, <1>6, <1>7 DEF KeysInv

\* What a combination that was parsed says of shift, with the names of perform_action.
LEMMA CallParts ==
  ASSUME KeysInv, NEW p \in press
  PROVE  /\ press = {p} /\ p \in Press /\ Layout[p.key] # <<>>
         /\ Means(Trim(Last(combo)), Layout[p.key][IF p.shift THEN 2 ELSE 1])
         /\ mods \in Seq(Modifiers) /\ Named \subseteq Modifiers
         /\ Shift \in Named => SaysShift(combo)
         /\ SaysShift(combo) /\ p.key \notin Modifiers => Shift \in Named
<1>1. PICK c \in ParseCombo(combo) : combo \in Combos /\ mods = c.mods /\ press = {c.press}
  BY DEF KeysInv, CallInv
<1>2. p = c.press
  BY <1>1
<1>3. PICK parts \in Combos : parts = combo
  BY <1>1
<1>4. /\ mods \in Seq(Modifiers)
      /\ p \in Press /\ Layout[p.key] # <<>>
      /\ Means(Trim(Last(combo)), Layout[p.key][IF p.shift THEN 2 ELSE 1])
      /\ (\E i \in DOMAIN mods : mods[i] = Shift) => SaysShift(combo)
      /\ SaysShift(combo) /\ p.key \notin Modifiers => \E i \in DOMAIN mods : mods[i] = Shift
  BY <1>1, <1>2, <1>3, ParseComboParts
<1>5. Named \subseteq Modifiers
  BY <1>4, ElementOfSeq, LenProperties DEF Named
<1>6. Shift \in Named <=> \E i \in DOMAIN mods : mods[i] = Shift
  BY DEF Named
<1> QED
  BY <1>1, <1>2, <1>4, <1>5, <1>6

LEMMA PressKeyInv ==
  ASSUME KeysInv, PressKey
  PROVE  KeysInv'
<1>1. /\ phase = "idle" /\ phase' = "mods" /\ next' = 1
      /\ text' = text /\ held' = held /\ locks' = locks /\ got' = got
      /\ combo' \in Combos /\ repeat' \in Repeats
      /\ text = <<>> /\ got = <<>> /\ held = {}
  BY DEF PressKey, KeysInv, CallInv, HeldInv, KeysReleased
<1>2. PICK c \in ParseCombo(combo') : mods' = c.mods /\ press' = {c.press}
  BY DEF PressKey
<1>3. mods' \in Seq(Modifiers) /\ press' \subseteq Press /\ press' # {}
  <2>1. PICK parts \in Combos : parts = combo'
    BY <1>1
  <2>2. c \in ParseCombo(parts)
    BY <2>1
  <2>3. c.mods \in Seq(Modifiers) /\ c.press \in Press
    BY <2>2, ParseComboParts
  <2> QED
    BY <1>2, <2>3
<1>4. KeysTypeOK'
  <2>1. Rounds' = Len(mods') /\ Len(mods') \in Nat
    BY <1>1, <1>3, LenProperties DEF Rounds
  <2>2. next' \in 1..(Rounds' + 1)
    BY <1>1, <2>1
  <2>3. combo' \in Seq(STRING) /\ repeat' \in Nat
    BY <1>1, KeysAssumption
  <2> QED
    BY <1>1, <1>3, <2>2, <2>3 DEF KeysInv, KeysTypeOK
<1>5. CallInv'
  <2>1. \E c1 \in ParseCombo(combo') : combo' \in Combos /\ mods' = c1.mods /\ press' = {c1.press}
    BY <1>1, <1>2
  <2> QED
    BY <1>1, <1>3, <2>1 DEF CallInv
<1>6. HeldInv'
  <2>1. {mods'[i] : i \in 1..(next' - 1)} = {}
    BY <1>1
  <2> QED
    BY <1>1, <2>1 DEF HeldInv, KeysReleased
<1>7. GotInv' /\ TextArrives'
  BY <1>1 DEF GotInv, TextArrives
<1> QED
  BY <1>4, <1>5, <1>6, <1>7 DEF KeysInv

LEMMA ModDownInv ==
  ASSUME KeysInv, ModDown
  PROVE  KeysInv'
<1>1. /\ phase = "mods" /\ phase' = "mods" /\ next' = next + 1 /\ next \in Nat \ {0}
      /\ next <= Len(mods) /\ mods \in Seq(Modifiers)
      /\ text' = text /\ combo' = combo /\ repeat' = repeat /\ mods' = mods /\ press' = press
      /\ held = {mods[i] : i \in 1..(next - 1)} /\ got = <<>>
      /\ press # {}
  <2>1. next \in Nat \ {0} /\ mods \in Seq(Modifiers)
    BY DEF KeysInv, KeysTypeOK
  <2>2. phase = "mods"
    BY DEF ModDown
  <2>3. held = {mods[i] : i \in 1..(next - 1)} /\ got = <<>> /\ press # {}
    BY <2>2 DEF KeysInv, HeldInv, CallInv
  <2> QED
    BY <2>1, <2>2, <2>3 DEF ModDown
<1>2. mods[next] \in Modifiers /\ Len(mods) \in Nat
  BY <1>1, ElementOfSeq, LenProperties
<1>3. held' = held \cup {mods[next]} /\ locks' = locks /\ got' = got
  BY <1>2, KeysAssumption DEF ModDown, Becomes, KeyEvent, Client
<1>4. KeysTypeOK'
  <2>1. Rounds' = Len(mods)
    BY <1>1 DEF Rounds
  <2>2. next' \in 1..(Rounds' + 1)
    BY <1>1, <1>2, <2>1
  <2>3. held' \subseteq KeyCodes
    BY <1>2, <1>3, KeysAssumption DEF KeysInv, KeysTypeOK
  <2> QED
    BY <1>1, <1>3, <2>2, <2>3 DEF KeysInv, KeysTypeOK
<1>5. CallInv'
  BY <1>1, <1>3 DEF KeysInv, CallInv
<1>6. HeldInv'
  <2>1. 1..(next' - 1) = 1..(next - 1) \cup {next}
    BY <1>1
  <2>2. held' = {mods'[i] : i \in 1..(next' - 1)}
    BY <1>1, <1>3, <2>1
  <2> QED
    BY <1>1, <2>2 DEF HeldInv, KeysReleased
<1>7. GotInv' /\ TextArrives'
  BY <1>1 DEF GotInv, TextArrives
<1> QED
  BY <1>4, <1>5, <1>6, <1>7 DEF KeysInv

\* A tap leaves the modifiers down that were, and yields what it should: shift is only
\* tapped where it is none of the modifiers.
LEMMA TapYields ==
  ASSUME KeysInv, phase = "taps", NEW p \in press,
         Becomes(TapKey(Client, p.key, p.shift /\ ~SaysShift(combo)))
  PROVE  /\ held' \subseteq Named /\ held' \subseteq KeyCodes
         /\ locks' \subseteq LockKeys /\ got' \in Seq(Entry)
         /\ p.key \notin Modifiers => held' = Named
         /\ p.key \notin Modifiers \cup LockKeys => locks' = locks /\ got' = Append(got, Yield(p))
<1>0. PICK client : client = Client
  OBVIOUS
<1>1. PICK k \in KeyCodes, shift \in BOOLEAN :
        k = p.key /\ shift = (p.shift /\ ~SaysShift(combo))
  <2>1. p \in Press
    BY CallParts
  <2>2. p.key \in KeyCodes /\ (p.shift /\ ~SaysShift(combo)) \in BOOLEAN
    BY <2>1 DEF Press
  <2> QED
    BY <2>2
<1>2. client.held = held /\ client.locks = locks /\ client.got = got
  BY <1>0 DEF Client
<1>3. /\ held' = TapKey(client, k, shift).held
      /\ locks' = TapKey(client, k, shift).locks
      /\ got' = TapKey(client, k, shift).got
  BY <1>0, <1>1 DEF Becomes
<1>4. /\ held \subseteq Named /\ held \subseteq KeyCodes /\ locks \subseteq LockKeys
      /\ got \in Seq(Entry)
      /\ p.key \notin Modifiers => held = Named
  BY DEF KeysInv, HeldInv, KeysTypeOK, Entry
<1>5. Layout[k] # <<>>
  BY <1>1, CallParts
<1>6. /\ TapKey(client, k, shift).held \subseteq KeyCodes
      /\ TapKey(client, k, shift).locks \subseteq LockKeys
      /\ TapKey(client, k, shift).got \in Seq(Entry)
  BY <1>2, <1>4, <1>5, TapKeyTypes
<1> DEFINE on == On(client) \cup (IF shift THEN {Shift} ELSE {})
<1>7. /\ TapKey(client, k, shift).held = client.held \ (IF shift THEN {k, Shift} ELSE {k})
      /\ k \notin LockKeys => TapKey(client, k, shift).locks = client.locks
      /\ k \notin Modifiers =>
           TapKey(client, k, shift).got =
             Append(client.got, [sym |-> Symbol(k, on), mods |-> client.held \ {Shift}])
  BY TapKeyYields
<1>8. ASSUME p.key \notin Modifiers
      PROVE  held' = Named /\ got' = Append(got, Yield(p))
  <2>1. /\ held = Named /\ Named \subseteq Modifiers /\ k \notin Modifiers
        /\ shift => Shift \notin Named
        /\ (shift \/ Shift \in held) <=> (p.shift \/ Shift \in Named)
    BY <1>1, <1>4, <1>8, CallParts
  <2>2. held' = Named
    BY <1>2, <1>3, <1>7, <2>1
  <2>3. on = With(Named, p) \cup locks
    BY <1>2, <2>1 DEF On, With
  <2> HIDE DEF on
  <2>4. [sym |-> Symbol(k, on), mods |-> client.held \ {Shift}] = Yield(p)
    BY <1>1, <1>2, <2>1, <2>3 DEF Yield
  <2> QED
    BY <1>2, <1>3, <1>7, <2>1, <2>2, <2>4
<1>9. held' \subseteq Named
  BY <1>2, <1>3, <1>4, <1>7
<1>10. p.key \notin LockKeys => locks' = locks
  BY <1>1, <1>2, <1>3, <1>7
<1> QED
  BY <1>3, <1>6, <1>8, <1>9, <1>10

LEMMA TapInv ==
  ASSUME KeysInv, Tap
  PROVE  KeysInv'
<1>1. /\ phase = "taps" /\ phase' = "taps" /\ next' = next + 1 /\ next \in Nat \ {0}
      /\ next <= Taps /\ Taps \in Nat
      /\ text' = text /\ combo' = combo /\ repeat' = repeat /\ mods' = mods /\ press' = press
      /\ press # {}
  BY DEF Tap, Taps, KeysInv, KeysTypeOK, CallInv
<1>2. PICK p \in press : Becomes(TapKey(Client, p.key, p.shift /\ ~SaysShift(combo)))
  BY DEF Tap
<1>3. /\ held' \subseteq Named /\ held' \subseteq KeyCodes
      /\ locks' \subseteq LockKeys /\ got' \in Seq(Entry)
      /\ p.key \notin Modifiers => held' = Named
      /\ p.key \notin Modifiers \cup LockKeys => locks' = locks /\ got' = Append(got, Yield(p))
  BY <1>1, <1>2, TapYields
<1>4. press = {p}
  BY CallParts
<1>5. KeysTypeOK'
  <2>1. Rounds' = Taps
    BY <1>1 DEF Rounds, Taps
  <2>2. next' \in 1..(Rounds' + 1)
    BY <1>1, <2>1
  <2> QED
    BY <1>1, <1>3, <2>2 DEF KeysInv, KeysTypeOK, Entry
<1>6. CallInv'
  BY <1>1 DEF KeysInv, CallInv
<1>7. HeldInv'
  BY <1>1, <1>3, <1>4 DEF HeldInv, KeysReleased, Named
<1>8. GotInv'
  <2> SUFFICES ASSUME p.key \notin Modifiers \cup LockKeys
               PROVE  got' = [i \in 1..(next' - 1) |-> Yield(p)]
    <3>1. p.key \notin Modifiers \cup LockKeys => Yield(p)' = Yield(p)
      BY <1>1, <1>3, SameYield
    <3> QED
      BY <1>1, <1>4, <3>1 DEF GotInv
  <2> DEFINE y == Yield(p)
  <2>1. got = [i \in 1..(next - 1) |-> y] /\ got' = Append(got, y)
    BY <1>1, <1>3 DEF KeysInv, GotInv
  <2> HIDE DEF y
  <2>2. PICK n \in Nat : n = next - 1 /\ n + 1 = next' - 1
    BY <1>1
  <2>3. Append([i \in 1..n |-> y], y) = [i \in 1..(n + 1) |-> y]
    OBVIOUS
  <2> QED
    BY <2>1, <2>2, <2>3 DEF y
<1>9. TextArrives'
  BY <1>1 DEF TextArrives
<1> QED
  BY <1>5, <1>6, <1>7, <1>8, <1>9 DEF KeysInv

LEMMA ModUpInv ==
  ASSUME KeysInv, ModUp
  PROVE  KeysInv'
<1> DEFINE n == Len(mods) + 1 - next
<1>1. /\ phase = "release" /\ phase' = "release" /\ next' = next + 1 /\ next \in Nat \ {0}
      /\ next <= Len(mods) /\ mods \in Seq(Modifiers)
      /\ text' = text /\ combo' = combo /\ repeat' = repeat /\ mods' = mods /\ press' = press
      /\ held \subseteq {mods[i] : i \in 1..n}
      /\ press # {}
  BY DEF ModUp, KeysInv, KeysTypeOK, HeldInv, CallInv
<1>2. Len(mods) \in Nat /\ n \in 1..Len(mods)
  BY <1>1, LenProperties
<1>3. held' = held \ {mods[n]} /\ locks' = locks /\ got' = got
  BY DEF ModUp, Becomes, KeyEvent, Client
<1>4. KeysTypeOK'
  <2>1. Rounds' = Len(mods)
    BY <1>1 DEF Rounds
  <2>2. next' \in 1..(Rounds' + 1)
    BY <1>1, <1>2, <2>1
  <2>3. held' \subseteq KeyCodes
    BY <1>3 DEF KeysInv, KeysTypeOK
  <2> QED
    BY <1>1, <1>3, <2>2, <2>3 DEF KeysInv, KeysTypeOK
<1>5. CallInv'
  BY <1>1, <1>3 DEF KeysInv, CallInv
<1>6. HeldInv'
  <2>1. Len(mods') + 1 - next' = n - 1
    BY <1>1, <1>2
  <2>2. 1..n = 1..(n - 1) \cup {n}
    BY <1>2
  <2>3. held' \subseteq {mods'[i] : i \in 1..(Len(mods') + 1 - next')}
    <3> HIDE DEF n
    <3> QED
      BY <1>1, <1>3, <2>1, <2>2
  <2> QED
    BY <1>1, <2>3 DEF HeldInv, KeysReleased
<1>7. GotInv' /\ TextArrives'
  BY <1>1, <1>3, SameGot DEF KeysInv, TextArrives
<1> QED
  BY <1>4, <1>5, <1>6, <1>7 DEF KeysInv

LEMMA LoopEndsInv ==
  ASSUME KeysInv, LoopEnds
  PROVE  KeysInv'
<1>1. /\ phase \in {"text", "mods", "taps", "release"} /\ next' = 1
      /\ next > Rounds /\ next \in 1..(Rounds + 1) /\ phase' = After[phase]
      /\ text' = text /\ combo' = combo /\ repeat' = repeat /\ mods' = mods /\ press' = press
      /\ held' = held /\ locks' = locks /\ got' = got
  BY DEF LoopEnds, After, KeysInv, KeysTypeOK
<1>2. Len(text) \in Nat /\ Len(mods) \in Nat /\ Taps \in Nat
  BY LenProperties DEF KeysInv, KeysTypeOK, Taps
<1>3. Rounds \in Nat /\ Rounds' \in Nat /\ next = Rounds + 1
  <2>1. Rounds \in Nat /\ Rounds' \in Nat
    BY <1>1, <1>2 DEF Rounds, Taps
  <2> QED
    BY <1>1, <2>1
<1>4. phase' \in {"taps", "release", "done"}
  <2>1. /\ After["text"] = "done" /\ After["mods"] = "taps"
        /\ After["taps"] = "release" /\ After["release"] = "done"
    BY DEF After
  <2>2. CASE phase \in {"text", "release"}
    BY <1>1, <2>1, <2>2
  <2>3. CASE phase \in {"mods", "taps"}
    BY <1>1, <2>1, <2>3
  <2> QED
    BY <1>1, <2>2, <2>3
<1>5. KeysTypeOK'
  <2>1. PICK r \in Nat : r = Rounds'
    BY <1>3
  <2>2. 1 \in 1..(r + 1)
    OBVIOUS
  <2>3. next' \in 1..(Rounds' + 1)
    BY <1>1, <2>1, <2>2
  <2> QED
    BY <1>1, <1>4, <2>3 DEF KeysInv, KeysTypeOK
<1>6. CASE phase = "text"
  <2>1. phase' = "done" /\ Rounds = Len(text)
    BY <1>1, <1>6 DEF After, Rounds
  <2>2. press = {} /\ held = {}
    BY <1>6 DEF KeysInv, CallInv, HeldInv
  <2>3. CallInv' /\ HeldInv' /\ GotInv'
    BY <1>1, <2>1, <2>2 DEF KeysInv, CallInv, HeldInv, GotInv, KeysReleased
  <2>4. TextArrives'
    <3>1. PICK n \in Nat : n = Len(text) /\ n = next - 1
      BY <1>2, <1>3, <2>1
    <3>2. Arrived(n)
      BY <1>6, <3>1 DEF KeysInv, TextArrives
    <3>3. Arrived(Len(text))'
      BY <1>1, <3>1, <3>2, SameArrived
    <3> QED
      BY <2>1, <3>3 DEF TextArrives
  <2> QED
    BY <1>5, <2>3, <2>4 DEF KeysInv
<1>7. CASE phase = "mods"
  <2>1. phase' = "taps" /\ next - 1 = Len(mods)
    BY <1>1, <1>2, <1>3, <1>7 DEF After, Rounds
  <2>2. held = Named /\ got = <<>> /\ press # {}
    <3>1. held = {mods[i] : i \in 1..(next - 1)} /\ got = <<>> /\ press # {}
      BY <1>7 DEF KeysInv, HeldInv, CallInv
    <3>2. DOMAIN mods = 1..Len(mods)
      BY LenProperties DEF KeysInv, KeysTypeOK
    <3> QED
      BY <2>1, <3>1, <3>2 DEF Named
  <2>3. CallInv' /\ HeldInv' /\ TextArrives'
    BY <1>1, <2>1, <2>2 DEF KeysInv, CallInv, HeldInv, TextArrives, KeysReleased, Named
  <2>4. GotInv'
    <3>1. \A y : <<>> = [i \in 1..(next' - 1) |-> y]
      BY <1>1
    <3> QED
      BY <1>1, <2>1, <2>2, <3>1 DEF GotInv
  <2> QED
    BY <1>5, <2>3, <2>4 DEF KeysInv
<1>8. CASE phase = "taps"
  <2>1. phase' = "release" /\ next - 1 = Taps
    BY <1>1, <1>2, <1>3, <1>8 DEF After, Rounds
  <2>2. held' \subseteq {mods'[i] : i \in 1..(Len(mods') + 1 - next')}
    <3>1. held \subseteq Named
      BY <1>8 DEF KeysInv, HeldInv
    <3>2. DOMAIN mods = 1..Len(mods) /\ Len(mods') + 1 - next' = Len(mods)
      BY <1>1, <1>2, LenProperties DEF KeysInv, KeysTypeOK
    <3> QED
      BY <1>1, <3>1, <3>2 DEF Named
  <2>3. CallInv' /\ HeldInv' /\ TextArrives'
    BY <1>1, <1>8, <2>1, <2>2 DEF KeysInv, CallInv, HeldInv, TextArrives, KeysReleased
  <2>4. GotInv'
    <3> SUFFICES ASSUME NEW p \in press, p.key \notin Modifiers \cup LockKeys
                 PROVE  got' = [i \in 1..Taps' |-> Yield(p)']
      BY <1>1, <2>1 DEF GotInv
    <3>1. got = [i \in 1..(next - 1) |-> Yield(p)]
      BY <1>8 DEF KeysInv, GotInv
    <3>2. Yield(p)' = Yield(p) /\ Taps' = Taps
      BY <1>1, SameYield DEF Taps
    <3> QED
      BY <1>1, <2>1, <3>1, <3>2
  <2> QED
    BY <1>5, <2>3, <2>4 DEF KeysInv
<1>9. CASE phase = "release"
  <2>1. phase' = "done" /\ next = Len(mods) + 1 /\ press # {}
    BY <1>1, <1>3, <1>9 DEF After, Rounds, KeysInv, CallInv
  <2>2. held = {}
    <3>1. held \subseteq {mods[i] : i \in 1..(Len(mods) + 1 - next)}
      BY <1>9 DEF KeysInv, HeldInv
    <3>2. 1..(Len(mods) + 1 - next) = {}
      BY <1>2, <2>1
    <3> QED
      BY <3>1, <3>2
  <2>3. CallInv' /\ HeldInv' /\ TextArrives'
    BY <1>1, <2>1, <2>2 DEF KeysInv, CallInv, HeldInv, TextArrives, KeysReleased
  <2>4. GotInv'
    BY <1>1, <1>9, <2>1, SameGot DEF KeysInv
  <2> QED
    BY <1>5, <2>3, <2>4 DEF KeysInv
<1> QED
  BY <1>1, <1>6, <1>7, <1>8, <1>9

LEMMA KeysReplyInv ==
  ASSUME KeysInv, Reply
  PROVE  KeysInv'
<1>1. /\ phase' = "idle" /\ next' = next /\ next \in Nat \ {0}
      /\ text' = <<>> /\ combo' = <<>> /\ repeat' = 0 /\ mods' = <<>> /\ press' = {} /\ got' = <<>>
      /\ held' = {} /\ locks' = locks /\ locks \subseteq LockKeys
  BY DEF Reply, KeysInv, KeysTypeOK, HeldInv, KeysReleased
<1>2. next = 1
  BY DEF Reply, KeysInv, CallInv
<1>3. KeysTypeOK'
  <2>1. Rounds' = 0
    BY <1>1 DEF Rounds
  <2>2. next' \in 1..(Rounds' + 1)
    BY <1>1, <1>2, <2>1
  <2> QED
    BY <1>1, <2>2 DEF KeysTypeOK
<1>4. CallInv' /\ HeldInv' /\ GotInv' /\ TextArrives'
  BY <1>1, <1>2 DEF CallInv, HeldInv, GotInv, TextArrives, KeysReleased
<1> QED
  BY <1>3, <1>4 DEF KeysInv

-----------------------------------------------------------------------------
(* Theorems *)

\* The invariant holds of every sequence of calls that type and press keys.
THEOREM KeysInvariant == KeysSpec => []KeysInv
<1>1. KeysInit => KeysInv
  <2> SUFFICES ASSUME KeysInit
               PROVE  KeysInv
    OBVIOUS
  <2>1. Rounds = 0
    BY DEF KeysInit, Rounds
  <2>2. KeysTypeOK
    BY <2>1 DEF KeysInit, KeysTypeOK
  <2>3. CallInv /\ HeldInv /\ GotInv /\ TextArrives
    BY DEF KeysInit, CallInv, HeldInv, GotInv, TextArrives, KeysReleased
  <2> QED
    BY <2>2, <2>3 DEF KeysInv
<1>2. KeysInv /\ [KeysNext]_keysVars => KeysInv'
  <2> SUFFICES ASSUME KeysInv, [KeysNext]_keysVars
               PROVE  KeysInv'
    OBVIOUS
  <2>1. CASE TypeText
    BY <2>1, TypeTextInv
  <2>2. CASE TypeChar
    BY <2>2, TypeCharInv
  <2>3. CASE PressKey
    BY <2>3, PressKeyInv
  <2>4. CASE ModDown
    BY <2>4, ModDownInv
  <2>5. CASE Tap
    BY <2>5, TapInv
  <2>6. CASE ModUp
    BY <2>6, ModUpInv
  <2>7. CASE LoopEnds
    BY <2>7, LoopEndsInv
  <2>8. CASE Reply
    BY <2>8, KeysReplyInv
  <2>9. CASE UNCHANGED keysVars
    <3>1. /\ phase' = phase /\ next' = next /\ text' = text /\ combo' = combo /\ repeat' = repeat
          /\ mods' = mods /\ press' = press /\ held' = held /\ locks' = locks /\ got' = got
      BY <2>9 DEF keysVars
    <3>2. KeysTypeOK'
      BY <3>1 DEF KeysInv, KeysTypeOK, Rounds, Taps
    <3>3. CallInv'
      BY <3>1 DEF KeysInv, CallInv
    <3>4. HeldInv'
      BY <3>1 DEF KeysInv, HeldInv, KeysReleased, Named
    <3>5. GotInv'
      BY <3>1, SameGot DEF KeysInv
    <3>6. TextArrives'
      <4>1. next - 1 \in Nat /\ Len(text) \in Nat
        BY LenProperties DEF KeysInv, KeysTypeOK, Rounds, Taps
      <4>2. phase = "text" => Arrived(next - 1)'
        BY <3>1, <4>1, SameArrived DEF KeysInv, TextArrives
      <4>3. phase = "done" /\ press = {} => Arrived(Len(text))'
        BY <3>1, <4>1, SameArrived DEF KeysInv, TextArrives
      <4> QED
        BY <3>1, <4>2, <4>3 DEF TextArrives
    <3> QED
      BY <3>2, <3>3, <3>4, <3>5, <3>6 DEF KeysInv
  <2> QED
    BY <2>1, <2>2, <2>3, <2>4, <2>5, <2>6, <2>7, <2>8, <2>9 DEF KeysNext
<1> QED
  BY <1>1, <1>2, PTL DEF KeysSpec

\* The calls keep their types, and each loop of perform_action ends after its last round.
THEOREM KeysTypes == KeysSpec => []KeysTypeOK
<1>1. KeysInv => KeysTypeOK
  BY DEF KeysInv
<1> QED
  BY <1>1, KeysInvariant, PTL

\* perform_action: no key is down after a call.
THEOREM NoKeyStaysDown == KeysSpec => []KeysReleased
<1>1. KeysInv => KeysReleased
  BY DEF KeysInv, HeldInv
<1> QED
  BY <1>1, KeysInvariant, PTL

\* Action::Key: a combination reaches the client with the modifiers and the symbol that
\* the keymap has for it, which is the symbol named wherever they select its level.
THEOREM CombosArrive == KeysSpec => []ComboArrives
<1>1. KeysInv => ComboArrives
  <2> SUFFICES ASSUME KeysInv, phase = "done", NEW p \in press, p.key \notin Modifiers \cup LockKeys
               PROVE  /\ got = [i \in 1..Taps |-> Yield(p)]
                      /\ locks = {} /\ Level[p.key][With(Named, p)] = (IF p.shift THEN 2 ELSE 1) =>
                           \A i \in DOMAIN got : Means(Trim(Last(combo)), got[i].sym)
    BY DEF ComboArrives, Yield
  <2>1. got = [i \in 1..Taps |-> Yield(p)]
    BY DEF KeysInv, GotInv
  <2>2. ASSUME locks = {}, Level[p.key][With(Named, p)] = (IF p.shift THEN 2 ELSE 1),
               NEW i \in DOMAIN got
        PROVE  Means(Trim(Last(combo)), got[i].sym)
    <3>1. got[i].sym = Symbol(p.key, With(Named, p) \cup locks)
      BY <2>1, <2>2 DEF Yield
    <3>2. With(Named, p) \cup locks = With(Named, p)
      BY <2>2
    <3>3. got[i].sym = Layout[p.key][IF p.shift THEN 2 ELSE 1]
      BY <2>2, <3>1, <3>2 DEF Symbol
    <3> QED
      BY <3>3, CallParts
  <2> QED
    BY <2>1, <2>2
<1> QED
  BY <1>1, KeysInvariant, PTL

\* Action::TypeText: of every text, the client receives what the keymap has, in order,
\* and as it was written if no lock is on.
THEOREM TextsArrive == KeysSpec => []TextArrives
<1>1. KeysInv => TextArrives
  BY DEF KeysInv
<1> QED
  BY <1>1, KeysInvariant, PTL
=============================================================================
