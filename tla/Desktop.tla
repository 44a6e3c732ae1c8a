------------------------------ MODULE Desktop ------------------------------
(***************************************************************************)
(* The desktop of src/comp.rs: the window registry, the stack of the space *)
(* (bottom to top), keyboard and pointer focus, and the tool calls that    *)
(* inject input.                                                           *)
(*                                                                         *)
(* All handlers run on the compositor thread: a handler is an action.  A   *)
(* surface is named by its window, so a focus may name a window that is    *)
(* closed.  Positions are abstracted to the windows that cover the         *)
(* pointer; several open windows may.                                      *)
(***************************************************************************)
EXTENDS Naturals, SequencesExt

CONSTANTS
  MaxId,          \* bound: windows opened in a behaviour
  Reachable,      \* bound: windows whose geometry may contain the pointer
  Buttons,        \* mouse buttons
  OverlaysAbove   \* whether the space keeps override-redirect windows on top

ASSUME DesktopAssumption ==
  /\ MaxId \in Nat
  /\ Reachable \subseteq 1..MaxId
  /\ OverlaysAbove \in BOOLEAN

VARIABLES
  windows,    \* id -> what kind of window it is, "none" if it is not open
  nextId,     \* next_window_id
  surface,    \* open windows that have a wl_surface
  space,      \* the ids of the mapped windows, topmost last
  focused,    \* focused_window
  keyboard,   \* the seat's keyboard focus
  pointer,    \* the seat's pointer: see PointerRec
  covers,     \* open windows whose geometry contains pointer_loc
  input       \* the input events delivered by the step just taken

vars == <<windows, nextId, surface, space, focused, keyboard, pointer, covers,
          input>>

focusVars == <<space, focused, keyboard>>

Ids == 1..MaxId
Kinds == {"xdg", "x11", "overlay"}
Open == {i \in Ids : windows[i] # "none"}

\* Where the pointer may be, and what may become of it when window i changes.
Places == SUBSET (Open \cap Reachable)
Shifted(i) == {covers \ {i}, covers \cup ({i} \cap Reachable)}

\* on: the pointer's focus; latest: the focus as of the last motion, which the
\* implicit grab of a held button keeps from taking effect.
PointerRec == [on: SUBSET Ids, latest: SUBSET Ids, held: SUBSET Buttons]

\* An event, the windows it goes to (at most one) and the window that is under
\* the pointer at that time; whether the call gave a position and the pointer
\* was free to follow it.
EventRec == [kind: {"key", "press"}, to: SUBSET Ids, under: SUBSET Ids, aimed: BOOLEAN]

-----------------------------------------------------------------------------
(* The stack of the space *)

\* unmap_elem; the space lists a window once at most.
Without(s, i) ==
  IF i \in ToSet(s) THEN RemoveAt(s, CHOOSE k \in DOMAIN s : s[k] = i) ELSE s

\* map_element and raise_element put a window on top of its layer, which is the
\* whole stack but for the override-redirect windows the space keeps above.
OnTop(s, i) ==
  LET ordinary(j) == windows'[j] # "overlay"
      rest == Without(s, i)
      layer == {k \in DOMAIN rest : OverlaysAbove /\ ordinary(i) => ordinary(rest[k])}
  IN  InsertAt(rest, Cardinality(layer) + 1, i)

Top(s) == IF s = <<>> THEN {} ELSE {Last(s)}

\* surface_under: the topmost window that covers the pointer and has a surface.
Under(s, C) ==
  {s[k] : k \in {k \in DOMAIN s : /\ s[k] \in C \cap surface'
                                /\ \A l \in k + 1..Len(s) : s[l] \notin C \cap surface'}}

-----------------------------------------------------------------------------
(* Focus *)

\* Mutant: focused_window is set before the surface is looked up.
FocusBeforeSurface(i, s, f) ==
  /\ space' = OnTop(s, i)
  /\ keyboard' = IF i \in surface' THEN {i} ELSE keyboard
  /\ focused' = {i}

\* focus_window_by_id for an open window, from the stack s and focused window f:
\* the window is raised (and told that it is activated, which nothing here reads
\* back) even if it has no surface to focus yet.
Focus(i, s, f) ==
  /\ space' = OnTop(s, i)
  /\ keyboard' = IF i \in surface' THEN {i} ELSE keyboard
  /\ focused' = IF i \in surface' THEN {i} ELSE f

KeepFocus(s, f) ==
  /\ space' = s
  /\ focused' = f
  /\ UNCHANGED keyboard

\* Focus the one window of W, if there is one.
FocusAny(W, s, f) == \/ \E i \in W : Focus(i, s, f)
                     \/ W = {} /\ KeepFocus(s, f)

-----------------------------------------------------------------------------
(* Windows *)

\* register_window, for a window that covers the pointer or not.
Register(kind) ==
  /\ nextId \in Ids
  /\ windows' = [windows EXCEPT ![nextId] = kind]
  /\ nextId' = nextId + 1
  /\ covers' \in Shifted(nextId)
  /\ input' = {}
  /\ UNCHANGED pointer

NewToplevel ==
  /\ Register("xdg")
  /\ surface' = surface \cup {nextId}
  /\ Focus(nextId, space, focused)

\* The X11 window gets its surface later.
MapX11 ==
  /\ Register("x11")
  /\ UNCHANGED surface
  /\ Focus(nextId, space, focused)

\* Menus and tooltips: not activated and not focused.
MapOverlay ==
  /\ Register("overlay")
  /\ surface' \in {surface, surface \cup {nextId}}
  /\ KeepFocus(OnTop(space, nextId), focused)

\* Mutant: a menu or tooltip on top is focused as well.
AssociateAny(i) == IF Top(space) = {i} THEN {i} ELSE {}

\* The window surface_associated focuses.
Associated(i) == IF Top(space) = {i} /\ windows[i] # "overlay" THEN {i} ELSE {}

Associate(i) ==
  /\ windows[i] \in {"x11", "overlay"}
  /\ i \notin surface
  /\ surface' = surface \cup {i}
  /\ UNCHANGED <<windows, nextId, pointer, covers>>
  /\ FocusAny(Associated(i), space, focused)
  /\ input' = {}

\* Mutant: the window is taken out of the registry only.
Forget(i) ==
  /\ windows' = [windows EXCEPT ![i] = "none"]
  /\ UNCHANGED surface
  /\ IF focused = {i} THEN FocusAny(Top(Without(space, i)), space, {})
                      ELSE KeepFocus(space, focused)

\* Mutant: the window is left in the space.
Linger(i) ==
  /\ windows' = [windows EXCEPT ![i] = "none"]
  /\ surface' = surface \ {i}
  /\ KeepFocus(space, focused \ {i})

\* unregister_window: the focus goes to the window that is on top then.
Unregister(i) ==
  /\ windows' = [windows EXCEPT ![i] = "none"]
  /\ surface' = surface \ {i}
  /\ LET rest == Without(space, i) IN
     IF focused = {i} THEN FocusAny(Top(rest), rest, {}) ELSE KeepFocus(rest, focused)

\* toplevel_destroyed, unmapped_window, destroyed_window.  The seat's focus may
\* go on naming the surface that is gone.
Close(i) ==
  /\ i \in Open
  /\ Unregister(i)
  /\ covers' = covers \ {i}
  /\ input' = {}
  /\ UNCHANGED <<nextId, pointer>>

\* configure_request and configure_notify: an X11 window that moves is raised in
\* the space, but not focused.
Reconfigure(i) ==
  /\ windows[i] \in {"x11", "overlay"}
  /\ UNCHANGED <<windows, surface>>
  /\ KeepFocus(OnTop(space, i), focused)
  /\ covers' \in Shifted(i)
  /\ input' = {}
  /\ UNCHANGED <<nextId, pointer>>

\* A commit that changes the size of the window.
Resized(i) ==
  /\ i \in Open
  /\ covers' \in Shifted(i)
  /\ input' = {}
  /\ UNCHANGED <<windows, nextId, surface, focusVars, pointer>>

\* The seat may notice that the surface it focuses is gone; focus_changed then
\* records that no window is focused.
DropDeadFocus ==
  /\ keyboard # {}
  /\ keyboard \cap Open = {}
  /\ keyboard' = {}
  /\ focused' = {}
  /\ input' = {}
  /\ UNCHANGED <<windows, nextId, surface, space, pointer, covers>>

-----------------------------------------------------------------------------
(* The pointer *)

Moved(p, u) == [p EXCEPT !.latest = u, !.on = IF p.held = {} THEN u ELSE @]

Pressed(p, b) == [p EXCEPT !.held = @ \cup {b}]

Released(p, b) ==
  [p EXCEPT !.held = @ \ {b}, !.on = IF p.held \subseteq {b} THEN p.latest ELSE @]

\* Where the call's position leaves the pointer: C are the windows there.
At(C, aimed) == IF aimed THEN Moved(pointer, Under(space, C)) ELSE pointer

\* Mutant: the window under the pointer is looked up before the pointer moves.
AimLate(C, aimed) == /\ aimed \/ C = covers
                     /\ FocusAny(Under(space, covers), space, focused)
                     /\ covers' = C

\* optional_point, pointer_motion, focus_under_pointer: a call without a
\* position stays where the pointer is.
Aim(C, aimed) == /\ aimed \/ C = covers
                 /\ covers' = C
                 /\ FocusAny(Under(space, C), space, focused)

PressAt(C, aimed) ==
  {[kind |-> "press", to |-> At(C, aimed).on, under |-> Under(space, C),
    aimed |-> aimed /\ pointer.held = {}]}

Click(b, C, aimed) ==
  /\ UNCHANGED <<windows, nextId, surface>>
  /\ Aim(C, aimed)
  /\ pointer' = Released(Pressed(At(C, aimed), b), b)
  /\ input' = PressAt(C, aimed)

MouseDown(b, C, aimed) ==
  /\ UNCHANGED <<windows, nextId, surface>>
  /\ Aim(C, aimed)
  /\ pointer' = Pressed(At(C, aimed), b)
  /\ input' = PressAt(C, aimed)

\* mouse_up, mouse_move and scroll leave the keyboard focus alone.
MouseUp(b, C, aimed) ==
  /\ aimed \/ C = covers
  /\ UNCHANGED <<windows, nextId, surface, focusVars>>
  /\ pointer' = Released(At(C, aimed), b)
  /\ covers' = C
  /\ input' = {}

MouseMove(C) ==
  /\ UNCHANGED <<windows, nextId, surface, focusVars>>
  /\ pointer' = At(C, TRUE)
  /\ covers' = C
  /\ input' = {}

-----------------------------------------------------------------------------
(* The keyboard *)

\* ensure_keyboard_focus: the topmost window, if the keyboard is not focused.
Unfocused == IF keyboard = {} THEN Top(space) ELSE {}

\* type_text and press_key.  A combination that does not parse is an error, but
\* by then the focus is set.
Type(valid) ==
  /\ UNCHANGED <<windows, nextId, surface, pointer, covers>>
  /\ FocusAny(Unfocused, space, focused)
  /\ input' = IF valid THEN {[kind |-> "key", to |-> keyboard', under |-> {}, aimed |-> FALSE]}
                       ELSE {}

FocusWindow(i) ==
  /\ i \in Open
  /\ UNCHANGED <<windows, nextId, surface, pointer, covers>>
  /\ Focus(i, space, focused)
  /\ input' = {}

-----------------------------------------------------------------------------
Init ==
  /\ windows = [i \in Ids |-> "none"]
  /\ nextId = 1
  /\ surface = {}
  /\ space = <<>>
  /\ focused = {}
  /\ keyboard = {}
  /\ pointer = [on |-> {}, latest |-> {}, held |-> {}]
  /\ covers = {}
  /\ input = {}

\* What the clients do.
Activity ==
  \/ NewToplevel \/ MapX11 \/ MapOverlay \/ DropDeadFocus
  \/ \E i \in Ids : Associate(i) \/ Close(i) \/ Reconfigure(i) \/ Resized(i)

\* What the tools do; errors for unknown windows change nothing.
Tool ==
  \/ \E C \in Places : MouseMove(C)
  \/ \E b \in Buttons, C \in Places, aimed \in BOOLEAN :
       Click(b, C, aimed) \/ MouseDown(b, C, aimed) \/ MouseUp(b, C, aimed)
  \/ \E valid \in BOOLEAN : Type(valid)
  \/ \E i \in Ids : FocusWindow(i)

Next == Activity \/ Tool

Spec == Init /\ [][Next]_vars

-----------------------------------------------------------------------------
(* Properties *)

\* Every variable keeps the shape the Rust types give it.
TypeOK ==
  /\ windows \in [Ids -> Kinds \cup {"none"}]
  /\ nextId \in 1..(MaxId + 1)
  /\ surface \subseteq Open
  /\ space \in Seq(Ids)
  /\ focused \in SUBSET Ids
  /\ keyboard \in SUBSET Ids
  /\ pointer \in PointerRec
  /\ covers \subseteq Open
  /\ input \in SUBSET EventRec

\* comp.rs:84,97: the registry and the space hold the same windows, each of them
\* once, however maps, restacks and closes interleave.
SpaceIsRegistry == ToSet(space) = Open /\ IsInjective(space)

\* focus_window_by_id, unregister_window, focus_changed: the window reported as
\* focused is open, has a surface, and is the one that gets the keys.
FocusedHasKeyboard ==
  focused # {} => focused \subseteq surface /\ keyboard = focused

\* A window that has the focus keeps it until it closes, unless the user focuses
\* another one or an ordinary window opens or becomes ready: neither a menu, nor
\* a restack, nor another window's end takes it away, and typing never does.
FocusIsKept ==
  [][ \A i \in Open \cap Open' : focused = {i} /\ focused' # {i} =>
        \/ \E C \in Places, b \in Buttons, aimed \in BOOLEAN :
             Click(b, C, aimed) \/ MouseDown(b, C, aimed)
        \/ \E j \in Open : FocusWindow(j)
        \/ \E j \in Open' \ surface : j \in surface' /\ windows'[j] # "overlay"
    ]_vars

\* pointer_motion, focus_under_pointer: a press at a given position goes to the
\* topmost window there, and that window has the keyboard focus from then on.
AimedPressHits ==
  \A e \in input : e.kind = "press" /\ e.aimed =>
    e.to = e.under /\ (e.under # {} => focused = e.under)

\* mcp.rs:94-95: a click without coordinates is a click "at the current pointer
\* position", whatever has happened since the pointer got there.
PressHitsWhatIsThere ==
  \A e \in input : e.kind = "press" /\ pointer.held = {} => e.to = e.under
=============================================================================
