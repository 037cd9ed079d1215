------------------------------- MODULE Overlays ------------------------------
(* packages/ui: the command palette (registry.ts, keybinding.ts,             *)
(* CommandPalette.svelte) and the dialog (dialog.ts, Dialog.svelte) on one   *)
(* page that has one keyboard focus.                                         *)
(*                                                                           *)
(* A handler changes state; Svelte flushes it afterwards, in Flush: first    *)
(* the markup, then the effects; Land is the dialog's queueMicrotask().  No  *)
(* other handler runs until both are done.  A command's words are abstracted *)
(* to how they compare with each query: Words[c][q] = [title, subtitle,      *)
(* keywords].                                                                *)
EXTENDS Integers, FiniteSets, Sequences

CONSTANTS
    Commands,
    Queries,        \* what may be typed
    Blank,          \* the empty query, one of Queries
    Words,
    Opens,          \* the commands whose run() opens the dialog
    PageElements,   \* focusable elements outside both overlays
    Apple           \* isApplePlatform(): $mod is Meta, not Control

VARIABLES
    dismissible,    \* Dialog's prop
    inner,          \* the dialog's focusable elements, in order
    registry,       \* the registered commands, in insertion order
    query, active,  \* CommandPalette's state
    open, dialog,   \* the two `open` props
    shown,          \* what the last flush rendered: [open, dialog, query]
    focus,          \* document.activeElement
    returnFocus,    \* Dialog's, or "none"
    landing,        \* the microtask is queued
    before,         \* history: the focus when the dialog was opened
    strayed,        \* history: the palette opened over the dialog, or a click left it
    moved,          \* history: the highlight was moved since the query changed
    sunk            \* history: ArrowDown was pressed while nothing matched

focusVars == <<focus, returnFocus, landing, before, strayed>>
constVars == <<dismissible, inner>>
vars == <<constVars, registry, query, active, open, dialog, shown, focusVars, moved, sunk>>

Body == "body"
Input == "input"        \* the palette's
Overlay == "overlay"    \* the dialog's backdrop button
Panel == "panel"        \* the dialog itself
InDialog(e) == e = Panel \/ \E i \in DOMAIN inner : inner[i] = e

-------------------------------------------------------------------------------
(* registry.ts.                                                              *)

(* scoreKeywords(): the first keyword that matches decides.                  *)
ScoreKeywords(keywords) ==
    LET hits == {i \in DOMAIN keywords : keywords[i] # "no"}
        first == CHOOSE i \in hits : \A j \in hits : i <= j
        score == [is |-> 50, starts |-> 45, includes |-> 35]
    IN IF hits = {} THEN 0 ELSE score[keywords[first]]

(* scoreCommand().                                                           *)
ScoreCommand(c, q) ==
    LET w == Words[c][q]
        title == [is |-> 100, starts |-> 80, includes |-> 60]
    IN CASE q = Blank -> 1
         [] q # Blank /\ w.title \in DOMAIN title -> title[w.title]
         [] q # Blank /\ w.title \notin DOMAIN title /\ w.subtitle -> 40
         [] OTHER -> IF ScoreKeywords(w.keywords) > 0 THEN ScoreKeywords(w.keywords)
                     ELSE IF w.title = "subsequence" THEN 20 ELSE 0

(* searchCommands(): those that match, best first, equals in insertion order. *)
SearchCommands(commands, q) ==
    LET scored == {<<i, ScoreCommand(commands[i], q)>> : i \in DOMAIN commands}
        hits == {h \in scored : h[2] > 0}
        Before(h) == {g \in hits : g[2] > h[2] \/ (g[2] = h[2] /\ g[1] < h[1])}
        At(k) == CHOOSE h \in hits : Cardinality(Before(h)) = k - 1
    IN [k \in 1..Cardinality(hits) |-> commands[At(k)[1]]]

Registered(commands, c) == \E i \in DOMAIN commands : commands[i] = c
Register(commands, c) == IF Registered(commands, c) THEN commands ELSE Append(commands, c)
Unregister(commands, c) ==
    LET at == CHOOSE i \in DOMAIN commands : commands[i] = c
    IN IF ~Registered(commands, c) THEN commands
       ELSE SubSeq(commands, 1, at - 1) \o SubSeq(commands, at + 1, Len(commands))

Results == SearchCommands(registry, query)

-------------------------------------------------------------------------------
(* keybinding.ts.                                                            *)
Alias(token) ==
    CASE token \in {"$mod", "mod"} -> "mod"
      [] token \in {"control", "ctrl"} -> "ctrl"
      [] token \in {"cmd", "meta", "command", "super"} -> "meta"
      [] token \in {"option", "alt"} -> "alt"
      [] token = "shift" -> "shift"
      [] OTHER -> "key"

(* parseBinding(): in any order; the last token that is no modifier is the key. *)
ParseBinding(combo) ==
    LET keys == SelectSeq(combo, LAMBDA token : Alias(token) = "key")
    IN [held |-> {Alias(combo[i]) : i \in DOMAIN combo} \ {"key"}, key |-> keys[Len(keys)]]

(* matchesBinding(): exactly the binding's modifiers are down.               *)
MatchesBinding(event, binding) ==
    /\ event.key = binding.key
    /\ event.held = (binding.held \ {"mod"})
                      \cup (IF "mod" \notin binding.held THEN {}
                            ELSE IF Apple THEN {"meta"} ELSE {"ctrl"})

ToggleShortcut == ParseBinding(<<"$mod", "k">>)

-------------------------------------------------------------------------------
Init ==
    /\ dismissible \in BOOLEAN
    /\ inner \in {<<>>, <<"first", "last">>}
    /\ registry = <<>>
    /\ query = Blank /\ active = 0
    /\ open = FALSE /\ dialog = FALSE
    /\ shown = [open |-> FALSE, dialog |-> FALSE, query |-> Blank]
    /\ focus = Body /\ returnFocus = "none" /\ landing = FALSE
    /\ before = Body /\ strayed = FALSE /\ moved = FALSE /\ sunk = FALSE

Settled == shown = [open |-> open, dialog |-> dialog, query |-> query] /\ ~landing

(* The dialog's `open` is set, by a command or by the application.           *)
Opening(opens) ==
    /\ dialog' = (dialog \/ opens)
    /\ before' = IF opens /\ ~dialog THEN focus ELSE before
    /\ strayed' = IF opens /\ ~dialog THEN FALSE ELSE strayed

(* A mistake: the index after the last passes.                               *)
ClampLate(index, n) == IF index > n THEN IF n = 0 THEN 0 ELSE n - 1 ELSE index

(* clampActive(), which the effect on the results runs.                      *)
ClampActive(index, n) == IF index > n - 1 THEN IF n = 0 THEN 0 ELSE n - 1 ELSE index

(* Svelte renders: an element that goes takes the focus with it, to the      *)
(* body.  `autofocus` is the framework's: it takes the focus from the body,  *)
(* and from another element only if the browser wants it.                    *)
Rendered(e) ==
    \/ e \in PageElements \cup {Body}
    \/ e = Input /\ open
    \/ (e = Overlay \/ InDialog(e)) /\ dialog
AfterMarkup ==
    LET kept == IF Rendered(focus) THEN focus ELSE Body
    IN IF open /\ ~shown.open
       THEN IF kept = Body THEN {Input} ELSE {kept, Input}
       ELSE {kept}

(* Dialog's effect, run when `open` has changed.                             *)
OpenEffect(f) == returnFocus' = f /\ landing' = TRUE /\ focus' = f
CloseEffect(f) ==
    /\ focus' = IF returnFocus \in PageElements \cup {Body} \/ (returnFocus = Input /\ open)
                THEN returnFocus ELSE f
    /\ returnFocus' = "none"
    /\ UNCHANGED landing

Flush ==
    /\ shown # [open |-> open, dialog |-> dialog, query |-> query]
    /\ shown' = [open |-> open, dialog |-> dialog, query |-> query]
    /\ active' = ClampActive(IF query # shown.query THEN 0 ELSE active, Len(Results))
    /\ moved' = (moved /\ query = shown.query)
    /\ sunk' = (sunk /\ query = shown.query)
    /\ strayed' = (strayed \/ (dialog /\ open /\ ~shown.open))
    /\ \E f \in AfterMarkup :
          \/ dialog /\ ~shown.dialog /\ OpenEffect(f)
          \/ ~dialog /\ shown.dialog /\ CloseEffect(f)
          \/ /\ dialog = shown.dialog
             /\ focus' = f
             /\ returnFocus' = IF returnFocus = Input /\ ~open THEN "gone" ELSE returnFocus
             /\ UNCHANGED landing
    /\ UNCHANGED <<constVars, registry, query, open, dialog, before>>

(* The microtask of the dialog's effect.                                     *)
Land ==
    /\ landing
    /\ landing' = FALSE
    /\ focus' = IF ~shown.dialog THEN focus ELSE IF inner = <<>> THEN Panel ELSE Head(inner)
    /\ UNCHANGED <<constVars, registry, query, active, open, dialog, shown, returnFocus,
                   before, strayed, moved, sunk>>

-------------------------------------------------------------------------------
(* CommandPalette.svelte.                                                    *)
Results0(index) == index + 1 \in DOMAIN Results

(* runAt(): closed and cleared before the command runs.                      *)
RunAt(index) ==
    IF ~Results0(index) THEN UNCHANGED <<open, query, dialog, before, strayed>>
    ELSE /\ open' = FALSE
         /\ query' = Blank
         /\ Opening(Results[index + 1] \in Opens)

(* onWindowKeydown().                                                        *)
Shortcut ==
    /\ Settled
    /\ \E held \in SUBSET {"ctrl", "meta", "shift"}, key \in {"k", "j"} :
          MatchesBinding([held |-> held, key |-> key], ToggleShortcut)
    /\ open' = ~open
    /\ UNCHANGED <<constVars, registry, query, active, dialog, shown, focusVars, moved, sunk>>

(* Close() of the dialog.                                                    *)
Close == dialog' = (dialog /\ ~dismissible)

(* Escape: in the dialog's panel the event goes no further.                  *)
Escape ==
    /\ Settled
    /\ IF dialog /\ InDialog(focus) THEN Close /\ UNCHANGED open
       ELSE open' = FALSE /\ UNCHANGED dialog
    /\ UNCHANGED <<constVars, registry, query, active, shown, focusVars, moved, sunk>>

(* onInputKeydown().                                                         *)
ArrowDown ==
    /\ Settled /\ open /\ focus = Input
    /\ active' = IF active + 1 < Len(Results) THEN active + 1 ELSE Len(Results) - 1
    /\ moved' = TRUE
    /\ sunk' = (Results = <<>>)
    /\ UNCHANGED <<constVars, registry, query, open, dialog, shown, focusVars>>

ArrowUp ==
    /\ Settled /\ open /\ focus = Input
    /\ active' = IF active > 0 THEN active - 1 ELSE 0
    /\ moved' = TRUE
    /\ sunk' = FALSE
    /\ UNCHANGED <<constVars, registry, query, open, dialog, shown, focusVars>>

Enter ==
    /\ Settled /\ open /\ focus = Input
    /\ RunAt(active)
    /\ UNCHANGED <<constVars, registry, active, shown, focus, returnFocus, landing, moved, sunk>>

Type ==
    /\ Settled /\ open /\ focus = Input
    /\ \E q \in Queries : query' = q
    /\ UNCHANGED <<constVars, registry, active, open, dialog, shown, focusVars, moved, sunk>>

(* The mouse, over an option and on it, in the input and on the backdrop.    *)
Hover ==
    /\ Settled /\ open
    /\ \E i \in DOMAIN Results : active' = i - 1
    /\ moved' = TRUE /\ sunk' = FALSE
    /\ UNCHANGED <<constVars, registry, query, open, dialog, shown, focusVars>>

ClickOption ==
    /\ Settled /\ open
    /\ \E i \in DOMAIN Results : RunAt(i - 1)
    /\ UNCHANGED <<constVars, registry, active, shown, focus, returnFocus, landing, moved, sunk>>

ClickInput ==
    /\ Settled /\ open
    /\ focus' = Input
    /\ strayed' = (strayed \/ dialog)
    /\ UNCHANGED <<constVars, registry, query, active, open, dialog, shown, returnFocus,
                   landing, before, moved, sunk>>

Dismiss ==
    /\ Settled /\ open
    /\ open' = FALSE
    /\ UNCHANGED <<constVars, registry, query, active, dialog, shown, focusVars, moved, sunk>>

-------------------------------------------------------------------------------
(* Dialog.svelte.                                                            *)

(* nextTrapTarget(), or the panel when there is nothing to trap.             *)
NextTrapTarget(shift) ==
    IF inner = <<>> THEN Panel
    ELSE LET n == Len(inner)
             at == {i \in 1..n : inner[i] = focus}
         IN IF at = {} THEN IF shift THEN inner[n] ELSE inner[1]
            ELSE LET i == CHOOSE j \in at : TRUE
                 IN IF shift THEN inner[IF i = 1 THEN n ELSE i - 1]
                    ELSE inner[IF i = n THEN 1 ELSE i + 1]

(* onPanelKeydown(), for Tab and Shift+Tab.                                  *)
Tab ==
    /\ Settled /\ dialog /\ InDialog(focus)
    /\ \E shift \in BOOLEAN : focus' = NextTrapTarget(shift)
    /\ UNCHANGED <<constVars, registry, query, active, open, dialog, shown, returnFocus,
                   landing, before, strayed, moved, sunk>>

(* A click on the backdrop focuses it, and closes the dialog if it may.      *)
ClickOverlay ==
    /\ Settled /\ dialog /\ ~open
    /\ focus' = Overlay
    /\ strayed' = TRUE
    /\ Close
    /\ UNCHANGED <<constVars, registry, query, active, open, shown, returnFocus, landing,
                   before, moved, sunk>>

-------------------------------------------------------------------------------
(* The application: it registers, opens and closes; the user uses the page.  *)
Application ==
    /\ Settled
    /\ \/ /\ \E c \in Commands : registry' \in {Register(registry, c), Unregister(registry, c)}
          /\ active' = ClampActive(active, Len(SearchCommands(registry', query)))
          /\ UNCHANGED <<dialog, before, strayed>>
       \/ Opening(TRUE) /\ UNCHANGED <<registry, active>>
       \/ dialog' = FALSE /\ UNCHANGED <<registry, active, before, strayed>>
    /\ UNCHANGED <<constVars, query, open, shown, focus, returnFocus, landing, moved, sunk>>

UsePage ==
    /\ Settled /\ ~open /\ ~dialog
    /\ focus' \in PageElements
    /\ UNCHANGED <<constVars, registry, query, active, open, dialog, shown, returnFocus,
                   landing, before, strayed, moved, sunk>>

Next ==
    \/ Flush \/ Land
    \/ Shortcut \/ Escape \/ ArrowDown \/ ArrowUp \/ Enter \/ Type
    \/ Hover \/ ClickOption \/ ClickInput \/ Dismiss
    \/ Tab \/ ClickOverlay
    \/ Application \/ UsePage

Spec == Init /\ [][Next]_vars

-------------------------------------------------------------------------------
TypeOK ==
    /\ registry \in Seq(Commands)
    /\ query \in Queries
    /\ active \in -1..Cardinality(Commands)
    /\ focus \in PageElements \cup {Body, Input, Overlay, Panel, "first", "last"}

(* What a key acts on is what the user sees.  In a palette that shows        *)
(* results one of them is highlighted, and it is a best match, the earliest  *)
(* registered of them, until the user moves the highlight; only ArrowDown in *)
(* an empty list can leave the highlight before the first option.  An open   *)
(* dialog has the focus unless the palette was opened over it or a click left *)
(* it; when it closes, the page element that had the focus before has it     *)
(* again.                                                                    *)
Highlighted ==
    (Settled /\ open /\ Results # <<>>) => Results0(active) \/ (active = -1 /\ sunk)

BestFirst ==
    (Settled /\ open /\ ~moved /\ Results # <<>>) =>
        \A i \in DOMAIN registry :
            LET score == ScoreCommand(registry[i], query)
            IN /\ active = 0
               /\ score <= ScoreCommand(Results[1], query)
               /\ score = ScoreCommand(Results[1], query) => \E j \in 1..i : registry[j] = Results[1]

FocusIsKept == (Settled /\ dialog /\ ~strayed) => InDialog(focus)

FocusReturns ==
    [][(Flush /\ shown.dialog /\ ~dialog) =>
          focus' \in (IF before \in PageElements THEN {before} ELSE {Body, Input})]_vars

RightTarget == [](Highlighted /\ BestFirst /\ FocusIsKept) /\ FocusReturns
==============================================================================
