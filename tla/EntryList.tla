----------------------------- MODULE EntryList -----------------------------
(***************************************************************************)
(* The list of entries under the user's fingers: the callbacks script.js   *)
(* gives to the touchSwipe plugin, the delete icons they put into the      *)
(* titles, the entries unfolded by a click, and the clicks on the page.    *)
(* The browser is external: it sends touch events to the element a finger  *)
(* came down on and mouse events to the element under the pointer, and     *)
(* makes a click of a press and a release on one element, unless the end   *)
(* of the touch was handled by the plugin, which prevents it.              *)
(***************************************************************************)
EXTENDS TouchSwipe, SequencesExt

CONSTANTS
    IconX,     \* where in a title its delete icon is
    Fingers,   \* a bound: fingers on the screen at one time
    MaxBound,  \* a bound: how often the listeners of one title get bound
    None       \* no title

VARIABLES
    touches,   \* the fingers on the screen, or the pressed mouse, oldest first
    icons,     \* the titles with a delete icon
    selected,  \* the entries that are unfolded
    collapse   \* a click on the page's heading unfolds all entries

vars == <<SUPPORTS_TOUCH, plugin, touches, icons, selected, collapse>>

\* on: the title the finger came down on, None once the element is gone.
\* alone: no other finger has been on the screen meanwhile.
Finger == [on    : Titles \cup {None},
           icon  : BOOLEAN,
           from  : Points,
           at    : Points,
           alone : BOOLEAN]

ASSUME BoundAssumption ==
    /\ IconX \in Nat
    /\ Fingers \in Nat \ {0} /\ MaxBound \in Nat \ {0}
    /\ None \notin Nat

TitleAt(point) == IF point.y \in Titles THEN point.y ELSE None
OnIcon(point) == TitleAt(point) \in icons /\ point.x = IconX
Positions(fingers) == [i \in DOMAIN fingers |-> fingers[i].at]

Init ==
    /\ SUPPORTS_TOUCH \in BOOLEAN
    /\ plugin = [h \in Titles |-> Idle]
    /\ touches = <<>>
    /\ icons = {} /\ selected = {} /\ collapse = TRUE

-----------------------------------------------------------------------------
(***************************************************************************)
(* The page's callbacks.  ui holds what they change: icons and selected.   *)
(* onIcon: the event's target is the icon in the title, not the title.  A  *)
(* swipe on an icon finds no icon inside it: it removes all icons and puts *)
(* the new one into the removed image.                                     *)
(***************************************************************************)
\* Mutant: the icons of other titles stay.
IconsPileUp(ui, h, onIcon) ==
    [ui EXCEPT !.icons = IF onIcon THEN {} ELSE IF h \in @ THEN @ \ {h} ELSE @ \cup {h}]

swipeCallback(ui, h, onIcon) ==
    [ui EXCEPT !.icons = IF onIcon THEN {} ELSE IF h \in @ THEN @ \ {h} ELSE {h}]

clickCallback(ui, h, onIcon) ==
    IF onIcon
    THEN ui
    ELSE [icons |-> {}, selected |-> IF h \in ui.selected THEN {} ELSE {h}]

Called(ui, callback, h, onIcon) ==
    CASE callback = "swipe" -> swipeCallback(ui, h, onIcon)
      [] callback = "click" -> clickCallback(ui, h, onIcon)
      [] OTHER -> ui

\* The callback that run i of touchEnd on title h makes, and what all runs leave.
Callback(h, i) == triggerHandler(Runs(plugin[h])[i])
AfterEnd(h, onIcon) ==
    LET after[i \in 0..plugin[h].bound] ==
            IF i = 0 THEN [icons |-> icons, selected |-> selected]
            ELSE Called(after[i - 1], Callback(h, i), h, onIcon)
    IN  after[plugin[h].bound]

\* A finger on an icon that is removed no longer touches the list.
Kept(fingers) ==
    [i \in DOMAIN fingers |->
        IF fingers[i].icon /\ fingers[i].on \notin icons'
        THEN [fingers[i] EXCEPT !.on = None, !.icon = FALSE] ELSE fingers[i]]

\* The end of a touch or of a press on title h.  A click that goes to neither
\* a title nor an icon removes the icons.
EndOn(h, onIcon, clicked) ==
    /\ plugin' = [plugin EXCEPT ![h] = touchEnd(@)]
    /\ icons' = IF clicked THEN {} ELSE AfterEnd(h, onIcon).icons
    /\ selected' = AfterEnd(h, onIcon).selected
    /\ UNCHANGED collapse

\* A click outside of the titles removes the icons; on the page's heading it
\* also unfolds or folds all entries.
ClickOutside ==
    /\ icons' = {}
    /\ \/ UNCHANGED <<selected, collapse>>
       \/ /\ selected' = IF collapse THEN Titles ELSE {}
          /\ collapse' = ~collapse

Unheard == UNCHANGED <<icons, selected, collapse>>

-----------------------------------------------------------------------------
\* Touch screens.

TouchStart(point) ==
    LET h       == TitleAt(point)
        finger  == [on |-> h, icon |-> OnIcon(point), from |-> point, at |-> point,
                    alone |-> touches = <<>>]
        fingers == Append([i \in DOMAIN touches |-> [touches[i] EXCEPT !.alone = FALSE]], finger)
    IN  /\ SUPPORTS_TOUCH
        /\ Len(touches) < Fingers
        /\ h # None => plugin[h].bound < MaxBound
        /\ touches' = fingers
        /\ plugin' = IF h = None THEN plugin
                     ELSE [plugin EXCEPT ![h] = touchStart(@, Positions(fingers))]
        /\ Unheard /\ UNCHANGED SUPPORTS_TOUCH

TouchMove(i, point) ==
    LET h == touches[i].on
        fingers == [touches EXCEPT ![i].at = point]
    IN  /\ SUPPORTS_TOUCH
        /\ touches' = fingers
        /\ plugin' = IF h = None THEN plugin
                     ELSE [plugin EXCEPT ![h] = touchMove(@, Positions(fingers))]
        /\ Unheard /\ UNCHANGED SUPPORTS_TOUCH

\* A tap outside of the titles becomes a click; the plugin prevents the clicks
\* that would follow a tap on a title or on an icon.
TouchEnd(i) ==
    /\ SUPPORTS_TOUCH
    /\ \/ /\ touches[i].on # None /\ EndOn(touches[i].on, touches[i].icon, FALSE)
       \/ /\ touches[i].on = None /\ UNCHANGED plugin
          /\ \/ Unheard
             \/ /\ touches[i].alone /\ touches[i].from = touches[i].at
                /\ TitleAt(touches[i].from) = None
                /\ ClickOutside
    /\ touches' = Kept(RemoveAt(touches, i))
    /\ UNCHANGED SUPPORTS_TOUCH

\* The browser takes the touches over, to scroll or because the page is left.
TouchCancel ==
    /\ SUPPORTS_TOUCH /\ touches # <<>>
    /\ plugin' = [h \in Titles |-> IF \E i \in DOMAIN touches : touches[i].on = h
                                   THEN Cancelled(plugin[h]) ELSE plugin[h]]
    /\ touches' = <<>>
    /\ Unheard /\ UNCHANGED SUPPORTS_TOUCH

-----------------------------------------------------------------------------
\* Mouse.

MouseDown(point) ==
    LET h == TitleAt(point) IN
    /\ ~SUPPORTS_TOUCH /\ touches = <<>>
    /\ h # None => plugin[h].bound < MaxBound
    /\ touches' = <<[on |-> h, icon |-> OnIcon(point), from |-> point, at |-> point,
                     alone |-> h # None => plugin[h].bound = 0]>>
    /\ plugin' = IF h = None THEN plugin
                 ELSE [plugin EXCEPT ![h] = touchStart(@, <<point>>)]
    /\ Unheard /\ UNCHANGED SUPPORTS_TOUCH

\* The pointer moves, with its button pressed or not.
MouseMove(point) ==
    LET h == TitleAt(point) IN
    /\ ~SUPPORTS_TOUCH
    /\ touches' = [i \in DOMAIN touches |-> [touches[i] EXCEPT !.at = point]]
    /\ plugin' = IF h = None THEN plugin
                 ELSE [plugin EXCEPT ![h] = touchMove(@, <<point>>)]
    /\ Unheard /\ UNCHANGED SUPPORTS_TOUCH

\* The release goes to the element under the pointer.  The click that follows
\* goes to the element pressed and released, or, if these are two, to one that
\* contains both or to none.  A click on an icon gives the DELETE command
\* (SecureDiary) and changes nothing here.
MouseUp ==
    LET press == touches[1]
        h     == TitleAt(press.at)
    IN  /\ ~SUPPORTS_TOUCH /\ touches # <<>>
        /\ \/ /\ h # None
              /\ \E clicked \in IF h = press.on THEN {FALSE} ELSE BOOLEAN :
                    EndOn(h, OnIcon(press.at), clicked)
           \/ /\ h = None /\ UNCHANGED plugin
              /\ \/ TitleAt(press.from) = None /\ ClickOutside
                 \/ /\ TitleAt(press.from) # None
                    /\ icons' \in {icons, {}} /\ UNCHANGED <<selected, collapse>>
        /\ touches' = <<>>
        /\ UNCHANGED SUPPORTS_TOUCH

-----------------------------------------------------------------------------
\* runEntries empties the list and shows the entries anew, with new plugins.
Reload ==
    /\ plugin' = [h \in Titles |-> Idle]
    /\ icons' = {} /\ selected' = {}
    /\ touches' = [i \in DOMAIN touches |-> [touches[i] EXCEPT !.on = None, !.icon = FALSE]]
    /\ UNCHANGED <<SUPPORTS_TOUCH, collapse>>

Next ==
    \/ \E point \in Points : TouchStart(point) \/ MouseDown(point) \/ MouseMove(point)
    \/ \E i \in DOMAIN touches : TouchEnd(i) \/ \E point \in Points : TouchMove(i, point)
    \/ TouchCancel \/ MouseUp \/ Reload

Spec == Init /\ [][Next]_vars

-----------------------------------------------------------------------------
(***************************************************************************)
(* Properties.                                                             *)
(***************************************************************************)
ListTypeOK ==
    /\ SUPPORTS_TOUCH \in BOOLEAN
    /\ plugin \in [Titles -> Instance] /\ \A h \in Titles : plugin[h].bound <= MaxBound
    /\ touches \in Seq(Finger) /\ Len(touches) <= Fingers
    /\ icons \subseteq Titles /\ selected \subseteq Titles
    /\ collapse \in BOOLEAN

\* The list shows at most one delete icon, so that it is plain which entry goes.
OneIcon == \A g, h \in icons : g = h

\* On a touch screen the end of a touch calls the page back at most once, also
\* when earlier touches were taken over by the browser and left their
\* listeners bound, and whatever other fingers did.
OneCallback ==
    SUPPORTS_TOUCH => \A h \in Titles : \A i, j \in 1..plugin[h].bound :
        Callback(h, i) # "none" /\ Callback(h, j) # "none" => i = j

\* The step ends the gesture of one finger alone, or of the mouse pressed and
\* released, on one title whose listeners it unbinds.
EndsAlone(f) ==
    LET h == f.on IN
    /\ f.alone /\ h # None /\ ~f.icon
    /\ touches' = <<>> /\ plugin[h].bound > 0 /\ plugin'[h].bound = 0
    /\ SUPPORTS_TOUCH \/ (TitleAt(f.at) = h /\ ~OnIcon(f.at))

\* Not moved in the end, it folds or unfolds the entry; far to a side and not
\* to the very edge, it puts the icon or takes it away; else it does nothing.
TakenForWhatItIs(f) ==
    LET h == f.on IN
    CASE f.at = f.from ->
             selected' = (IF h \in selected THEN {} ELSE {h}) /\ icons' = {}
      [] /\ f.at # f.from /\ validateSwipeDistance(f.from, f.at)
         /\ Horizontal(f.from, f.at) /\ f.at.x # 0 ->
             icons' = {h} \ icons /\ selected' = selected
      [] OTHER -> UNCHANGED <<icons, selected>>

\* A gesture alone is taken for what it is, whatever came before.
AloneGesture ==
    [][\A i \in DOMAIN touches : EndsAlone(touches[i]) => TakenForWhatItIs(touches[i])]_vars

(***************************************************************************)
(* What makes them inductive: the plugin of the title under a finger alone *)
(* knows where the finger came down and where it is.  The mouse may leave  *)
(* the title meanwhile and come back.                                      *)
(***************************************************************************)
AloneTracked ==
    \A i \in DOMAIN touches :
        LET f == touches[i]
            p == plugin[f.on]
        IN  f.alone /\ f.on # None =>
            /\ Len(touches) = 1
            /\ p.start = f.from /\ p.phase \in {"start", "move"} /\ p.bound > 0
            /\ IF SUPPORTS_TOUCH
               THEN p.fingerCount = 1 /\ p.end = f.at
               ELSE p.bound = 1 /\ (TitleAt(f.at) = f.on => p.end = f.at)

ListInv == ListTypeOK /\ AloneTracked
=============================================================================
