----------------------------- MODULE TouchSwipe -----------------------------
(***************************************************************************)
(* The touchSwipe plugin (jquery.touchSwipe.js) as the page uses it: one   *)
(* instance for the title of each entry, with fingers 1, threshold 50, a   *)
(* click handler and handlers for the swipes left and right; no swipe, no  *)
(* swipeStatus, no maxTimeThreshold, triggered on the end of the touch.    *)
(* What these options rule out is left out: the times, and the handlers'   *)
(* return values.                                                          *)
(*                                                                         *)
(* A title is named by its vertical position.  Distances are compared      *)
(* squared: Math.round(d) >= 50 is d >= 49.5.                              *)
(***************************************************************************)
EXTENDS Integers, Sequences

CONSTANTS
    Titles,  \* the h2 elements, each a vertical position
    Points   \* the positions of the page a finger or the pointer can be at

VARIABLES
    SUPPORTS_TOUCH,  \* the page runs on a touch screen; otherwise there is a mouse
    plugin           \* the plugin instance of each title

ASSUME PositionAssumption ==
    /\ Titles \subseteq Nat \ {0}
    /\ Points \subseteq [x : Nat, y : Nat]

Origin == [x |-> 0, y |-> 0]

\* bound counts how often the listeners for the move and the end are bound.
Instance == [phase       : {"start", "move", "end", "cancel"},
             fingerCount : Nat,
             start       : Points \cup {Origin},
             end         : Points \cup {Origin},
             bound       : Nat]

Idle == [phase |-> "start", fingerCount |-> 0, start |-> Origin, end |-> Origin, bound |-> 0]

-----------------------------------------------------------------------------
Sq(n) == n * n
Abs(n) == IF n < 0 THEN -n ELSE n

\* Math.round(distance) >= options.threshold, four times the squares compared.
validateSwipeDistance(start, end) ==
    4 * (Sq(end.x - start.x) + Sq(end.y - start.y)) >= Sq(99)

\* Within 45 degrees of the horizontal: the angle is rounded to degrees, which
\* decides between no two positions of the instances checked.
Horizontal(start, end) == Abs(end.y - start.y) <= Abs(end.x - start.x)

\* One finger down; the mouse always is one.
Single(p) == p.fingerCount = 1 \/ ~SUPPORTS_TOUCH

\* Mutant: the horizontal coordinates are not cleared.
OnlyYCleared(p) == [p EXCEPT !.fingerCount = 0, !.start.y = 0, !.end.y = 0]

\* touchCancel: the coordinates and the finger count are cleared, no more.
Cancelled(p) == [p EXCEPT !.fingerCount = 0, !.start = Origin, !.end = Origin]

-----------------------------------------------------------------------------
\* The handlers.  fingers is event.touches, the positions of all fingers on the
\* screen, the first one down first; the mouse is the only finger.

touchStart(p, fingers) ==
    LET down == [p EXCEPT !.phase = "start", !.bound = @ + 1,
                          !.fingerCount = IF SUPPORTS_TOUCH THEN Len(fingers) ELSE 0]
    IN  IF Single(down)
        THEN [down EXCEPT !.start = fingers[1], !.end = fingers[1]]
        ELSE Cancelled(down)

touchMove(p, fingers) ==
    LET moved == [p EXCEPT !.phase = "move", !.end = fingers[1],
                           !.fingerCount = IF SUPPORTS_TOUCH THEN Len(fingers) ELSE 0]
    IN  CASE p.bound = 0 \/ p.phase \in {"end", "cancel"} -> p
          [] p.bound > 0 /\ p.phase \in {"start", "move"} /\ Single(moved) -> moved
          [] OTHER -> Cancelled([moved EXCEPT !.phase = "cancel"])

\* The end of a touch is a swipe if one finger ended far enough from its start,
\* at a position other than 0.
EndPhase(p) ==
    IF Single(p) /\ p.end.x # 0 /\ validateSwipeDistance(p.start, p.end)
    THEN "end" ELSE "cancel"

\* Mutant: swipes up and down are taken for swipes to a side.
AnyDirection(p) ==
    CASE EndPhase(p) = "end" -> "swipe"
      [] EndPhase(p) = "cancel" /\ Single(p) /\ p.start = p.end -> "click"
      [] OTHER -> "none"

\* Which of the page's handlers the end of a touch calls, if any.
triggerHandler(p) ==
    CASE EndPhase(p) = "end" /\ Horizontal(p.start, p.end) -> "swipe"
      [] EndPhase(p) = "cancel" /\ Single(p) /\ p.start = p.end -> "click"
      [] OTHER -> "none"

\* Mutant: a touch that ends leaves the coordinates and the finger count behind.
EndedUncleared(p) == [p EXCEPT !.phase = EndPhase(p)]
Ended(p) == Cancelled([p EXCEPT !.phase = EndPhase(p)])

\* touchEnd runs once for each time it was bound, and is unbound by the first run.
Runs(p) == [i \in 1..p.bound |-> IF i = 1 THEN p ELSE Ended(p)]
touchEnd(p) == IF p.bound = 0 THEN p ELSE [Ended(Runs(p)[p.bound]) EXCEPT !.bound = 0]
=============================================================================
