-------------------------- MODULE EntryListProofs --------------------------
(***************************************************************************)
(* Proofs about the list of entries, for any titles and positions, any     *)
(* number of fingers and of listeners left bound, on touch screens and     *)
(* with a mouse.                                                           *)
(***************************************************************************)
EXTENDS EntryList, Recursion

Where == Points \cup {Origin}

(* An instance is what its fields are.                                     *)
LEMMA InstanceFields ==
  ASSUME NEW p \in Instance
  PROVE  /\ p.phase \in {"start", "move", "end", "cancel"} /\ p.fingerCount \in Nat
         /\ p.start \in Where /\ p.end \in Where /\ p.bound \in Nat
BY DEF Instance, Where

LEMMA CancelledType ==
  ASSUME NEW p \in Instance
  PROVE  /\ Cancelled(p) \in Instance /\ Cancelled(p).bound = p.bound
         /\ Cancelled(p).phase = p.phase /\ Cancelled(p).fingerCount = 0
         /\ Cancelled(p).start = Origin /\ Cancelled(p).end = Origin
BY DEF Instance, Cancelled

LEMMA EndedType ==
  ASSUME NEW p \in Instance
  PROVE  /\ Ended(p) \in Instance /\ Ended(p).bound = p.bound /\ Ended(p).fingerCount = 0
<1> DEFINE q == [p EXCEPT !.phase = EndPhase(p)]
<1>1. EndPhase(p) \in {"end", "cancel"}
  BY DEF EndPhase
<1>2. q \in Instance /\ q.bound = p.bound
  BY <1>1 DEF Instance
<1> HIDE DEF q
<1>3. Ended(p) = Cancelled(q)
  BY DEF Ended, q
<1> QED
  BY <1>2, <1>3, CancelledType

\* What a touch that starts makes of instance p: q.
Started(p, q, first, count) ==
    /\ q \in Instance /\ q.bound = p.bound + 1 /\ q.phase = "start"
    /\ ~SUPPORTS_TOUCH \/ count = 1 =>
          q.start = first /\ q.end = first /\ (SUPPORTS_TOUCH => q.fingerCount = 1)

LEMMA StartType ==
  ASSUME NEW p \in Instance, NEW fingers \in Seq(Points), Len(fingers) > 0
  PROVE  Started(p, touchStart(p, fingers), fingers[1], Len(fingers))
<1> DEFINE count == IF SUPPORTS_TOUCH THEN Len(fingers) ELSE 0
           more == p.bound + 1
           down == [p EXCEPT !.phase = "start", !.bound = more, !.fingerCount = count]
           q == [down EXCEPT !.start = fingers[1], !.end = fingers[1]]
<1>1. count \in Nat /\ fingers[1] \in Where /\ more \in Nat
  BY InstanceFields DEF Where
<1>2. /\ down \in Instance /\ down.bound = p.bound + 1 /\ down.phase = "start"
      /\ down.fingerCount = count
  <2> HIDE DEF count
  <2>1. down \in Instance /\ down.bound = more /\ down.phase = "start" /\ down.fingerCount = count
    <3> HIDE DEF more
    <3> QED
      BY <1>1 DEF Instance
  <2> QED
    BY <2>1
<1>3. touchStart(p, fingers) = IF Single(down) THEN q ELSE Cancelled(down)
  BY DEF touchStart
<1> HIDE DEF down
<1>4. /\ q \in Instance /\ q.bound = down.bound /\ q.phase = down.phase
      /\ q.fingerCount = down.fingerCount /\ q.start = fingers[1] /\ q.end = fingers[1]
  BY <1>1, <1>2 DEF Instance, Where
<1> HIDE DEF q
<1>5. ~SUPPORTS_TOUCH \/ Len(fingers) = 1 => Single(down)
  BY <1>2 DEF Single
<1> QED
  BY <1>2, <1>3, <1>4, <1>5, CancelledType DEF Started

\* What a move makes of it.
Moved(p, q, first, count) ==
    /\ q \in Instance /\ q.bound = p.bound
    /\ /\ ~SUPPORTS_TOUCH \/ count = 1
       /\ p.bound > 0 /\ p.phase \in {"start", "move"}
       => /\ q.phase = "move" /\ q.start = p.start /\ q.end = first
          /\ SUPPORTS_TOUCH => q.fingerCount = 1

LEMMA MoveType ==
  ASSUME NEW p \in Instance, NEW fingers \in Seq(Points), Len(fingers) > 0
  PROVE  Moved(p, touchMove(p, fingers), fingers[1], Len(fingers))
<1> DEFINE count == IF SUPPORTS_TOUCH THEN Len(fingers) ELSE 0
           moved == [p EXCEPT !.phase = "move", !.end = fingers[1], !.fingerCount = count]
           dropped == [moved EXCEPT !.phase = "cancel"]
<1>1. count \in Nat /\ fingers[1] \in Where
  BY DEF Where
<1>2. /\ moved \in Instance /\ moved.bound = p.bound /\ moved.phase = "move"
      /\ moved.start = p.start /\ moved.end = fingers[1] /\ moved.fingerCount = count
  <2> HIDE DEF count
  <2> QED
    BY <1>1 DEF Instance, Where
<1>3. touchMove(p, fingers) =
        CASE p.bound = 0 \/ p.phase \in {"end", "cancel"} -> p
          [] p.bound > 0 /\ p.phase \in {"start", "move"} /\ Single(moved) -> moved
          [] OTHER -> Cancelled(dropped)
  BY DEF touchMove
<1> HIDE DEF moved
<1>4. dropped \in Instance /\ dropped.bound = moved.bound
  BY <1>2 DEF Instance
<1> HIDE DEF dropped
<1>5. ~SUPPORTS_TOUCH \/ Len(fingers) = 1 => Single(moved)
  BY <1>2 DEF Single
<1>6. Cancelled(dropped) \in Instance /\ Cancelled(dropped).bound = p.bound
  BY <1>2, <1>4, CancelledType
<1>7. p.bound \in Nat /\ p.phase \in {"start", "move", "end", "cancel"}
  BY InstanceFields
<1>8. CASE p.bound = 0 \/ p.phase \in {"end", "cancel"}
  BY <1>3, <1>8 DEF Moved
<1>9. CASE p.bound > 0 /\ p.phase \in {"start", "move"} /\ Single(moved)
  <2>1. touchMove(p, fingers) = moved
    BY <1>3, <1>9
  <2> QED
    BY <1>2, <1>5, <2>1 DEF Moved
<1>10. CASE p.bound > 0 /\ p.phase \in {"start", "move"} /\ ~Single(moved)
  <2>1. touchMove(p, fingers) = Cancelled(dropped)
    BY <1>3, <1>10
  <2> QED
    BY <1>5, <1>6, <1>10, <2>1 DEF Moved
<1> QED
  BY <1>7, <1>8, <1>9, <1>10

(* The runs of touchEnd unbind the listeners.                              *)
LEMMA EndType ==
  ASSUME NEW p \in Instance
  PROVE  touchEnd(p) \in Instance /\ touchEnd(p).bound = 0
<1> DEFINE last == Runs(p)[p.bound]
<1>1. p.bound \in Nat
  BY InstanceFields
<1>2. CASE p.bound = 0
  BY <1>2 DEF touchEnd
<1>3. CASE p.bound > 0
  <2>1. last = p \/ last = Ended(p)
    BY <1>1, <1>3 DEF Runs
  <2>2. last \in Instance
    BY <2>1, EndedType
  <2> HIDE DEF last
  <2> DEFINE q == Ended(last)
  <2>3. q \in Instance
    BY <2>2, EndedType
  <2>4. touchEnd(p) = [q EXCEPT !.bound = 0]
    BY <1>3 DEF touchEnd, last
  <2> HIDE DEF q
  <2> QED
    BY <2>3, <2>4 DEF Instance
<1> QED
  BY <1>1, <1>2, <1>3

-----------------------------------------------------------------------------
(* No run of touchEnd but the first calls the page back on a touch screen. *)
LEMMA LaterRuns ==
  ASSUME SUPPORTS_TOUCH, NEW p \in Instance, NEW i \in 1..p.bound, i # 1
  PROVE  triggerHandler(Runs(p)[i]) = "none"
<1>1. p.bound \in Nat
  BY InstanceFields
<1>2. Runs(p)[i] = Ended(p)
  BY <1>1 DEF Runs
<1>3. ~Single(Ended(p))
  BY EndedType DEF Single
<1> QED
  BY <1>2, <1>3 DEF triggerHandler, EndPhase

-----------------------------------------------------------------------------
Ui == [icons : SUBSET Titles, selected : SUBSET Titles]
Now == [icons |-> icons, selected |-> selected]
AtMostOne(ui) == \A k, h \in ui.icons : k = h

LEMMA CalledType ==
  ASSUME NEW ui \in Ui, NEW callback, NEW h \in Titles, NEW onIcon
  PROVE  /\ Called(ui, callback, h, onIcon) \in Ui
         /\ AtMostOne(ui) => AtMostOne(Called(ui, callback, h, onIcon))
<1>1. CASE callback = "swipe"
  <2> DEFINE new == IF onIcon THEN {} ELSE IF h \in ui.icons THEN ui.icons \ {h} ELSE {h}
             swiped == [ui EXCEPT !.icons = new]
  <2>1. Called(ui, callback, h, onIcon) = swiped
    BY <1>1 DEF Called, swipeCallback
  <2>2. new \in SUBSET Titles /\ (AtMostOne(ui) => \A k, t \in new : k = t)
    BY DEF Ui, AtMostOne
  <2> HIDE DEF new
  <2> QED
    BY <2>1, <2>2 DEF Ui, AtMostOne
<1>2. CASE callback = "click"
  <2> DEFINE new == [icons |-> {}, selected |-> IF h \in ui.selected THEN {} ELSE {h}]
  <2>1. Called(ui, callback, h, onIcon) = IF onIcon THEN ui ELSE new
    BY <1>2 DEF Called, clickCallback
  <2>2. new \in Ui /\ AtMostOne(new)
    BY DEF Ui, AtMostOne
  <2> HIDE DEF new
  <2> QED
    BY <2>1, <2>2
<1>3. CASE callback \notin {"swipe", "click"}
  BY <1>3 DEF Called
<1> QED
  BY <1>1, <1>2, <1>3

\* after gives what each number of runs of touchEnd on title h leaves.
Leaves(after, h, onIcon) ==
    /\ after[0] = Now
    /\ \A k \in 1..plugin[h].bound : after[k] = Called(after[k - 1], Callback(h, k), h, onIcon)

LEMMA AfterExists ==
  ASSUME Now \in Ui, NEW h \in Titles, plugin[h].bound \in Nat, NEW onIcon
  PROVE  \E after : Leaves(after, h, onIcon) /\ AfterEnd(h, onIcon) = after[plugin[h].bound]
<1> DEFINE n == plugin[h].bound
           G == [k \in Positive |-> [ui \in Ui |-> Called(ui, Callback(h, k), h, onIcon)]]
           P(after) == after = [i \in 0..n |-> IF i = 0 THEN Now
                                ELSE Called(after[i - 1], Callback(h, i), h, onIcon)]
           chosen == CHOOSE after : P(after)
<1>1. n \in Nat
  OBVIOUS
<1>2. G \in [Positive -> [Ui -> Ui]]
  BY CalledType
<1>3. \A k \in Positive : \A ui \in Ui : G[k][ui] = Called(ui, Callback(h, k), h, onIcon)
  OBVIOUS
<1> HIDE DEF n
<1>4. \A k \in 1..n : k \in Positive /\ k \in 0..n /\ k - 1 \in 0..n /\ k - 1 \in Nat /\ k # 0
  BY <1>1 DEF Positive
<1> HIDE DEF G
<1>5. PICK f : Stepwise(f, Ui, Now, G)
  BY <1>2, StepwiseExists
<1>6. f \in [Nat -> Ui] /\ f[0] = Now
  BY <1>5 DEF Stepwise
<1>7. ASSUME NEW k \in 1..n PROVE f[k] = Called(f[k - 1], Callback(h, k), h, onIcon)
  <2>1. f[k] = G[k][f[k - 1]] /\ f[k - 1] \in Ui
    BY <1>4, <1>5, <1>6 DEF Stepwise
  <2> QED
    BY <1>3, <1>4, <2>1
<1> DEFINE r == [i \in 0..n |-> f[i]]
<1>8. \A k \in 0..n : r[k] = f[k]
  OBVIOUS
<1>9. P(r)
  <2>1. ASSUME NEW k \in 0..n
        PROVE  r[k] = IF k = 0 THEN Now ELSE Called(r[k - 1], Callback(h, k), h, onIcon)
    <3> HIDE DEF r
    <3>1. CASE k = 0
      BY <1>6, <1>8, <3>1
    <3>2. CASE k \in 1..n
      BY <1>4, <1>7, <1>8, <3>2
    <3> QED
      BY <1>1, <3>1, <3>2
  <2> QED
    BY <2>1
<1>10. P(chosen)
  <2> HIDE DEF P, r
  <2> QED
    BY <1>9
<1>11. AfterEnd(h, onIcon) = chosen[n]
  BY DEF AfterEnd, n, Now
<1> HIDE DEF chosen
<1>12. chosen[0] = Now
  BY <1>1, <1>10
<1>13. ASSUME NEW k \in 1..n PROVE chosen[k] = Called(chosen[k - 1], Callback(h, k), h, onIcon)
  BY <1>4, <1>10
<1>14. Leaves(chosen, h, onIcon)
  BY <1>12, <1>13 DEF Leaves, n
<1> QED
  BY <1>11, <1>14 DEF n

(* However many runs there are, their callbacks leave titles only, and one *)
(* icon at most if there was one at most.                                  *)
LEMMA AfterType ==
  ASSUME Now \in Ui, NEW h \in Titles, plugin[h].bound \in Nat, NEW onIcon
  PROVE  AfterEnd(h, onIcon) \in Ui /\ (AtMostOne(Now) => AtMostOne(AfterEnd(h, onIcon)))
<1> DEFINE n == plugin[h].bound
<1>1. PICK after : Leaves(after, h, onIcon) /\ AfterEnd(h, onIcon) = after[n]
  BY AfterExists
<1> DEFINE T == {k \in Nat : k <= n => /\ after[k] \in Ui
                                       /\ AtMostOne(Now) => AtMostOne(after[k])}
<1>2. n \in Nat
  OBVIOUS
<1>3. 0 \in T
  BY <1>1 DEF Leaves
<1>4. ASSUME NEW k \in T PROVE k + 1 \in T
  <2> SUFFICES ASSUME k + 1 <= n
               PROVE  after[k + 1] \in Ui /\ (AtMostOne(Now) => AtMostOne(after[k + 1]))
    OBVIOUS
  <2>1. k + 1 \in 1..n /\ (k + 1) - 1 = k /\ k <= n
    BY <1>2
  <2>2. after[k + 1] = Called(after[k], Callback(h, k + 1), h, onIcon)
    BY <1>1, <2>1 DEF Leaves
  <2>3. after[k] \in Ui /\ (AtMostOne(Now) => AtMostOne(after[k]))
    BY <2>1
  <2> HIDE DEF T, n
  <2> QED
    BY <2>2, <2>3, CalledType
<1>5. T \in SUBSET Nat
  OBVIOUS
<1> HIDE DEF T
<1>6. T = Nat
  BY <1>3, <1>4, <1>5, SetInduction
<1> QED
  BY <1>1, <1>2, <1>6 DEF T

(* Where later runs call nothing back, the first one decides.              *)
LEMMA AfterFirst ==
  ASSUME Now \in Ui, NEW h \in Titles, plugin[h].bound \in Nat, plugin[h].bound > 0, NEW onIcon,
         \A i \in 1..plugin[h].bound : i # 1 => Callback(h, i) = "none"
  PROVE  AfterEnd(h, onIcon) = Called(Now, triggerHandler(plugin[h]), h, onIcon)
<1> DEFINE n == plugin[h].bound
           first == Called(Now, triggerHandler(plugin[h]), h, onIcon)
<1>1. PICK after : Leaves(after, h, onIcon) /\ AfterEnd(h, onIcon) = after[n]
  BY AfterExists
<1> DEFINE T == {k \in Nat : k < n => after[k + 1] = first}
<1>2. n \in Nat /\ n > 0
  OBVIOUS
<1>3. 0 \in T
  <2>1. 1 \in 1..n /\ 1 - 1 = 0
    BY <1>2
  <2>2. Callback(h, 1) = triggerHandler(plugin[h])
    BY <2>1 DEF Callback, Runs
  <2>3. after[1] = Called(after[0], Callback(h, 1), h, onIcon) /\ after[0] = Now
    BY <1>1, <2>1 DEF Leaves
  <2> QED
    BY <2>2, <2>3
<1>4. ASSUME NEW k \in T PROVE k + 1 \in T
  <2> SUFFICES ASSUME k + 1 < n PROVE after[(k + 1) + 1] = first
    OBVIOUS
  <2> DEFINE j == (k + 1) + 1
  <2>1. j \in 1..n /\ j - 1 = k + 1 /\ k < n /\ j # 1
    BY <1>2
  <2>2. after[j - 1] = first
    BY <2>1
  <2>3. after[j] = Called(after[j - 1], Callback(h, j), h, onIcon) /\ Callback(h, j) = "none"
    BY <1>1, <2>1 DEF Leaves
  <2> HIDE DEF j
  <2>4. after[j] = after[j - 1]
    BY <2>3 DEF Called
  <2> QED
    BY <2>2, <2>4 DEF j
<1>5. T \in SUBSET Nat
  OBVIOUS
<1> HIDE DEF T
<1>6. n - 1 \in T
  <2>1. T = Nat
    BY <1>3, <1>4, <1>5, SetInduction
  <2> QED
    BY <1>2, <2>1
<1>7. after[n] = first
  BY <1>2, <1>6 DEF T
<1> QED
  BY <1>1, <1>7

-----------------------------------------------------------------------------
LEMMA Mapped ==
  ASSUME NEW n \in Nat, NEW S, NEW f \in [1..n -> S]
  PROVE  f \in Seq(S) /\ Len(f) = n /\ DOMAIN f = 1..n
OBVIOUS

LEMMA NoTitle == None \notin Titles
BY BoundAssumption, PositionAssumption

LEMMA FingerFields ==
  ASSUME NEW f \in Finger
  PROVE  /\ f.on \in Titles \cup {None} /\ f.icon \in BOOLEAN
         /\ f.from \in Points /\ f.at \in Points /\ f.alone \in BOOLEAN
BY DEF Finger

LEMMA PositionsType ==
  ASSUME NEW fingers \in Seq(Finger)
  PROVE  /\ Positions(fingers) \in Seq(Points) /\ Len(Positions(fingers)) = Len(fingers)
         /\ \A i \in 1..Len(fingers) : Positions(fingers)[i] = fingers[i].at
<1> DEFINE n == Len(fingers)
           at == [i \in 1..n |-> fingers[i].at]
<1>1. n \in Nat /\ DOMAIN fingers = 1..n /\ \A i \in 1..n : fingers[i].at \in Points
  BY FingerFields
<1>2. Positions(fingers) = at
  BY <1>1 DEF Positions
<1> HIDE DEF n
<1>3. at \in [1..n -> Points] /\ \A i \in 1..n : at[i] = fingers[i].at
  BY <1>1
<1> HIDE DEF at
<1>4. at \in Seq(Points) /\ Len(at) = n
  BY <1>1, <1>3, Mapped
<1> QED
  BY <1>2, <1>3, <1>4 DEF n

\* The fingers a step leaves: the same ones, some changed in what on names.
SameFingers(fingers, new) ==
    /\ new \in Seq(Finger) /\ Len(new) = Len(fingers)
    /\ \A i \in 1..Len(fingers) : new[i].alone = fingers[i].alone

LEMMA KeptType ==
  ASSUME NEW fingers \in Seq(Finger) PROVE SameFingers(fingers, Kept(fingers))
<1> DEFINE n == Len(fingers)
           keep(i) == IF fingers[i].icon /\ fingers[i].on \notin icons'
                      THEN [fingers[i] EXCEPT !.on = None, !.icon = FALSE] ELSE fingers[i]
           new == [i \in 1..n |-> keep(i)]
<1>1. n \in Nat /\ DOMAIN fingers = 1..n /\ \A i \in 1..n : fingers[i] \in Finger
  OBVIOUS
<1>2. Kept(fingers) = new
  BY <1>1 DEF Kept
<1>3. ASSUME NEW f \in Finger
      PROVE  /\ [f EXCEPT !.on = None, !.icon = FALSE] \in Finger
             /\ [f EXCEPT !.on = None, !.icon = FALSE].alone = f.alone
  BY DEF Finger
<1>4. ASSUME NEW i \in 1..n PROVE keep(i) \in Finger /\ keep(i).alone = fingers[i].alone
  <2> DEFINE f == fingers[i]
  <2>1. f \in Finger
    BY <1>1
  <2>2. keep(i) = f \/ keep(i) = [f EXCEPT !.on = None, !.icon = FALSE]
    OBVIOUS
  <2> HIDE DEF f, keep
  <2> QED
    BY <1>3, <2>1, <2>2 DEF f
<1> HIDE DEF n, keep
<1>5. new \in [1..n -> Finger] /\ \A i \in 1..n : new[i].alone = fingers[i].alone
  BY <1>4
<1> HIDE DEF new
<1>6. new \in Seq(Finger) /\ Len(new) = n
  BY <1>1, <1>5, Mapped
<1> QED
  BY <1>2, <1>5, <1>6 DEF n, SameFingers

LEMMA RemoveType ==
  ASSUME NEW fingers \in Seq(Finger), NEW i \in 1..Len(fingers)
  PROVE  /\ RemoveAt(fingers, i) \in Seq(Finger)
         /\ Len(RemoveAt(fingers, i)) = Len(fingers) - 1
         /\ \A j \in 1..(Len(fingers) - 1) : \E k \in 1..Len(fingers) : RemoveAt(fingers, i)[j] = fingers[k]
<1> DEFINE n == Len(fingers)
           left == SubSeq(fingers, 1, i - 1)
           right == SubSeq(fingers, i + 1, n)
<1>1. n \in Nat /\ i \in 1..n /\ i - 1 \in Nat /\ n - i \in Nat
  OBVIOUS
<1>2. left \in Seq(Finger) /\ Len(left) = i - 1 /\ \A j \in 1..(i - 1) : left[j] = fingers[j]
  BY <1>1
<1>3. right \in Seq(Finger) /\ Len(right) = n - i /\ \A j \in 1..(n - i) : right[j] = fingers[i + j]
  BY <1>1
<1>4. RemoveAt(fingers, i) = left \o right
  BY DEF RemoveAt
<1> HIDE DEF left, right, n
<1>5. left \o right \in Seq(Finger) /\ Len(left \o right) = n - 1
  BY <1>1, <1>2, <1>3
<1>6. ASSUME NEW j \in 1..(n - 1) PROVE \E k \in 1..n : (left \o right)[j] = fingers[k]
  <2>1. CASE j <= i - 1
    BY <1>1, <1>2, <1>3, <2>1
  <2>2. CASE j > i - 1
    <3>1. (left \o right)[j] = right[j - (i - 1)] /\ j - (i - 1) \in 1..(n - i)
      BY <1>1, <1>2, <1>3, <2>2
    <3>2. right[j - (i - 1)] = fingers[i + (j - (i - 1))]
      <4> DEFINE m == j - (i - 1)
      <4> HIDE DEF m
      <4>1. right[m] = fingers[i + m]
        BY <1>3, <3>1 DEF m
      <4> QED
        BY <4>1 DEF m
    <3>3. i + (j - (i - 1)) = j + 1 /\ j + 1 \in 1..n
      BY <1>1, <3>1
    <3> QED
      BY <3>1, <3>2, <3>3
  <2>3. j <= i - 1 \/ j > i - 1
    BY <1>1
  <2> QED
    BY <2>1, <2>2, <2>3
<1> QED
  BY <1>4, <1>5, <1>6 DEF n

-----------------------------------------------------------------------------
\* What every step does to the list is typed, and adds no second icon.
ListLeft ==
    /\ icons' \subseteq Titles /\ selected' \subseteq Titles /\ collapse' \in BOOLEAN
    /\ OneIcon => OneIcon'

LEMMA EndOnLeft ==
  ASSUME ListTypeOK, NEW h \in Titles, NEW onIcon, NEW clicked, EndOn(h, onIcon, clicked)
  PROVE  /\ ListLeft
         /\ plugin' = [plugin EXCEPT ![h] = touchEnd(plugin[h])]
         /\ plugin' \in [Titles -> Instance] /\ \A k \in Titles : plugin'[k].bound <= MaxBound
<1> DEFINE ui == AfterEnd(h, onIcon)
<1>1. Now \in Ui /\ plugin[h] \in Instance /\ plugin[h].bound \in Nat /\ collapse \in BOOLEAN
  BY InstanceFields DEF ListTypeOK, Now, Ui
<1>2. ui \in Ui /\ (AtMostOne(Now) => AtMostOne(ui))
  BY <1>1, AfterType
<1>3. icons' = (IF clicked THEN {} ELSE ui.icons) /\ selected' = ui.selected /\ collapse' = collapse
  BY DEF EndOn
<1> HIDE DEF ui
<1>4. ListLeft
  BY <1>1, <1>2, <1>3 DEF ListLeft, Ui, AtMostOne, Now, OneIcon
<1>5. plugin' = [plugin EXCEPT ![h] = touchEnd(plugin[h])]
  BY DEF EndOn
<1>6. touchEnd(plugin[h]) \in Instance /\ touchEnd(plugin[h]).bound = 0 /\ 0 <= MaxBound
  BY <1>1, EndType, BoundAssumption
<1>7. plugin' \in [Titles -> Instance] /\ \A k \in Titles : plugin'[k].bound <= MaxBound
  BY <1>5, <1>6 DEF ListTypeOK
<1> QED
  BY <1>4, <1>5, <1>7

LEMMA OthersLeft ==
  ASSUME ListTypeOK,
         \/ Unheard
         \/ ClickOutside
         \/ icons' \in {icons, {}} /\ UNCHANGED <<selected, collapse>>
         \/ icons' = {} /\ selected' = {} /\ UNCHANGED collapse
  PROVE  ListLeft
BY DEF ListTypeOK, ListLeft, OneIcon, Unheard, ClickOutside

(* Every action but the ends of touches and presses sends the listeners of *)
(* one title, or of none, an event: what is left has its type.             *)
LEMMA EventType ==
  ASSUME ListTypeOK, NEW h \in Titles, NEW q \in Instance, q.bound <= MaxBound,
         plugin' = [plugin EXCEPT ![h] = q]
  PROVE  plugin' \in [Titles -> Instance] /\ \A k \in Titles : plugin'[k].bound <= MaxBound
BY DEF ListTypeOK

LEMMA TypeLeft ==
  ASSUME UNCHANGED SUPPORTS_TOUCH, SUPPORTS_TOUCH \in BOOLEAN, ListLeft,
         plugin' \in [Titles -> Instance], \A k \in Titles : plugin'[k].bound <= MaxBound,
         touches' \in Seq(Finger), Len(touches') <= Fingers
  PROVE  ListTypeOK'
BY DEF ListTypeOK, ListLeft

LEMMA TitleAtType == ASSUME NEW point PROVE TitleAt(point) \in Titles \cup {None}
BY DEF TitleAt

LEMMA InitList == Init => ListInv /\ OneIcon
<1> SUFFICES ASSUME Init PROVE ListInv /\ OneIcon
  OBVIOUS
<1>1. Idle \in Instance /\ Idle.bound = 0
  BY DEF Idle, Instance
<1>2. plugin \in [Titles -> Instance] /\ \A h \in Titles : plugin[h].bound <= MaxBound
  BY <1>1, BoundAssumption DEF Init
<1>3. touches \in Seq(Finger) /\ Len(touches) <= Fingers /\ DOMAIN touches = {}
  BY BoundAssumption DEF Init
<1>4. ListTypeOK
  BY <1>2, <1>3 DEF Init, ListTypeOK
<1> QED
  BY <1>3, <1>4 DEF Init, ListInv, AloneTracked, OneIcon

-----------------------------------------------------------------------------
LEMMA Indices ==
  ASSUME NEW fingers \in Seq(Finger)
  PROVE  /\ Len(fingers) \in Nat /\ DOMAIN fingers = 1..Len(fingers)
         /\ \A i \in 1..Len(fingers) : fingers[i] \in Finger
OBVIOUS

\* What changes in a finger: another comes down, it moves, its title goes.
NotAlone(f) == [f EXCEPT !.alone = FALSE]
AtPoint(f, point) == [f EXCEPT !.at = point]
Orphaned(f) == [f EXCEPT !.on = None, !.icon = FALSE]

LEMMA FingerMoved ==
  ASSUME NEW f \in Finger, NEW point \in Points
  PROVE  /\ AtPoint(f, point) \in Finger /\ AtPoint(f, point).at = point
         /\ AtPoint(f, point).on = f.on /\ AtPoint(f, point).from = f.from
         /\ AtPoint(f, point).alone = f.alone
BY DEF Finger, AtPoint

LEMMA NewFinger ==
  ASSUME NEW point \in Points, NEW alone \in BOOLEAN
  PROVE  LET f == [on |-> TitleAt(point), icon |-> OnIcon(point), from |-> point, at |-> point,
                   alone |-> alone]
         IN  /\ f \in Finger /\ f.on = TitleAt(point) /\ f.from = point /\ f.at = point
             /\ f.alone = alone
<1>1. OnIcon(point) \in BOOLEAN
  BY DEF OnIcon
<1>2. TitleAt(point) \in Titles \cup {None}
  BY TitleAtType
<1> QED
  BY <1>1, <1>2 DEF Finger

LEMMA OthersNotAlone ==
  ASSUME NEW fingers \in Seq(Finger)
  PROVE  LET new == [i \in DOMAIN fingers |-> NotAlone(fingers[i])]
         IN  /\ new \in Seq(Finger) /\ Len(new) = Len(fingers)
             /\ \A i \in 1..Len(fingers) : new[i].alone = FALSE
<1> DEFINE n == Len(fingers)
           new == [i \in 1..n |-> NotAlone(fingers[i])]
<1>1. n \in Nat /\ DOMAIN fingers = 1..n /\ \A i \in 1..n : fingers[i] \in Finger
  BY Indices
<1>2. [i \in DOMAIN fingers |-> NotAlone(fingers[i])] = new
  BY <1>1
<1> HIDE DEF n
<1>3. ASSUME NEW f \in Finger PROVE NotAlone(f) \in Finger /\ NotAlone(f).alone = FALSE
  BY DEF Finger, NotAlone
<1>4. new \in [1..n -> Finger] /\ \A i \in 1..n : new[i].alone = FALSE
  BY <1>1, <1>3
<1> HIDE DEF new
<1>5. new \in Seq(Finger) /\ Len(new) = n
  BY <1>1, <1>4, Mapped
<1> QED
  BY <1>2, <1>4, <1>5 DEF n

LEMMA Orphans ==
  ASSUME NEW fingers \in Seq(Finger)
  PROVE  LET new == [i \in DOMAIN fingers |-> Orphaned(fingers[i])]
         IN  /\ new \in Seq(Finger) /\ Len(new) = Len(fingers)
             /\ \A i \in 1..Len(fingers) : new[i].on = None
<1> DEFINE n == Len(fingers)
           new == [i \in 1..n |-> Orphaned(fingers[i])]
<1>1. n \in Nat /\ DOMAIN fingers = 1..n /\ \A i \in 1..n : fingers[i] \in Finger
  BY Indices
<1>2. [i \in DOMAIN fingers |-> Orphaned(fingers[i])] = new
  BY <1>1
<1> HIDE DEF n
<1>3. ASSUME NEW f \in Finger PROVE Orphaned(f) \in Finger /\ Orphaned(f).on = None
  BY DEF Finger, Orphaned
<1>4. new \in [1..n -> Finger] /\ \A i \in 1..n : new[i].on = None
  BY <1>1, <1>3
<1> HIDE DEF new
<1>5. new \in Seq(Finger) /\ Len(new) = n
  BY <1>1, <1>4, Mapped
<1> QED
  BY <1>2, <1>4, <1>5 DEF n

\* All fingers, or one, have moved to point.
AllAt(fingers, new, point) ==
    /\ new \in Seq(Finger) /\ Len(new) = Len(fingers)
    /\ \A i \in 1..Len(fingers) : new[i] = AtPoint(fingers[i], point)

LEMMA MovedAll ==
  ASSUME NEW fingers \in Seq(Finger), NEW point \in Points
  PROVE  AllAt(fingers, [i \in DOMAIN fingers |-> AtPoint(fingers[i], point)], point)
<1> DEFINE n == Len(fingers)
           new == [i \in 1..n |-> AtPoint(fingers[i], point)]
<1>1. n \in Nat /\ DOMAIN fingers = 1..n /\ \A i \in 1..n : fingers[i] \in Finger
  BY Indices
<1>2. [i \in DOMAIN fingers |-> AtPoint(fingers[i], point)] = new
  BY <1>1
<1> HIDE DEF n
<1>3. ASSUME NEW f \in Finger PROVE AtPoint(f, point) \in Finger
  BY FingerMoved
<1>4. new \in [1..n -> Finger] /\ \A i \in 1..n : new[i] = AtPoint(fingers[i], point)
  BY <1>1, <1>3
<1> HIDE DEF new
<1>5. new \in Seq(Finger) /\ Len(new) = n
  BY <1>1, <1>4, Mapped
<1> QED
  BY <1>2, <1>4, <1>5 DEF n, AllAt

OneAt(fingers, new, i, point) ==
    /\ new \in Seq(Finger) /\ Len(new) = Len(fingers)
    /\ new[i] = AtPoint(fingers[i], point)
    /\ \A j \in 1..Len(fingers) : j # i => new[j] = fingers[j]

LEMMA MovedOne ==
  ASSUME NEW fingers \in Seq(Finger), NEW i \in 1..Len(fingers), NEW point \in Points
  PROVE  OneAt(fingers, [fingers EXCEPT ![i].at = point], i, point)
<1> DEFINE n == Len(fingers)
           f == AtPoint(fingers[i], point)
           new == [fingers EXCEPT ![i] = f]
<1>1. n \in Nat /\ i \in 1..n /\ fingers \in [1..n -> Finger]
  OBVIOUS
<1>2. [fingers EXCEPT ![i].at = point] = new
  BY DEF AtPoint
<1>3. f \in Finger
  BY <1>1, FingerMoved
<1> HIDE DEF n, f
<1>4. /\ new \in [1..n -> Finger] /\ new[i] = f
      /\ \A j \in 1..n : j # i => new[j] = fingers[j]
  BY <1>1, <1>3
<1> HIDE DEF new
<1>5. new \in Seq(Finger) /\ Len(new) = n
  BY <1>1, <1>4, Mapped
<1> QED
  BY <1>2, <1>4, <1>5 DEF n, f, OneAt

-----------------------------------------------------------------------------
\* What is shown of each action.
Step == ListInv' /\ ListLeft

LEMMA TouchStartStep ==
  ASSUME ListInv, NEW point \in Points, TouchStart(point) PROVE Step
<1> DEFINE h == TitleAt(point)
           finger == [on |-> h, icon |-> OnIcon(point), from |-> point, at |-> point,
                      alone |-> touches = <<>>]
           others == [i \in DOMAIN touches |-> NotAlone(touches[i])]
           fingers == Append(others, finger)
           n == Len(touches)
<1>1. ListTypeOK /\ AloneTracked
  BY DEF ListInv
<1>2. touches \in Seq(Finger) /\ n \in Nat /\ n < Fingers /\ SUPPORTS_TOUCH /\ h \in Titles \cup {None}
  BY <1>1, TitleAtType DEF ListTypeOK, TouchStart
<1>3. others \in Seq(Finger) /\ Len(others) = n /\ \A i \in 1..n : others[i].alone = FALSE
  BY <1>2, OthersNotAlone
<1>4. /\ finger \in Finger /\ finger.on = h /\ finger.from = point /\ finger.at = point
      /\ finger.alone = (touches = <<>>)
  BY NewFinger
<1>5. /\ touches' = fingers
      /\ plugin' = IF h = None THEN plugin
                   ELSE [plugin EXCEPT ![h] = touchStart(@, Positions(fingers))]
      /\ h # None => plugin[h].bound < MaxBound
      /\ Unheard /\ UNCHANGED SUPPORTS_TOUCH
  BY DEF TouchStart, NotAlone
<1> HIDE DEF h, finger, others
<1>6. /\ fingers \in Seq(Finger) /\ Len(fingers) = n + 1 /\ fingers[n + 1] = finger
      /\ \A i \in 1..n : fingers[i] = others[i]
  BY <1>2, <1>3, <1>4
<1> HIDE DEF fingers
<1> DEFINE at == Positions(fingers)
<1>7. at \in Seq(Points) /\ Len(at) = n + 1 /\ \A i \in 1..(n + 1) : at[i] = fingers[i].at
  BY <1>6, PositionsType
<1> HIDE DEF at
<1>8. ListLeft
  BY <1>1, <1>5, OthersLeft
<1>9. n = 0 <=> touches = <<>>
  BY <1>2
<1>12. touches' \in Seq(Finger) /\ Len(touches') <= Fingers /\ SUPPORTS_TOUCH \in BOOLEAN
  BY <1>2, <1>5, <1>6, BoundAssumption
<1>10. CASE h = None
  <2>0. plugin' \in [Titles -> Instance] /\ \A k \in Titles : plugin'[k].bound <= MaxBound
    BY <1>1, <1>5, <1>10 DEF ListTypeOK
  <2>1. ListTypeOK'
    BY <1>5, <1>8, <1>12, <2>0, TypeLeft
  <2>2. \A i \in 1..(n + 1) : touches'[i].alone => touches'[i].on = None
    BY <1>2, <1>3, <1>4, <1>5, <1>6, <1>10
  <2>3. DOMAIN touches' = 1..(n + 1)
    BY <1>5, <1>6
  <2> QED
    BY <1>8, <2>1, <2>2, <2>3 DEF Step, ListInv, AloneTracked
<1>11. CASE h \in Titles
  <2> DEFINE p == plugin[h]
             q == touchStart(p, at)
  <2>1. p \in Instance /\ p.bound \in Nat /\ p.bound < MaxBound
    BY <1>1, <1>5, <1>11, NoTitle, InstanceFields DEF ListTypeOK
  <2>2. Started(p, q, at[1], n + 1)
    BY <1>2, <1>7, <2>1, StartType
  <2>3. plugin' = [plugin EXCEPT ![h] = q]
    BY <1>5, <1>11, NoTitle DEF at
  <2>4. plugin[h] = p
    OBVIOUS
  <2> HIDE DEF p, q
  <2>5. q \in Instance /\ q.bound <= MaxBound /\ q.bound > 0 /\ q.phase = "start"
    BY <2>1, <2>2, BoundAssumption DEF Started
  <2>6. plugin' \in [Titles -> Instance] /\ \A k \in Titles : plugin'[k].bound <= MaxBound
    BY <1>1, <1>11, <2>3, <2>5, EventType
  <2>7. ListTypeOK'
    BY <1>5, <1>8, <1>12, <2>6, TypeLeft
  <2>8. ASSUME NEW i \in 1..(n + 1), touches'[i].alone, touches'[i].on # None
        PROVE  /\ i = n + 1 /\ n = 0 /\ touches'[i] = finger /\ touches'[i].on = h
               /\ plugin'[h] = q /\ q.start = point /\ q.end = point /\ q.fingerCount = 1
    <3>1. i = n + 1 /\ touches'[i] = finger
      BY <1>2, <1>3, <1>5, <1>6, <2>8
    <3>2. n = 0
      BY <1>4, <1>9, <2>8, <3>1
    <3>3. at[1] = point
      BY <1>4, <1>6, <1>7, <3>2
    <3>4. plugin'[h] = q
      BY <1>1, <1>11, <2>3 DEF ListTypeOK
    <3>5. q.start = at[1] /\ q.end = at[1] /\ q.fingerCount = 1
      BY <1>2, <2>2, <3>2 DEF Started
    <3> QED
      BY <1>4, <3>1, <3>2, <3>3, <3>4, <3>5
  <2>9. DOMAIN touches' = 1..(n + 1) /\ Len(touches') = n + 1
    BY <1>5, <1>6
  <2>10. AloneTracked'
    BY <1>2, <1>4, <1>5, <2>5, <2>8, <2>9 DEF AloneTracked
  <2> QED
    BY <1>8, <2>7, <2>10 DEF Step, ListInv
<1> QED
  BY <1>2, <1>10, <1>11

LEMMA TouchMoveStep ==
  ASSUME ListInv, NEW i \in DOMAIN touches, NEW point \in Points, TouchMove(i, point) PROVE Step
<1> DEFINE f == touches[i]
           h == f.on
           fingers == [touches EXCEPT ![i].at = point]
           at == Positions(fingers)
           n == Len(touches)
<1>1. ListTypeOK /\ AloneTracked
  BY DEF ListInv
<1>2. touches \in Seq(Finger) /\ n \in Nat /\ n <= Fingers /\ SUPPORTS_TOUCH
  BY <1>1 DEF ListTypeOK, TouchMove
<1>3. i \in 1..n /\ DOMAIN touches = 1..n /\ f \in Finger /\ h \in Titles \cup {None}
  BY <1>2, FingerFields
<1>4. OneAt(touches, fingers, i, point)
  BY <1>2, <1>3, MovedOne
<1>5. /\ touches' = fingers
      /\ plugin' = IF h = None THEN plugin ELSE [plugin EXCEPT ![h] = touchMove(@, at)]
      /\ Unheard /\ UNCHANGED SUPPORTS_TOUCH
  BY DEF TouchMove
<1> HIDE DEF fingers
<1>6. at \in Seq(Points) /\ Len(at) = n /\ \A j \in 1..n : at[j] = fingers[j].at
  BY <1>4, PositionsType DEF OneAt
<1> HIDE DEF at, f, h
<1>7. ListLeft
  BY <1>1, <1>5, OthersLeft
<1>8. touches' \in Seq(Finger) /\ Len(touches') = n /\ DOMAIN touches' = 1..n
  BY <1>4, <1>5 DEF OneAt
<1>9. /\ fingers[i] \in Finger /\ fingers[i].at = point /\ fingers[i].on = h
      /\ fingers[i].from = f.from /\ fingers[i].alone = f.alone
  <2> DEFINE moved == AtPoint(f, point)
  <2>1. fingers[i] = moved
    BY <1>4 DEF OneAt, f
  <2>2. /\ moved \in Finger /\ moved.at = point /\ moved.on = h
        /\ moved.from = f.from /\ moved.alone = f.alone
    BY <1>3, FingerMoved DEF h
  <2> HIDE DEF moved
  <2> QED
    BY <2>1, <2>2
<1>10. CASE h = None
  <2>1. ListTypeOK'
    <3>1. plugin' \in [Titles -> Instance] /\ \A k \in Titles : plugin'[k].bound <= MaxBound
      BY <1>1, <1>5, <1>10 DEF ListTypeOK
    <3> QED
      BY <1>2, <1>5, <1>7, <1>8, <3>1, TypeLeft
  <2>2. ASSUME NEW j \in 1..n, touches'[j].alone, touches'[j].on # None PROVE touches'[j] = touches[j]
    BY <1>4, <1>5, <1>9, <1>10, <2>2 DEF OneAt
  <2>3. plugin' = plugin /\ SUPPORTS_TOUCH' = SUPPORTS_TOUCH
    BY <1>5, <1>10
  <2>4. AloneTracked'
    BY <1>1, <1>3, <1>8, <2>2, <2>3 DEF AloneTracked, TitleAt
  <2> QED
    BY <1>7, <2>1, <2>4 DEF Step, ListInv
<1>11. CASE h \in Titles
  <2> DEFINE p == plugin[h]
             q == touchMove(p, at)
  <2>1. p \in Instance /\ p.bound <= MaxBound
    BY <1>1, <1>11 DEF ListTypeOK
  <2>2. Moved(p, q, at[1], n)
    BY <1>3, <1>6, <2>1, MoveType
  <2>3. plugin' = [plugin EXCEPT ![h] = q]
    BY <1>5, <1>11, NoTitle
  <2>4. plugin[h] = p
    OBVIOUS
  <2> HIDE DEF p, q
  <2>5. q \in Instance /\ q.bound = p.bound /\ q.bound <= MaxBound
    BY <2>1, <2>2 DEF Moved
  <2>6. plugin' \in [Titles -> Instance] /\ \A k \in Titles : plugin'[k].bound <= MaxBound
    BY <1>1, <1>11, <2>3, <2>5, EventType
  <2>7. ListTypeOK'
    BY <1>2, <1>5, <1>7, <1>8, <2>6, TypeLeft
  <2>8. ASSUME NEW j \in 1..n, touches'[j].alone, touches'[j].on # None
        PROVE  /\ j = i /\ n = 1 /\ plugin'[touches'[j].on] = q
               /\ q.start = touches'[j].from /\ q.phase = "move" /\ q.bound > 0
               /\ q.fingerCount = 1 /\ q.end = touches'[j].at
    <3>1. touches[j].alone /\ touches[j].on # None
      BY <1>4, <1>5, <1>9, <2>8 DEF OneAt, f, h
    <3>2. n = 1 /\ j = i
      BY <1>1, <1>3, <3>1 DEF AloneTracked
    <3>3. p.start = f.from /\ p.phase \in {"start", "move"} /\ p.bound > 0
      BY <1>1, <1>3, <2>4, <3>1, <3>2 DEF AloneTracked, f, h
    <3>4. q.phase = "move" /\ q.start = p.start /\ q.end = at[1] /\ q.fingerCount = 1 /\ q.bound = p.bound
      BY <1>2, <2>2, <3>2, <3>3 DEF Moved
    <3>5. at[1] = point /\ i = 1
      BY <1>3, <1>6, <1>9, <3>2
    <3>6. plugin'[h] = q
      BY <1>1, <1>11, <2>3 DEF ListTypeOK
    <3> QED
      BY <1>5, <1>9, <3>2, <3>3, <3>4, <3>5, <3>6
  <2>9. AloneTracked'
    BY <1>2, <1>5, <1>8, <2>8 DEF AloneTracked
  <2> QED
    BY <1>7, <2>7, <2>9 DEF Step, ListInv
<1> QED
  BY <1>3, <1>10, <1>11

(* When nobody is left alone on a title, there is nothing to keep track of.*)
LEMMA NobodyAlone ==
  ASSUME ListTypeOK', ListLeft, \A j \in DOMAIN touches' : touches'[j].alone => touches'[j].on = None
  PROVE  Step
BY DEF Step, ListInv, AloneTracked

LEMMA TouchEndStep ==
  ASSUME ListInv, NEW i \in DOMAIN touches, TouchEnd(i) PROVE Step
<1> DEFINE f == touches[i]
           n == Len(touches)
           rest == RemoveAt(touches, i)
<1>1. ListTypeOK /\ AloneTracked
  BY DEF ListInv
<1>2. touches \in Seq(Finger) /\ n \in Nat /\ n <= Fingers /\ SUPPORTS_TOUCH \in BOOLEAN
  BY <1>1 DEF ListTypeOK
<1>3. i \in 1..n /\ f \in Finger /\ f.on \in Titles \cup {None} /\ DOMAIN touches = 1..n
  BY <1>2, FingerFields
<1>4. /\ rest \in Seq(Finger) /\ Len(rest) = n - 1
      /\ \A j \in 1..(n - 1) : \E k \in 1..n : rest[j] = touches[k]
  BY <1>2, <1>3, RemoveType
<1>5. touches' = Kept(rest) /\ UNCHANGED SUPPORTS_TOUCH
  BY DEF TouchEnd
<1>6. SameFingers(rest, touches')
  BY <1>4, <1>5, KeptType
<1>7. touches' \in Seq(Finger) /\ Len(touches') <= Fingers /\ DOMAIN touches' = 1..(n - 1)
  BY <1>2, <1>3, <1>4, <1>6, BoundAssumption DEF SameFingers
<1> HIDE DEF rest, f
<1>8. ListLeft /\ plugin' \in [Titles -> Instance] /\ \A k \in Titles : plugin'[k].bound <= MaxBound
  <2>1. CASE f.on # None /\ EndOn(f.on, f.icon, FALSE)
    BY <1>1, <1>3, <2>1, EndOnLeft
  <2>2. CASE UNCHANGED plugin /\ (Unheard \/ ClickOutside)
    BY <1>1, <2>2, OthersLeft DEF ListTypeOK
  <2> QED
    BY <2>1, <2>2 DEF TouchEnd, f
<1>9. ListTypeOK'
  BY <1>2, <1>5, <1>7, <1>8, TypeLeft
<1>10. ASSUME NEW j \in 1..(n - 1), touches'[j].alone PROVE touches'[j].on = None
  <2>1. rest[j].alone
    BY <1>4, <1>6, <1>10 DEF SameFingers
  <2>2. PICK k \in 1..n : rest[j] = touches[k]
    BY <1>4
  <2>3. n # 1
    <3> HIDE DEF n
    <3> QED
      BY <1>2
  <2>4. touches[k].alone /\ touches[k].on = None
    BY <1>1, <1>3, <2>1, <2>2, <2>3 DEF AloneTracked
  <2>5. rest[j] \in Finger /\ rest[j].on = None
    BY <1>4, <2>2, <2>4
  <2>6. Kept(rest)[j].on = None
    <3>1. j \in DOMAIN rest
      BY <1>4
    <3>2. [rest[j] EXCEPT !.on = None, !.icon = FALSE].on = None
      BY <2>5 DEF Finger
    <3> QED
      BY <2>5, <3>1, <3>2 DEF Kept
  <2> QED
    BY <1>5, <2>6
<1> QED
  BY <1>7, <1>8, <1>9, <1>10, NobodyAlone

LEMMA TouchCancelStep == ASSUME ListInv, TouchCancel PROVE Step
<1>1. ListTypeOK
  BY DEF ListInv
<1>2. /\ touches' = <<>> /\ Unheard /\ UNCHANGED SUPPORTS_TOUCH
      /\ plugin' = [h \in Titles |-> IF \E i \in DOMAIN touches : touches[i].on = h
                                     THEN Cancelled(plugin[h]) ELSE plugin[h]]
  BY DEF TouchCancel
<1>3. ASSUME NEW h \in Titles
      PROVE  /\ plugin[h] \in Instance /\ plugin[h].bound <= MaxBound
             /\ Cancelled(plugin[h]) \in Instance /\ Cancelled(plugin[h]).bound <= MaxBound
  BY <1>1, CancelledType DEF ListTypeOK
<1>4. plugin' \in [Titles -> Instance] /\ \A h \in Titles : plugin'[h].bound <= MaxBound
  BY <1>2, <1>3
<1>5. touches' \in Seq(Finger) /\ Len(touches') <= Fingers /\ DOMAIN touches' = {}
  BY <1>2, BoundAssumption
<1>6. ListLeft
  BY <1>1, <1>2, OthersLeft
<1>7. ListTypeOK'
  BY <1>1, <1>2, <1>4, <1>5, <1>6, TypeLeft DEF ListTypeOK
<1> QED
  BY <1>5, <1>6, <1>7, NobodyAlone

LEMMA MouseDownStep ==
  ASSUME ListInv, NEW point \in Points, MouseDown(point) PROVE Step
<1> DEFINE h == TitleAt(point)
           alone == h # None => plugin[h].bound = 0
           finger == [on |-> h, icon |-> OnIcon(point), from |-> point, at |-> point,
                      alone |-> alone]
           at == <<point>>
<1>1. ListTypeOK /\ AloneTracked
  BY DEF ListInv
<1>2. ~SUPPORTS_TOUCH /\ h \in Titles \cup {None}
  BY TitleAtType DEF MouseDown
<1>3. /\ touches' = <<finger>>
      /\ plugin' = IF h = None THEN plugin ELSE [plugin EXCEPT ![h] = touchStart(@, at)]
      /\ h # None => plugin[h].bound < MaxBound
      /\ Unheard /\ UNCHANGED SUPPORTS_TOUCH
  BY DEF MouseDown
<1>4. alone \in BOOLEAN
  OBVIOUS
<1> HIDE DEF alone
<1>5. /\ finger \in Finger /\ finger.on = h /\ finger.from = point /\ finger.at = point
      /\ finger.alone = alone
  BY <1>4, NewFinger
<1> HIDE DEF h, finger
<1>6. /\ touches' \in Seq(Finger) /\ Len(touches') = 1 /\ Len(touches') <= Fingers
      /\ DOMAIN touches' = {1} /\ touches'[1] = finger
  BY <1>3, <1>5, BoundAssumption
<1>7. at \in Seq(Points) /\ Len(at) = 1 /\ at[1] = point
  OBVIOUS
<1> HIDE DEF at
<1>8. ListLeft
  BY <1>1, <1>3, OthersLeft
<1>9. SUPPORTS_TOUCH \in BOOLEAN
  BY <1>1 DEF ListTypeOK
<1>10. CASE h = None
  <2>1. plugin' \in [Titles -> Instance] /\ \A k \in Titles : plugin'[k].bound <= MaxBound
    BY <1>1, <1>3, <1>10 DEF ListTypeOK
  <2>2. ListTypeOK'
    BY <1>3, <1>6, <1>8, <1>9, <2>1, TypeLeft
  <2> QED
    BY <1>5, <1>6, <1>8, <1>10, <2>2, NobodyAlone
<1>11. CASE h \in Titles
  <2> DEFINE p == plugin[h]
             q == touchStart(p, at)
  <2>1. p \in Instance /\ p.bound \in Nat /\ p.bound < MaxBound
    BY <1>1, <1>3, <1>11, NoTitle, InstanceFields DEF ListTypeOK
  <2>2. Started(p, q, at[1], 1)
    <3>1. Len(at) > 0
      BY <1>7
    <3>2. Started(p, q, at[1], Len(at))
      BY <1>7, <2>1, <3>1, StartType
    <3> QED
      BY <1>7, <3>2
  <2>3. plugin' = [plugin EXCEPT ![h] = q]
    BY <1>3, <1>11, NoTitle
  <2>4. alone <=> p.bound = 0
    BY <1>11, NoTitle DEF alone
  <2> HIDE DEF p, q
  <2>5. /\ q \in Instance /\ q.bound <= MaxBound /\ q.bound = p.bound + 1 /\ q.phase = "start"
        /\ q.start = point /\ q.end = point
    BY <1>2, <1>7, <2>1, <2>2, BoundAssumption DEF Started
  <2>6. plugin' \in [Titles -> Instance] /\ \A k \in Titles : plugin'[k].bound <= MaxBound
    BY <1>1, <1>11, <2>3, <2>5, EventType
  <2>7. ListTypeOK'
    BY <1>3, <1>6, <1>8, <1>9, <2>6, TypeLeft
  <2>8. plugin'[h] = q
    BY <1>1, <1>11, <2>3 DEF ListTypeOK
  <2>9. alone => q.bound = 1
    BY <2>4, <2>5
  <2>10. AloneTracked'
    BY <1>2, <1>3, <1>5, <1>6, <2>1, <2>5, <2>8, <2>9 DEF AloneTracked
  <2> QED
    BY <1>8, <2>7, <2>10 DEF Step, ListInv
<1> QED
  BY <1>2, <1>10, <1>11

LEMMA MouseMoveStep ==
  ASSUME ListInv, NEW point \in Points, MouseMove(point) PROVE Step
<1> DEFINE h == TitleAt(point)
           at == <<point>>
           n == Len(touches)
<1>1. ListTypeOK /\ AloneTracked
  BY DEF ListInv
<1>2. /\ ~SUPPORTS_TOUCH /\ h \in Titles \cup {None} /\ SUPPORTS_TOUCH \in BOOLEAN
      /\ touches \in Seq(Finger) /\ n \in Nat /\ n <= Fingers
      /\ DOMAIN touches = 1..n /\ \A i \in 1..n : touches[i] \in Finger
  BY <1>1, TitleAtType DEF ListTypeOK, MouseMove
<1>3. /\ touches' = [i \in DOMAIN touches |-> AtPoint(touches[i], point)]
      /\ plugin' = IF h = None THEN plugin ELSE [plugin EXCEPT ![h] = touchMove(@, at)]
      /\ Unheard /\ UNCHANGED SUPPORTS_TOUCH
  BY DEF MouseMove, AtPoint
<1>4. AllAt(touches, touches', point)
  BY <1>2, <1>3, MovedAll
<1>5. touches' \in Seq(Finger) /\ Len(touches') = n /\ DOMAIN touches' = 1..n
  BY <1>2, <1>4 DEF AllAt
<1>6. ASSUME NEW i \in 1..n
      PROVE  /\ touches'[i].at = point /\ touches'[i].on = touches[i].on
             /\ touches'[i].from = touches[i].from /\ touches'[i].alone = touches[i].alone
  <2> DEFINE f == touches[i]
             moved == AtPoint(f, point)
  <2>1. touches'[i] = moved
    BY <1>4 DEF AllAt
  <2>2. moved.at = point /\ moved.on = f.on /\ moved.from = f.from /\ moved.alone = f.alone
    BY <1>2, FingerMoved
  <2> HIDE DEF moved
  <2> QED
    BY <2>1, <2>2
<1>7. at \in Seq(Points) /\ Len(at) = 1 /\ at[1] = point
  OBVIOUS
<1> HIDE DEF at
<1>8. ListLeft
  BY <1>1, <1>3, OthersLeft
<1>9. ASSUME NEW i \in 1..n, touches'[i].alone, touches'[i].on # None
      PROVE  /\ touches[i].on \in Titles /\ n = 1
             /\ LET p == plugin[touches[i].on] IN
                /\ p.start = touches[i].from /\ p.phase \in {"start", "move"} /\ p.bound = 1
  <2>1. touches[i].alone /\ touches[i].on # None /\ touches[i].on \in Titles
    BY <1>2, <1>6, <1>9, FingerFields
  <2> QED
    BY <1>1, <1>2, <2>1 DEF AloneTracked
<1> HIDE DEF n
<1>10. CASE h = None
  <2>1. plugin' \in [Titles -> Instance] /\ \A k \in Titles : plugin'[k].bound <= MaxBound
    BY <1>1, <1>3, <1>10 DEF ListTypeOK
  <2>2. ListTypeOK'
    BY <1>2, <1>3, <1>5, <1>8, <2>1, TypeLeft
  <2>3. AloneTracked'
    BY <1>2, <1>3, <1>5, <1>6, <1>9, <1>10 DEF AloneTracked, TitleAt, h
  <2> QED
    BY <1>8, <2>2, <2>3 DEF Step, ListInv
<1>11. CASE h \in Titles
  <2> DEFINE p == plugin[h]
             q == touchMove(p, at)
  <2>1. p \in Instance /\ p.bound <= MaxBound
    BY <1>1, <1>11 DEF ListTypeOK
  <2>2. Moved(p, q, at[1], 1)
    <3>1. Len(at) > 0
      BY <1>7
    <3>2. Moved(p, q, at[1], Len(at))
      BY <1>7, <2>1, <3>1, MoveType
    <3> QED
      BY <1>7, <3>2
  <2>3. plugin' = [plugin EXCEPT ![h] = q]
    BY <1>3, <1>11, NoTitle
  <2>4. plugin[h] = p
    OBVIOUS
  <2> HIDE DEF p, q
  <2>5. q \in Instance /\ q.bound = p.bound /\ q.bound <= MaxBound
    BY <2>1, <2>2 DEF Moved
  <2>6. plugin' \in [Titles -> Instance] /\ \A k \in Titles : plugin'[k].bound <= MaxBound
    BY <1>1, <1>11, <2>3, <2>5, EventType
  <2>7. ListTypeOK'
    BY <1>2, <1>3, <1>5, <1>8, <2>6, TypeLeft
  <2>8. plugin'[h] = q /\ \A k \in Titles : k # h => plugin'[k] = plugin[k]
    BY <1>1, <1>11, <2>3 DEF ListTypeOK
  <2>9. ASSUME NEW i \in 1..n, touches'[i].alone, touches'[i].on # None
        PROVE  LET f == touches'[i]
                   r == plugin'[f.on]
               IN  /\ r.start = f.from /\ r.phase \in {"start", "move"} /\ r.bound = 1
                   /\ TitleAt(f.at) = f.on => r.end = f.at
    <3>1. CASE touches[i].on = h
      <4>1. p.start = touches[i].from /\ p.phase \in {"start", "move"} /\ p.bound = 1
        BY <1>9, <2>4, <2>9, <3>1
      <4>2. q.start = p.start /\ q.phase = "move" /\ q.end = point
        BY <1>2, <1>7, <2>2, <4>1 DEF Moved
      <4> QED
        BY <1>6, <2>5, <2>8, <3>1, <4>1, <4>2
    <3>2. CASE touches[i].on # h
      <4>1. TitleAt(touches'[i].at) # touches'[i].on
        BY <1>6, <3>2 DEF h
      <4> QED
        BY <1>6, <1>9, <2>8, <2>9, <3>2, <4>1
    <3> QED
      BY <3>1, <3>2
  <2>10. AloneTracked'
    BY <1>2, <1>3, <1>5, <1>9, <2>9 DEF AloneTracked, TitleAt
  <2> QED
    BY <1>8, <2>7, <2>10 DEF Step, ListInv
<1> QED
  BY <1>2, <1>10, <1>11

LEMMA MouseUpStep == ASSUME ListInv, MouseUp PROVE Step
<1> DEFINE press == touches[1]
           h == TitleAt(press.at)
<1>1. ListTypeOK
  BY DEF ListInv
<1>2. h \in Titles \cup {None} /\ touches' = <<>> /\ UNCHANGED SUPPORTS_TOUCH
  BY TitleAtType DEF MouseUp
<1>3. ListLeft /\ plugin' \in [Titles -> Instance] /\ \A k \in Titles : plugin'[k].bound <= MaxBound
  <2>1. ASSUME NEW clicked, h # None, EndOn(h, OnIcon(press.at), clicked)
        PROVE  ListLeft /\ plugin' \in [Titles -> Instance] /\ \A k \in Titles : plugin'[k].bound <= MaxBound
    BY <1>1, <1>2, <2>1, EndOnLeft
  <2>2. CASE /\ UNCHANGED plugin
             /\ ClickOutside \/ (icons' \in {icons, {}} /\ UNCHANGED <<selected, collapse>>)
    BY <1>1, <2>2, OthersLeft DEF ListTypeOK
  <2> QED
    BY <2>1, <2>2 DEF MouseUp
<1>4. touches' \in Seq(Finger) /\ Len(touches') <= Fingers /\ DOMAIN touches' = {}
  BY <1>2, BoundAssumption
<1>5. ListTypeOK'
  BY <1>1, <1>2, <1>3, <1>4, TypeLeft DEF ListTypeOK
<1> QED
  BY <1>3, <1>4, <1>5, NobodyAlone

LEMMA ReloadStep == ASSUME ListInv, Reload PROVE Step
<1>1. ListTypeOK /\ touches \in Seq(Finger)
  BY DEF ListInv, ListTypeOK
<1>2. /\ plugin' = [h \in Titles |-> Idle] /\ icons' = {} /\ selected' = {}
      /\ touches' = [i \in DOMAIN touches |-> Orphaned(touches[i])]
      /\ UNCHANGED <<SUPPORTS_TOUCH, collapse>>
  BY DEF Reload, Orphaned
<1>3. /\ touches' \in Seq(Finger) /\ Len(touches') = Len(touches)
      /\ \A i \in 1..Len(touches) : touches'[i].on = None
  BY <1>1, <1>2, Orphans
<1>4. DOMAIN touches' = 1..Len(touches) /\ Len(touches') <= Fingers
  BY <1>1, <1>3 DEF ListTypeOK
<1>5. Idle \in Instance /\ Idle.bound <= MaxBound
  BY BoundAssumption DEF Idle, Instance
<1>6. ListLeft
  BY <1>1, <1>2, OthersLeft
<1>7. plugin' \in [Titles -> Instance] /\ \A k \in Titles : plugin'[k].bound <= MaxBound
  BY <1>2, <1>5
<1>8. ListTypeOK'
  BY <1>1, <1>2, <1>3, <1>4, <1>6, <1>7, TypeLeft DEF ListTypeOK
<1> QED
  BY <1>3, <1>4, <1>6, <1>8, NobodyAlone

LEMMA NextList == ListInv /\ [Next]_vars => Step
<1> SUFFICES ASSUME ListInv, [Next]_vars PROVE Step
  OBVIOUS
<1>1. CASE Next
  BY <1>1, TouchStartStep, TouchMoveStep, TouchEndStep, TouchCancelStep,
     MouseDownStep, MouseMoveStep, MouseUpStep, ReloadStep DEF Next
<1>2. CASE UNCHANGED vars
  BY <1>2 DEF vars, Step, ListInv, ListTypeOK, AloneTracked, ListLeft, OneIcon, TitleAt
<1> QED
  BY <1>1, <1>2

-----------------------------------------------------------------------------
(* ListInv is an inductive invariant of the list: the types of what        *)
(* script.js and the plugin keep, and that the plugin of the title under a *)
(* finger alone knows where the finger came down and where it is.          *)
THEOREM ListInvariant == Spec => []ListInv
<1>1. Init => ListInv
  BY InitList
<1>2. ListInv /\ [Next]_vars => ListInv'
  BY NextList DEF Step
<1> QED
  BY <1>1, <1>2, PTL DEF Spec

(* swipeCallback and clickCallback never leave two delete icons in the     *)
(* list, whatever touches were cut off, listeners left bound, and lists    *)
(* reloaded between.                                                       *)
THEOREM SingleIcon == Spec => []OneIcon
<1>1. Init => OneIcon
  BY InitList
<1>2. ListInv /\ OneIcon /\ [Next]_vars => OneIcon'
  BY NextList DEF Step, ListLeft
<1> QED
  BY <1>1, <1>2, ListInvariant, PTL DEF Spec

(* On a touch screen touchEnd calls the page back at most once, however    *)
(* often it is bound: what the first run leaves is no gesture.             *)
THEOREM SingleCallback == Spec => []OneCallback
<1>1. ListInv => OneCallback
  <2> SUFFICES ASSUME ListInv, SUPPORTS_TOUCH, NEW h \in Titles,
                      NEW i \in 1..plugin[h].bound, NEW j \in 1..plugin[h].bound,
                      Callback(h, i) # "none", Callback(h, j) # "none"
               PROVE  i = j
    BY DEF OneCallback
  <2>1. plugin[h] \in Instance
    BY DEF ListInv, ListTypeOK
  <2> QED
    BY <2>1, LaterRuns DEF Callback
<1> QED
  BY <1>1, ListInvariant, PTL

-----------------------------------------------------------------------------
(* Only the end of a touch, or the release of the mouse over the title,    *)
(* ends a gesture alone.                                                   *)
LEMMA EndsByEnd ==
  ASSUME ListInv, [Next]_vars, NEW i \in DOMAIN touches, EndsAlone(touches[i])
  PROVE  \E onIcon : ~onIcon /\ EndOn(touches[i].on, onIcon, FALSE)
<1> DEFINE f == touches[i]
           h == f.on
           n == Len(touches)
<1>1. /\ ListTypeOK /\ AloneTracked /\ touches \in Seq(Finger)
      /\ f.alone /\ h # None /\ ~f.icon /\ touches' = <<>>
      /\ plugin[h].bound > 0 /\ plugin'[h].bound = 0
      /\ SUPPORTS_TOUCH \/ (TitleAt(f.at) = h /\ ~OnIcon(f.at))
  BY DEF ListInv, ListTypeOK, EndsAlone
<1>2. n = 1 /\ DOMAIN touches = {1} /\ i = 1 /\ f \in Finger /\ h \in Titles
  <2>1. n = 1
    BY <1>1 DEF AloneTracked
  <2> QED
    BY <1>1, <2>1, FingerFields
<1>3. Len(touches') = 0
  BY <1>1
<1>4. ASSUME NEW point \in Points, TouchStart(point) PROVE FALSE
  <2> DEFINE others == [k \in DOMAIN touches |-> NotAlone(touches[k])]
             finger == [on |-> TitleAt(point), icon |-> OnIcon(point), from |-> point, at |-> point,
                        alone |-> touches = <<>>]
  <2>1. touches' = Append(others, finger)
    BY <1>4 DEF TouchStart, NotAlone
  <2>2. others \in Seq(Finger)
    BY <1>1, OthersNotAlone
  <2> HIDE DEF others, finger
  <2> QED
    BY <1>1, <2>1, <2>2
<1>5. ASSUME NEW k \in DOMAIN touches, NEW point \in Points, TouchMove(k, point) PROVE FALSE
  <2>1. touches' = [touches EXCEPT ![k].at = point]
    BY <1>5 DEF TouchMove
  <2>2. OneAt(touches, touches', k, point)
    BY <1>1, <2>1, MovedOne
  <2> QED
    BY <1>2, <1>3, <2>2 DEF OneAt
<1>6. ASSUME NEW k \in DOMAIN touches, TouchEnd(k) PROVE EndOn(h, f.icon, FALSE)
  <2>1. k = i
    BY <1>2
  <2> QED
    BY <1>1, <1>6, <2>1 DEF TouchEnd
<1>7. CASE TouchCancel
  <2>1. plugin[h] \in Instance
    BY <1>1, <1>2 DEF ListTypeOK
  <2>2. plugin'[h] = plugin[h] \/ plugin'[h] = Cancelled(plugin[h])
    BY <1>2, <1>7 DEF TouchCancel
  <2> QED
    BY <1>1, <2>1, <2>2, CancelledType, InstanceFields
<1>8. ASSUME NEW point \in Points, MouseDown(point) PROVE FALSE
  BY <1>2, <1>8 DEF MouseDown
<1>9. ASSUME NEW point \in Points, MouseMove(point) PROVE FALSE
  <2>1. touches' = [k \in DOMAIN touches |-> AtPoint(touches[k], point)]
    BY <1>9 DEF MouseMove, AtPoint
  <2>2. AllAt(touches, touches', point)
    BY <1>1, <2>1, MovedAll
  <2> QED
    BY <1>2, <1>3, <2>2 DEF AllAt
<1>10. CASE MouseUp
  <2>1. TitleAt(f.at) = h /\ ~OnIcon(f.at) /\ f = touches[1]
    BY <1>1, <1>2, <1>10 DEF MouseUp
  <2>2. EndOn(h, OnIcon(f.at), FALSE)
    BY <1>1, <1>10, <2>1 DEF MouseUp
  <2> QED
    BY <2>1, <2>2
<1>11. CASE Reload
  <2>1. touches' = [k \in DOMAIN touches |-> Orphaned(touches[k])]
    BY <1>11 DEF Reload, Orphaned
  <2>2. Len(touches') = n
    BY <1>1, <2>1, Orphans
  <2> QED
    BY <1>2, <1>3, <2>2
<1>12. CASE UNCHANGED vars
  BY <1>2, <1>3, <1>12 DEF vars
<1> QED
  BY <1>1, <1>4, <1>5, <1>6, <1>7, <1>8, <1>9, <1>10, <1>11, <1>12 DEF Next

(* What the one run that calls back is given decides.                      *)
LEMMA GestureStep ==
  ASSUME ListInv, OneIcon, [Next]_vars, NEW i \in DOMAIN touches, EndsAlone(touches[i])
  PROVE  TakenForWhatItIs(touches[i])
<1> DEFINE f == touches[i]
           h == f.on
           p == plugin[h]
           callback == triggerHandler(p)
<1>1. /\ ListTypeOK /\ AloneTracked /\ touches \in Seq(Finger) /\ SUPPORTS_TOUCH \in BOOLEAN
      /\ f.alone /\ h # None /\ p.bound > 0 /\ (SUPPORTS_TOUCH \/ TitleAt(f.at) = h)
  BY DEF ListInv, ListTypeOK, EndsAlone
<1>2. f \in Finger /\ f.from \in Points /\ f.at \in Points /\ h \in Titles
  BY <1>1, FingerFields
<1>3. p \in Instance /\ p.bound \in Nat /\ Now \in Ui
  BY <1>1, <1>2, InstanceFields DEF ListTypeOK, Now, Ui
<1>4. /\ p.start = f.from /\ p.end = f.at /\ Single(p)
      /\ SUPPORTS_TOUCH \/ p.bound = 1
  BY <1>1 DEF AloneTracked, Single
<1>5. PICK onIcon : ~onIcon /\ EndOn(h, onIcon, FALSE)
  BY EndsByEnd
<1>6. ASSUME NEW k \in 1..p.bound, k # 1 PROVE Callback(h, k) = "none"
  BY <1>3, <1>4, <1>6, LaterRuns DEF Callback
<1>7. AfterEnd(h, onIcon) = Called(Now, callback, h, onIcon)
  BY <1>1, <1>2, <1>3, <1>6, AfterFirst
<1> DEFINE ui == Called(Now, callback, h, onIcon)
<1>8. icons' = ui.icons /\ selected' = ui.selected
  BY <1>5, <1>7 DEF EndOn
<1> HIDE DEF callback
<1>9. CASE f.at = f.from
  <2>1. ~validateSwipeDistance(f.from, f.at)
    BY <1>2, <1>9, PositionAssumption DEF validateSwipeDistance, Sq
  <2>2. callback = "click"
    BY <1>4, <1>9, <2>1 DEF callback, triggerHandler, EndPhase
  <2>3. ui.icons = {} /\ ui.selected = IF h \in selected THEN {} ELSE {h}
    BY <1>5, <2>2 DEF Called, clickCallback, Now
  <2> HIDE DEF ui
  <2> QED
    BY <1>8, <1>9, <2>3 DEF TakenForWhatItIs
<1>10. CASE /\ f.at # f.from /\ validateSwipeDistance(f.from, f.at)
            /\ Horizontal(f.from, f.at) /\ f.at.x # 0
  <2>1. callback = "swipe"
    BY <1>4, <1>10 DEF callback, triggerHandler, EndPhase
  <2>2. ui.icons = (IF h \in icons THEN icons \ {h} ELSE {h}) /\ ui.selected = selected
    BY <1>5, <2>1 DEF Called, swipeCallback, Now
  <2>3. (IF h \in icons THEN icons \ {h} ELSE {h}) = {h} \ icons
    BY DEF OneIcon
  <2> HIDE DEF ui
  <2> QED
    BY <1>8, <1>10, <2>2, <2>3 DEF TakenForWhatItIs
<1>11. CASE /\ f.at # f.from
            /\ ~(/\ validateSwipeDistance(f.from, f.at)
                 /\ Horizontal(f.from, f.at) /\ f.at.x # 0)
  <2>1. callback = "none"
    BY <1>4, <1>11 DEF callback, triggerHandler, EndPhase
  <2>2. ui.icons = icons /\ ui.selected = selected
    BY <2>1 DEF Called, Now
  <2> HIDE DEF ui
  <2> QED
    BY <1>8, <1>11, <2>2 DEF TakenForWhatItIs
<1> QED
  BY <1>9, <1>10, <1>11

(* The plugin takes the gesture of a finger alone for what it is, on touch *)
(* screens and with a mouse, after any history of touches cut off, second  *)
(* fingers and reloads.                                                    *)
THEOREM GestureTaken == Spec => AloneGesture
<1>1. ListInv /\ OneIcon /\ [Next]_vars
        => \A i \in DOMAIN touches : EndsAlone(touches[i]) => TakenForWhatItIs(touches[i])
  BY GestureStep
<1> QED
  BY <1>1, ListInvariant, SingleIcon, PTL DEF Spec, AloneGesture
=============================================================================
