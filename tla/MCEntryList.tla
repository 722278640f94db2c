---------------------------- MODULE MCEntryList ----------------------------
(***************************************************************************)
(* A list of two titles for TLC: positions at the page's left edge, short  *)
(* and far to the side of each other, below each other, on the delete icon *)
(* of a title (x = 30), and outside of the titles.                         *)
(***************************************************************************)
EXTENDS EntryList

At(x, y) == [x |-> x, y |-> y]
MCPoints == {At(0, 10), At(30, 10), At(90, 10), At(30, 70), At(90, 70), At(90, 130)}
=============================================================================
