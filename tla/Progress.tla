------------------------------ MODULE Progress ------------------------------
(***************************************************************************)
(* What a player can reach on the first planet by production alone: the    *)
(* prerequisites (game/tech_tree.go), the growing costs (game/formulas.go) *)
(* and the storage that caps the stockpile.  Prerequisites and stores only *)
(* grow: a step of Spec advances everything that is unlocked and fits into *)
(* the stores by one level, one behaviour that TLC runs to its end.  A     *)
(* player advances one thing at a time, in an order of his own (AnyOrder). *)
(***************************************************************************)
EXTENDS ProgressState

Ready == {x \in Items : CanAdvance(x)}

TypeOK == level \in [Items -> 0..20]

Init == level = [x \in Items |-> 0]

Develop ==
  /\ Ready # {}
  /\ level' = [x \in Items |-> IF x \in Ready THEN level[x] + 1 ELSE level[x]]

Next == Develop

Spec == Init /\ [][Next]_level

\* The player orders one level of something.
Advance(x) ==
  /\ CanAdvance(x)
  /\ level' = [level EXCEPT ![x] = @ + 1]

AnyOrder == Init /\ [][\E x \in Items : Advance(x)]_level

\* He may also want levels that nobody asks for.
Build(x) ==
  /\ Buildable(x)
  /\ level' = [level EXCEPT ![x] = @ + 1]

AnyLevel == Init /\ [][\E x \in Items : Build(x)]_level
=============================================================================
