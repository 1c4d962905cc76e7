---------------------------- MODULE MCInventory ----------------------------
(***************************************************************************)
(* Inputs with which TLC checks Inventory.                                 *)
(***************************************************************************)
EXTENDS Inventory, TLC

CONSTANTS p1, p2, c1, c2

\* Both orders of the same two products, one product twice, one unit.
OverlappingSales ==
  { <<Line(p1, -1, c1), Line(p2, -1, c1)>>, <<Line(p2, -1, c1), Line(p1, -1, c1)>>,
    <<Line(p1, -1, c1), Line(p1, -1, c1)>> }

EntriesAndExits == { Line(p1, 1, None), Line(p1, -1, None) }

Symmetry == Permutations(Ops)
=============================================================================
