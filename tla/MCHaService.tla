---------------------------- MODULE MCHaService -----------------------------
(***************************************************************************)
(* Instances of HaService for TLC.                                         *)
(***************************************************************************)
EXTENDS HaService, TLC

CONSTANTS n1, n2, x, y

Put(id, i) == [id |-> id, add |-> {i}, remove |-> {}]
Delete(id, i) == [id |-> id, add |-> {}, remove |-> {i}]

\* Writes that never bring an earlier state back.
Growing == {Put(1, x), Put(2, y)}

\* Writes that bring a state back.
Returning == {Put(1, x), Delete(2, x), Put(3, x)}

Symmetry == Permutations({n1, n2})
=============================================================================
