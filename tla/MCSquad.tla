------------------------------- MODULE MCSquad -------------------------------
(* Small instances of Squad for TLC.                                         *)
EXTENDS Squad, TLC

\* A schedule without a slot, one that wants a slot out of two, and one that
\* falls back on a second set.
MCWants == {<<>>, <<{0, 1}>>, <<{0}, {1}>>}

\* Schedules that want the only slot, or none.
MCOneSlot == {<<>>, <<{0}>>}

\* Monsters and enemies are only ever compared for equality.
Symmetry == Permutations(Monsters) \cup Permutations(Enemies)
=============================================================================
