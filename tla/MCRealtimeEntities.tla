------------------------ MODULE MCRealtimeEntities ------------------------
(* Small spaces for RealtimeEntities.                                      *)
EXTENDS RealtimeEntities, TLC

CONSTANTS a, b      \* two of the ids

HandleSymmetry == Permutations(Handles)

Object(i, p) == [id |-> i, type |-> "Object", parentId |-> p]

EmptySpace == {<<>>}

\* A child that was created before its parent.
ChildFirst == {<<Object(b, a), Object(a, NoParent)>>}
=============================================================================
