-------------------------- MODULE MCInferencePivot --------------------------
(***************************************************************************)
(* Instances of InferencePivot: two sessions with a callback each, one     *)
(* inside the other; and a third one after them, whose callback may get    *)
(* the address of the first.                                               *)
(***************************************************************************)
EXTENDS InferencePivot, TLC

CONSTANTS root, pivot, outer, inner, next, x, y, z

NestedParent == pivot :> root @@ outer :> root @@ inner :> outer
NestedScopes == x :> outer @@ y :> inner
NestedHeap   == x :> {1} @@ y :> {2}

ThenParent == NestedParent @@ next :> root
ThenScopes == NestedScopes @@ z :> next
ThenHeap   == NestedHeap @@ z :> {1}
=============================================================================
