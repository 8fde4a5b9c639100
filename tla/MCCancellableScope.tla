------------------------- MODULE MCCancellableScope -------------------------
(***************************************************************************)
(* An instance of CancellableScope: root -> left -> leaf.                  *)
(***************************************************************************)
EXTENDS CancellableScope, TLC

CONSTANTS root, left, leaf

ChainParent == left :> root @@ leaf :> left
=============================================================================
