--------------------------- MODULE MCBridgeManager ---------------------------
(* The manager under every client: any operation, in any order, with any     *)
(* arguments, on two containers of two items.                                *)
EXTENDS BridgeManager, TLC

Symmetry == Permutations(Containers) \cup Permutations(Requests)
              \cup Permutations(Items)
=============================================================================
