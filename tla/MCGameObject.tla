----------------------------- MODULE MCGameObject -----------------------------
(* The instance of GameObject that TLC checks: any five calls build the tree    *)
(* and act on it, from OnUpdate() or from a callback.                           *)
EXTENDS GameObject
=============================================================================
