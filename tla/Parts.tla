-------------------------------- MODULE Parts --------------------------------
(***************************************************************************)
(* Components that share no state are checked side by side (MCParts,       *)
(* MCLive): part names the one a behaviour is about, the others stand      *)
(* still, and a property is about the behaviours of its component.         *)
(***************************************************************************)
VARIABLE part

In(component) == part = component
=============================================================================
