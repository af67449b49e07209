------------------------------ MODULE MCPacked ------------------------------
(* The packed sets over all the bodies of MCBodies, with two words of three  *)
(* bits for their four locals.                                               *)
EXTENDS PackedSets, MCBodies
=============================================================================
