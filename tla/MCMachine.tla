----------------------------- MODULE MCMachine ------------------------------
(* The analysis, the generated code and its driver over all the bodies of    *)
(* MCBodies.                                                                 *)
EXTENDS Driver, MCBodies
=============================================================================
