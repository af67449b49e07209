---------------------------- MODULE MCTranslate ----------------------------
(* Bodies over an input "x", and over an input no variable has the name of. *)
EXTENDS Translate
ArgNames == <<"x">>
OtherArg == <<"a">>
============================================================================
