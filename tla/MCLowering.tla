----------------------------- MODULE MCLowering -----------------------------
EXTENDS Lowering
ArgNames == <<"x">>
NoArgs == << >>
=============================================================================
