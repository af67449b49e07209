----------------------------- MODULE MCDesugar ------------------------------
(* All programs up to three constructs deep. *)
EXTENDS Desugar

Call == Node("call", << >>)

\* The constructs that program e can be a part of.
Around(e) ==
  {Node(mac, <<e>>) : mac \in {"yield_", "await", "moved", "try"}} \union
  {Node("block", <<Node("mac_stmt", <<Node(mac, <<e>>)>>), Call>>) : mac \in {"yield_", "await", "try"}} \union
  {Node("call", <<Call, e>>), Node("loop", <<e>>)} \union
  UNION {{Node(form, <<e, Call>>), Node(form, <<Call, e>>)} : form \in {"for", "while", "if_let", "while_let"}}

Deeper(programs) == UNION {Around(e) : e \in programs}
Simple == Deeper({Call})
Bodies ==
  LET one == Simple
      two == Deeper(one)
  IN one \union two \union Deeper(two)
=============================================================================
