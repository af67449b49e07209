----------------------------- MODULE MCSimplify -----------------------------
(* Graphs of four blocks, with cycles and blocks that nothing leads to. *)
EXTENDS Simplify

Block(stmts, ops, succ) == [stmts : stmts, op : ops, succ : succ]
Jumps(stmts) == Block(stmts, {"Goto"}, {<<t>> : t \in 1..4})
Ends(op, succ) == Block({FALSE}, {op}, succ)

\* The dead code after a Break may be the same block as its target.
Bodies ==
  Block({FALSE}, {"If"}, {<<1, 2>>, <<2, 3>>, <<2, 4>>, <<3, 4>>, <<3, 3>>})
    \X (Jumps({FALSE, TRUE}) \union Block({FALSE}, {"If"}, {<<s, t>> : s, t \in 3..4})
          \union Block({FALSE}, {"Match", "Break"}, {<<3, 3>>, <<4, 3>>}))
    \X (Jumps({FALSE, TRUE}) \union Ends("Suspend", {<<2>>}) \union Ends("Return", {<< >>}))
    \X (Jumps({FALSE, TRUE}) \union Ends("Return", {<< >>}))
=============================================================================
