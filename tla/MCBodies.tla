------------------------------ MODULE MCBodies ------------------------------
(***************************************************************************)
(* Bodies for model checking: the control-flow shapes that the expression  *)
(* lowering makes, each with every choice of one statement in three of its *)
(* blocks.  Local 3 is x (an input when args = 1), local 4 is y.           *)
(***************************************************************************)
EXTENDS Mir

x == 3
y == 4

Stmt(op, to, moved, read) == [op |-> op, to |-> to, moved |-> moved, read |-> read]
StmtChoices == {
  << >>,
  <<Stmt("Write", {y}, {COROUTINE_ARGS}, {})>>,
  <<Stmt("Write", {y}, {x}, {})>>,
  <<Stmt("Write", {x}, {x}, {y})>>,
  <<Stmt("Write", {x, y}, {}, {}), Stmt("Dead", {y}, {}, {})>> }

TermTo(op, succ, moved) ==
  [op |-> op, succ |-> succ, moved |-> moved, read |-> {},
   binds |-> [k \in 1..Len(succ) |-> IF op = "Suspend" THEN {COROUTINE_ARGS} ELSE {}]]
MatchTo(succ, binds) ==
  [op |-> "Match", succ |-> succ, moved |-> {x}, read |-> {}, binds |-> binds]

Goto(b) == TermTo("Goto", <<b>>, {})
Ret == TermTo("Return", << >>, {})

\* The terminators of blocks 1, 2, ... of each shape, and the three blocks that
\* have a choice of statements, the last of them block 3 or 4.
Shapes == {
  \* if c { 2 } else { 3 }
  <<<<TermTo("If", <<2, 3>>, {}), Goto(4), Goto(4), Ret>>, {1, 2, 3}>>,
  \* while c { 4 }, exit 3
  <<<<Goto(2), TermTo("If", <<4, 3>>, {}), Ret, Goto(2)>>, {1, 2, 4}>>,
  \* while c { 4: continue; dead code 5 }, exit 3
  <<<<Goto(2), TermTo("If", <<4, 3>>, {}), Ret, TermTo("Break", <<2, 5>>, {}), Goto(2)>>, {1, 2, 4}>>,
  \* loop { break; dead code 4 }, exit 3
  <<<<Goto(2), TermTo("Break", <<3, 4>>, {}), Ret, Goto(2)>>, {1, 2, 4}>>,
  \* loop { suspend }, whose exit 3 nothing reaches
  <<<<Goto(2), TermTo("Suspend", <<4>>, {y}), Ret, Goto(2)>>, {1, 2, 4}>>,
  \* if c { 2 } else { loop { suspend } }, whose exit 3 feeds the join 5
  <<<<TermTo("If", <<2, 4>>, {}), Goto(5), Goto(5), TermTo("Suspend", <<4>>, {}), Ret>>, {1, 2, 4}>>,
  \* match x { y => 2, _ => 3 } with a suspension in the first arm
  <<<<MatchTo(<<2, 3>>, <<{y}, {}>>), TermTo("Suspend", <<4>>, {}), Goto(5), Goto(5), Ret>>, {1, 2, 3}>> }

\* The blocks of a shape: as terms and chosen say, in every combination.
BlockChoices(terms, chosen, b) ==
  [stmts : IF b \in chosen THEN StmtChoices ELSE {<< >>}, term : {terms[b]}]

BodyChoices(terms, chosen) ==
  LET C(b) == BlockChoices(terms, chosen, b)
  IN [nlocals : {4}, args : {0, 1},
      blocks : IF Len(terms) = 4 THEN C(1) \X C(2) \X C(3) \X C(4)
               ELSE C(1) \X C(2) \X C(3) \X C(4) \X C(5)]

Bodies == UNION {BodyChoices(s[1], s[2]) : s \in Shapes}
=============================================================================
