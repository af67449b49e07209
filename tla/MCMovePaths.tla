---------------------------- MODULE MCMovePaths -----------------------------
(***************************************************************************)
(* Bodies of two blocks over an input x (local 3), a static and *x: any    *)
(* statement in the first, a few in the second, so that moves of one path  *)
(* come from several locations.                                            *)
(***************************************************************************)
EXTENDS MovePaths

x == 3
Lvalues == {Local(COROUTINE_ARGS), Local(x), [base |-> Static, derefs |-> 0], [base |-> x, derefs |-> 1]}

Operand(mode, lval) == [mode |-> mode, lvalue |-> lval]
Operands == {Operand("Consume", v) : v \in Lvalues} \union {Operand("Copy", [base |-> x, derefs |-> 1])}
UpTo2(S) == {<< >>} \union {<<a>> : a \in S} \union {<<a, b>> : a, b \in S}

Effect(op, dests, uses) == [op |-> op, dests |-> dests, uses |-> uses]
Writes ==
  {Effect(op, <<Local(x)>>, u) : op \in {"Assign", "Call"}, u \in UpTo2(Operands)}
  \union {Effect(op, <<d>>, <<Operand("Consume", Local(x))>>) : op \in {"Assign", "Call"}, d \in Lvalues}
Lets == {Effect("Let", <<Local(COROUTINE_ARGS), Local(x)>>, <<u>>) : u \in Operands}
Others == {Effect("Stmt", << >>, << >>)} \union {Effect(op, <<Local(x)>>, << >>) : op \in {"Live", "Dead"}}
Terms ==
  {Effect("Goto", << >>, << >>), Effect("If", << >>, <<Operand("Consume", Local(x))>>)}
  \union {Effect(op, <<Local(COROUTINE_ARGS)>>, <<Operand("Consume", v)>>) :
            op \in {"Match", "Suspend"}, v \in {Local(x), [base |-> x, derefs |-> 1]}}

Second == Others \union {Effect("Assign", <<Local(x)>>, <<Operand("Consume", Local(x))>>)}
BlockSet(stmts, terms) == [stmts : {<<s>> : s \in stmts}, term : terms]
Bodies ==
  [nlocals : {3}, args : {1},
   blocks : BlockSet(Writes \union Lets \union Others, Terms)
              \X BlockSet(Second, {Effect("Return", << >>, << >>)})]
=============================================================================
