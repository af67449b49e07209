-------------------------------- MODULE Mir --------------------------------
(***************************************************************************)
(* The mid-level representation that every stage of the compiler shares    *)
(* (src/src/mir/mod.rs): a function is a sequence of basic blocks over a   *)
(* sequence of local declarations.                                         *)
(*                                                                         *)
(* Indices start at 1 here and at 0 in the code, so block b is the code's  *)
(* bb(b-1) and local l is its Local(l-1).                                  *)
(*                                                                         *)
(* A body m is a record                                                    *)
(*   m.blocks  sequence of [stmts |-> sequence of statements,              *)
(*                          term  |-> terminator]                          *)
(*   m.nlocals number of locals                                            *)
(*   m.args    number of declared function inputs                          *)
(*                                                                         *)
(* A statement is [op, to, moved, read].  "Write" stands for Assign, Call *)
(* and MethodCall, that differ only in how they are printed: each          *)
(* evaluates operands and then fills the locals in `to'.  So does "Let",   *)
(* with a pattern.  "Live" and "Dead" are StorageLive and StorageDead,     *)
(* "Stmt" is an opaque statement.                                          *)
(* `moved' are the locals of Operand::Consume operands, `read' those of    *)
(* Operand::Copy operands.                                                 *)
(*                                                                         *)
(* A terminator is [op, succ, binds, moved, read]: succ[k] is the k-th     *)
(* successor and binds[k] the locals the edge to it fills (the bindings of *)
(* a match arm, the destination of a suspension).                          *)
(***************************************************************************)
EXTENDS Integers, Sequences

START_BLOCK    == 1
RETURN_POINTER == 1
COROUTINE_ARGS == 2

StmtOps == {"Write", "Let", "Live", "Dead", "Stmt"}
TermOps == {"Goto", "If", "Break", "Match", "Suspend", "Return"}

Blocks(m) == 1..Len(m.blocks)
Locals(m) == 1..m.nlocals
Stmts(m, b) == m.blocks[b].stmts
Term(m, b) == m.blocks[b].term

\* Successors in order; a Break has its target and the block of the dead code
\* that follows it in the source.
successors(t) == t.succ

\* A location is <<block, index>>; the index after the last statement is the
\* terminator's.
TermIndex(m, b) == Len(Stmts(m, b)) + 1
AtTerm(m, b, i) == i = TermIndex(m, b)

(***************************************************************************)
(* The well-formedness that construction guarantees.                       *)
(***************************************************************************)
StatementSet(n) ==
  [op : StmtOps, to : SUBSET (1..n), moved : SUBSET (1..n), read : SUBSET (1..n)]

IsTerminator(t, n, k) ==
  /\ t.op \in TermOps
  /\ t.succ \in Seq(1..k)
  /\ t.binds \in Seq(SUBSET (1..n))
  /\ Len(t.binds) = Len(t.succ)
  /\ t.moved \in SUBSET (1..n)
  /\ t.read \in SUBSET (1..n)
  /\ t.op = "Return" => t.succ = << >>
  /\ t.op = "Goto" => Len(t.succ) = 1
  /\ t.op = "Suspend" => Len(t.succ) = 1 /\ t.binds[1] = {COROUTINE_ARGS}
  /\ t.op \in {"If", "Break"} => Len(t.succ) = 2
  /\ t.op \notin {"Match", "Suspend"} => \A i \in 1..Len(t.succ) : t.binds[i] = {}

\* The two asserts of Mir::new and Validate::on_mir_pass: every input has a
\* local, and every successor is a block of the body.
Validated(m) ==
  /\ m.nlocals >= m.args + 2
  /\ \A b \in Blocks(m) : \A i \in 1..Len(successors(Term(m, b))) :
       successors(Term(m, b))[i] \in Blocks(m)

IsBody(m) ==
  /\ m.args \in Nat
  /\ m.nlocals \in Nat
  /\ Len(m.blocks) \in Nat /\ Len(m.blocks) >= 1
  /\ \A b \in Blocks(m) :
       /\ Stmts(m, b) \in Seq(StatementSet(m.nlocals))
       /\ IsTerminator(Term(m, b), m.nlocals, Len(m.blocks))
  /\ Validated(m)

\* The locals that hold a value when the function starts: the coroutine's
\* argument and one local per declared input.
args_iter(m) == 2..(m.args + 2)

(***************************************************************************)
(* What a location does to the drop flags of the locals.  Operands are     *)
(* moved out first, then the destination is filled; StorageDead empties    *)
(* its local and StorageLive does nothing.  A terminator only moves.       *)
(***************************************************************************)
StmtMoves(s) == s.moved

\* Only these three terminators are looked at for moves: the condition of an
\* If is a bool, which stays usable after it is read.
TermMoves(t) ==
  IF t.op = "Return" THEN {RETURN_POINTER}
  ELSE IF t.op \in {"Match", "Suspend"} THEN t.moved ELSE {}

Absent(m, b, i) ==
  IF AtTerm(m, b, i) THEN TermMoves(Term(m, b))
  ELSE LET s == Stmts(m, b)[i]
       IN StmtMoves(s) \union (IF s.op = "Dead" THEN s.to ELSE {})

Present(m, b, i) ==
  IF AtTerm(m, b, i) THEN {}
  ELSE LET s == Stmts(m, b)[i] IN IF s.op \in {"Write", "Let"} THEN s.to ELSE {}
=============================================================================
