------------------------------ MODULE Lowering ------------------------------
(***************************************************************************)
(* construct_fn as a machine: one action per kind of expression, statement *)
(* or continuation of the recursive descent, over a Builder (see there).   *)
(***************************************************************************)
EXTENDS Builder

CONSTANTS
  Names,     \* the names of the program's variables
  ArmNames,  \* those that match arms bind
  Args,      \* the sequence of the names of the function's inputs
  Forms,     \* the kinds of expressions and statements of the program
  Fuel       \* how many statements and compound expressions it may have

ASSUME ProgramAssumption == Fuel \in Nat /\ Args \in Seq(ToSet(Args))
\* No name in the source is that of a temporary (temp_expr5, say).
ASSUME TempAssumption == TempName \notin Names \union ArmNames \union ToSet(Args)

VARIABLES
  builder,   \* the Builder
  block,     \* the block that is being filled
  todo,      \* frames still to do, the next one first
  operands,  \* operands that later frames will use, the latest last
  fuel,
  \* The rest is about the program and not in the code.
  env,       \* what the names in scope mean by Rust's rules, innermost last
  lookups,   \* every resolution of a name made so far
  takes,     \* the locals that were given to moved!
  yields     \* the suspensions in the program so far

program == <<env, lookups, takes, yields>>
vars == <<builder, block, todo, operands, fuel, program>>

-----------------------------------------------------------------------------
Top == Head(todo)
At(kinds) == todo # << >> /\ Top.do \in kinds
Then(frames) == todo' = frames \o Tail(todo)
Spend == fuel > 0 /\ fuel' = fuel - 1

Leaves == {"const", "path", "moved_into"}
\* stmt_expr lowers these itself.
Direct == {"assign", "assign_op", "break", "break_value", "continue", "return", "return_value"}
Compound == Direct \union {"block", "if", "loop", "while", "match", "yield", "call"}

\* Frames that lower an expression: into a destination (anything but the
\* kinds in `but'), as a statement, as an operand, an rvalue or an lvalue.
Into(dest, but) == [do |-> "into", dest |-> dest, but |-> but]
InnerBlock(dest) == [do |-> "block", dest |-> dest]
Stmt == [do |-> "stmt", but |-> {}]
Operand == [do |-> "operand"]
Rvalue == [do |-> "rvalue"]
Pop(extent) == [do |-> "pop", extent |-> extent]
Exit(extent, target) == [do |-> "exit", extent |-> extent, target |-> target]

Pick(form) == form \in Forms \ Top.but

\* Names: whether the program may use one, what it means to Rust, which are
\* still being initialized by a let.
InEnv(name) == \E i \in 1..Len(env) : env[i].name = name
Meaning(name) == env[Latest({i \in 1..Len(env) : env[i].name = name})].local
Pending == UNION {ToSet(todo[i].names) : i \in {j \in 1..Len(todo) : todo[j].do = "enter"}}
Bind(names, locals) == [i \in 1..Len(names) |-> [name |-> names[i], local |-> locals[i]]]

\* get_local_from_path: the local, or none for a path to a static.
Place(name) == {find_local(builder, name)} \ {None}
Resolve(name) ==
  /\ InEnv(name)
  /\ lookups' = lookups \union
       {[got |-> find_local(builder, name), want |-> Meaning(name),
         scope |-> builder.visibility_scope, own |-> name \in Pending]}

-----------------------------------------------------------------------------
(***************************************************************************)
(* Leaves.  moved!(x) as an operand is Operand::Consume; everywhere else   *)
(* the macro is taken off and x lowered as any path, which is a Copy.      *)
(***************************************************************************)
IntoConstant ==
  /\ At({"into"}) /\ Pick("const")
  /\ builder' = push_assign_unit(builder, block, Top.dest)
  /\ Then(<< >>)
  /\ UNCHANGED <<block, operands, fuel, program>>

IntoPath(name) ==
  /\ At({"into"})
  /\ \E form \in {"path", "moved_into"} :
       /\ Pick(form)
       /\ takes' = IF form = "moved_into" THEN takes \union Place(name) ELSE takes
  /\ Resolve(name)
  /\ builder' = push(builder, block, Write({Top.dest}, {}, Place(name)))
  /\ Then(<< >>)
  /\ UNCHANGED <<block, operands, fuel, env, yields>>

OperandConstant ==
  /\ At({"operand", "rvalue"}) /\ "const" \in Forms
  /\ operands' = Append(operands, NoOperand)
  /\ Then(<< >>)
  /\ UNCHANGED <<builder, block, fuel, program>>

\* Mutant: moved! is taken off here too.
OperandPath_Copied(name) ==
  /\ At({"operand", "rvalue", "lvalue"})
  /\ Resolve(name)
  /\ operands' = Append(operands, [moved |-> {}, read |-> Place(name)])
  /\ \/ "path" \in Forms /\ takes' = takes
     \/ "moved" \in Forms /\ takes' = takes \union Place(name)
  /\ Then(<< >>)
  /\ UNCHANGED <<builder, block, fuel, env, yields>>

OperandPath(name) ==
  /\ At({"operand", "rvalue", "lvalue"})
  /\ Resolve(name)
  /\ \/ /\ "path" \in Forms
        /\ operands' = Append(operands, [moved |-> {}, read |-> Place(name)])
        /\ takes' = takes
     \/ /\ "moved" \in Forms /\ Top.do # "lvalue"
        /\ operands' = Append(operands, [moved |-> Place(name), read |-> {}])
        /\ takes' = takes \union Place(name)
  /\ Then(<< >>)
  /\ UNCHANGED <<builder, block, fuel, env, yields>>

(***************************************************************************)
(* as_temp: any other expression is evaluated into a temporary of the      *)
(* innermost scope, and the temporary copied (moved inside moved!).        *)
(***************************************************************************)
OperandTemp ==
  /\ At({"operand", "rvalue", "lvalue"})
  /\ LET but == CASE Top.do = "operand" -> Leaves
                  [] Top.do = "rvalue" -> Leaves \union {"yield", "assign", "assign_op"}
                  [] OTHER -> {"path", "moved_into"}
     IN /\ (fuel > 0 /\ (Forms \intersect Compound) \ but # {}) \/ "const" \notin but
        /\ \E moved \in {FALSE} \union {"moved" \in Forms /\ Top.do # "lvalue"} :
             Then(<<Into(NextLocal(builder), but),
                    [do |-> "use_temp", local |-> NextLocal(builder), moved |-> moved]>>)
  /\ builder' = temp(builder, block)
  /\ UNCHANGED <<block, operands, fuel, program>>

UseTemp ==
  /\ At({"use_temp"})
  /\ operands' = Append(operands, [moved |-> IF Top.moved THEN {Top.local} ELSE {},
                                   read |-> IF Top.moved THEN {} ELSE {Top.local}])
  /\ Then(<< >>)
  /\ UNCHANGED <<builder, block, fuel, program>>

\* as_rvalue takes every macro but moved! as it is, suspend! too.
RvalueMac ==
  /\ At({"rvalue"}) /\ "yield_rvalue" \in Forms
  /\ Spend
  /\ yields' = yields + 1
  /\ operands' = Append(operands, NoOperand)
  /\ Then(<< >>)
  /\ UNCHANGED <<builder, block, env, lookups, takes>>

-----------------------------------------------------------------------------
(***************************************************************************)
(* stmt_expr.  Reached from into_expr, the destination first gets a unit.  *)
(***************************************************************************)
Prepared == IF Top.do = "into" THEN push_assign_unit(builder, block, Top.dest) ELSE builder

StmtOther ==
  /\ At({"stmt"})
  /\ builder' = temp(builder, block)
  /\ Then(<<Into(NextLocal(builder), Direct)>>)
  /\ UNCHANGED <<block, operands, fuel, program>>

\* Right to left: the rvalue (of an operator, the operand), then the place.
AssignExpr(name) ==
  /\ At({"stmt", "into"})
  /\ InEnv(name)
  /\ Spend
  /\ builder' = Prepared
  /\ \/ Pick("assign") /\ Then(<<Rvalue, [do |-> "assign", name |-> name, op |-> FALSE]>>)
     \/ Pick("assign_op") /\ Then(<<Operand, [do |-> "assign", name |-> name, op |-> TRUE]>>)
  /\ UNCHANGED <<block, operands, program>>

Assign ==
  /\ At({"assign"})
  /\ Resolve(Top.name)
  /\ LET v == Last(operands)
         lhs == Place(Top.name)
     IN builder' = push(builder, block,
                     Write(lhs, v.moved \union (IF Top.op THEN lhs ELSE {}), v.read))
  /\ operands' = Front(operands)
  /\ Then(<< >>)
  /\ UNCHANGED <<block, fuel, env, takes, yields>>

\* break, with a value or without, to any loop around it: the innermost, or
\* the one with the label.
BreakExpr(i) ==
  /\ At({"stmt", "into"})
  /\ Spend
  /\ LET loop == builder.loop_scopes[i]
         exit == Exit(loop.extent, loop.break_block)
     IN \/ /\ Pick("break")
           /\ builder' = push_assign_unit(Prepared, block, loop.break_destination)
           /\ Then(<<exit>>)
        \/ /\ Pick("break_value")
           /\ builder' = Prepared
           /\ Then(<<Into(loop.break_destination, {}), exit>>)
  /\ UNCHANGED <<block, operands, program>>

ContinueExpr(i) ==
  /\ At({"stmt", "into"}) /\ Pick("continue")
  /\ Spend
  /\ builder' = Prepared
  /\ Then(<<Exit(builder.loop_scopes[i].extent, builder.loop_scopes[i].continue_block)>>)
  /\ UNCHANGED <<block, operands, program>>

ReturnExpr ==
  /\ At({"stmt", "into"})
  /\ Spend
  /\ \/ /\ Pick("return")
        /\ builder' = push_assign_unit(Prepared, block, RETURN_POINTER)
        /\ Then(<<Exit(PARAMETERS, None)>>)
     \/ /\ Pick("return_value")
        /\ builder' = Prepared
        /\ Then(<<Into(RETURN_POINTER, {}), Exit(PARAMETERS, None)>>)
  /\ UNCHANGED <<block, operands, program>>

\* The jump, and a block for the dead code after it.  extent_of_return_scope
\* asserts that the second scope is the parameters'.
ExitScope ==
  /\ At({"exit"})
  /\ LET R == IF Top.target # None THEN builder
              ELSE [return_block(builder) EXCEPT
                      !.asserts = @ /\ Len(builder.scopes) >= 2
                                    /\ builder.scopes[2].extent = PARAMETERS]
         target == IF Top.target # None THEN Top.target ELSE R.cached_return_block
         after == NextBlock(R)
     IN /\ builder' = exit_scope(start_new_block(R, Open(R)), Top.extent, block, target, after)
        /\ block' = after
  /\ Then(<< >>)
  /\ UNCHANGED <<operands, fuel, program>>

-----------------------------------------------------------------------------
(***************************************************************************)
(* ast_block.                                                              *)
(***************************************************************************)
BlockExpr ==
  /\ At({"into"}) /\ Pick("block")
  /\ Spend
  /\ Then(<<InnerBlock(Top.dest)>>)
  /\ UNCHANGED <<builder, block, operands, program>>

OpenBlock ==
  /\ At({"block"})
  /\ builder' = enter_scope(builder)
  /\ Then(<<[do |-> "stmts", dest |-> Top.dest, extent |-> builder'.extents, lets |-> << >>,
             outer |-> builder.visibility_scope, env |-> env]>>)
  /\ UNCHANGED <<block, operands, fuel, program>>

ExprStmt ==
  /\ At({"stmts"})
  /\ Spend
  /\ builder' = enter_scope(builder)
  /\ Then(<<Stmt, Pop(builder'.extents), Top>>)
  /\ UNCHANGED <<block, operands, program>>

\* A macro that is none of stateful's own stays as it is.
MacStmt ==
  /\ At({"stmts"}) /\ "mac" \in Forms
  /\ Spend
  /\ LET S == enter_scope(builder)
         T == push(temp(S, block), block, MacroStmt)
     IN builder' = pop_scope(push_assign_unit(T, block, NextLocal(S)), block, S.extents)
  /\ UNCHANGED <<block, todo, operands, program>>

PopScope ==
  /\ At({"pop"})
  /\ builder' = pop_scope(builder, block, Top.extent)
  /\ Then(<< >>)
  /\ UNCHANGED <<block, operands, fuel, program>>

(***************************************************************************)
(* let.  The bindings are declared in the remainder scope before the       *)
(* initializer is lowered, in a scope of its own; their visibility scope   *)
(* is entered after it.                                                    *)
(***************************************************************************)
LetStmt(names) ==
  /\ At({"stmts"})
  /\ Spend
  /\ LET R == enter_scope(builder)
         D == declare_bindings(R, block, names)
         S == enter_scope(D.b)
         enter == [do |-> "enter", scope |-> D.scope, names |-> names, locals |-> D.locals]
         rest == [Top EXCEPT !.lets = Append(@, R.extents)]
     IN \/ /\ "let" \in Forms /\ Len(names) = 1
           /\ builder' = storage_live(S, block, D.locals)
           /\ Then(<<Into(D.locals[1], {}), Pop(S.extents), enter, rest>>)
        \/ /\ "let_pat" \in Forms /\ Len(names) # 1
           /\ builder' = S
           /\ Then(<<[do |-> "lvalue"], [do |-> "let_pat", locals |-> D.locals],
                     Pop(S.extents), enter, rest>>)
        \/ /\ "let_decl" \in Forms /\ Len(names) = 1
           /\ builder' = storage_live(D.b, block, D.locals)
           /\ Then(<<enter, rest>>)
  /\ UNCHANGED <<block, operands, program>>

\* lvalue_into_pattern: one Let that moves the initializer into the locals.
LetPattern ==
  /\ At({"let_pat"})
  /\ LET v == Last(operands)
     IN builder' = [push(storage_live(builder, block, Top.locals), block,
                         [Write(ToSet(Top.locals), v.moved \union v.read, {}) EXCEPT !.op = "Let"])
                    EXCEPT !.asserts = @ /\ Top.locals # << >>]
  /\ operands' = Front(operands)
  /\ Then(<< >>)
  /\ UNCHANGED <<block, fuel, program>>

\* Mutant: the visibility scope of the bindings is never entered.
EnterVisibility_Not ==
  /\ At({"enter"})
  /\ env' = env \o Bind(Top.names, Top.locals)
  /\ Then(<< >>)
  /\ UNCHANGED <<builder, block, operands, fuel, lookups, takes, yields>>

EnterVisibility ==
  /\ At({"enter"})
  /\ builder' = IF Top.scope = None THEN builder
                ELSE [builder EXCEPT !.visibility_scope = Top.scope]
  /\ env' = env \o Bind(Top.names, Top.locals)
  /\ Then(<< >>)
  /\ UNCHANGED <<block, operands, fuel, lookups, takes, yields>>

\* The value of the block: its last expression, or unit.
FinishBlock ==
  /\ At({"stmts"})
  /\ LET close == <<[Top EXCEPT !.do = "close"]>>
     IN \/ builder' = builder /\ Then(<<Into(Top.dest, {})>> \o close)
        \/ builder' = push_assign_unit(builder, block, Top.dest) /\ Then(close)
  /\ UNCHANGED <<block, operands, fuel, program>>

CloseBlock ==
  /\ At({"close"})
  /\ LET lets == Len(Top.lets)
         popped[n \in 0..lets] ==
           IF n = 0 THEN builder ELSE pop_scope(popped[n - 1], block, Top.lets[lets + 1 - n])
     IN builder' = pop_scope([popped[lets] EXCEPT !.visibility_scope = Top.outer],
                             block, Top.extent)
  /\ env' = Top.env
  /\ Then(<< >>)
  /\ UNCHANGED <<block, operands, fuel, lookups, takes, yields>>

-----------------------------------------------------------------------------
(***************************************************************************)
(* Branches.                                                               *)
(***************************************************************************)
IfExpr ==
  /\ At({"into"}) /\ Pick("if")
  /\ Spend
  /\ Then(<<Operand, [do |-> "then", dest |-> Top.dest]>>)
  /\ UNCHANGED <<builder, block, operands, program>>

IfThen ==
  /\ At({"then"})
  /\ LET then_block == NextBlock(builder)
         B == start_new_block(start_new_block(builder, Open(builder)), Open(builder))
     IN /\ builder' = terminate(B, block,
                        Jump("If", <<then_block, then_block + 1>>, Last(operands)))
        /\ block' = then_block
        /\ Then(<<InnerBlock(Top.dest),
                  [do |-> "else", dest |-> Top.dest, block |-> then_block + 1]>>)
  /\ operands' = Front(operands)
  /\ UNCHANGED <<fuel, program>>

\* No else, `else { ... }' or `else if ...'.
IfElse ==
  /\ At({"else"})
  /\ block' = Top.block
  /\ LET join == <<[do |-> "join", then_end |-> block]>>
     IN \/ builder' = push_assign_unit(builder, Top.block, Top.dest) /\ Then(join)
        \/ builder' = builder /\ Then(<<InnerBlock(Top.dest)>> \o join)
        \/ /\ "if" \in Forms /\ fuel > 0
           /\ builder' = builder /\ Then(<<Into(Top.dest, Forms \ {"if"})>> \o join)
  /\ UNCHANGED <<operands, fuel, program>>

IfJoin ==
  /\ At({"join"})
  /\ LET join_block == NextBlock(builder)
         goto == Jump("Goto", <<join_block>>, NoOperand)
     IN /\ builder' = terminate(terminate(start_new_block(builder, Open(builder)),
                                          Top.then_end, goto), block, goto)
        /\ block' = join_block
  /\ Then(<< >>)
  /\ UNCHANGED <<operands, fuel, program>>

LoopExpr ==
  /\ At({"into"})
  /\ Spend
  /\ LET loop_block == NextBlock(builder)
         B == start_new_block(start_new_block(builder, Open(builder)), Open(builder))
         loop == [extent |-> extent_of_innermost_scope(builder), continue_block |-> loop_block,
                  break_block |-> loop_block + 1, break_destination |-> Top.dest]
         end == [do |-> "loop_end", loop |-> loop]
     IN /\ builder' = [terminate(B, block, Jump("Goto", <<loop_block>>, NoOperand))
                       EXCEPT !.loop_scopes = Append(@, loop)]
        /\ block' = loop_block
        /\ \/ Pick("while") /\ Then(<<Operand, [do |-> "test", loop |-> loop], [do |-> "body"], end>>)
           \/ Pick("loop") /\ Then(<<[do |-> "body"], end>>)
  /\ UNCHANGED <<operands, program>>

\* Mutant: the exit does not assign the destination.
WhileTest_NoUnit ==
  /\ At({"test"})
  /\ builder' = terminate(start_new_block(builder, Open(builder)), block,
       Jump("If", <<NextBlock(builder), Top.loop.break_block>>, Last(operands)))
  /\ block' = NextBlock(builder)
  /\ operands' = Front(operands)
  /\ Then(<< >>)
  /\ UNCHANGED <<fuel, program>>

\* The exit of a while has no break that assigns its destination.
WhileTest ==
  /\ At({"test"})
  /\ LET body_block == NextBlock(builder)
         B == terminate(start_new_block(builder, Open(builder)), block,
                Jump("If", <<body_block, Top.loop.break_block>>, Last(operands)))
     IN /\ builder' = push_assign_unit(B, Top.loop.break_block, Top.loop.break_destination)
        /\ block' = body_block
  /\ operands' = Front(operands)
  /\ Then(<< >>)
  /\ UNCHANGED <<fuel, program>>

LoopBody ==
  /\ At({"body"})
  /\ builder' = temp(builder, block)
  /\ Then(<<InnerBlock(NextLocal(builder))>>)
  /\ UNCHANGED <<block, operands, fuel, program>>

LoopEnd ==
  /\ At({"loop_end"})
  /\ builder' = [terminate(builder, block, Jump("Goto", <<Top.loop.continue_block>>, NoOperand))
                 EXCEPT !.asserts = @ /\ Last(builder.loop_scopes).extent = Top.loop.extent,
                        !.loop_scopes = Front(@)]
  /\ block' = Top.loop.break_block
  /\ Then(<< >>)
  /\ UNCHANGED <<operands, fuel, program>>

MatchExpr ==
  /\ At({"into"}) /\ Pick("match")
  /\ Spend
  /\ Then(<<Operand, [do |-> "match", dest |-> Top.dest]>>)
  /\ UNCHANGED <<builder, block, operands, program>>

(***************************************************************************)
(* The blocks of the arms, then the bindings of all the arms, all in the   *)
(* scope around the match, then the Match.  `pats' has the names that each *)
(* arm binds.                                                              *)
(***************************************************************************)
BindArm(A, target, names) ==
  LET d == declare_bindings(A.b, block, names)
      s == IF d.scope = None THEN d.b.visibility_scope ELSE d.scope
  IN [b |-> d.b,
      arms |-> Append(A.arms, [block |-> target, scope |-> s, names |-> names, locals |-> d.locals])]

MatchArms(pats) ==
  /\ At({"match"})
  /\ LET first == NextBlock(builder)
         end == first + 2
         B == start_new_block(start_new_block(builder, Open(builder)), Open(builder))
         D == BindArm(BindArm([b |-> B, arms |-> << >>], first, pats[1]), first + 1, pats[2])
     IN /\ builder' = terminate(start_new_block(D.b, Open(D.b)), block,
             [op |-> "Match", succ |-> <<first, first + 1>>,
              binds |-> <<ToSet(D.arms[1].locals), ToSet(D.arms[2].locals)>>,
              moved |-> Last(operands).moved, read |-> Last(operands).read])
        /\ Then(<<[do |-> "arms", dest |-> Top.dest, arms |-> D.arms, end |-> end,
                   outer |-> builder.visibility_scope, env |-> env]>>)
  /\ operands' = Front(operands)
  /\ UNCHANGED <<block, fuel, program>>

NextArm ==
  /\ At({"arms"})
  /\ Top.arms # << >>
  /\ LET arm == Head(Top.arms)
     IN /\ builder' = [builder EXCEPT !.visibility_scope = arm.scope]
        /\ block' = arm.block
        /\ env' = Top.env \o Bind(arm.names, arm.locals)
        /\ Then(<<Into(Top.dest, {}), [do |-> "arm_end", end |-> Top.end],
                  [Top EXCEPT !.arms = Tail(@)]>>)
  /\ UNCHANGED <<operands, fuel, lookups, takes, yields>>

ArmEnd ==
  /\ At({"arm_end"})
  /\ builder' = terminate(builder, block, Jump("Goto", <<Top.end>>, NoOperand))
  /\ Then(<< >>)
  /\ UNCHANGED <<block, operands, fuel, program>>

MatchEnd ==
  /\ At({"arms"})
  /\ Top.arms = << >>
  /\ builder' = [builder EXCEPT !.visibility_scope = Top.outer]
  /\ block' = Top.end
  /\ env' = Top.env
  /\ Then(<< >>)
  /\ UNCHANGED <<operands, fuel, lookups, takes, yields>>

-----------------------------------------------------------------------------
\* Mutant: the macro is not recognized and kept as it is.
SuspendExpr_Kept ==
  /\ At({"into"}) /\ Pick("yield")
  /\ Spend
  /\ yields' = yields + 1
  /\ builder' = push_assign_unit(builder, block, Top.dest)
  /\ Then(<< >>)
  /\ UNCHANGED <<block, operands, env, lookups, takes>>

(***************************************************************************)
(* Suspensions and calls.                                                  *)
(***************************************************************************)
SuspendExpr ==
  /\ At({"into"}) /\ Pick("yield")
  /\ Spend
  /\ yields' = yields + 1
  /\ Then(<<Operand, [do |-> "suspend", dest |-> Top.dest]>>)
  /\ UNCHANGED <<builder, block, operands, env, lookups, takes>>

\* The call of resume fills the coroutine's argument, that the next block
\* moves to the destination.
Suspend ==
  /\ At({"suspend"})
  /\ LET next == NextBlock(builder)
         v == Last(operands)
         B == terminate(start_new_block(builder, Open(builder)), block,
                [op |-> "Suspend", succ |-> <<next>>, binds |-> <<{COROUTINE_ARGS}>>,
                 moved |-> v.moved, read |-> v.read])
     IN /\ builder' = push(B, next, Write({Top.dest}, {COROUTINE_ARGS}, {}))
        /\ block' = next
  /\ operands' = Front(operands)
  /\ Then(<< >>)
  /\ UNCHANGED <<fuel, program>>

\* f(a): the function (or the receiver) as an operand, the argument as an
\* rvalue.  Binary operators and aggregates have the same two steps.
CallExpr ==
  /\ At({"into"}) /\ Pick("call")
  /\ Spend
  /\ Then(<<Operand, Rvalue, [do |-> "call", dest |-> Top.dest]>>)
  /\ UNCHANGED <<builder, block, operands, program>>

Call ==
  /\ At({"call"})
  /\ LET n == Len(operands)
     IN /\ builder' = push(builder, block,
             Write({Top.dest}, operands[n - 1].moved \union operands[n].moved,
                               operands[n - 1].read \union operands[n].read))
        /\ operands' = SubSeq(operands, 1, n - 2)
  /\ Then(<< >>)
  /\ UNCHANGED <<block, fuel, program>>

-----------------------------------------------------------------------------
(***************************************************************************)
(* construct_fn: the two outer scopes with the arguments, the body, and    *)
(* the epilogue.                                                           *)
(***************************************************************************)
Init ==
  LET D == declare_bindings(push_scope(push_scope(NewBuilder, CALL_SITE), PARAMETERS),
                            START_BLOCK, Args)
  IN /\ builder = IF D.scope = None THEN D.b ELSE [D.b EXCEPT !.visibility_scope = D.scope]
     /\ env = Bind(Args, D.locals)
     /\ block = START_BLOCK
     /\ todo = <<InnerBlock(RETURN_POINTER), [do |-> "epilogue"]>>
     /\ operands = << >>
     /\ fuel = Fuel
     /\ lookups = {} /\ takes = {} /\ yields = 0

Epilogue ==
  /\ At({"epilogue"})
  /\ LET R == return_block(pop_scope(builder, block, PARAMETERS))
         end == R.cached_return_block
         T == terminate(terminate(R, block, Jump("Goto", <<end>>, NoOperand)),
                        end, Jump("Return", << >>, NoOperand))
         C == pop_scope(T, end, CALL_SITE)
     IN /\ builder' = [C EXCEPT !.asserts =
                         @ /\ \A b \in 1..Len(C.basic_blocks) :
                                C.basic_blocks[b].term # Unterminated]
        /\ block' = end
  /\ Then(<< >>)
  /\ UNCHANGED <<operands, fuel, program>>

Finished == todo = << >>

\* construct_fn has returned.
Done == Finished /\ UNCHANGED vars

LetPatterns == {<<n>> : n \in Names} \union
               {p \in Names \X Names : p[1] # p[2]} \union
               (IF "let_wild" \in Forms THEN {<< >>} ELSE {})
ArmPatterns == {<< >>} \union {<<n>> : n \in ArmNames}

Next ==
  \/ IntoConstant \/ OperandConstant \/ OperandTemp \/ UseTemp \/ RvalueMac
  \/ \E name \in Names \union ArmNames : IntoPath(name) \/ OperandPath(name) \/ AssignExpr(name)
  \/ StmtOther \/ Assign
  \/ \E i \in 1..Len(builder.loop_scopes) : BreakExpr(i) \/ ContinueExpr(i)
  \/ ReturnExpr \/ ExitScope
  \/ BlockExpr \/ OpenBlock \/ ExprStmt \/ MacStmt \/ PopScope
  \/ \E names \in LetPatterns : LetStmt(names)
  \/ LetPattern \/ EnterVisibility \/ FinishBlock \/ CloseBlock
  \/ IfExpr \/ IfThen \/ IfElse \/ IfJoin
  \/ LoopExpr \/ WhileTest \/ LoopBody \/ LoopEnd
  \/ MatchExpr \/ (\E pats \in ArmPatterns \X ArmPatterns : MatchArms(pats))
  \/ NextArm \/ ArmEnd \/ MatchEnd
  \/ SuspendExpr \/ Suspend \/ CallExpr \/ Call
  \/ Epilogue \/ Done

Spec == Init /\ [][Next]_vars

-----------------------------------------------------------------------------
(***************************************************************************)
(* Properties.                                                             *)
(***************************************************************************)
Body == [blocks |-> builder.basic_blocks, nlocals |-> Len(builder.local_decls),
         args |-> Len(Args)]

BuiltLocals == 1..Len(builder.local_decls)
BuiltBlocks == 1..Len(builder.basic_blocks)

LoweringTypeOK ==
  /\ block \in BuiltBlocks
  /\ fuel \in 0..Fuel
  /\ \A b \in BuiltBlocks :
       Stmts(Body, b) \in Seq(StatementSet(Len(builder.local_decls)))
  /\ \A i \in 1..Len(operands) : operands[i].moved \union operands[i].read \subseteq BuiltLocals
  /\ UNION {builder.scopes[i].drops : i \in 1..Len(builder.scopes)} \subseteq BuiltLocals
  /\ builder.visibility_scope \in 1..Len(builder.visibility_scopes)

\* No assert! or span_bug! of the lowering is ever reached with a false
\* condition, whatever the program: no block gets two terminators or none,
\* scopes are popped in the order they were pushed, jumps leave scopes that
\* are open, and no local is scheduled to be dropped twice.
AssertionsHold == builder.asserts

\* What is built is a body as the analysis and the generated code assume it:
\* all that the theorems about them ask of Mirs.
BuiltIsBody == Finished => IsBody(Body) /\ ArmsOwnTheirBlocks(Body)

\* In a program whose names all mean what they mean in Rust, every operand of
\* a statement or a terminator holds a value whichever way the block was
\* entered: variables are kept as long as they are in scope, temporaries are
\* evaluated before they are used on every path, survive the suspensions in
\* between, and are not dropped too early.
Uses(b, i) ==
  IF AtTerm(Body, b, i) THEN Term(Body, b).moved \union Term(Body, b).read
                             \union TermMoves(Term(Body, b))
  ELSE Stmts(Body, b)[i].moved \union Stmts(Body, b)[i].read

UsesHeld(of) ==
  Finished /\ (\A use \in lookups : use.got = use.want) =>
    LET entry == SetOnEntry(Body)
    IN \A b \in BuiltBlocks : \A i \in 1..TermIndex(Body, b) :
         (Uses(b, i) \intersect of) \subseteq
           HeldAt(Body, b, i, entry[b] \union ArmBindings(Body, b))

OperandsHeld == UsesHeld(BuiltLocals)

\* The same of the variables that the program names, wherever they were
\* bound: what was alive on entry to a block is kept.
VariablesHeld == UsesHeld({use.got : use \in lookups})

\* Nothing outlives its scope: a local that is still held when a block is
\* entered belongs to a scope that is open at the block's place in the
\* source.  Every scope a path leaves has dropped its locals on that path.
ScopedLifetimes ==
  Finished =>
    LET entry == SetOnEntry(Body)
    IN \A b \in ReachableBlocks(Body) : \A l \in entry[b] \ {RETURN_POINTER, COROUTINE_ARGS} :
         builder.local_decls[l].extent \in builder.basic_blocks[b].home

\* Names mean what they mean in Rust, except to the initializer of a let
\* that binds the same name.
LexicalResolution == \A use \in lookups : use.own \/ use.got = use.want

\* The initializer of a let does not see the names that the let binds.
InitializerSeesOuter == \A use \in lookups : use.own => use.got = use.want

\* The two structures that know what is visible agree: the local that the
\* stack of scopes finds was declared in a visibility scope around the use.
Enclosing(scope) ==
  LET up[n \in 0..Len(builder.visibility_scopes)] ==
        IF n = 0 THEN {scope}
        ELSE LET before == up[n - 1] IN before \union {builder.visibility_scopes[s] : s \in before \ {None}}
  IN up[Len(builder.visibility_scopes)]

VisibleResolution ==
  \A use \in lookups :
    use.own \/ use.got = None \/ builder.local_decls[use.got].scope \in Enclosing(use.scope)

\* Every value that the program moves out of a variable with moved! is moved
\* out of it by some statement or terminator.
MovedIsConsumed ==
  Finished =>
    takes \subseteq UNION {UNION {Uses(b, i) \intersect Absent(Body, b, i) : i \in 1..TermIndex(Body, b)} :
                     b \in BuiltBlocks}

\* Every suspension in the program is a suspension of the state machine.
SuspensionsLowered ==
  Finished => Cardinality({b \in BuiltBlocks : Term(Body, b).op = "Suspend"}) = yields
=============================================================================
