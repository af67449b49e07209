----------------------------- MODULE Translate ------------------------------
(***************************************************************************)
(* The printing of a lowered body as Rust source (src/src/translate).      *)
(*                                                                         *)
(* Each block becomes an arm.  build_scope_block gives the statements of   *)
(* the block back the nested scopes they had in the source; LocalStack     *)
(* says which variable each name stands for while they are printed, with a *)
(* renaming statement wherever one variable shadows another.               *)
(*                                                                         *)
(* The printed arm is not kept as text.  It is evaluated by the scoping    *)
(* rules of Rust while it is printed: `env' has the variables the text has *)
(* declared so far, and each holds a value <<local, n>>, the n-th thing    *)
(* the block assigned to that local (0 is what it held on entry).          *)
(***************************************************************************)
EXTENDS Lowering

VARIABLES
  assignments,   \* the DefiniteAssignment of the body, by block, once it is known
  arms           \* the arms of the state machine, by block, once printed

translateVars == <<vars, assignments, arms>>

\* The visibility scopes that Builder::new makes.
ARGUMENT_VISIBILITY_SCOPE == 1
COROUTINE_ARGS_VISIBILITY_SCOPE == 3

Decl(l) == builder.local_decls[l]

-----------------------------------------------------------------------------
(***************************************************************************)
(* What elaborate_assignments says of the blocks; see Machine, where it is *)
(* computed from the sets of the analysis.                                 *)
(***************************************************************************)
DefiniteAssignment ==
  LET entry == SetOnEntry(Body)
      initialized(b) ==
        LET end == TermIndex(Body, b) + 1
            assigned == UNION {Present(Body, b, i) : i \in 1..(end - 1)}
        IN NetGen(Body, b, end) \union ((NetKill(Body, b, end) \ entry[b]) \intersect assigned)
  IN [b \in BuiltBlocks |->
        [on_entry |-> entry[b] \union ArmBindings(Body, b), initialized |-> initialized(b)]]

\* In the order of group_locals_by_scope: by scope, then by number.
ByScope(locals) ==
  FlattenSeq([s \in 1..Len(builder.visibility_scopes) |->
                Ascending({l \in locals : Decl(l).scope = s}, Len(builder.local_decls))])

-----------------------------------------------------------------------------
(***************************************************************************)
(* build_scope_block.  The nested ScopeBlocks are the sequence of what is  *)
(* in them, with brackets.                                                 *)
(***************************************************************************)
Item(do, n) == [do |-> do, n |-> n]
Items(do, numbers) == [i \in 1..Len(numbers) |-> Item(do, numbers[i])]

scope_path(scope) ==
  LET path[s \in 1..scope] ==
        IF builder.visibility_scopes[s] = None THEN <<s>>
        ELSE Append(path[builder.visibility_scopes[s]], s)
  IN path[scope]

\* Mutant: a variable is declared in the scope it is visible in.
scope_of_declaration_Own(l) == Decl(l).scope

\* A variable is declared in the scope around the one it is visible in.
scope_of_declaration(l) ==
  IF Decl(l).scope = ARGUMENT_VISIBILITY_SCOPE THEN Decl(l).scope
  ELSE builder.visibility_scopes[Decl(l).scope]

\* A new ScopeBlock with the declarations of its scope.  D.decls are those
\* that no block has yet, D.path the scopes of the stack.
open_scope(D, scope) ==
  LET here == {l \in D.decls : scope_of_declaration(l) = scope}
  IN [D EXCEPT !.items = @ \o <<Item("open", scope)>>
                           \o Items("declare", Ascending(here, Len(builder.local_decls))),
               !.path = Append(@, scope),
               !.decls = @ \ here]

close_scopes(D, n) ==
  [D EXCEPT !.items = @ \o [i \in 1..n |-> Item("close", 0)],
            !.path = SubSeq(@, 1, Len(@) - n)]

\* From the scope of the last statement to that of the next.
change_scope(D, scope) ==
  LET last == scope_path(Last(D.path))
      path == scope_path(scope)
      common == Len(LongestCommonPrefix({last, path}))
      closed == close_scopes([D EXCEPT !.asserts = @ /\ D.path = last], Len(last) - common)
  IN FoldLeft(open_scope, closed, SubSeq(path, common + 1, Len(path)))

build_scope_block(b, locals) ==
  LET opened == open_scope([items |-> << >>, path |-> << >>, asserts |-> TRUE,
                            decls |-> locals \ {COROUTINE_ARGS}], ARGUMENT_VISIBILITY_SCOPE)
      root == [opened EXCEPT !.items = Tail(@)]
      filled == FoldLeft(
        LAMBDA D, i : LET C == change_scope(D, builder.basic_blocks[b].scopes[i])
                      IN [C EXCEPT !.items = Append(@, Item("stmt", i))],
        root, [i \in 1..Len(Stmts(Body, b)) |-> i])
      ended == [filled EXCEPT !.items = Append(@, Item("term", b))]
  IN [close_scopes(ended, Len(ended.path) - 1) EXCEPT !.asserts = @ /\ ended.decls = {}]

-----------------------------------------------------------------------------
(***************************************************************************)
(* LocalStack: per scope, which local a name stands for and how a local is *)
(* called.  An identifier is a pair: the declared name, made unique for    *)
(* temporaries, or the alias of a shadowed local.                          *)
(***************************************************************************)
Ident(l) == <<Decl(l).name, IF Decl(l).name = TempName THEN l ELSE None>>
shadowed_name(l) == <<"shadowed", l>>

NewScope == [name_to_local |-> << >>, local_to_name |-> << >>]

get_local(stack, ident) ==
  LET in == {i \in 1..Len(stack) : ident \in DOMAIN stack[i].name_to_local}
  IN IF in = {} THEN None ELSE stack[Latest(in)].name_to_local[ident]

NoName == <<"none", None>>
get_name(stack, l) ==
  LET in == {i \in 1..Len(stack) : l \in DOMAIN stack[i].local_to_name}
  IN IF in = {} THEN NoName ELSE stack[Latest(in)].local_to_name[l]

\* Mutant: the shadowed local keeps its name.
push_local_NoRename(stack, l) ==
  [stack EXCEPT ![Len(stack)] =
     [name_to_local |-> (Ident(l) :> l) @@ @.name_to_local,
      local_to_name |-> (l :> Ident(l)) @@ @.local_to_name]]

push_local(stack, l) ==
  LET shadowed == get_local(stack, Ident(l))
      renamed == IF shadowed = None THEN << >> ELSE shadowed :> shadowed_name(shadowed)
  IN [stack EXCEPT ![Len(stack)] =
        [name_to_local |-> (Ident(l) :> l) @@ @.name_to_local,
         local_to_name |-> renamed @@ (l :> Ident(l)) @@ @.local_to_name]]

-----------------------------------------------------------------------------
(***************************************************************************)
(* The printed text and what it does.  P is                                *)
(*   stack  the LocalStack                                                 *)
(*   env    the variables of the text, innermost last: [ident, value]      *)
(*   marks  how many of them there were when each open scope was opened    *)
(*   held, count   the locals that hold a value, and how many each got     *)
(*   lost   locals whose use or packing does not get their current value   *)
(*   spoilt the ways in which a renaming went wrong (see below)            *)
(*   terminated, asserts                                                   *)
(***************************************************************************)
Nothing == <<None, 0>>
Current(P, l) == <<l, P.count[l]>>

Positions(P, ident) == {i \in 1..Len(P.env) : P.env[i].ident = ident}
ValueOf(P, ident) ==
  LET at == Positions(P, ident) IN IF at = {} THEN Nothing ELSE P.env[Latest(at)].value

LetId(P, ident, value) ==
  [P EXCEPT !.env = Append(@, [ident |-> ident, value |-> value])]
Store(P, ident, value) ==
  LET at == Positions(P, ident)
  IN IF at = {} THEN P ELSE [P EXCEPT !.env[Latest(at)].value = value]

\* LocalStack::push with the statement it returns, `let alias = name', that
\* moves the variable.
push_renaming(P, l) ==
  LET shadowed == get_local(P.stack, Ident(l))
      value == ValueOf(P, Ident(l))
      pushed == [P EXCEPT !.stack = push_local(@, l)]
  IN IF shadowed = None THEN pushed
     ELSE [LetId(Store(pushed, Ident(l), Nothing), shadowed_name(shadowed), value) EXCEPT
             !.spoilt = @ \union (IF shadowed = l THEN {"itself"} ELSE {})
                            \union (IF value = Nothing THEN {"empty"} ELSE {})]

declare(P, l) == LetId(push_renaming(P, l), Ident(l), Nothing)

\* Operands and destinations are printed by their declared names, also while
\* LocalStack has another name for them.
Mention(P, sources, targets) ==
  LET used == sources \intersect P.held
      hidden == {l \in used \union targets : get_name(P.stack, l) # Ident(l)}
  IN [P EXCEPT !.lost = @ \union {l \in used : ValueOf(P, Ident(l)) # Current(P, l)},
               !.spoilt = @ \union (IF hidden = {} THEN {} ELSE {"hidden"})]

Fill(P, l) == [P EXCEPT !.count[l] = @ + 1, !.held = @ \union {l}]

\* The renamings of a let come before it, so its initializer is evaluated
\* when the shadowed variables have been moved.
stmt(P, b, i) ==
  LET s == Stmts(Body, b)[i]
      to == Ascending(s.to, Len(builder.local_decls))
      read(Q, targets) == [Mention(Q, Uses(b, i), targets) EXCEPT !.held = @ \ Absent(Body, b, i)]
  IN CASE s.op = "Write" ->
            FoldLeft(LAMBDA Q, l : Store(Fill(Q, l), Ident(l), <<l, Q.count[l] + 1>>), read(P, s.to), to)
       [] s.op = "Let" ->
            FoldLeft(LAMBDA Q, l : LetId(Fill(Q, l), Ident(l), <<l, Q.count[l] + 1>>),
                     read(FoldLeft(push_renaming, P, to), {}), to)
       [] OTHER -> read(P, {})

\* The arm of a match: its locals are pushed, the renames are dropped.
enter_arm(P, binds) ==
  FoldLeft(
    LAMBDA Q, l :
      LET shadowed == get_local(Q.stack, Ident(l))
      IN [LetId(Fill(Q, l), Ident(l), <<l, Q.count[l] + 1>>) EXCEPT
            !.stack = push_local(@, l),
            !.spoilt = @ \union (IF shadowed = None THEN {} ELSE {"arm"})],
    [P EXCEPT !.stack = Append(@, NewScope)], Ascending(binds, Len(builder.local_decls)))

\* state_expr: the locals of the target, by the names they have here.
state_expr(P, locals) ==
  [P EXCEPT
     !.lost = @ \union {l \in locals : ValueOf(P, get_name(P.stack, l)) # Current(P, l)},
     !.asserts = @ /\ \A l \in locals : get_name(P.stack, l) # NoName]

\* The edges that are printed, and how each is entered.  resume_arm makes the
\* coroutine's argument anew, so an edge of a Suspend changes nothing here.
Printed(b) == IF Term(Body, b).op = "Break" THEN {1} ELSE 1..Len(Term(Body, b).succ)
edge(P, b, k) ==
  LET arm == IF Term(Body, b).op = "Match" THEN enter_arm(P, Term(Body, b).binds[k]) ELSE P
  IN state_expr(arm, assignments[Term(Body, b).succ[k]].on_entry)

terminator(P, b) ==
  LET edges == {edge(P, b, k) : k \in Printed(b)}
  IN [Mention(P, Uses(b, TermIndex(Body, b)), {}) EXCEPT
        !.lost = @ \union UNION {E.lost : E \in edges},
        !.spoilt = @ \union UNION {E.spoilt : E \in edges},
        !.asserts = @ /\ \A E \in edges : E.asserts,
        !.terminated = TRUE]

open_block(P) ==
  [P EXCEPT !.stack = Append(@, NewScope), !.marks = Append(@, Len(P.env))]

\* The end of LocalStack::in_scope.  The statements that rename the shadowed
\* variables back are the last ones inside the block, so that they end with
\* it.
close_block(P) ==
  LET outer == Front(P.stack)
      names == Last(P.stack).local_to_name
      renamed == {l \in DOMAIN names : get_name(outer, l) # NoName}
      closed == [P EXCEPT !.stack = outer, !.marks = Front(@),
                          !.env = SubSeq(@, 1, Last(P.marks))]
      gone == {l \in renamed \intersect P.held : ValueOf(closed, get_name(outer, l)) # Current(P, l)}
  IN IF P.terminated THEN closed
     ELSE [closed EXCEPT
             !.asserts = @ /\ \A l \in renamed : get_name(outer, l) # names[l],
             !.spoilt = @ \union (IF gone = {} THEN {} ELSE {"inner"})]

print(P, b, item) ==
  CASE item.do = "open" -> open_block(P)
    [] item.do = "close" -> close_block(P)
    [] item.do = "declare" -> declare(P, item.n)
    [] item.do = "stmt" -> stmt(P, b, item.n)
    [] item.do = "term" -> terminator(P, b)

(***************************************************************************)
(* internal_arm.  The stack is loaded with the locals that the state has   *)
(* (their renames dropped: the pattern has the aliases already), the body  *)
(* printed, and only then are the names of the pattern looked up.  What is *)
(* printed is the same whatever the pattern is; what it does is not.       *)
(***************************************************************************)
internal_arm(b) ==
  LET state == ByScope(assignments[b].on_entry)
      loaded == FoldLeft(push_local, <<NewScope>>, <<COROUTINE_ARGS>> \o state)
      printed == build_scope_block(b, assignments[b].initialized)
      \* The argument of the closure is in scope around the arms.
      unpacked(stack) ==
        <<[ident |-> Ident(COROUTINE_ARGS), value |-> <<COROUTINE_ARGS, 0>>]>> \o
        [i \in 1..Len(state) |-> [ident |-> get_name(stack, state[i]), value |-> <<state[i], 0>>]]
      body(variables) ==
        FoldLeft(LAMBDA P, item : print(P, b, item),
                 [stack |-> loaded, env |-> variables, marks |-> << >>,
                  held |-> assignments[b].on_entry, count |-> [l \in BuiltLocals |-> 0],
                  lost |-> {}, spoilt |-> {}, terminated |-> FALSE,
                  asserts |-> printed.asserts], printed.items)
      first == body(unpacked(loaded))
      P == IF unpacked(first.stack) = unpacked(loaded) THEN first ELSE body(unpacked(first.stack))
  IN [lost |-> P.lost, spoilt |-> P.spoilt,
      asserts |-> P.asserts /\ P.terminated]

\* The analysis accepts bodies all of whose blocks can be reached (see Machine).
AnalyzeAssignments ==
  /\ Finished
  /\ assignments = << >>
  /\ ReachableBlocks(Body) = BuiltBlocks
  /\ assignments' = DefiniteAssignment
  /\ UNCHANGED <<vars, arms>>

internal_state ==
  /\ assignments # << >>
  /\ arms = << >>
  /\ arms' = [b \in BuiltBlocks |-> internal_arm(b)]
  /\ UNCHANGED <<vars, assignments>>

TranslateInit == Init /\ assignments = << >> /\ arms = << >>

TranslateNext ==
  \/ Next /\ UNCHANGED <<assignments, arms>>
  \/ AnalyzeAssignments
  \/ internal_state

TranslateSpec == TranslateInit /\ [][TranslateNext]_translateVars

-----------------------------------------------------------------------------
(***************************************************************************)
(* Properties.                                                             *)
(***************************************************************************)

\* The properties are about programs whose names the lowering resolved right.
Printable == \A use \in lookups : use.got = use.want

\* No assertion of the translation fails: every variable a block declares
\* finds the scope it is declared in, every local that is packed has a name,
\* and each arm ends with its terminator.
TranslationAsserts ==
  Printable => \A b \in DOMAIN arms : arms[b].asserts

\* In the printed arm every name stands for the variable the lowering meant,
\* with the value it has there, and every local that is packed into the next
\* state is packed under a name that has its current value.  Except where
\* shadowing goes wrong, as far as LocalStack shows it: a variable is renamed
\* because of itself (it was alive on entry and is assigned again) or before
\* it has a value, is shadowed by the arm of a match or in an inner block that
\* ends, or is mentioned while it has another name.
PrintedRight ==
  Printable => \A b \in DOMAIN arms : arms[b].spoilt = {} => arms[b].lost = {}

\* Without two variables of one name there is nothing to rename: what is
\* printed and packed is right in every arm.
SingleNames ==
  \A l, k \in BuiltLocals :
    Decl(l).name = Decl(k).name => l = k \/ Decl(l).name = TempName

PackedCurrent ==
  SingleNames => \A b \in DOMAIN arms : arms[b].lost = {}

\* resume_arm gives the scope of the coroutine's argument a new tuple with
\* that argument alone: no other local of a resumed state is in that scope.
resume_blocks ==
  {START_BLOCK} \union {Term(Body, b).succ[1] : b \in {c \in BuiltBlocks : Term(Body, c).op = "Suspend"}}

ArgumentsLifted ==
  assignments # << >> => \A b \in resume_blocks : \A l \in assignments[b].on_entry :
    l # COROUTINE_ARGS => Decl(l).scope # COROUTINE_ARGS_VISIBILITY_SCOPE
=============================================================================
