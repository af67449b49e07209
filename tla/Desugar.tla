------------------------------ MODULE Desugar ------------------------------
(***************************************************************************)
(* The desugaring that goes before the lowering (src/src/build/desugar.rs  *)
(* with transition.rs): a folder over the syntax tree that replaces        *)
(* yield_!, await! and try! and the loops and conditions over patterns by  *)
(* suspend! and plain loops and matches.                                   *)
(*                                                                         *)
(* A node is [kind, sub].  Macros have one operand.  A block's parts are   *)
(* its statements, where a macro is wrapped in "mac_stmt".  "call" is any  *)
(* expression that is evaluated, with its operands.                        *)
(***************************************************************************)
EXTENDS Integers, Sequences, SequencesExt

CONSTANTS
  Programs,   \* the bodies to desugar
  Kinds       \* the kinds of state machines

ASSUME KindsAssumption == Kinds \subseteq {"Generator", "Async"}

VARIABLES
  state_machine_kind,
  source,     \* the body as it was written, never changed
  body,
  done

vars == <<state_machine_kind, source, body, done>>

Node(kind, sub) == [kind |-> kind, sub |-> sub]
Unit == Node("unit", << >>)
Break == Node("break", << >>)
Macros == {"yield_", "await", "suspend", "moved", "try"}

\* `suspend!(...) cannot be directly called' was reported at this macro.
Reported(mac) == Node("reported", <<mac>>)

-----------------------------------------------------------------------------
(***************************************************************************)
(* What the folder makes of each construct.                                *)
(***************************************************************************)
\* Mutant: the iterator is made in the loop.
desugar_for_loop_Inside(iter, loop_block) ==
  Node("loop", <<Node("block", <<
    Node("match", <<Node("into_iter", <<Node("moved", <<iter>>)>>), loop_block, Break>>)>>)>>)

desugar_for_loop(iter, loop_block) ==
  Node("block", <<
    Node("let", <<Node("into_iter", <<Node("moved", <<iter>>)>>)>>),
    Node("loop", <<Node("block", <<
      Node("match", <<Node("moved", <<Node("next", << >>)>>), loop_block, Break>>)>>)>>)>>)

desugar_if_let(expr, then_block) == Node("match", <<expr, then_block, Unit>>)

desugar_while_let(expr, then_block) ==
  Node("loop", <<Node("block", <<Node("match", <<expr, then_block, Break>>)>>)>>)

desugar_try(expr) == Node("try_match", <<expr>>)

desugar_yield(expr) == Node("suspend", <<Node("moved", <<Node("some", <<expr>>)>>)>>)

\* The operand is polled where it stands: in the loop.
desugar_await(expr) ==
  Node("block", <<
    Node("let", <<Unit>>),
    Node("loop", <<Node("block", <<
      Node("match", <<Node("poll", <<expr>>),
        Node("block", <<Node("mac_stmt", <<Node("suspend", <<Unit>>)>>)>>),
        Node("block", <<Node("assign", <<Node("moved", <<Unit>>)>>), Break>>),
        Node("block", <<Node("assign", <<Node("moved", <<Unit>>)>>), Break>>)>>)>>)>>),
    Node("unwrap", <<Node("moved", <<Unit>>)>>)>>)

\* The transition of this kind of state machine, and try!.
Expands(kind, mac) ==
  \/ kind = "Generator" /\ mac.kind = "yield_"
  \/ kind = "Async" /\ mac.kind = "await"
  \/ mac.kind = "try"

(***************************************************************************)
(* fold is fold_expr, fold_block and fold_stmt in one, noop_fold is what   *)
(* the folder of the compiler does with the parts of a node.               *)
(***************************************************************************)
RECURSIVE fold(_, _), noop_fold(_, _), fold_mac(_, _)

\* A macro that is an operand itself goes to fold_mac and not to expr_mac.
fold_sub_expr(kind, expr) == noop_fold(kind, expr)

\* Mutant: what was made is folded, not the operand before.
expr_mac_Outside(kind, mac) ==
  fold(kind, CASE mac.kind = "yield_" -> desugar_yield(mac.sub[1])
               [] mac.kind = "await" -> desugar_await(mac.sub[1])
               [] OTHER -> desugar_try(mac.sub[1]))

expr_mac(kind, mac) ==
  LET expr == fold_sub_expr(kind, mac.sub[1])
  IN CASE mac.kind = "yield_" -> desugar_yield(expr)
       [] mac.kind = "await" -> desugar_await(expr)
       [] OTHER -> desugar_try(expr)

noop_fold(kind, e) ==
  IF e.kind \in Macros THEN fold_mac(kind, e)
  ELSE Node(e.kind, [i \in DOMAIN e.sub |-> fold(kind, e.sub[i])])

\* Macros that stay macros: as statements and as operands of macros.
fold_mac(kind, mac) ==
  CASE mac.kind \in {"yield_", "await"} -> Node(mac.kind, <<fold(kind, mac.sub[1])>>)
    [] mac.kind = "suspend" -> Reported(mac)
    [] OTHER -> mac

\* Mutant: the body of a while is not folded.
fold_while_Skipped(kind, cond, block) == Node("while", <<fold(kind, cond), block>>)

\* The body is folded twice.
fold_while(kind, cond, block) ==
  Node("while", <<fold(kind, cond), fold(kind, fold(kind, block))>>)

fold(kind, e) ==
  CASE e.kind = "for" -> desugar_for_loop(fold(kind, e.sub[1]), fold(kind, e.sub[2]))
    [] e.kind = "if_let" -> noop_fold(kind, desugar_if_let(e.sub[1], e.sub[2]))
    [] e.kind = "while_let" -> noop_fold(kind, desugar_while_let(e.sub[1], e.sub[2]))
    [] e.kind = "while" -> fold_while(kind, e.sub[1], e.sub[2])
    [] e.kind = "mac_stmt" ->
         IF Expands(kind, e.sub[1]) THEN expr_mac(kind, e.sub[1])
         ELSE Node("mac_stmt", <<fold_mac(kind, e.sub[1])>>)
    [] e.kind \in Macros -> IF Expands(kind, e) THEN expr_mac(kind, e) ELSE e
    [] OTHER -> noop_fold(kind, e)

-----------------------------------------------------------------------------
Init ==
  /\ state_machine_kind \in Kinds
  /\ source \in Programs
  /\ body = source
  /\ done = FALSE

\* desugar_block.
desugar_block ==
  /\ ~done
  /\ body' = fold(state_machine_kind, body)
  /\ done' = TRUE
  /\ UNCHANGED <<state_machine_kind, source>>

Next == desugar_block
Spec == Init /\ [][Next]_vars

-----------------------------------------------------------------------------
(***************************************************************************)
(* Properties.                                                             *)
(***************************************************************************)
RECURSIVE Nodes(_), Calls(_, _, _)

\* A node and all those below it.
Nodes(e) == {e} \union UNION {Nodes(e.sub[i]) : i \in DOMAIN e.sub}

Own(mac) == mac.kind = (IF state_machine_kind = "Generator" THEN "yield_" ELSE "await")
Left(e) == \E n \in Nodes(e) : Own(n)

\* A transition out of the folder's sight: in a macro that is itself the
\* operand of a macro, or in one that is none of this state machine's.
Hidden(e) ==
  \E mac \in Nodes(e) :
    /\ mac.kind \in Macros
    /\ Left(mac.sub[1])
    /\ ~Expands(state_machine_kind, mac) \/ mac.sub[1].kind \in Macros

\* Every transition of this kind of state machine that is not hidden becomes
\* suspensions, wherever it stands: none is left to the compiler, that knows
\* no such macro.
TransitionsExpanded == done /\ Left(body) => Hidden(source)

\* No suspend! that the desugaring made itself is reported as the user's, but
\* for those of an await! in the body of a while, which is folded twice.
OwnSuspendsAccepted ==
  done /\ (\E n \in Nodes(body) : n.kind = "reported") =>
    \E n \in Nodes(source) : n.kind = "while" /\ Left(n.sub[2]) /\ state_machine_kind = "Async"

\* The expressions of a program in the order they are evaluated in, each with
\* the number of loops it is in; those in the operand of an await! only if
\* `awaits'.
Calls(e, loops, awaits) ==
  LET in == CASE e.kind = "for" -> <<loops, loops + 1>>
              [] e.kind \in {"while", "while_let"} -> <<loops + 1, loops + 1>>
              [] e.kind = "loop" -> <<loops + 1>>
              [] OTHER -> [i \in DOMAIN e.sub |-> loops]
      parts == IF e.kind \in {"await", "poll"} /\ ~awaits THEN << >> ELSE e.sub
  IN FlattenSeq([i \in DOMAIN parts |-> Calls(parts[i], in[i], awaits)])
       \o (IF e.kind = "call" THEN <<loops>> ELSE << >>)

\* The desugaring evaluates the expressions of the program in the same order
\* as before and as often: none comes into a loop or out of one, is lost or
\* is there twice.
EvaluatedAsOften == done => Calls(body, 0, FALSE) = Calls(source, 0, FALSE)

\* "let future = $expr" goes before the loop that polls it.
AwaitedOnce == done => Calls(body, 0, TRUE) = Calls(source, 0, TRUE)
=============================================================================
