----------------------------- MODULE MovePaths ------------------------------
(***************************************************************************)
(* The move-path tables (src/src/analysis/gather_moves.rs) and the drop-   *)
(* flag effects read off them (src/src/analysis/mod.rs).                   *)
(*                                                                         *)
(* MoveDataBuilder makes a path for every local, then visits the locations *)
(* of the body in order and, at each, the lvalues that are filled and the  *)
(* operands, in the order of the code: one call of create_move_path or     *)
(* gather_operand per step.  A move is recorded in three tables: moves,    *)
(* the list of its location and the list of its path.                      *)
(*                                                                         *)
(* Here a body has lvalues and operands in order, where Mir has sets of    *)
(* locals.  An lvalue is a chain of dereferences, the only projection, of  *)
(* a local or a static.  A block is [stmts, term], each statement and each *)
(* terminator [op, dests, uses]; the dests of a Match are the bindings of  *)
(* its arms.  An operand is [mode, lvalue]; "Copy" stands for constants    *)
(* and the place of a reference too, as neither is gathered.               *)
(***************************************************************************)
EXTENDS Mir

CONSTANTS
  Sources,   \* the bodies
  Static,    \* the base of an lvalue that is no local
  None       \* no path

LvalueSet(n) == [base : (1..n) \union {Static}, derefs : Nat]
OperandSet(n) == [mode : {"Consume", "Copy"}, lvalue : LvalueSet(n)]
EffectSet(ops, n) == [op : ops, dests : Seq(LvalueSet(n)), uses : Seq(OperandSet(n))]

IsSource(m) ==
  /\ m.args \in Nat
  /\ m.nlocals \in Nat /\ m.nlocals >= m.args + 2
  /\ Len(m.blocks) \in Nat
  /\ \A b \in Blocks(m) :
       /\ Stmts(m, b) \in Seq(EffectSet((StmtOps \ {"Write"}) \union {"Assign", "Call"}, m.nlocals))
       /\ Term(m, b) \in EffectSet(TermOps, m.nlocals)
       /\ \A i \in 1..Len(Stmts(m, b)) :
            Stmts(m, b)[i].op \in {"Live", "Dead", "Stmt"} => Stmts(m, b)[i].uses = << >>

ASSUME SourcesAssumption == \A m \in Sources : IsSource(m)
ASSUME MarksAssumption == Static \notin Nat /\ None \notin Nat

VARIABLES
  mir,
  phase,             \* "paths", "gather", "done", "panicked"
  bb, statement_index,
  call,              \* the next call at that location
  locals,            \* MovePathLookup::locals: local -> path
  move_paths,        \* path -> MovePath
  path_map,          \* path -> its moves
  moves,             \* move -> MoveOut
  loc_map            \* location -> its moves

paths == <<locals, move_paths>>
tables == <<path_map, moves, loc_map>>
vars == <<mir, phase, bb, statement_index, call, paths, tables>>

Local(l) == [base |-> l, derefs |-> 0]
IsProjection(lval) == lval.derefs > 0
Unvisited(m) == [b \in Blocks(m) |-> [i \in 1..TermIndex(m, b) |-> << >>]]

-----------------------------------------------------------------------------
(***************************************************************************)
(* What is gathered at a location, in the order of the code.               *)
(***************************************************************************)
EffectAt(m, b, i) == IF AtTerm(m, b, i) THEN Term(m, b) ELSE Stmts(m, b)[i]

Creates(dests) == [k \in DOMAIN dests |-> [mode |-> "Create", lvalue |-> dests[k]]]

\* gather_statement and gather_terminator: a call evaluates its operands
\* before its destination is looked at, an assignment after.
Calls(e) ==
  CASE e.op \in {"Let", "Assign"}             -> Creates(e.dests) \o e.uses
    [] e.op \in {"Call", "Match", "Suspend"}  -> e.uses \o Creates(e.dests)
    [] e.op = "Dead"                          -> Creates(e.dests)
    [] e.op = "Return"                        -> <<[mode |-> "Consume", lvalue |-> Local(RETURN_POINTER)]>>
    [] OTHER                                  -> << >>

CallsAt(b, i) == Calls(EffectAt(mir, b, i))
Call == CallsAt(bb, statement_index)[call]

-----------------------------------------------------------------------------
\* gather_moves: MoveDataBuilder::new with its tables still empty.
Init ==
  /\ mir \in Sources
  /\ phase = "paths"
  /\ bb = START_BLOCK /\ statement_index = 1 /\ call = 1
  /\ locals = << >> /\ move_paths = << >> /\ path_map = << >>
  /\ moves = << >> /\ loc_map = Unvisited(mir)

\* A new path becomes the first child of its parent and the old one its sibling.
new_move_path(parent, lval) ==
  LET new == [next_sibling |-> IF parent = None THEN None ELSE move_paths[parent].first_child,
              first_child |-> None, parent |-> parent, lvalue |-> lval]
  IN /\ move_paths' = IF parent = None THEN Append(move_paths, new)
                      ELSE Append([move_paths EXCEPT ![parent].first_child = Len(move_paths) + 1], new)
     /\ path_map' = Append(path_map, << >>)

\* MoveDataBuilder::new: one path for each local, none of them with a parent.
NewLocalPath ==
  /\ phase = "paths"
  /\ Len(locals) < mir.nlocals
  /\ new_move_path(None, Local(Len(locals) + 1))
  /\ locals' = Append(locals, Len(move_paths) + 1)
  /\ UNCHANGED <<mir, phase, bb, statement_index, call, moves, loc_map>>

BeginGather ==
  /\ phase = "paths"
  /\ Len(locals) = mir.nlocals
  /\ phase' = "gather"
  /\ UNCHANGED <<mir, bb, statement_index, call, paths, tables>>

AtCall == phase = "gather" /\ bb \in Blocks(mir) /\ call \in DOMAIN CallsAt(bb, statement_index)

\* Mutant: the move is recorded at the first location of the block.
GatherMove_Location ==
  /\ AtCall
  /\ Call.mode = "Consume" /\ ~IsProjection(Call.lvalue) /\ Call.lvalue.base # Static
  /\ LET path == locals[Call.lvalue.base]
         move_out == Len(moves) + 1
     IN /\ moves' = Append(moves, [path |-> path, source |-> <<bb, statement_index>>])
        /\ path_map' = [path_map EXCEPT ![path] = Append(@, move_out)]
        /\ loc_map' = [loc_map EXCEPT ![bb][1] = Append(@, move_out)]
  /\ call' = call + 1
  /\ UNCHANGED <<mir, phase, bb, statement_index, paths>>

\* gather_move of a local.
GatherMove ==
  /\ AtCall
  /\ Call.mode = "Consume" /\ ~IsProjection(Call.lvalue) /\ Call.lvalue.base # Static
  /\ LET path == locals[Call.lvalue.base]
         move_out == Len(moves) + 1
     IN /\ moves' = Append(moves, [path |-> path, source |-> <<bb, statement_index>>])
        /\ path_map' = [path_map EXCEPT ![path] = Append(@, move_out)]
        /\ loc_map' = [loc_map EXCEPT ![bb][statement_index] = Append(@, move_out)]
  /\ call' = call + 1
  /\ UNCHANGED <<mir, phase, bb, statement_index, paths>>

\* An operand that is not moved, a move of a static, which is illegal and
\* ignored, and a destination, whose path is there already.
GatherNothing ==
  /\ AtCall
  /\ Call.mode = "Consume" => ~IsProjection(Call.lvalue) /\ Call.lvalue.base = Static
  /\ Call.mode = "Create" => ~IsProjection(Call.lvalue)
  /\ call' = call + 1
  /\ UNCHANGED <<mir, phase, bb, statement_index, paths, tables>>

\* move_path_for panics on a projection, as source and as destination.
LookIntoProjection ==
  /\ AtCall
  /\ Call.mode \in {"Consume", "Create"} /\ IsProjection(Call.lvalue)
  /\ phase' = "panicked"
  /\ UNCHANGED <<mir, bb, statement_index, call, paths, tables>>

\* The loops of gather_moves: the statements of a block, then its terminator.
NextLocation ==
  /\ phase = "gather"
  /\ bb \in Blocks(mir)
  /\ call \notin DOMAIN CallsAt(bb, statement_index)
  /\ call' = 1
  /\ IF AtTerm(mir, bb, statement_index)
     THEN bb' = bb + 1 /\ statement_index' = 1
     ELSE bb' = bb /\ statement_index' = statement_index + 1
  /\ UNCHANGED <<mir, phase, paths, tables>>

Finalize ==
  /\ phase = "gather"
  /\ bb \notin Blocks(mir)
  /\ phase' = "done"
  /\ UNCHANGED <<mir, bb, statement_index, call, paths, tables>>

\* gather_moves has returned or panicked.
Done == phase \in {"done", "panicked"} /\ UNCHANGED vars

Next ==
  \/ NewLocalPath
  \/ BeginGather
  \/ GatherMove
  \/ GatherNothing
  \/ LookIntoProjection
  \/ NextLocation
  \/ Finalize
  \/ Done

Spec == Init /\ [][Next]_vars

-----------------------------------------------------------------------------
(***************************************************************************)
(* The drop-flag effects, read off the tables.                             *)
(***************************************************************************)

\* MovePathLookup::find: the map of projections is empty, so the nearest path
\* of a projection is that of its base.
find(lval) ==
  [exact |-> lval.base # Static /\ ~IsProjection(lval),
   path  |-> IF lval.base = Static THEN None ELSE locals[lval.base]]

\* on_all_children_bits: the path and whatever is linked below it.
Linked(S, p) ==
  \A q \in S : /\ move_paths[q].first_child # None => move_paths[q].first_child \in S
               /\ q # p /\ move_paths[q].next_sibling # None => move_paths[q].next_sibling \in S
on_all_children_bits(p) ==
  {q \in DOMAIN move_paths : \A S \in SUBSET DOMAIN move_paths : p \in S /\ Linked(S, p) => q \in S}

\* on_lookup_result_bits: an lvalue without a path of its own has no effect.
on_lookup_result_bits(lval) ==
  IF find(lval).exact THEN on_all_children_bits(find(lval).path) ELSE {}

\* drop_flag_effects_for_function_entry.
EntryEffects == UNION {on_lookup_result_bits(Local(arg)) : arg \in args_iter(mir)}

Callbacks(sets, state) == [k \in DOMAIN sets |-> [paths |-> sets[k], state |-> state]]

\* Mutant: the destinations come before the moves.
drop_flag_effects_FillsFirst(b, i) ==
  LET e == EffectAt(mir, b, i)
      moved  == [k \in DOMAIN loc_map[b][i] |-> on_all_children_bits(moves[loc_map[b][i][k]].path)]
      filled == [k \in DOMAIN e.dests |-> on_lookup_result_bits(e.dests[k])]
  IN (CASE e.op \in {"Let", "Assign", "Call"} -> Callbacks(filled, "Present")
        [] e.op = "Dead"                      -> Callbacks(filled, "Absent")
        [] OTHER                              -> << >>) \o Callbacks(moved, "Absent")

\* drop_flag_effects_for_location: the calls of its callback, in order.
drop_flag_effects(b, i) ==
  LET e == EffectAt(mir, b, i)
      moved  == [k \in DOMAIN loc_map[b][i] |-> on_all_children_bits(moves[loc_map[b][i][k]].path)]
      filled == [k \in DOMAIN e.dests |-> on_lookup_result_bits(e.dests[k])]
  IN Callbacks(moved, "Absent") \o
     CASE e.op \in {"Let", "Assign", "Call"} -> Callbacks(filled, "Present")
       [] e.op = "Dead"                      -> Callbacks(filled, "Absent")
       [] OTHER                              -> << >>

-----------------------------------------------------------------------------
(***************************************************************************)
(* Properties.                                                             *)
(***************************************************************************)

\* The body with sets of locals for lvalues and operands, as Mir has it.
LocalsIn(lvals) == {l \in Locals(mir) : \E k \in DOMAIN lvals : lvals[k] = Local(l)}
LocalsUsed(uses, mode) ==
  {l \in Locals(mir) : \E k \in DOMAIN uses : uses[k].mode = mode /\ uses[k].lvalue = Local(l)}
Flat(e) ==
  [op |-> IF e.op \in {"Assign", "Call"} THEN "Write" ELSE e.op, to |-> LocalsIn(e.dests),
   moved |-> LocalsUsed(e.uses, "Consume"), read |-> LocalsUsed(e.uses, "Copy")]
FlatMir ==
  [nlocals |-> mir.nlocals, args |-> mir.args,
   blocks |-> [b \in Blocks(mir) |->
                 [stmts |-> [i \in DOMAIN Stmts(mir, b) |-> Flat(Stmts(mir, b)[i])],
                  term  |-> Flat(Term(mir, b))]]]

\* The bits after the callbacks: one that empties a path counts unless a later
\* one fills it.
Hits(callbacks, p, state) == {k \in DOMAIN callbacks : p \in callbacks[k].paths /\ callbacks[k].state = state}
Applied(S, callbacks) ==
  {p \in DOMAIN move_paths :
     /\ p \in S \/ Hits(callbacks, p, "Present") # {}
     /\ \A j \in Hits(callbacks, p, "Absent") : \E k \in Hits(callbacks, p, "Present") : k > j}

\* A list has the moves of the set, each once, in the order they were found.
Lists(list, set) ==
  /\ {list[k] : k \in DOMAIN list} = set
  /\ \A j, k \in DOMAIN list : j < k => list[j] < list[k]

\* The moves that say they are of this location, or of this path.
MovesAt(b, i) == {n \in DOMAIN moves : moves[n].source = <<b, i>>}
MovesOf(p) == {n \in DOMAIN moves : moves[n].path = p}

\* Every move is in the list of the location it says and of the path it says,
\* once and in no other: three tables that one loop fills side by side, and
\* that the analyses index by one another's numbers.
TablesAgree ==
  /\ \A n \in DOMAIN moves : moves[n].path \in DOMAIN move_paths
  /\ DOMAIN path_map = DOMAIN move_paths
  /\ \A b \in Blocks(mir) : \A i \in 1..TermIndex(mir, b) :
       Lists(loc_map[b][i], MovesAt(b, i))
  /\ \A p \in DOMAIN path_map : Lists(path_map[p], MovesOf(p))

\* The effects that the analysis reads off the tables are those of Mir: at
\* every location the operands are emptied first and then the destination is
\* filled, a static or what a pointer points to never counts, and only the
\* arguments are there at the start.  This is what lets Dataflow and the
\* modules on it work with sets of locals.
EffectsExact ==
  phase = "done" =>
    /\ EntryEffects = args_iter(mir)
    /\ \A b \in Blocks(mir) : \A i \in 1..TermIndex(mir, b) : \A S \in SUBSET Locals(mir) :
         Applied(S, drop_flag_effects(b, i)) =
           (S \ Absent(FlatMir, b, i)) \union Present(FlatMir, b, i)

\* The comment of create_move_path: "This is an assignment, not a move, so
\* this not being a valid move path is OK."
AssignmentsAccepted == phase = "panicked" => Call.mode # "Create"
=============================================================================
