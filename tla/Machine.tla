------------------------------ MODULE Machine ------------------------------
(***************************************************************************)
(* From the result of the analysis to the state machine that runs.         *)
(*                                                                         *)
(* elaborate_assignments reads off, for every block, the locals that hold  *)
(* a value on entry (assigned_on_entry) and those the block declares       *)
(* (initialized).  The translation turns each block into an arm of one     *)
(* `loop { match state { ... } }': the arm unpacks the block's             *)
(* assigned_on_entry from the state, runs the statements, and every edge   *)
(* packs the assigned_on_entry of its target into the next state.  What is *)
(* not packed is dropped there.                                            *)
(*                                                                         *)
(* The module runs the analysis of a body and then the generated code: the *)
(* block and location it is at and the locals that hold a value.           *)
(***************************************************************************)
EXTENDS Dataflow

ASSUME ArmsAssumption == \A m \in Mirs : ArmsOwnTheirBlocks(m)

\* elaborate_assignments reads the sets with IdxSet::iter, which returns the
\* bits of the set only if they are in one word (see IdxSet).
ASSUME OneWordAssumption == \A m \in Mirs : m.nlocals <= WordBits

VARIABLES
  run,    \* "compile", "run", "stop" (returned), "bug" (compiler panic)
  block, location,   \* where the generated code is
  live    \* the locals that hold a value

runVars == <<run, block, location, live>>
machineVars == <<vars, runVars>>

-----------------------------------------------------------------------------
(***************************************************************************)
(* elaborate_assignments.                                                  *)
(***************************************************************************)

\* The bindings of match arms do not flow along the edge in the analysis:
\* they are added to the block of the arm here.
arm_lvalues(b) == ArmBindings(mir, b)

assigned_on_entry(b) == arm_lvalues(b) \union on_entry[b]

\* A local the block fills and empties again has no gen bit; it is looked up
\* among the destinations of the statements.
assigned(b) ==
  {l \in Locals(mir) : \E i \in 1..Len(Stmts(mir, b)) :
     Stmts(mir, b)[i].op \in {"Write", "Let"} /\ l \in Stmts(mir, b)[i].to}

\* Mutant: locals that are filled and emptied in the block are forgotten.
initialized_GenOnly(b) == gen_set[b]

initialized(b) == gen_set[b] \union ((kill_set[b] \ on_entry[b]) \intersect assigned(b))

-----------------------------------------------------------------------------
MachineInit ==
  /\ Init
  /\ run = "compile"
  /\ block = START_BLOCK
  /\ location = 1
  /\ live = {}

Analyse ==
  /\ run = "compile"
  /\ Next
  /\ UNCHANGED runVars

\* get_path_local indexes the move paths with every bit of the entry sets,
\* the padding bits of a block that no edge reaches included.
PathOutOfBounds ==
  /\ run = "compile"
  /\ phase = "done"
  /\ \E b \in Blocks(mir) : ~(on_entry[b] \subseteq Locals(mir))
  /\ run' = "bug"
  /\ UNCHANGED <<vars, block, location, live>>

\* start_state_expr packs the arguments, the driver adds the coroutine's.
Start ==
  /\ run = "compile"
  /\ phase = "done"
  /\ \A b \in Blocks(mir) : on_entry[b] \subseteq Locals(mir)
  /\ run' = "run"
  /\ live' = assigned_on_entry(START_BLOCK)
  /\ UNCHANGED <<vars, block, location>>

\* Mutant: the destination is filled before the operands are moved.
Execute_Swapped ==
  /\ run = "run"
  /\ ~AtTerm(mir, block, location)
  /\ live' = (live \union Present(mir, block, location)) \ Absent(mir, block, location)
  /\ location' = location + 1
  /\ UNCHANGED <<vars, run, block>>

\* Operands are moved out, then the destination is filled; StorageLive and
\* StorageDead render nothing, but a dead local is not used again.
Execute ==
  /\ run = "run"
  /\ ~AtTerm(mir, block, location)
  /\ live' = (live \ Absent(mir, block, location)) \union Present(mir, block, location)
  /\ location' = location + 1
  /\ UNCHANGED <<vars, run, block>>

\* The successors the generated code goes to: of a Break only the target.
Taken(b) == IF Term(mir, b).op = "Break" THEN {1} ELSE Edges(b)

\* What an edge has to pack from: the values left after the terminator's
\* moves, and those the edge makes.
Available(b, k) == (live \ TermMoves(Term(mir, b))) \union Term(mir, b).binds[k]

\* goto and the suspension with the call of resume that follows it: the next
\* arm unpacks what was packed, and nothing else survives.
TakeEdge(k) ==
  /\ run = "run"
  /\ AtTerm(mir, block, location)
  /\ k \in Taken(block)
  /\ block' = successors(Term(mir, block))[k]
  /\ location' = 1
  /\ live' = assigned_on_entry(block')
  /\ UNCHANGED <<vars, run>>

Return ==
  /\ run = "run"
  /\ AtTerm(mir, block, location)
  /\ Term(mir, block).op = "Return"
  /\ run' = "stop"
  /\ live' = {}
  /\ UNCHANGED <<vars, block, location>>

MachineNext ==
  \/ Analyse
  \/ PathOutOfBounds
  \/ Start
  \/ Execute
  \/ \E k \in Edges(block) : TakeEdge(k)
  \/ Return

MachineSpec == MachineInit /\ [][MachineNext]_machineVars

-----------------------------------------------------------------------------
MachineTypeOK ==
  /\ TypeOK
  /\ run \in {"compile", "run", "stop", "bug"}
  /\ run # "compile" => phase = "done"
  /\ block \in Blocks(mir)
  /\ location \in 1..TermIndex(mir, block)
  /\ live \subseteq Locals(mir)

\* Wherever the generated code packs a state, every local it packs holds a
\* value: it was assigned, and not moved since, on the way that led here.
PackedLive ==
  run = "run" /\ AtTerm(mir, block, location) =>
    \A k \in Taken(block) :
      assigned_on_entry(successors(Term(mir, block))[k]) \subseteq Available(block, k)

\* Every local that holds a value inside a block is one the arm unpacks or
\* declares: a local that is filled, moved out and perhaps filled again in
\* the same block is not missed.
Declared ==
  run = "run" => live \subseteq assigned_on_entry(block) \union initialized(block)

\* In the middle of a block the locals that hold a value are what the entry
\* set and the transfer function up to there say.
LiveExact ==
  run = "run" =>
    live = (assigned_on_entry(block) \union NetGen(mir, block, location))
             \ NetKill(mir, block, location)

\* Blocks with padding bits are never those that the generated code can get
\* to, over-approximated by the edges: a compiler panic is only due to a
\* block that no chain of edges from the start block reaches.
PanicsOnlyOnUnreachable ==
  run # "compile" => (run = "bug" <=> ReachableBlocks(mir) # Blocks(mir) /\ Bits(mir) # Locals(mir))
=============================================================================
