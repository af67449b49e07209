------------------------------ MODULE Dataflow ------------------------------
(***************************************************************************)
(* The definite-initialization analysis of src/src/analysis/dataflow: the  *)
(* state of one DataflowAnalysis, first building the gen and kill sets of  *)
(* every block (build_sets, one location per step), then propagating the   *)
(* entry sets along the control-flow graph until a whole pass over the     *)
(* blocks changes nothing (propagate, one block per step).                 *)
(*                                                                         *)
(* A set of bits is a set of move-path numbers.  MoveDataBuilder::new      *)
(* makes one path per local in order, so path numbers are local numbers;   *)
(* the sets are stored in whole words, so they also have padding bits      *)
(* above the last path.                                                    *)
(***************************************************************************)
EXTENDS Paths

CONSTANTS
  Mirs,      \* the bodies to analyse
  WordBits   \* the bits of a machine word (usize)

ASSUME WordBitsAssumption == WordBits \in Nat \ {0}
ASSUME MirsAssumption == \A m \in Mirs : IsBody(m)

VARIABLES
  mir,       \* the body, never changed by the analysis
  phase,     \* "start", "build", "walk", "done"
  bb,        \* the block the loops are at
  j_stmt,    \* build_sets: the location in that block
  gen_set, kill_set, on_entry,   \* AllSets: block -> set of bits
  changed    \* PropagationContext::changed

vars == <<mir, phase, bb, j_stmt, gen_set, kill_set, on_entry, changed>>

\* bits_per_block, rounded up to whole words.
words_per_block(m) == (m.nlocals + WordBits - 1) \div WordBits
Bits(m) == 1..(words_per_block(m) * WordBits)

(***************************************************************************)
(* DataflowAnalysis::new: empty gen and kill sets; bottom_value is true,   *)
(* so every entry set starts full, padding included.                       *)
(***************************************************************************)
NewAnalysis(m) ==
  /\ mir = m
  /\ phase = "start"
  /\ bb = START_BLOCK
  /\ j_stmt = 1
  /\ gen_set = [b \in Blocks(m) |-> {}]
  /\ kill_set = [b \in Blocks(m) |-> {}]
  /\ on_entry = [b \in Blocks(m) |-> Bits(m)]
  /\ changed = TRUE

Init == \E m \in Mirs : NewAnalysis(m)

\* Mutant: the bits of the start block are not cleared first.
StartBlockEffect_NoClear ==
  /\ phase = "start"
  /\ on_entry' = [on_entry EXCEPT ![START_BLOCK] = @ \union args_iter(mir)]
  /\ phase' = "build"
  /\ UNCHANGED <<mir, bb, j_stmt, gen_set, kill_set, changed>>

\* start_block_effect: only the arguments are initialized at the start.
StartBlockEffect ==
  /\ phase = "start"
  /\ on_entry' = [on_entry EXCEPT ![START_BLOCK] = args_iter(mir)]
  /\ phase' = "build"
  /\ UNCHANGED <<mir, bb, j_stmt, gen_set, kill_set, changed>>

\* Mutant: the destination is filled before the operands are moved.
update_bits_Swapped(b, i) ==
  /\ gen_set' = [gen_set EXCEPT ![b] = (@ \union Present(mir, b, i)) \ Absent(mir, b, i)]
  /\ kill_set' = [kill_set EXCEPT ![b] = (@ \ Present(mir, b, i)) \union Absent(mir, b, i)]

\* BlockSets::kill for the locals moved or dead at the location, then
\* BlockSets::gen for those it fills: each removes from the other set.
update_bits(b, i) ==
  LET absent  == Absent(mir, b, i)
      present == Present(mir, b, i)
  IN /\ gen_set' = [gen_set EXCEPT ![b] = (@ \ absent) \union present]
     /\ kill_set' = [kill_set EXCEPT ![b] = (@ \union absent) \ present]

\* statement_effect and, at the index after the last statement,
\* terminator_effect.
LocationEffect ==
  /\ phase = "build"
  /\ bb \in Blocks(mir)
  /\ update_bits(bb, j_stmt)
  /\ IF AtTerm(mir, bb, j_stmt)
     THEN bb' = bb + 1 /\ j_stmt' = 1
     ELSE bb' = bb /\ j_stmt' = j_stmt + 1
  /\ UNCHANGED <<mir, phase, on_entry, changed>>

\* Enter the loop of propagate: clear the flag, start at the first block.
BeginPass ==
  /\ changed' = FALSE
  /\ bb' = START_BLOCK
  /\ UNCHANGED <<mir, j_stmt, gen_set, kill_set, on_entry>>

EndBuild ==
  /\ phase = "build"
  /\ bb \notin Blocks(mir)
  /\ phase' = "walk"
  /\ BeginPass

\* Mutant: the kill set is forgotten.
out_NoKill(b) == on_entry[b] \union gen_set[b]

\* The state at the end of block b, and what its k-th edge carries: only the
\* edge of a Suspend fills its destination (propagate_call_return).
out(b) == (on_entry[b] \union gen_set[b]) \ kill_set[b]

\* Mutant: the edge of a suspension does not fill its destination.
EdgeBits_NoReturn(b, k) == out(b)

EdgeBits(b, k) ==
  IF Term(mir, b).op = "Suspend" THEN out(b) \union Term(mir, b).binds[k] ELSE out(b)

Edges(b) == 1..Len(successors(Term(mir, b)))
EdgesTo(b, s) == {k \in Edges(b) : successors(Term(mir, b))[k] = s}

\* Mutants: the flag says whether the last block changed anything, and
\* it is always set.
WalkBlock_LastOnly ==
  /\ phase = "walk"
  /\ bb \in Blocks(mir)
  /\ on_entry' = [s \in Blocks(mir) |->
                    {e \in on_entry[s] : \A k \in EdgesTo(bb, s) : e \in EdgeBits(bb, k)}]
  /\ changed' = (on_entry' # on_entry)
  /\ bb' = bb + 1
  /\ UNCHANGED <<mir, phase, j_stmt, gen_set, kill_set>>

WalkBlock_AlwaysChanged ==
  /\ phase = "walk"
  /\ bb \in Blocks(mir)
  /\ on_entry' = [s \in Blocks(mir) |->
                    {e \in on_entry[s] : \A k \in EdgesTo(bb, s) : e \in EdgeBits(bb, k)}]
  /\ changed' = TRUE
  /\ bb' = bb + 1
  /\ UNCHANGED <<mir, phase, j_stmt, gen_set, kill_set>>

\* One iteration of walk_cfg: intersect the bits of every edge of bb into the
\* entry set of its successor, and note whether any of them shrank.
WalkBlock ==
  /\ phase = "walk"
  /\ bb \in Blocks(mir)
  /\ on_entry' = [s \in Blocks(mir) |->
                    {e \in on_entry[s] : \A k \in EdgesTo(bb, s) : e \in EdgeBits(bb, k)}]
  /\ changed' = (changed \/ on_entry' # on_entry)
  /\ bb' = bb + 1
  /\ UNCHANGED <<mir, phase, j_stmt, gen_set, kill_set>>

NextPass ==
  /\ phase = "walk"
  /\ bb \notin Blocks(mir)
  /\ changed
  /\ phase' = phase
  /\ BeginPass

Finish ==
  /\ phase = "walk"
  /\ bb \notin Blocks(mir)
  /\ ~changed
  /\ phase' = "done"
  /\ UNCHANGED <<mir, bb, j_stmt, gen_set, kill_set, on_entry, changed>>

Next ==
  \/ StartBlockEffect
  \/ LocationEffect
  \/ EndBuild
  \/ WalkBlock
  \/ NextPass
  \/ Finish

\* The analysis is one sequential call: it runs on as long as it can.
Spec == Init /\ [][Next]_vars
FairSpec == Spec /\ WF_vars(Next)

-----------------------------------------------------------------------------
(***************************************************************************)
(* Properties.                                                             *)
(***************************************************************************)

TypeOK ==
  /\ mir \in Mirs
  /\ phase \in {"start", "build", "walk", "done"}
  /\ bb \in 1..(Len(mir.blocks) + 1)
  /\ j_stmt \in IF phase = "build" /\ bb \in Blocks(mir) THEN 1..TermIndex(mir, bb) ELSE {1}
  /\ gen_set \in [Blocks(mir) -> SUBSET Locals(mir)]
  /\ kill_set \in [Blocks(mir) -> SUBSET Locals(mir)]
  /\ on_entry \in [Blocks(mir) -> SUBSET Bits(mir)]
  /\ changed \in BOOLEAN

\* At no time is a local both generated and killed by a block: out() takes
\* the union before the difference, so an overlap would lose an assignment
\* that follows a move in the same block.
GenKillDisjoint == \A b \in Blocks(mir) : gen_set[b] \intersect kill_set[b] = {}

\* How far build_sets has got in block b.
Built(b) ==
  IF phase = "start" THEN 1
  ELSE IF phase # "build" \/ b < bb THEN TermIndex(mir, b) + 1
  ELSE IF b = bb THEN j_stmt ELSE 1

\* The gen and kill sets say exactly what the locations visited so far do.
\* The code gets there by destructive updates, so a wrong order of moves and
\* assignments inside one statement (x = f(x)) shows here.
TransferExact ==
  \A b \in Blocks(mir) :
    /\ gen_set[b] = NetGen(mir, b, Built(b))
    /\ kill_set[b] = NetKill(mir, b, Built(b))

\* The data-flow equations: the entry set of a successor holds only what the
\* edge into it carries, and the start block only has the arguments.
Solves(S) ==
  /\ S[START_BLOCK] \subseteq args_iter(mir)
  /\ \A b \in Blocks(mir) : \A k \in Edges(b) :
       LET o == (S[b] \union gen_set[b]) \ kill_set[b]
       IN S[successors(Term(mir, b))[k]] \subseteq
            (IF Term(mir, b).op = "Suspend" THEN o \union Term(mir, b).binds[k] ELSE o)

\* When the loop stops, the equations hold along every edge, whatever the
\* order in which the blocks were visited: a set that shrank late in a pass
\* forces another pass.
SolvedWhenDone == phase = "done" => Solves(on_entry)

\* The result is exact: a local is in the entry set of a block if and only if
\* it is initialized along every path into it.  Neither a local that some
\* path leaves uninitialized is kept, nor one that all paths initialize lost.
MeetOverPaths ==
  phase = "done" =>
    LET unset == MaybeUnset(mir, Bits(mir))
    IN \A b \in Blocks(mir) : on_entry[b] = {e \in Bits(mir) : <<b, e>> \notin unset}

\* The propagation loop stops.
Termination == <>(phase = "done")
=============================================================================
