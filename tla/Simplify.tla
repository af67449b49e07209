------------------------------ MODULE Simplify ------------------------------
(***************************************************************************)
(* The simplification of the control-flow graph                            *)
(* (src/src/transform/simplify.rs over src/src/traversal.rs), a pass that  *)
(* the pass manager has switched off: its line in expand_state_machine is  *)
(* a comment, and so is the iterator of BitVector it needs.                *)
(*                                                                         *)
(* It counts the references to every block, then goes over the blocks      *)
(* until nothing changes, letting jumps skip empty blocks and making a     *)
(* branch with equal targets a jump, and at last moves the blocks that     *)
(* are left to the front.  One step is one block of the loop, or one call or   *)
(* return of the recursion that follows the empty jumps.                   *)
(*                                                                         *)
(* A block is [stmts, op, succ]; stmts is FALSE if it has none.            *)
(***************************************************************************)
EXTENDS Mir, FiniteSets, SequencesExt

CONSTANT Graphs   \* the sequences of blocks to simplify

BlockSet(n) == [stmts : BOOLEAN, op : TermOps, succ : Seq(1..n)]

ASSUME GraphsAssumption ==
  \A g \in Graphs :
    /\ g \in Seq(BlockSet(Len(g))) /\ Len(g) >= 1
    /\ \A b \in DOMAIN g : g[b].op = "Goto" => Len(g[b].succ) = 1

VARIABLES
  source,         \* the blocks before the pass, never changed
  basic_blocks,
  phase,          \* "count", "simplify", "follow", "return", "keep", "done"
  bb,             \* the block of the loop
  successor,      \* which of its successors
  chain,          \* the calls of collapse_goto_chain: the blocks whose
                  \* terminators are taken out, the innermost last
  changed,
  pred_count,
  seen,           \* the blocks that are kept
  replacements,   \* remove_dead_blocks: old block -> new block
  used_blocks,
  origin          \* history: which block of source is at an index

removal == <<seen, replacements, used_blocks, origin>>
calls == <<successor, chain>>
vars == <<source, basic_blocks, phase, bb, calls, changed, pred_count, removal>>

Indices(blocks) == DOMAIN blocks
References(blocks, b) == DOMAIN blocks[b].succ

-----------------------------------------------------------------------------
(***************************************************************************)
(* traversal::preorder: the blocks that the start block leads to, and, for *)
(* type checking, all that have statements and what those lead to.         *)
(***************************************************************************)
Reached(succ, roots) ==
  LET r[n \in 0..Cardinality(DOMAIN succ)] ==
        IF n = 0 THEN roots
        ELSE LET before == r[n - 1] IN before \union UNION {succ[b] : b \in before}
  IN r[Cardinality(DOMAIN succ)]
From(blocks, roots) == Reached([b \in Indices(blocks) |-> ToSet(blocks[b].succ)], roots)

preorder(blocks) ==
  From(blocks, {START_BLOCK} \union {b \in Indices(blocks) : blocks[b].stmts})

\* The edges from the blocks of a set to block t.
ReferencesTo(blocks, set, t) ==
  UNION {{b} \X {k \in References(blocks, b) : blocks[b].succ[k] = t} : b \in set}

-----------------------------------------------------------------------------
Init ==
  /\ source \in Graphs
  /\ basic_blocks = source
  /\ phase = "count"
  /\ bb = START_BLOCK
  /\ successor = 1
  /\ chain = << >>
  /\ changed = FALSE
  /\ pred_count = [b \in Indices(source) |-> 0]
  /\ seen = {}
  /\ replacements = [b \in Indices(source) |-> b]
  /\ used_blocks = 0
  /\ origin = [b \in Indices(source) |-> b]

\* CfgSimplifier::new.
Count ==
  /\ phase = "count"
  /\ pred_count' = [b \in Indices(basic_blocks) |->
       (IF b = START_BLOCK THEN 1 ELSE 0)
       + Cardinality(ReferencesTo(basic_blocks, preorder(basic_blocks), b))]
  /\ phase' = "simplify"
  /\ UNCHANGED <<source, basic_blocks, bb, calls, changed, removal>>

\* Mutant: the target does not gain what the skipped block loses.
MoveReference_Lost(start, target) == [pred_count EXCEPT ![start] = @ - 1]

\* A reference to start becomes one to target; the last one takes the place
\* of start's own.
MoveReference(start, target) ==
  IF pred_count[start] = 1 THEN [pred_count EXCEPT ![start] = 0]
  ELSE LET more == [pred_count EXCEPT ![target] = @ + 1] IN [more EXCEPT ![start] = @ - 1]

\* Mutant: blocks with statements are skipped too.
EmptyJump_Visible(blocks, b) == blocks[b].op = "Goto"

EmptyJump(blocks, b) == ~blocks[b].stmts /\ blocks[b].op = "Goto"

\* simplify_branch.
SameTargets(op, succ) ==
  op \in {"If", "Match"} /\ succ # << >> /\ \A k \in DOMAIN succ : succ[k] = succ[1]

AtBlock == phase = "simplify" /\ bb \in Indices(basic_blocks)

SkipBlock ==
  /\ AtBlock
  /\ pred_count[bb] = 0
  /\ bb' = bb + 1
  /\ UNCHANGED <<source, basic_blocks, phase, calls, changed, pred_count, removal>>

TakeTerminator ==
  /\ AtBlock
  /\ pred_count[bb] # 0
  /\ phase' = "follow"
  /\ successor' = 1
  /\ UNCHANGED <<source, basic_blocks, bb, chain, changed, pred_count, removal>>

\* The reference that collapse_goto_chain is called with, once the calls in
\* the sequence inside have been made.
StartOf(inside) ==
  IF inside = << >> THEN <<bb, successor>> ELSE <<Last(inside), 1>>
Target == LET start == StartOf(chain) IN basic_blocks[start[1]].succ[start[2]]

\* Mutant: a cycle of empty jumps is followed for ever.
Follows_Cycle == EmptyJump(basic_blocks, Target) /\ Target # bb

\* The match at the head of collapse_goto_chain. A terminator that is out ends
\* the chain, so that a cycle collapses to where it is entered.
Follows == EmptyJump(basic_blocks, Target) /\ Target \notin {bb} \union ToSet(chain)
InChain == phase \in {"follow", "return"} /\ successor \in References(basic_blocks, bb)

Follow ==
  /\ phase = "follow"
  /\ InChain
  /\ Follows
  /\ chain' = Append(chain, Target)
  /\ UNCHANGED <<source, basic_blocks, phase, bb, successor, changed, pred_count, removal>>

\* A call returns: its terminator is put back, and the reference it was called
\* with leads to the end of the chain.
Collapse ==
  /\ InChain
  /\ phase = "return" \/ ~Follows
  /\ chain # << >>
  /\ LET caller == StartOf(Front(chain))
     IN basic_blocks' = [basic_blocks EXCEPT ![caller[1]].succ[caller[2]] = Target]
  /\ pred_count' = MoveReference(Last(chain), Target)
  /\ changed' = (changed \/ Last(chain) # Target)
  /\ chain' = Front(chain)
  /\ phase' = "return"
  /\ UNCHANGED <<source, bb, successor, removal>>

NextSuccessor ==
  /\ InChain
  /\ phase = "return" \/ ~Follows
  /\ chain = << >>
  /\ successor' = successor + 1
  /\ phase' = "follow"
  /\ UNCHANGED <<source, basic_blocks, bb, chain, changed, pred_count, removal>>

\* Mutant: that a branch became a jump does not count as a change.
PutBack_Quiet ==
  LET op == basic_blocks[bb].op
      succ == basic_blocks[bb].succ
      same == SameTargets(op, succ)
  IN /\ phase = "follow"
     /\ successor \notin DOMAIN succ
     /\ basic_blocks' = IF same THEN [basic_blocks EXCEPT ![bb].op = "Goto", ![bb].succ = <<succ[1]>>]
                        ELSE basic_blocks
     /\ pred_count' = IF same THEN [pred_count EXCEPT ![succ[1]] = @ - (Len(succ) - 1)] ELSE pred_count
     /\ phase' = "simplify"
     /\ bb' = bb + 1
     /\ UNCHANGED <<source, calls, changed, removal>>

\* The rest of the loop's body: a branch to one place becomes a jump (the
\* merging of successors is commented out there).
PutBack ==
  LET op == basic_blocks[bb].op
      succ == basic_blocks[bb].succ
      same == SameTargets(op, succ)
  IN /\ phase = "follow"
     /\ successor \notin DOMAIN succ
     /\ basic_blocks' = IF same THEN [basic_blocks EXCEPT ![bb].op = "Goto", ![bb].succ = <<succ[1]>>]
                        ELSE basic_blocks
     /\ pred_count' = IF same THEN [pred_count EXCEPT ![succ[1]] = @ - (Len(succ) - 1)] ELSE pred_count
     /\ changed' = (changed \/ same)
     /\ phase' = "simplify"
     /\ bb' = bb + 1
     /\ UNCHANGED <<source, calls, removal>>

\* Mutant: the flag is left as it is.
NextPass_Kept ==
  /\ phase = "simplify"
  /\ bb \notin Indices(basic_blocks)
  /\ changed
  /\ changed' = changed
  /\ bb' = START_BLOCK
  /\ UNCHANGED <<source, basic_blocks, phase, calls, pred_count, removal>>

NextPass ==
  /\ phase = "simplify"
  /\ bb \notin Indices(basic_blocks)
  /\ changed
  /\ changed' = FALSE
  /\ bb' = START_BLOCK
  /\ UNCHANGED <<source, basic_blocks, phase, calls, pred_count, removal>>

\* remove_dead_blocks begins.
FindAlive ==
  /\ phase = "simplify"
  /\ bb \notin Indices(basic_blocks)
  /\ ~changed
  /\ phase' = "keep"
  /\ seen' = preorder(basic_blocks)
  /\ bb' = START_BLOCK
  /\ UNCHANGED <<source, basic_blocks, calls, changed, pred_count, replacements, used_blocks, origin>>

Swapped(s, i, j) == [s EXCEPT ![i] = s[j], ![j] = s[i]]

\* The next block that is alive goes to the next free index.
KeepBlock ==
  /\ phase = "keep"
  /\ \E alive \in seen :
       /\ alive >= bb /\ \A b \in seen : b >= bb => alive <= b
       /\ replacements' = [replacements EXCEPT ![alive] = used_blocks + 1]
       /\ basic_blocks' = Swapped(basic_blocks, alive, used_blocks + 1)
       /\ origin' = Swapped(origin, alive, used_blocks + 1)
       /\ bb' = alive + 1
  /\ used_blocks' = used_blocks + 1
  /\ UNCHANGED <<source, phase, calls, changed, pred_count, seen>>

\* The rest is cut off, and every target is replaced by its new index.
Retarget ==
  /\ phase = "keep"
  /\ \A b \in seen : b < bb
  /\ basic_blocks' = [b \in 1..used_blocks |->
       [basic_blocks[b] EXCEPT !.succ = [k \in DOMAIN @ |-> replacements[@[k]]]]]
  /\ phase' = "done"
  /\ UNCHANGED <<source, bb, calls, changed, pred_count, removal>>

Next ==
  \/ Count
  \/ SkipBlock
  \/ TakeTerminator
  \/ Follow
  \/ Collapse
  \/ NextSuccessor
  \/ PutBack
  \/ NextPass
  \/ FindAlive
  \/ KeepBlock
  \/ Retarget

\* One sequential call.
Spec == Init /\ [][Next]_vars
FairSpec == Spec /\ WF_vars(Next)

-----------------------------------------------------------------------------
(***************************************************************************)
(* Properties.                                                             *)
(***************************************************************************)
SimplifyTypeOK ==
  /\ source \in Graphs
  /\ phase \in {"count", "simplify", "follow", "return", "keep", "done"}
  /\ bb \in 1..(Len(source) + 1)
  /\ successor \in Nat \ {0}
  /\ chain \in Seq(Indices(source)) /\ IsInjective(chain) /\ bb \notin ToSet(chain)
  /\ changed \in BOOLEAN
  /\ Len(basic_blocks) >= 1
  /\ \A b \in Indices(basic_blocks) :
       basic_blocks[b] \in BlockSet(IF phase = "done" THEN Len(basic_blocks) ELSE Len(source))
  /\ pred_count \in [Indices(source) -> Nat]
  /\ seen \subseteq Indices(source)
  /\ replacements \in [Indices(source) -> Indices(source)]
  /\ used_blocks \in 0..Len(source)
  /\ origin \in [Indices(source) -> Indices(source)]

\* What can be seen of an execution: blocks with statements, suspensions and
\* the return; an empty block that only jumps or branches is silent.
Visible(blocks, b) == blocks[b].stmts \/ blocks[b].op \in {"Suspend", "Return"}

\* The blocks that come in view next when execution goes on at one of roots,
\* and whether it may go round in silent blocks for ever.
SilentFrom(blocks, roots) ==
  Reached([b \in Indices(blocks) |-> IF Visible(blocks, b) THEN {} ELSE ToSet(blocks[b].succ)], roots)
Ahead(blocks, roots, name) ==
  LET silent == SilentFrom(blocks, roots)
  IN [next  |-> {name[b] : b \in {c \in silent : Visible(blocks, c)}},
      spins |-> \E b \in silent : ~Visible(blocks, b) /\ b \in SilentFrom(blocks, ToSet(blocks[b].succ))]

\* At every step of the pass, and after the blocks are renumbered, the start
\* and every block in view that execution can come to lead to the same blocks
\* in view as before the pass, and may spin silently only if they did: no
\* jump is sent past a statement, a cycle of empty blocks is not lost, and no
\* block is swapped or cut off while something still jumps to it.
FlowKept ==
  phase # "keep" =>
    LET same == [b \in Indices(source) |-> b]
    IN /\ Ahead(basic_blocks, {START_BLOCK}, origin) = Ahead(source, {START_BLOCK}, same)
       /\ \A b \in From(basic_blocks, {START_BLOCK}) : Visible(basic_blocks, b) =>
            Ahead(basic_blocks, ToSet(basic_blocks[b].succ), origin)
              = Ahead(source, ToSet(source[origin[b]].succ), same)

\* The counts are kept up to date without looking at the graph again: they are
\* the references out of the blocks that were counted at first, less the empty
\* ones that nothing refers to any more. A count that is too low would stop at
\* zero too early, and a block still in use would be skipped.
PredCountExact ==
  phase \notin {"count", "keep", "done"} =>
    LET counted == {b \in preorder(source) : pred_count[b] # 0 \/ source[b].stmts}
    IN \A b \in Indices(source) :
         pred_count[b] = (IF b = START_BLOCK THEN 1 ELSE 0)
                         + Cardinality(ReferencesTo(basic_blocks, counted, b))

\* A second run would find nothing to do.  No block that can be reached
\* branches to one place only, or jumps to another block that is an empty jump,
\* unless that one goes to itself.  Every block that is left is one that the
\* start or a block with statements leads to: a block that the jumps have come
\* to skip is gone, but dead blocks with statements stay, with what they lead to.
FullySimplified ==
  phase = "done" =>
    /\ \A b \in From(basic_blocks, {START_BLOCK}) :
         /\ ~SameTargets(basic_blocks[b].op, basic_blocks[b].succ)
         /\ \A k \in References(basic_blocks, b) :
              LET s == basic_blocks[b].succ[k]
              IN EmptyJump(basic_blocks, s) /\ s # b => basic_blocks[s].succ = <<s>>
    /\ preorder(basic_blocks) = Indices(basic_blocks)

\* The loop over the blocks ends, and so does the pass.
SimplifyEnds == <>(phase = "done")

\* "it removes dead blocks, and some of these can be ill-typed".
DeadBlocksRemoved ==
  phase = "done" => From(basic_blocks, {START_BLOCK}) = Indices(basic_blocks)
=============================================================================
