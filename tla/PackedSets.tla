----------------------------- MODULE PackedSets -----------------------------
(***************************************************************************)
(* The storage of the data-flow analysis: the gen, kill and entry sets of  *)
(* all the blocks of a body are three vectors of machine words             *)
(* (dataflow/mod.rs, AllSets), each block has a range of them, and a step  *)
(* of the analysis works on those words (data_structures/bitslice.rs and   *)
(* indexed_set.rs).  A block is propagated through one scratch set,        *)
(* in_out, edge by edge.                                                   *)
(*                                                                         *)
(* A word is the set of the positions of its one-bits, so `&', `|' and     *)
(* `!' are intersection, union and difference.  Words are numbered from 0  *)
(* as in the code, blocks and paths from 1 as in Mir.  The module          *)
(* implements Dataflow, where a set of bits is just a set.                 *)
(***************************************************************************)
EXTENDS Mir

CONSTANTS
  Mirs,      \* the bodies to analyse
  WordBits   \* the bits of a machine word (usize)

ASSUME WordBitsAssumption == WordBits \in Nat \ {0}
ASSUME MirsAssumption == \A m \in Mirs : IsBody(m)

VARIABLES
  mir,
  phase,     \* "start", "build", "walk", "edges", "done"
  bb,        \* the block the loops are at
  j_stmt,    \* build_sets: the location in that block
  edge,      \* the edge of bb that is propagated next
  gen_sets, kill_sets, on_entry_sets,   \* AllSets: word index -> word
  in_out,    \* the scratch set of propagate
  changed    \* PropagationContext::changed

vars == <<mir, phase, bb, j_stmt, edge, gen_sets, kill_sets, on_entry_sets, in_out, changed>>
sets == <<gen_sets, kill_sets, on_entry_sets>>

-----------------------------------------------------------------------------
(***************************************************************************)
(* Words and sets of words.                                                *)
(***************************************************************************)
Filled == 0..(WordBits - 1)
Words == SUBSET Filled

\* Where the bit of path e is.
bit_lookup(e) == [word |-> (e - 1) \div WordBits, bit |-> (e - 1) % WordBits]

\* The bits that paths have in word w.
mask(paths, w) == {bit_lookup(e).bit : e \in {p \in paths : bit_lookup(p).word = w}}

\* IdxSet::add and IdxSet::remove for each of the paths.
add(slice, paths) == [w \in DOMAIN slice |-> slice[w] \union mask(paths, w)]
remove(slice, paths) == [w \in DOMAIN slice |-> slice[w] \ mask(paths, w)]

\* A bit beyond the words of the set is an index out of bounds.
InBounds(slice, paths) == \A e \in paths : bit_lookup(e).word \in DOMAIN slice

\* bitwise with Union, with Subtract, and with the join of the analysis.
union(slice, other) == [w \in DOMAIN slice |-> slice[w] \union other[w]]
subtract(slice, other) == [w \in DOMAIN slice |-> slice[w] \ other[w]]
join(slice, other) == [w \in DOMAIN slice |-> slice[w] \intersect other[w]]

\* Mutant: one word more than is needed where no bit is left over.
NewSet_Over(word, universe_size) ==
  [w \in 0..(universe_size \div WordBits) |-> word]

\* IdxSetBuf::new.
NewSet(word, universe_size) ==
  [w \in 0..((universe_size + (WordBits - 1)) \div WordBits - 1) |-> word]

-----------------------------------------------------------------------------
(***************************************************************************)
(* The range of a block.                                                   *)
(***************************************************************************)

\* Mutant: rounded down.
words_per_block_Floor(m) == m.nlocals \div WordBits

words_per_block(m) == (m.nlocals + WordBits - 1) \div WordBits

\* Mutant: the vectors are made for the bits that are asked for, not for the
\* words they take.
bits_per_block_Unrounded(m) == m.nlocals

bits_per_block(m) == words_per_block(m) * WordBits
SliceWords(m) == 0..(words_per_block(m) - 1)

\* Mutant: the ranges of two blocks share a word.
offset_Short(m, b) == (words_per_block(m) - 1) * (b - 1)

offset(m, b) == words_per_block(m) * (b - 1)

\* for_block: the words of block b, and the vector with those replaced.
SliceOf(m, words, b) == [w \in SliceWords(m) |-> words[offset(m, b) + w]]
Store(m, words, b, slice) ==
  [w \in DOMAIN words |->
     IF w - offset(m, b) \in SliceWords(m) THEN slice[w - offset(m, b)] ELSE words[w]]

-----------------------------------------------------------------------------
NewAnalysis(m) ==
  /\ mir = m
  /\ phase = "start"
  /\ bb = START_BLOCK
  /\ j_stmt = 1
  /\ edge = 1
  /\ gen_sets = NewSet({}, Len(m.blocks) * bits_per_block(m))
  /\ kill_sets = NewSet({}, Len(m.blocks) * bits_per_block(m))
  /\ on_entry_sets = NewSet(Filled, Len(m.blocks) * bits_per_block(m))
  /\ in_out = NewSet({}, bits_per_block(m))
  /\ changed = TRUE

Init == \E m \in Mirs : NewAnalysis(m)

StartBlockEffect ==
  LET cleared == [w \in SliceWords(mir) |-> {}]
  IN /\ phase = "start"
     /\ InBounds(cleared, args_iter(mir))
     /\ on_entry_sets' = Store(mir, on_entry_sets, START_BLOCK, add(cleared, args_iter(mir)))
     /\ phase' = "build"
     /\ UNCHANGED <<mir, bb, j_stmt, edge, gen_sets, kill_sets, in_out, changed>>

\* BlockSets::kill for what the location empties, then BlockSets::gen for
\* what it fills.
update_bits(b, absent, present) ==
  LET gen  == SliceOf(mir, gen_sets, b)
      kill == SliceOf(mir, kill_sets, b)
  IN /\ InBounds(gen, absent \union present)
     /\ gen_sets' = Store(mir, gen_sets, b, add(remove(gen, absent), present))
     /\ kill_sets' = Store(mir, kill_sets, b, remove(add(kill, absent), present))

LocationEffect ==
  /\ phase = "build"
  /\ bb \in Blocks(mir)
  /\ update_bits(bb, Absent(mir, bb, j_stmt), Present(mir, bb, j_stmt))
  /\ IF AtTerm(mir, bb, j_stmt)
     THEN bb' = bb + 1 /\ j_stmt' = 1
     ELSE bb' = bb /\ j_stmt' = j_stmt + 1
  /\ UNCHANGED <<mir, phase, edge, on_entry_sets, in_out, changed>>

\* The head of the loop of propagate, with reset: bottom_value is true.
BeginPass ==
  /\ changed' = FALSE
  /\ in_out' = [w \in DOMAIN in_out |-> Filled]
  /\ bb' = START_BLOCK
  /\ UNCHANGED <<mir, j_stmt, edge, sets>>

EndBuild ==
  /\ phase = "build"
  /\ bb \notin Blocks(mir)
  /\ phase' = "walk"
  /\ BeginPass

\* walk_cfg: in_out takes the words of the entry set, then those of gen are
\* added and those of kill removed.
LoadBlock ==
  /\ phase = "walk"
  /\ bb \in Blocks(mir)
  /\ in_out' = subtract(union(SliceOf(mir, on_entry_sets, bb), SliceOf(mir, gen_sets, bb)),
                        SliceOf(mir, kill_sets, bb))
  /\ phase' = "edges"
  /\ edge' = 1
  /\ UNCHANGED <<mir, bb, j_stmt, sets, changed>>

Edges(b) == 1..Len(successors(Term(mir, b)))

\* propagate_call_return: what edge k of block b fills before it is followed.
EdgeFills(b, k) == IF Term(mir, b).op = "Suspend" THEN Term(mir, b).binds[k] ELSE {}

\* propagate_bits_into_entry_set_for, for one successor.
PropagateEdge ==
  /\ phase = "edges"
  /\ edge \in Edges(bb)
  /\ InBounds(in_out, EdgeFills(bb, edge))
  /\ in_out' = add(in_out, EdgeFills(bb, edge))
  /\ LET target == successors(Term(mir, bb))[edge]
         entry == SliceOf(mir, on_entry_sets, target)
         joined == join(entry, in_out')
     IN /\ on_entry_sets' = Store(mir, on_entry_sets, target, joined)
        /\ changed' = (changed \/ joined # entry)
  /\ edge' = edge + 1
  /\ UNCHANGED <<mir, phase, bb, j_stmt, gen_sets, kill_sets>>

NextBlock ==
  /\ phase = "edges"
  /\ edge \notin Edges(bb)
  /\ phase' = "walk"
  /\ bb' = bb + 1
  /\ UNCHANGED <<mir, j_stmt, edge, sets, in_out, changed>>

NextPass ==
  /\ phase = "walk"
  /\ bb \notin Blocks(mir)
  /\ changed
  /\ phase' = phase
  /\ BeginPass

Finish ==
  /\ phase = "walk"
  /\ bb \notin Blocks(mir)
  /\ ~changed
  /\ phase' = "done"
  /\ UNCHANGED <<mir, bb, j_stmt, edge, sets, in_out, changed>>

Next ==
  \/ StartBlockEffect
  \/ LocationEffect
  \/ EndBuild
  \/ LoadBlock
  \/ PropagateEdge
  \/ NextBlock
  \/ NextPass
  \/ Finish

Spec == Init /\ [][Next]_vars
FairSpec == Spec /\ WF_vars(Next)

-----------------------------------------------------------------------------
(***************************************************************************)
(* Properties.                                                             *)
(***************************************************************************)
Bits(m) == 1..bits_per_block(m)

\* The paths whose bit is set in the words of one set (get_bit).
BitsOf(m, slice) == {e \in Bits(m) : bit_lookup(e).bit \in slice[bit_lookup(e).word]}
SetFor(words) == [b \in Blocks(mir) |-> BitsOf(mir, SliceOf(mir, words, b))]

\* The edges into block s that are not propagated yet, and what they carry.
Pending(s) ==
  IF phase = "edges" THEN {k \in Edges(bb) : k >= edge /\ successors(Term(mir, bb))[k] = s} ELSE {}
Carried(k) == BitsOf(mir, in_out) \union EdgeFills(bb, k)

\* The entry sets with the block that is being propagated counted as done.
Settled ==
  [s \in Blocks(mir) |-> {e \in SetFor(on_entry_sets)[s] : \A k \in Pending(s) : e \in Carried(k)}]

\* Where the loop of Dataflow is: the block that is being propagated is behind
\* it, and so is the flag.
LoopPhase == IF phase = "edges" THEN "walk" ELSE phase
LoopBlock == IF phase = "edges" THEN bb + 1 ELSE bb
LoopChanged == changed \/ Settled # SetFor(on_entry_sets)

Sets == INSTANCE Dataflow WITH
  phase    <- LoopPhase,
  bb       <- LoopBlock,
  gen_set  <- SetFor(gen_sets),
  kill_set <- SetFor(kill_sets),
  on_entry <- Settled,
  changed  <- LoopChanged

\* The sets of one block, and of all of them.
Slices(m) == [SliceWords(m) -> Words]
Vectors(m) == [0..(Len(m.blocks) * words_per_block(m) - 1) -> Words]

\* Indices, vectors and words are in range: each vector has as many words as
\* the blocks take, and no block takes more or fewer than another.
PackedTypeOK ==
  /\ mir \in Mirs
  /\ phase \in {"start", "build", "walk", "edges", "done"}
  /\ bb \in 1..(Len(mir.blocks) + 1)
  /\ phase = "edges" => bb \in Blocks(mir)
  /\ edge \in Nat \ {0}
  /\ j_stmt \in IF phase = "build" /\ bb \in Blocks(mir) THEN 1..TermIndex(mir, bb) ELSE {1}
  /\ gen_sets \in Vectors(mir)
  /\ kill_sets \in Vectors(mir)
  /\ on_entry_sets \in Vectors(mir)
  /\ in_out \in Slices(mir)
  /\ changed \in BOOLEAN

\* No index is out of bounds in any step that the analysis can take next,
\* though every step divides and multiplies anew: a block's words lie in the
\* three vectors, they have a word for each of the bits that the next location
\* or edge looks up, and in_out has as many words as they, as `bitwise' asserts.
LookupsInBounds ==
  /\ \A b \in Blocks(mir), w \in SliceWords(mir) :
       offset(mir, b) + w \in DOMAIN gen_sets \intersect DOMAIN kill_sets \intersect DOMAIN on_entry_sets
  /\ DOMAIN in_out = SliceWords(mir)
  /\ phase = "start" => InBounds(SliceOf(mir, on_entry_sets, START_BLOCK), args_iter(mir))
  /\ phase = "build" /\ bb \in Blocks(mir) =>
       InBounds(SliceOf(mir, gen_sets, bb), Absent(mir, bb, j_stmt) \union Present(mir, bb, j_stmt))
  /\ phase = "edges" => \A k \in Edges(bb) : InBounds(in_out, EdgeFills(bb, k))

\* The words of all the blocks, packed into three vectors, behave as one set
\* of paths per block: a bit set for one block is never seen in another, none
\* is lost to rounding, and propagating edge by edge through one scratch set,
\* that is reused from block to block, takes the same steps as intersecting
\* all the edges of a block at once.
ImplementsDataflow == Sets!Spec

\* The word-level analysis stops too: the flag that an edge changed a word is
\* set in every pass but the last.
PackedTermination == <>(phase = "done")
=============================================================================
