---------------------------- MODULE DriverProofs ----------------------------
(***************************************************************************)
(* Proofs about the definite-initialization analysis and the code that is  *)
(* generated from it, for every set of well-formed bodies and every word   *)
(* size.  First the analysis: its entry sets are what holds a value on     *)
(* every path.  Then the generated code: whatever an edge packs holds a    *)
(* value, and whatever holds a value was unpacked or declared.  And the    *)
(* driver adds nothing to it: any sequence of calls, failing ones          *)
(* included, is one run of Machine, so what is proved of that run holds    *)
(* across suspensions.                                                     *)
(***************************************************************************)
EXTENDS Driver, Dataflow, MirProofs

(***************************************************************************)
(* Well-formed bodies.                                                     *)
(***************************************************************************)

\* The bits of the sets include one for every local.
LEMMA LocalsAreBits ==
  ASSUME NEW m, IsBody(m)
  PROVE  Locals(m) \subseteq Bits(m)
<1>1. m.nlocals \in Nat BY DEF IsBody
<1>2. m.nlocals <= words_per_block(m) * WordBits
  BY <1>1, RoundUp, WordBitsAssumption DEF words_per_block
<1>3. words_per_block(m) * WordBits \in Int
  BY <1>1, WordBitsAssumption DEF words_per_block
<1> QED BY <1>1, <1>2, <1>3 DEF Locals, Bits

-----------------------------------------------------------------------------
(***************************************************************************)
(* Type correctness.                                                       *)
(***************************************************************************)
LEMMA TypeInit == Init => TypeOK
<1> SUFFICES ASSUME NEW m \in Mirs, NewAnalysis(m) PROVE TypeOK
  BY DEF Init
<1>1. IsBody(m) BY MirsAssumption
<1>2. Len(m.blocks) \in Nat /\ Len(m.blocks) >= 1 BY <1>1 DEF IsBody
<1> QED BY <1>2 DEF NewAnalysis, TypeOK, START_BLOCK, Blocks

LEMMA TypeStep == TypeOK /\ [Next]_vars => TypeOK'
<1> SUFFICES ASSUME TypeOK, [Next]_vars PROVE TypeOK'
  OBVIOUS
<1> USE DEF TypeOK
<1>0. IsBody(mir) /\ Len(mir.blocks) \in Nat /\ Len(mir.blocks) >= 1
  BY MirsAssumption DEF IsBody
<1>1. CASE StartBlockEffect
  <2>1. args_iter(mir) \subseteq Bits(mir) BY <1>0, Starts, LocalsAreBits
  <2>2. on_entry' \in [Blocks(mir) -> SUBSET Bits(mir)]
    BY <1>1, <2>1 DEF StartBlockEffect
  <2>3. bb \in Blocks(mir) => TermIndex(mir, bb) \in Nat \ {0}
    BY <1>0, Successors
  <2> QED BY <1>1, <2>2, <2>3 DEF StartBlockEffect
<1>2. CASE LocationEffect
  <2>0. bb \in Blocks(mir) /\ phase = "build" BY <1>2 DEF LocationEffect
  <2>1. j_stmt \in 1..TermIndex(mir, bb) /\ TermIndex(mir, bb) \in Nat \ {0}
    BY <1>0, <2>0, Successors
  <2>2. /\ Absent(mir, bb, j_stmt) \subseteq Locals(mir)
        /\ Present(mir, bb, j_stmt) \subseteq Locals(mir)
    BY <1>0, <2>0, <2>1, EffectsAreLocals
  <2>3. /\ gen_set' \in [Blocks(mir) -> SUBSET Locals(mir)]
        /\ kill_set' \in [Blocks(mir) -> SUBSET Locals(mir)]
    BY <1>2, <2>0, <2>2 DEF LocationEffect, update_bits
  <2>4. bb + 1 \in Blocks(mir) => TermIndex(mir, bb + 1) \in Nat \ {0}
    BY <1>0, Successors
  <2>5. /\ bb' \in 1..(Len(mir.blocks) + 1)
        /\ j_stmt' \in IF bb' \in Blocks(mir) THEN 1..TermIndex(mir, bb') ELSE {1}
    <3>1. CASE AtTerm(mir, bb, j_stmt)
      BY <1>0, <1>2, <2>0, <2>4, <3>1 DEF LocationEffect, Blocks
    <3>2. CASE ~AtTerm(mir, bb, j_stmt)
      BY <1>0, <1>2, <2>0, <2>1, <3>2 DEF LocationEffect, AtTerm
    <3> QED BY <3>1, <3>2
  <2> QED BY <1>2, <2>0, <2>3, <2>5 DEF LocationEffect
<1>3. CASE EndBuild
  <2>1. /\ phase' = "walk" /\ bb' = 1 /\ changed' = FALSE
        /\ mir' = mir /\ j_stmt' = j_stmt /\ j_stmt = 1
        /\ gen_set' = gen_set /\ kill_set' = kill_set /\ on_entry' = on_entry
    BY <1>3 DEF EndBuild, BeginPass, START_BLOCK
  <2>2. bb' \in 1..(Len(mir.blocks) + 1) BY <1>0, <2>1
  <2> QED BY <2>1, <2>2
<1>4. CASE WalkBlock
  <2>1. on_entry' \in [Blocks(mir) -> SUBSET Bits(mir)]
    BY <1>4 DEF WalkBlock
  <2> QED BY <1>0, <1>4, <2>1 DEF WalkBlock, Blocks
<1>5. CASE NextPass
  <2>1. /\ phase' = "walk" /\ bb' = 1 /\ changed' = FALSE
        /\ mir' = mir /\ j_stmt' = j_stmt /\ j_stmt = 1
        /\ gen_set' = gen_set /\ kill_set' = kill_set /\ on_entry' = on_entry
    BY <1>5 DEF NextPass, BeginPass, START_BLOCK
  <2>2. bb' \in 1..(Len(mir.blocks) + 1) BY <1>0, <2>1
  <2> QED BY <2>1, <2>2
<1>6. CASE Finish
  BY <1>6 DEF Finish
<1>7. CASE UNCHANGED vars
  BY <1>7 DEF vars
<1> QED BY <1>1, <1>2, <1>3, <1>4, <1>5, <1>6, <1>7 DEF Next

\* Every reachable state is well typed: in particular the gen and kill sets
\* never hold a padding bit, and the loops never leave the body.
THEOREM TypeCorrect == Spec => []TypeOK
<1> QED BY TypeInit, TypeStep, PTL DEF Spec

-----------------------------------------------------------------------------
(***************************************************************************)
(* The gen and kill sets.                                                  *)
(***************************************************************************)

\* How one more location changes the transfer function.
LEMMA NetStep ==
  ASSUME NEW m, IsBody(m), NEW b \in Blocks(m), NEW i \in 1..TermIndex(m, b)
  PROVE  /\ NetGen(m, b, i + 1) = (NetGen(m, b, i) \ Absent(m, b, i)) \union Present(m, b, i)
         /\ NetKill(m, b, i + 1) = (NetKill(m, b, i) \union Absent(m, b, i)) \ Present(m, b, i)
<1>1. i \in Nat \ {0} /\ (i + 1) - 1 = i
  BY Successors
<1>2. Absent(m, b, i) \subseteq Locals(m) /\ Present(m, b, i) \subseteq Locals(m)
  BY EffectsAreLocals
<1>3. NetGen(m, b, i + 1) = (NetGen(m, b, i) \ Absent(m, b, i)) \union Present(m, b, i)
  <2>1. ASSUME NEW l \in NetGen(m, b, i + 1)
        PROVE  l \in (NetGen(m, b, i) \ Absent(m, b, i)) \union Present(m, b, i)
    <3>1. PICK p \in 1..i : /\ l \in Present(m, b, p)
                            /\ \A q \in (p + 1)..i : l \notin Absent(m, b, q)
      BY <1>1, <2>1 DEF NetGen
    <3>2. CASE p = i BY <3>1, <3>2
    <3>3. CASE p < i
      <4>1. l \notin Absent(m, b, i) BY <1>1, <3>1, <3>3
      <4>2. p \in 1..(i - 1) /\ \A q \in (p + 1)..(i - 1) : l \notin Absent(m, b, q)
        BY <1>1, <3>1, <3>3
      <4>3. l \in NetGen(m, b, i) BY <2>1, <3>1, <4>2 DEF NetGen
      <4> QED BY <4>1, <4>3
    <3> QED BY <1>1, <3>2, <3>3
  <2>2. ASSUME NEW l \in NetGen(m, b, i), l \notin Absent(m, b, i)
        PROVE  l \in NetGen(m, b, i + 1)
    <3>1. PICK p \in 1..(i - 1) : /\ l \in Present(m, b, p)
                                  /\ \A q \in (p + 1)..(i - 1) : l \notin Absent(m, b, q)
      BY <2>2 DEF NetGen
    <3>2. p \in 1..i /\ \A q \in (p + 1)..i : l \notin Absent(m, b, q)
      BY <1>1, <2>2, <3>1
    <3> QED BY <1>1, <2>2, <3>1, <3>2 DEF NetGen
  <2>3. ASSUME NEW l \in Present(m, b, i) PROVE l \in NetGen(m, b, i + 1)
    <3>1. i \in 1..i /\ \A q \in (i + 1)..i : l \notin Absent(m, b, q)
      BY <1>1
    <3> QED BY <1>1, <1>2, <2>3, <3>1 DEF NetGen
  <2> QED BY <2>1, <2>2, <2>3
<1>4. NetKill(m, b, i + 1) = (NetKill(m, b, i) \union Absent(m, b, i)) \ Present(m, b, i)
  <2>1. ASSUME NEW l \in NetKill(m, b, i + 1)
        PROVE  l \in (NetKill(m, b, i) \union Absent(m, b, i)) \ Present(m, b, i)
    <3>1. PICK p \in 1..i : /\ l \in Absent(m, b, p) \ Present(m, b, p)
                            /\ \A q \in (p + 1)..i : l \notin Present(m, b, q)
      BY <1>1, <2>1 DEF NetKill
    <3>2. CASE p = i BY <3>1, <3>2
    <3>3. CASE p < i
      <4>1. l \notin Present(m, b, i) BY <1>1, <3>1, <3>3
      <4>2. p \in 1..(i - 1) /\ \A q \in (p + 1)..(i - 1) : l \notin Present(m, b, q)
        BY <1>1, <3>1, <3>3
      <4>3. l \in NetKill(m, b, i) BY <2>1, <3>1, <4>2 DEF NetKill
      <4> QED BY <4>1, <4>3
    <3> QED BY <1>1, <3>2, <3>3
  <2>2. ASSUME NEW l \in NetKill(m, b, i), l \notin Present(m, b, i)
        PROVE  l \in NetKill(m, b, i + 1)
    <3>1. PICK p \in 1..(i - 1) : /\ l \in Absent(m, b, p) \ Present(m, b, p)
                                  /\ \A q \in (p + 1)..(i - 1) : l \notin Present(m, b, q)
      BY <2>2 DEF NetKill
    <3>2. p \in 1..i /\ \A q \in (p + 1)..i : l \notin Present(m, b, q)
      BY <1>1, <2>2, <3>1
    <3> QED BY <1>1, <2>2, <3>1, <3>2 DEF NetKill
  <2>3. ASSUME NEW l \in Absent(m, b, i), l \notin Present(m, b, i)
        PROVE  l \in NetKill(m, b, i + 1)
    <3>1. i \in 1..i /\ \A q \in (i + 1)..i : l \notin Present(m, b, q)
      BY <1>1
    <3> QED BY <1>1, <1>2, <2>3, <3>1 DEF NetKill
  <2> QED BY <2>1, <2>2, <2>3
<1> QED BY <1>3, <1>4

\* Nothing has happened before the first location.
LEMMA NetNone ==
  ASSUME NEW m, NEW b
  PROVE  NetGen(m, b, 1) = {} /\ NetKill(m, b, 1) = {}
BY DEF NetGen, NetKill

(***************************************************************************)
(* TransferExact is inductive once it is known that build_sets starts at   *)
(* the first location of the start block.                                  *)
(***************************************************************************)
IBuild ==
  /\ TypeOK
  /\ phase = "start" => bb = START_BLOCK
  /\ TransferExact

LEMMA BuildInit == Init => IBuild
<1> SUFFICES ASSUME NEW m \in Mirs, NewAnalysis(m) PROVE IBuild
  BY DEF Init
<1>1. TypeOK BY TypeInit DEF Init
<1>2. \A b \in Blocks(mir) : Built(b) = 1 BY DEF NewAnalysis, Built
<1>3. TransferExact BY <1>2, NetNone DEF NewAnalysis, TransferExact
<1> QED BY <1>1, <1>3 DEF IBuild, NewAnalysis

LEMMA BuildStep == IBuild /\ [Next]_vars => IBuild'
<1> SUFFICES ASSUME IBuild, [Next]_vars PROVE IBuild'
  OBVIOUS
<1>0. IsBody(mir) /\ TypeOK /\ Len(mir.blocks) \in Nat /\ bb \in Nat /\ Blocks(mir) = 1..Len(mir.blocks)
  BY MirsAssumption DEF IBuild, TypeOK, IsBody, Blocks
<1>1. TypeOK' BY TypeStep DEF IBuild
<1>2. mir' = mir
  BY DEF Next, vars, StartBlockEffect, LocationEffect, EndBuild, BeginPass, WalkBlock,
         NextPass, Finish
<1>3. \A b \in Blocks(mir) : TermIndex(mir, b) \in Nat \ {0} BY <1>0, Successors
<1>4. phase' = "start" => bb' = START_BLOCK
  BY DEF Next, vars, StartBlockEffect, LocationEffect, EndBuild, BeginPass, WalkBlock,
         NextPass, Finish, IBuild
<1>5. ASSUME UNCHANGED <<gen_set, kill_set>>, \A b \in Blocks(mir) : Built(b)' = Built(b)
      PROVE  TransferExact'
  BY <1>2, <1>5 DEF IBuild, TransferExact
<1>6. TransferExact'
  <2>1. CASE StartBlockEffect
    <3>1. phase = "start" /\ phase' = "build" /\ bb' = 1 /\ j_stmt' = 1
      BY <1>0, <2>1 DEF StartBlockEffect, IBuild, TypeOK, START_BLOCK
    <3>2. \A b \in Blocks(mir) : Built(b)' = Built(b)
      BY <1>0, <1>2, <3>1 DEF Built
    <3> QED BY <1>5, <2>1, <3>2 DEF StartBlockEffect
  <2>2. CASE LocationEffect
    <3>1. /\ phase = "build" /\ phase' = "build" /\ bb \in Blocks(mir)
          /\ j_stmt \in 1..TermIndex(mir, bb)
      BY <1>0, <2>2 DEF LocationEffect, TypeOK
    <3>2. PICK c \in Blocks(mir) : c = bb
      BY <3>1
    <3>3. Built(c) = j_stmt /\ Built(c)' = j_stmt + 1
      <4>1. CASE AtTerm(mir, bb, j_stmt)
        BY <1>0, <1>2, <2>2, <3>1, <3>2, <4>1 DEF LocationEffect, Built, AtTerm
      <4>2. CASE ~AtTerm(mir, bb, j_stmt)
        BY <1>0, <1>2, <2>2, <3>1, <3>2, <4>2 DEF LocationEffect, Built
      <4> QED BY <4>1, <4>2
    <3>4. /\ gen_set'[c] = NetGen(mir, c, j_stmt + 1)
          /\ kill_set'[c] = NetKill(mir, c, j_stmt + 1)
      <4>1. gen_set[c] = NetGen(mir, c, j_stmt) /\ kill_set[c] = NetKill(mir, c, j_stmt)
        BY <3>3 DEF IBuild, TransferExact
      <4> QED BY <1>0, <2>2, <3>1, <3>2, <4>1, NetStep DEF LocationEffect, update_bits, TypeOK
    <3>5. ASSUME NEW b \in Blocks(mir), b # c
          PROVE  Built(b)' = Built(b) /\ gen_set'[b] = gen_set[b] /\ kill_set'[b] = kill_set[b]
      BY <1>0, <1>2, <2>2, <3>1, <3>2, <3>5 DEF LocationEffect, update_bits, Built, TypeOK
    <3>6. ASSUME NEW b \in Blocks(mir)
          PROVE  /\ gen_set'[b] = NetGen(mir, b, Built(b)')
                 /\ kill_set'[b] = NetKill(mir, b, Built(b)')
      <4>1. CASE b = c BY <3>3, <3>4, <4>1
      <4>2. CASE b # c BY <3>5, <4>2 DEF IBuild, TransferExact
      <4> QED BY <4>1, <4>2
    <3> QED BY <1>2, <3>6 DEF TransferExact
  <2>3. CASE EndBuild
    <3>1. phase = "build" /\ phase' = "walk" /\ bb \notin Blocks(mir)
      BY <2>3 DEF EndBuild
    <3>2. \A b \in Blocks(mir) : Built(b)' = Built(b)
      BY <1>0, <1>2, <3>1 DEF Built, TypeOK
    <3> QED BY <1>5, <2>3, <3>2 DEF EndBuild, BeginPass
  <2>4. CASE WalkBlock
    BY <1>2, <1>5, <2>4 DEF WalkBlock, Built
  <2>5. CASE NextPass
    BY <1>2, <1>5, <2>5 DEF NextPass, BeginPass, Built
  <2>6. CASE Finish
    BY <1>2, <1>5, <2>6 DEF Finish, Built
  <2>7. CASE UNCHANGED vars
    BY <1>2, <1>5, <2>7 DEF vars, Built
  <2> QED BY <2>1, <2>2, <2>3, <2>4, <2>5, <2>6, <2>7 DEF Next
<1> QED BY <1>1, <1>4, <1>6 DEF IBuild

\* Every location of a block, visited in order, leaves the gen and kill sets
\* exact: an assignment after a move is generated, a move after an assignment
\* is killed, and a statement's moves come before its assignments.
THEOREM TransferCorrect == Spec => []TransferExact
<1>1. IBuild => TransferExact BY DEF IBuild
<1> QED BY <1>1, BuildInit, BuildStep, PTL DEF Spec
\* No block ever both generates and kills a local.
THEOREM GenKillCorrect == Spec => []GenKillDisjoint
<1>1. Init => GenKillDisjoint
  BY DEF Init, NewAnalysis, GenKillDisjoint
<1>2. TypeOK /\ GenKillDisjoint /\ [Next]_vars => GenKillDisjoint'
  <2> SUFFICES ASSUME TypeOK, GenKillDisjoint, [Next]_vars PROVE GenKillDisjoint'
    OBVIOUS
  <2>1. CASE LocationEffect
    BY <2>1 DEF LocationEffect, update_bits, GenKillDisjoint, TypeOK
  <2>2. CASE UNCHANGED <<mir, gen_set, kill_set>>
    BY <2>2 DEF GenKillDisjoint
  <2> QED BY <2>1, <2>2
       DEF Next, vars, StartBlockEffect, EndBuild, BeginPass, WalkBlock, NextPass, Finish
<1> QED BY <1>1, <1>2, TypeCorrect, PTL DEF Spec

-----------------------------------------------------------------------------
(***************************************************************************)
(* The propagation.                                                        *)
(***************************************************************************)

\* The edges of block b are satisfied by the entry sets.
EdgesSolved(b) ==
  \A k \in Edges(b) : on_entry[successors(Term(mir, b))[k]] \subseteq EdgeBits(b, k)

(***************************************************************************)
(* While a pass has changed nothing, the edges of all the blocks it has    *)
(* visited are satisfied; the loop only ends after such a pass.            *)
(***************************************************************************)
IWalk ==
  /\ TypeOK
  /\ phase # "start" => on_entry[START_BLOCK] \subseteq args_iter(mir)
  /\ phase = "done" => ~changed /\ bb = Len(mir.blocks) + 1
  /\ phase \in {"walk", "done"} /\ ~changed => \A b \in Blocks(mir) : b < bb => EdgesSolved(b)

\* Visiting a block takes bits away, never adds any; the bits that are left
\* are on all its edges.
LEMMA WalkIntersects ==
  ASSUME TypeOK, WalkBlock
  PROVE  /\ \A b \in Blocks(mir) : on_entry'[b] \subseteq on_entry[b]
         /\ \A k \in Edges(bb) : on_entry'[successors(Term(mir, bb))[k]] \subseteq EdgeBits(bb, k)
<1>1. IsBody(mir) /\ bb \in Blocks(mir) BY MirsAssumption DEF TypeOK, WalkBlock
<1>2. \A k \in Edges(bb) : successors(Term(mir, bb))[k] \in Blocks(mir)
  BY <1>1, Successors DEF Edges
<1> QED BY <1>2 DEF WalkBlock, EdgesTo

LEMMA WalkInit == Init => IWalk
BY TypeInit DEF Init, NewAnalysis, IWalk

LEMMA WalkStep == IWalk /\ [Next]_vars => IWalk'
<1> SUFFICES ASSUME IWalk, [Next]_vars PROVE IWalk'
  OBVIOUS
<1>0. TypeOK /\ IsBody(mir) /\ Blocks(mir) = 1..Len(mir.blocks) /\ Len(mir.blocks) \in Nat
  BY MirsAssumption DEF IWalk, TypeOK, IsBody, Blocks
<1>1. TypeOK' BY <1>0, TypeStep
<1>2. START_BLOCK \in Blocks(mir) BY <1>0, Starts
<1>3. CASE StartBlockEffect
  BY <1>0, <1>1, <1>2, <1>3 DEF StartBlockEffect, IWalk, TypeOK
<1>4. CASE LocationEffect
  BY <1>1, <1>4 DEF LocationEffect, IWalk
<1>5. CASE EndBuild
  BY <1>0, <1>1, <1>5 DEF EndBuild, BeginPass, IWalk, START_BLOCK
<1>6. CASE WalkBlock
  <2>1. phase' = "walk" /\ mir' = mir /\ bb' = bb + 1 BY <1>6 DEF WalkBlock
  <2>2. on_entry'[START_BLOCK] \subseteq args_iter(mir)
    BY <1>0, <1>2, <1>6, WalkIntersects DEF IWalk, WalkBlock
  <2>3. ASSUME ~changed', NEW b \in Blocks(mir), b < bb + 1
        PROVE  \A k \in Edges(b) : on_entry[successors(Term(mir, b))[k]] \subseteq EdgeBits(b, k)
    <3>1. ~changed /\ on_entry' = on_entry BY <1>6, <2>3 DEF WalkBlock
    <3>2. CASE b = bb BY <1>0, <1>6, <3>1, <3>2, WalkIntersects
    <3>3. CASE b < bb BY <1>6, <2>3, <3>1, <3>3 DEF IWalk, EdgesSolved, WalkBlock
    <3> QED BY <1>0, <2>3, <3>2, <3>3 DEF TypeOK
  <2>4. ASSUME ~changed' PROVE \A b \in Blocks(mir) : b < bb + 1 => EdgesSolved(b)'
    <3>1. on_entry' = on_entry BY <1>6, <2>4 DEF WalkBlock
    <3> QED BY <1>6, <2>3, <2>4, <3>1 DEF EdgesSolved, Edges, EdgeBits, out, WalkBlock
  <2> QED BY <1>1, <2>1, <2>2, <2>4 DEF IWalk
<1>7. CASE NextPass
  BY <1>0, <1>1, <1>7 DEF NextPass, BeginPass, IWalk, START_BLOCK
<1>8. CASE Finish
  <2>1. bb = Len(mir.blocks) + 1 BY <1>0, <1>8 DEF Finish, TypeOK
  <2>2. \A b \in Blocks(mir) : EdgesSolved(b)' <=> EdgesSolved(b)
    BY <1>8 DEF Finish, EdgesSolved, Edges, EdgeBits, out
  <2> QED BY <1>1, <1>8, <2>1, <2>2 DEF Finish, IWalk
<1>9. CASE UNCHANGED vars
  <2>1. \A b \in Blocks(mir) : EdgesSolved(b)' <=> EdgesSolved(b)
    BY <1>9 DEF vars, EdgesSolved, Edges, EdgeBits, out
  <2> QED BY <1>1, <1>9, <2>1 DEF vars, IWalk
<1> QED BY <1>3, <1>4, <1>5, <1>6, <1>7, <1>8, <1>9 DEF Next

\* When the propagation loop stops, the entry sets solve the data-flow
\* equations along every edge of the body.
THEOREM SolvedCorrect == Spec => []SolvedWhenDone
<1>1. IWalk => SolvedWhenDone
  <2> SUFFICES ASSUME IWalk, phase = "done" PROVE Solves(on_entry)
    BY DEF SolvedWhenDone
  <2>1. IsBody(mir) /\ Len(mir.blocks) \in Nat BY MirsAssumption DEF IWalk, TypeOK, IsBody
  <2>2. \A b \in Blocks(mir) : EdgesSolved(b) BY <2>1 DEF IWalk, Blocks
  <2> QED BY <2>2 DEF Solves, EdgesSolved, EdgeBits, out, IWalk
<1> QED BY <1>1, WalkInit, WalkStep, PTL DEF Spec

(***************************************************************************)
(* Every solution of the equations stays inside the entry sets at all      *)
(* times, because the loop starts above all of them and each visit keeps   *)
(* what every edge carries.                                                *)
(***************************************************************************)
Below(S) == \A b \in Blocks(mir) : S[b] \subseteq on_entry[b]
Solutions == {S \in [Blocks(mir) -> SUBSET Bits(mir)] : Solves(S)}

ILargest ==
  /\ TypeOK
  /\ phase = "start" => \A b \in Blocks(mir) : on_entry[b] = Bits(mir)
  /\ phase = "build" => \A b \in Blocks(mir) \ {START_BLOCK} : on_entry[b] = Bits(mir)
  /\ phase = "build" => on_entry[START_BLOCK] = args_iter(mir)
  /\ phase \in {"walk", "done"} => \A S \in Solutions : Below(S)

Largest == phase = "done" => \A S \in Solutions : Below(S)

LEMMA LargestStep == ILargest /\ [Next]_vars => ILargest'
<1> SUFFICES ASSUME ILargest, [Next]_vars PROVE ILargest'
  OBVIOUS
<1>0. TypeOK /\ IsBody(mir) BY MirsAssumption DEF ILargest, TypeOK
<1>1. TypeOK' BY <1>0, TypeStep
<1>2. START_BLOCK \in Blocks(mir) BY <1>0, Starts
<1>3. CASE StartBlockEffect
  BY <1>0, <1>1, <1>2, <1>3 DEF StartBlockEffect, ILargest, TypeOK
<1>4. CASE LocationEffect
  BY <1>1, <1>4 DEF LocationEffect, ILargest
<1>5. CASE EndBuild
  <2>1. phase = "build" /\ phase' = "walk" /\ UNCHANGED <<mir, gen_set, kill_set, on_entry>>
    BY <1>5 DEF EndBuild, BeginPass
  <2>2. ASSUME NEW S \in Solutions', NEW b \in Blocks(mir) PROVE S[b] \subseteq on_entry[b]
    <3>1. S \in [Blocks(mir) -> SUBSET Bits(mir)] /\ S[START_BLOCK] \subseteq args_iter(mir)
      BY <2>1 DEF Solutions, Solves
    <3> QED BY <2>1, <3>1 DEF ILargest
  <2> QED BY <1>1, <2>1, <2>2 DEF ILargest, Below
<1>6. CASE WalkBlock
  <2>1. phase = "walk" /\ phase' = "walk" /\ UNCHANGED <<mir, gen_set, kill_set>>
    BY <1>6 DEF WalkBlock
  <2>2. Solutions' = Solutions BY <2>1 DEF Solutions, Solves, Edges
  <2>3. ASSUME NEW S \in Solutions, NEW s \in Blocks(mir), NEW e \in S[s]
        PROVE  e \in on_entry'[s]
    <3>1. e \in on_entry[s] /\ S[bb] \subseteq on_entry[bb]
      BY <1>6, <2>1, <2>3 DEF ILargest, Below, WalkBlock
    <3>2. ASSUME NEW k \in EdgesTo(bb, s) PROVE e \in EdgeBits(bb, k)
      BY <1>6, <2>3, <3>1, <3>2 DEF Solutions, Solves, EdgesTo, EdgeBits, out, WalkBlock
    <3> QED BY <1>6, <3>1, <3>2 DEF WalkBlock
  <2> QED BY <1>1, <2>1, <2>2, <2>3 DEF ILargest, Below
<1>7. CASE NextPass
  <2>1. phase = "walk" /\ phase' = "walk" /\ UNCHANGED <<mir, gen_set, kill_set, on_entry>>
    BY <1>7 DEF NextPass, BeginPass
  <2>2. Solutions' = Solutions BY <2>1 DEF Solutions, Solves, Edges
  <2> QED BY <1>1, <2>1, <2>2 DEF ILargest, Below
<1>8. CASE Finish
  <2>1. phase = "walk" /\ phase' = "done" /\ UNCHANGED <<mir, gen_set, kill_set, on_entry>>
    BY <1>8 DEF Finish
  <2>2. Solutions' = Solutions BY <2>1 DEF Solutions, Solves, Edges
  <2> QED BY <1>1, <2>1, <2>2 DEF ILargest, Below
<1>9. CASE UNCHANGED vars
  <2>1. Solutions' = Solutions BY <1>9 DEF vars, Solutions, Solves, Edges
  <2> QED BY <1>1, <1>9, <2>1 DEF vars, ILargest, Below
<1> QED BY <1>3, <1>4, <1>5, <1>6, <1>7, <1>8, <1>9 DEF Next

\* The result is the largest solution: the analysis never reports a local as
\* possibly uninitialized that a sound analysis over the same equations could
\* keep.
THEOREM LargestCorrect == Spec => []Largest
<1>1. Init => ILargest
  BY TypeInit DEF Init, NewAnalysis, ILargest
<1>2. ILargest => Largest BY DEF ILargest, Largest
<1> QED BY <1>1, <1>2, LargestStep, PTL DEF Spec

-----------------------------------------------------------------------------
(***************************************************************************)
(* The paths of a body.  The reference definitions of Paths are recursive  *)
(* functions; MirProofs has the induction that says what they compute.     *)
(***************************************************************************)

\* What a block holds along a path is its transfer function.
LEMMA HeldIsNet ==
  ASSUME NEW m, IsBody(m), NEW b \in Blocks(m), NEW i \in 1..(TermIndex(m, b) + 1), NEW entry
  PROVE  HeldAt(m, b, i, entry) = (entry \union NetGen(m, b, i)) \ NetKill(m, b, i)
<1> DEFINE Net(j) == (entry \union NetGen(m, b, j)) \ NetKill(m, b, j)
           net == [j \in 1..i |-> Net(j)]
<1>0. TermIndex(m, b) \in Nat \ {0} /\ i \in Nat BY Successors
<1>1. Net(1) = entry BY NetNone
<1>2. ASSUME NEW j \in 2..i PROVE Net(j) = (Net(j - 1) \ Absent(m, b, j - 1)) \union Present(m, b, j - 1)
  <2>1. j - 1 \in 1..TermIndex(m, b) /\ (j - 1) + 1 = j BY <1>0
  <2>2. /\ NetGen(m, b, j) = (NetGen(m, b, j - 1) \ Absent(m, b, j - 1)) \union Present(m, b, j - 1)
        /\ NetKill(m, b, j) = (NetKill(m, b, j - 1) \union Absent(m, b, j - 1)) \ Present(m, b, j - 1)
    BY <2>1, NetStep
  <2> QED BY <2>2
<1> HIDE DEF Net
<1>3. net = [j \in 1..i |-> IF j = 1 THEN entry
                            ELSE (net[j - 1] \ Absent(m, b, j - 1)) \union Present(m, b, j - 1)]
  BY <1>0, <1>1, <1>2
<1>4. \E w : /\ w = [j \in 1..i |-> IF j = 1 THEN entry
                       ELSE (w[j - 1] \ Absent(m, b, j - 1)) \union Present(m, b, j - 1)]
             /\ HeldAt(m, b, i, entry) = w[i]
  <2> HIDE DEF net
  <2> QED BY <1>3 DEF HeldAt
<1>5. PICK w : /\ w = [j \in 1..i |-> IF j = 1 THEN entry
                       ELSE (w[j - 1] \ Absent(m, b, j - 1)) \union Present(m, b, j - 1)]
               /\ HeldAt(m, b, i, entry) = w[i]
  BY <1>4
<1> DEFINE T == {n \in Nat : n + 1 <= i => w[n + 1] = Net(n + 1)}
<1>6. 0 \in T
  <2>1. w[1] = entry BY <1>0, <1>5
  <2> QED BY <1>1, <2>1
<1>7. ASSUME NEW n \in Nat, n \in T, n + 2 <= i PROVE w[n + 2] = Net(n + 2)
  <2>1. n + 2 \in 2..i /\ n + 2 \in 1..i /\ (n + 2) - 1 = n + 1 /\ n + 2 # 1 BY <1>0, <1>7
  <2>2. w[n + 1] = Net(n + 1) BY <1>7, <2>1
  <2>3. w[n + 2] = (w[n + 1] \ Absent(m, b, n + 1)) \union Present(m, b, n + 1)
    BY <1>5, <2>1
  <2> QED BY <1>2, <2>1, <2>2, <2>3
<1>8. Nat \subseteq T
  <2>1. \A n \in Nat : n \in T => n + 1 \in T BY <1>7
  <2> HIDE DEF T
  <2> QED BY <1>6, <2>1, Induction
<1>9. w[i] = Net(i)
  <2>1. i - 1 \in Nat /\ (i - 1) + 1 = i BY <1>0
  <2> QED BY <1>8, <2>1
<1> QED BY <1>5, <1>9 DEF Net

\* The pairs one round adds: an edge loses the bit on its way to the block.
LosesOnEdgeTo(m, bits, S, s, e) ==
  \E b \in Blocks(m) : \E k \in 1..Len(successors(Term(m, b))) :
    /\ successors(Term(m, b))[k] = s
    /\ e \in LostOnEdge(m, b, k, bits, {x \in bits : <<b, x>> \notin S})

LEMMA UnsetMember ==
  ASSUME NEW m, NEW bits, NEW S, NEW s, NEW e
  PROVE  <<s, e>> \in UnsetOneEdgeOn(m, bits, S) <=> <<s, e>> \in S \/ LosesOnEdgeTo(m, bits, S, s, e)
<1> DEFINE Lost(b, k) == LostOnEdge(m, b, k, bits, {x \in bits : <<b, x>> \notin S})
           Added(b, k) == {successors(Term(m, b))[k]} \X Lost(b, k)
           Of(b) == UNION {Added(b, k) : k \in 1..Len(successors(Term(m, b)))}
<1>1. ASSUME NEW b, NEW k
      PROVE  <<s, e>> \in Added(b, k) <=> successors(Term(m, b))[k] = s /\ e \in Lost(b, k)
  <2> HIDE DEF Lost
  <2> QED OBVIOUS
<1>2. UnsetOneEdgeOn(m, bits, S) = S \union UNION {Of(b) : b \in Blocks(m)}
  BY DEF UnsetOneEdgeOn
<1>3. LosesOnEdgeTo(m, bits, S, s, e) <=>
        \E b \in Blocks(m) : \E k \in 1..Len(successors(Term(m, b))) :
          successors(Term(m, b))[k] = s /\ e \in Lost(b, k)
  BY DEF LosesOnEdgeTo
<1>4. ASSUME NEW b
      PROVE  <<s, e>> \in Of(b) <=> \E k \in 1..Len(successors(Term(m, b))) : <<s, e>> \in Added(b, k)
  <2> HIDE DEF Added
  <2> QED OBVIOUS
<1> HIDE DEF Added, Of, Lost
<1> QED BY <1>1, <1>2, <1>3, <1>4

\* Following the edges keeps the pairs those of blocks and bits.
LEMMA UnsetPairs ==
  ASSUME NEW m, IsBody(m), NEW bits, NEW S \in SUBSET (Blocks(m) \X bits)
  PROVE  UnsetOneEdgeOn(m, bits, S) \in SUBSET (Blocks(m) \X bits)
<1>1. ASSUME NEW b \in Blocks(m), NEW k \in 1..Len(successors(Term(m, b))), NEW held
      PROVE  {successors(Term(m, b))[k]} \X LostOnEdge(m, b, k, bits, held) \subseteq Blocks(m) \X bits
  <2>1. successors(Term(m, b))[k] \in Blocks(m) BY Successors
  <2> QED BY <2>1 DEF LostOnEdge
<1>2. ASSUME NEW p \in UnsetOneEdgeOn(m, bits, S) PROVE p \in Blocks(m) \X bits
  <2>1. CASE p \in S BY <2>1
  <2>2. CASE \E b \in Blocks(m) : \E k \in 1..Len(successors(Term(m, b))) :
               p \in {successors(Term(m, b))[k]} \X
                       LostOnEdge(m, b, k, bits, {e \in bits : <<b, e>> \notin S})
    BY <1>1, <2>2
  <2> QED BY <1>2, <2>1, <2>2 DEF UnsetOneEdgeOn
<1> QED BY <1>2

LEMMA UnsetRounds ==
  ASSUME NEW m, IsBody(m), NEW bits
  PROVE  \E w \in [0..Len(m.blocks) -> SUBSET (Blocks(m) \X bits)] :
           /\ w[0] = {<<START_BLOCK, e>> : e \in bits \ args_iter(m)}
           /\ \A n \in 1..Len(m.blocks) : w[n] = UnsetOneEdgeOn(m, bits, w[n - 1])
           /\ MaybeUnset(m, bits) = w[Len(m.blocks)]
<1> DEFINE N == Len(m.blocks)
           X == SUBSET (Blocks(m) \X bits)
           first == {<<START_BLOCK, e>> : e \in bits \ args_iter(m)}
           F == [S \in X |-> UnsetOneEdgeOn(m, bits, S)]
<1>1. N \in Nat BY DEF IsBody
<1>2. first \in X BY Starts
<1>3. F \in [X -> X] BY UnsetPairs
<1>4. PICK g : IsIteration(g, X, first, F, N)
  <2> HIDE DEF N, X, first, F
  <2> QED BY <1>1, <1>2, <1>3, Iterates
<1>5. g = [n \in 0..N |-> IF n = 0 THEN first ELSE UnsetOneEdgeOn(m, bits, g[n - 1])]
  <2>1. g \in [0..N -> X] /\ g[0] = first /\ \A n \in 1..N : g[n] = F[g[n - 1]]
    BY <1>4 DEF IsIteration
  <2>2. \A n \in 1..N : n - 1 \in 0..N /\ g[n - 1] \in X BY <1>1, <2>1
  <2>3. \A n \in 1..N : g[n] = UnsetOneEdgeOn(m, bits, g[n - 1]) BY <2>1, <2>2
  <2> HIDE DEF X, first
  <2> QED BY <1>1, <2>1, <2>3
<1>6. \E w : /\ w = [n \in 0..N |-> IF n = 0 THEN first ELSE UnsetOneEdgeOn(m, bits, w[n - 1])]
             /\ MaybeUnset(m, bits) = w[N]
  BY <1>5 DEF MaybeUnset
<1>7. PICK w : /\ w = [n \in 0..N |-> IF n = 0 THEN first ELSE UnsetOneEdgeOn(m, bits, w[n - 1])]
               /\ MaybeUnset(m, bits) = w[N]
  BY <1>6
<1> HIDE DEF N, X, first
<1>8. w[0] = first BY <1>1, <1>7
<1>9. \A n \in 1..N : w[n] = UnsetOneEdgeOn(m, bits, w[n - 1]) BY <1>1, <1>7
<1> DEFINE T == {n \in Nat : n <= N => w[n] \in X}
<1>10. 0 \in T BY <1>2, <1>8
<1>11. ASSUME NEW n \in Nat, n \in T PROVE n + 1 \in T
  <2> SUFFICES ASSUME n + 1 <= N PROVE w[n + 1] \in X
    BY <1>11
  <2>1. n + 1 \in 1..N /\ (n + 1) - 1 = n /\ w[n] \in X BY <1>1, <1>11
  <2>2. w[n + 1] = UnsetOneEdgeOn(m, bits, w[n]) BY <1>9, <2>1
  <2> QED BY <2>1, <2>2, UnsetPairs DEF X
<1>12. \A n \in 0..N : w[n] \in X
  <2>1. Nat \subseteq T
    <3> HIDE DEF T
    <3> QED BY <1>10, <1>11, Induction
  <2> QED BY <1>1, <2>1
<1>13. w \in [0..N -> X]
  <2>1. w = [n \in 0..N |-> w[n]] BY <1>7
  <2> QED BY <1>12, <2>1
<1> QED BY <1>7, <1>8, <1>9, <1>13 DEF N, X, first

(***************************************************************************)
(* What it means for sets of bits to agree with the paths of a body: the   *)
(* start block holds the arguments at most, and what a block holds on      *)
(* entry the block before holds at its end.                                *)
(***************************************************************************)
AgreesWithPaths(m, V) ==
  /\ V[START_BLOCK] \subseteq args_iter(m)
  /\ \A b \in Blocks(m) : \A k \in 1..Len(successors(Term(m, b))) :
       V[successors(Term(m, b))[k]] \subseteq
         HeldAt(m, b, TermIndex(m, b) + 1, V[b]) \union EdgeBinds(m, b, k)

\* What a block holds at its end grows with what it holds on entry.
LEMMA HeldMonotonic ==
  ASSUME NEW m, IsBody(m), NEW b \in Blocks(m), NEW S, NEW R, S \subseteq R
  PROVE  HeldAt(m, b, TermIndex(m, b) + 1, S) \subseteq HeldAt(m, b, TermIndex(m, b) + 1, R)
<1>1. TermIndex(m, b) + 1 \in 1..(TermIndex(m, b) + 1) BY Successors
<1>2. \A entry : HeldAt(m, b, TermIndex(m, b) + 1, entry)
                  = (entry \union NetGen(m, b, TermIndex(m, b) + 1)) \ NetKill(m, b, TermIndex(m, b) + 1)
  BY <1>1, HeldIsNet
<1> QED BY <1>2

\* No path leaves a bit unset that agreeing sets hold: by induction on the
\* length of the path.
LEMMA AgreeingAreSet ==
  ASSUME NEW m, IsBody(m), NEW bits, NEW V \in [Blocks(m) -> SUBSET bits], AgreesWithPaths(m, V),
         NEW b \in Blocks(m), NEW e \in V[b]
  PROVE  <<b, e>> \notin MaybeUnset(m, bits)
<1> DEFINE N == Len(m.blocks)
           Clear(S) == \A c \in Blocks(m) : \A x \in V[c] : <<c, x>> \notin S
<1>1. N \in Nat BY DEF IsBody
<1>2. PICK w \in [0..N -> SUBSET (Blocks(m) \X bits)] :
        /\ w[0] = {<<START_BLOCK, x>> : x \in bits \ args_iter(m)}
        /\ \A n \in 1..N : w[n] = UnsetOneEdgeOn(m, bits, w[n - 1])
        /\ MaybeUnset(m, bits) = w[N]
  BY UnsetRounds
<1>3. Clear(w[0]) BY <1>2 DEF AgreesWithPaths
<1>4. ASSUME NEW S, Clear(S) PROVE Clear(UnsetOneEdgeOn(m, bits, S))
  <2> SUFFICES ASSUME NEW c \in Blocks(m), NEW x \in V[c], <<c, x>> \in UnsetOneEdgeOn(m, bits, S)
               PROVE  FALSE
    OBVIOUS
  <2>0. LosesOnEdgeTo(m, bits, S, c, x) BY <1>4, UnsetMember
  <2>1. PICK a \in Blocks(m) : \E k \in 1..Len(successors(Term(m, a))) :
          /\ successors(Term(m, a))[k] = c
          /\ x \in LostOnEdge(m, a, k, bits, {y \in bits : <<a, y>> \notin S})
    BY <2>0 DEF LosesOnEdgeTo
  <2>3. PICK k \in 1..Len(successors(Term(m, a))) :
          /\ successors(Term(m, a))[k] = c
          /\ x \in LostOnEdge(m, a, k, bits, {y \in bits : <<a, y>> \notin S})
    BY <2>1
  <2>2. V[a] \subseteq {y \in bits : <<a, y>> \notin S} BY <1>4
  <2>4. x \in HeldAt(m, a, TermIndex(m, a) + 1, V[a]) \union EdgeBinds(m, a, k)
    BY <2>3 DEF AgreesWithPaths
  <2> QED BY <2>2, <2>3, <2>4, HeldMonotonic DEF LostOnEdge
<1> DEFINE T == {n \in Nat : n <= N => Clear(w[n])}
<1>5. 0 \in T BY <1>3
<1>6. ASSUME NEW n \in Nat, n \in T, n + 1 <= N PROVE Clear(w[n + 1])
  <2>1. n + 1 \in 1..N /\ (n + 1) - 1 = n /\ Clear(w[n]) BY <1>1, <1>6
  <2>2. w[n + 1] = UnsetOneEdgeOn(m, bits, w[n]) BY <1>2, <2>1
  <2> HIDE DEF Clear
  <2> QED BY <1>4, <2>1, <2>2
<1>7. Clear(w[N])
  <2> HIDE DEF Clear
  <2>1. \A n \in Nat : n \in T => n + 1 \in T BY <1>6
  <2>2. Nat \subseteq T
    <3> HIDE DEF T
    <3> QED BY <1>5, <2>1, Induction
  <2> QED BY <1>1, <2>2
<1> QED BY <1>2, <1>7

\* The bits that no path leaves unset agree with the paths: one round more
\* leaves nothing else unset.  Each bit is looked at by itself, since it has
\* only the blocks to spread to.
LEMMA SetAgrees ==
  ASSUME NEW m, IsBody(m), NEW bits, NEW V,
         V = [b \in Blocks(m) |-> {e \in bits : <<b, e>> \notin MaybeUnset(m, bits)}]
  PROVE  AgreesWithPaths(m, V)
<1> DEFINE N == Len(m.blocks)
<1>1. N \in Nat /\ START_BLOCK \in Blocks(m) BY Starts DEF IsBody
<1>2. PICK w \in [0..N -> SUBSET (Blocks(m) \X bits)] :
        /\ w[0] = {<<START_BLOCK, x>> : x \in bits \ args_iter(m)}
        /\ \A n \in 1..N : w[n] = UnsetOneEdgeOn(m, bits, w[n - 1])
        /\ MaybeUnset(m, bits) = w[N]
  BY UnsetRounds
<1>3. ASSUME NEW e \in bits, NEW b \in Blocks(m), NEW k \in 1..Len(successors(Term(m, b))),
             e \in LostOnEdge(m, b, k, bits, {y \in bits : <<b, y>> \notin w[N]})
      PROVE  <<successors(Term(m, b))[k], e>> \in w[N]
  <2> DEFINE At(S) == {c \in Blocks(m) : <<c, e>> \in S}
             Keeps(c, held) ==
               (held \/ e \in NetGen(m, c, TermIndex(m, c) + 1)) /\ e \notin NetKill(m, c, TermIndex(m, c) + 1)
             Loses(B) == {s \in Blocks(m) : \E c \in Blocks(m) : \E j \in 1..Len(successors(Term(m, c))) :
                            /\ successors(Term(m, c))[j] = s
                            /\ ~Keeps(c, c \notin B) /\ e \notin EdgeBinds(m, c, j)}
             F == [B \in SUBSET Blocks(m) |-> B \union Loses(B)]
             g == [n \in 0..N |-> At(w[n])]
  <2>1. ASSUME NEW c \in Blocks(m), NEW j, NEW S
        PROVE  e \in LostOnEdge(m, c, j, bits, {y \in bits : <<c, y>> \notin S})
                 <=> ~Keeps(c, c \notin At(S)) /\ e \notin EdgeBinds(m, c, j)
    <3> DEFINE i == TermIndex(m, c) + 1
               held == {y \in bits : <<c, y>> \notin S}
    <3>1. i \in 1..i BY Successors
    <3>2. HeldAt(m, c, i, held) = (held \union NetGen(m, c, i)) \ NetKill(m, c, i)
      BY <3>1, HeldIsNet
    <3>3. e \in held <=> c \notin At(S) OBVIOUS
    <3>4. e \in LostOnEdge(m, c, j, bits, held) <=> e \notin HeldAt(m, c, i, held) /\ e \notin EdgeBinds(m, c, j)
      BY DEF LostOnEdge
    <3> HIDE DEF held, At, i
    <3>5. Keeps(c, c \notin At(S)) <=> e \in HeldAt(m, c, i, held) BY <3>2, <3>3 DEF i
    <3> QED BY <3>4, <3>5 DEF held
  <2>2. ASSUME NEW S \in SUBSET (Blocks(m) \X bits)
        PROVE  At(UnsetOneEdgeOn(m, bits, S)) = F[At(S)]
    <3>1. F[At(S)] = At(S) \union Loses(At(S)) OBVIOUS
    <3>2. ASSUME NEW s \in Blocks(m)
          PROVE  LosesOnEdgeTo(m, bits, S, s, e) <=> s \in Loses(At(S))
      <4> DEFINE Lost(c, j) == e \in LostOnEdge(m, c, j, bits, {y \in bits : <<c, y>> \notin S})
                 Drops(c, j) == ~Keeps(c, c \notin At(S)) /\ e \notin EdgeBinds(m, c, j)
      <4>1. LosesOnEdgeTo(m, bits, S, s, e) <=>
              \E c \in Blocks(m) : \E j \in 1..Len(successors(Term(m, c))) :
                successors(Term(m, c))[j] = s /\ Lost(c, j)
        BY DEF LosesOnEdgeTo
      <4>2. s \in Loses(At(S)) <=>
              \E c \in Blocks(m) : \E j \in 1..Len(successors(Term(m, c))) :
                successors(Term(m, c))[j] = s /\ Drops(c, j)
        BY DEF Loses
      <4>3. \A c \in Blocks(m) : \A j : Lost(c, j) <=> Drops(c, j) BY <2>1
      <4> HIDE DEF Lost, Drops, Loses, At
      <4> QED BY <4>1, <4>2, <4>3
    <3>3. ASSUME NEW s \in Blocks(m)
          PROVE  s \in At(UnsetOneEdgeOn(m, bits, S)) <=> s \in At(S) \/ s \in Loses(At(S))
      <4>1. <<s, e>> \in UnsetOneEdgeOn(m, bits, S) <=> <<s, e>> \in S \/ LosesOnEdgeTo(m, bits, S, s, e)
        BY UnsetMember
      <4> HIDE DEF Loses
      <4> QED BY <3>2, <4>1
    <3>4. Loses(At(S)) \subseteq Blocks(m) OBVIOUS
    <3>5. At(S) \subseteq Blocks(m) /\ At(UnsetOneEdgeOn(m, bits, S)) \subseteq Blocks(m) OBVIOUS
    <3> HIDE DEF Loses, F, At
    <3> QED BY <3>1, <3>3, <3>4, <3>5
  <2>3. IsIteration(g, SUBSET Blocks(m), At(w[0]), F, N)
    <3>1. g \in [0..N -> SUBSET Blocks(m)] OBVIOUS
    <3>2. g[0] = At(w[0]) BY <1>1
    <3>3. ASSUME NEW n \in 1..N PROVE g[n] = F[g[n - 1]]
      <4>0. n - 1 \in 0..N /\ n \in 0..N BY <1>1
      <4>1. n - 1 \in 0..N /\ n \in 0..N /\ w[n - 1] \in SUBSET (Blocks(m) \X bits)
        <5> HIDE DEF N
        <5> QED BY <1>2, <4>0
      <4>2. g[n] = At(w[n]) /\ g[n - 1] = At(w[n - 1]) BY <4>1
      <4> HIDE DEF At, F, g
      <4> QED BY <1>2, <2>2, <4>1, <4>2
    <3> HIDE DEF At, F, g
    <3> QED BY <3>1, <3>2, <3>3 DEF IsIteration
  <2>4. F[g[N]] = g[N]
    <3> DEFINE X == Blocks(m)
               first == At(w[0])
    <3>1. IsFiniteSet(X) /\ Cardinality(X) <= N BY FiniteBlocks
    <3>2. Inflates(F, X) BY DEF Inflates
    <3>4. IsIteration(g, SUBSET X, first, F, N) BY <2>3
    <3>5. N \in Nat BY <1>1
    <3> HIDE DEF F, g, X, first, N
    <3> QED BY ONLY <3>1, <3>2, <3>4, <3>5, Saturates, SMTT(20)
  <2>5. successors(Term(m, b))[k] \in Loses(At(w[N]))
    <3>1. successors(Term(m, b))[k] \in Blocks(m) BY Successors
    <3>2. ~Keeps(b, b \notin At(w[N])) /\ e \notin EdgeBinds(m, b, k) BY <1>3, <2>1
    <3> QED BY <3>1, <3>2
  <2>6. g[N] = At(w[N]) /\ At(w[N]) \in SUBSET Blocks(m) BY <1>1
  <2>7. successors(Term(m, b))[k] \in F[g[N]]
    <3> HIDE DEF Loses, At, g
    <3> QED BY <2>5, <2>6
  <2> QED BY <2>4, <2>6, <2>7
<1>4. V[START_BLOCK] \subseteq args_iter(m)
  <2> DEFINE T == {n \in Nat : n <= N => w[0] \subseteq w[n]}
  <2>1. 0 \in T OBVIOUS
  <2>2. ASSUME NEW n \in Nat, n \in T, n + 1 <= N PROVE w[0] \subseteq w[n + 1]
    <3>1. n + 1 \in 1..N /\ (n + 1) - 1 = n BY <1>1, <2>2
    <3>2. w[n + 1] = UnsetOneEdgeOn(m, bits, w[n]) BY <1>2, <3>1
    <3> QED BY <2>2, <3>2 DEF UnsetOneEdgeOn
  <2>3. w[0] \subseteq w[N]
    <3>1. \A n \in Nat : n \in T => n + 1 \in T BY <2>2
    <3>2. Nat \subseteq T
      <4> HIDE DEF T
      <4> QED BY <2>1, <3>1, Induction
    <3> QED BY <1>1, <3>2
  <2> QED BY <1>1, <1>2, <2>3
<1>5. ASSUME NEW b \in Blocks(m), NEW k \in 1..Len(successors(Term(m, b)))
      PROVE  V[successors(Term(m, b))[k]] \subseteq
               HeldAt(m, b, TermIndex(m, b) + 1, V[b]) \union EdgeBinds(m, b, k)
  <2>1. successors(Term(m, b))[k] \in Blocks(m) BY Successors
  <2>2. V[b] = {e \in bits : <<b, e>> \notin w[N]} BY <1>2
  <2>3. V[successors(Term(m, b))[k]] = {e \in bits : <<successors(Term(m, b))[k], e>> \notin w[N]}
    BY <1>2, <2>1
  <2> QED BY <1>3, <2>2, <2>3 DEF LostOnEdge
<1> QED BY <1>4, <1>5 DEF AgreesWithPaths

\* Once the gen and kill sets are built, the equations the analysis solves are
\* those of the paths.
LEMMA SolvingAgrees ==
  ASSUME TypeOK, TransferExact, phase \notin {"start", "build"}, NEW V
  PROVE  Solves(V) <=> AgreesWithPaths(mir, V)
<1>1. IsBody(mir) BY MirsAssumption DEF TypeOK
<1>2. ASSUME NEW b \in Blocks(mir), NEW k
      PROVE  LET o == (V[b] \union gen_set[b]) \ kill_set[b]
             IN (IF Term(mir, b).op = "Suspend" THEN o \union Term(mir, b).binds[k] ELSE o)
                  = HeldAt(mir, b, TermIndex(mir, b) + 1, V[b]) \union EdgeBinds(mir, b, k)
  <2> DEFINE i == TermIndex(mir, b) + 1
             o == (V[b] \union gen_set[b]) \ kill_set[b]
  <2>1. i \in 1..(TermIndex(mir, b) + 1) BY <1>1, Successors
  <2>2. gen_set[b] = NetGen(mir, b, i) /\ kill_set[b] = NetKill(mir, b, i)
    BY DEF TransferExact, Built
  <2>3. HeldAt(mir, b, i, V[b]) = o BY <1>1, <2>1, <2>2, HeldIsNet
  <2> HIDE DEF o, i
  <2>4. (IF Term(mir, b).op = "Suspend" THEN o \union Term(mir, b).binds[k] ELSE o)
          = HeldAt(mir, b, i, V[b]) \union EdgeBinds(mir, b, k)
    BY <2>3 DEF EdgeBinds
  <2> QED BY <2>4 DEF o, i
<1> QED BY <1>2 DEF Solves, AgreesWithPaths, Edges

\* The result is the meet over all paths: the entry sets agree with the paths,
\* so no path leaves one of their bits unset; and the bits that no path leaves
\* unset solve the equations, so the largest solution holds them.
THEOREM MeetCorrect == Spec => []MeetOverPaths
<1>1. TypeOK /\ TransferExact /\ SolvedWhenDone /\ Largest => MeetOverPaths
  <2> SUFFICES ASSUME TypeOK, TransferExact, SolvedWhenDone, Largest, phase = "done",
                      NEW b \in Blocks(mir)
               PROVE  on_entry[b] = {e \in Bits(mir) : <<b, e>> \notin MaybeUnset(mir, Bits(mir))}
    BY DEF MeetOverPaths
  <2> DEFINE V == [c \in Blocks(mir) |-> {e \in Bits(mir) : <<c, e>> \notin MaybeUnset(mir, Bits(mir))}]
  <2>1. IsBody(mir) /\ on_entry \in [Blocks(mir) -> SUBSET Bits(mir)]
    BY MirsAssumption DEF TypeOK
  <2>2. AgreesWithPaths(mir, on_entry) BY SolvingAgrees DEF SolvedWhenDone
  <2>3. \A e \in on_entry[b] : <<b, e>> \notin MaybeUnset(mir, Bits(mir))
    BY <2>1, <2>2, AgreeingAreSet
  <2>4. AgreesWithPaths(mir, V) BY <2>1, SetAgrees
  <2>5. V \in Solutions
    <3>1. V \in [Blocks(mir) -> SUBSET Bits(mir)] OBVIOUS
    <3> HIDE DEF V
    <3> QED BY <2>4, <3>1, SolvingAgrees DEF Solutions
  <2>6. V[b] \subseteq on_entry[b]
    <3> HIDE DEF V
    <3> QED BY <2>5 DEF Largest, Below
  <2> QED BY <2>1, <2>3, <2>6
<1> QED BY <1>1, TypeCorrect, TransferCorrect, SolvedCorrect, LargestCorrect, PTL

-----------------------------------------------------------------------------

(***************************************************************************)
(* The gen and kill sets together hold exactly the locals some location of *)
(* the block touches: an event is never forgotten, only overridden.        *)
(***************************************************************************)
Touched(m, b, i) ==
  {l \in Locals(m) : \E p \in 1..(i - 1) : l \in Present(m, b, p) \union Absent(m, b, p)}

ITouched == \A b \in Blocks(mir) : gen_set[b] \union kill_set[b] = Touched(mir, b, Built(b))

LEMMA TouchedStep ==
  ASSUME NEW m, IsBody(m), NEW b \in Blocks(m), NEW i \in 1..TermIndex(m, b)
  PROVE  Touched(m, b, i + 1) = Touched(m, b, i) \union Present(m, b, i) \union Absent(m, b, i)
<1>1. i \in Nat \ {0} /\ (i + 1) - 1 = i BY Successors
<1>2. Absent(m, b, i) \subseteq Locals(m) /\ Present(m, b, i) \subseteq Locals(m)
  BY EffectsAreLocals
<1>3. 1..i = (1..(i - 1)) \union {i} BY <1>1
<1> QED BY <1>1, <1>2, <1>3 DEF Touched

\* gen and kill sets only change in LocationEffect, by the location j_stmt.
LEMMA TouchedInvariant == Spec => []ITouched
<1>1. Init => ITouched
  BY DEF Init, NewAnalysis, ITouched, Touched, Built
<1>2. IBuild /\ ITouched /\ [Next]_vars => ITouched'
  <2> SUFFICES ASSUME IBuild, ITouched, [Next]_vars PROVE ITouched'
    OBVIOUS
  <2>0. /\ IsBody(mir) /\ TypeOK /\ Len(mir.blocks) \in Nat /\ bb \in Nat
        /\ Blocks(mir) = 1..Len(mir.blocks)
    BY MirsAssumption DEF IBuild, TypeOK, IsBody, Blocks
  <2>1. \A b \in Blocks(mir) : TermIndex(mir, b) \in Nat \ {0} BY <2>0, Successors
  <2>2. CASE LocationEffect
    <3>1. /\ phase = "build" /\ phase' = "build" /\ bb \in Blocks(mir) /\ mir' = mir
          /\ j_stmt \in 1..TermIndex(mir, bb)
      BY <2>0, <2>2 DEF LocationEffect, TypeOK
    <3>2. PICK c \in Blocks(mir) : c = bb BY <3>1
    <3>3. Built(c) = j_stmt /\ Built(c)' = j_stmt + 1
      <4>1. CASE AtTerm(mir, bb, j_stmt)
        BY <2>0, <2>2, <3>1, <3>2, <4>1 DEF LocationEffect, Built, AtTerm
      <4>2. CASE ~AtTerm(mir, bb, j_stmt)
        BY <2>0, <2>2, <3>1, <3>2, <4>2 DEF LocationEffect, Built
      <4> QED BY <4>1, <4>2
    <3>4. gen_set'[c] \union kill_set'[c] = Touched(mir, c, j_stmt + 1)
      <4>1. gen_set[c] \union kill_set[c] = Touched(mir, c, j_stmt)
        BY <3>3 DEF ITouched
      <4>2. /\ gen_set'[c] = (gen_set[c] \ Absent(mir, c, j_stmt)) \union Present(mir, c, j_stmt)
            /\ kill_set'[c] = (kill_set[c] \union Absent(mir, c, j_stmt)) \ Present(mir, c, j_stmt)
        BY <2>0, <2>2, <3>2 DEF LocationEffect, update_bits, TypeOK
      <4> QED BY <2>0, <3>1, <3>2, <4>1, <4>2, TouchedStep
    <3>5. ASSUME NEW b \in Blocks(mir), b # c
          PROVE  Built(b)' = Built(b) /\ gen_set'[b] = gen_set[b] /\ kill_set'[b] = kill_set[b]
      BY <2>0, <2>2, <3>1, <3>2, <3>5 DEF LocationEffect, update_bits, Built, TypeOK
    <3>6. ASSUME NEW b \in Blocks(mir)
          PROVE  gen_set'[b] \union kill_set'[b] = Touched(mir, b, Built(b)')
      <4>1. CASE b = c BY <3>3, <3>4, <4>1
      <4>2. CASE b # c BY <3>5, <4>2 DEF ITouched
      <4> QED BY <4>1, <4>2
    <3> QED BY <3>1, <3>6 DEF ITouched
  <2>3. ASSUME UNCHANGED <<mir, gen_set, kill_set>>, \A b \in Blocks(mir) : Built(b)' = Built(b)
        PROVE  ITouched'
    BY <2>3 DEF ITouched
  <2>4. CASE StartBlockEffect
    <3>1. phase = "start" /\ phase' = "build" /\ bb' = 1 /\ j_stmt' = 1 /\ mir' = mir
      BY <2>0, <2>4 DEF StartBlockEffect, IBuild, TypeOK, START_BLOCK
    <3>2. \A b \in Blocks(mir) : Built(b)' = Built(b)
      BY <2>0, <3>1 DEF Built
    <3> QED BY <2>3, <2>4, <3>2 DEF StartBlockEffect
  <2>5. CASE EndBuild
    <3>1. phase = "build" /\ phase' = "walk" /\ bb \notin Blocks(mir) /\ mir' = mir
      BY <2>5 DEF EndBuild, BeginPass
    <3>2. \A b \in Blocks(mir) : Built(b)' = Built(b)
      BY <2>0, <3>1 DEF Built, TypeOK
    <3> QED BY <2>3, <2>5, <3>2 DEF EndBuild, BeginPass
  <2>6. CASE WalkBlock BY <2>3, <2>6 DEF WalkBlock, Built
  <2>7. CASE NextPass BY <2>3, <2>7 DEF NextPass, BeginPass, Built
  <2>8. CASE Finish BY <2>3, <2>8 DEF Finish, Built
  <2>9. CASE UNCHANGED vars BY <2>3, <2>9 DEF vars, Built
  <2> QED BY <2>2, <2>4, <2>5, <2>6, <2>7, <2>8, <2>9 DEF Next
<1> QED BY <1>1, <1>2, BuildInit, BuildStep, PTL DEF Spec

-----------------------------------------------------------------------------
(***************************************************************************)
(* The machine.                                                            *)
(***************************************************************************)

\* The analysis inside the machine is the analysis.
LEMMA AnalysisInside == MachineSpec => Spec
<1>1. MachineInit => Init BY DEF MachineInit
<1>2. [MachineNext]_machineVars => [Next]_vars
  BY DEF MachineNext, machineVars, Analyse, PathOutOfBounds, Start, Execute, TakeEdge, Return
<1> QED BY <1>1, <1>2, PTL DEF MachineSpec, Spec

(***************************************************************************)
(* The code only runs after the analysis has finished, so what the         *)
(* analysis proofs say of its end holds for the whole run; the live locals *)
(* follow the transfer function location by location.                      *)
(***************************************************************************)
IMachine ==
  /\ run \in {"compile", "run", "stop", "bug"}
  /\ run # "compile" => phase = "done"
  /\ run = "compile" => block = START_BLOCK /\ location = 1
  /\ block \in Blocks(mir)
  /\ location \in 1..TermIndex(mir, block)
  /\ live \subseteq Locals(mir)
  /\ run = "run" => \A b \in Blocks(mir) : on_entry[b] \subseteq Locals(mir)
  /\ LiveExact

LEMMA MachineStart == MachineInit => IMachine
<1> SUFFICES ASSUME MachineInit, TypeOK PROVE IMachine
  BY TypeInit DEF MachineInit
<1>1. IsBody(mir) BY MirsAssumption DEF TypeOK
<1>2. START_BLOCK \in Blocks(mir) /\ TermIndex(mir, START_BLOCK) \in Nat \ {0}
  BY <1>1, Starts, Successors
<1> QED BY <1>2 DEF MachineInit, IMachine, LiveExact

\* Nothing changes in the analysis once it is done.
LEMMA DoneStays ==
  ASSUME phase = "done" PROVE ~Next
BY DEF Next, StartBlockEffect, LocationEffect, EndBuild, WalkBlock, NextPass, Finish

LEMMA MachineStep == TypeOK /\ IMachine /\ [MachineNext]_machineVars => IMachine'
<1> SUFFICES ASSUME TypeOK, IMachine, [MachineNext]_machineVars PROVE IMachine'
  OBVIOUS
<1>0. IsBody(mir) BY MirsAssumption DEF TypeOK
<1>1. \A b \in Blocks(mir) : TermIndex(mir, b) \in Nat \ {0} BY <1>0, Successors
<1>2. \A b \in Blocks(mir) : arm_lvalues(b) \subseteq Locals(mir)
    BY DEF arm_lvalues, ArmBindings
<1>3. CASE Analyse
  <2>1. mir' = mir
    BY <1>3 DEF Analyse, Next, StartBlockEffect, LocationEffect, EndBuild, BeginPass,
                WalkBlock, NextPass, Finish
  <2> QED BY <1>3, <2>1 DEF Analyse, runVars, IMachine, LiveExact
<1>4. CASE PathOutOfBounds
  BY <1>4 DEF PathOutOfBounds, vars, IMachine, LiveExact
<1>5. CASE Start
  <2>1. /\ run' = "run" /\ phase' = "done" /\ mir' = mir /\ on_entry' = on_entry
        /\ block' = START_BLOCK /\ location' = 1
        /\ \A b \in Blocks(mir) : on_entry[b] \subseteq Locals(mir)
    BY <1>5 DEF Start, vars, IMachine
  <2>2. START_BLOCK \in Blocks(mir) BY <1>0, Starts
  <2>3. live' = assigned_on_entry(START_BLOCK) /\ live' \subseteq Locals(mir)
    BY <1>2, <1>5, <2>1, <2>2 DEF Start, assigned_on_entry
  <2>4. assigned_on_entry(START_BLOCK)' = assigned_on_entry(START_BLOCK)
    BY <2>1 DEF assigned_on_entry, arm_lvalues, EdgesTo, Edges
  <2>5. LiveExact' BY <2>1, <2>3, <2>4, NetNone DEF LiveExact, assigned_on_entry
  <2> QED BY <1>1, <2>1, <2>2, <2>3, <2>5 DEF IMachine
<1>6. CASE Execute
  <2>1. /\ run = "run" /\ run' = "run" /\ phase' = phase /\ mir' = mir /\ on_entry' = on_entry
        /\ block' = block /\ location' = location + 1
    BY <1>6 DEF Execute, vars
  <2>2. location + 1 \in 1..TermIndex(mir, block)
    BY <1>1, <1>6 DEF Execute, AtTerm, IMachine
  <2>3. live' \subseteq Locals(mir)
    BY <1>0, <1>6, EffectsAreLocals DEF Execute, IMachine
  <2>4. assigned_on_entry(block)' = assigned_on_entry(block)
    BY <2>1 DEF assigned_on_entry, arm_lvalues, EdgesTo, Edges
  <2>5. live' = (assigned_on_entry(block) \union NetGen(mir, block, location + 1))
                  \ NetKill(mir, block, location + 1)
    BY <1>0, <1>6, <2>1, NetStep DEF Execute, LiveExact, IMachine
  <2>6. LiveExact' BY <2>1, <2>4, <2>5 DEF LiveExact
  <2> QED BY <2>1, <2>2, <2>3, <2>6 DEF IMachine
<1>7. ASSUME NEW k \in Edges(block), TakeEdge(k) PROVE IMachine'
  <2>1. /\ run = "run" /\ run' = "run" /\ phase' = phase /\ mir' = mir /\ on_entry' = on_entry
        /\ block' = successors(Term(mir, block))[k] /\ location' = 1
    BY <1>7 DEF TakeEdge, vars
  <2>2. block' \in Blocks(mir) BY <1>0, <1>7, <2>1, Successors DEF Edges, IMachine
  <2>3. PICK s \in Blocks(mir) : s = block' BY <2>2
  <2>4. live' = assigned_on_entry(s) BY <1>7, <2>3 DEF TakeEdge
  <2>5. live' \subseteq Locals(mir) BY <1>2, <2>1, <2>4 DEF IMachine, assigned_on_entry
  <2>6. assigned_on_entry(s)' = assigned_on_entry(s)
    BY <2>1 DEF assigned_on_entry, arm_lvalues, EdgesTo, Edges
  <2>7. NetGen(mir', block', location') = {} /\ NetKill(mir', block', location') = {}
    BY <2>1, NetNone
  <2>8. assigned_on_entry(block)' = live'
    <3>1. assigned_on_entry(s)' = arm_lvalues(s)' \union on_entry'[s]
      BY DEF assigned_on_entry
    <3>2. assigned_on_entry(block)' = arm_lvalues(block)' \union on_entry'[block']
      BY DEF assigned_on_entry
    <3>3. arm_lvalues(block)' = arm_lvalues(s)'
      BY <2>3 DEF arm_lvalues, EdgesTo, Edges
    <3> QED BY <2>3, <2>4, <2>6, <3>1, <3>2, <3>3
  <2>9. LiveExact' BY <2>7, <2>8 DEF LiveExact
  <2> QED BY <1>1, <2>1, <2>2, <2>5, <2>9 DEF IMachine
<1>8. CASE Return
  BY <1>8 DEF Return, vars, IMachine, LiveExact
<1>9. CASE UNCHANGED machineVars
  <2>1. assigned_on_entry(block)' = assigned_on_entry(block)
    BY <1>9 DEF machineVars, vars, runVars, assigned_on_entry, arm_lvalues, EdgesTo, Edges
  <2> QED BY <1>9, <2>1 DEF machineVars, vars, runVars, IMachine, LiveExact
<1> QED BY <1>3, <1>4, <1>5, <1>6, <1>7, <1>8, <1>9 DEF MachineNext

LEMMA MachineInvariant == MachineSpec => [](TypeOK /\ IMachine)
<1>1. MachineSpec => []TypeOK BY AnalysisInside, TypeCorrect, PTL
<1> QED BY <1>1, MachineStart, MachineStep, PTL DEF MachineSpec

\* The live locals of the running code are, location by location, what the
\* entry set and the transfer function of the analysis say.
THEOREM LiveCorrect == MachineSpec => []LiveExact
<1>1. IMachine => LiveExact BY DEF IMachine
<1> QED BY <1>1, MachineInvariant, PTL

-----------------------------------------------------------------------------
\* At the terminator, the values the analysis lets flow out of the block are
\* values the running code still has after the terminator's moves.
LEMMA OutIsLive ==
  ASSUME TypeOK, IMachine, TransferExact, run = "run", AtTerm(mir, block, location)
  PROVE  out(block) \subseteq live \ TermMoves(Term(mir, block))
<1>1. IsBody(mir) /\ block \in Blocks(mir) /\ location \in 1..TermIndex(mir, block)
      /\ location = TermIndex(mir, block)
  BY MirsAssumption DEF TypeOK, IMachine, AtTerm
<1>2. /\ Absent(mir, block, location) = TermMoves(Term(mir, block))
      /\ Present(mir, block, location) = {}
  BY DEF Absent, Present
<1>3. Built(block) = location + 1
  BY <1>1 DEF IMachine, Built
<1>4. /\ gen_set[block] = NetGen(mir, block, location) \ TermMoves(Term(mir, block))
      /\ kill_set[block] = NetKill(mir, block, location) \union TermMoves(Term(mir, block))
  BY <1>1, <1>2, <1>3, NetStep DEF TransferExact
<1> QED BY <1>4 DEF out, IMachine, LiveExact, assigned_on_entry

\* Whatever the generated code packs into a state holds a value: the
\* translation never renders the use of a moved or unassigned local when it
\* leaves a block, for any body.
THEOREM PackedCorrect == MachineSpec => []PackedLive
<1>1. TypeOK /\ IMachine /\ TransferExact /\ SolvedWhenDone => PackedLive
  <2> SUFFICES ASSUME TypeOK, IMachine, TransferExact, SolvedWhenDone,
                      run = "run", AtTerm(mir, block, location),
                      NEW k \in Taken(block),
                      NEW l \in assigned_on_entry(successors(Term(mir, block))[k])
               PROVE  l \in Available(block, k)
    BY DEF PackedLive
  <2>0. IsBody(mir) /\ ArmsOwnTheirBlocks(mir) /\ block \in Blocks(mir)
    BY MirsAssumption, ArmsAssumption DEF TypeOK, IMachine
  <2>1. k \in Edges(block)
    <3>1. IsTerminator(Term(mir, block), mir.nlocals, Len(mir.blocks)) BY <2>0 DEF IsBody
    <3> QED BY <3>1 DEF Taken, Edges, IsTerminator, successors
  <2>2. Solves(on_entry) BY DEF IMachine, SolvedWhenDone
  <2>3. on_entry[successors(Term(mir, block))[k]] \subseteq EdgeBits(block, k)
    BY <2>0, <2>1, <2>2 DEF Solves, EdgeBits, out
  <2>4. CASE l \in on_entry[successors(Term(mir, block))[k]]
    BY <2>3, <2>4, OutIsLive DEF EdgeBits, Available
  <2>5. CASE l \in arm_lvalues(successors(Term(mir, block))[k])
    <3>0. PICK p \in Blocks(mir) : \E j \in Edges(p) :
            /\ Term(mir, p).op = "Match" /\ l \in Term(mir, p).binds[j]
            /\ Term(mir, p).succ[j] = Term(mir, block).succ[k]
      BY <2>5 DEF arm_lvalues, ArmBindings, Edges, successors
    <3>1. PICK j \in Edges(p) :
            /\ Term(mir, p).op = "Match" /\ l \in Term(mir, p).binds[j]
            /\ Term(mir, p).succ[j] = Term(mir, block).succ[k]
      BY <3>0
    <3>2. p = block /\ j = k
      BY <2>0, <2>1, <3>1 DEF ArmsOwnTheirBlocks, Edges, successors
    <3> QED BY <3>1, <3>2 DEF Available
  <2> QED BY <2>4, <2>5 DEF assigned_on_entry
<1>2. MachineSpec => [](TransferExact /\ SolvedWhenDone)
  BY AnalysisInside, TransferCorrect, SolvedCorrect, PTL
<1> QED BY <1>1, <1>2, MachineInvariant, PTL

\* Every local that holds a value while a block runs is unpacked or declared
\* by the block's arm, for any body.
THEOREM DeclaredCorrect == MachineSpec => []Declared
<1>1. TypeOK /\ IMachine /\ ITouched => Declared
  <2> SUFFICES ASSUME TypeOK, IMachine, ITouched, run = "run",
                      NEW l \in live, l \notin assigned_on_entry(block)
               PROVE  l \in initialized(block)
    BY DEF Declared
  <2>0. IsBody(mir) /\ block \in Blocks(mir) /\ location \in 1..TermIndex(mir, block)
        /\ TermIndex(mir, block) \in Nat \ {0}
    BY MirsAssumption, Successors DEF TypeOK, IMachine
  <2>1. l \in NetGen(mir, block, location) BY DEF IMachine, LiveExact
  <2>2. PICK p \in 1..(location - 1) : l \in Present(mir, block, p) /\ l \in Locals(mir)
    BY <2>1 DEF NetGen
  <2>3. ~AtTerm(mir, block, p) /\ p \in 1..Len(Stmts(mir, block))
    <3>1. Len(Stmts(mir, block)) \in Nat BY <2>0 DEF IsBody
    <3> QED BY <2>0, <2>2, <3>1 DEF AtTerm, TermIndex
  <2>4. l \in assigned(block) BY <2>2, <2>3 DEF assigned, Present
  <2>5. Built(block) = TermIndex(mir, block) + 1
    BY DEF IMachine, Built
  <2>6. l \in Touched(mir, block, TermIndex(mir, block) + 1)
    BY <2>0, <2>2 DEF Touched
  <2>7. l \in gen_set[block] \union kill_set[block] BY <2>0, <2>5, <2>6 DEF ITouched
  <2> QED BY <2>4, <2>7 DEF initialized, assigned_on_entry
<1>2. MachineSpec => []ITouched BY AnalysisInside, TouchedInvariant, PTL
<1> QED BY <1>1, <1>2, MachineInvariant, PTL

-----------------------------------------------------------------------------
(***************************************************************************)
(* Panics: what the exactness of the analysis means for the blocks that    *)
(* nothing reaches.                                                        *)
(***************************************************************************)

\* The reachable blocks are found round by round, and one round more finds no
\* others.
LEMMA ReachableRounds ==
  ASSUME NEW m, IsBody(m)
  PROVE  /\ \E r \in [0..Len(m.blocks) -> SUBSET Blocks(m)] :
              /\ r[0] = {START_BLOCK}
              /\ \A n \in 1..Len(m.blocks) : r[n] = ReachedOneEdgeOn(m, r[n - 1])
              /\ ReachableBlocks(m) = r[Len(m.blocks)]
         /\ ReachedOneEdgeOn(m, ReachableBlocks(m)) = ReachableBlocks(m)
<1> DEFINE N == Len(m.blocks)
           X == SUBSET Blocks(m)
           F == [S \in X |-> ReachedOneEdgeOn(m, S)]
<1>1. N \in Nat /\ START_BLOCK \in Blocks(m) BY Starts DEF IsBody
<1>2. ASSUME NEW S \in X PROVE ReachedOneEdgeOn(m, S) \in X
  <2>1. \A b \in S : ToSet(successors(Term(m, b))) \subseteq Blocks(m)
    BY Successors DEF ToSet
  <2> QED BY <2>1 DEF ReachedOneEdgeOn
<1>3. {START_BLOCK} \in X /\ F \in [X -> X] BY <1>1, <1>2
<1>4. PICK g : IsIteration(g, X, {START_BLOCK}, F, N)
  <2> HIDE DEF N, X, F
  <2> QED BY <1>1, <1>3, Iterates
<1>5. g = [n \in 0..N |-> IF n = 0 THEN {START_BLOCK} ELSE ReachedOneEdgeOn(m, g[n - 1])]
  <2>1. g \in [0..N -> X] /\ g[0] = {START_BLOCK} /\ \A n \in 1..N : g[n] = F[g[n - 1]]
    BY <1>4 DEF IsIteration
  <2>2. \A n \in 1..N : n - 1 \in 0..N /\ g[n - 1] \in X BY <1>1, <2>1
  <2>3. \A n \in 1..N : g[n] = ReachedOneEdgeOn(m, g[n - 1]) BY <2>1, <2>2
  <2> HIDE DEF X
  <2> QED BY <1>1, <2>1, <2>3
<1>6. \E r : /\ r = [n \in 0..N |-> IF n = 0 THEN {START_BLOCK} ELSE ReachedOneEdgeOn(m, r[n - 1])]
             /\ ReachableBlocks(m) = r[N]
  BY <1>5 DEF ReachableBlocks
<1>7. PICK r : /\ r = [n \in 0..N |-> IF n = 0 THEN {START_BLOCK} ELSE ReachedOneEdgeOn(m, r[n - 1])]
               /\ ReachableBlocks(m) = r[N]
  BY <1>6
<1>8. r[0] = {START_BLOCK} /\ \A n \in 1..N : r[n] = ReachedOneEdgeOn(m, r[n - 1])
  <2> HIDE DEF N
  <2>1. r[0] = {START_BLOCK} BY <1>1, <1>7
  <2>2. ASSUME NEW n \in 1..N PROVE r[n] = ReachedOneEdgeOn(m, r[n - 1])
    <3>1. n \in 0..N /\ n # 0 BY <1>1
    <3> QED BY <1>7, <3>1
  <2> QED BY <2>1, <2>2
<1> DEFINE T == {n \in Nat : n <= N => r[n] \in X}
<1>9. 0 \in T BY <1>3, <1>8
<1>10. ASSUME NEW n \in Nat, n \in T, n + 1 <= N PROVE r[n + 1] \in X
  <2>1. n + 1 \in 1..N /\ (n + 1) - 1 = n /\ r[n] \in X BY <1>1, <1>10
  <2>2. r[n + 1] = ReachedOneEdgeOn(m, r[n]) BY <1>8, <2>1
  <2> QED BY <1>2, <2>1, <2>2
<1>11. \A n \in 0..N : r[n] \in X
  <2>1. \A n \in Nat : n \in T => n + 1 \in T BY <1>10
  <2>2. Nat \subseteq T
    <3> HIDE DEF T
    <3> QED BY <1>9, <2>1, Induction
  <2> QED BY <1>1, <2>2
<1>12. r \in [0..N -> X]
  <2>1. r = [n \in 0..N |-> r[n]] BY <1>7
  <2> QED BY <1>11, <2>1
<1>13. IsIteration(r, X, {START_BLOCK}, F, N)
  <2>1. ASSUME NEW n \in 1..N PROVE r[n] = F[r[n - 1]]
    <3>1. n - 1 \in 0..N BY <1>1
    <3>2. r[n - 1] \in X BY <1>11, <3>1
    <3> QED BY <1>8, <3>2
  <2> HIDE DEF F, X, N
  <2> QED BY <1>8, <1>12, <2>1 DEF IsIteration
<1>14. F[r[N]] = r[N]
  <2> DEFINE B == Blocks(m)
             first == {START_BLOCK}
  <2>1. IsFiniteSet(B) /\ Cardinality(B) <= N BY FiniteBlocks
  <2>2. \A S \in SUBSET B : S \subseteq F[S] BY DEF ReachedOneEdgeOn
  <2>3. Inflates(F, B) BY <1>3, <2>2 DEF Inflates
  <2>4. IsIteration(r, SUBSET B, first, F, N) BY <1>13
  <2>5. N \in Nat BY <1>1
  <2> HIDE DEF F, N, B, first, X
  <2> QED BY <2>1, <2>3, <2>4, <2>5, Saturates
<1>15. ReachedOneEdgeOn(m, r[N]) = r[N]
  <2>1. N \in 0..N BY <1>1
  <2> QED BY <1>11, <1>14, <2>1
<1> QED BY <1>7, <1>8, <1>12, <1>15

\* What the gen and kill sets do not mention passes through a block.
LEMMA OtherBitsPass ==
  ASSUME NEW m, IsBody(m), NEW b \in Blocks(m), NEW entry, NEW e, e \notin Locals(m)
  PROVE  e \in HeldAt(m, b, TermIndex(m, b) + 1, entry) <=> e \in entry
<1>1. TermIndex(m, b) + 1 \in 1..(TermIndex(m, b) + 1) BY Successors
<1>2. /\ e \notin NetGen(m, b, TermIndex(m, b) + 1)
      /\ e \notin NetKill(m, b, TermIndex(m, b) + 1)
  BY DEF NetGen, NetKill
<1> QED BY <1>1, <1>2, HeldIsNet

\* A reachable block has no padding bit: the start block has none, and no edge
\* adds one.
LEMMA ReachableHaveNoPadding ==
  ASSUME NEW m, IsBody(m), NEW V, AgreesWithPaths(m, V), NEW b \in ReachableBlocks(m)
  PROVE  V[b] \subseteq Locals(m)
<1> DEFINE N == Len(m.blocks)
           Within(R) == \A c \in R : V[c] \subseteq Locals(m)
<1>1. N \in Nat BY DEF IsBody
<1>2. PICK r \in [0..N -> SUBSET Blocks(m)] :
        /\ r[0] = {START_BLOCK}
        /\ \A n \in 1..N : r[n] = ReachedOneEdgeOn(m, r[n - 1])
        /\ ReachableBlocks(m) = r[N]
  BY ReachableRounds
<1>3. Within(r[0]) BY <1>2, Starts DEF AgreesWithPaths
<1>4. ASSUME NEW R \in SUBSET Blocks(m), Within(R) PROVE Within(ReachedOneEdgeOn(m, R))
  <2> SUFFICES ASSUME NEW a \in R, NEW k \in 1..Len(successors(Term(m, a))),
                      NEW e \in V[successors(Term(m, a))[k]]
               PROVE  e \in Locals(m)
    BY <1>4 DEF ReachedOneEdgeOn, ToSet
  <2>1. e \in HeldAt(m, a, TermIndex(m, a) + 1, V[a]) \union EdgeBinds(m, a, k)
    BY DEF AgreesWithPaths
  <2>2. EdgeBinds(m, a, k) \subseteq Locals(m) BY Successors DEF EdgeBinds
  <2> QED BY <1>4, <2>1, <2>2, OtherBitsPass
<1> DEFINE T == {n \in Nat : n <= N => Within(r[n])}
<1>5. 0 \in T BY <1>3
<1>6. ASSUME NEW n \in Nat, n \in T, n + 1 <= N PROVE Within(r[n + 1])
  <2>1. n + 1 \in 1..N /\ (n + 1) - 1 = n /\ n \in 0..N /\ Within(r[n]) BY <1>1, <1>6
  <2>2. r[n + 1] = ReachedOneEdgeOn(m, r[n]) /\ r[n] \in SUBSET Blocks(m) BY <1>2, <2>1
  <2> HIDE DEF Within
  <2> QED BY <1>4, <2>1, <2>2
<1>7. Within(r[N])
  <2> HIDE DEF Within
  <2>1. \A n \in Nat : n \in T => n + 1 \in T BY <1>6
  <2>2. Nat \subseteq T
    <3> HIDE DEF T
    <3> QED BY <1>5, <2>1, Induction
  <2> QED BY <1>1, <2>2
<1> QED BY <1>2, <1>7

\* A padding bit that only the blocks no chain of edges reaches hold agrees
\* with the paths.
LEMMA PaddingAgrees ==
  ASSUME NEW m, IsBody(m), NEW e, e \notin Locals(m), NEW V,
         V = [b \in Blocks(m) |-> IF b \in ReachableBlocks(m) THEN {} ELSE {e}]
  PROVE  AgreesWithPaths(m, V)
<1>1. START_BLOCK \in ReachableBlocks(m)
  <2>1. PICK r \in [0..Len(m.blocks) -> SUBSET Blocks(m)] :
          /\ r[0] = {START_BLOCK}
          /\ \A n \in 1..Len(m.blocks) : r[n] = ReachedOneEdgeOn(m, r[n - 1])
          /\ ReachableBlocks(m) = r[Len(m.blocks)]
    BY ReachableRounds
  <2> DEFINE N == Len(m.blocks)
             T == {n \in Nat : n <= N => START_BLOCK \in r[n]}
  <2>2. N \in Nat BY DEF IsBody
  <2>3. 0 \in T BY <2>1
  <2>4. ASSUME NEW n \in Nat, n \in T, n + 1 <= N PROVE START_BLOCK \in r[n + 1]
    <3>1. n + 1 \in 1..N /\ (n + 1) - 1 = n /\ START_BLOCK \in r[n] BY <2>2, <2>4
    <3> QED BY <2>1, <3>1 DEF ReachedOneEdgeOn
  <2>5. Nat \subseteq T
    <3>1. \A n \in Nat : n \in T => n + 1 \in T BY <2>4
    <3> HIDE DEF T
    <3> QED BY <2>3, <3>1, Induction
  <2> QED BY <2>1, <2>2, <2>5
<1>2. ASSUME NEW b \in Blocks(m), NEW k \in 1..Len(successors(Term(m, b))),
             successors(Term(m, b))[k] \notin ReachableBlocks(m)
      PROVE  b \notin ReachableBlocks(m)
  <2>1. ReachedOneEdgeOn(m, ReachableBlocks(m)) = ReachableBlocks(m) BY ReachableRounds
  <2>2. successors(Term(m, b))[k] \in ToSet(successors(Term(m, b))) BY DEF ToSet
  <2> QED BY <1>2, <2>1, <2>2 DEF ReachedOneEdgeOn
<1>3. ASSUME NEW b \in Blocks(m), NEW k \in 1..Len(successors(Term(m, b))),
             NEW x \in V[successors(Term(m, b))[k]]
      PROVE  x \in HeldAt(m, b, TermIndex(m, b) + 1, V[b])
  <2>1. successors(Term(m, b))[k] \in Blocks(m) BY Successors
  <2>2. x = e /\ b \notin ReachableBlocks(m) BY <1>2, <1>3, <2>1
  <2> QED BY <2>2, OtherBitsPass
<1> QED BY <1>1, <1>3, Starts DEF AgreesWithPaths

(***************************************************************************)
(* Once the compiler is past the analysis, it has panicked if and only if  *)
(* some entry set holds a padding bit.                                     *)
(***************************************************************************)
PanicExact ==
  run # "compile" =>
    /\ phase = "done"
    /\ run = "bug" <=> \E b \in Blocks(mir) : ~(on_entry[b] \subseteq Locals(mir))

LEMMA PanicStep == PanicExact /\ [MachineNext]_machineVars => PanicExact'
<1> SUFFICES ASSUME PanicExact, [MachineNext]_machineVars PROVE PanicExact'
  OBVIOUS
<1>1. CASE Analyse BY <1>1 DEF Analyse, runVars, PanicExact
<1>2. CASE PathOutOfBounds BY <1>2 DEF PathOutOfBounds, vars, PanicExact
<1>3. CASE Start BY <1>3 DEF Start, vars, PanicExact
<1>4. CASE Execute BY <1>4 DEF Execute, vars, PanicExact
<1>5. ASSUME NEW k \in Edges(block), TakeEdge(k) PROVE PanicExact'
  BY <1>5 DEF TakeEdge, vars, PanicExact
<1>6. CASE Return BY <1>6 DEF Return, vars, PanicExact
<1>7. CASE UNCHANGED machineVars BY <1>7 DEF machineVars, vars, runVars, PanicExact
<1> QED BY <1>1, <1>2, <1>3, <1>4, <1>5, <1>6, <1>7 DEF MachineNext

\* The panic on a padding bit is due to a block that no chain of edges from
\* the start block reaches, and every such block causes it as soon as the sets
\* have padding at all.
THEOREM PanicsCorrect == MachineSpec => []PanicsOnlyOnUnreachable
<1>1. TypeOK /\ PanicExact /\ TransferExact /\ SolvedWhenDone /\ Largest => PanicsOnlyOnUnreachable
  <2> SUFFICES ASSUME TypeOK, PanicExact, TransferExact, SolvedWhenDone, Largest, run # "compile"
               PROVE  (\E b \in Blocks(mir) : ~(on_entry[b] \subseteq Locals(mir)))
                        <=> ReachableBlocks(mir) # Blocks(mir) /\ Bits(mir) # Locals(mir)
    BY DEF PanicsOnlyOnUnreachable, PanicExact
  <2>0. IsBody(mir) /\ phase = "done" /\ on_entry \in [Blocks(mir) -> SUBSET Bits(mir)]
    BY MirsAssumption DEF TypeOK, PanicExact
  <2>1. AgreesWithPaths(mir, on_entry) BY <2>0, SolvingAgrees DEF SolvedWhenDone
  <2>2. ASSUME NEW b \in Blocks(mir), ~(on_entry[b] \subseteq Locals(mir))
        PROVE  ReachableBlocks(mir) # Blocks(mir) /\ Bits(mir) # Locals(mir)
    <3>1. b \notin ReachableBlocks(mir) BY <2>0, <2>1, <2>2, ReachableHaveNoPadding
    <3>2. on_entry[b] \subseteq Bits(mir) BY <2>0
    <3> QED BY <2>2, <3>1, <3>2
  <2>3. ASSUME ReachableBlocks(mir) # Blocks(mir), Bits(mir) # Locals(mir)
        PROVE  \E b \in Blocks(mir) : ~(on_entry[b] \subseteq Locals(mir))
    <3>1. ReachableBlocks(mir) \subseteq Blocks(mir)
      <4>1. Len(mir.blocks) \in 0..Len(mir.blocks) BY <2>0 DEF IsBody
      <4> QED BY <2>0, <4>1, ReachableRounds
    <3>2. PICK b \in Blocks(mir) : b \notin ReachableBlocks(mir) BY <2>3, <3>1
    <3>3. PICK e \in Bits(mir) : e \notin Locals(mir) BY <2>0, <2>3, LocalsAreBits
    <3> DEFINE V == [c \in Blocks(mir) |-> IF c \in ReachableBlocks(mir) THEN {} ELSE {e}]
    <3>4. AgreesWithPaths(mir, V) BY <2>0, <3>3, PaddingAgrees
    <3>5. V \in [Blocks(mir) -> SUBSET Bits(mir)] /\ e \in V[b] BY <3>2, <3>3
    <3>6. e \in on_entry[b]
      <4> HIDE DEF V
      <4> QED BY <2>0, <3>4, <3>5, SolvingAgrees DEF Largest, Below, Solutions
    <3> QED BY <3>3, <3>6
  <2> QED BY <2>2, <2>3
<1>2. MachineInit => PanicExact BY DEF MachineInit, PanicExact
<1>3. MachineSpec => []PanicExact BY <1>2, PanicStep, PTL DEF MachineSpec
<1>4. MachineSpec => [](TypeOK /\ TransferExact /\ SolvedWhenDone /\ Largest)
  BY AnalysisInside, TypeCorrect, TransferCorrect, SolvedCorrect, LargestCorrect, PTL
<1> QED BY <1>1, <1>3, <1>4, PTL

-----------------------------------------------------------------------------
(***************************************************************************)
(* The stored state and the machine agree.  Before the first call the      *)
(* state is the start block's; after that it is the target of the          *)
(* suspension the machine stands at.                                       *)
(***************************************************************************)
Suspended ==
  /\ run = "run"
  /\ AtTerm(mir, block, location)
  /\ Term(mir, block).op = "Suspend"
  /\ state = ResumeState(successors(Term(mir, block))[1])

Unstarted ==
  /\ run = "compile"
  /\ phase = "done"
  /\ \A b \in Blocks(mir) : on_entry[b] \subseteq Locals(mir)
  /\ state = ResumeState(START_BLOCK)

IDriver ==
  /\ call \in {"none", "idle", "running"}
  /\ call = "none" => state = Illegal /\ answer = "none"
  /\ call = "running" => state = Illegal /\ run = "run" /\ ~Over
  /\ state # Illegal => Suspended \/ Unstarted
  /\ ResumableOnlyAfterYield

\* What the arm of resume makes of a stored state is what its block unpacks.
LEMMA Lifted ==
  ASSUME NEW b PROVE resume_arm(b, ResumeState(b).locals) = assigned_on_entry(b)
BY DEF resume_arm, ResumeState

\* A stored state is never Illegal: blocks are numbered from 1.
LEMMA StateIsLegal ==
  ASSUME NEW b \in Nat \ {0} PROVE ResumeState(b) # Illegal
BY DEF ResumeState, Illegal

\* The target of a suspension is a block.
LEMMA SuspendTarget ==
  ASSUME TypeOK, IMachine, Term(mir, block).op = "Suspend"
  PROVE  /\ 1 \in Edges(block)
         /\ successors(Term(mir, block))[1] \in Nat \ {0}
         /\ successors(Term(mir, block))[1] \in Blocks(mir)
<1>1. IsBody(mir) BY MirsAssumption DEF TypeOK
<1>2. IsTerminator(Term(mir, block), mir.nlocals, Len(mir.blocks))
  BY <1>1 DEF IsBody, IMachine
<1>3. Len(Term(mir, block).succ) = 1 /\ Term(mir, block).succ \in Seq(1..Len(mir.blocks))
  BY <1>2 DEF IsTerminator
<1>4. Len(mir.blocks) \in Nat BY <1>1 DEF IsBody
<1> QED BY <1>3, <1>4 DEF Edges, successors, Blocks

LEMMA DriverStart == DriverInit => IDriver
BY DEF DriverInit, IDriver, ResumableOnlyAfterYield

-----------------------------------------------------------------------------
\* Every step of the driver is a step of the machine or leaves it alone: a
\* call begins with the start or with the edge of the last suspension.
LEMMA DriverRuns ==
  TypeOK /\ IMachine /\ IDriver /\ [DriverNext]_driverVars => [MachineNext]_machineVars
<1> SUFFICES ASSUME TypeOK, IMachine, IDriver, [DriverNext]_driverVars
             PROVE  [MachineNext]_machineVars
  OBVIOUS
<1>1. CASE Compile BY <1>1 DEF Compile, MachineNext
<1>2. CASE next
  <2>1. Suspended \/ Unstarted BY <1>2 DEF next, IDriver
  <2>2. CASE Unstarted
    <3>1. state.block = START_BLOCK BY <2>2 DEF Unstarted, ResumeState
    <3>2. live' = assigned_on_entry(START_BLOCK)
      BY <1>2, <2>2, <3>1, Lifted DEF next, Unstarted
    <3>3. block' = block /\ location' = location
      BY <1>2, <2>2, <3>1 DEF next, Unstarted, IMachine
    <3>4. Start BY <1>2, <2>2, <3>2, <3>3 DEF next, Unstarted, Start
    <3> QED BY <3>4 DEF MachineNext
  <2>3. CASE Suspended
    <3> DEFINE b == successors(Term(mir, block))[1]
    <3>1. state = ResumeState(b) /\ state.block = b BY <2>3 DEF Suspended, ResumeState
    <3>2. block' = b /\ live' = assigned_on_entry(b)
      BY <1>2, <3>1, Lifted DEF next
    <3>3. 1 \in Edges(block) BY <2>3, SuspendTarget DEF Suspended
    <3>4. 1 \in Taken(block) BY <2>3, <3>3 DEF Suspended, Taken
    <3>5. live' = assigned_on_entry(block') BY <3>2 DEF assigned_on_entry, arm_lvalues
    <3>6. TakeEdge(1) BY <1>2, <2>3, <3>2, <3>4, <3>5 DEF next, Suspended, TakeEdge
    <3> QED BY <3>3, <3>6 DEF MachineNext
  <2> QED BY <2>1, <2>2, <2>3
<1>3. CASE Internal BY <1>3 DEF Internal, MachineNext
<1>4. CASE Done BY <1>4 DEF Done, MachineNext
<1>5. CASE new \/ IllegalState \/ Yield \/ Fail
  BY <1>5 DEF new, IllegalState, Yield, Fail
<1>6. CASE UNCHANGED driverVars BY <1>6 DEF driverVars
<1> QED BY <1>1, <1>2, <1>3, <1>4, <1>5, <1>6 DEF DriverNext

\* And it keeps the stored state and the machine in agreement.
LEMMA DriverStep ==
  TypeOK /\ IMachine /\ IDriver /\ [DriverNext]_driverVars => IDriver'
<1> SUFFICES ASSUME TypeOK, IMachine, IDriver, [DriverNext]_driverVars PROVE IDriver'
  OBVIOUS
<1>1. CASE Compile
  <2>1. /\ call = "none" /\ call' = call /\ state = Illegal /\ state' = Illegal
        /\ answer' = answer
    BY <1>1 DEF Compile, IDriver, Illegal
  <2> QED BY <2>1 DEF IDriver, ResumableOnlyAfterYield, Over, Illegal
<1>2. CASE new
  <2>1. /\ state' = ResumeState(START_BLOCK) /\ call' = "idle" /\ answer' = "none"
        /\ UNCHANGED machineVars
    BY <1>2 DEF new, IDriver
  <2>2. state' # Illegal BY <2>1, StateIsLegal DEF START_BLOCK
  <2>3. ResumeState(START_BLOCK)' = ResumeState(START_BLOCK)
    BY <2>1 DEF machineVars, vars, ResumeState, assigned_on_entry, arm_lvalues
  <2>4. Unstarted' BY <1>2, <2>1, <2>3 DEF new, Unstarted, machineVars, vars, runVars
  <2> QED BY <2>1, <2>2, <2>4 DEF IDriver, ResumableOnlyAfterYield, Over, Illegal
<1>3. CASE next
  <2>1. state' = Illegal /\ call' = "running" /\ run' = "run" /\ answer' \in {"none", "value"}
    BY <1>3 DEF next, Illegal, IDriver, ResumableOnlyAfterYield
  <2> QED BY <2>1 DEF IDriver, ResumableOnlyAfterYield, Over, Illegal
<1>4. CASE IllegalState
  <2>1. state' = Illegal /\ call' = "idle" /\ answer' = "illegal state"
    BY <1>4 DEF IllegalState, Illegal
  <2> QED BY <2>1 DEF IDriver, ResumableOnlyAfterYield, Over, Illegal
<1>5. CASE Internal
  <2>1. state' = Illegal /\ call = "running" /\ call' = "running" /\ run' = "run"
        /\ answer' = answer
    BY <1>5 DEF Internal, IDriver, Illegal, Execute, TakeEdge
  <2> QED BY <2>1 DEF IDriver, ResumableOnlyAfterYield, Over, Illegal
<1>6. CASE Yield
  <2> DEFINE b == successors(Term(mir, block))[1]
  <2>1. /\ state' = ResumeState(b) /\ call' = "idle" /\ answer' = "value"
        /\ UNCHANGED machineVars /\ AtTerm(mir, block, location)
        /\ Term(mir, block).op = "Suspend"
    BY <1>6 DEF Yield
  <2>2. state' # Illegal BY <2>1, SuspendTarget, StateIsLegal
  <2>3. run = "run" BY <1>6 DEF Yield, IDriver
  <2>4. ResumeState(b)' = ResumeState(b)
    BY <2>1 DEF machineVars, vars, runVars, ResumeState, assigned_on_entry, arm_lvalues
  <2>5. Suspended' BY <2>1, <2>3, <2>4 DEF Suspended, machineVars, vars, runVars
  <2> QED BY <2>1, <2>2, <2>5 DEF IDriver, ResumableOnlyAfterYield, Over, Illegal
<1>7. CASE Done \/ Fail
  <2>1. state' = Illegal /\ call' = "idle" /\ answer' \in {"end", "failed"}
    BY <1>7 DEF Done, Fail, IDriver, Illegal
  <2> QED BY <2>1 DEF IDriver, ResumableOnlyAfterYield, Over, Illegal
<1>8. CASE UNCHANGED driverVars
  <2>1. /\ state' = state /\ call' = call /\ answer' = answer /\ UNCHANGED machineVars
    BY <1>8 DEF driverVars
  <2>2. \A b : ResumeState(b)' = ResumeState(b)
    BY <2>1 DEF machineVars, vars, ResumeState, assigned_on_entry, arm_lvalues
  <2>3. Suspended => Suspended'
    BY <2>1, <2>2 DEF Suspended, machineVars, vars, runVars
  <2>4. Unstarted => Unstarted'
    BY <2>1, <2>2 DEF Unstarted, machineVars, vars, runVars
  <2> QED BY <2>1, <2>3, <2>4 DEF IDriver, ResumableOnlyAfterYield, Over, Illegal, machineVars, runVars
<1> QED BY <1>1, <1>2, <1>3, <1>4, <1>5, <1>6, <1>7, <1>8 DEF DriverNext

LEMMA DriverInvariant == DriverSpec => [](TypeOK /\ IMachine /\ IDriver)
<1>1. DriverInit => TypeOK /\ IMachine /\ IDriver
  BY DriverStart, MachineStart, TypeInit DEF DriverInit, MachineInit
<1>2. TypeOK /\ IMachine /\ IDriver /\ [DriverNext]_driverVars => (TypeOK /\ IMachine /\ IDriver)'
  <2>1. [MachineNext]_machineVars => [Next]_vars
    BY DEF MachineNext, machineVars, Analyse, PathOutOfBounds, Start, Execute, TakeEdge, Return
  <2> QED BY <2>1, DriverRuns, DriverStep, MachineStep, TypeStep
<1> QED BY <1>1, <1>2, PTL DEF DriverSpec

-----------------------------------------------------------------------------
\* Over any number of calls the generated code does what one uninterrupted
\* run of it does: the driver implements the machine.
THEOREM DriverImplements == DriverSpec => RunsUninterrupted
<1>1. DriverInit => MachineInit BY DEF DriverInit
<1> QED BY <1>1, DriverInvariant, DriverRuns, PTL DEF DriverSpec, MachineSpec, RunsUninterrupted

Answers == {"none", "value", "end", "failed", "illegal state"}

\* A call has one of five results.
LEMMA AnswersOnly == DriverSpec => [](answer \in Answers)
<1>1. DriverInit => answer \in Answers BY DEF DriverInit, Answers
<1>2. answer \in Answers /\ [DriverNext]_driverVars => (answer \in Answers)'
  BY DEF DriverNext, Compile, new, next, IllegalState, Internal, Yield, Done, Fail, driverVars, Answers
<1> QED BY <1>1, <1>2, PTL DEF DriverSpec

\* The stored state is Illegal or the variant of a block of the body, and the
\* machine and the analysis below it stay in range: no call is made on a state
\* that the generated resume has no arm for.
THEOREM DriverTypeCorrect == DriverSpec => []DriverTypeOK
<1>1. TypeOK /\ IMachine /\ IDriver /\ answer \in Answers => DriverTypeOK
  <2> SUFFICES ASSUME TypeOK, IMachine, IDriver, answer \in Answers PROVE DriverTypeOK
    OBVIOUS
  <2>1. MachineTypeOK BY DEF MachineTypeOK, IMachine
  <2>2. ASSUME state # Illegal PROVE \E b \in Blocks(mir) : state = ResumeState(b)
    <3>1. CASE Unstarted
      <4>1. START_BLOCK \in Blocks(mir) BY MirsAssumption, Starts DEF TypeOK
      <4> QED BY <3>1, <4>1 DEF Unstarted
    <3>2. CASE Suspended
      <4>1. successors(Term(mir, block))[1] \in Blocks(mir) BY <3>2, SuspendTarget DEF Suspended
      <4> QED BY <3>2, <4>1 DEF Suspended
    <3> QED BY <2>2, <3>1, <3>2 DEF IDriver
  <2>3. /\ call \in {"none", "idle", "running"}
        /\ answer \in {"none", "value", "end", "failed", "illegal state"}
    BY DEF IDriver, Answers
  <2> QED BY <2>1, <2>2, <2>3 DEF DriverTypeOK
<1> QED BY <1>1, DriverInvariant, AnswersOnly, PTL

\* The state machine can be resumed exactly after its creation and after a
\* call that yielded.
THEOREM ResumableCorrect == DriverSpec => []ResumableOnlyAfterYield
<1>1. IDriver => ResumableOnlyAfterYield BY DEF IDriver
<1> QED BY <1>1, DriverInvariant, PTL

\* So also under the driver every local that is packed, at a suspension or
\* inside a call, holds a value.
THEOREM DriverPacks == DriverSpec => []PackedLive
BY DriverImplements, PackedCorrect, PTL DEF RunsUninterrupted

\* Once a call ended the run, every further call panics.
THEOREM NeverRevivedCorrect == DriverSpec => NeverRevived
<1> DEFINE Stays == answer' \in {answer, "illegal state"} /\ call' = "idle" /\ UNCHANGED machineVars
<1>1. IDriver /\ [DriverNext]_driverVars => [Over => Stays]_driverVars
  <2> SUFFICES ASSUME IDriver, Over, DriverNext PROVE Stays
    OBVIOUS
  <2>1. call = "idle" /\ state = Illegal
    BY DEF IDriver, Over, ResumableOnlyAfterYield
  <2>2. IllegalState
    BY <2>1 DEF DriverNext, Compile, new, next, Internal, Yield, Done, Fail
  <2> QED BY <2>1, <2>2 DEF IllegalState
<1> QED BY <1>1, DriverInvariant, PTL DEF DriverSpec, NeverRevived
=============================================================================
