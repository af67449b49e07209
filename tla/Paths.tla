------------------------------- MODULE Paths -------------------------------
(***************************************************************************)
(* What it means for a local to be initialized, read off the paths of a    *)
(* body: the reference definition that the analysis is checked against and *)
(* that the properties of the lowering use.                                *)
(***************************************************************************)
EXTENDS Mir, SequencesExt

(***************************************************************************)
(* The transfer function read off the statements: a local is present after *)
(* the locations before index i if its last event was to be filled, absent *)
(* if its last event was to be emptied.                                    *)
(***************************************************************************)
NetGen(m, b, i) ==
  {l \in Locals(m) : \E p \in 1..(i - 1) :
     l \in Present(m, b, p) /\ \A q \in (p + 1)..(i - 1) : l \notin Absent(m, b, q)}
NetKill(m, b, i) ==
  {l \in Locals(m) : \E p \in 1..(i - 1) :
     /\ l \in Absent(m, b, p) \ Present(m, b, p)
     /\ \A q \in (p + 1)..(i - 1) : l \notin Present(m, b, q)}

\* The locals that hold a value at location i of block b, if those in `entry'
\* do when the block is entered.
HeldAt(m, b, i, entry) ==
  LET held[j \in 1..i] ==
        IF j = 1 THEN entry ELSE (held[j - 1] \ Absent(m, b, j - 1)) \union Present(m, b, j - 1)
  IN held[i]

\* What the k-th edge out of block b fills, and what is missing at its end
\* if `held' are the bits held when b is entered.
EdgeBinds(m, b, k) == IF Term(m, b).op = "Suspend" THEN Term(m, b).binds[k] ELSE {}

LostOnEdge(m, b, k, bits, held) ==
  bits \ (HeldAt(m, b, TermIndex(m, b) + 1, held) \union EdgeBinds(m, b, k))

(***************************************************************************)
(* The bits (locals, or any numbers above) that some path leaves without a *)
(* value where a block is entered, as pairs of block and bit: at the start *)
(* block all but the arguments and, edge by edge, what the block before    *)
(* does not hold at its end.  A path may begin at a block nothing leads to *)
(* (the exit of a loop without a break), with everything present.          *)
(***************************************************************************)
UnsetOneEdgeOn(m, bits, unset) ==
  unset \union UNION {UNION {
    {successors(Term(m, b))[k]} \X
      LostOnEdge(m, b, k, bits, {e \in bits : <<b, e>> \notin unset}) :
        k \in 1..Len(successors(Term(m, b)))} : b \in Blocks(m)}

MaybeUnset(m, bits) ==
  LET w[n \in 0..Len(m.blocks)] ==
        IF n = 0 THEN {<<START_BLOCK, e>> : e \in bits \ args_iter(m)}
        ELSE UnsetOneEdgeOn(m, bits, w[n - 1])
  IN w[Len(m.blocks)]

\* The locals that hold a value whichever way a block is entered.
SetOnEntry(m) ==
  LET unset == MaybeUnset(m, Locals(m))
  IN [b \in Blocks(m) |-> {e \in Locals(m) : <<b, e>> \notin unset}]

\* What the arms that lead to block b bind.
ArmBindings(m, b) ==
  {l \in Locals(m) : \E p \in Blocks(m) :
     /\ Term(m, p).op = "Match"
     /\ \E k \in 1..Len(successors(Term(m, p))) :
          successors(Term(m, p))[k] = b /\ l \in Term(m, p).binds[k]}

(***************************************************************************)
(* Match lowering gives every arm a block of its own, that nothing else    *)
(* jumps to: its bindings are added to that block without looking at the   *)
(* edges into it.                                                          *)
(***************************************************************************)
ArmsOwnTheirBlocks(m) ==
  \A b \in Blocks(m) : Term(m, b).op = "Match" =>
    \A k \in 1..Len(Term(m, b).succ) : Term(m, b).binds[k] # {} =>
      /\ Term(m, b).succ[k] # START_BLOCK
      /\ \A c \in Blocks(m) : \A j \in 1..Len(Term(m, c).succ) :
           Term(m, c).succ[j] = Term(m, b).succ[k] => c = b /\ j = k

\* The blocks that some chain of edges from the start block leads to.
ReachedOneEdgeOn(m, reached) ==
  reached \union UNION {ToSet(successors(Term(m, b))) : b \in reached}

ReachableBlocks(m) ==
  LET r[n \in 0..Len(m.blocks)] ==
        IF n = 0 THEN {START_BLOCK} ELSE ReachedOneEdgeOn(m, r[n - 1])
  IN r[Len(m.blocks)]
=============================================================================
