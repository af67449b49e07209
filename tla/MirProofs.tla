------------------------------ MODULE MirProofs ------------------------------
(***************************************************************************)
(* Lemmas that the proofs share: about induction and recursive functions,  *)
(* and about well-formed bodies.                                           *)
(***************************************************************************)
EXTENDS Mir, FiniteSetTheorems, TLAPS

(***************************************************************************)
(* Induction, for a set of numbers in the place of a predicate: the        *)
(* provers cannot instantiate a theorem about an operator.                 *)
(***************************************************************************)

\* The initial segments of the numbers are finite sets, that strict inclusion
\* orders in a well-founded way.
LEMMA LeastNumber ==
  ASSUME NEW T \in SUBSET Nat, T # {}
  PROVE  \E n \in T : \A k \in T : n <= k
<1> DEFINE F == {1..n : n \in T}
<1>1. IsWellFoundedOn(StrictSubsetOrdering(Nat), FiniteSubsetsOf(Nat))
  BY FS_StrictSubsetOrderingWellFounded
<1>2. F \subseteq FiniteSubsetsOf(Nat) /\ F # {}
  <2>1. ASSUME NEW n \in T PROVE 1..n \in FiniteSubsetsOf(Nat)
    <3>1. 1..n \subseteq Nat /\ n \in Int BY <2>1
    <3>2. IsFiniteSet(1..n) BY <3>1, FS_Interval
    <3> QED BY <3>1, <3>2 DEF FiniteSubsetsOf
  <2> QED BY <2>1
<1> HIDE DEF F
<1>3. PICK x \in F : \A y \in F : ~(<<y, x>> \in StrictSubsetOrdering(Nat))
  BY <1>1, <1>2, WFMin
<1>4. PICK n \in T : x = 1..n BY DEF F
<1>5. ASSUME NEW k \in T, ~(n <= k) PROVE FALSE
  <2>1. /\ 1..k \in SUBSET Nat /\ 1..n \in SUBSET Nat
        /\ 1..k \subseteq 1..n /\ n \in 1..n /\ n \notin 1..k
    BY <1>5
  <2>2. <<1..k, 1..n>> \in StrictSubsetOrdering(Nat)
    BY <2>1 DEF StrictSubsetOrdering
  <2> QED BY <1>3, <1>4, <2>2 DEF F
<1> QED BY <1>5

LEMMA Induction ==
  ASSUME NEW T, 0 \in T, \A n \in Nat : n \in T => n + 1 \in T
  PROVE  Nat \subseteq T
<1> SUFFICES ASSUME Nat \ T # {} PROVE FALSE OBVIOUS
<1>1. PICK n \in Nat \ T : \A k \in Nat \ T : n <= k BY LeastNumber
<1>2. n - 1 \in Nat /\ n - 1 \in T BY <1>1
<1> QED BY <1>1, <1>2

(***************************************************************************)
(* Iterating a function N times from a: the sequence of results exists, so *)
(* a function that is defined by this recursion is what its equation says. *)
(***************************************************************************)
IsIteration(g, X, a, F, N) ==
  g \in [0..N -> X] /\ g[0] = a /\ \A n \in 1..N : g[n] = F[g[n - 1]]

LEMMA Iterates ==
  ASSUME NEW X, NEW a \in X, NEW F \in [X -> X], NEW N \in Nat
  PROVE  \E g : IsIteration(g, X, a, F, N)
<1> DEFINE T == {n \in Nat : \E g : IsIteration(g, X, a, F, n)}
<1>1. 0 \in T
  <2>1. IsIteration([i \in 0..0 |-> a], X, a, F, 0) BY DEF IsIteration
  <2> QED BY <2>1
<1>2. ASSUME NEW n \in Nat, n \in T PROVE n + 1 \in T
  <2>1. PICK g : IsIteration(g, X, a, F, n) BY <1>2
  <2> DEFINE h == [i \in 0..(n + 1) |-> IF i <= n THEN g[i] ELSE F[g[n]]]
  <2>2. g \in [0..n -> X] /\ g[0] = a /\ \A i \in 1..n : g[i] = F[g[i - 1]]
    BY <2>1 DEF IsIteration
  <2>3. h \in [0..(n + 1) -> X] BY <2>2
  <2>4. h[0] = a BY <2>2
  <2>5. ASSUME NEW i \in 1..(n + 1) PROVE h[i] = F[h[i - 1]]
    <3>1. CASE i <= n BY <2>2, <3>1
    <3>2. CASE i = n + 1 BY <3>2
    <3> QED BY <3>1, <3>2
  <2> HIDE DEF h
  <2>6. IsIteration(h, X, a, F, n + 1) BY <2>3, <2>4, <2>5 DEF IsIteration
  <2> QED BY <2>6
<1>3. Nat \subseteq T
  <2> HIDE DEF T
  <2> QED BY <1>1, <1>2, Induction
<1> QED BY <1>3

\* A function that only adds elements to a set.
Inflates(F, X) ==
  F \in [SUBSET X -> SUBSET X] /\ \A S \in SUBSET X : S \subseteq F[S]

\* A set that only grows is full, or stops growing, after as many rounds as
\* there are elements.
LEMMA Saturates ==
  ASSUME NEW X, IsFiniteSet(X), NEW N \in Nat, Cardinality(X) <= N,
         NEW F, Inflates(F, X), NEW g, NEW a, IsIteration(g, SUBSET X, a, F, N)
  PROVE  F[g[N]] = g[N]
<1> DEFINE T == {n \in Nat : n <= N => F[g[n]] = g[n] \/ Cardinality(g[n]) >= n}
<1>0. g \in [0..N -> SUBSET X] /\ \A n \in 1..N : g[n] = F[g[n - 1]]
  BY DEF IsIteration
<1> USE DEF Inflates
<1>1. \A n \in 0..N : g[n] \in SUBSET X /\ IsFiniteSet(g[n]) /\ Cardinality(g[n]) \in Nat
  BY <1>0, FS_Subset, FS_CardinalityType
<1>2. 0 \in T BY <1>1
<1>3. ASSUME NEW n \in Nat, n \in T, n + 1 <= N, F[g[n + 1]] # g[n + 1]
      PROVE  Cardinality(g[n + 1]) >= n + 1
  <2>1. n \in 0..N /\ n + 1 \in 1..N /\ n + 1 \in 0..N /\ (n + 1) - 1 = n BY <1>3
  <2>2. g[n + 1] = F[g[n]] BY <1>0, <2>1
  <2>3. F[g[n]] # g[n] /\ Cardinality(g[n]) >= n BY <1>3, <2>1, <2>2
  <2>4. g[n] \in SUBSET g[n + 1] /\ g[n] # g[n + 1] BY <1>1, <2>1, <2>2, <2>3
  <2>5. Cardinality(g[n]) <= Cardinality(g[n + 1]) /\ Cardinality(g[n]) # Cardinality(g[n + 1])
    BY <1>1, <2>1, <2>4, FS_Subset
  <2> QED BY <1>1, <2>1, <2>3, <2>5
<1>4. N \in T
  <2>1. \A n \in Nat : n \in T => n + 1 \in T BY <1>3
  <2> HIDE DEF T
  <2> QED BY <1>2, <2>1, Induction
<1>5. CASE Cardinality(g[N]) >= N
  <2>1. Cardinality(X) \in Nat BY FS_CardinalityType
  <2>2. g[N] \in SUBSET X /\ Cardinality(g[N]) <= Cardinality(X) BY <1>1, FS_Subset
  <2>3. g[N] = X BY <1>1, <1>5, <2>1, <2>2, FS_Subset
  <2>4. X \in SUBSET X /\ F[X] \in SUBSET X /\ X \subseteq F[X] OBVIOUS
  <2> QED BY <2>3, <2>4
<1> QED BY <1>4, <1>5

(***************************************************************************)
(* Bodies.                                                                 *)
(***************************************************************************)

\* Rounding the number of paths up to whole words loses none of them.
LEMMA RoundUp ==
  ASSUME NEW n \in Nat, NEW w \in Nat \ {0}
  PROVE  n <= ((n + w - 1) \div w) * w
<1> DEFINE q == (n + w - 1) \div w
           r == (n + w - 1) % w
<1>1. q \in Int /\ r \in 0..(w - 1) /\ n + w - 1 = w * q + r
  BY SMT
<1> QED BY <1>1, SMT

\* The start block is a block, and the inputs and the return pointer are
\* locals.
LEMMA Starts ==
  ASSUME NEW m, IsBody(m)
  PROVE  /\ START_BLOCK \in Blocks(m)
         /\ args_iter(m) \subseteq Locals(m)
         /\ RETURN_POINTER \in Locals(m)
BY DEF IsBody, Validated, START_BLOCK, RETURN_POINTER, Blocks, Locals, args_iter

\* The sets a location empties and fills are sets of locals.
LEMMA EffectsAreLocals ==
  ASSUME NEW m, IsBody(m), NEW b \in Blocks(m), NEW i \in 1..TermIndex(m, b)
  PROVE  Absent(m, b, i) \subseteq Locals(m) /\ Present(m, b, i) \subseteq Locals(m)
<1>1. /\ Stmts(m, b) \in Seq(StatementSet(m.nlocals))
      /\ IsTerminator(Term(m, b), m.nlocals, Len(m.blocks))
  BY DEF IsBody
<1>2. CASE AtTerm(m, b, i)
  BY <1>1, <1>2, Starts DEF Absent, Present, TermMoves, IsTerminator, Locals
<1>3. CASE ~AtTerm(m, b, i)
  <2>1. i \in 1..Len(Stmts(m, b))
    BY <1>1, <1>3 DEF AtTerm, TermIndex
  <2>2. Stmts(m, b)[i] \in StatementSet(m.nlocals)
    BY <1>1, <2>1
  <2> QED BY <1>3, <2>2 DEF Absent, Present, StmtMoves, StatementSet, Locals
<1> QED BY <1>2, <1>3

\* Every block has a terminator index, and its edges lead to blocks and fill
\* locals.
LEMMA Successors ==
  ASSUME NEW m, IsBody(m), NEW b \in Blocks(m)
  PROVE  /\ TermIndex(m, b) \in Nat \ {0}
         /\ Len(successors(Term(m, b))) \in Nat
         /\ \A k \in 1..Len(successors(Term(m, b))) :
              /\ successors(Term(m, b))[k] \in Blocks(m)
              /\ Term(m, b).binds[k] \subseteq Locals(m)
<1>1. /\ Stmts(m, b) \in Seq(StatementSet(m.nlocals))
      /\ IsTerminator(Term(m, b), m.nlocals, Len(m.blocks))
      /\ Validated(m)
  BY DEF IsBody
<1>2. TermIndex(m, b) \in Nat \ {0}
  BY <1>1 DEF TermIndex
<1>3. /\ Term(m, b).succ \in Seq(1..Len(m.blocks))
      /\ Term(m, b).binds \in Seq(SUBSET (1..m.nlocals))
      /\ Len(Term(m, b).binds) = Len(Term(m, b).succ)
  BY <1>1 DEF IsTerminator
<1> QED BY <1>1, <1>2, <1>3 DEF Validated, successors, Locals

LEMMA FiniteBlocks ==
  ASSUME NEW m, IsBody(m)
  PROVE  IsFiniteSet(Blocks(m)) /\ Cardinality(Blocks(m)) <= Len(m.blocks)
<1>1. Len(m.blocks) \in Nat /\ Len(m.blocks) >= 1 BY DEF IsBody
<1>2. 1 \in Int /\ Len(m.blocks) \in Int BY <1>1
<1> DEFINE N == Len(m.blocks)
<1> HIDE DEF N
<1>3. 1 \in Int /\ N \in Int /\ N >= 1 BY <1>1, <1>2 DEF N
<1>4. IsFiniteSet(1..N) /\ Cardinality(1..N) = (IF 1 > N THEN 0 ELSE N - 1 + 1)
  BY <1>3, FS_Interval
<1>5. Cardinality(1..N) <= N BY <1>3, <1>4
<1> QED BY <1>4, <1>5 DEF N, Blocks
=============================================================================
