--------------------------- MODULE SimplifyProofs ---------------------------
(***************************************************************************)
(* Proofs about the simplification of the control-flow graph, for every    *)
(* set of well-formed graphs.                                              *)
(***************************************************************************)
EXTENDS Simplify, MirProofs, SequenceTheorems

(***************************************************************************)
(* What Reached computes: the least set that has the roots and what its    *)
(* members lead to.                                                        *)
(***************************************************************************)
AddReached(succ, S) == S \union UNION {succ[b] : b \in S}

LEMMA ReachedRounds ==
  ASSUME NEW D, IsFiniteSet(D), NEW succ \in [D -> SUBSET D], NEW roots \in SUBSET D
  PROVE  \E r : /\ r \in [0..Cardinality(D) -> SUBSET D]
                /\ r[0] = roots
                /\ \A n \in 1..Cardinality(D) : r[n] = AddReached(succ, r[n - 1])
                /\ Reached(succ, roots) = r[Cardinality(D)]
                /\ AddReached(succ, r[Cardinality(D)]) = r[Cardinality(D)]
<1> DEFINE N == Cardinality(D)
           X == SUBSET D
           F == [S \in X |-> AddReached(succ, S)]
<1>1. N \in Nat /\ DOMAIN succ = D BY FS_CardinalityType
<1>2. \A S \in X : AddReached(succ, S) \in X BY DEF AddReached
<1>3. F \in [X -> X] /\ \A S \in X : S \subseteq F[S] BY <1>2 DEF AddReached
<1>4. PICK g : IsIteration(g, X, roots, F, N)
  <2> HIDE DEF N, X, F
  <2>1. roots \in X BY DEF X
  <2> QED BY <1>1, <1>3, <2>1, Iterates
<1>5. g \in [0..N -> X] /\ g[0] = roots /\ \A n \in 1..N : g[n] = AddReached(succ, g[n - 1])
  <2>1. g \in [0..N -> X] /\ g[0] = roots /\ \A n \in 1..N : g[n] = F[g[n - 1]]
    BY <1>4 DEF IsIteration
  <2>2. ASSUME NEW n \in 1..N PROVE g[n] = AddReached(succ, g[n - 1])
    <3>1. n - 1 \in 0..N BY <1>1
    <3>2. g[n - 1] \in X BY <2>1, <3>1
    <3> QED BY <2>1, <3>2
  <2> HIDE DEF X, F, N
  <2> QED BY <2>1, <2>2
<1>6. g = [n \in 0..N |-> IF n = 0 THEN roots ELSE AddReached(succ, g[n - 1])]
  <2> HIDE DEF X, N
  <2> QED BY <1>1, <1>5
<1>7. \E w : /\ w = [n \in 0..N |-> IF n = 0 THEN roots ELSE AddReached(succ, w[n - 1])]
             /\ Reached(succ, roots) = w[N]
  BY <1>1, <1>6 DEF Reached, AddReached
<1>8. PICK w : /\ w = [n \in 0..N |-> IF n = 0 THEN roots ELSE AddReached(succ, w[n - 1])]
               /\ Reached(succ, roots) = w[N]
  BY <1>7
<1>9. w[0] = roots /\ \A n \in 1..N : w[n] = AddReached(succ, w[n - 1])
  <2> HIDE DEF N
  <2>1. w[0] = roots BY <1>1, <1>8
  <2>2. ASSUME NEW n \in 1..N PROVE w[n] = AddReached(succ, w[n - 1])
    <3>1. n \in 0..N /\ n # 0 BY <1>1
    <3> QED BY <1>8, <3>1
  <2> QED BY <2>1, <2>2
<1> DEFINE T == {n \in Nat : n <= N => w[n] = g[n]}
<1>10. 0 \in T BY <1>5, <1>9
<1>11. ASSUME NEW n \in Nat, n \in T, n + 1 <= N PROVE w[n + 1] = g[n + 1]
  <2>1. n + 1 \in 1..N /\ (n + 1) - 1 = n /\ w[n] = g[n] BY <1>1, <1>11
  <2> HIDE DEF N
  <2> QED BY <1>5, <1>9, <2>1
<1>12. w[N] = g[N]
  <2>1. \A n \in Nat : n \in T => n + 1 \in T BY <1>11
  <2>2. Nat \subseteq T
    <3> HIDE DEF T
    <3> QED BY <1>10, <2>1, Induction
  <2> QED BY <1>1, <2>2
<1>13. F[g[N]] = g[N]
  <2>1. Inflates(F, D) BY <1>3 DEF Inflates
  <2>2. IsIteration(g, SUBSET D, roots, F, N) BY <1>4
  <2>3. Cardinality(D) <= N BY <1>1
  <2> HIDE DEF F, N, X
  <2> QED BY <1>1, <2>1, <2>2, <2>3, Saturates
<1>14. AddReached(succ, g[N]) = g[N]
  <2>1. N \in 0..N BY <1>1
  <2>2. g[N] \in X BY <1>5, <2>1
  <2> QED BY <1>13, <2>2
<1> QED BY <1>5, <1>8, <1>12, <1>14

LEMMA ReachedClosed ==
  ASSUME NEW D, IsFiniteSet(D), NEW succ \in [D -> SUBSET D], NEW roots \in SUBSET D
  PROVE  /\ roots \subseteq Reached(succ, roots)
         /\ Reached(succ, roots) \subseteq D
         /\ \A b \in Reached(succ, roots) : succ[b] \subseteq Reached(succ, roots)
<1> DEFINE N == Cardinality(D)
<1>1. N \in Nat BY FS_CardinalityType
<1>2. PICK r : /\ r \in [0..N -> SUBSET D]
               /\ r[0] = roots
               /\ \A n \in 1..N : r[n] = AddReached(succ, r[n - 1])
               /\ Reached(succ, roots) = r[N]
               /\ AddReached(succ, r[N]) = r[N]
  BY ReachedRounds
<1> HIDE DEF N
<1> DEFINE T == {n \in Nat : n <= N => roots \subseteq r[n]}
<1>3. 0 \in T BY <1>2
<1>4. ASSUME NEW n \in Nat, n \in T, n + 1 <= N PROVE roots \subseteq r[n + 1]
  <2>1. n + 1 \in 1..N /\ (n + 1) - 1 = n /\ roots \subseteq r[n] BY <1>1, <1>4
  <2>2. r[n + 1] = AddReached(succ, r[n]) BY <1>2, <2>1
  <2> QED BY <2>1, <2>2 DEF AddReached
<1>5. roots \subseteq r[N]
  <2>1. \A n \in Nat : n \in T => n + 1 \in T BY <1>4
  <2>2. Nat \subseteq T
    <3> HIDE DEF T
    <3> QED BY <1>3, <2>1, Induction
  <2> QED BY <1>1, <2>2
<1>6. r[N] \subseteq D
  <2>1. N \in 0..N BY <1>1
  <2> QED BY <1>2, <2>1
<1> QED BY <1>2, <1>5, <1>6 DEF AddReached

LEMMA ReachedLeast ==
  ASSUME NEW D, IsFiniteSet(D), NEW succ \in [D -> SUBSET D], NEW roots \in SUBSET D,
         NEW Z, roots \subseteq Z, \A b \in D : b \in Z => succ[b] \subseteq Z
  PROVE  Reached(succ, roots) \subseteq Z
<1> DEFINE N == Cardinality(D)
<1>1. N \in Nat BY FS_CardinalityType
<1>2. PICK r : /\ r \in [0..N -> SUBSET D]
               /\ r[0] = roots
               /\ \A n \in 1..N : r[n] = AddReached(succ, r[n - 1])
               /\ Reached(succ, roots) = r[N]
               /\ AddReached(succ, r[N]) = r[N]
  BY ReachedRounds
<1> HIDE DEF N
<1> DEFINE T == {n \in Nat : n <= N => r[n] \subseteq Z}
<1>3. 0 \in T BY <1>2
<1>4. ASSUME NEW n \in Nat, n \in T, n + 1 <= N PROVE r[n + 1] \subseteq Z
  <2>1. n + 1 \in 1..N /\ (n + 1) - 1 = n /\ r[n] \subseteq Z /\ n \in 0..N BY <1>1, <1>4
  <2>2. r[n + 1] = AddReached(succ, r[n]) /\ r[n] \subseteq D BY <1>2, <2>1
  <2> QED BY <2>1, <2>2 DEF AddReached
<1>5. r[N] \subseteq Z
  <2>1. \A n \in Nat : n \in T => n + 1 \in T BY <1>4
  <2>2. Nat \subseteq T
    <3> HIDE DEF T
    <3> QED BY <1>3, <2>1, Induction
  <2> QED BY <1>1, <2>2
<1> QED BY <1>2, <1>5

(***************************************************************************)
(* Skipping an element L that leads only to T: instead of L, some sets     *)
(* have T.  What is reached is the same, up to L itself.                   *)
(***************************************************************************)
Skips(A, A2, L, T) ==
  /\ A2 \subseteq A \union (IF L \in A THEN {T} ELSE {})
  /\ A \subseteq A2 \union {L}
  /\ L \in A \ A2 => T \in A2

LEMMA SkipReached ==
  ASSUME NEW D, IsFiniteSet(D), NEW e \in [D -> SUBSET D], NEW e2 \in [D -> SUBSET D],
         NEW L \in D, NEW T \in D, e[L] = {T}, e2[L] = {T},
         \A b \in D : Skips(e[b], e2[b], L, T),
         NEW roots \in SUBSET D, NEW roots2 \in SUBSET D, Skips(roots, roots2, L, T)
  PROVE  Skips(Reached(e, roots), Reached(e2, roots2), L, T)
<1> DEFINE R == Reached(e, roots)
           R2 == Reached(e2, roots2)
<1>1. roots \subseteq R /\ R \subseteq D /\ \A b \in R : e[b] \subseteq R
  BY ReachedClosed
<1>2. roots2 \subseteq R2 /\ R2 \subseteq D /\ \A b \in R2 : e2[b] \subseteq R2
  BY ReachedClosed
<1> HIDE DEF R, R2
<1>3. L \in R => T \in R BY <1>1
<1>4. R2 \subseteq R
  <2>1. roots2 \subseteq R BY <1>1, <1>3 DEF Skips
  <2>2. ASSUME NEW b \in D, b \in R PROVE e2[b] \subseteq R
    <3>1. e[b] \subseteq R /\ Skips(e[b], e2[b], L, T) BY <1>1, <2>2
    <3> QED BY <1>3, <3>1 DEF Skips
  <2> QED BY <2>1, <2>2, ReachedLeast DEF R2
<1>5. R \subseteq R2 \union (IF T \in R2 THEN {L} ELSE {})
  <2> DEFINE Z == R2 \union (IF T \in R2 THEN {L} ELSE {})
  <2>1. roots \subseteq Z BY <1>2 DEF Skips
  <2>2. ASSUME NEW b \in D, b \in Z PROVE e[b] \subseteq Z
    <3>1. CASE b \in R2
      <4>1. e2[b] \subseteq R2 /\ Skips(e[b], e2[b], L, T) BY <1>2, <3>1
      <4> QED BY <4>1 DEF Skips
    <3>2. CASE b \notin R2
      <4>1. b = L /\ T \in R2 BY <2>2, <3>2
      <4> QED BY <4>1
    <3> QED BY <3>1, <3>2
  <2> HIDE DEF Z
  <2>3. R \subseteq Z BY <2>1, <2>2, ReachedLeast DEF R
  <2> QED BY <2>3 DEF Z
<1> QED BY <1>4, <1>5 DEF Skips, R, R2

\* Whether something reached leads back to itself.
Spins(e, R) == \E b \in R : b \in Reached(e, e[b])

LEMMA SkipSpins ==
  ASSUME NEW D, IsFiniteSet(D), NEW e \in [D -> SUBSET D], NEW e2 \in [D -> SUBSET D],
         NEW L \in D, NEW T \in D, e[L] = {T}, e2[L] = {T},
         \A b \in D : Skips(e[b], e2[b], L, T),
         NEW roots \in SUBSET D, NEW roots2 \in SUBSET D, Skips(roots, roots2, L, T)
  PROVE  Spins(e, Reached(e, roots)) <=> Spins(e2, Reached(e2, roots2))
<1> DEFINE R == Reached(e, roots)
           R2 == Reached(e2, roots2)
<1>1. Skips(R, R2, L, T) BY SkipReached
<1>2. R \subseteq D /\ (\A b \in R : e[b] \subseteq R) BY ReachedClosed
<1>3. \A b \in D : Skips(Reached(e, e[b]), Reached(e2, e2[b]), L, T)
  BY SkipReached
<1> HIDE DEF R, R2
<1>4. R2 \subseteq R /\ R \subseteq R2 \union {L} /\ R2 \subseteq D
  <2>1. L \in R => T \in R BY <1>2
  <2> QED BY <1>1, <1>2, <2>1 DEF Skips
<1>5. ASSUME NEW b \in R2, b \in Reached(e2, e2[b]) PROVE b \in R /\ b \in Reached(e, e[b])
  <2>1. \A x \in Reached(e, e[b]) : e[x] \subseteq Reached(e, e[b]) BY <1>4, ReachedClosed
  <2>2. L \in Reached(e, e[b]) => T \in Reached(e, e[b]) BY <2>1
  <2>3. Skips(Reached(e, e[b]), Reached(e2, e2[b]), L, T) BY <1>3, <1>4
  <2> QED BY <1>4, <1>5, <2>2, <2>3 DEF Skips
<1>6. ASSUME NEW b \in R, b \in Reached(e, e[b]), b # L
      PROVE  b \in R2 /\ b \in Reached(e2, e2[b])
  <2>1. Skips(Reached(e, e[b]), Reached(e2, e2[b]), L, T) BY <1>2, <1>3
  <2> QED BY <1>4, <1>6, <2>1 DEF Skips
<1>7. ASSUME L \in R, L \in Reached(e, e[L]) PROVE Spins(e2, R2)
  <2>1. CASE T = L
    <3>1. L \in R2 BY <1>1, <1>7, <2>1 DEF Skips
    <3>2. e2[L] \subseteq Reached(e2, e2[L]) BY ReachedClosed
    <3> QED BY <2>1, <3>1, <3>2 DEF Spins
  <2>2. CASE T # L
    <3>1. T \in R BY <1>2, <1>7
    <3>2. /\ e[T] \subseteq Reached(e, e[T])
          /\ \A x \in Reached(e, e[T]) : e[x] \subseteq Reached(e, e[T])
      BY ReachedClosed
    <3> DEFINE Z == {T} \union Reached(e, e[T])
    <3>3. Reached(e, {T}) \subseteq Z
      <4>1. {T} \subseteq Z /\ {T} \in SUBSET D OBVIOUS
      <4>2. \A b \in D : b \in Z => e[b] \subseteq Z BY <3>2
      <4> HIDE DEF Z
      <4> QED BY <4>1, <4>2, ReachedLeast
    <3>4. L \in Reached(e, e[T]) BY <1>7, <2>2, <3>3
    <3>5. T \in Reached(e, e[T]) BY <3>2, <3>4
    <3> QED BY <1>6, <2>2, <3>1, <3>5 DEF Spins
  <2> QED BY <2>1, <2>2
<1> QED BY <1>5, <1>6, <1>7 DEF Spins, R, R2

(***************************************************************************)
(* Renaming the elements.                                                  *)
(***************************************************************************)
Image(f, S) == {f[x] : x \in S}

LEMMA RenamedReached ==
  ASSUME NEW D, IsFiniteSet(D), NEW e \in [D -> SUBSET D],
         NEW E, IsFiniteSet(E), NEW h \in [E -> SUBSET E],
         NEW f \in [D -> E], \A b \in D : h[f[b]] = Image(f, e[b]),
         NEW roots \in SUBSET D
  PROVE  Reached(h, Image(f, roots)) = Image(f, Reached(e, roots))
<1> DEFINE R == Reached(e, roots)
           H == Reached(h, Image(f, roots))
<1>1. Image(f, roots) \in SUBSET E BY DEF Image
<1>2. roots \subseteq R /\ R \subseteq D /\ \A b \in R : e[b] \subseteq R
  BY ReachedClosed
<1>3. Image(f, roots) \subseteq H /\ H \subseteq E /\ \A b \in H : h[b] \subseteq H
  BY <1>1, ReachedClosed
<1> HIDE DEF R, H
<1>4. H \subseteq Image(f, R)
  <2>1. Image(f, roots) \subseteq Image(f, R) BY <1>2 DEF Image
  <2>2. ASSUME NEW c \in E, c \in Image(f, R) PROVE h[c] \subseteq Image(f, R)
    <3>1. PICK b \in R : c = f[b] BY <2>2 DEF Image
    <3>2. h[c] = Image(f, e[b]) /\ e[b] \subseteq R BY <1>2, <3>1
    <3> QED BY <3>2 DEF Image
  <2> QED BY <1>1, <2>1, <2>2, ReachedLeast DEF H
<1>5. Image(f, R) \subseteq H
  <2> DEFINE Z == {x \in D : f[x] \in H}
  <2>1. roots \subseteq Z BY <1>3 DEF Image
  <2>2. ASSUME NEW b \in D, b \in Z PROVE e[b] \subseteq Z
    <3>1. h[f[b]] \subseteq H /\ e[b] \subseteq D BY <1>3, <2>2
    <3> QED BY <3>1 DEF Image
  <2> HIDE DEF Z
  <2>3. R \subseteq Z BY <2>1, <2>2, ReachedLeast DEF R
  <2> QED BY <2>3 DEF Image, Z
<1> QED BY <1>4, <1>5 DEF R, H

-----------------------------------------------------------------------------
(***************************************************************************)
(* Graphs whose edges stay inside, where they lead, and what comes in view *)
(* on the way.                                                             *)
(***************************************************************************)
IsClosedGraph(G) ==
  IsFiniteSet(DOMAIN G) /\ \A b \in DOMAIN G : ToSet(G[b].succ) \subseteq DOMAIN G

Leads(G) == [b \in DOMAIN G |-> ToSet(G[b].succ)]
Silently(G) == [b \in DOMAIN G |-> IF Visible(G, b) THEN {} ELSE ToSet(G[b].succ)]
InView(G, R, name) == {name[b] : b \in {c \in R : Visible(G, c)}}

LEMMA GraphEdges ==
  ASSUME NEW G, IsClosedGraph(G)
  PROVE  /\ IsFiniteSet(DOMAIN G)
         /\ Leads(G) \in [DOMAIN G -> SUBSET DOMAIN G]
         /\ Silently(G) \in [DOMAIN G -> SUBSET DOMAIN G]
         /\ \A roots : From(G, roots) = Reached(Leads(G), roots)
         /\ \A roots : SilentFrom(G, roots) = Reached(Silently(G), roots)
BY DEF IsClosedGraph, Leads, Silently, From, SilentFrom, Indices

LEMMA AheadIs ==
  ASSUME NEW G, IsClosedGraph(G), NEW roots \in SUBSET DOMAIN G, NEW name
  PROVE  LET R == Reached(Silently(G), roots)
         IN Ahead(G, roots, name) = [next |-> InView(G, R, name), spins |-> Spins(Silently(G), R)]
<1> DEFINE e == Silently(G)
           R == Reached(e, roots)
<1>1. IsFiniteSet(DOMAIN G) /\ e \in [DOMAIN G -> SUBSET DOMAIN G] BY GraphEdges
<1>2. R \subseteq DOMAIN G BY <1>1, ReachedClosed
<1>3. Reached(e, {}) = {}
  <2>1. {} \in SUBSET DOMAIN G /\ \A b \in DOMAIN G : b \in {} => e[b] \subseteq {} OBVIOUS
  <2> QED BY <1>1, <2>1, ReachedLeast
<1>4. ASSUME NEW b \in R
      PROVE  ~Visible(G, b) /\ b \in SilentFrom(G, ToSet(G[b].succ)) <=> b \in Reached(e, e[b])
  <2>1. CASE Visible(G, b)
    <3>1. e[b] = {} BY <1>2, <2>1 DEF Silently
    <3> QED BY <1>3, <2>1, <3>1
  <2>2. CASE ~Visible(G, b)
    <3>1. e[b] = ToSet(G[b].succ) BY <1>2, <2>2 DEF Silently
    <3>2. SilentFrom(G, ToSet(G[b].succ)) = Reached(e, ToSet(G[b].succ)) BY GraphEdges
    <3> QED BY <2>2, <3>1, <3>2
  <2> QED BY <2>1, <2>2
<1>5. SilentFrom(G, roots) = R BY GraphEdges
<1>6. Ahead(G, roots, name) =
        [next  |-> InView(G, R, name),
         spins |-> \E b \in R : ~Visible(G, b) /\ b \in SilentFrom(G, ToSet(G[b].succ))]
  BY <1>5 DEF Ahead, InView
<1>7. (\E b \in R : ~Visible(G, b) /\ b \in SilentFrom(G, ToSet(G[b].succ))) = Spins(e, R)
  <2> HIDE DEF R, e
  <2> QED BY <1>4 DEF Spins
<1> QED BY <1>6, <1>7

(***************************************************************************)
(* The flow of a graph G that stands for the graph before the pass.        *)
(***************************************************************************)
Same(G) == [b \in DOMAIN G |-> b]

FlowOf(G, name, S) ==
  /\ Ahead(G, {START_BLOCK}, name) = Ahead(S, {START_BLOCK}, Same(S))
  /\ \A b \in From(G, {START_BLOCK}) : Visible(G, b) =>
       Ahead(G, ToSet(G[b].succ), name) = Ahead(S, ToSet(S[name[b]].succ), Same(S))

\* G2 is G, but some edges skip the silent block L.
SkipsOver(G, G2, L, T) ==
  /\ DOMAIN G2 = DOMAIN G
  /\ \A b \in DOMAIN G : Visible(G2, b) = Visible(G, b)
  /\ L \in DOMAIN G /\ T \in DOMAIN G
  /\ ~Visible(G, L)
  /\ ToSet(G[L].succ) = {T} /\ ToSet(G2[L].succ) = {T}
  /\ \A b \in DOMAIN G : Skips(ToSet(G[b].succ), ToSet(G2[b].succ), L, T)

LEMMA SkipAhead ==
  ASSUME NEW G, NEW G2, IsClosedGraph(G), IsClosedGraph(G2), NEW L, NEW T, SkipsOver(G, G2, L, T),
         NEW roots \in SUBSET DOMAIN G, NEW roots2 \in SUBSET DOMAIN G, Skips(roots, roots2, L, T),
         NEW name
  PROVE  /\ Ahead(G2, roots2, name) = Ahead(G, roots, name)
         /\ From(G2, roots2) \subseteq From(G, roots)
<1> DEFINE D == DOMAIN G
           e == Silently(G)
           e2 == Silently(G2)
           a == Leads(G)
           a2 == Leads(G2)
<1>1. /\ IsFiniteSet(D) /\ L \in D /\ T \in D
      /\ e \in [D -> SUBSET D] /\ a \in [D -> SUBSET D]
  BY GraphEdges DEF SkipsOver
<1>2. e2 \in [D -> SUBSET D] /\ a2 \in [D -> SUBSET D] BY GraphEdges DEF SkipsOver
<1>3. a[L] = {T} /\ a2[L] = {T} /\ \A b \in D : Skips(a[b], a2[b], L, T)
  BY DEF SkipsOver, Leads
<1>4. e[L] = {T} /\ e2[L] = {T} BY DEF SkipsOver, Silently
<1>5. ASSUME NEW b \in D PROVE Skips(e[b], e2[b], L, T)
  <2>1. CASE Visible(G, b)
    <3>1. e[b] = {} /\ e2[b] = {} BY <2>1 DEF SkipsOver, Silently
    <3> QED BY <3>1 DEF Skips
  <2>2. CASE ~Visible(G, b) BY <2>2 DEF SkipsOver, Silently
  <2> QED BY <2>1, <2>2
<1>6. Skips(Reached(e, roots), Reached(e2, roots2), L, T)
  <2> HIDE DEF D, e, e2
  <2>1. roots \in SUBSET D /\ roots2 \in SUBSET D BY DEF D
  <2> QED BY <1>1, <1>2, <1>4, <1>5, <2>1, SkipReached
<1>7. Spins(e, Reached(e, roots)) <=> Spins(e2, Reached(e2, roots2))
  <2> HIDE DEF D, e, e2
  <2>1. roots \in SUBSET D /\ roots2 \in SUBSET D BY DEF D
  <2>2. Skips(roots, roots2, L, T) OBVIOUS
  <2> QED BY ONLY <1>1, <1>2, <1>4, <1>5, <2>1, <2>2, SkipSpins, ZenonT(20)
<1>8. Skips(Reached(a, roots), Reached(a2, roots2), L, T)
  <2> HIDE DEF D, a, a2
  <2>1. roots \in SUBSET D /\ roots2 \in SUBSET D BY DEF D
  <2> QED BY <1>1, <1>2, <1>3, <2>1, SkipReached
<1>9. InView(G, Reached(e, roots), name) = InView(G2, Reached(e2, roots2), name)
  <2>1. Reached(e, roots) \subseteq D BY <1>1, ReachedClosed
  <2>3. L \in Reached(e, roots) => T \in Reached(e, roots)
    <3>1. \A x \in Reached(e, roots) : e[x] \subseteq Reached(e, roots) BY <1>1, ReachedClosed
    <3> QED BY <1>4, <3>1
  <2>4. {c \in Reached(e, roots) : Visible(G, c)} = {c \in Reached(e2, roots2) : Visible(G2, c)}
    <3> HIDE DEF e, e2
    <3>1. ASSUME NEW c \in D, Visible(G, c)
          PROVE  c \in Reached(e, roots) <=> c \in Reached(e2, roots2)
      <4>1. c # L BY <3>1 DEF SkipsOver
      <4> QED BY <1>6, <2>3, <4>1 DEF Skips
    <3>2. Reached(e2, roots2) \subseteq D BY <1>1, <1>2, ReachedClosed
    <3>3. \A c \in D : Visible(G, c) = Visible(G2, c) BY DEF SkipsOver
    <3> QED BY <2>1, <3>1, <3>2, <3>3
  <2> QED BY <2>4 DEF InView
<1>10. Ahead(G2, roots2, name) = Ahead(G, roots, name)
  <2>1. roots2 \in SUBSET DOMAIN G2 BY DEF SkipsOver
  <2>2. Ahead(G2, roots2, name)
          = [next |-> InView(G2, Reached(e2, roots2), name), spins |-> Spins(e2, Reached(e2, roots2))]
    BY <2>1, AheadIs
  <2>3. Ahead(G, roots, name)
          = [next |-> InView(G, Reached(e, roots), name), spins |-> Spins(e, Reached(e, roots))]
    BY AheadIs
  <2>4. Spins(e, Reached(e, roots)) = Spins(e2, Reached(e2, roots2))
    <3> HIDE DEF e, e2
    <3> QED BY <1>7 DEF Spins
  <2> HIDE DEF e, e2
  <2> QED BY <1>9, <2>2, <2>3, <2>4
<1>11. Reached(a2, roots2) \subseteq Reached(a, roots)
  <2>1. L \in Reached(a, roots) => T \in Reached(a, roots)
    <3>1. \A x \in Reached(a, roots) : a[x] \subseteq Reached(a, roots) BY <1>1, ReachedClosed
    <3> QED BY <1>3, <3>1
  <2> QED BY <1>8, <2>1 DEF Skips
<1> QED BY <1>10, <1>11, GraphEdges

LEMMA SkipFlow ==
  ASSUME NEW G, NEW G2, IsClosedGraph(G), IsClosedGraph(G2), NEW L, NEW T, SkipsOver(G, G2, L, T),
         START_BLOCK \in DOMAIN G, NEW name, NEW S, FlowOf(G, name, S)
  PROVE  FlowOf(G2, name, S)
<1>1. \A A : Skips(A, A, L, T) BY DEF Skips
<1>2. {START_BLOCK} \in SUBSET DOMAIN G OBVIOUS
<1>3. /\ Ahead(G2, {START_BLOCK}, name) = Ahead(G, {START_BLOCK}, name)
      /\ From(G2, {START_BLOCK}) \subseteq From(G, {START_BLOCK})
  BY <1>1, <1>2, SkipAhead
<1>4. ASSUME NEW b \in From(G2, {START_BLOCK}), Visible(G2, b)
      PROVE  Ahead(G2, ToSet(G2[b].succ), name) = Ahead(S, ToSet(S[name[b]].succ), Same(S))
  <2>1. From(G, {START_BLOCK}) \subseteq DOMAIN G BY <1>2, GraphEdges, ReachedClosed
  <2>2. b \in DOMAIN G /\ b \in From(G, {START_BLOCK}) BY <1>3, <2>1
  <2>3. /\ ToSet(G[b].succ) \in SUBSET DOMAIN G /\ ToSet(G2[b].succ) \in SUBSET DOMAIN G
        /\ Skips(ToSet(G[b].succ), ToSet(G2[b].succ), L, T)
        /\ Visible(G, b)
    BY <1>4, <2>2 DEF SkipsOver, IsClosedGraph
  <2>4. Ahead(G2, ToSet(G2[b].succ), name) = Ahead(G, ToSet(G[b].succ), name)
    BY <2>3, SkipAhead
  <2> QED BY <2>2, <2>3, <2>4 DEF FlowOf
<1> QED BY <1>3, <1>4 DEF FlowOf

\* Only where the edges lead matters.
LEMMA SameFlow ==
  ASSUME NEW G, NEW G2, IsClosedGraph(G), IsClosedGraph(G2), DOMAIN G2 = DOMAIN G,
         \A b \in DOMAIN G : Visible(G2, b) = Visible(G, b) /\ ToSet(G2[b].succ) = ToSet(G[b].succ),
         START_BLOCK \in DOMAIN G, NEW name, NEW S, FlowOf(G, name, S)
  PROVE  FlowOf(G2, name, S)
<1>1. Silently(G2) = Silently(G) /\ Leads(G2) = Leads(G) BY DEF Silently, Leads
<1>2. \A roots : From(G2, roots) = From(G, roots) BY <1>1, GraphEdges
<1>3. ASSUME NEW roots \in SUBSET DOMAIN G PROVE Ahead(G2, roots, name) = Ahead(G, roots, name)
  <2> DEFINE R == Reached(Silently(G), roots)
  <2>1. R \subseteq DOMAIN G BY GraphEdges, ReachedClosed
  <2>2. {c \in R : Visible(G2, c)} = {c \in R : Visible(G, c)} BY <2>1
  <2>3. InView(G2, R, name) = InView(G, R, name) BY <2>2 DEF InView
  <2> QED BY <1>1, <2>3, AheadIs
<1>4. {START_BLOCK} \in SUBSET DOMAIN G OBVIOUS
<1>5. From(G, {START_BLOCK}) \subseteq DOMAIN G BY <1>4, GraphEdges, ReachedClosed
<1>6. \A b \in DOMAIN G : ToSet(G[b].succ) \in SUBSET DOMAIN G BY DEF IsClosedGraph
<1> QED BY <1>2, <1>3, <1>4, <1>5, <1>6 DEF FlowOf

(***************************************************************************)
(* H has the blocks of G, renumbered by f.                                 *)
(***************************************************************************)
Embeds(G, H, f) ==
  /\ f \in [DOMAIN G -> DOMAIN H]
  /\ \A b \in DOMAIN G : \A c \in DOMAIN G : f[b] = f[c] => b = c
  /\ \A b \in DOMAIN G :
       /\ H[f[b]].stmts = G[b].stmts
       /\ H[f[b]].op = G[b].op
       /\ H[f[b]].succ = [k \in DOMAIN G[b].succ |-> f[G[b].succ[k]]]
       /\ \A k \in DOMAIN G[b].succ : G[b].succ[k] \in DOMAIN G

\* A block has one name before and after.
Named(G, f, nameG, nameH) == \A b \in DOMAIN G : nameH[f[b]] = nameG[b]

LEMMA EmbeddedTargets ==
  ASSUME NEW G, NEW H, NEW f, Embeds(G, H, f), NEW b \in DOMAIN G
  PROVE  /\ Visible(H, f[b]) = Visible(G, b)
         /\ ToSet(H[f[b]].succ) = Image(f, ToSet(G[b].succ))
         /\ ToSet(G[b].succ) \in SUBSET DOMAIN G
<1>1. Visible(H, f[b]) = Visible(G, b) BY DEF Embeds, Visible
<1>2. ToSet(H[f[b]].succ) = Image(f, ToSet(G[b].succ))
  <2> DEFINE t == G[b].succ
  <2>1. H[f[b]].succ = [k \in DOMAIN t |-> f[t[k]]] BY DEF Embeds
  <2>2. ToSet(H[f[b]].succ) = {f[t[k]] : k \in DOMAIN t} BY <2>1 DEF ToSet
  <2>3. Image(f, ToSet(t)) = {f[t[k]] : k \in DOMAIN t} BY DEF ToSet, Image
  <2> QED BY <2>2, <2>3
<1>3. \A k \in DOMAIN G[b].succ : G[b].succ[k] \in DOMAIN G BY DEF Embeds
<1>4. ToSet(G[b].succ) \in SUBSET DOMAIN G BY <1>3 DEF ToSet
<1> QED BY <1>1, <1>2, <1>4

LEMMA RenamedAhead ==
  ASSUME NEW G, NEW H, IsClosedGraph(G), IsClosedGraph(H), NEW f, Embeds(G, H, f),
         NEW roots \in SUBSET DOMAIN G, NEW nameG, NEW nameH, Named(G, f, nameG, nameH)
  PROVE  /\ Ahead(H, Image(f, roots), nameH) = Ahead(G, roots, nameG)
         /\ From(H, Image(f, roots)) = Image(f, From(G, roots))
<1> DEFINE D == DOMAIN G
           E == DOMAIN H
           e == Silently(G)
           h == Silently(H)
           R == Reached(e, roots)
           RH == Reached(h, Image(f, roots))
<1>1. IsFiniteSet(D) /\ e \in [D -> SUBSET D] /\ IsFiniteSet(E) /\ h \in [E -> SUBSET E]
  BY GraphEdges
<1>2. f \in [D -> E] /\ \A b \in D : \A c \in D : f[b] = f[c] => b = c BY DEF Embeds
<1>3. ASSUME NEW b \in D PROVE h[f[b]] = Image(f, e[b])
  <2>1. f[b] \in E BY <1>2
  <2>2. CASE Visible(G, b)
    <3>1. e[b] = {} /\ h[f[b]] = {} BY <2>1, <2>2, EmbeddedTargets DEF Silently
    <3> QED BY <3>1 DEF Image
  <2>3. CASE ~Visible(G, b)
    BY <2>1, <2>3, EmbeddedTargets DEF Silently
  <2> QED BY <2>2, <2>3
<1>4. \A A \in SUBSET D : Reached(h, Image(f, A)) = Image(f, Reached(e, A))
  <2> HIDE DEF D, E, e, h
  <2> QED BY <1>1, <1>2, <1>3, RenamedReached
<1>5. RH = Image(f, R) /\ R \subseteq D
  <2>1. R \subseteq D BY <1>1, ReachedClosed
  <2> QED BY <1>4, <2>1
<1>6. InView(H, RH, nameH) = InView(G, R, nameG)
  <2>1. \A b \in R : Visible(H, f[b]) = Visible(G, b) /\ nameH[f[b]] = nameG[b]
    BY <1>5, EmbeddedTargets DEF Named
  <2> HIDE DEF R, RH
  <2> QED BY <1>5, <2>1 DEF InView, Image
<1>7. Spins(h, RH) = Spins(e, R)
  <2>1. ASSUME NEW b \in R PROVE f[b] \in Reached(h, h[f[b]]) <=> b \in Reached(e, e[b])
    <3>1. b \in D /\ e[b] \in SUBSET D BY <1>1, <1>5
    <3>2. Reached(h, h[f[b]]) = Image(f, Reached(e, e[b])) BY <1>3, <1>4, <3>1
    <3>3. Reached(e, e[b]) \subseteq D BY <1>1, <3>1, ReachedClosed
    <3> QED BY <1>2, <3>1, <3>2, <3>3 DEF Image
  <2> HIDE DEF R, RH, e, h
  <2> QED BY <1>5, <2>1 DEF Spins, Image
<1>8. Ahead(H, Image(f, roots), nameH) = Ahead(G, roots, nameG)
  <2>1. Image(f, roots) \in SUBSET DOMAIN H BY <1>2 DEF Image
  <2>2. Ahead(H, Image(f, roots), nameH) = [next |-> InView(H, RH, nameH), spins |-> Spins(h, RH)]
    BY <2>1, AheadIs
  <2>3. Ahead(G, roots, nameG) = [next |-> InView(G, R, nameG), spins |-> Spins(e, R)]
    BY AheadIs
  <2> QED BY <1>6, <1>7, <2>2, <2>3
<1>9. From(H, Image(f, roots)) = Image(f, From(G, roots))
  <2> DEFINE a == Leads(G)
             l == Leads(H)
  <2>1. a \in [D -> SUBSET D] /\ l \in [E -> SUBSET E] BY GraphEdges
  <2>2. \A b \in D : l[f[b]] = Image(f, a[b]) BY <1>2, EmbeddedTargets DEF Leads
  <2>3. Reached(l, Image(f, roots)) = Image(f, Reached(a, roots))
    <3>1. roots \in SUBSET D OBVIOUS
    <3> HIDE DEF D, E, a, l
    <3> QED BY <1>1, <1>2, <2>1, <2>2, <3>1, RenamedReached
  <2> QED BY <2>3, GraphEdges
<1> QED BY <1>8, <1>9

LEMMA RenamedFlow ==
  ASSUME NEW G, NEW H, IsClosedGraph(G), IsClosedGraph(H), NEW f, Embeds(G, H, f),
         START_BLOCK \in DOMAIN G, f[START_BLOCK] = START_BLOCK,
         NEW nameG, NEW nameH, Named(G, f, nameG, nameH), NEW S
  PROVE  FlowOf(H, nameH, S) <=> FlowOf(G, nameG, S)
<1>1. {START_BLOCK} \in SUBSET DOMAIN G /\ Image(f, {START_BLOCK}) = {START_BLOCK} BY DEF Image
<1>2. \A roots \in SUBSET DOMAIN G :
        /\ Ahead(H, Image(f, roots), nameH) = Ahead(G, roots, nameG)
        /\ From(H, Image(f, roots)) = Image(f, From(G, roots))
  BY RenamedAhead
<1>3. /\ Ahead(H, {START_BLOCK}, nameH) = Ahead(G, {START_BLOCK}, nameG)
      /\ From(H, {START_BLOCK}) = Image(f, From(G, {START_BLOCK}))
  BY <1>1, <1>2
<1>4. From(G, {START_BLOCK}) \subseteq DOMAIN G BY <1>1, GraphEdges, ReachedClosed
<1>5. ASSUME NEW b \in From(G, {START_BLOCK})
      PROVE  /\ Visible(H, f[b]) = Visible(G, b)
             /\ Ahead(H, ToSet(H[f[b]].succ), nameH) = Ahead(G, ToSet(G[b].succ), nameG)
             /\ nameH[f[b]] = nameG[b]
  <2>1. b \in DOMAIN G BY <1>4
  <2>2. /\ Visible(H, f[b]) = Visible(G, b)
        /\ ToSet(H[f[b]].succ) = Image(f, ToSet(G[b].succ))
        /\ ToSet(G[b].succ) \in SUBSET DOMAIN G
    BY <2>1, EmbeddedTargets
  <2> QED BY <1>2, <2>1, <2>2 DEF Named
<1>6. FlowOf(H, nameH, S) <=>
        /\ Ahead(G, {START_BLOCK}, nameG) = Ahead(S, {START_BLOCK}, Same(S))
        /\ \A b \in From(G, {START_BLOCK}) : Visible(H, f[b]) =>
             Ahead(H, ToSet(H[f[b]].succ), nameH) = Ahead(S, ToSet(S[nameH[f[b]]].succ), Same(S))
  BY <1>3 DEF FlowOf, Image
<1> QED BY <1>5, <1>6 DEF FlowOf

-----------------------------------------------------------------------------
(***************************************************************************)
(* Sequences of blocks, their references and how many there are.           *)
(***************************************************************************)
IsGraph(blocks) ==
  /\ blocks \in Seq(BlockSet(Len(blocks))) /\ Len(blocks) >= 1
  /\ \A b \in DOMAIN blocks : blocks[b].op = "Goto" => Len(blocks[b].succ) = 1

LEMMA GraphBlocks ==
  ASSUME NEW B, IsGraph(B)
  PROVE  /\ Len(B) \in Nat \ {0} /\ DOMAIN B = 1..Len(B) /\ START_BLOCK \in DOMAIN B
         /\ IsFiniteSet(DOMAIN B)
         /\ IsClosedGraph(B)
         /\ \A b \in DOMAIN B :
              /\ B[b] \in BlockSet(Len(B))
              /\ B[b].succ \in Seq(DOMAIN B) /\ B[b].stmts \in BOOLEAN /\ B[b].op \in TermOps
              /\ DOMAIN B[b].succ = 1..Len(B[b].succ) /\ Len(B[b].succ) \in Nat
              /\ \A k \in DOMAIN B[b].succ : B[b].succ[k] \in DOMAIN B
<1>1. Len(B) \in Nat \ {0} /\ DOMAIN B = 1..Len(B) /\ START_BLOCK \in DOMAIN B
  BY DEF IsGraph, START_BLOCK
<1>2. IsFiniteSet(DOMAIN B)
  <2> DEFINE N == Len(B)
  <2>1. 1 \in Int /\ N \in Int BY <1>1
  <2> HIDE DEF N
  <2>2. IsFiniteSet(1..N) BY <2>1, FS_Interval
  <2> QED BY <1>1, <2>2 DEF N
<1>3. ASSUME NEW b \in DOMAIN B
      PROVE  /\ B[b] \in BlockSet(Len(B))
             /\ B[b].succ \in Seq(DOMAIN B) /\ B[b].stmts \in BOOLEAN /\ B[b].op \in TermOps
             /\ DOMAIN B[b].succ = 1..Len(B[b].succ) /\ Len(B[b].succ) \in Nat
             /\ \A k \in DOMAIN B[b].succ : B[b].succ[k] \in DOMAIN B
  <2>1. B[b] \in BlockSet(Len(B)) BY <1>1 DEF IsGraph
  <2>2. B[b].succ \in Seq(DOMAIN B) /\ B[b].stmts \in BOOLEAN /\ B[b].op \in TermOps
    BY <1>1, <2>1 DEF BlockSet
  <2> QED BY <2>1, <2>2
<1>4. IsClosedGraph(B) BY <1>2, <1>3 DEF IsClosedGraph, ToSet
<1> QED BY <1>1, <1>2, <1>3, <1>4

LEMMA RefersTo ==
  ASSUME NEW B, NEW C, NEW t
  PROVE  /\ \A r : r \in ReferencesTo(B, C, t) <=>
              \E b \in C : \E k \in References(B, b) : r = <<b, k>> /\ B[b].succ[k] = t
         /\ \A b, k : <<b, k>> \in ReferencesTo(B, C, t) <=>
              b \in C /\ k \in References(B, b) /\ B[b].succ[k] = t
BY DEF ReferencesTo

LEMMA FiniteReferences ==
  ASSUME NEW B, IsGraph(B), NEW C \in SUBSET DOMAIN B, NEW t
  PROVE  /\ IsFiniteSet(ReferencesTo(B, C, t))
         /\ Cardinality(ReferencesTo(B, C, t)) \in Nat
         /\ Cardinality(ReferencesTo(B, C, t)) = 0 <=> ReferencesTo(B, C, t) = {}
<1> DEFINE f == [b \in C |-> {b} \X {k \in References(B, b) : B[b].succ[k] = t}]
           T == {f[b] : b \in C}
<1>1. IsFiniteSet(C) BY GraphBlocks, FS_Subset
<1>2. f \in Surjection(C, T) BY DEF Surjection
<1>3. IsFiniteSet(T)
  <2> HIDE DEF f, T
  <2> QED BY <1>1, <1>2, FS_Surjection
<1>4. ASSUME NEW b \in C PROVE IsFiniteSet(f[b])
  <2> DEFINE n == Len(B[b].succ)
             K == {k \in References(B, b) : B[b].succ[k] = t}
  <2>1. DOMAIN B[b].succ = 1..n /\ 1 \in Int /\ n \in Int BY GraphBlocks
  <2>2. IsFiniteSet(DOMAIN B[b].succ)
    <3> HIDE DEF n
    <3> QED BY <2>1, FS_Interval
  <2>3. IsFiniteSet(K) BY <2>2, FS_Subset DEF References
  <2>4. IsFiniteSet({b} \X K)
    <3> HIDE DEF K
    <3> QED BY <2>3, FS_Singleton, FS_Product
  <2> QED BY <2>4
<1>5. IsFiniteSet(UNION T) BY <1>3, <1>4, FS_UNION
<1>6. ReferencesTo(B, C, t) = UNION T BY DEF ReferencesTo
<1> HIDE DEF T
<1> QED BY <1>5, <1>6, FS_CardinalityType, FS_EmptySet

\* Where a reference leads.
Edge(blocks, c) == blocks[c[1]].succ[c[2]]
IsEdge(blocks, c) == \E b \in DOMAIN blocks : \E k \in References(blocks, b) : c = <<b, k>>

\* One reference is redirected.
Redirected(B, c, t) == [B EXCEPT ![c[1]].succ[c[2]] = t]

LEMMA RedirectedBlocks ==
  ASSUME NEW B, IsGraph(B), NEW c, IsEdge(B, c), NEW t \in DOMAIN B
  PROVE  LET B2 == Redirected(B, c, t)
         IN /\ IsGraph(B2) /\ DOMAIN B2 = DOMAIN B /\ Len(B2) = Len(B)
            /\ \A b \in DOMAIN B :
                 /\ B2[b].stmts = B[b].stmts /\ B2[b].op = B[b].op
                 /\ References(B2, b) = References(B, b)
                 /\ Len(B2[b].succ) = Len(B[b].succ)
                 /\ b # c[1] => B2[b] = B[b]
                 /\ \A k \in References(B, b) :
                      B2[b].succ[k] = IF <<b, k>> = c THEN t ELSE B[b].succ[k]
<1> DEFINE B2 == Redirected(B, c, t)
<1>0. PICK d \in DOMAIN B : \E k \in References(B, d) : c = <<d, k>> BY DEF IsEdge
<1>1. PICK j \in References(B, d) : c = <<d, j>> BY <1>0
<1>2. /\ c[1] = d /\ c[2] = j
      /\ B2 = [b \in DOMAIN B |-> IF b = d THEN [B[d] EXCEPT !.succ[j] = t] ELSE B[b]]
  BY <1>1 DEF Redirected
<1> HIDE DEF B2
<1>3. /\ B[d] \in BlockSet(Len(B)) /\ B[d].succ \in Seq(DOMAIN B) /\ j \in DOMAIN B[d].succ
      /\ DOMAIN B = 1..Len(B) /\ Len(B) \in Nat \ {0}
      /\ DOMAIN B[d].succ = 1..Len(B[d].succ)
  BY <1>1, GraphBlocks DEF References
<1>4. /\ [B[d].succ EXCEPT ![j] = t] \in Seq(DOMAIN B)
      /\ Len([B[d].succ EXCEPT ![j] = t]) = Len(B[d].succ)
      /\ DOMAIN [B[d].succ EXCEPT ![j] = t] = DOMAIN B[d].succ
      /\ \A k \in DOMAIN B[d].succ : [B[d].succ EXCEPT ![j] = t][k] = IF k = j THEN t ELSE B[d].succ[k]
  BY <1>3, ExceptSeq
<1>5. /\ [B[d] EXCEPT !.succ[j] = t] \in BlockSet(Len(B))
      /\ [B[d] EXCEPT !.succ[j] = t].succ = [B[d].succ EXCEPT ![j] = t]
      /\ [B[d] EXCEPT !.succ[j] = t].stmts = B[d].stmts
      /\ [B[d] EXCEPT !.succ[j] = t].op = B[d].op
  BY <1>3, <1>4 DEF BlockSet
<1>6. B2 \in [1..Len(B) -> BlockSet(Len(B))] /\ DOMAIN B2 = DOMAIN B
  BY <1>2, <1>3, <1>5, GraphBlocks
<1>7. B2 \in Seq(BlockSet(Len(B))) /\ Len(B2) = Len(B)
  BY <1>3, <1>6
<1>8. \A b \in DOMAIN B :
        /\ B2[b].stmts = B[b].stmts /\ B2[b].op = B[b].op
        /\ DOMAIN B2[b].succ = DOMAIN B[b].succ /\ Len(B2[b].succ) = Len(B[b].succ)
        /\ b # d => B2[b] = B[b]
        /\ \A k \in DOMAIN B[b].succ : B2[b].succ[k] = IF b = d /\ k = j THEN t ELSE B[b].succ[k]
  BY <1>2, <1>4, <1>5
<1>9. IsGraph(B2)
  BY <1>3, <1>6, <1>7, <1>8 DEF IsGraph
<1> QED BY <1>1, <1>2, <1>6, <1>7, <1>8, <1>9 DEF References, B2

\* Redirecting a reference from an empty jump to where that one leads.
LEMMA RedirectedSkips ==
  ASSUME NEW B, IsGraph(B), NEW c, IsEdge(B, c), NEW L \in DOMAIN B, NEW t \in DOMAIN B,
         EmptyJump(B, L), Edge(B, c) = L, c[1] # L, B[L].succ[1] = t
  PROVE  SkipsOver(B, Redirected(B, c, t), L, t)
<1> DEFINE B2 == Redirected(B, c, t)
<1>1. /\ DOMAIN B2 = DOMAIN B
      /\ \A b \in DOMAIN B :
           /\ B2[b].stmts = B[b].stmts /\ B2[b].op = B[b].op
           /\ References(B2, b) = References(B, b)
           /\ b # c[1] => B2[b] = B[b]
           /\ \A k \in References(B, b) : B2[b].succ[k] = IF <<b, k>> = c THEN t ELSE B[b].succ[k]
  BY RedirectedBlocks
<1> HIDE DEF B2
<1>2. DOMAIN B[L].succ = {1}
  <2>1. Len(B[L].succ) = 1 BY DEF IsGraph, EmptyJump
  <2>2. DOMAIN B[L].succ = 1..Len(B[L].succ) BY GraphBlocks
  <2> QED BY <2>1, <2>2
<1>3. B2[L] = B[L] /\ ToSet(B[L].succ) = {t} BY <1>1, <1>2 DEF ToSet
<1>4. \A b \in DOMAIN B : Visible(B2, b) = Visible(B, b) BY <1>1 DEF Visible
<1>5. ~Visible(B, L) BY DEF Visible, EmptyJump
<1>6. ASSUME NEW b \in DOMAIN B PROVE Skips(ToSet(B[b].succ), ToSet(B2[b].succ), L, t)
  <2>1. /\ DOMAIN B2[b].succ = DOMAIN B[b].succ
        /\ \A k \in DOMAIN B[b].succ : B2[b].succ[k] = IF <<b, k>> = c THEN t ELSE B[b].succ[k]
        /\ \A k \in DOMAIN B[b].succ : <<b, k>> = c => B[b].succ[k] = L
    BY <1>1 DEF References, Edge
  <2> DEFINE A == ToSet(B[b].succ)
             A2 == ToSet(B2[b].succ)
  <2>2. ASSUME NEW x \in A2 PROVE x \in A \/ (x = t /\ L \in A)
    <3>1. PICK k \in DOMAIN B[b].succ : x = B2[b].succ[k] BY <2>1, <2>2 DEF ToSet
    <3> QED BY <2>1, <3>1 DEF ToSet
  <2>3. ASSUME NEW x \in A, x \notin A2 PROVE x = L /\ t \in A2
    <3>1. PICK k \in DOMAIN B[b].succ : x = B[b].succ[k] BY <2>3 DEF ToSet
    <3>2. <<b, k>> = c BY <2>1, <2>3, <3>1 DEF ToSet
    <3> QED BY <2>1, <3>1, <3>2 DEF ToSet
  <2> HIDE DEF A, A2
  <2>4. Skips(A, A2, L, t) BY <2>2, <2>3 DEF Skips
  <2> QED BY <2>4 DEF A, A2
<1>7. SkipsOver(B, B2, L, t) BY <1>1, <1>3, <1>4, <1>5, <1>6 DEF SkipsOver
<1> QED BY <1>7 DEF B2

(***************************************************************************)
(* The references that are counted.                                        *)
(***************************************************************************)
\* count is what the references from the blocks of C, and the call of the
\* function itself, come to.
Entry(b) == IF b = START_BLOCK THEN 1 ELSE 0
IsCount(count, B, C) ==
  \A b \in DOMAIN B : count[b] = Entry(b) + Cardinality(ReferencesTo(B, C, b))

\* A block that a counted one refers to is counted.
LEMMA ReferredCounts ==
  ASSUME NEW B, IsGraph(B), NEW C \in SUBSET DOMAIN B, NEW count, IsCount(count, B, C),
         NEW c, IsEdge(B, c), c[1] \in C
  PROVE  count[Edge(B, c)] \in Nat \ {0} /\ Edge(B, c) \in DOMAIN B
<1>1. PICK b \in DOMAIN B : \E k \in References(B, b) : c = <<b, k>> BY DEF IsEdge
<1>2. PICK k \in References(B, b) : c = <<b, k>> BY <1>1
<1> DEFINE t == B[b].succ[k]
<1>3. Edge(B, c) = t /\ b \in C /\ t \in DOMAIN B BY <1>2, GraphBlocks DEF Edge, References
<1>4. <<b, k>> \in ReferencesTo(B, C, t) BY <1>2, <1>3, RefersTo
<1> HIDE DEF t
<1>5. /\ Cardinality(ReferencesTo(B, C, t)) \in Nat
      /\ Cardinality(ReferencesTo(B, C, t)) # 0
  BY <1>4, FiniteReferences
<1>6. count[t] = Entry(t) + Cardinality(ReferencesTo(B, C, t)) BY <1>3 DEF IsCount
<1> QED BY <1>3, <1>5, <1>6 DEF Entry

\* If two counted references lead to a block, or it is the start block, it
\* counts two at least.
LEMMA TwoReferences ==
  ASSUME NEW B, IsGraph(B), NEW C \in SUBSET DOMAIN B, NEW count, IsCount(count, B, C),
         NEW c, IsEdge(B, c), c[1] \in C,
         \/ Edge(B, c) = START_BLOCK
         \/ \E d : IsEdge(B, d) /\ d[1] \in C /\ d # c /\ Edge(B, d) = Edge(B, c)
  PROVE  count[Edge(B, c)] # 1
<1> DEFINE t == Edge(B, c)
           R == ReferencesTo(B, C, t)
<1>1. ASSUME NEW d, IsEdge(B, d), d[1] \in C, Edge(B, d) = t PROVE d \in R
  <2>1. PICK b \in DOMAIN B : \E k \in References(B, b) : d = <<b, k>> BY <1>1 DEF IsEdge
  <2> QED BY <1>1, <2>1, RefersTo DEF Edge
<1>2. c \in R BY <1>1
<1>3. t \in DOMAIN B BY ReferredCounts
<1>4. count[t] = Entry(t) + Cardinality(R) BY <1>3 DEF IsCount
<1>5. IsFiniteSet(R) /\ Cardinality(R) \in Nat /\ Cardinality(R) # 0 BY <1>2, FiniteReferences
<1>6. CASE t = START_BLOCK BY <1>4, <1>5, <1>6 DEF Entry
<1>7. CASE t # START_BLOCK
  <2>1. PICK d : d \in R /\ d # c BY <1>1, <1>7
  <2> HIDE DEF R, t
  <2>2. Cardinality(R) # 1 BY <1>2, <1>5, <2>1, FS_Singleton
  <2>3. count[t] # 1 BY <1>4, <1>5, <1>7, <2>2 DEF Entry
  <2> QED BY <2>3 DEF t
<1> QED BY <1>6, <1>7

\* The blocks whose references are counted, of the blocks P that are found at
\* first, and what the counts come to.
Alive(P, count, B) == {b \in P : count[b] # 0 \/ B[b].stmts}
Counting(P, count, B) ==
  /\ P \subseteq DOMAIN B
  /\ count \in [DOMAIN B -> Nat]
  /\ IsCount(count, B, Alive(P, count, B))
  /\ \A b \in DOMAIN B : count[b] # 0 => b \in P

Moved(count, L, t) ==
  IF count[L] = 1 THEN [count EXCEPT ![L] = 0]
  ELSE LET more == [count EXCEPT ![t] = @ + 1] IN [more EXCEPT ![L] = @ - 1]

\* How the references change: to t there is one more, to L one less.
LEMMA RedirectedReferences ==
  ASSUME NEW B, IsGraph(B), NEW c, IsEdge(B, c), NEW t \in DOMAIN B, Edge(B, c) # t,
         NEW C \in SUBSET DOMAIN B, c[1] \in C
  PROVE  LET B2 == Redirected(B, c, t)
         IN /\ ReferencesTo(B2, C, t) = ReferencesTo(B, C, t) \union {c}
            /\ ReferencesTo(B2, C, Edge(B, c)) = ReferencesTo(B, C, Edge(B, c)) \ {c}
            /\ c \notin ReferencesTo(B, C, t) /\ c \in ReferencesTo(B, C, Edge(B, c))
            /\ \A b \in DOMAIN B : b # t /\ b # Edge(B, c) =>
                 ReferencesTo(B2, C, b) = ReferencesTo(B, C, b)
<1> DEFINE B2 == Redirected(B, c, t)
           L == Edge(B, c)
<1>0. PICK d \in DOMAIN B : \E j \in References(B, d) : c = <<d, j>> BY DEF IsEdge
<1>1. PICK j \in References(B, d) : c = <<d, j>> BY <1>0
<1>2. L = B[d].succ[j] /\ d \in C /\ L # t BY <1>1 DEF Edge
<1>3. \A b \in DOMAIN B :
        /\ References(B2, b) = References(B, b)
        /\ \A k \in References(B, b) : B2[b].succ[k] = IF <<b, k>> = c THEN t ELSE B[b].succ[k]
  BY RedirectedBlocks
<1> HIDE DEF B2, L
<1>4. ASSUME NEW x, NEW b \in C, NEW k \in References(B, b)
      PROVE  /\ <<b, k>> \in ReferencesTo(B2, C, x) <=> B2[b].succ[k] = x
             /\ <<b, k>> \in ReferencesTo(B, C, x) <=> B[b].succ[k] = x
             /\ B2[b].succ[k] = IF <<b, k>> = c THEN t ELSE B[b].succ[k]
  <2>1. b \in DOMAIN B OBVIOUS
  <2> QED BY <1>3, <2>1, RefersTo
<1> DEFINE Pairs == UNION {{b} \X References(B, b) : b \in C}
<1>5. ASSUME NEW x
      PROVE  ReferencesTo(B2, C, x) \subseteq Pairs /\ ReferencesTo(B, C, x) \subseteq Pairs
  <2>1. \A b \in C : References(B2, b) = References(B, b) BY <1>3
  <2> QED BY <2>1 DEF ReferencesTo
<1>6. ASSUME NEW r \in Pairs, NEW x
      PROVE  /\ r # c => (r \in ReferencesTo(B2, C, x) <=> r \in ReferencesTo(B, C, x))
             /\ c \in Pairs
             /\ c \in ReferencesTo(B2, C, x) <=> x = t
             /\ c \in ReferencesTo(B, C, x) <=> x = L
  <2>0. PICK b \in C : r \in {b} \X References(B, b) OBVIOUS
  <2>1. PICK k \in References(B, b) : r = <<b, k>> BY <2>0
  <2>2. r # c => (r \in ReferencesTo(B2, C, x) <=> r \in ReferencesTo(B, C, x))
    BY <1>4, <2>1
  <2>3. c \in Pairs BY <1>1, <1>2
  <2>4. c \in ReferencesTo(B2, C, x) <=> x = t BY <1>1, <1>2, <1>4
  <2>5. c \in ReferencesTo(B, C, x) <=> x = L BY <1>1, <1>2, <1>4
  <2> QED BY <2>2, <2>3, <2>4, <2>5
<1>7. c \in Pairs BY <1>1, <1>2
<1> HIDE DEF Pairs
<1>8. /\ ReferencesTo(B2, C, t) = ReferencesTo(B, C, t) \union {c}
      /\ ReferencesTo(B2, C, L) = ReferencesTo(B, C, L) \ {c}
      /\ c \notin ReferencesTo(B, C, t) /\ c \in ReferencesTo(B, C, L)
  BY <1>2, <1>5, <1>6, <1>7
<1>9. \A b \in DOMAIN B : b # t /\ b # L => ReferencesTo(B2, C, b) = ReferencesTo(B, C, b)
  BY <1>5, <1>6, <1>7
<1> QED BY <1>8, <1>9 DEF B2, L

LEMMA RedirectedSame ==
  ASSUME NEW B, IsGraph(B), NEW c, IsEdge(B, c)
  PROVE  Redirected(B, c, Edge(B, c)) = B
<1>0. PICK d \in DOMAIN B : \E j \in References(B, d) : c = <<d, j>> BY DEF IsEdge
<1>1. PICK j \in References(B, d) : c = <<d, j>> BY <1>0
<1>2. Redirected(B, c, Edge(B, c)) = [B EXCEPT ![d].succ[j] = B[d].succ[j]]
  BY <1>1 DEF Redirected, Edge
<1>3. B[d] \in BlockSet(Len(B)) /\ B[d].succ \in Seq(DOMAIN B) /\ j \in DOMAIN B[d].succ
      /\ B \in [DOMAIN B -> BlockSet(Len(B))]
  BY GraphBlocks DEF References, IsGraph
<1>4. [B[d].succ EXCEPT ![j] = B[d].succ[j]] = B[d].succ BY <1>3
<1>5. [B[d] EXCEPT !.succ = B[d].succ] = B[d] BY <1>3 DEF BlockSet
<1>6. [B EXCEPT ![d].succ[j] = B[d].succ[j]] = B BY <1>3, <1>4, <1>5
<1> QED BY <1>2, <1>6

\* A call of collapse_goto_chain that returns keeps the counts exact, and only
\* the block that is skipped can come to count nothing.
LEMMA MovedCounts ==
  ASSUME NEW B, IsGraph(B), NEW P, NEW count, Counting(P, count, B),
         NEW c, IsEdge(B, c), c[1] \in Alive(P, count, B), NEW L, L = Edge(B, c), L # c[1],
         EmptyJump(B, L), NEW t, t = B[L].succ[1]
  PROVE  LET B2 == Redirected(B, c, t)
             count2 == Moved(count, L, t)
         IN /\ Counting(P, count2, B2)
            /\ \A b \in DOMAIN B : count[b] # 0 /\ count2[b] = 0 => b = L
            /\ count2[t] # 0
            /\ t \in DOMAIN B
            /\ t = L => count2 = count /\ B2 = B
<1> DEFINE C == Alive(P, count, B)
           B2 == Redirected(B, c, t)
           count2 == Moved(count, L, t)
           e == <<L, 1>>
<1>1. /\ C \in SUBSET DOMAIN B /\ count \in [DOMAIN B -> Nat] /\ IsCount(count, B, C)
      /\ c[1] \in C
      /\ \A b \in DOMAIN B : count[b] # 0 => b \in C
  BY DEF Counting, Alive
<1>2. L \in DOMAIN B /\ count[L] \in Nat \ {0} BY <1>1, ReferredCounts
<1>3. DOMAIN B[L].succ = {1} /\ References(B, L) = {1}
  <2>1. Len(B[L].succ) = 1 BY <1>2 DEF IsGraph, EmptyJump
  <2>2. DOMAIN B[L].succ = 1..Len(B[L].succ) BY <1>2, GraphBlocks
  <2> QED BY <2>1, <2>2 DEF References
<1>4. IsEdge(B, e) /\ e[1] = L /\ Edge(B, e) = t /\ e # c
  BY <1>2, <1>3 DEF IsEdge, Edge
<1>5. L \in C /\ t \in DOMAIN B /\ count[t] \in Nat \ {0} /\ t \in C
  <2>1. L \in C BY <1>1, <1>2
  <2>2. count[t] \in Nat \ {0} /\ t \in DOMAIN B
    <3> HIDE DEF e, C
    <3> QED BY <1>1, <1>4, <2>1, ReferredCounts
  <2> QED BY <1>1, <2>1, <2>2
<1>6. L = START_BLOCK => count[L] # 1
  <2> HIDE DEF C
  <2> QED BY <1>1, TwoReferences
<1>7. t = L => count[L] # 1
  <2> HIDE DEF C, e
  <2> QED BY <1>1, <1>4, <1>5, TwoReferences
<1>8. /\ IsGraph(B2) /\ DOMAIN B2 = DOMAIN B
      /\ \A b \in DOMAIN B : B2[b].stmts = B[b].stmts
  BY <1>5, RedirectedBlocks
<1>9. P \subseteq DOMAIN B /\ \A b \in DOMAIN B : count[b] # 0 => b \in P BY DEF Counting
<1>10. ~B[L].stmts BY DEF EmptyJump
<1>11. CASE t = L
  <2>1. B2 = B BY <1>11, RedirectedSame
  <2>2. count2 = count
    <3>1. count[L] # 1 BY <1>7, <1>11
    <3>2. count2 = [[count EXCEPT ![L] = @ + 1] EXCEPT ![L] = @ - 1] BY <1>11, <3>1 DEF Moved
    <3> HIDE DEF count2
    <3> QED BY <1>1, <1>2, <3>2
  <2> QED BY <1>5, <1>11, <2>1, <2>2
<1>12. CASE t # L
  <2>0. \A b \in DOMAIN B : count[b] = Entry(b) + Cardinality(ReferencesTo(B, C, b))
    BY <1>1 DEF IsCount
  <2>1. /\ ReferencesTo(B2, C, t) = ReferencesTo(B, C, t) \union {c}
        /\ ReferencesTo(B2, C, L) = ReferencesTo(B, C, L) \ {c}
        /\ c \notin ReferencesTo(B, C, t) /\ c \in ReferencesTo(B, C, L)
        /\ \A b \in DOMAIN B : b # t /\ b # L => ReferencesTo(B2, C, b) = ReferencesTo(B, C, b)
    <3> HIDE DEF C
    <3> QED BY <1>1, <1>5, <1>12, RedirectedReferences
  <2>2. \A b : IsFiniteSet(ReferencesTo(B, C, b)) /\ Cardinality(ReferencesTo(B, C, b)) \in Nat
    <3> HIDE DEF C
    <3> QED BY <1>1, FiniteReferences
  <2>3. CASE count[L] = 1
    <3>1. count2 = [count EXCEPT ![L] = 0] BY <2>3 DEF Moved
    <3> DEFINE C2 == C \ {L}
    <3>2. Alive(P, count2, B2) = C2
      <4>1. \A b \in DOMAIN B : b # L => count2[b] = count[b] BY <1>1, <3>1
      <4>2. count2[L] = 0 BY <1>1, <1>2, <3>1
      <4>3. ~B2[L].stmts BY <1>2, <1>8, <1>10
      <4> HIDE DEF count2, B2
      <4> QED BY <1>8, <1>9, <4>1, <4>2, <4>3 DEF Alive
    <3>3. ASSUME NEW b \in DOMAIN B
          PROVE  ReferencesTo(B2, C2, b) = ReferencesTo(B2, C, b) \ (IF b = t THEN {e} ELSE {})
      <4>1. c[1] # L OBVIOUS
      <4>2. References(B2, L) = {1} /\ B2[L].succ[1] = t
        <5>1. B2[L] = B[L] BY <1>2, <1>5, RedirectedBlocks
        <5> QED BY <1>3, <5>1 DEF References
      <4> HIDE DEF B2, C
      <4>3. \A r : r \in ReferencesTo(B2, C2, b) <=>
                     r \in ReferencesTo(B2, C, b) /\ ~(r = e /\ b = t)
        BY <4>2, RefersTo
      <4> QED BY <4>3
    <3>4. e \in ReferencesTo(B, C, t)
      <4> HIDE DEF C
      <4> QED BY <1>3, <1>5, RefersTo
    <3>5. ASSUME NEW b \in DOMAIN B
          PROVE  count2[b] = Entry(b) + Cardinality(ReferencesTo(B2, C2, b))
      <4>1. CASE b = L
        <5>0. Entry(L) = 0 /\ count[L] = Entry(L) + Cardinality(ReferencesTo(B, C, L))
          BY <1>2, <1>6, <2>0, <2>3 DEF Entry
        <5>1. Cardinality(ReferencesTo(B, C, L)) = 1
          <6> HIDE DEF C
          <6> QED BY <2>2, <2>3, <5>0
        <5>2. ReferencesTo(B, C, L) = {c}
          <6> HIDE DEF C
          <6>1. \E x : ReferencesTo(B, C, L) = {x} BY <2>2, <5>1, FS_Singleton
          <6> QED BY <2>1, <6>1
        <5>3. ReferencesTo(B2, C2, L) = {} BY <1>2, <1>12, <2>1, <3>3, <5>2
        <5>4. count2[b] = 0 /\ Entry(b) = 0 BY <1>1, <1>2, <1>6, <2>3, <3>1, <4>1 DEF Entry
        <5> HIDE DEF count2, B2, C2
        <5> QED BY <4>1, <5>3, <5>4, FS_EmptySet
      <4>2. CASE b = t
        <5> DEFINE R == ReferencesTo(B, C, t)
        <5>1. ReferencesTo(B2, C2, t) = (R \union {c}) \ {e} BY <1>5, <2>1, <3>3
        <5>2. IsFiniteSet(R) /\ Cardinality(R) \in Nat /\ e \in R /\ c \notin R
          BY <2>1, <2>2, <3>4
        <5> HIDE DEF R
        <5>3. /\ IsFiniteSet(R \union {c})
              /\ Cardinality(R \union {c}) = Cardinality(R) + 1
          BY <5>2, FS_AddElement
        <5>4. Cardinality((R \union {c}) \ {e}) = Cardinality(R \union {c}) - 1
          BY <5>2, <5>3, FS_RemoveElement
        <5>5. Cardinality((R \union {c}) \ {e}) = Cardinality(R) BY <5>2, <5>3, <5>4
        <5>6. count2[b] = count[b] BY <1>1, <1>5, <1>12, <3>1, <4>2
        <5>7. count[t] = Entry(t) + Cardinality(R) BY <1>5, <2>0 DEF R
        <5> HIDE DEF count2, B2, C2
        <5> QED BY <4>2, <5>1, <5>5, <5>6, <5>7
      <4>3. CASE b # L /\ b # t
        <5>0. /\ ReferencesTo(B2, C2, b) = ReferencesTo(B2, C, b) \ (IF b = t THEN {e} ELSE {})
              /\ ReferencesTo(B2, C, b) = ReferencesTo(B, C, b)
          BY <2>1, <3>3, <4>3, Zenon
        <5>1. ReferencesTo(B2, C2, b) = ReferencesTo(B, C, b)
          <6> HIDE DEF B2, C2, C, e
          <6> QED BY <4>3, <5>0
        <5>2. count2[b] = count[b] BY <1>1, <3>1, <4>3
        <5> HIDE DEF count2, B2, C2, C
        <5> QED BY <2>0, <5>1, <5>2
      <4> QED BY <4>1, <4>2, <4>3
    <3>6. count2 \in [DOMAIN B -> Nat]
      <4> HIDE DEF count2
      <4> QED BY <1>1, <3>1
    <3>7. /\ \A b \in DOMAIN B : count2[b] # 0 => b \in P
          /\ \A b \in DOMAIN B : count[b] # 0 /\ count2[b] = 0 => b = L
          /\ count2[t] # 0
      BY <1>1, <1>5, <1>9, <1>12, <3>1
    <3>8. Counting(P, count2, B2)
      <4> HIDE DEF count2, B2, C2, C
      <4> QED BY <1>8, <1>9, <3>2, <3>5, <3>6, <3>7 DEF Counting, IsCount
    <3> QED BY <1>5, <1>12, <3>7, <3>8
  <2>4. CASE count[L] # 1
    <3>0. count2 = [[count EXCEPT ![t] = @ + 1] EXCEPT ![L] = @ - 1] BY <2>4 DEF Moved
    <3>1. /\ count2[t] = count[t] + 1 /\ count2[L] = count[L] - 1
          /\ \A b \in DOMAIN B : b # t /\ b # L => count2[b] = count[b]
          /\ count2 \in [DOMAIN B -> Nat]
          /\ count2[L] # 0
      <4> HIDE DEF count2
      <4> QED BY <1>1, <1>2, <1>5, <1>12, <2>4, <3>0
    <3> HIDE DEF count2
    <3>2. \A b \in DOMAIN B : count2[b] = 0 <=> count[b] = 0 BY <1>1, <1>2, <1>5, <3>1
    <3>3. Alive(P, count2, B2) = C
      <4> HIDE DEF B2
      <4> QED BY <1>8, <1>9, <3>2 DEF Alive
    <3>4. ASSUME NEW b \in DOMAIN B
          PROVE  count2[b] = Entry(b) + Cardinality(ReferencesTo(B2, C, b))
      <4> HIDE DEF B2, C
      <4>1. CASE b = L
        <5>1. Cardinality(ReferencesTo(B, C, L) \ {c}) = Cardinality(ReferencesTo(B, C, L)) - 1
          BY <2>1, <2>2, FS_RemoveElement
        <5> QED BY <1>2, <2>0, <2>1, <2>2, <3>1, <4>1, <5>1 DEF Entry
      <4>2. CASE b = t
        <5>1. Cardinality(ReferencesTo(B, C, t) \union {c}) = Cardinality(ReferencesTo(B, C, t)) + 1
          BY <2>1, <2>2, FS_AddElement
        <5>2. count[t] = Entry(t) + Cardinality(ReferencesTo(B, C, t)) /\ Entry(t) \in Nat
          BY <1>5, <2>0 DEF Entry
        <5> DEFINE n == Cardinality(ReferencesTo(B, C, t))
        <5>3. Cardinality(ReferencesTo(B2, C, t)) = n + 1 /\ n \in Nat BY <2>1, <2>2, <5>1
        <5>4. count2[t] = (Entry(t) + n) + 1 BY <3>1, <5>2
        <5> HIDE DEF n
        <5>5. count2[t] = Entry(t) + (n + 1) BY <5>2, <5>3, <5>4
        <5> QED BY <4>2, <5>3, <5>5
      <4>3. CASE b # L /\ b # t BY <2>0, <2>1, <3>1, <4>3
      <4> QED BY <4>1, <4>2, <4>3
    <3>5. Counting(P, count2, B2)
      <4> HIDE DEF B2, C
      <4> QED BY <1>8, <1>9, <3>1, <3>2, <3>3, <3>4 DEF Counting, IsCount
    <3>6. /\ \A b \in DOMAIN B : count[b] # 0 /\ count2[b] = 0 => b = L
          /\ count2[t] # 0
      BY <1>5, <3>2
    <3> QED BY <1>5, <1>12, <3>5, <3>6 DEF count2
  <2> QED BY <2>3, <2>4
<1> QED BY <1>11, <1>12

(***************************************************************************)
(* A branch with equal targets becomes a jump.                             *)
(***************************************************************************)
Merged(B, b) == [B EXCEPT ![b].op = "Goto", ![b].succ = <<B[b].succ[1]>>]

LEMMA MergedBlocks ==
  ASSUME NEW B, IsGraph(B), NEW b \in DOMAIN B, SameTargets(B[b].op, B[b].succ)
  PROVE  LET B2 == Merged(B, b)
         IN /\ IsGraph(B2) /\ DOMAIN B2 = DOMAIN B /\ Len(B2) = Len(B)
            /\ \A x \in DOMAIN B :
                 /\ B2[x].stmts = B[x].stmts
                 /\ Visible(B2, x) = Visible(B, x)
                 /\ ToSet(B2[x].succ) = ToSet(B[x].succ)
                 /\ x # b => B2[x] = B[x]
            /\ References(B2, b) = {1} /\ B2[b].succ[1] = B[b].succ[1]
            /\ \A k \in References(B, b) : B[b].succ[k] = B[b].succ[1]
            /\ Len(B[b].succ) \in Nat \ {0} /\ References(B, b) = 1..Len(B[b].succ)
            /\ B[b].succ[1] \in DOMAIN B
<1> DEFINE B2 == Merged(B, b)
           t == B[b].succ[1]
           n == Len(B[b].succ)
           new == [B[b] EXCEPT !.op = "Goto", !.succ = <<t>>]
<1>1. /\ B[b] \in BlockSet(Len(B)) /\ B[b].succ \in Seq(DOMAIN B)
      /\ DOMAIN B = 1..Len(B) /\ Len(B) \in Nat \ {0}
      /\ DOMAIN B[b].succ = 1..n /\ n \in Nat
  BY GraphBlocks
<1>2. /\ B[b].op \in {"If", "Match"} /\ B[b].succ # << >>
      /\ \A k \in DOMAIN B[b].succ : B[b].succ[k] = t
  BY DEF SameTargets
<1>3. n # 0 /\ t \in DOMAIN B
  <2>1. n # 0 BY <1>1, <1>2
  <2> QED BY <1>1, <2>1
<1>4. B2 = [x \in DOMAIN B |-> IF x = b THEN new ELSE B[x]]
  BY DEF Merged
<1>5. /\ new \in BlockSet(Len(B)) /\ new.op = "Goto" /\ new.succ = <<t>> /\ new.stmts = B[b].stmts
  <2> HIDE DEF t
  <2>1. <<t>> \in Seq(1..Len(B)) BY <1>1, <1>3
  <2>2. "Goto" \in TermOps BY DEF TermOps
  <2> QED BY <1>1, <2>1, <2>2 DEF BlockSet
<1> HIDE DEF B2, new
<1>6. DOMAIN B2 = DOMAIN B /\ B2 \in [1..Len(B) -> BlockSet(Len(B))]
  BY <1>1, <1>4, <1>5, GraphBlocks
<1>7. B2 \in Seq(BlockSet(Len(B))) /\ Len(B2) = Len(B) BY <1>1, <1>6
<1>8. /\ B2[b].op = "Goto" /\ B2[b].succ = <<t>> /\ B2[b].stmts = B[b].stmts
      /\ \A x \in DOMAIN B : x # b => B2[x] = B[x]
  BY <1>4, <1>5
<1>9. IsGraph(B2)
  <2>1. \A x \in DOMAIN B : B2[x].op = "Goto" => Len(B2[x].succ) = 1
    <3>1. Len(<<t>>) = 1 OBVIOUS
    <3>2. \A x \in DOMAIN B : B[x].op = "Goto" => Len(B[x].succ) = 1 BY DEF IsGraph
    <3> HIDE DEF t
    <3> QED BY <1>8, <3>1, <3>2
  <2> QED BY <1>1, <1>6, <1>7, <2>1 DEF IsGraph
<1>10. ToSet(B2[b].succ) = ToSet(B[b].succ)
  <2>1. ToSet(<<t>>) = {t} BY DEF ToSet
  <2>2. ToSet(B[b].succ) = {t} BY <1>1, <1>2, <1>3 DEF ToSet
  <2> QED BY <1>8, <2>1, <2>2
<1>11. Visible(B2, b) = Visible(B, b) BY <1>2, <1>8 DEF Visible
<1>12. \A x \in DOMAIN B :
         /\ B2[x].stmts = B[x].stmts
         /\ Visible(B2, x) = Visible(B, x)
         /\ ToSet(B2[x].succ) = ToSet(B[x].succ)
  BY <1>8, <1>10, <1>11 DEF Visible
<1>13. References(B2, b) = {1} /\ B2[b].succ[1] = t BY <1>8 DEF References
<1> HIDE DEF t, n
<1> QED BY <1>1, <1>2, <1>3, <1>6, <1>7, <1>8, <1>9, <1>12, <1>13 DEF References, B2, t, n

LEMMA MergedCounts ==
  ASSUME NEW B, IsGraph(B), NEW P, NEW count, Counting(P, count, B),
         NEW b, b \in Alive(P, count, B), SameTargets(B[b].op, B[b].succ)
  PROVE  LET t == B[b].succ[1]
             count2 == [count EXCEPT ![t] = @ - (Len(B[b].succ) - 1)]
         IN /\ Counting(P, count2, Merged(B, b))
            /\ t \in DOMAIN B
            /\ \A x \in DOMAIN B : count2[x] = 0 <=> count[x] = 0
<1> DEFINE C == Alive(P, count, B)
           B2 == Merged(B, b)
           t == B[b].succ[1]
           n == Len(B[b].succ)
           count2 == [count EXCEPT ![t] = @ - (n - 1)]
           R == ReferencesTo(B, C, t)
           Q == {b} \X (2..n)
<1>1. /\ C \in SUBSET DOMAIN B /\ count \in [DOMAIN B -> Nat] /\ IsCount(count, B, C)
      /\ P \subseteq DOMAIN B /\ \A x \in DOMAIN B : count[x] # 0 => x \in P
      /\ b \in C /\ b \in DOMAIN B
  BY DEF Counting, Alive
<1>2. /\ DOMAIN B2 = DOMAIN B
      /\ \A x \in DOMAIN B : B2[x].stmts = B[x].stmts /\ (x # b => B2[x] = B[x])
      /\ References(B2, b) = {1} /\ B2[b].succ[1] = t
      /\ \A k \in References(B, b) : B[b].succ[k] = t
      /\ n \in Nat \ {0} /\ References(B, b) = 1..n
      /\ t \in DOMAIN B
  BY <1>1, MergedBlocks
<1> HIDE DEF C, B2, t, n
<1>3. \A r : r \in Q <=> \E k \in 2..n : r = <<b, k>> OBVIOUS
<1>4. Q \subseteq R
  <2>1. \A k \in 2..n : <<b, k>> \in R BY <1>1, <1>2, RefersTo
  <2> QED BY <1>3, <2>1
<1>5. <<b, 1>> \in R /\ <<b, 1>> \notin Q BY <1>1, <1>2, <1>3, RefersTo
<1>6. ASSUME NEW x PROVE ReferencesTo(B2, C, x) = ReferencesTo(B, C, x) \ (IF x = t THEN Q ELSE {})
  <2>1. ASSUME NEW y \in C, y # b, NEW k
        PROVE  <<y, k>> \in ReferencesTo(B2, C, x) <=> <<y, k>> \in ReferencesTo(B, C, x)
    <3>1. B2[y] = B[y] BY <1>1, <1>2, <2>1
    <3> QED BY <3>1, RefersTo DEF References
  <2>2. ASSUME NEW k
        PROVE  <<b, k>> \in ReferencesTo(B2, C, x) <=>
                 <<b, k>> \in ReferencesTo(B, C, x) /\ ~(x = t /\ k \in 2..n)
    BY <1>1, <1>2, RefersTo
  <2>3. ASSUME NEW y \in C, NEW k
        PROVE  <<y, k>> \in ReferencesTo(B2, C, x) <=>
                 <<y, k>> \in ReferencesTo(B, C, x) /\ <<y, k>> \notin (IF x = t THEN Q ELSE {})
    <3>1. <<y, k>> \in Q <=> y = b /\ k \in 2..n BY <1>3
    <3> HIDE DEF Q
    <3> QED BY <2>1, <2>2, <3>1
  <2>4. \A r : r \in ReferencesTo(B2, C, x) => \E y \in C : \E k : r = <<y, k>> BY RefersTo
  <2>5. \A r : r \in ReferencesTo(B, C, x) => \E y \in C : \E k : r = <<y, k>> BY RefersTo
  <2> HIDE DEF Q
  <2> QED BY <2>3, <2>4, <2>5
<1>7. /\ IsFiniteSet(R) /\ Cardinality(R) \in Nat
      /\ Cardinality(R \ Q) = Cardinality(R) - (n - 1)
      /\ Cardinality(R \ Q) \in Nat \ {0}
  <2>1. IsFiniteSet(R) /\ Cardinality(R) \in Nat BY <1>1, FiniteReferences
  <2>2. IsFiniteSet(2..n) /\ Cardinality(2..n) = n - 1
    <3>1. 2 \in Int /\ n \in Int BY <1>2
    <3>2. IsFiniteSet(2..n) /\ Cardinality(2..n) = IF 2 > n THEN 0 ELSE n - 2 + 1
      BY <3>1, FS_Interval
    <3> QED BY <1>2, <3>2
  <2>3. Cardinality(Q) = 1 * (n - 1)
    <3>1. IsFiniteSet({b}) /\ Cardinality({b}) = 1 BY FS_Singleton
    <3>2. Cardinality({b} \X (2..n)) = Cardinality({b}) * Cardinality(2..n)
      BY <2>2, <3>1, FS_Product, Zenon
    <3> QED BY <2>2, <3>1, <3>2
  <2>4. Q \cap R = Q /\ R \cap Q = Q BY <1>4
  <2> HIDE DEF Q, R
  <2>5. IsFiniteSet(R \ Q) /\ Cardinality(R \ Q) = Cardinality(R) - Cardinality(R \cap Q)
    BY <2>1, FS_Difference
  <2>6. Cardinality(R \ Q) \in Nat BY <2>5, FS_CardinalityType
  <2>7. R \ Q # {} BY <1>5
  <2>8. Cardinality(R \ Q) # 0 BY <2>5, <2>7, FS_EmptySet
  <2>9. Cardinality(Q) = n - 1 BY <1>2, <2>3
  <2> QED BY <2>1, <2>4, <2>5, <2>6, <2>8, <2>9
<1> HIDE DEF Q
<1>8. \A x \in DOMAIN B : count[x] = Entry(x) + Cardinality(ReferencesTo(B, C, x))
  BY <1>1 DEF IsCount
<1>9. /\ count2[t] = count[t] - (n - 1)
      /\ \A x \in DOMAIN B : x # t => count2[x] = count[x]
      /\ count2 \in [DOMAIN B -> Int]
  BY <1>1, <1>2
<1> HIDE DEF count2
<1>10. count2[t] = Entry(t) + Cardinality(R \ Q)
  <2>1. count[t] = Entry(t) + Cardinality(R) BY <1>2, <1>8
  <2>2. Entry(t) \in Nat BY DEF Entry
  <2> HIDE DEF R
  <2> QED BY <1>2, <1>7, <1>9, <2>1, <2>2
<1>11. count2[t] \in Nat \ {0} /\ count[t] # 0
  <2>1. Entry(t) \in Nat BY DEF Entry
  <2>2. count[t] = Entry(t) + Cardinality(R) BY <1>2, <1>8
  <2>3. Cardinality(R) # 0 BY <1>5, <1>7, FS_EmptySet
  <2> HIDE DEF R
  <2> QED BY <1>7, <1>10, <2>1, <2>2, <2>3
<1>12. \A x \in DOMAIN B : count2[x] = 0 <=> count[x] = 0 BY <1>9, <1>11
<1>13. count2 \in [DOMAIN B -> Nat] BY <1>1, <1>9, <1>11
<1>14. Alive(P, count2, B2) = C BY <1>1, <1>2, <1>12 DEF Alive, C
<1>15. ASSUME NEW x \in DOMAIN B PROVE count2[x] = Entry(x) + Cardinality(ReferencesTo(B2, C, x))
  <2>1. CASE x = t BY <1>6, <1>10, <2>1
  <2>2. CASE x # t BY <1>6, <1>8, <1>9, <2>2
  <2> QED BY <2>1, <2>2
<1>16. Counting(P, count2, B2)
  BY <1>1, <1>2, <1>12, <1>13, <1>14, <1>15 DEF Counting, IsCount
<1> QED BY <1>2, <1>12, <1>16 DEF count2, B2, t, n

(***************************************************************************)
(* The blocks that the counting starts from.                               *)
(***************************************************************************)
LEMMA Preorder ==
  ASSUME NEW B, IsGraph(B)
  PROVE  /\ preorder(B) \subseteq DOMAIN B
         /\ START_BLOCK \in preorder(B)
         /\ \A b \in DOMAIN B : B[b].stmts => b \in preorder(B)
         /\ \A b \in preorder(B) : \A k \in References(B, b) : B[b].succ[k] \in preorder(B)
<1> DEFINE roots == {START_BLOCK} \union {b \in DOMAIN B : B[b].stmts}
           e == Leads(B)
           P == Reached(e, roots)
<1>1. /\ IsFiniteSet(DOMAIN B) /\ e \in [DOMAIN B -> SUBSET DOMAIN B]
      /\ roots \in SUBSET DOMAIN B /\ preorder(B) = P
  BY GraphBlocks, GraphEdges DEF preorder, Indices
<1>2. roots \subseteq P /\ P \subseteq DOMAIN B /\ \A b \in P : e[b] \subseteq P
  <2> HIDE DEF e, roots
  <2> QED BY <1>1, ReachedClosed
<1>3. \A b \in P : \A k \in References(B, b) : B[b].succ[k] \in P
  <2> HIDE DEF P
  <2> QED BY <1>2 DEF Leads, References, ToSet
<1> QED BY <1>1, <1>2, <1>3

LEMMA FirstCounts ==
  ASSUME NEW B, IsGraph(B), NEW count,
         count = [b \in DOMAIN B |-> Entry(b) + Cardinality(ReferencesTo(B, preorder(B), b))]
  PROVE  Counting(preorder(B), count, B)
<1> DEFINE P == preorder(B)
           C == Alive(P, count, B)
           e == Leads(B)
           roots == {START_BLOCK} \union {b \in DOMAIN B : B[b].stmts}
<1>1. /\ P \in SUBSET DOMAIN B /\ START_BLOCK \in P
      /\ \A b \in DOMAIN B : B[b].stmts => b \in P
      /\ \A b \in P : \A k \in References(B, b) : B[b].succ[k] \in P
  BY Preorder
<1>2. \A b : Cardinality(ReferencesTo(B, P, b)) \in Nat BY <1>1, FiniteReferences
<1>3. count \in [DOMAIN B -> Nat] BY <1>2 DEF Entry
<1>4. IsCount(count, B, P) BY DEF IsCount
<1>5. P \subseteq C
  <2>1. /\ IsFiniteSet(DOMAIN B) /\ e \in [DOMAIN B -> SUBSET DOMAIN B]
        /\ roots \in SUBSET DOMAIN B /\ P = Reached(e, roots)
    BY GraphBlocks, GraphEdges DEF preorder, Indices
  <2>2. START_BLOCK \in C
    <3>1. count[START_BLOCK] = 1 + Cardinality(ReferencesTo(B, P, START_BLOCK))
      BY <1>1, <1>4 DEF IsCount, Entry
    <3> QED BY <1>1, <1>2, <3>1 DEF Alive
  <2>3. roots \subseteq C BY <1>1, <2>2 DEF Alive
  <2>4. ASSUME NEW b \in DOMAIN B, b \in C PROVE e[b] \subseteq C
    <3>1. ASSUME NEW k \in References(B, b) PROVE B[b].succ[k] \in C
      <4>1. b \in P BY <2>4 DEF Alive
      <4>2. IsEdge(B, <<b, k>>) /\ Edge(B, <<b, k>>) = B[b].succ[k] /\ <<b, k>>[1] = b
        BY DEF IsEdge, Edge
      <4>3. count[B[b].succ[k]] # 0
        <5> HIDE DEF P
        <5> QED BY <1>1, <1>4, <4>1, <4>2, ReferredCounts
      <4> QED BY <1>1, <4>1, <4>3 DEF Alive
    <3> HIDE DEF C
    <3> QED BY <3>1 DEF Leads, ToSet, References
  <2> HIDE DEF e, roots, C, P
  <2> QED BY <2>1, <2>3, <2>4, ReachedLeast
<1>6. C = P BY <1>5 DEF Alive
<1>7. ASSUME NEW b \in DOMAIN B, count[b] # 0 PROVE b \in P
  <2>1. CASE b = START_BLOCK BY <1>1, <2>1
  <2>2. CASE b # START_BLOCK
    <3>1. count[b] = 0 + Cardinality(ReferencesTo(B, P, b)) BY <2>2 DEF Entry
    <3>2. Cardinality(ReferencesTo(B, P, b)) # 0 BY <1>2, <1>7, <3>1
    <3>3. ReferencesTo(B, P, b) # {}
      <4> HIDE DEF P
      <4> QED BY <1>1, <3>2, FiniteReferences
    <3>4. \E x \in P : \E k \in References(B, x) : B[x].succ[k] = b
      <4> HIDE DEF P
      <4> QED BY <3>3, RefersTo
    <3> QED BY <1>1, <3>4
  <2> QED BY <2>1, <2>2
<1> QED BY <1>1, <1>3, <1>4, <1>6, <1>7 DEF Counting

\* What can be reached counts something.
LEMMA ReachableCounts ==
  ASSUME NEW B, IsGraph(B), NEW P, NEW count, Counting(P, count, B)
  PROVE  \A b \in From(B, {START_BLOCK}) : b \in DOMAIN B /\ count[b] # 0
<1> DEFINE C == Alive(P, count, B)
           Z == {b \in DOMAIN B : count[b] # 0}
           e == Leads(B)
<1>1. /\ C \in SUBSET DOMAIN B /\ IsCount(count, B, C) /\ P \subseteq DOMAIN B
      /\ \A b \in DOMAIN B : count[b] # 0 => b \in C
  BY DEF Counting, Alive
<1> HIDE DEF C
<1>2. /\ IsFiniteSet(DOMAIN B) /\ e \in [DOMAIN B -> SUBSET DOMAIN B]
      /\ {START_BLOCK} \in SUBSET DOMAIN B /\ From(B, {START_BLOCK}) = Reached(e, {START_BLOCK})
  BY GraphBlocks, GraphEdges
<1>3. {START_BLOCK} \subseteq Z
  <2>1. Cardinality(ReferencesTo(B, C, START_BLOCK)) \in Nat BY <1>1, FiniteReferences
  <2>2. count[START_BLOCK] = 1 + Cardinality(ReferencesTo(B, C, START_BLOCK))
    BY <1>1, <1>2 DEF IsCount, Entry
  <2> QED BY <1>2, <2>1, <2>2
<1>4. ASSUME NEW b \in DOMAIN B, b \in Z PROVE e[b] \subseteq Z
  <2>1. ASSUME NEW k \in References(B, b) PROVE B[b].succ[k] \in Z
    <3>1. IsEdge(B, <<b, k>>) /\ Edge(B, <<b, k>>) = B[b].succ[k] /\ <<b, k>>[1] = b
      BY DEF IsEdge, Edge
    <3> QED BY <1>1, <1>4, <3>1, ReferredCounts
  <2> HIDE DEF Z
  <2> QED BY <2>1 DEF Leads, ToSet, References
<1>5. From(B, {START_BLOCK}) \subseteq Z
  <2> HIDE DEF Z, e
  <2> QED BY <1>2, <1>3, <1>4, ReachedLeast
<1> QED BY <1>5

(***************************************************************************)
(* Graphs without anything left to simplify.                               *)
(***************************************************************************)
EdgeSimple(B, b, s) == EmptyJump(B, s) /\ s # b => B[s].succ = <<s>>
BlockSimple(B, b) ==
  /\ ~SameTargets(B[b].op, B[b].succ)
  /\ \A k \in References(B, b) : EdgeSimple(B, b, B[b].succ[k])
Simple(B) == \A b \in From(B, {START_BLOCK}) : BlockSimple(B, b)

LEMMA RenamedSequence ==
  ASSUME NEW D, NEW s \in Seq(D), NEW E, NEW f \in [D -> E],
         \A x \in D : \A y \in D : f[x] = f[y] => x = y,
         NEW t \in Seq(E), t = [k \in DOMAIN s |-> f[s[k]]]
  PROVE  /\ DOMAIN t = DOMAIN s
         /\ \A op : SameTargets(op, t) = SameTargets(op, s)
         /\ \A x \in D : t = <<f[x]>> <=> s = <<x>>
<1>1. DOMAIN t = DOMAIN s /\ \A k \in DOMAIN s : t[k] = f[s[k]] /\ s[k] \in D OBVIOUS
<1>2. DOMAIN s = 1..Len(s) /\ Len(s) \in Nat /\ DOMAIN t = 1..Len(t) /\ Len(t) \in Nat OBVIOUS
<1>3. Len(s) = Len(t) BY <1>1, <1>2
<1>4. s = << >> <=> t = << >> BY <1>2, <1>3
<1>5. ASSUME NEW op PROVE SameTargets(op, t) = SameTargets(op, s)
  <2>1. s # << >> => 1 \in DOMAIN s BY <1>2
  <2>2. s # << >> => ((\A k \in DOMAIN t : t[k] = t[1]) <=> (\A k \in DOMAIN s : s[k] = s[1]))
    BY <1>1, <2>1
  <2> QED BY <1>4, <2>2 DEF SameTargets
<1>6. ASSUME NEW x \in D PROVE t = <<f[x]>> <=> s = <<x>>
  <2>1. s = <<x>> <=> Len(s) = 1 /\ s[1] = x BY <1>2
  <2>2. t = <<f[x]>> <=> Len(t) = 1 /\ t[1] = f[x] BY <1>2
  <2>3. Len(s) = 1 => (t[1] = f[x] <=> s[1] = x) BY <1>1, <1>2
  <2> QED BY <1>3, <2>1, <2>2, <2>3
<1> QED BY <1>1, <1>5, <1>6

HasTargets(G) == \A b \in DOMAIN G : G[b].succ \in Seq(DOMAIN G)

LEMMA RenamedSimple ==
  ASSUME NEW G, NEW H, IsClosedGraph(G), IsClosedGraph(H), NEW f, Embeds(G, H, f),
         HasTargets(G), HasTargets(H),
         START_BLOCK \in DOMAIN G, f[START_BLOCK] = START_BLOCK
  PROVE  Simple(H) <=> Simple(G)
<1>1. /\ f \in [DOMAIN G -> DOMAIN H]
      /\ \A b \in DOMAIN G : \A c \in DOMAIN G : f[b] = f[c] => b = c
      /\ \A b \in DOMAIN G :
           /\ H[f[b]].stmts = G[b].stmts
           /\ H[f[b]].op = G[b].op
           /\ H[f[b]].succ = [k \in DOMAIN G[b].succ |-> f[G[b].succ[k]]]
           /\ \A k \in DOMAIN G[b].succ : G[b].succ[k] \in DOMAIN G
  BY DEF Embeds
<1>2. ASSUME NEW b \in DOMAIN G
      PROVE  /\ References(H, f[b]) = References(G, b)
             /\ SameTargets(H[f[b]].op, H[f[b]].succ) = SameTargets(G[b].op, G[b].succ)
             /\ \A x \in DOMAIN G : H[f[b]].succ = <<f[x]>> <=> G[b].succ = <<x>>
             /\ EmptyJump(H, f[b]) = EmptyJump(G, b)
             /\ f[b] \in DOMAIN H
  <2>1. /\ H[f[b]].succ = [k \in DOMAIN G[b].succ |-> f[G[b].succ[k]]]
        /\ G[b].succ \in Seq(DOMAIN G) /\ H[f[b]].succ \in Seq(DOMAIN H)
        /\ f[b] \in DOMAIN H
    BY <1>1 DEF HasTargets
  <2>2. /\ DOMAIN H[f[b]].succ = DOMAIN G[b].succ
        /\ \A op : SameTargets(op, H[f[b]].succ) = SameTargets(op, G[b].succ)
        /\ \A x \in DOMAIN G : H[f[b]].succ = <<f[x]>> <=> G[b].succ = <<x>>
    BY <1>1, <2>1, RenamedSequence
  <2>3. EmptyJump(H, f[b]) = EmptyJump(G, b) BY <1>1 DEF EmptyJump
  <2> QED BY <1>1, <2>1, <2>2, <2>3 DEF References
<1>3. ASSUME NEW b \in DOMAIN G PROVE BlockSimple(H, f[b]) <=> BlockSimple(G, b)
  <2>1. ASSUME NEW k \in References(G, b)
        PROVE  EdgeSimple(H, f[b], H[f[b]].succ[k]) <=> EdgeSimple(G, b, G[b].succ[k])
    <3>1. G[b].succ[k] \in DOMAIN G /\ H[f[b]].succ[k] = f[G[b].succ[k]]
      <4>1. H[f[b]].succ = [i \in DOMAIN G[b].succ |-> f[G[b].succ[i]]] BY <1>1
      <4> QED BY <1>1, <4>1 DEF References
    <3> QED BY <1>1, <1>2, <3>1 DEF EdgeSimple
  <2> QED BY <1>2, <2>1 DEF BlockSimple
<1>4. From(H, {START_BLOCK}) = Image(f, From(G, {START_BLOCK}))
  <2>1. {START_BLOCK} \in SUBSET DOMAIN G /\ Image(f, {START_BLOCK}) = {START_BLOCK} BY DEF Image
  <2> DEFINE nameH == [c \in DOMAIN H |-> 0]
             nameG == [b \in DOMAIN G |-> 0]
  <2>2. Named(G, f, nameG, nameH) BY <1>1 DEF Named
  <2> HIDE DEF nameH, nameG
  <2>3. From(H, Image(f, {START_BLOCK})) = Image(f, From(G, {START_BLOCK}))
    BY <2>1, <2>2, RenamedAhead
  <2> QED BY <2>1, <2>3
<1>5. From(G, {START_BLOCK}) \subseteq DOMAIN G
  <2>1. {START_BLOCK} \in SUBSET DOMAIN G OBVIOUS
  <2> QED BY <2>1, GraphEdges, ReachedClosed
<1> QED BY <1>3, <1>4, <1>5 DEF Simple, Image

(***************************************************************************)
(* Graphs in which the counting starts from, or gets to, every block.      *)
(***************************************************************************)
NoneDead(B) == preorder(B) = DOMAIN B

LEMMA RenamedPreorder ==
  ASSUME NEW G, NEW H, IsClosedGraph(G), IsClosedGraph(H), NEW f, Embeds(G, H, f),
         START_BLOCK \in DOMAIN G, f[START_BLOCK] = START_BLOCK,
         \A c \in DOMAIN H : H[c].stmts => \E b \in DOMAIN G : f[b] = c
  PROVE  preorder(H) = Image(f, preorder(G))
<1> DEFINE rootsG == {START_BLOCK} \union {b \in DOMAIN G : G[b].stmts}
           rootsH == {START_BLOCK} \union {c \in DOMAIN H : H[c].stmts}
           nameH == [c \in DOMAIN H |-> 0]
           nameG == [b \in DOMAIN G |-> 0]
<1>1. f \in [DOMAIN G -> DOMAIN H] /\ \A b \in DOMAIN G : H[f[b]].stmts = G[b].stmts
  BY DEF Embeds
<1>2. rootsH = Image(f, rootsG) BY <1>1 DEF Image
<1>3. rootsG \in SUBSET DOMAIN G OBVIOUS
<1>4. Named(G, f, nameG, nameH) BY <1>1 DEF Named
<1>5. preorder(G) = From(G, rootsG) /\ preorder(H) = From(H, rootsH) BY DEF preorder, Indices
<1> HIDE DEF rootsG, rootsH, nameG, nameH
<1>6. From(H, Image(f, rootsG)) = Image(f, From(G, rootsG)) BY <1>3, <1>4, RenamedAhead
<1> QED BY <1>2, <1>5, <1>6

(***************************************************************************)
(* The blocks of B that are kept.                                          *)
(***************************************************************************)
KeptOf(B, S, f) == [a \in S |-> B[f[a]]]

LEMMA KeptAtFirst ==
  ASSUME NEW B, IsGraph(B), NEW S, S = preorder(B), NEW f, f = Same(B),
         NEW src, FlowOf(B, f, src), Simple(B)
  PROVE  LET K == KeptOf(B, S, f)
         IN FlowOf(K, Same(K), src) /\ Simple(K) /\ NoneDead(K)
<1> DEFINE K == KeptOf(B, S, f)
           g == [a \in S |-> a]
<1>1. /\ S \subseteq DOMAIN B /\ START_BLOCK \in S
      /\ \A b \in S : \A k \in DOMAIN B[b].succ : B[b].succ[k] \in S
  BY Preorder DEF References
<1>2. /\ IsFiniteSet(DOMAIN B) /\ IsClosedGraph(B)
      /\ HasTargets(B)
  BY GraphBlocks DEF HasTargets
<1>3. DOMAIN K = S /\ \A a \in S : K[a] = B[a] BY <1>1 DEF KeptOf, Same
<1> HIDE DEF K
<1>4. Embeds(K, B, g)
  <2>1. ASSUME NEW b \in S PROVE B[b].succ = [k \in DOMAIN B[b].succ |-> g[B[b].succ[k]]]
    <3>1. B[b].succ \in Seq(DOMAIN B) BY <1>1, <1>2 DEF HasTargets
    <3>2. \A k \in DOMAIN B[b].succ : g[B[b].succ[k]] = B[b].succ[k] BY <1>1
    <3> HIDE DEF g
    <3> QED BY <3>1, <3>2
  <2>2. g \in [DOMAIN K -> DOMAIN B] /\ \A a \in S : g[a] = a BY <1>1, <1>3
  <2> HIDE DEF g
  <2> QED BY <1>1, <1>3, <2>1, <2>2 DEF Embeds
<1>5. IsClosedGraph(K)
  <2>1. IsFiniteSet(S) BY <1>1, <1>2, FS_Subset
  <2> QED BY <1>1, <1>3, <2>1 DEF IsClosedGraph, ToSet
<1>6. HasTargets(K)
  <2>1. ASSUME NEW b \in S PROVE B[b].succ \in Seq(S)
    <3>1. B[b].succ \in Seq(DOMAIN B) BY <1>1, <1>2 DEF HasTargets
    <3> QED BY <1>1, <3>1
  <2> QED BY <1>3, <2>1 DEF HasTargets
<1>7. START_BLOCK \in DOMAIN K /\ g[START_BLOCK] = START_BLOCK BY <1>1, <1>3
<1>8. Named(K, g, Same(K), f) BY <1>1, <1>3 DEF Same, Named
<1> HIDE DEF g
<1>9. FlowOf(B, f, src) <=> FlowOf(K, Same(K), src)
  BY <1>2, <1>4, <1>5, <1>7, <1>8, RenamedFlow
<1>10. Simple(B) <=> Simple(K)
  BY <1>2, <1>4, <1>5, <1>6, <1>7, RenamedSimple
<1>11. NoneDead(K)
  <2>1. \A c \in DOMAIN B : B[c].stmts => \E b \in DOMAIN K : g[b] = c
    <3>1. \A c \in DOMAIN B : B[c].stmts => c \in S BY Preorder
    <3>2. \A c \in S : g[c] = c BY DEF g
    <3> QED BY <1>3, <3>1, <3>2
  <2>2. preorder(B) = Image(g, preorder(K)) BY <1>2, <1>4, <1>5, <1>7, <2>1, RenamedPreorder
  <2>3. preorder(K) \subseteq S
    <3> DEFINE roots == {START_BLOCK} \union {b \in DOMAIN K : K[b].stmts}
    <3>1. roots \in SUBSET DOMAIN K BY <1>7
    <3>2. preorder(K) = From(K, roots) BY DEF preorder, Indices
    <3> HIDE DEF roots
    <3>3. From(K, roots) \subseteq DOMAIN K BY <1>5, <3>1, GraphEdges, ReachedClosed
    <3> QED BY <1>3, <3>2, <3>3
  <2>4. Image(g, preorder(K)) = preorder(K) BY <2>3 DEF g, Image
  <2> QED BY <1>3, <2>2, <2>4 DEF NoneDead
<1> QED BY <1>9, <1>10, <1>11 DEF K

LEMMA FunctionIsSequence ==
  ASSUME NEW n \in Nat, NEW X, NEW t \in [1..n -> X]
  PROVE  t \in Seq(X) /\ Len(t) = n
OBVIOUS

Renumbered(B, u, f) ==
  [b \in 1..u |-> [B[b] EXCEPT !.succ = [k \in DOMAIN @ |-> f[@[k]]]]]

\* f brings the blocks of S to the first u places of B.
Gathers(B, S, f, u, name) ==
  /\ S \subseteq DOMAIN B /\ u \in 0..Len(B)
  /\ START_BLOCK \in S /\ f[START_BLOCK] = START_BLOCK
  /\ \A a \in S :
       /\ f[a] \in 1..u /\ name[f[a]] = a
       /\ \A k \in References(B, f[a]) : B[f[a]].succ[k] \in S
  /\ \A i \in 1..u : \E a \in S : f[a] = i

LEMMA KeptAtLast ==
  ASSUME NEW B, IsGraph(B), NEW S, NEW f, NEW u, NEW name, Gathers(B, S, f, u, name), NEW src,
         FlowOf(KeptOf(B, S, f), Same(KeptOf(B, S, f)), src), Simple(KeptOf(B, S, f)),
         NoneDead(KeptOf(B, S, f))
  PROVE  LET H == Renumbered(B, u, f)
         IN IsGraph(H) /\ Len(H) = u /\ FlowOf(H, name, src) /\ Simple(H) /\ NoneDead(H)
<1> DEFINE K == KeptOf(B, S, f)
           H == Renumbered(B, u, f)
           g == [a \in S |-> f[a]]
<1>1. /\ S \subseteq DOMAIN B /\ u \in 0..Len(B) /\ START_BLOCK \in S /\ f[START_BLOCK] = START_BLOCK
      /\ \A a \in S :
           /\ f[a] \in 1..u /\ name[f[a]] = a
           /\ \A k \in DOMAIN B[f[a]].succ : B[f[a]].succ[k] \in S
      /\ \A i \in 1..u : \E a \in S : f[a] = i
  BY DEF Gathers, References
<1>2. Len(B) \in Nat \ {0} /\ DOMAIN B = 1..Len(B) /\ IsFiniteSet(DOMAIN B) BY GraphBlocks
<1>3. u \in Nat /\ u >= 1 /\ u <= Len(B)
  BY <1>1, <1>2 DEF START_BLOCK
<1>4. ASSUME NEW i \in 1..u
      PROVE  /\ i \in DOMAIN B /\ B[i] \in BlockSet(Len(B)) /\ B[i].succ \in Seq(DOMAIN B)
             /\ \A k \in DOMAIN B[i].succ : B[i].succ[k] \in S /\ f[B[i].succ[k]] \in 1..u
             /\ B[i].stmts \in BOOLEAN /\ B[i].op \in TermOps
  <2>1. i \in DOMAIN B BY <1>2, <1>3
  <2>2. \A k \in DOMAIN B[i].succ : B[i].succ[k] \in S BY <1>1
  <2>3. /\ B[i] \in BlockSet(Len(B)) /\ B[i].succ \in Seq(DOMAIN B)
        /\ B[i].stmts \in BOOLEAN /\ B[i].op \in TermOps
    BY <2>1, GraphBlocks
  <2> QED BY <1>1, <2>1, <2>2, <2>3
<1>5. ASSUME NEW i \in 1..u
      PROVE  /\ H[i].stmts = B[i].stmts /\ H[i].op = B[i].op
             /\ H[i].succ = [k \in DOMAIN B[i].succ |-> f[B[i].succ[k]]]
             /\ H[i].succ \in Seq(1..u) /\ Len(H[i].succ) = Len(B[i].succ)
             /\ H[i] \in BlockSet(u)
  <2> DEFINE s == B[i].succ
             t == [k \in DOMAIN s |-> f[s[k]]]
  <2>1. H[i] = [B[i] EXCEPT !.succ = t] BY <1>3 DEF Renumbered
  <2>2. s \in Seq(DOMAIN B) /\ DOMAIN s = 1..Len(s) /\ Len(s) \in Nat BY <1>4
  <2>3. t \in Seq(1..u) /\ Len(t) = Len(s)
    <3>1. \A k \in 1..Len(s) : f[s[k]] \in 1..u BY <1>4, <2>2
    <3> HIDE DEF s
    <3>2. t \in [1..Len(s) -> 1..u] BY <2>2, <3>1
    <3> HIDE DEF t
    <3> QED BY <2>2, <3>2, FunctionIsSequence
  <2>4. /\ B[i] \in BlockSet(Len(B)) /\ B[i].stmts \in BOOLEAN /\ B[i].op \in TermOps BY <1>4
  <2>5. /\ [B[i] EXCEPT !.succ = t].stmts = B[i].stmts
        /\ [B[i] EXCEPT !.succ = t].op = B[i].op
        /\ [B[i] EXCEPT !.succ = t].succ = t
        /\ [B[i] EXCEPT !.succ = t] \in BlockSet(u)
    <3> HIDE DEF t
    <3> QED BY <2>3, <2>4 DEF BlockSet
  <2> QED BY <2>1, <2>3, <2>5
<1>6. DOMAIN H = 1..u BY DEF Renumbered
<1> HIDE DEF H
<1>7. H \in Seq(BlockSet(u)) /\ Len(H) = u
  <2>1. H \in [1..u -> BlockSet(u)]
    <3>1. H = [i \in 1..u |-> H[i]] BY DEF H, Renumbered
    <3> QED BY <1>5, <3>1
  <2> QED BY <1>3, <1>6, <2>1
<1>8. IsGraph(H)
  <2>1. \A i \in 1..u : H[i].op = "Goto" => Len(H[i].succ) = 1
    <3>1. \A i \in DOMAIN B : B[i].op = "Goto" => Len(B[i].succ) = 1 BY DEF IsGraph
    <3> QED BY <1>4, <1>5, <3>1
  <2> QED BY <1>3, <1>6, <1>7, <2>1 DEF IsGraph
<1>9. DOMAIN K = S /\ \A a \in S : K[a] = B[f[a]] BY DEF KeptOf
<1> HIDE DEF K
<1>10. Embeds(K, H, g)
  <2>1. g \in [S -> 1..u] /\ \A a \in S : g[a] = f[a] BY <1>1
  <2>2. ASSUME NEW b \in S, NEW c \in S, g[b] = g[c] PROVE b = c BY <1>1, <2>1, <2>2
  <2>3. ASSUME NEW b \in S
        PROVE  /\ H[g[b]].stmts = K[b].stmts /\ H[g[b]].op = K[b].op
               /\ H[g[b]].succ = [k \in DOMAIN K[b].succ |-> g[K[b].succ[k]]]
               /\ \A k \in DOMAIN K[b].succ : K[b].succ[k] \in S
    <3>1. f[b] \in 1..u /\ g[b] = f[b] /\ K[b] = B[f[b]] BY <1>1, <1>9
    <3>2. \A k \in DOMAIN K[b].succ : K[b].succ[k] \in S BY <1>4, <3>1
    <3>3. [k \in DOMAIN K[b].succ |-> g[K[b].succ[k]]] = [k \in DOMAIN K[b].succ |-> f[K[b].succ[k]]]
      BY <2>1, <3>2
    <3> HIDE DEF g
    <3> QED BY <1>5, <3>1, <3>2, <3>3
  <2> HIDE DEF g
  <2> QED BY <1>6, <1>9, <2>1, <2>2, <2>3 DEF Embeds
<1>11. IsClosedGraph(K)
  <2>1. IsFiniteSet(S) BY <1>1, <1>2, FS_Subset
  <2> QED BY <1>1, <1>9, <2>1 DEF IsClosedGraph, ToSet
<1>12. HasTargets(K)
  <2>1. ASSUME NEW b \in S PROVE K[b].succ \in Seq(S)
    <3>1. K[b] = B[f[b]] /\ f[b] \in 1..u BY <1>1, <1>9
    <3>2. B[f[b]].succ \in Seq(DOMAIN B) /\ \A k \in DOMAIN B[f[b]].succ : B[f[b]].succ[k] \in S
      BY <1>4, <3>1
    <3> QED BY <3>1, <3>2
  <2> QED BY <1>9, <2>1 DEF HasTargets
<1>13. IsClosedGraph(H) /\ HasTargets(H)
  BY <1>8, GraphBlocks DEF HasTargets
<1>14. START_BLOCK \in DOMAIN K /\ g[START_BLOCK] = START_BLOCK BY <1>1, <1>9
<1>15. Named(K, g, Same(K), name) BY <1>1, <1>9 DEF Same, Named
<1> HIDE DEF g
<1>16. FlowOf(H, name, src)
  <2>1. FlowOf(K, Same(K), src) BY DEF K
  <2> QED BY <1>10, <1>11, <1>13, <1>14, <1>15, <2>1, RenamedFlow
<1>17. Simple(H)
  <2>1. Simple(K) BY DEF K
  <2> QED BY <1>10, <1>11, <1>12, <1>13, <1>14, <2>1, RenamedSimple
<1>18. NoneDead(H)
  <2>0. \A a \in S : g[a] = f[a] BY DEF g
  <2>1. \A c \in 1..u : \E a \in S : g[a] = c BY <1>1, <2>0
  <2>2. preorder(H) = Image(g, preorder(K))
    <3>1. \A c \in DOMAIN H : H[c].stmts => \E a \in DOMAIN K : g[a] = c BY <1>6, <1>9, <2>1
    <3> QED BY <1>10, <1>11, <1>13, <1>14, <3>1, RenamedPreorder
  <2>3. preorder(K) = S BY <1>9 DEF NoneDead, K
  <2>4. Image(g, S) = 1..u BY <1>1, <2>0, <2>1 DEF Image
  <2> QED BY <1>6, <2>2, <2>3, <2>4 DEF NoneDead
<1> QED BY <1>7, <1>8, <1>16, <1>17, <1>18 DEF H

(***************************************************************************)
(* The calls of collapse_goto_chain.                                       *)
(***************************************************************************)
\* The reference that the i-th call is made with, for block b and its
\* successor k.
Link(b, k, s, i) == IF i = 1 THEN <<b, k>> ELSE <<s[i - 1], 1>>

IsChain(B, b, k, s) ==
  /\ s \in Seq(DOMAIN B)
  /\ \A i \in DOMAIN s : s[i] # b /\ \A j \in DOMAIN s : s[i] = s[j] => i = j
  /\ \A i \in DOMAIN s : EmptyJump(B, s[i]) /\ Edge(B, Link(b, k, s, i)) = s[i]

LEMMA ChainSequence ==
  ASSUME NEW D, NEW s \in Seq(D), s # << >>
  PROVE  /\ Len(s) \in Nat \ {0} /\ DOMAIN s = 1..Len(s)
         /\ Last(s) = s[Len(s)] /\ Last(s) \in D
         /\ Front(s) \in Seq(D) /\ Len(Front(s)) = Len(s) - 1
         /\ DOMAIN Front(s) = 1..(Len(s) - 1)
         /\ \A i \in 1..(Len(s) - 1) : Front(s)[i] = s[i]
<1>1. Len(s) \in Nat \ {0} /\ DOMAIN s = 1..Len(s) /\ s[Len(s)] \in D OBVIOUS
<1>2. Front(s) = SubSeq(s, 1, Len(s) - 1) /\ Last(s) = s[Len(s)] BY DEF Front, Last
<1>3. \A i \in 1..(Len(s) - 1) : s[i] \in D BY <1>1
<1> DEFINE n == Len(s) - 1
<1>4. n \in Nat /\ 1 \in Int /\ n \in Int BY <1>1
<1> HIDE DEF n
<1>5. /\ SubSeq(s, 1, n) \in Seq(D)
      /\ Len(SubSeq(s, 1, n)) = IF 1 <= n THEN n - 1 + 1 ELSE 0
      /\ \A i \in 1..(n - 1 + 1) : SubSeq(s, 1, n)[i] = s[1 + i - 1]
  <2>1. \A i \in 1..n : s[i] \in D BY <1>3 DEF n
  <2> QED BY <1>4, <2>1, SubSeqProperties
<1>6. Len(SubSeq(s, 1, n)) = n BY <1>4, <1>5
<1>7. \A i \in 1..n : SubSeq(s, 1, n)[i] = s[i] BY <1>4, <1>5
<1>8. DOMAIN SubSeq(s, 1, n) = 1..n BY <1>5, <1>6
<1> QED BY <1>1, <1>2, <1>5, <1>6, <1>7, <1>8 DEF n

LEMMA StartIsLink ==
  ASSUME NEW D, NEW s \in Seq(D)
  PROVE  StartOf(s) = Link(bb, successor, s, Len(s) + 1)
<1>1. CASE s = << >>
  <2>1. Len(s) + 1 = 1 BY <1>1
  <2> QED BY <1>1, <2>1 DEF StartOf, Link
<1>2. CASE s # << >>
  <2>1. Len(s) \in Nat \ {0} /\ Last(s) = s[Len(s)] BY <1>2, ChainSequence
  <2>2. Len(s) + 1 # 1 /\ (Len(s) + 1) - 1 = Len(s) BY <2>1
  <2> QED BY <1>2, <2>1, <2>2 DEF StartOf, Link
<1> QED BY <1>1, <1>2

LEMMA JumpTarget ==
  ASSUME NEW B, IsGraph(B), NEW x \in DOMAIN B, EmptyJump(B, x)
  PROVE  /\ References(B, x) = {1} /\ B[x].succ[1] \in DOMAIN B /\ B[x].succ = <<B[x].succ[1]>>
         /\ IsEdge(B, <<x, 1>>) /\ Edge(B, <<x, 1>>) = B[x].succ[1]
<1>1. Len(B[x].succ) = 1 BY DEF IsGraph, EmptyJump
<1>2. /\ B[x].succ \in Seq(DOMAIN B) /\ DOMAIN B[x].succ = 1..Len(B[x].succ)
      /\ \A k \in DOMAIN B[x].succ : B[x].succ[k] \in DOMAIN B
  BY GraphBlocks
<1>3. DOMAIN B[x].succ = {1} BY <1>1, <1>2
<1>4. B[x].succ = <<B[x].succ[1]>> BY <1>1, <1>2
<1> QED BY <1>2, <1>3, <1>4 DEF References, IsEdge, Edge

LEMMA LinksAreEdges ==
  ASSUME NEW B, IsGraph(B), NEW b \in DOMAIN B, NEW k \in References(B, b),
         NEW s, IsChain(B, b, k, s), NEW i \in 1..(Len(s) + 1)
  PROVE  /\ IsEdge(B, Link(b, k, s, i))
         /\ Link(b, k, s, i)[1] = IF i = 1 THEN b ELSE s[i - 1]
<1>1. s \in Seq(DOMAIN B) BY DEF IsChain
<1>2. CASE i = 1 BY <1>2 DEF Link, IsEdge
<1>3. CASE i # 1
  <2>1. i - 1 \in DOMAIN s /\ s[i - 1] \in DOMAIN B BY <1>1, <1>3
  <2>2. EmptyJump(B, s[i - 1]) BY <2>1 DEF IsChain
  <2>3. IsEdge(B, <<s[i - 1], 1>>) BY <2>1, <2>2, JumpTarget
  <2> QED BY <1>3, <2>3 DEF Link
<1> QED BY <1>2, <1>3

LEMMA ChainGrows ==
  ASSUME NEW B, IsGraph(B), NEW b \in DOMAIN B, NEW k \in References(B, b),
         NEW s, IsChain(B, b, k, s), NEW t, t = Edge(B, Link(b, k, s, Len(s) + 1)),
         t \in DOMAIN B, EmptyJump(B, t), t # b, \A i \in DOMAIN s : s[i] # t
  PROVE  IsChain(B, b, k, Append(s, t))
<1> DEFINE s2 == Append(s, t)
           n == Len(s)
<1>1. /\ s \in Seq(DOMAIN B)
      /\ \A i \in DOMAIN s : s[i] # b /\ \A j \in DOMAIN s : s[i] = s[j] => i = j
      /\ \A i \in DOMAIN s : EmptyJump(B, s[i]) /\ Edge(B, Link(b, k, s, i)) = s[i]
  BY DEF IsChain
<1>2. DOMAIN s = 1..n /\ n \in Nat BY <1>1
<1>3. /\ s2 \in Seq(DOMAIN B) /\ Len(s2) = n + 1 /\ DOMAIN s2 = 1..(n + 1)
      /\ \A i \in 1..n : s2[i] = s[i]
      /\ s2[n + 1] = t
  <2>1. /\ s2 \in Seq(DOMAIN B) /\ Len(s2) = n + 1
        /\ \A i \in 1..n : s2[i] = s[i]
        /\ s2[n + 1] = t
    BY <1>1, AppendProperties
  <2>2. DOMAIN s2 = 1..Len(s2) BY <2>1
  <2> QED BY <2>1, <2>2
<1> HIDE DEF s2
<1>4. ASSUME NEW i \in DOMAIN s2
      PROVE  /\ s2[i] # b /\ EmptyJump(B, s2[i])
             /\ Link(b, k, s2, i) = Link(b, k, s, i)
             /\ i \in 1..n \/ i = n + 1
  <2>1. i \in 1..n \/ i = n + 1 BY <1>2, <1>3
  <2>2. s2[i] # b /\ EmptyJump(B, s2[i])
    <3> HIDE DEF n
    <3> QED BY <1>1, <1>2, <1>3, <2>1
  <2>3. i = 1 \/ i - 1 \in 1..n BY <1>2, <1>3
  <2>4. Link(b, k, s2, i) = Link(b, k, s, i)
    <3> HIDE DEF n
    <3> QED BY <1>3, <2>3 DEF Link
  <2> QED BY <2>1, <2>2, <2>4
<1>5. ASSUME NEW i \in DOMAIN s2, NEW j \in DOMAIN s2, s2[i] = s2[j] PROVE i = j
  <2> HIDE DEF n
  <2>1. CASE i \in 1..n /\ j \in 1..n BY <1>1, <1>2, <1>3, <1>5, <2>1
  <2>2. CASE ~(i \in 1..n /\ j \in 1..n) BY <1>2, <1>3, <1>4, <1>5, <2>2
  <2> QED BY <2>1, <2>2
<1>6. ASSUME NEW i \in DOMAIN s2 PROVE Edge(B, Link(b, k, s2, i)) = s2[i]
  <2>1. CASE i \in 1..n BY <1>1, <1>2, <1>3, <1>4, <2>1
  <2>2. CASE i = n + 1 BY <1>3, <1>4, <2>2
  <2> QED BY <1>4, <2>1, <2>2
<1> QED BY <1>3, <1>4, <1>5, <1>6 DEF IsChain, s2

LEMMA ChainShortens ==
  ASSUME NEW B, IsGraph(B), NEW b \in DOMAIN B, NEW k \in References(B, b),
         NEW s, IsChain(B, b, k, s), s # << >>,
         NEW t \in DOMAIN B
  PROVE  IsChain(Redirected(B, Link(b, k, s, Len(s)), t), b, k, Front(s))
<1> DEFINE s2 == Front(s)
           n == Len(s)
           c == Link(b, k, s, n)
           B2 == Redirected(B, c, t)
<1>1. /\ s \in Seq(DOMAIN B)
      /\ \A i \in DOMAIN s : s[i] # b /\ \A j \in DOMAIN s : s[i] = s[j] => i = j
      /\ \A i \in DOMAIN s : EmptyJump(B, s[i]) /\ Edge(B, Link(b, k, s, i)) = s[i]
  BY DEF IsChain
<1>2. /\ n \in Nat \ {0} /\ DOMAIN s = 1..n
      /\ s2 \in Seq(DOMAIN B) /\ DOMAIN s2 = 1..(n - 1)
      /\ \A i \in 1..(n - 1) : s2[i] = s[i]
  BY <1>1, ChainSequence
<1>3. IsEdge(B, c) /\ c[1] = IF n = 1 THEN b ELSE s[n - 1]
  <2>1. n \in 1..(Len(s) + 1) BY <1>2
  <2> HIDE DEF n
  <2> QED BY <2>1, LinksAreEdges
<1>4. /\ DOMAIN B2 = DOMAIN B
      /\ \A x \in DOMAIN B :
           /\ B2[x].stmts = B[x].stmts /\ B2[x].op = B[x].op
           /\ \A j \in References(B, x) : <<x, j>> # c => B2[x].succ[j] = B[x].succ[j]
  <2> HIDE DEF c
  <2> QED BY <1>3, RedirectedBlocks
<1> HIDE DEF s2, c, B2
<1>5. ASSUME NEW i \in DOMAIN s2
      PROVE  /\ s2[i] # b /\ EmptyJump(B2, s2[i])
             /\ Edge(B2, Link(b, k, s2, i)) = s2[i]
             /\ \A j \in DOMAIN s2 : s2[i] = s2[j] => i = j
  <2>1. i \in DOMAIN s /\ s2[i] = s[i] /\ s[i] \in DOMAIN B /\ i < n BY <1>1, <1>2
  <2>2. EmptyJump(B2, s[i]) BY <1>1, <1>4, <2>1 DEF EmptyJump
  <2>3. \A j \in DOMAIN s2 : s2[i] = s2[j] => i = j BY <1>1, <1>2, <2>1
  <2> DEFINE d == Link(b, k, s, i)
  <2>4. Link(b, k, s2, i) = d
    <3>1. i = 1 \/ i - 1 \in 1..(n - 1) BY <1>2
    <3> QED BY <1>2, <3>1 DEF Link
  <2>5. IsEdge(B, d) /\ d[1] = IF i = 1 THEN b ELSE s[i - 1]
    <3>1. i \in 1..(Len(s) + 1) BY <1>2
    <3> HIDE DEF n
    <3> QED BY <3>1, LinksAreEdges
  <2>6. d[1] # c[1]
    <3>1. n # 1 /\ n - 1 \in DOMAIN s BY <1>2, <2>1
    <3>2. CASE i = 1 BY <1>1, <1>3, <2>5, <3>1, <3>2
    <3>3. CASE i # 1
      <4>1. i - 1 \in DOMAIN s /\ i - 1 # n - 1 BY <1>2, <2>1, <3>3
      <4> QED BY <1>1, <1>3, <2>5, <3>1, <3>3, <4>1
    <3> QED BY <3>2, <3>3
  <2> HIDE DEF d
  <2>7. Edge(B2, d) = Edge(B, d)
    <3>1. PICK x \in DOMAIN B : \E j \in References(B, x) : d = <<x, j>> BY <2>5 DEF IsEdge
    <3>2. PICK j \in References(B, x) : d = <<x, j>> BY <3>1
    <3>3. <<x, j>> # c BY <2>6, <3>2
    <3> QED BY <1>4, <3>2, <3>3 DEF Edge
  <2> QED BY <1>1, <2>1, <2>2, <2>3, <2>4, <2>7 DEF d
<1> QED BY <1>2, <1>4, <1>5 DEF IsChain, s2, c, B2

-----------------------------------------------------------------------------
(***************************************************************************)
(* The inductive invariant.                                                *)
(***************************************************************************)
Out == phase \in {"follow", "return"}
InLoop == phase = "simplify" \/ Out

Basics ==
  /\ source \in Graphs
  /\ phase \in {"count", "simplify", "follow", "return", "keep", "done"}
  /\ bb \in 1..(Len(source) + 1)
  /\ successor \in Nat \ {0}
  /\ changed \in BOOLEAN
  /\ IsGraph(basic_blocks)
  /\ pred_count \in [Indices(source) -> Nat]
  /\ seen \subseteq Indices(source)
  /\ replacements \in [Indices(source) -> Indices(source)]
  /\ used_blocks \in 0..Len(source)
  /\ origin \in [Indices(source) -> Indices(source)]
  /\ phase # "done" => Len(basic_blocks) = Len(source)

\* Until they are moved, the blocks are those of source but for the branches.
Unmoved ==
  phase = "count" \/ InLoop =>
    /\ \A b \in Indices(source) : basic_blocks[b].stmts = source[b].stmts
    /\ origin = Same(source) /\ replacements = Same(source)
    /\ used_blocks = 0
    /\ FlowOf(basic_blocks, origin, source)
    /\ phase = "count" => basic_blocks = source /\ bb = START_BLOCK

\* The calls follow the empty jumps, from the block whose terminator is out.
Called ==
  /\ Out => bb \in Indices(source) /\ IsChain(basic_blocks, bb, successor, chain)
  /\ ~Out => chain = << >>
  /\ phase = "return" \/ chain # << >> => successor \in References(basic_blocks, bb)

\* No block whose terminator is out is skipped by the counts.
Counted ==
  InLoop =>
    /\ Counting(preorder(source), pred_count, basic_blocks)
    /\ Out => pred_count[bb] # 0
    /\ \A i \in DOMAIN chain : pred_count[chain[i]] # 0

\* The end of the chain is a jump to itself.
LoopsAt(B, b, k, s) ==
  LET t == Edge(B, Link(b, k, s, Len(s) + 1))
  IN t # b /\ (\A i \in DOMAIN s : s[i] # t) /\ B[t].succ = <<t>>

\* As long as nothing has changed, there was nothing to change.
Quiet ==
  InLoop /\ ~changed =>
    /\ \A b \in Indices(source) : b < bb /\ pred_count[b] # 0 => BlockSimple(basic_blocks, b)
    /\ Out => \A k \in References(basic_blocks, bb) :
                k < successor => EdgeSimple(basic_blocks, bb, basic_blocks[bb].succ[k])
    /\ phase = "return" => LoopsAt(basic_blocks, bb, successor, chain)

\* The blocks before bb that are kept have moved to the front, and the others
\* have not moved: together they are still the same graph.
Kept == KeptOf(basic_blocks, seen, replacements)
Keeping ==
  phase = "keep" =>
    /\ used_blocks < bb
    /\ START_BLOCK \in seen /\ replacements[START_BLOCK] = START_BLOCK
    /\ \A a \in seen :
         /\ a < bb => replacements[a] \in 1..used_blocks
         /\ a >= bb => replacements[a] = a
         /\ origin[replacements[a]] = a
         /\ \A k \in DOMAIN Kept[a].succ : Kept[a].succ[k] \in seen
    /\ \A i \in 1..used_blocks : \E a \in seen : a < bb /\ replacements[a] = i
    /\ FlowOf(Kept, Same(Kept), source)
    /\ Simple(Kept)
    /\ NoneDead(Kept)

Ended ==
  phase = "done" =>
    FlowOf(basic_blocks, origin, source) /\ Simple(basic_blocks) /\ NoneDead(basic_blocks)

IInv == Basics /\ Unmoved /\ Called /\ Counted /\ Quiet /\ Keeping /\ Ended

LEMMA SourceIsGraph ==
  ASSUME Basics
  PROVE  /\ IsGraph(source) /\ Len(source) \in Nat \ {0} /\ Indices(source) = 1..Len(source)
         /\ START_BLOCK \in Indices(source)
         /\ DOMAIN basic_blocks = 1..Len(basic_blocks)
         /\ phase # "done" => DOMAIN basic_blocks = Indices(source)
<1>1. IsGraph(source) BY GraphsAssumption DEF Basics, IsGraph
<1>2. IsGraph(basic_blocks) BY DEF Basics
<1>3. Len(source) \in Nat \ {0} /\ DOMAIN source = 1..Len(source) /\ START_BLOCK \in DOMAIN source
  BY <1>1, GraphBlocks
<1>4. DOMAIN basic_blocks = 1..Len(basic_blocks) BY <1>2, GraphBlocks
<1> QED BY <1>1, <1>3, <1>4 DEF Basics, Indices

LEMMA InitInv == ASSUME Init PROVE IInv
<1>1. /\ source \in Graphs /\ basic_blocks = source /\ phase = "count" /\ bb = START_BLOCK
      /\ successor = 1 /\ chain = << >> /\ changed = FALSE
      /\ pred_count = [b \in Indices(source) |-> 0]
      /\ seen = {} /\ replacements = [b \in Indices(source) |-> b] /\ used_blocks = 0
      /\ origin = [b \in Indices(source) |-> b]
  BY DEF Init
<1>2. IsGraph(source) BY <1>1, GraphsAssumption DEF IsGraph
<1>3. Len(source) \in Nat \ {0} BY <1>2, GraphBlocks
<1>4. bb \in 1..(Len(source) + 1) /\ used_blocks \in 0..Len(source)
  BY <1>1, <1>3 DEF START_BLOCK
<1>5. Basics
  <2>1. /\ pred_count \in [Indices(source) -> Nat]
        /\ replacements \in [Indices(source) -> Indices(source)]
        /\ origin \in [Indices(source) -> Indices(source)]
    BY <1>1
  <2>2. IsGraph(basic_blocks) /\ Len(basic_blocks) = Len(source) BY <1>1, <1>2
  <2>3. seen \subseteq Indices(source) BY <1>1
  <2>4. successor \in Nat \ {0} BY <1>1
  <2>5. /\ source \in Graphs /\ changed \in BOOLEAN
        /\ phase \in {"count", "simplify", "follow", "return", "keep", "done"}
    BY <1>1, Zenon
  <2> QED BY <1>4, <2>1, <2>2, <2>3, <2>4, <2>5 DEF Basics
<1>6. Unmoved
  <2>1. origin = Same(source) /\ replacements = Same(source) BY <1>1 DEF Same, Indices
  <2>2. FlowOf(source, Same(source), source)
    <3>1. From(source, {START_BLOCK}) \subseteq DOMAIN source
      <4>1. IsClosedGraph(source) /\ {START_BLOCK} \in SUBSET DOMAIN source BY <1>2, GraphBlocks
      <4> QED BY <4>1, GraphEdges, ReachedClosed
    <3>2. \A b \in DOMAIN source : Same(source)[b] = b BY DEF Same
    <3> QED BY <3>1, <3>2 DEF FlowOf
  <2> QED BY <1>1, <2>1, <2>2 DEF Unmoved
<1>7. Called BY <1>1 DEF Called, Out
<1>8. Counted /\ Quiet /\ Keeping /\ Ended
  BY <1>1 DEF Counted, Quiet, Keeping, Ended, InLoop, Out
<1> QED BY <1>5, <1>6, <1>7, <1>8 DEF IInv

(***************************************************************************)
(* Every step keeps it.                                                    *)
(***************************************************************************)
LEMMA StutterInv == ASSUME IInv, UNCHANGED vars PROVE IInv'
<1>1. /\ source' = source /\ basic_blocks' = basic_blocks /\ phase' = phase /\ bb' = bb
      /\ successor' = successor /\ chain' = chain /\ changed' = changed
      /\ pred_count' = pred_count /\ seen' = seen /\ replacements' = replacements
      /\ used_blocks' = used_blocks /\ origin' = origin
  BY DEF vars, calls, removal
<1>2. Basics' BY <1>1 DEF IInv, Basics
<1>3. Unmoved' BY <1>1 DEF IInv, Unmoved, InLoop, Out
<1>4. Called' BY <1>1 DEF IInv, Called, Out
<1>5. Counted' BY <1>1 DEF IInv, Counted, InLoop, Out
<1>6. Quiet' BY <1>1 DEF IInv, Quiet, InLoop, Out
<1>7. Keeping' BY <1>1 DEF IInv, Keeping, Kept
<1>8. Ended' BY <1>1 DEF IInv, Ended
<1> QED BY <1>2, <1>3, <1>4, <1>5, <1>6, <1>7, <1>8 DEF IInv

LEMMA CountInv == ASSUME IInv, Count PROVE IInv'
<1>1. /\ phase = "count" /\ phase' = "simplify"
      /\ source' = source /\ basic_blocks' = basic_blocks /\ bb' = bb
      /\ successor' = successor /\ chain' = chain /\ changed' = changed
      /\ seen' = seen /\ replacements' = replacements
      /\ used_blocks' = used_blocks /\ origin' = origin
  BY DEF Count, calls, removal
<1>2. basic_blocks = source /\ bb = START_BLOCK /\ Basics /\ chain = << >>
  BY <1>1 DEF IInv, Unmoved, Called, Out
<1>3. IsGraph(source) /\ DOMAIN basic_blocks = Indices(source) /\ Indices(source) = 1..Len(source)
  BY <1>1, <1>2, SourceIsGraph
<1>4. Counting(preorder(source), pred_count', basic_blocks')
  <2>1. pred_count' = [b \in DOMAIN source |->
                         Entry(b) + Cardinality(ReferencesTo(source, preorder(source), b))]
    BY <1>2 DEF Count, Entry, Indices
  <2> QED BY <1>1, <1>2, <1>3, <2>1, FirstCounts
<1>5. Basics'
  <2>1. pred_count' \in [Indices(source) -> Nat] BY <1>1, <1>3, <1>4 DEF Counting
  <2> QED BY <1>1, <1>2, <2>1 DEF Basics
<1>6. Unmoved' BY <1>1 DEF IInv, Unmoved, InLoop, Out
<1>7. Called' BY <1>1, <1>2 DEF Called, Out
<1>8. Counted' BY <1>1, <1>2, <1>4 DEF Counted, InLoop, Out
<1>9. Quiet'
  <2>1. \A b \in Indices(source) : ~(b < bb) BY <1>2, <1>3 DEF START_BLOCK
  <2> QED BY <1>1, <2>1 DEF Quiet, InLoop, Out
<1>10. Keeping' /\ Ended' BY <1>1 DEF Keeping, Ended
<1> QED BY <1>5, <1>6, <1>7, <1>8, <1>9, <1>10 DEF IInv

LEMMA SkipBlockInv == ASSUME IInv, SkipBlock PROVE IInv'
<1>1. /\ phase = "simplify" /\ phase' = phase /\ bb \in Indices(basic_blocks)
      /\ pred_count[bb] = 0 /\ bb' = bb + 1
      /\ source' = source /\ basic_blocks' = basic_blocks
      /\ successor' = successor /\ chain' = chain /\ changed' = changed
      /\ pred_count' = pred_count /\ seen' = seen /\ replacements' = replacements
      /\ used_blocks' = used_blocks /\ origin' = origin
  BY DEF SkipBlock, AtBlock, calls, removal
<1>2. Basics /\ chain = << >> BY <1>1 DEF IInv, Called, Out
<1>3. bb \in Indices(source) /\ Indices(source) = 1..Len(source) /\ Len(source) \in Nat
  BY <1>1, <1>2, SourceIsGraph DEF Indices
<1>4. Basics'
  <2>1. bb + 1 \in 1..(Len(source) + 1) BY <1>3
  <2> QED BY <1>1, <1>2, <2>1 DEF Basics
<1>5. Unmoved' BY <1>1 DEF IInv, Unmoved, InLoop, Out
<1>6. Called' BY <1>1, <1>2 DEF Called, Out
<1>7. Counted' BY <1>1, <1>2 DEF IInv, Counted, InLoop, Out
<1>8. Quiet'
  <2>1. \A b \in Indices(source) : b < bb + 1 => b < bb \/ b = bb BY <1>3
  <2> QED BY <1>1, <2>1 DEF IInv, Quiet, InLoop, Out
<1>9. Keeping' /\ Ended' BY <1>1 DEF Keeping, Ended
<1> QED BY <1>4, <1>5, <1>6, <1>7, <1>8, <1>9 DEF IInv

LEMMA NoCalls == ASSUME NEW B, NEW b, NEW k PROVE IsChain(B, b, k, << >>)
BY DEF IsChain

LEMMA TakeTerminatorInv == ASSUME IInv, TakeTerminator PROVE IInv'
<1>1. /\ phase = "simplify" /\ phase' = "follow" /\ bb \in Indices(basic_blocks)
      /\ pred_count[bb] # 0 /\ successor' = 1
      /\ source' = source /\ basic_blocks' = basic_blocks /\ bb' = bb
      /\ chain' = chain /\ changed' = changed
      /\ pred_count' = pred_count /\ seen' = seen /\ replacements' = replacements
      /\ used_blocks' = used_blocks /\ origin' = origin
  BY DEF TakeTerminator, AtBlock, removal
<1>2. Basics /\ chain = << >> BY <1>1 DEF IInv, Called, Out
<1>3. bb \in Indices(source) /\ bb \in DOMAIN basic_blocks BY <1>1, <1>2, SourceIsGraph DEF Indices
<1>4. Basics'
  <2>1. 1 \in Nat \ {0} OBVIOUS
  <2> QED BY <1>1, <1>2, <2>1 DEF Basics
<1>5. Unmoved' BY <1>1 DEF IInv, Unmoved, InLoop, Out
<1>6. Called' BY <1>1, <1>2, <1>3, NoCalls DEF Called, Out
<1>7. Counted' BY <1>1, <1>2 DEF IInv, Counted, InLoop, Out
<1>8. Quiet'
  <2>1. References(basic_blocks, bb) = 1..Len(basic_blocks[bb].succ)
    BY <1>2, <1>3, GraphBlocks DEF Basics, References
  <2>2. \A k \in References(basic_blocks, bb) : ~(k < 1) BY <2>1
  <2> QED BY <1>1, <2>2 DEF IInv, Quiet, InLoop, Out
<1>9. Keeping' /\ Ended' BY <1>1 DEF Keeping, Ended
<1> QED BY <1>4, <1>5, <1>6, <1>7, <1>8, <1>9 DEF IInv

\* What a step between two calls starts from.
LEMMA AtCall ==
  ASSUME IInv, InChain
  PROVE  /\ bb \in DOMAIN basic_blocks /\ successor \in References(basic_blocks, bb)
         /\ IsGraph(basic_blocks) /\ DOMAIN basic_blocks = Indices(source)
         /\ IsChain(basic_blocks, bb, successor, chain) /\ chain \in Seq(DOMAIN basic_blocks)
         /\ Target = Edge(basic_blocks, Link(bb, successor, chain, Len(chain) + 1))
         /\ Counting(preorder(source), pred_count, basic_blocks)
         /\ \A i \in 1..(Len(chain) + 1) :
              /\ IsEdge(basic_blocks, Link(bb, successor, chain, i))
              /\ Link(bb, successor, chain, i)[1] \in Alive(preorder(source), pred_count, basic_blocks)
         /\ Target \in DOMAIN basic_blocks /\ pred_count[Target] # 0
         /\ Len(chain) \in Nat
<1>1. phase \in {"follow", "return"} /\ successor \in References(basic_blocks, bb) BY DEF InChain
<1>2. /\ Basics /\ bb \in Indices(source) /\ IsChain(basic_blocks, bb, successor, chain)
      /\ Counting(preorder(source), pred_count, basic_blocks) /\ pred_count[bb] # 0
      /\ \A i \in DOMAIN chain : pred_count[chain[i]] # 0
  BY <1>1 DEF IInv, Called, Counted, InLoop, Out
<1>3. IsGraph(basic_blocks) /\ DOMAIN basic_blocks = Indices(source)
  BY <1>1, <1>2, SourceIsGraph DEF Basics
<1>4. chain \in Seq(DOMAIN basic_blocks) BY <1>2 DEF IsChain
<1>5. Target = Edge(basic_blocks, Link(bb, successor, chain, Len(chain) + 1))
  BY <1>4, StartIsLink DEF Target, Edge
<1>6. Len(chain) \in Nat /\ DOMAIN chain = 1..Len(chain) BY <1>4
<1>7. ASSUME NEW i \in 1..(Len(chain) + 1)
      PROVE  /\ IsEdge(basic_blocks, Link(bb, successor, chain, i))
             /\ Link(bb, successor, chain, i)[1] \in Alive(preorder(source), pred_count, basic_blocks)
  <2> DEFINE x == IF i = 1 THEN bb ELSE chain[i - 1]
  <2>1. /\ IsEdge(basic_blocks, Link(bb, successor, chain, i))
        /\ Link(bb, successor, chain, i)[1] = x
    BY <1>1, <1>2, <1>3, LinksAreEdges
  <2>2. i # 1 => i - 1 \in DOMAIN chain BY <1>6
  <2>3. x \in DOMAIN basic_blocks /\ pred_count[x] # 0 BY <1>2, <1>3, <1>4, <2>2
  <2>4. x \in Alive(preorder(source), pred_count, basic_blocks)
    <3> HIDE DEF x
    <3> QED BY <1>2, <2>3 DEF Counting, Alive
  <2> QED BY <2>1, <2>4
<1>8. Target \in DOMAIN basic_blocks /\ pred_count[Target] # 0
  <2> DEFINE c == Link(bb, successor, chain, Len(chain) + 1)
  <2>1. Len(chain) + 1 \in 1..(Len(chain) + 1) BY <1>6
  <2>2. IsEdge(basic_blocks, c) /\ c[1] \in Alive(preorder(source), pred_count, basic_blocks)
    BY <1>7, <2>1
  <2> HIDE DEF c
  <2>3. /\ Alive(preorder(source), pred_count, basic_blocks) \in SUBSET DOMAIN basic_blocks
        /\ IsCount(pred_count, basic_blocks, Alive(preorder(source), pred_count, basic_blocks))
    BY <1>2 DEF Counting, Alive
  <2>4. pred_count[Edge(basic_blocks, c)] \in Nat \ {0} /\ Edge(basic_blocks, c) \in DOMAIN basic_blocks
    BY <1>3, <2>2, <2>3, ReferredCounts
  <2> QED BY <1>5, <2>4 DEF c
<1> QED BY <1>1, <1>2, <1>3, <1>4, <1>5, <1>6, <1>7, <1>8

LEMMA FollowInv == ASSUME IInv, Follow PROVE IInv'
<1>1. /\ phase = "follow" /\ phase' = phase /\ InChain /\ Follows
      /\ chain' = Append(chain, Target)
      /\ source' = source /\ basic_blocks' = basic_blocks /\ bb' = bb
      /\ successor' = successor /\ changed' = changed
      /\ pred_count' = pred_count /\ seen' = seen /\ replacements' = replacements
      /\ used_blocks' = used_blocks /\ origin' = origin
  BY DEF Follow, removal
<1>2. /\ bb \in DOMAIN basic_blocks /\ successor \in References(basic_blocks, bb)
      /\ IsGraph(basic_blocks) /\ DOMAIN basic_blocks = Indices(source)
      /\ IsChain(basic_blocks, bb, successor, chain) /\ chain \in Seq(DOMAIN basic_blocks)
      /\ Target = Edge(basic_blocks, Link(bb, successor, chain, Len(chain) + 1))
      /\ Counting(preorder(source), pred_count, basic_blocks)
      /\ Target \in DOMAIN basic_blocks /\ pred_count[Target] # 0
  BY <1>1, AtCall
<1>3. EmptyJump(basic_blocks, Target) /\ Target # bb /\ \A i \in DOMAIN chain : chain[i] # Target
  BY <1>1 DEF Follows, ToSet
<1>4. IsChain(basic_blocks, bb, successor, Append(chain, Target))
  BY <1>2, <1>3, ChainGrows
<1>5. Basics' BY <1>1 DEF IInv, Basics
<1>6. Unmoved' BY <1>1 DEF IInv, Unmoved, InLoop, Out
<1>7. Called' BY <1>1, <1>2, <1>4 DEF Called, Out
<1>8. Counted'
  <2>1. \A i \in DOMAIN Append(chain, Target) : pred_count[Append(chain, Target)[i]] # 0
    <3>1. \A i \in DOMAIN chain : pred_count[chain[i]] # 0 BY <1>1 DEF IInv, Counted, InLoop, Out
    <3>2. \A i \in DOMAIN Append(chain, Target) :
            \/ i \in DOMAIN chain /\ Append(chain, Target)[i] = chain[i]
            \/ Append(chain, Target)[i] = Target
      BY <1>2
    <3> QED BY <1>2, <3>1, <3>2
  <2> QED BY <1>1, <2>1 DEF IInv, Counted, InLoop, Out
<1>9. Quiet' BY <1>1 DEF IInv, Quiet, InLoop, Out
<1>10. Keeping' /\ Ended' BY <1>1 DEF Keeping, Ended
<1> QED BY <1>5, <1>6, <1>7, <1>8, <1>9, <1>10 DEF IInv

LEMMA NextSuccessorInv == ASSUME IInv, NextSuccessor PROVE IInv'
<1>1. /\ InChain /\ (phase = "return" \/ ~Follows) /\ phase' = "follow" /\ chain = << >>
      /\ successor' = successor + 1 /\ chain' = chain
      /\ source' = source /\ basic_blocks' = basic_blocks /\ bb' = bb
      /\ changed' = changed
      /\ pred_count' = pred_count /\ seen' = seen /\ replacements' = replacements
      /\ used_blocks' = used_blocks /\ origin' = origin
  BY DEF NextSuccessor, removal
<1>2. /\ bb \in DOMAIN basic_blocks /\ successor \in References(basic_blocks, bb)
      /\ IsGraph(basic_blocks) /\ DOMAIN basic_blocks = Indices(source)
      /\ Target = Edge(basic_blocks, Link(bb, successor, chain, Len(chain) + 1))
  BY <1>1, AtCall
<1>3. phase \in {"follow", "return"} BY <1>1 DEF InChain
<1>4. Target = basic_blocks[bb].succ[successor]
  <2>1. Len(chain) + 1 = 1 BY <1>1
  <2> QED BY <1>2, <2>1 DEF Edge, Link
<1>5. Basics'
  <2>1. successor + 1 \in Nat \ {0} BY DEF IInv, Basics
  <2> QED BY <1>1, <1>3, <2>1 DEF IInv, Basics
<1>6. Unmoved' BY <1>1, <1>3 DEF IInv, Unmoved, InLoop, Out
<1>7. Called' BY <1>1, <1>2, NoCalls DEF Called, Out
<1>8. Counted' BY <1>1, <1>3 DEF IInv, Counted, InLoop, Out
<1>9. Quiet'
  <2>1. References(basic_blocks, bb) = 1..Len(basic_blocks[bb].succ)
    BY <1>2, GraphBlocks DEF References
  <2>2. \A k \in References(basic_blocks, bb) : k < successor + 1 => k < successor \/ k = successor
    BY <1>2, <2>1
  <2>3. ASSUME ~changed PROVE EdgeSimple(basic_blocks, bb, Target)
    <3>1. CASE phase = "return"
      <4>1. LoopsAt(basic_blocks, bb, successor, chain) BY <2>3, <3>1 DEF IInv, Quiet, InLoop, Out
      <4>2. basic_blocks[Target].succ = <<Target>> BY <1>2, <4>1 DEF LoopsAt
      <4> QED BY <4>2 DEF EdgeSimple
    <3>2. CASE ~Follows
      <4>1. ToSet(chain) = {} BY <1>1 DEF ToSet
      <4> QED BY <3>2, <4>1 DEF EdgeSimple, Follows
    <3> QED BY <1>1, <3>1, <3>2
  <2> QED BY <1>1, <1>3, <1>4, <2>2, <2>3 DEF IInv, Quiet, InLoop, Out
<1>10. Keeping' /\ Ended' BY <1>1 DEF Keeping, Ended
<1> QED BY <1>5, <1>6, <1>7, <1>8, <1>9, <1>10 DEF IInv

LEMMA NextPassInv == ASSUME IInv, NextPass PROVE IInv'
<1>1. /\ phase = "simplify" /\ phase' = phase /\ bb' = START_BLOCK /\ changed' = FALSE
      /\ source' = source /\ basic_blocks' = basic_blocks
      /\ successor' = successor /\ chain' = chain
      /\ pred_count' = pred_count /\ seen' = seen /\ replacements' = replacements
      /\ used_blocks' = used_blocks /\ origin' = origin
  BY DEF NextPass, calls, removal
<1>2. Basics /\ chain = << >> BY <1>1 DEF IInv, Called, Out
<1>3. START_BLOCK \in Indices(source) /\ Indices(source) = 1..Len(source) /\ Len(source) \in Nat
  BY <1>2, SourceIsGraph
<1>4. Basics'
  <2>1. START_BLOCK \in 1..(Len(source) + 1) BY <1>3
  <2>2. FALSE \in BOOLEAN OBVIOUS
  <2> QED BY <1>1, <1>2, <2>1, <2>2 DEF Basics
<1>5. Unmoved' BY <1>1 DEF IInv, Unmoved, InLoop, Out
<1>6. Called' BY <1>1, <1>2 DEF Called, Out
<1>7. Counted' BY <1>1, <1>2 DEF IInv, Counted, InLoop, Out
<1>8. Quiet'
  <2>1. \A b \in Indices(source) : ~(b < START_BLOCK) BY <1>3 DEF START_BLOCK
  <2> QED BY <1>1, <2>1 DEF Quiet, InLoop, Out
<1>9. Keeping' /\ Ended' BY <1>1 DEF Keeping, Ended
<1> QED BY <1>4, <1>5, <1>6, <1>7, <1>8, <1>9 DEF IInv

LEMMA CollapseInv == ASSUME IInv, Collapse PROVE IInv'
<1> DEFINE n == Len(chain)
           c == Link(bb, successor, chain, n)
           L == chain[n]
           P == preorder(source)
<1>1. /\ InChain /\ (phase = "return" \/ ~Follows) /\ phase' = "return" /\ chain # << >>
      /\ LET caller == StartOf(Front(chain))
         IN basic_blocks' = [basic_blocks EXCEPT ![caller[1]].succ[caller[2]] = Target]
      /\ pred_count' = MoveReference(Last(chain), Target)
      /\ changed' = (changed \/ Last(chain) # Target)
      /\ chain' = Front(chain)
      /\ source' = source /\ bb' = bb /\ successor' = successor
      /\ seen' = seen /\ replacements' = replacements
      /\ used_blocks' = used_blocks /\ origin' = origin
  BY DEF Collapse, removal
<1>2. /\ bb \in DOMAIN basic_blocks /\ successor \in References(basic_blocks, bb)
      /\ IsGraph(basic_blocks) /\ DOMAIN basic_blocks = Indices(source)
      /\ IsChain(basic_blocks, bb, successor, chain) /\ chain \in Seq(DOMAIN basic_blocks)
      /\ Target = Edge(basic_blocks, Link(bb, successor, chain, n + 1))
      /\ Counting(P, pred_count, basic_blocks)
      /\ \A i \in 1..(n + 1) :
           /\ IsEdge(basic_blocks, Link(bb, successor, chain, i))
           /\ Link(bb, successor, chain, i)[1] \in Alive(P, pred_count, basic_blocks)
      /\ Target \in DOMAIN basic_blocks
  BY <1>1, AtCall
<1>3. phase \in {"follow", "return"} /\ Basics /\ Unmoved /\ Counted /\ Quiet
  BY <1>1 DEF InChain, IInv
<1>4. /\ n \in Nat \ {0} /\ DOMAIN chain = 1..n /\ Last(chain) = L /\ L \in DOMAIN basic_blocks
      /\ Front(chain) \in Seq(DOMAIN basic_blocks) /\ Len(Front(chain)) = n - 1
      /\ DOMAIN Front(chain) = 1..(n - 1)
      /\ \A i \in 1..(n - 1) : Front(chain)[i] = chain[i]
  BY <1>1, <1>2, ChainSequence
<1>5. /\ EmptyJump(basic_blocks, L) /\ Edge(basic_blocks, c) = L /\ L # bb
      /\ \A i \in 1..(n - 1) : chain[i] # L
  BY <1>2, <1>4 DEF IsChain
<1>6. /\ IsEdge(basic_blocks, c) /\ c[1] \in Alive(P, pred_count, basic_blocks)
      /\ c[1] # L /\ (c[1] = bb \/ \E i \in 1..(n - 1) : c[1] = chain[i])
  <2>1. n \in 1..(n + 1) BY <1>4
  <2>2. n # 1 => n - 1 \in 1..(n - 1) BY <1>4
  <2>3. c[1] = IF n = 1 THEN bb ELSE chain[n - 1] BY DEF Link
  <2> HIDE DEF c, L, P
  <2> QED BY <1>2, <1>5, <2>1, <2>2, <2>3 DEF c, P, L
<1>7. Target = basic_blocks[L].succ[1]
  <2>1. n + 1 # 1 /\ (n + 1) - 1 = n BY <1>4
  <2>2. Link(bb, successor, chain, n + 1) = <<L, 1>> BY <2>1 DEF Link
  <2> QED BY <1>2, <2>2 DEF Edge
<1>8. StartOf(Front(chain)) = c
  <2>1. StartOf(Front(chain)) = Link(bb, successor, Front(chain), (n - 1) + 1)
    BY <1>4, StartIsLink
  <2>2. (n - 1) + 1 = n BY <1>4
  <2>3. n # 1 => Front(chain)[n - 1] = chain[n - 1] BY <1>4
  <2> QED BY <2>1, <2>2, <2>3 DEF Link
<1>9. /\ basic_blocks' = Redirected(basic_blocks, c, Target)
      /\ pred_count' = Moved(pred_count, L, Target)
      /\ changed' = (changed \/ L # Target)
  BY <1>1, <1>4, <1>8 DEF Redirected, MoveReference, Moved
<1> HIDE DEF c, L, n, P
<1>10. /\ Counting(P, pred_count', basic_blocks')
       /\ \A b \in DOMAIN basic_blocks : pred_count[b] # 0 /\ pred_count'[b] = 0 => b = L
       /\ Target = L => pred_count' = pred_count /\ basic_blocks' = basic_blocks
  BY <1>2, <1>5, <1>6, <1>7, <1>9, MovedCounts
<1>11. /\ IsGraph(basic_blocks') /\ DOMAIN basic_blocks' = DOMAIN basic_blocks
       /\ Len(basic_blocks') = Len(basic_blocks)
       /\ \A b \in DOMAIN basic_blocks :
            /\ basic_blocks'[b].stmts = basic_blocks[b].stmts
            /\ References(basic_blocks', b) = References(basic_blocks, b)
  BY <1>2, <1>6, <1>9, RedirectedBlocks
<1>12. Basics'
  <2>1. pred_count' \in [Indices(source) -> Nat] BY <1>2, <1>10, <1>11 DEF Counting
  <2>2. changed' \in BOOLEAN BY <1>9
  <2>3. phase' \in {"count", "simplify", "follow", "return", "keep", "done"} /\ phase # "done"
    BY <1>1, <1>3
  <2> QED BY <1>1, <1>3, <1>11, <2>1, <2>2, <2>3 DEF Basics
<1>13. Unmoved'
  <2>1. /\ FlowOf(basic_blocks, origin, source)
        /\ \A b \in Indices(source) : basic_blocks[b].stmts = source[b].stmts
        /\ origin = Same(source) /\ replacements = Same(source) /\ used_blocks = 0
    BY <1>3 DEF Unmoved, InLoop, Out
  <2>2. SkipsOver(basic_blocks, basic_blocks', L, Target)
    BY <1>2, <1>4, <1>5, <1>6, <1>7, <1>9, RedirectedSkips
  <2>3. IsClosedGraph(basic_blocks) /\ IsClosedGraph(basic_blocks') /\ START_BLOCK \in DOMAIN basic_blocks
    BY <1>2, <1>11, GraphBlocks
  <2>4. FlowOf(basic_blocks', origin, source) BY <2>1, <2>2, <2>3, SkipFlow
  <2>5. \A b \in Indices(source) : basic_blocks'[b].stmts = source[b].stmts
    BY <1>2, <1>11, <2>1
  <2>6. /\ origin' = origin /\ replacements' = replacements /\ used_blocks' = used_blocks
        /\ source' = source /\ phase' # "count"
    BY <1>1
  <2> QED BY <2>1, <2>4, <2>5, <2>6 DEF Unmoved
<1>14. Called'
  <2>1. IsChain(basic_blocks', bb, successor, Front(chain))
    <3>1. c = Link(bb, successor, chain, Len(chain)) BY DEF c, n
    <3>2. chain # << >> BY <1>1
    <3>3. IsChain(Redirected(basic_blocks, Link(bb, successor, chain, Len(chain)), Target),
                  bb, successor, Front(chain))
      BY <1>2, <3>2, ChainShortens
    <3> QED BY <1>9, <3>1, <3>3
  <2>2. successor \in References(basic_blocks', bb) BY <1>2, <1>11
  <2>3. bb \in Indices(source) BY <1>2
  <2> QED BY <1>1, <2>1, <2>2, <2>3 DEF Called, Out
<1>15. Counted'
  <2>1. pred_count[bb] # 0 /\ \A i \in DOMAIN chain : pred_count[chain[i]] # 0
    BY <1>3 DEF Counted, InLoop, Out
  <2>2. pred_count'[bb] # 0 BY <1>2, <1>5, <1>10, <2>1
  <2>3. \A i \in DOMAIN Front(chain) : pred_count'[Front(chain)[i]] # 0
    <3>1. \A i \in 1..(n - 1) : i \in DOMAIN chain /\ chain[i] \in DOMAIN basic_blocks
      BY <1>2, <1>4
    <3> QED BY <1>4, <1>5, <1>10, <2>1, <3>1
  <2> QED BY <1>1, <1>10, <2>2, <2>3 DEF Counted, InLoop, Out, P
<1>16. Quiet'
  <2> SUFFICES ASSUME ~changed'
               PROVE  /\ \A b \in Indices(source) : b < bb /\ pred_count'[b] # 0 => BlockSimple(basic_blocks', b)
                      /\ \A k \in References(basic_blocks', bb) :
                           k < successor => EdgeSimple(basic_blocks', bb, basic_blocks'[bb].succ[k])
                      /\ LoopsAt(basic_blocks', bb, successor, Front(chain))
    BY <1>1 DEF Quiet, InLoop, Out
  <2>1. Target = L /\ ~changed BY <1>9
  <2>2. pred_count' = pred_count /\ basic_blocks' = basic_blocks BY <1>10, <2>1
  <2>3. /\ \A b \in Indices(source) : b < bb /\ pred_count[b] # 0 => BlockSimple(basic_blocks, b)
        /\ \A k \in References(basic_blocks, bb) :
             k < successor => EdgeSimple(basic_blocks, bb, basic_blocks[bb].succ[k])
    BY <1>3, <2>1 DEF Quiet, InLoop, Out
  <2>4. basic_blocks[L].succ = <<L>>
    <3>1. basic_blocks[L].succ = <<basic_blocks[L].succ[1]>> BY <1>2, <1>4, <1>5, JumpTarget
    <3> QED BY <1>7, <2>1, <3>1
  <2>5. Edge(basic_blocks, Link(bb, successor, Front(chain), Len(Front(chain)) + 1)) = L
    <3>1. StartOf(Front(chain)) = Link(bb, successor, Front(chain), Len(Front(chain)) + 1)
      BY <1>4, StartIsLink
    <3> QED BY <1>5, <1>8, <3>1
  <2>6. LoopsAt(basic_blocks, bb, successor, Front(chain))
    BY <1>4, <1>5, <2>4, <2>5 DEF LoopsAt
  <2> QED BY <2>2, <2>3, <2>6
<1>17. Keeping' /\ Ended' BY <1>1 DEF Keeping, Ended
<1> QED BY <1>12, <1>13, <1>14, <1>15, <1>16, <1>17 DEF IInv

LEMMA PutBackInv == ASSUME IInv, PutBack PROVE IInv'
<1> DEFINE op == basic_blocks[bb].op
           succ == basic_blocks[bb].succ
           same == SameTargets(op, succ)
           P == preorder(source)
<1>1. /\ phase = "follow" /\ successor \notin DOMAIN succ
      /\ basic_blocks' = IF same THEN Merged(basic_blocks, bb) ELSE basic_blocks
      /\ pred_count' = IF same THEN [pred_count EXCEPT ![succ[1]] = @ - (Len(succ) - 1)] ELSE pred_count
      /\ changed' = (changed \/ same)
      /\ phase' = "simplify" /\ bb' = bb + 1
      /\ source' = source /\ successor' = successor /\ chain' = chain
      /\ seen' = seen /\ replacements' = replacements
      /\ used_blocks' = used_blocks /\ origin' = origin
  BY DEF PutBack, Merged, calls, removal
<1>2. Basics /\ Unmoved /\ Called /\ Counted /\ Quiet BY DEF IInv
<1>3. /\ IsGraph(basic_blocks) /\ DOMAIN basic_blocks = Indices(source)
      /\ bb \in DOMAIN basic_blocks /\ chain = << >>
      /\ Counting(P, pred_count, basic_blocks) /\ pred_count[bb] # 0
      /\ Indices(source) = 1..Len(source) /\ Len(source) \in Nat
  <2>1. IsGraph(basic_blocks) /\ DOMAIN basic_blocks = Indices(source)
    BY <1>1, <1>2, SourceIsGraph DEF Basics
  <2>2. bb \in Indices(source) /\ chain = << >> BY <1>1, <1>2 DEF Called, Out, References
  <2>3. Counting(P, pred_count, basic_blocks) /\ pred_count[bb] # 0
    BY <1>1, <1>2 DEF Counted, InLoop, Out
  <2> QED BY <1>2, <2>1, <2>2, <2>3, SourceIsGraph
<1>4. bb \in Alive(P, pred_count, basic_blocks) BY <1>3 DEF Counting, Alive
<1>5. /\ IsGraph(basic_blocks') /\ DOMAIN basic_blocks' = DOMAIN basic_blocks
      /\ Len(basic_blocks') = Len(basic_blocks)
      /\ \A b \in DOMAIN basic_blocks :
           /\ basic_blocks'[b].stmts = basic_blocks[b].stmts
           /\ Visible(basic_blocks', b) = Visible(basic_blocks, b)
           /\ ToSet(basic_blocks'[b].succ) = ToSet(basic_blocks[b].succ)
  <2>1. CASE same
    <3>1. basic_blocks' = Merged(basic_blocks, bb) BY <1>1, <2>1
    <3> QED BY <1>3, <2>1, <3>1, MergedBlocks
  <2>2. CASE ~same
    <3>1. basic_blocks' = basic_blocks BY <1>1, <2>2
    <3> QED BY <1>3, <3>1
  <2> QED BY <2>1, <2>2
<1>6. Counting(P, pred_count', basic_blocks')
  <2>1. CASE same
    <3>1. /\ basic_blocks' = Merged(basic_blocks, bb)
          /\ pred_count' = [pred_count EXCEPT ![basic_blocks[bb].succ[1]] = @ - (Len(basic_blocks[bb].succ) - 1)]
      BY <1>1, <2>1
    <3> QED BY <1>3, <1>4, <2>1, <3>1, MergedCounts
  <2>2. CASE ~same BY <1>1, <1>3, <2>2
  <2> QED BY <2>1, <2>2
<1>7. changed' \in BOOLEAN /\ (~changed' => ~changed /\ ~same) BY <1>1
<1>8. Basics'
  <2>1. pred_count' \in [Indices(source) -> Nat] BY <1>3, <1>5, <1>6 DEF Counting
  <2>2. bb + 1 \in 1..(Len(source) + 1) BY <1>3
  <2> HIDE DEF same, op, succ
  <2> QED BY <1>1, <1>2, <1>5, <1>7, <2>1, <2>2 DEF Basics
<1>9. Unmoved'
  <2>1. /\ FlowOf(basic_blocks, origin, source)
        /\ \A b \in Indices(source) : basic_blocks[b].stmts = source[b].stmts
        /\ origin = Same(source) /\ replacements = Same(source) /\ used_blocks = 0
    BY <1>1, <1>2 DEF Unmoved, InLoop, Out
  <2>2. IsClosedGraph(basic_blocks) /\ IsClosedGraph(basic_blocks') /\ START_BLOCK \in DOMAIN basic_blocks
    BY <1>3, <1>5, GraphBlocks
  <2>3. FlowOf(basic_blocks', origin, source) BY <1>5, <2>1, <2>2, SameFlow
  <2>4. \A b \in Indices(source) : basic_blocks'[b].stmts = source[b].stmts
    BY <1>3, <1>5, <2>1
  <2>5. /\ origin' = origin /\ replacements' = replacements /\ used_blocks' = used_blocks
        /\ source' = source /\ phase' # "count"
    BY <1>1
  <2> QED BY <2>1, <2>3, <2>4, <2>5 DEF Unmoved
<1>10. Called' BY <1>1, <1>3 DEF Called, Out
<1>11. Counted' BY <1>1, <1>3, <1>6 DEF Counted, InLoop, Out
<1>12. Quiet'
  <2> SUFFICES ASSUME ~changed'
               PROVE  \A b \in Indices(source) : b < bb + 1 /\ pred_count'[b] # 0 => BlockSimple(basic_blocks', b)
    BY <1>1 DEF Quiet, InLoop, Out
  <2>1. ~same /\ ~changed BY <1>7
  <2>2. pred_count' = pred_count /\ basic_blocks' = basic_blocks BY <1>1, <2>1
  <2>3. /\ \A b \in Indices(source) : b < bb /\ pred_count[b] # 0 => BlockSimple(basic_blocks, b)
        /\ \A k \in References(basic_blocks, bb) :
             k < successor => EdgeSimple(basic_blocks, bb, basic_blocks[bb].succ[k])
    BY <1>1, <1>2, <2>1 DEF Quiet, InLoop, Out
  <2>4. \A k \in References(basic_blocks, bb) : k < successor
    <3>1. References(basic_blocks, bb) = 1..Len(succ) /\ Len(succ) \in Nat
      BY <1>3, GraphBlocks DEF References
    <3>2. successor \in Nat \ {0} BY <1>2 DEF Basics
    <3>3. successor \notin References(basic_blocks, bb) BY <1>1 DEF References
    <3> HIDE DEF succ
    <3> QED BY <3>1, <3>2, <3>3
  <2>5. BlockSimple(basic_blocks, bb) BY <2>1, <2>3, <2>4 DEF BlockSimple
  <2>6. \A b \in Indices(source) : b < bb + 1 => b < bb \/ b = bb BY <1>3
  <2> QED BY <2>2, <2>3, <2>5, <2>6
<1>13. Keeping' /\ Ended' BY <1>1 DEF Keeping, Ended
<1> QED BY <1>8, <1>9, <1>10, <1>11, <1>12, <1>13 DEF IInv

LEMMA FindAliveInv == ASSUME IInv, FindAlive PROVE IInv'
<1> DEFINE S == preorder(basic_blocks)
           K == KeptOf(basic_blocks, S, replacements)
<1>1. /\ phase = "simplify" /\ bb \notin Indices(basic_blocks) /\ ~changed
      /\ phase' = "keep" /\ seen' = S /\ bb' = START_BLOCK
      /\ source' = source /\ basic_blocks' = basic_blocks
      /\ successor' = successor /\ chain' = chain /\ changed' = changed
      /\ pred_count' = pred_count /\ replacements' = replacements
      /\ used_blocks' = used_blocks /\ origin' = origin
  BY DEF FindAlive, calls
<1>2. Basics /\ Unmoved /\ Counted /\ Quiet /\ chain = << >> BY <1>1 DEF IInv, Called, Out
<1>3. /\ IsGraph(basic_blocks) /\ DOMAIN basic_blocks = Indices(source)
      /\ Indices(source) = 1..Len(source) /\ Len(source) \in Nat \ {0} /\ START_BLOCK \in Indices(source)
  BY <1>1, <1>2, SourceIsGraph DEF Basics
<1>4. /\ S \subseteq Indices(source) /\ START_BLOCK \in S
      /\ \A b \in S : \A k \in References(basic_blocks, b) : basic_blocks[b].succ[k] \in S
  BY <1>3, Preorder
<1>5. /\ replacements = Same(source) /\ origin = Same(source) /\ used_blocks = 0
      /\ FlowOf(basic_blocks, origin, source)
  BY <1>1, <1>2 DEF Unmoved, InLoop, Out
<1>6. Simple(basic_blocks)
  <2>1. Counting(preorder(source), pred_count, basic_blocks)
    BY <1>1, <1>2 DEF Counted, InLoop, Out
  <2>2. \A b \in From(basic_blocks, {START_BLOCK}) : b \in DOMAIN basic_blocks /\ pred_count[b] # 0
    BY <1>3, <2>1, ReachableCounts
  <2>3. \A b \in Indices(source) : b < bb
    <3>1. bb \in 1..(Len(source) + 1) /\ bb \notin 1..Len(source)
      BY <1>1, <1>2, <1>3 DEF Basics, Indices
    <3> QED BY <1>3, <3>1
  <2>4. \A b \in Indices(source) : b < bb /\ pred_count[b] # 0 => BlockSimple(basic_blocks, b)
    BY <1>1, <1>2 DEF Quiet, InLoop, Out
  <2> QED BY <1>3, <2>2, <2>3, <2>4 DEF Simple
<1>7. FlowOf(K, Same(K), source) /\ Simple(K) /\ NoneDead(K)
  <2>1. Same(source) = Same(basic_blocks) BY <1>3 DEF Same, Indices
  <2>2. replacements = Same(basic_blocks) /\ FlowOf(basic_blocks, replacements, source)
    BY <1>5, <2>1
  <2> HIDE DEF S
  <2>3. S = preorder(basic_blocks) BY DEF S
  <2> QED BY <1>3, <1>6, <2>2, <2>3, KeptAtFirst
<1>8. Kept' = K BY <1>1 DEF Kept
<1>9. Basics'
  <2>1. START_BLOCK \in 1..(Len(source) + 1) BY <1>3
  <2> HIDE DEF S
  <2> QED BY <1>1, <1>2, <1>4, <2>1 DEF Basics
<1>10. Unmoved' /\ Counted' /\ Quiet' /\ Ended' /\ Called'
  BY <1>1, <1>2 DEF Unmoved, Counted, Quiet, Ended, Called, InLoop, Out
<1>11. Keeping'
  <2>1. \A a \in Indices(source) : replacements[a] = a /\ origin[a] = a /\ ~(a < START_BLOCK)
    BY <1>3, <1>5 DEF Same, Indices, START_BLOCK
  <2>2. \A a \in S : K[a] = basic_blocks[a] BY <1>4, <2>1 DEF KeptOf
  <2>3. \A a \in S : \A k \in DOMAIN K[a].succ : K[a].succ[k] \in S
    BY <1>4, <2>2 DEF References
  <2>4. used_blocks < START_BLOCK BY <1>5 DEF START_BLOCK
  <2>5. 1..used_blocks = {} BY <1>5
  <2> HIDE DEF S, K
  <2> QED BY <1>1, <1>4, <1>7, <1>8, <2>1, <2>3, <2>4, <2>5 DEF Keeping
<1> QED BY <1>9, <1>10, <1>11 DEF IInv

IsSwap(D, s, i, j, t) ==
  /\ t \in Seq(D) /\ Len(t) = Len(s) /\ DOMAIN t = DOMAIN s
  /\ t[j] = s[i]
  /\ \A k \in DOMAIN s : k # i /\ k # j => t[k] = s[k]
  /\ \A k \in DOMAIN s : \E m \in DOMAIN s : t[k] = s[m]

LEMMA SwappedBlocks ==
  ASSUME NEW D, NEW s \in Seq(D), NEW i \in DOMAIN s, NEW j \in DOMAIN s
  PROVE  IsSwap(D, s, i, j, Swapped(s, i, j))
BY DEF Swapped, IsSwap

LEMMA KeepBlockInv == ASSUME IInv, KeepBlock PROVE IInv'
<1>1. /\ phase = "keep" /\ phase' = phase
      /\ used_blocks' = used_blocks + 1
      /\ source' = source /\ successor' = successor /\ chain' = chain /\ changed' = changed
      /\ pred_count' = pred_count /\ seen' = seen
  BY DEF KeepBlock, calls
<1>2. PICK alive \in seen :
        /\ alive >= bb /\ \A b \in seen : b >= bb => alive <= b
        /\ replacements' = [replacements EXCEPT ![alive] = used_blocks + 1]
        /\ basic_blocks' = Swapped(basic_blocks, alive, used_blocks + 1)
        /\ origin' = Swapped(origin, alive, used_blocks + 1)
        /\ bb' = alive + 1
  BY DEF KeepBlock
<1> DEFINE N == Len(source)
           u == used_blocks
<1>3. Basics /\ Keeping /\ chain = << >> BY <1>1 DEF IInv, Called, Out
<1>4. /\ IsGraph(basic_blocks) /\ DOMAIN basic_blocks = 1..N /\ Len(basic_blocks) = N
      /\ Indices(source) = 1..N /\ N \in Nat \ {0}
  BY <1>1, <1>3, SourceIsGraph DEF Basics
<1>5. /\ bb \in 1..(N + 1) /\ seen \subseteq 1..N /\ replacements \in [1..N -> 1..N]
      /\ u \in 0..N /\ origin \in [1..N -> 1..N]
  BY <1>3, <1>4 DEF Basics
<1>6. /\ u < bb
      /\ START_BLOCK \in seen /\ replacements[START_BLOCK] = START_BLOCK
      /\ \A a \in seen :
           /\ a < bb => replacements[a] \in 1..u
           /\ a >= bb => replacements[a] = a
           /\ origin[replacements[a]] = a
           /\ \A k \in DOMAIN Kept[a].succ : Kept[a].succ[k] \in seen
      /\ \A i \in 1..u : \E a \in seen : a < bb /\ replacements[a] = i
      /\ FlowOf(Kept, Same(Kept), source)
      /\ Simple(Kept)
      /\ NoneDead(Kept)
  BY <1>1, <1>3 DEF Keeping
<1> HIDE DEF N
<1>7. /\ alive \in 1..N /\ u + 1 \in 1..N /\ u + 1 <= alive /\ replacements[alive] = alive
      /\ \A a \in seen : a < bb \/ a = alive \/ (a > alive /\ a >= bb)
  <2>1. alive \in 1..N /\ alive >= bb /\ \A b \in seen : b >= bb => alive <= b BY <1>2, <1>5
  <2>2. u + 1 \in 1..N /\ u + 1 <= alive
    <3>1. N \in Nat /\ bb \in 1..(N + 1) /\ u \in 0..N /\ u < bb BY <1>4, <1>5, <1>6
    <3> HIDE DEF u
    <3> QED BY <2>1, <3>1
  <2>3. replacements[alive] = alive BY <1>6, <2>1
  <2>4. ASSUME NEW a \in seen PROVE a < bb \/ a = alive \/ (a > alive /\ a >= bb)
    <3>1. a \in 1..N BY <1>5
    <3>2. a >= bb => alive <= a BY <2>1
    <3> QED BY <1>4, <1>5, <2>1, <3>1, <3>2
  <2> QED BY <2>1, <2>2, <2>3, <2>4
<1>8. /\ basic_blocks \in Seq(BlockSet(N)) /\ origin \in Seq(1..N)
      /\ Len(origin) = N /\ DOMAIN origin = 1..N
  <2>1. basic_blocks \in Seq(BlockSet(N)) BY <1>4 DEF IsGraph
  <2>2. origin \in Seq(1..N) /\ Len(origin) = N BY <1>4, <1>5, FunctionIsSequence
  <2> QED BY <1>5, <2>1, <2>2
<1>9. /\ basic_blocks' \in Seq(BlockSet(N)) /\ Len(basic_blocks') = N /\ DOMAIN basic_blocks' = 1..N
      /\ basic_blocks'[u + 1] = basic_blocks[alive]
      /\ \A k \in 1..N : k # alive /\ k # u + 1 => basic_blocks'[k] = basic_blocks[k]
      /\ \A k \in 1..N : \E m \in 1..N : basic_blocks'[k] = basic_blocks[m]
  <2> DEFINE v == u + 1
  <2>1. alive \in DOMAIN basic_blocks /\ v \in DOMAIN basic_blocks BY <1>4, <1>7
  <2>2. basic_blocks' = Swapped(basic_blocks, alive, v) BY <1>2
  <2> HIDE DEF v
  <2>3. IsSwap(BlockSet(N), basic_blocks, alive, v, basic_blocks') BY <1>8, <2>1, <2>2, SwappedBlocks
  <2> QED BY <1>4, <2>3 DEF v, IsSwap
<1>10. /\ origin' \in Seq(1..N) /\ Len(origin') = N /\ DOMAIN origin' = 1..N
       /\ origin'[u + 1] = origin[alive]
       /\ \A k \in 1..N : k # alive /\ k # u + 1 => origin'[k] = origin[k]
  <2> DEFINE v == u + 1
  <2>1. alive \in DOMAIN origin /\ v \in DOMAIN origin BY <1>7, <1>8
  <2>2. origin' = Swapped(origin, alive, v) BY <1>2
  <2> HIDE DEF v
  <2>3. IsSwap(1..N, origin, alive, v, origin') BY <1>8, <2>1, <2>2, SwappedBlocks
  <2> QED BY <1>8, <2>3 DEF v, IsSwap
<1>11. /\ replacements' \in [1..N -> 1..N] /\ replacements'[alive] = u + 1
       /\ \A a \in 1..N : a # alive => replacements'[a] = replacements[a]
  BY <1>2, <1>5, <1>7
<1>12. ASSUME NEW a \in seen
       PROVE  /\ a < alive + 1 => replacements'[a] \in 1..(u + 1)
              /\ a >= alive + 1 => replacements'[a] = a
              /\ origin'[replacements'[a]] = a
              /\ basic_blocks'[replacements'[a]] = basic_blocks[replacements[a]]
  <2>1. a \in 1..N /\ origin[replacements[a]] = a BY <1>5, <1>6
  <2>2. CASE a < bb
    <3>1. replacements[a] \in 1..u /\ a # alive BY <1>2, <1>5, <1>6, <1>7, <2>1, <2>2
    <3>2. replacements'[a] = replacements[a] BY <1>11, <2>1, <3>1
    <3>3. replacements[a] \in 1..N /\ replacements[a] # alive /\ replacements[a] # u + 1
      BY <1>5, <1>7, <3>1
    <3>4. a < alive + 1 /\ replacements[a] \in 1..(u + 1) BY <1>2, <1>5, <1>7, <2>1, <2>2, <3>1
    <3>5. ~(a >= alive + 1) BY <1>7, <2>1, <3>4
    <3> QED BY <1>9, <1>10, <2>1, <3>2, <3>3, <3>4, <3>5
  <2>3. CASE a = alive
    <3>1. replacements'[a] = u + 1 /\ u + 1 \in 1..(u + 1) /\ ~(a >= alive + 1)
      BY <1>5, <1>7, <1>11, <2>3
    <3>2. replacements[a] = alive BY <1>7, <2>3
    <3> QED BY <1>9, <1>10, <2>1, <2>3, <3>1, <3>2
  <2>4. CASE a > alive /\ a >= bb
    <3>1. replacements[a] = a /\ a # alive /\ a # u + 1 BY <1>5, <1>6, <1>7, <2>1, <2>4
    <3>2. replacements'[a] = a BY <1>11, <2>1, <3>1
    <3>3. ~(a < alive + 1) BY <1>7, <2>1, <2>4
    <3> QED BY <1>9, <1>10, <2>1, <3>1, <3>2, <3>3
  <2> QED BY <1>7, <2>2, <2>3, <2>4
<1>13. Kept' = Kept BY <1>1, <1>12 DEF Kept, KeptOf
<1>14. IsGraph(basic_blocks')
  <2>1. \A k \in 1..N : basic_blocks[k].op = "Goto" => Len(basic_blocks[k].succ) = 1
    BY <1>4 DEF IsGraph
  <2>2. ASSUME NEW k \in 1..N, basic_blocks'[k].op = "Goto" PROVE Len(basic_blocks'[k].succ) = 1
    <3>1. PICK m \in 1..N : basic_blocks'[k] = basic_blocks[m] BY <1>9
    <3> QED BY <2>1, <2>2, <3>1
  <2> QED BY <1>4, <1>9, <2>2 DEF IsGraph
<1>15. Basics'
  <2>1. /\ bb' \in 1..(N + 1) /\ used_blocks' \in 0..N
    BY <1>1, <1>2, <1>4, <1>7
  <2>2. replacements' \in [1..N -> 1..N] /\ origin' \in [1..N -> 1..N]
    BY <1>10, <1>11
  <2> QED BY <1>1, <1>3, <1>4, <1>9, <1>14, <2>1, <2>2 DEF Basics, N
<1>16. Unmoved' /\ Counted' /\ Quiet' /\ Ended' /\ Called'
  BY <1>1, <1>3 DEF Unmoved, Counted, Quiet, Ended, Called, InLoop, Out
<1>17. Keeping'
  <2>1. replacements'[START_BLOCK] = START_BLOCK
    <3>1. CASE alive = START_BLOCK
      <4>1. u + 1 = START_BLOCK BY <1>5, <1>7, <3>1 DEF START_BLOCK
      <4> QED BY <1>11, <3>1, <4>1
    <3>2. CASE alive # START_BLOCK BY <1>5, <1>6, <1>11, <3>2
    <3> QED BY <3>1, <3>2
  <2>2. ASSUME NEW i \in 1..(u + 1) PROVE \E a \in seen : a < alive + 1 /\ replacements'[a] = i
    <3>1. CASE i \in 1..u
      <4>1. PICK a \in seen : a < bb /\ replacements[a] = i BY <1>6, <3>1
      <4>2. a \in 1..N /\ a # alive /\ a < alive + 1 BY <1>2, <1>5, <1>7, <4>1
      <4> QED BY <1>11, <4>1, <4>2
    <3>2. CASE i = u + 1
      <4>1. alive < alive + 1 BY <1>7
      <4> QED BY <1>11, <3>2, <4>1
    <3> QED BY <1>5, <3>1, <3>2
  <2>3. used_blocks' < bb' BY <1>1, <1>2, <1>5, <1>7
  <2>4. \A a \in seen : \A k \in DOMAIN Kept'[a].succ : Kept'[a].succ[k] \in seen
    BY <1>6, <1>13
  <2>5. FlowOf(Kept', Same(Kept'), source) /\ Simple(Kept') /\ NoneDead(Kept') BY <1>6, <1>13
  <2>6. bb' = alive + 1 /\ used_blocks' = u + 1 /\ seen' = seen /\ source' = source BY <1>1, <1>2
  <2> HIDE DEF u
  <2> QED BY <1>6, <1>12, <2>1, <2>2, <2>3, <2>4, <2>5, <2>6 DEF Keeping
<1> QED BY <1>15, <1>16, <1>17 DEF IInv

LEMMA RetargetInv == ASSUME IInv, Retarget PROVE IInv'
<1>1. /\ phase = "keep" /\ phase' = "done" /\ \A b \in seen : b < bb
      /\ basic_blocks' = Renumbered(basic_blocks, used_blocks, replacements)
      /\ source' = source /\ bb' = bb /\ successor' = successor /\ chain' = chain /\ changed' = changed
      /\ pred_count' = pred_count /\ seen' = seen /\ replacements' = replacements
      /\ used_blocks' = used_blocks /\ origin' = origin
  BY DEF Retarget, Renumbered, calls, removal
<1>2. Basics /\ Keeping /\ chain = << >> BY <1>1 DEF IInv, Called, Out
<1>3. IsGraph(basic_blocks) /\ DOMAIN basic_blocks = Indices(source) /\ Len(basic_blocks) = Len(source)
  BY <1>1, <1>2, SourceIsGraph DEF Basics
<1>4. Gathers(basic_blocks, seen, replacements, used_blocks, origin)
  <2>1. seen \subseteq DOMAIN basic_blocks /\ used_blocks \in 0..Len(basic_blocks)
    BY <1>2, <1>3 DEF Basics
  <2>2. START_BLOCK \in seen /\ replacements[START_BLOCK] = START_BLOCK BY <1>1, <1>2 DEF Keeping
  <2>3. ASSUME NEW a \in seen
        PROVE  /\ replacements[a] \in 1..used_blocks /\ origin[replacements[a]] = a
               /\ \A k \in References(basic_blocks, replacements[a]) :
                    basic_blocks[replacements[a]].succ[k] \in seen
    <3>1. Kept[a] = basic_blocks[replacements[a]] BY DEF Kept, KeptOf
    <3> QED BY <1>1, <1>2, <3>1 DEF Keeping, References
  <2>4. \A i \in 1..used_blocks : \E a \in seen : replacements[a] = i BY <1>1, <1>2 DEF Keeping
  <2> QED BY <2>1, <2>2, <2>3, <2>4 DEF Gathers
<1>5. /\ IsGraph(basic_blocks') /\ Len(basic_blocks') = used_blocks
      /\ FlowOf(basic_blocks', origin, source) /\ Simple(basic_blocks') /\ NoneDead(basic_blocks')
  <2>1. FlowOf(Kept, Same(Kept), source) /\ Simple(Kept) /\ NoneDead(Kept) BY <1>1, <1>2 DEF Keeping
  <2>2. Kept = KeptOf(basic_blocks, seen, replacements) BY DEF Kept
  <2>3. /\ FlowOf(KeptOf(basic_blocks, seen, replacements),
                  Same(KeptOf(basic_blocks, seen, replacements)), source)
        /\ Simple(KeptOf(basic_blocks, seen, replacements))
        /\ NoneDead(KeptOf(basic_blocks, seen, replacements))
    BY <2>1, <2>2
  <2> QED BY <1>1, <1>3, <1>4, <2>3, KeptAtLast
<1>6. Basics' BY <1>1, <1>2, <1>5 DEF Basics
<1>7. Unmoved' /\ Counted' /\ Quiet' /\ Keeping' /\ Called'
  BY <1>1, <1>2 DEF Unmoved, Counted, Quiet, Keeping, Called, InLoop, Out
<1>8. Ended' BY <1>1, <1>5 DEF Ended
<1> QED BY <1>6, <1>7, <1>8 DEF IInv

LEMMA NextInv == ASSUME IInv, [Next]_vars PROVE IInv'
BY CountInv, SkipBlockInv, TakeTerminatorInv, FollowInv, CollapseInv, NextSuccessorInv,
   PutBackInv, NextPassInv, FindAliveInv, KeepBlockInv, RetargetInv, StutterInv DEF Next

THEOREM Inductive == Spec => []IInv
<1>1. Init => IInv BY InitInv
<1>2. IInv /\ [Next]_vars => IInv' BY NextInv
<1> QED BY <1>1, <1>2, PTL DEF Spec

-----------------------------------------------------------------------------
\* The state stays well-formed: a count never drops below zero, the chain of
\* calls has no block twice, and no edge leads out of the blocks that are left.
THEOREM SimplifyTypes == Spec => []SimplifyTypeOK
<1>1. ASSUME IInv PROVE SimplifyTypeOK
  <2>1. Basics /\ Called BY <1>1 DEF IInv
  <2>2. /\ source \in Graphs
        /\ phase \in {"count", "simplify", "follow", "return", "keep", "done"}
        /\ bb \in 1..(Len(source) + 1) /\ successor \in Nat \ {0} /\ changed \in BOOLEAN
        /\ pred_count \in [Indices(source) -> Nat] /\ seen \subseteq Indices(source)
        /\ replacements \in [Indices(source) -> Indices(source)]
        /\ used_blocks \in 0..Len(source) /\ origin \in [Indices(source) -> Indices(source)]
    BY <2>1 DEF Basics
  <2>3. chain \in Seq(Indices(source)) /\ IsInjective(chain) /\ bb \notin ToSet(chain)
    <3>1. CASE Out
      <4>1. IsChain(basic_blocks, bb, successor, chain) /\ phase # "done" BY <2>1, <3>1 DEF Called, Out
      <4>2. DOMAIN basic_blocks = Indices(source) BY <2>1, <4>1, SourceIsGraph
      <4> QED BY <4>1, <4>2 DEF IsChain, IsInjective, ToSet
    <3>2. CASE ~Out
      <4>1. chain = << >> BY <2>1, <3>2 DEF Called
      <4> QED BY <4>1 DEF IsInjective, ToSet
    <3> QED BY <3>1, <3>2
  <2>4. /\ Len(basic_blocks) >= 1
        /\ \A b \in Indices(basic_blocks) :
             basic_blocks[b] \in BlockSet(IF phase = "done" THEN Len(basic_blocks) ELSE Len(source))
    <3>1. IsGraph(basic_blocks) /\ (phase # "done" => Len(basic_blocks) = Len(source)) BY <2>1 DEF Basics
    <3>2. \A b \in DOMAIN basic_blocks : basic_blocks[b] \in BlockSet(Len(basic_blocks))
      BY <3>1, GraphBlocks
    <3>3. Len(basic_blocks) >= 1 BY <3>1 DEF IsGraph
    <3> QED BY <3>1, <3>2, <3>3 DEF Indices
  <2> QED BY <2>2, <2>3, <2>4 DEF SimplifyTypeOK
<1> QED BY <1>1, Inductive, PTL

\* While the pass goes on, without looking at the graph again, the counts are
\* those of a fresh count over the blocks that are still in use.
THEOREM CountsExact == Spec => []PredCountExact
<1>1. ASSUME IInv PROVE PredCountExact
  <2> SUFFICES ASSUME phase \notin {"count", "keep", "done"}
               PROVE  LET counted == {b \in preorder(source) : pred_count[b] # 0 \/ source[b].stmts}
                      IN \A b \in Indices(source) :
                           pred_count[b] = (IF b = START_BLOCK THEN 1 ELSE 0)
                                           + Cardinality(ReferencesTo(basic_blocks, counted, b))
    BY DEF PredCountExact
  <2> DEFINE counted == {b \in preorder(source) : pred_count[b] # 0 \/ source[b].stmts}
  <2>1. Basics /\ InLoop
    <3>1. Basics BY <1>1 DEF IInv
    <3> QED BY <3>1 DEF Basics, InLoop, Out
  <2>2. /\ Counting(preorder(source), pred_count, basic_blocks)
        /\ \A b \in Indices(source) : basic_blocks[b].stmts = source[b].stmts
        /\ DOMAIN basic_blocks = Indices(source) /\ preorder(source) \subseteq Indices(source)
    <3>1. Counting(preorder(source), pred_count, basic_blocks) BY <1>1, <2>1 DEF IInv, Counted
    <3>2. \A b \in Indices(source) : basic_blocks[b].stmts = source[b].stmts
      BY <1>1, <2>1 DEF IInv, Unmoved
    <3>3. DOMAIN basic_blocks = Indices(source) BY <2>1, SourceIsGraph
    <3> QED BY <3>1, <3>2, <3>3 DEF Counting
  <2>3. Alive(preorder(source), pred_count, basic_blocks) = counted BY <2>2 DEF Alive
  <2> HIDE DEF counted
  <2>4. \A b \in Indices(source) :
          pred_count[b] = Entry(b) + Cardinality(ReferencesTo(basic_blocks, counted, b))
    BY <2>2, <2>3 DEF Counting, IsCount
  <2> QED BY <2>4 DEF Entry, counted
<1> QED BY <1>1, Inductive, PTL

\* At every step, and in the result, the start and every block in view lead to
\* the same blocks in view as before the pass, and spin silently only where
\* they did: the pass does not change what the function does.
THEOREM FlowIsKept == Spec => []FlowKept
<1>1. ASSUME IInv PROVE FlowKept
  <2> SUFFICES ASSUME phase # "keep" PROVE FlowOf(basic_blocks, origin, source)
    BY DEF FlowKept, FlowOf, Same, Indices
  <2>1. Basics BY <1>1 DEF IInv
  <2>2. CASE phase = "done" BY <1>1, <2>2 DEF IInv, Ended
  <2>3. CASE phase # "done"
    <3>1. phase = "count" \/ InLoop BY <2>1, <2>3 DEF Basics, InLoop, Out
    <3> QED BY <1>1, <3>1 DEF IInv, Unmoved
  <2> QED BY <2>2, <2>3
<1> QED BY <1>1, Inductive, PTL

\* One run is enough: in the result no block that can be reached branches to
\* one place or jumps to an empty jump, other than itself or one that goes to
\* itself, and every block is one that the start or a block with statements
\* leads to.
THEOREM SimplifiesFully == Spec => []FullySimplified
<1>1. ASSUME IInv PROVE FullySimplified
  <2>1. phase = "done" => Simple(basic_blocks) /\ NoneDead(basic_blocks) BY <1>1 DEF IInv, Ended
  <2> QED BY <2>1 DEF FullySimplified, Simple, BlockSimple, EdgeSimple, NoneDead, Indices
<1> QED BY <1>1, Inductive, PTL
=============================================================================
