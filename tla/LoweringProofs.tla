---------------------------- MODULE LoweringProofs ----------------------------
(***************************************************************************)
(* Every program, of whatever size, is lowered to a well-formed body       *)
(* without a failed assertion.  First what the operations of Builder keep, *)
(* then the inductive invariant, then a lemma for each action of Lowering, *)
(* the theorems last.                                                      *)
(***************************************************************************)
EXTENDS Lowering, MirProofs, SequenceTheorems

(***************************************************************************)
(* Numbers in order.                                                       *)
(***************************************************************************)
LEMMA LatestMember ==
  ASSUME NEW n \in Nat, NEW S \in SUBSET (0..n), S # {}
  PROVE  Latest(S) \in S /\ \A k \in S : k <= Latest(S)
<1> DEFINE T == {n - k : k \in S}
<1>1. T \in SUBSET Nat /\ T # {}
  <2>1. \A k \in S : n - k \in Nat OBVIOUS
  <2> QED BY <2>1
<1>2. PICK m \in T : \A k \in T : m <= k BY <1>1, LeastNumber
<1>3. PICK l \in S : m = n - l BY <1>2
<1>4. ASSUME NEW k \in S PROVE k <= l
  <2>1. n - k \in T OBVIOUS
  <2>2. n - l <= n - k BY <1>2, <1>3, <2>1
  <2> QED BY <2>2
<1>5. \E i \in S : \A k \in S : k <= i BY <1>4
<1> QED BY <1>5 DEF Latest

LEMMA AscendingMembers ==
  ASSUME NEW S, NEW n \in Nat
  PROVE  Ascending(S, n) \in Seq(S \intersect (1..n))
<1> DEFINE V == S \intersect (1..n)
           Rounds(g, m) == g = [i \in 0..m |-> IF i = 0 THEN << >>
                                 ELSE IF i \in S THEN Append(g[i - 1], i) ELSE g[i - 1]]
           T == {m \in Nat : \E g : Rounds(g, m)}
<1>1. 0 \in T
  <2>1. Rounds([i \in 0..0 |-> << >>], 0) OBVIOUS
  <2> QED BY <2>1
<1>2. ASSUME NEW m \in Nat, m \in T PROVE m + 1 \in T
  <2>1. PICK g : Rounds(g, m) BY <1>2
  <2> DEFINE h == [i \in 0..(m + 1) |-> IF i <= m THEN g[i]
                     ELSE IF i \in S THEN Append(g[i - 1], i) ELSE g[i - 1]]
  <2>2. ASSUME NEW i \in 0..(m + 1), i # 0
        PROVE  h[i] = IF i \in S THEN Append(h[i - 1], i) ELSE h[i - 1]
    <3>1. i - 1 \in 0..m /\ h[i - 1] = g[i - 1] BY <2>2
    <3>2. CASE i <= m
      <4>1. i \in 0..m /\ h[i] = g[i] BY <3>2
      <4> QED BY <2>1, <2>2, <3>1, <4>1
    <3>3. CASE ~(i <= m) BY <3>1, <3>3
    <3> QED BY <3>2, <3>3
  <2>3. h[0] = << >> BY <2>1
  <2>4. Rounds(h, m + 1)
    <3> DEFINE r == [i \in 0..(m + 1) |-> IF i = 0 THEN << >>
                       ELSE IF i \in S THEN Append(h[i - 1], i) ELSE h[i - 1]]
    <3>1. \A i \in 0..(m + 1) : h[i] = r[i] BY <2>2, <2>3
    <3>2. h = [i \in 0..(m + 1) |-> h[i]] OBVIOUS
    <3> HIDE DEF h
    <3> QED BY <3>1, <3>2
  <2> HIDE DEF Rounds, h
  <2> QED BY <2>4
<1>3. \E g : Rounds(g, n) /\ Ascending(S, n) = g[n]
  <2>1. Nat \subseteq T
    <3> HIDE DEF T
    <3> QED BY <1>1, <1>2, Induction
  <2>2. \E g : Rounds(g, n) BY <2>1
  <2> QED BY <2>2 DEF Ascending
<1>4. PICK g : Rounds(g, n) /\ Ascending(S, n) = g[n] BY <1>3
<1> DEFINE U == {m \in Nat : m <= n => g[m] \in Seq(V)}
<1>5. 0 \in U BY <1>4
<1>6. ASSUME NEW m \in Nat, m \in U, m + 1 <= n PROVE g[m + 1] \in Seq(V)
  <2>1. m + 1 \in 0..n /\ (m + 1) - 1 = m /\ m + 1 # 0 BY <1>6
  <2>2. g[m + 1] = IF m + 1 \in S THEN Append(g[m], m + 1) ELSE g[m] BY <1>4, <2>1
  <2>3. g[m] \in Seq(V) BY <1>6
  <2>4. m + 1 \in S => m + 1 \in V BY <2>1
  <2> HIDE DEF V
  <2> QED BY <2>2, <2>3, <2>4
<1>7. n \in U
  <2>1. \A m \in Nat : m \in U => m + 1 \in U BY <1>6
  <2> HIDE DEF U
  <2> QED BY <1>5, <2>1, Induction
<1> QED BY <1>4, <1>7

LEMMA DropsInOrder ==
  ASSUME NEW S, NEW n \in Nat
  PROVE  Reverse(Ascending(S, n)) \in Seq(S \intersect (1..n))
<1> DEFINE s == Ascending(S, n)
           V == S \intersect (1..n)
<1>1. s \in Seq(V) BY AscendingMembers
<1> HIDE DEF s, V
<1>2. \A i \in 1..Len(s) : (Len(s) - i) + 1 \in 1..Len(s) BY <1>1
<1>3. \A i \in 1..Len(s) : s[(Len(s) - i) + 1] \in V BY <1>1, <1>2
<1> QED BY <1>1, <1>3 DEF Reverse, s, V

-----------------------------------------------------------------------------
(***************************************************************************)
(* The Builder.                                                            *)
(***************************************************************************)
AllNames == Names \union ArmNames \union ToSet(Args)
              \union {TempName, "return_pointer", "coroutine_args"}
AnyStatement == [op : StmtOps, to : SUBSET Nat, moved : SUBSET Nat, read : SUBSET Nat]
AnyTerminator == [op : TermOps, succ : Seq(Nat), binds : Seq(SUBSET Nat),
                  moved : SUBSET Nat, read : SUBSET Nat]
BlockRecords == [stmts : Seq(AnyStatement), scopes : Seq(Nat),
                 term : AnyTerminator \union {Unterminated}, home : SUBSET Nat]
ScopeRecords == [extent : Nat, drops : SUBSET Nat, visibility_scope : Nat]
LoopRecords == [extent : Nat, continue_block : Nat, break_block : Nat, break_destination : Nat]
DeclRecords == [name : AllNames, scope : Nat, extent : Nat]
Builders ==
  [basic_blocks : Seq(BlockRecords), scopes : Seq(ScopeRecords), extents : Nat,
   visibility_scope : Nat, visibility_scopes : Seq(Nat), loop_scopes : Seq(LoopRecords),
   local_decls : Seq(DeclRecords), cached_return_block : Nat, asserts : BOOLEAN]

LocalsOf(B) == 1..Len(B.local_decls)
BlocksOf(B) == 1..Len(B.basic_blocks)
StmtsOf(B, c) == B.basic_blocks[c].stmts
TermOf(B, c) == B.basic_blocks[c].term
ScopesOf(B) == 1..Len(B.visibility_scopes)

\* Statements and terminators use locals and blocks that exist.
StmtFits(s, n) == s.to \union s.moved \union s.read \subseteq 1..n
Filled(B) ==
  \A c \in BlocksOf(B) : \A i \in 1..Len(StmtsOf(B, c)) :
    StmtFits(StmtsOf(B, c)[i], Len(B.local_decls))
Ended(B) ==
  \A c \in BlocksOf(B) : TermOf(B, c) # Unterminated =>
    IsTerminator(TermOf(B, c), Len(B.local_decls), Len(B.basic_blocks))

\* A local that is there is scheduled to be dropped in one scope at most.
Scheduled(B) ==
  /\ \A i \in 1..Len(B.scopes) : B.scopes[i].drops \subseteq LocalsOf(B)
  /\ \A i, j \in 1..Len(B.scopes) : i # j => B.scopes[i].drops \intersect B.scopes[j].drops = {}

\* The first block of an arm is the target of its match and of nothing else.
IsArm(B, x) == \E b \in BlocksOf(B) : TermOf(B, b).op = "Match" /\ x \in ToSet(TermOf(B, b).succ)
Jumpable(B, x) == x \in BlocksOf(B) /\ ~IsArm(B, x)
ArmsOwned(B) ==
  /\ ~IsArm(B, START_BLOCK)
  /\ \A b \in BlocksOf(B) : TermOf(B, b).op = "Match" =>
       \A k \in 1..Len(TermOf(B, b).succ) :
         \A c \in BlocksOf(B) : \A j \in 1..Len(TermOf(B, c).succ) :
           TermOf(B, c).succ[j] = TermOf(B, b).succ[k] => c = b /\ j = k

LoopOK(B, loop) ==
  /\ loop \in LoopRecords
  /\ Jumpable(B, loop.continue_block) /\ Jumpable(B, loop.break_block)
  /\ loop.break_destination \in LocalsOf(B)
Looping(B) == \A i \in 1..Len(B.loop_scopes) : LoopOK(B, B.loop_scopes[i])
Returning(B) == B.cached_return_block = None \/ Jumpable(B, B.cached_return_block)

BuilderOK(B) ==
  /\ B \in Builders
  /\ Len(B.local_decls) >= 2 /\ Len(B.basic_blocks) >= 1
  /\ B.visibility_scope \in ScopesOf(B)
  /\ Filled(B) /\ Ended(B) /\ Scheduled(B) /\ ArmsOwned(B) /\ Looping(B) /\ Returning(B)

\* What operations that leave the control-flow graph alone keep.
SameGraph(B, B2) ==
  /\ Len(B2.basic_blocks) = Len(B.basic_blocks)
  /\ \A c \in BlocksOf(B) : TermOf(B2, c) = TermOf(B, c)
  /\ B2.cached_return_block = B.cached_return_block
  /\ B2.loop_scopes = B.loop_scopes

SameScopes(B, B2) ==
  /\ Len(B2.scopes) = Len(B.scopes)
  /\ \A i \in 1..Len(B.scopes) : B2.scopes[i].extent = B.scopes[i].extent

Keeps(B, B2) ==
  /\ BuilderOK(B2) /\ SameGraph(B, B2)
  /\ Len(B.local_decls) <= Len(B2.local_decls)
  /\ Len(B.visibility_scopes) <= Len(B2.visibility_scopes)
  /\ B2.asserts = B.asserts

Grows(B, B2) == Keeps(B, B2) /\ SameScopes(B, B2)

\* Only statements are added.
Fills(B, B2) ==
  /\ Grows(B, B2)
  /\ B2.local_decls = B.local_decls
  /\ B2.scopes = B.scopes /\ B2.extents = B.extents
  /\ B2.visibility_scope = B.visibility_scope
  /\ B2.visibility_scopes = B.visibility_scopes

\* What a builder has, apart from the graph.
LEMMA BuilderFields ==
  ASSUME NEW B, B \in Builders
  PROVE  /\ B.basic_blocks \in Seq(BlockRecords) /\ B.scopes \in Seq(ScopeRecords)
         /\ B.extents \in Nat /\ B.visibility_scope \in Nat /\ B.visibility_scopes \in Seq(Nat)
         /\ B.loop_scopes \in Seq(LoopRecords) /\ B.local_decls \in Seq(DeclRecords)
         /\ B.cached_return_block \in Nat /\ B.asserts \in BOOLEAN
         /\ Len(B.basic_blocks) \in Nat /\ Len(B.scopes) \in Nat /\ Len(B.visibility_scopes) \in Nat
         /\ Len(B.loop_scopes) \in Nat /\ Len(B.local_decls) \in Nat
BY DEF Builders

LEMMA GrowsReflexive == ASSUME NEW B, BuilderOK(B) PROVE Fills(B, B)
BY DEF Fills, Keeps, Grows, SameGraph, SameScopes, BuilderOK, Builders

LEMMA GrowsTransitive ==
  ASSUME NEW A, NEW B, NEW C, BuilderOK(A), Grows(A, B), Grows(B, C) PROVE Grows(A, C)
<1>1. SameGraph(A, C) BY DEF Keeps, Grows, SameGraph, BlocksOf
<1>2. SameScopes(A, C) BY DEF Keeps, Grows, SameScopes
<1>0. A \in Builders /\ B \in Builders /\ C \in Builders BY DEF Keeps, Grows, BuilderOK
<1>3. /\ Len(A.local_decls) \in Nat /\ Len(A.visibility_scopes) \in Nat
      /\ Len(B.local_decls) \in Nat /\ Len(B.visibility_scopes) \in Nat
      /\ Len(C.local_decls) \in Nat /\ Len(C.visibility_scopes) \in Nat
  BY <1>0, BuilderFields
<1>4. /\ BuilderOK(C) /\ C.asserts = A.asserts
      /\ Len(A.local_decls) <= Len(B.local_decls) /\ Len(B.local_decls) <= Len(C.local_decls)
      /\ Len(A.visibility_scopes) <= Len(B.visibility_scopes)
      /\ Len(B.visibility_scopes) <= Len(C.visibility_scopes)
  BY DEF Keeps, Grows
<1> QED BY <1>1, <1>2, <1>3, <1>4 DEF Keeps, Grows

LEMMA FillsTransitive ==
  ASSUME NEW A, NEW B, NEW C, BuilderOK(A), Fills(A, B), Fills(B, C) PROVE Fills(A, C)
BY GrowsTransitive DEF Fills

LEMMA BlockFields ==
  ASSUME NEW B, B \in Builders, NEW c \in BlocksOf(B)
  PROVE  /\ B.basic_blocks[c] \in BlockRecords
         /\ StmtsOf(B, c) \in Seq(AnyStatement) /\ B.basic_blocks[c].scopes \in Seq(Nat)
         /\ TermOf(B, c) \in AnyTerminator \union {Unterminated}
         /\ TermOf(B, c).succ \in Seq(Nat)
<1>1. B.basic_blocks[c] \in BlockRecords BY BuilderFields DEF BlocksOf
<1>2. Unterminated.succ \in Seq(Nat) BY DEF Unterminated
<1> QED BY <1>1, <1>2 DEF BlockRecords, AnyTerminator, StmtsOf, TermOf

\* The facts on arms and targets are about the terminators only.
LEMMA SameArms ==
  ASSUME NEW B, NEW B2, SameGraph(B, B2)
  PROVE  /\ BlocksOf(B2) = BlocksOf(B)
         /\ \A x : IsArm(B2, x) <=> IsArm(B, x)
         /\ \A x : Jumpable(B2, x) <=> Jumpable(B, x)
         /\ ArmsOwned(B) => ArmsOwned(B2)
<1>1. BlocksOf(B2) = BlocksOf(B) BY DEF SameGraph, BlocksOf
<1>2. \A c \in BlocksOf(B) : TermOf(B2, c) = TermOf(B, c) BY DEF SameGraph
<1>3. ASSUME NEW x PROVE IsArm(B2, x) <=> IsArm(B, x) BY <1>1, <1>2 DEF IsArm
<1>4. \A x : Jumpable(B2, x) <=> Jumpable(B, x) BY <1>1, <1>3 DEF Jumpable
<1>5. ArmsOwned(B) => ArmsOwned(B2)
  <2> SUFFICES ASSUME ArmsOwned(B) PROVE ArmsOwned(B2) OBVIOUS
  <2>1. ~IsArm(B2, START_BLOCK) BY <1>3 DEF ArmsOwned
  <2> QED BY <1>1, <1>2, <2>1 DEF ArmsOwned
<1> QED BY <1>1, <1>3, <1>4, <1>5

\* A builder with the graph of a good one is good if its own parts are.
LEMMA SameGraphOK ==
  ASSUME NEW B, BuilderOK(B), NEW B2 \in Builders, SameGraph(B, B2),
         Len(B.local_decls) <= Len(B2.local_decls),
         B2.visibility_scope \in ScopesOf(B2), Filled(B2), Scheduled(B2)
  PROVE  BuilderOK(B2)
<1>1. BlocksOf(B2) = BlocksOf(B) /\ ArmsOwned(B2) BY SameArms DEF BuilderOK
<1>2. Len(B.local_decls) \in Nat /\ Len(B2.local_decls) \in Nat /\ Len(B.basic_blocks) \in Nat
  BY BuilderFields DEF BuilderOK
<1>3. LocalsOf(B) \subseteq LocalsOf(B2) BY <1>2 DEF LocalsOf
<1>4. Ended(B2)
  <2> SUFFICES ASSUME NEW c \in BlocksOf(B2), TermOf(B2, c) # Unterminated
               PROVE  IsTerminator(TermOf(B2, c), Len(B2.local_decls), Len(B2.basic_blocks))
    BY DEF Ended
  <2> DEFINE t == TermOf(B2, c)
             n == Len(B.local_decls)
             n2 == Len(B2.local_decls)
             k == Len(B.basic_blocks)
  <2>1. t = TermOf(B, c) /\ Len(B2.basic_blocks) = k BY <1>1 DEF SameGraph
  <2>2. IsTerminator(t, n, k) BY <1>1, <2>1 DEF Ended, BuilderOK
  <2>3. 1..n \subseteq 1..n2 BY <1>2
  <2>4. t.binds \in Seq(SUBSET (1..n2))
    <3>1. t.binds \in Seq(SUBSET (1..n)) BY <2>2 DEF IsTerminator
    <3>2. SUBSET (1..n) \subseteq SUBSET (1..n2) BY <2>3
    <3> HIDE DEF t, n, n2
    <3> QED BY <3>1, <3>2
  <2> HIDE DEF t, n, n2, k
  <2>5. IsTerminator(t, n2, k) BY <2>2, <2>3, <2>4 DEF IsTerminator
  <2> QED BY <2>1, <2>5 DEF t, n2, k
<1>5. Looping(B2)
  <2>1. B2.loop_scopes = B.loop_scopes BY DEF SameGraph
  <2>2. \A x : Jumpable(B2, x) <=> Jumpable(B, x) BY SameArms
  <2> QED BY <1>3, <2>1, <2>2 DEF Looping, LoopOK, BuilderOK
<1>6. Returning(B2)
  <2>1. \A x : Jumpable(B2, x) <=> Jumpable(B, x) BY SameArms
  <2> QED BY <2>1 DEF Returning, BuilderOK, SameGraph
<1>7. Len(B2.local_decls) >= 2 /\ Len(B2.basic_blocks) >= 1 BY <1>2 DEF BuilderOK, SameGraph
<1> QED BY <1>1, <1>4, <1>5, <1>6, <1>7 DEF BuilderOK

\* Adding statements that fit to a block.
LEMMA ReplaceBlock ==
  ASSUME NEW B, BuilderOK(B), NEW b \in BlocksOf(B), NEW r \in BlockRecords,
         r.term = TermOf(B, b),
         \A i \in 1..Len(r.stmts) : StmtFits(r.stmts[i], Len(B.local_decls)),
         NEW B2, B2 = [B EXCEPT !.basic_blocks = [B.basic_blocks EXCEPT ![b] = r]]
  PROVE  Fills(B, B2)
<1> DEFINE bs == [B.basic_blocks EXCEPT ![b] = r]
<1>1. B \in Builders /\ B.basic_blocks \in Seq(BlockRecords) /\ b \in 1..Len(B.basic_blocks)
  BY BuilderFields DEF BuilderOK, BlocksOf
<1>2. /\ bs \in Seq(BlockRecords) /\ Len(bs) = Len(B.basic_blocks)
      /\ \A c \in 1..Len(B.basic_blocks) : bs[c] = IF c = b THEN r ELSE B.basic_blocks[c]
  BY <1>1, ExceptSeq
<1> HIDE DEF bs
<1>3. /\ B2 \in Builders /\ B2.basic_blocks = bs
      /\ B2.local_decls = B.local_decls /\ B2.scopes = B.scopes /\ B2.extents = B.extents
      /\ B2.visibility_scope = B.visibility_scope /\ B2.visibility_scopes = B.visibility_scopes
      /\ B2.cached_return_block = B.cached_return_block /\ B2.loop_scopes = B.loop_scopes
      /\ B2.asserts = B.asserts
  BY <1>1, <1>2 DEF Builders, bs
<1>4. /\ BlocksOf(B2) = BlocksOf(B)
      /\ \A c \in BlocksOf(B) : TermOf(B2, c) = TermOf(B, c)
      /\ \A c \in BlocksOf(B) : StmtsOf(B2, c) = IF c = b THEN r.stmts ELSE StmtsOf(B, c)
  BY <1>2, <1>3 DEF BlocksOf, TermOf, StmtsOf
<1>5. SameGraph(B, B2) BY <1>2, <1>3, <1>4 DEF SameGraph
<1>6. Filled(B2)
  <2>1. Filled(B) BY DEF BuilderOK
  <2> QED BY <1>3, <1>4, <2>1 DEF Filled
<1>7. Scheduled(B2) BY <1>3 DEF Scheduled, BuilderOK, LocalsOf
<1>8. B2.visibility_scope \in ScopesOf(B2) BY <1>3 DEF BuilderOK, ScopesOf
<1>9. Len(B.local_decls) \in Nat /\ Len(B.visibility_scopes) \in Nat BY <1>1, BuilderFields
<1>10. BuilderOK(B2)
  <2>1. B2 \in Builders /\ Len(B.local_decls) <= Len(B2.local_decls) BY <1>3, <1>9
  <2> QED BY <1>5, <1>6, <1>7, <1>8, <2>1, SameGraphOK, Zenon
<1> QED BY <1>3, <1>5, <1>9, <1>10 DEF Fills, Keeps, Grows, SameScopes

LEMMA PushAt ==
  ASSUME NEW B, BuilderOK(B), NEW b \in BlocksOf(B), NEW s \in AnyStatement,
         StmtFits(s, Len(B.local_decls)), NEW scope \in Nat
  PROVE  Fills(B, push_at(B, b, s, scope))
<1> DEFINE old == B.basic_blocks[b]
           r == [old EXCEPT !.stmts = Append(@, s), !.scopes = Append(@, scope)]
<1>1. /\ B \in Builders /\ old \in BlockRecords
      /\ old.stmts \in Seq(AnyStatement) /\ old.scopes \in Seq(Nat)
  BY BlockFields DEF BuilderOK, StmtsOf
<1>2. /\ r \in BlockRecords /\ r.stmts = Append(old.stmts, s) /\ r.term = old.term
      /\ Len(r.stmts) = Len(old.stmts) + 1
  <2>1. /\ Append(old.stmts, s) \in Seq(AnyStatement) /\ Append(old.scopes, scope) \in Seq(Nat)
        /\ Len(Append(old.stmts, s)) = Len(old.stmts) + 1
    BY <1>1, AppendProperties
  <2> QED BY <1>1, <2>1 DEF BlockRecords
<1>3. ASSUME NEW i \in 1..Len(r.stmts) PROVE StmtFits(r.stmts[i], Len(B.local_decls))
  <2>1. CASE i \in 1..Len(old.stmts)
    <3>1. r.stmts[i] = StmtsOf(B, b)[i] BY <1>1, <1>2, <2>1 DEF StmtsOf
    <3> QED BY <2>1, <3>1 DEF BuilderOK, Filled, StmtsOf
  <2>2. CASE i = Len(old.stmts) + 1 BY <1>1, <1>2, <2>2, SMTT(60)
  <2> QED BY <1>1, <1>2, <2>1, <2>2, SMTT(60)
<1>4. push_at(B, b, s, scope) = [B EXCEPT !.basic_blocks = [B.basic_blocks EXCEPT ![b] = r]]
  <2>1. B.basic_blocks \in Seq(BlockRecords) BY <1>1, BuilderFields
  <2> QED BY <1>1, <2>1 DEF push_at, Builders, BlockRecords, BlocksOf
<1> HIDE DEF r
<1>5. r.term = TermOf(B, b) BY <1>2 DEF TermOf
<1> QED BY <1>2, <1>3, <1>4, <1>5, ReplaceBlock

LEMMA PushAll ==
  ASSUME NEW B, BuilderOK(B), NEW b \in BlocksOf(B), NEW ss \in Seq(AnyStatement),
         \A i \in 1..Len(ss) : StmtFits(ss[i], Len(B.local_decls)), NEW scope \in Nat
  PROVE  Fills(B, push_all(B, b, ss, scope))
<1> DEFINE old == B.basic_blocks[b]
           more == [i \in 1..Len(ss) |-> scope]
           r == [old EXCEPT !.stmts = @ \o ss, !.scopes = @ \o more]
<1>1. /\ B \in Builders /\ old \in BlockRecords
      /\ old.stmts \in Seq(AnyStatement) /\ old.scopes \in Seq(Nat)
  BY BlockFields DEF BuilderOK, StmtsOf
<1>2. more \in Seq(Nat) OBVIOUS
<1> HIDE DEF more
<1>3. /\ r \in BlockRecords /\ r.stmts = old.stmts \o ss /\ r.term = old.term
  <2>1. old.stmts \o ss \in Seq(AnyStatement) /\ old.scopes \o more \in Seq(Nat)
    BY <1>1, <1>2, ConcatProperties
  <2> QED BY <1>1, <2>1 DEF BlockRecords
<1>4. ASSUME NEW i \in 1..Len(r.stmts) PROVE StmtFits(r.stmts[i], Len(B.local_decls))
  <2>1. CASE i \in 1..Len(old.stmts)
    <3>1. r.stmts[i] = StmtsOf(B, b)[i] BY <1>1, <1>3, <2>1 DEF StmtsOf
    <3> QED BY <2>1, <3>1 DEF BuilderOK, Filled, StmtsOf
  <2>2. CASE i \notin 1..Len(old.stmts)
    <3>1. Len(old.stmts) \in Nat /\ Len(ss) \in Nat /\ Len(r.stmts) = Len(old.stmts) + Len(ss)
      BY <1>1, <1>3, ConcatProperties
    <3>2. i - Len(old.stmts) \in 1..Len(ss) BY <2>2, <3>1
    <3>3. r.stmts[i] = ss[i - Len(old.stmts)] BY <1>1, <1>3, <2>2, <3>1, ConcatProperties
    <3> QED BY <3>2, <3>3
  <2> QED BY <2>1, <2>2
<1>5. push_all(B, b, ss, scope) = [B EXCEPT !.basic_blocks = [B.basic_blocks EXCEPT ![b] = r]]
  <2>1. B.basic_blocks \in Seq(BlockRecords) BY <1>1, BuilderFields
  <2> QED BY <1>1, <2>1 DEF push_all, more, Builders, BlockRecords, BlocksOf
<1> HIDE DEF r
<1>6. r.term = TermOf(B, b) BY <1>3 DEF TermOf
<1> QED BY <1>3, <1>4, <1>5, <1>6, ReplaceBlock

\* The statements that the lowering makes.
LEMMA StatementsFit ==
  ASSUME NEW n \in Nat, NEW op \in StmtOps,
         NEW to \in SUBSET (1..n), NEW moved \in SUBSET (1..n), NEW read \in SUBSET (1..n)
  PROVE  LET s == [op |-> op, to |-> to, moved |-> moved, read |-> read]
         IN s \in AnyStatement /\ StmtFits(s, n)
<1>1. 1..n \subseteq Nat OBVIOUS
<1>2. to \in SUBSET Nat /\ moved \in SUBSET Nat /\ read \in SUBSET Nat BY <1>1
<1> QED BY <1>2 DEF AnyStatement, StmtFits

LEMMA PushWrite ==
  ASSUME NEW B, BuilderOK(B), NEW b \in BlocksOf(B),
         NEW to \in SUBSET LocalsOf(B), NEW moved \in SUBSET LocalsOf(B),
         NEW read \in SUBSET LocalsOf(B)
  PROVE  Fills(B, push(B, b, Write(to, moved, read)))
<1>1. B \in Builders /\ Len(B.local_decls) \in Nat /\ B.visibility_scope \in Nat
  BY BuilderFields DEF BuilderOK
<1>2. Write(to, moved, read) \in AnyStatement /\ StmtFits(Write(to, moved, read), Len(B.local_decls))
  BY <1>1, StatementsFit DEF Write, StmtOps, LocalsOf
<1> QED BY <1>1, <1>2, PushAt DEF push

LEMMA PushUnit ==
  ASSUME NEW B, BuilderOK(B), NEW b \in BlocksOf(B), NEW dest \in LocalsOf(B)
  PROVE  Fills(B, push_assign_unit(B, b, dest))
BY PushWrite DEF push_assign_unit

LEMMA LiveFits ==
  ASSUME NEW n \in Nat, NEW l \in 1..n
  PROVE  /\ StorageLive(l) \in AnyStatement /\ StmtFits(StorageLive(l), n)
         /\ StorageDead(l) \in AnyStatement /\ StmtFits(StorageDead(l), n)
<1>1. {l} \in SUBSET (1..n) /\ {} \in SUBSET (1..n) OBVIOUS
<1> QED BY <1>1, StatementsFit DEF StorageLive, StorageDead, StmtOps

LEMMA StorageIsLive ==
  ASSUME NEW B, BuilderOK(B), NEW b \in BlocksOf(B), NEW locals \in Seq(LocalsOf(B))
  PROVE  Fills(B, storage_live(B, b, locals))
<1> DEFINE ss == [i \in 1..Len(locals) |-> StorageLive(locals[i])]
<1>1. B \in Builders /\ Len(B.local_decls) \in Nat /\ B.visibility_scope \in Nat
  BY BuilderFields DEF BuilderOK
<1>2. \A i \in 1..Len(locals) : locals[i] \in 1..Len(B.local_decls) BY DEF LocalsOf
<1>3. \A i \in 1..Len(locals) :
        StorageLive(locals[i]) \in AnyStatement /\ StmtFits(StorageLive(locals[i]), Len(B.local_decls))
  BY <1>1, <1>2, LiveFits
<1>4. Len(locals) \in Nat OBVIOUS
<1>5. ss \in Seq(AnyStatement) BY <1>3, <1>4
<1>6. Len(ss) = Len(locals) BY <1>4
<1>7. \A i \in 1..Len(ss) : StmtFits(ss[i], Len(B.local_decls)) BY <1>3, <1>6
<1> HIDE DEF ss
<1>8. Fills(B, push_all(B, b, ss, B.visibility_scope)) BY <1>1, <1>5, <1>7, PushAll
<1> QED BY <1>8 DEF storage_live, ss

LEMMA ScopeDrops ==
  ASSUME NEW B, BuilderOK(B), NEW b \in BlocksOf(B), NEW locals, NEW scope \in ScopeRecords
  PROVE  Fills(B, build_scope_drops(B, b, locals, scope))
<1> DEFINE dropped == Reverse(Ascending(locals, Len(B.local_decls)))
           ss == [i \in 1..Len(dropped) |-> StorageDead(dropped[i])]
<1>1. B \in Builders /\ Len(B.local_decls) \in Nat /\ scope.visibility_scope \in Nat
  BY BuilderFields DEF BuilderOK, ScopeRecords
<1>2. dropped \in Seq(locals \intersect (1..Len(B.local_decls))) BY <1>1, DropsInOrder
<1> HIDE DEF dropped
<1>3. Len(dropped) \in Nat /\ \A i \in 1..Len(dropped) : dropped[i] \in 1..Len(B.local_decls)
  BY <1>2
<1>4. \A i \in 1..Len(dropped) :
        StorageDead(dropped[i]) \in AnyStatement /\ StmtFits(StorageDead(dropped[i]), Len(B.local_decls))
  BY <1>1, <1>3, LiveFits
<1>5. ss \in Seq(AnyStatement) /\ Len(ss) = Len(dropped) BY <1>3, <1>4
<1>6. \A i \in 1..Len(ss) : StmtFits(ss[i], Len(B.local_decls)) BY <1>4, <1>5
<1> HIDE DEF ss
<1>7. Fills(B, push_all(B, b, ss, scope.visibility_scope)) BY <1>1, <1>5, <1>6, PushAll
<1> QED BY <1>7 DEF build_scope_drops, ss, dropped

-----------------------------------------------------------------------------
(***************************************************************************)
(* Scopes and locals.                                                      *)
(***************************************************************************)

\* A new local is scheduled to be dropped in the innermost scope.
LEMMA Declared ==
  ASSUME NEW B, BuilderOK(B), B.scopes # << >>, NEW name \in AllNames, NEW scope \in Nat,
         NEW B2, B2 = schedule_drop(Declare(B, name, scope), NextLocal(B))
  PROVE  /\ Grows(B, B2) /\ NextLocal(B) \in LocalsOf(B2)
         /\ Len(B2.local_decls) = Len(B.local_decls) + 1
         /\ B2.visibility_scope = B.visibility_scope /\ B2.visibility_scopes = B.visibility_scopes
         /\ B2.extents = B.extents
<1> DEFINE n == Len(B.local_decls)
           k == Len(B.scopes)
           decl == [name |-> name, scope |-> scope, extent |-> extent_of_innermost_scope(B)]
           inner == [B.scopes[k] EXCEPT !.drops = @ \union {n + 1}]
           scopes == [B.scopes EXCEPT ![k] = inner]
           decls == Append(B.local_decls, decl)
<1>1. /\ B \in Builders /\ n \in Nat /\ k \in Nat /\ B.scopes \in Seq(ScopeRecords)
      /\ B.local_decls \in Seq(DeclRecords)
  BY BuilderFields DEF BuilderOK
<1>2. k \in 1..k /\ B.scopes[k] \in ScopeRecords BY <1>1
<1>3. decl \in DeclRecords BY <1>2 DEF DeclRecords, ScopeRecords, extent_of_innermost_scope, Last
<1>4. /\ inner \in ScopeRecords /\ inner.drops = B.scopes[k].drops \union {n + 1}
      /\ inner.extent = B.scopes[k].extent
  BY <1>1, <1>2, SMTT(60) DEF ScopeRecords
<1> HIDE DEF inner, decl
<1>5. /\ scopes \in Seq(ScopeRecords) /\ Len(scopes) = k
      /\ \A i \in 1..k : scopes[i] = IF i = k THEN inner ELSE B.scopes[i]
  BY <1>1, <1>2, <1>4, ExceptSeq
<1>6. decls \in Seq(DeclRecords) /\ Len(decls) = n + 1 BY <1>1, <1>3, AppendProperties
<1>7. ~ScheduledIn(B.scopes, n + 1)
  BY <1>1 DEF ScheduledIn, BuilderOK, Scheduled, LocalsOf
<1>8. B2 = [[B EXCEPT !.scopes = scopes] EXCEPT !.local_decls = decls]
  <2>1. Declare(B, name, scope) = [B EXCEPT !.local_decls = decls] BY DEF Declare, decl
  <2>2. NextLocal(B) = n + 1 BY DEF NextLocal
  <2>3. [B EXCEPT !.local_decls = decls].scopes = B.scopes BY <1>1 DEF Builders
  <2> QED BY <1>1, <1>2, <1>7, <2>1, <2>2, <2>3 DEF schedule_drop, inner, Builders, ScopeRecords
<1> HIDE DEF scopes, decls
<1>9. /\ B2 \in Builders /\ B2.scopes = scopes /\ B2.local_decls = decls
      /\ B2.basic_blocks = B.basic_blocks /\ B2.extents = B.extents
      /\ B2.visibility_scope = B.visibility_scope /\ B2.visibility_scopes = B.visibility_scopes
      /\ B2.cached_return_block = B.cached_return_block /\ B2.loop_scopes = B.loop_scopes
      /\ B2.asserts = B.asserts
  BY <1>1, <1>5, <1>6, <1>8 DEF Builders
<1> HIDE DEF n, k
<1>10. SameGraph(B, B2) BY <1>9 DEF SameGraph, TermOf
<1>11. SameScopes(B, B2) BY <1>4, <1>5, <1>9 DEF SameScopes, k
<1>12. Filled(B2)
  <2>1. \A c \in BlocksOf(B) : StmtsOf(B2, c) = StmtsOf(B, c) BY <1>9 DEF StmtsOf
  <2>2. BlocksOf(B2) = BlocksOf(B) BY <1>9 DEF BlocksOf
  <2>3. 1..n \subseteq 1..Len(B2.local_decls) BY <1>1, <1>6, <1>9
  <2>4. \A s : StmtFits(s, n) => StmtFits(s, Len(B2.local_decls)) BY <2>3 DEF StmtFits
  <2>5. Filled(B) BY DEF BuilderOK
  <2> QED BY <2>1, <2>2, <2>4, <2>5 DEF Filled, n
<1>13. Scheduled(B2)
  <2>1. Scheduled(B) BY DEF BuilderOK
  <2>2. \A i \in 1..k : B.scopes[i].drops \subseteq 1..n BY <2>1 DEF Scheduled, LocalsOf, n, k
  <2>3. LocalsOf(B2) = 1..(n + 1) BY <1>6, <1>9 DEF LocalsOf
  <2>4. \A i \in 1..k : B2.scopes[i].drops =
          IF i = k THEN B.scopes[i].drops \union {n + 1} ELSE B.scopes[i].drops
    BY <1>4, <1>5, <1>9
  <2>5. Len(B2.scopes) = k BY <1>5, <1>9
  <2>6. ASSUME NEW i \in 1..k PROVE B2.scopes[i].drops \subseteq LocalsOf(B2)
    <3>1. B.scopes[i].drops \subseteq 1..n BY <2>2
    <3>2. 1..n \subseteq 1..(n + 1) /\ n + 1 \in 1..(n + 1) BY <1>1
    <3> QED BY <2>3, <2>4, <3>1, <3>2
  <2>7. ASSUME NEW i \in 1..k, NEW j \in 1..k, i # j
        PROVE  B2.scopes[i].drops \intersect B2.scopes[j].drops = {}
    <3>1. B.scopes[i].drops \intersect B.scopes[j].drops = {} BY <2>1, <2>7 DEF Scheduled, k
    <3>2. n + 1 \notin B.scopes[i].drops /\ n + 1 \notin B.scopes[j].drops BY <1>1, <2>2
    <3> QED BY <2>4, <2>7, <3>1, <3>2
  <2> QED BY <2>5, <2>6, <2>7 DEF Scheduled
<1>14. B2.visibility_scope \in ScopesOf(B2) BY <1>9 DEF BuilderOK, ScopesOf
<1>15. Len(B2.local_decls) = Len(B.local_decls) + 1 /\ Len(B.local_decls) <= Len(B2.local_decls)
  BY <1>1, <1>6, <1>9 DEF n
<1>16. BuilderOK(B2) BY <1>9, <1>10, <1>12, <1>13, <1>14, <1>15, SameGraphOK, Zenon
<1>17. Len(B.visibility_scopes) <= Len(B2.visibility_scopes)
  BY <1>1, <1>9, BuilderFields
<1>18. NextLocal(B) \in LocalsOf(B2) BY <1>1, <1>15 DEF NextLocal, LocalsOf, n
<1> QED BY <1>9, <1>10, <1>11, <1>15, <1>16, <1>17, <1>18 DEF Keeps, Grows

\* A push and a scheduled drop change different parts of a builder.
LEMMA DropAndPush ==
  ASSUME NEW E \in Builders, NEW b \in BlocksOf(E), NEW s, NEW v, NEW l
  PROVE  schedule_drop(push_at(E, b, s, v), l) = push_at(schedule_drop(E, l), b, s, v)
<1> DEFINE bs == [E.basic_blocks EXCEPT ![b].stmts = Append(@, s), ![b].scopes = Append(@, v)]
           ss == [E.scopes EXCEPT ![Len(E.scopes)].drops = @ \union {l}]
           a == E.asserts /\ ~ScheduledIn(E.scopes, l)
           P == push_at(E, b, s, v)
           D == schedule_drop(E, l)
<1>1. P = [E EXCEPT !.basic_blocks = bs] BY DEF push_at, Builders
<1>2. D = [[E EXCEPT !.scopes = ss] EXCEPT !.asserts = a] BY DEF schedule_drop, Builders
<1>3. /\ P.scopes = E.scopes /\ P.asserts = E.asserts /\ P.basic_blocks = bs
      /\ D.basic_blocks = E.basic_blocks
  BY <1>1, <1>2 DEF Builders
<1>4. schedule_drop(P, l) = [[P EXCEPT !.scopes = ss] EXCEPT !.asserts = a]
  BY <1>1, <1>3 DEF schedule_drop, Builders
<1>5. push_at(D, b, s, v) = [D EXCEPT !.basic_blocks = bs]
  BY <1>2, <1>3 DEF push_at, Builders
<1> HIDE DEF bs, ss, a, P, D
<1>6. schedule_drop(P, l) = push_at(D, b, s, v) BY <1>1, <1>2, <1>4, <1>5 DEF Builders
<1> QED BY <1>6 DEF P, D

LEMMA TempGrows ==
  ASSUME NEW B, BuilderOK(B), B.scopes # << >>, NEW b \in BlocksOf(B)
  PROVE  /\ Grows(B, temp(B, b)) /\ NextLocal(B) \in LocalsOf(temp(B, b))
         /\ temp(B, b).visibility_scope = B.visibility_scope
         /\ temp(B, b).visibility_scopes = B.visibility_scopes
         /\ Len(temp(B, b).local_decls) = Len(B.local_decls) + 1
<1> DEFINE n == NextLocal(B)
           s == StorageLive(n)
           D == schedule_drop(Declare(B, TempName, B.visibility_scope), n)
           T == push_at(D, b, s, B.visibility_scope)
<1>1. /\ B \in Builders /\ B.visibility_scope \in Nat /\ Len(B.local_decls) \in Nat
      /\ TempName \in AllNames
  BY BuilderFields DEF BuilderOK, AllNames
<1>2. /\ Grows(B, D) /\ n \in LocalsOf(D) /\ Len(D.local_decls) = Len(B.local_decls) + 1
      /\ D.visibility_scope = B.visibility_scope /\ D.visibility_scopes = B.visibility_scopes
  BY <1>1, Declared
<1>3. temp(B, b) = T
  <2> DEFINE E == Declare(B, TempName, B.visibility_scope)
  <2>1. /\ E \in Builders /\ E.basic_blocks = B.basic_blocks
        /\ E.visibility_scope = B.visibility_scope
    <3>1. B.scopes \in Seq(ScopeRecords) /\ B.local_decls \in Seq(DeclRecords)
      BY <1>1, BuilderFields
    <3>2. extent_of_innermost_scope(B) \in Nat
      <4>1. B.scopes[Len(B.scopes)] \in ScopeRecords BY <3>1
      <4> QED BY <4>1 DEF extent_of_innermost_scope, Last, ScopeRecords
    <3>3. [name |-> TempName, scope |-> B.visibility_scope, extent |-> extent_of_innermost_scope(B)]
            \in DeclRecords
      BY <1>1, <3>2 DEF DeclRecords
    <3>4. Append(B.local_decls, [name |-> TempName, scope |-> B.visibility_scope,
                                 extent |-> extent_of_innermost_scope(B)]) \in Seq(DeclRecords)
      BY <3>1, <3>3, AppendProperties
    <3> QED BY <1>1, <3>1, <3>4 DEF Declare, Builders
  <2> HIDE DEF E
  <2>2. b \in BlocksOf(E) BY <2>1 DEF BlocksOf
  <2>3. schedule_drop(push_at(E, b, s, B.visibility_scope), n)
          = push_at(schedule_drop(E, n), b, s, B.visibility_scope)
    BY <2>1, <2>2, DropAndPush
  <2> QED BY <2>1, <2>3 DEF temp, push, E
<1> HIDE DEF D, T, n
<1>4. BuilderOK(D) /\ b \in BlocksOf(D) BY <1>2, SameArms DEF Keeps, Grows
<1>5. D \in Builders /\ Len(D.local_decls) \in Nat BY <1>4, BuilderFields DEF BuilderOK
<1>6. s \in AnyStatement /\ StmtFits(s, Len(D.local_decls))
  BY <1>2, <1>5, LiveFits DEF LocalsOf
<1>7. Fills(D, T) BY <1>1, <1>4, <1>6, PushAt DEF T
<1>8. Grows(B, T) BY <1>2, <1>7, GrowsTransitive DEF Fills
<1> QED BY <1>2, <1>3, <1>7, <1>8 DEF Fills, LocalsOf, n

\* A name is resolved to a local, if to anything.
LEMMA FoundInScope ==
  ASSUME NEW B, BuilderOK(B), NEW i \in 1..Len(B.scopes), NEW name,
         Named(B, B.scopes[i], name) # {}
  PROVE  Latest(Named(B, B.scopes[i], name)) \in LocalsOf(B)
<1> DEFINE S == Named(B, B.scopes[i], name)
<1>1. B \in Builders /\ Len(B.local_decls) \in Nat BY BuilderFields DEF BuilderOK
<1>2. S \subseteq LocalsOf(B) BY DEF Named, BuilderOK, Scheduled
<1>3. S \in SUBSET (0..Len(B.local_decls)) BY <1>1, <1>2 DEF LocalsOf
<1> HIDE DEF S
<1>4. S # {} BY DEF S
<1>5. Latest(S) \in S BY <1>1, <1>3, <1>4, LatestMember
<1> QED BY <1>2, <1>5 DEF S

LEMMA FoundLocal ==
  ASSUME NEW B, BuilderOK(B), NEW name
  PROVE  find_local(B, name) \in {None} \union LocalsOf(B)
<1> DEFINE in == {i \in 1..Len(B.scopes) : Named(B, B.scopes[i], name) # {}}
<1>1. CASE in = {} BY <1>1 DEF find_local
<1>2. CASE in # {}
  <2>1. Len(B.scopes) \in Nat BY BuilderFields DEF BuilderOK
  <2>2. in \in SUBSET (0..Len(B.scopes)) BY <2>1
  <2>3. Latest(in) \in in BY <1>2, <2>1, <2>2, LatestMember
  <2>4. find_local(B, name) = Latest(Named(B, B.scopes[Latest(in)], name)) BY <1>2 DEF find_local
  <2> HIDE DEF in
  <2>5. Latest(in) \in 1..Len(B.scopes) /\ Named(B, B.scopes[Latest(in)], name) # {}
    BY <2>3 DEF in
  <2> QED BY <2>4, <2>5, FoundInScope
<1> QED BY <1>1, <1>2

LEMMA FoundInCurrent ==
  ASSUME NEW B, BuilderOK(B), B.scopes # << >>, NEW name
  PROVE  find_local_in_current_scope(B, name) \in {None} \union LocalsOf(B)
<1>1. B.scopes \in Seq(ScopeRecords) BY BuilderFields DEF BuilderOK
<1>2. Len(B.scopes) \in 1..Len(B.scopes) BY <1>1
<1> QED BY <1>2, FoundInScope DEF find_local_in_current_scope, Last

\* What declaring n of the bindings of a pattern has done to builder B.
Declares(B, D, n) ==
  /\ Grows(B, D.b) /\ D.b.visibility_scope = B.visibility_scope
  /\ D.scope \in {None} \union ScopesOf(D.b)
  /\ D.locals \in Seq(LocalsOf(D.b)) /\ Len(D.locals) = n
  /\ Len(D.b.local_decls) >= Len(B.local_decls) + n

LEMMA BindingDeclared ==
  ASSUME NEW B, BuilderOK(B), B.scopes # << >>, NEW b \in BlocksOf(B),
         NEW name \in AllNames, NEW scope \in Nat,
         NEW N, N = declare_binding(B, b, name, scope)
  PROVE  /\ Grows(B, N) /\ N.visibility_scope = B.visibility_scope
         /\ N.visibility_scopes = B.visibility_scopes
         /\ Len(N.local_decls) >= Len(B.local_decls) + 1
<1> DEFINE shadowed == find_local_in_current_scope(B, name)
           T == temp(B, b)
           kept == IF shadowed = None THEN B
                   ELSE push_at(T, b, Write({NextLocal(B)}, {shadowed}, {}), scope)
<1>1. B \in Builders /\ Len(B.local_decls) \in Nat BY BuilderFields DEF BuilderOK
<1>2. /\ Grows(B, kept) /\ kept.visibility_scope = B.visibility_scope
      /\ kept.visibility_scopes = B.visibility_scopes
  <2>1. CASE shadowed = None BY <2>1, GrowsReflexive DEF Fills
  <2>2. CASE shadowed # None
    <3>1. /\ Grows(B, T) /\ NextLocal(B) \in LocalsOf(T) /\ T.visibility_scope = B.visibility_scope
          /\ T.visibility_scopes = B.visibility_scopes
      BY TempGrows
    <3>2. BuilderOK(T) /\ b \in BlocksOf(T) BY <3>1, SameArms DEF Keeps, Grows
    <3>3. T \in Builders /\ Len(T.local_decls) \in Nat BY <3>2, BuilderFields DEF BuilderOK
    <3>4. shadowed \in LocalsOf(B) BY <2>2, FoundInCurrent
    <3>5. shadowed \in LocalsOf(T) BY <1>1, <3>1, <3>3, <3>4 DEF Keeps, Grows, LocalsOf
    <3> DEFINE s == Write({NextLocal(B)}, {shadowed}, {})
    <3>6. s \in AnyStatement /\ StmtFits(s, Len(T.local_decls))
      BY <3>1, <3>3, <3>5, StatementsFit DEF Write, StmtOps, LocalsOf
    <3> HIDE DEF s, T
    <3>7. Fills(T, push_at(T, b, s, scope)) BY <3>2, <3>6, PushAt
    <3>8. Grows(B, push_at(T, b, s, scope)) BY <3>1, <3>7, GrowsTransitive DEF Fills
    <3> QED BY <2>2, <3>1, <3>7, <3>8 DEF s, Fills
  <2> QED BY <2>1, <2>2
<1>3. N = schedule_drop(Declare(kept, name, scope), NextLocal(kept)) BY DEF declare_binding
<1> HIDE DEF kept
<1>4. BuilderOK(kept) /\ kept.scopes # << >>
  <2>1. BuilderOK(kept) BY <1>2 DEF Keeps, Grows
  <2>2. B.scopes \in Seq(ScopeRecords) /\ kept.scopes \in Seq(ScopeRecords)
    BY <1>1, <2>1, BuilderFields DEF BuilderOK
  <2>3. Len(kept.scopes) = Len(B.scopes) BY <1>2 DEF Keeps, Grows, SameScopes
  <2> QED BY <2>1, <2>2, <2>3
<1>5. /\ Grows(kept, N) /\ Len(N.local_decls) = Len(kept.local_decls) + 1
      /\ N.visibility_scope = kept.visibility_scope /\ N.visibility_scopes = kept.visibility_scopes
  BY <1>3, <1>4, Declared
<1>6. Grows(B, N) BY <1>2, <1>5, GrowsTransitive
<1>7. Len(kept.local_decls) \in Nat /\ Len(B.local_decls) <= Len(kept.local_decls)
  BY <1>2, <1>4, BuilderFields DEF BuilderOK, Keeps, Grows
<1> QED BY <1>1, <1>2, <1>5, <1>6, <1>7

LEMMA VisibilityScopeAdded ==
  ASSUME NEW B, BuilderOK(B), NEW V, V = new_visibility_scope(B)
  PROVE  /\ Grows(B, V) /\ V.visibility_scope = B.visibility_scope
         /\ V.scopes = B.scopes /\ V.local_decls = B.local_decls
         /\ Len(V.visibility_scopes) \in ScopesOf(V)
<1> DEFINE vs == Append(B.visibility_scopes, B.visibility_scope)
<1>1. /\ B \in Builders /\ B.visibility_scopes \in Seq(Nat) /\ B.visibility_scope \in Nat
      /\ Len(B.visibility_scopes) \in Nat /\ Len(B.local_decls) \in Nat
  BY BuilderFields DEF BuilderOK
<1>2. vs \in Seq(Nat) /\ Len(vs) = Len(B.visibility_scopes) + 1 BY <1>1, AppendProperties
<1>3. V = [B EXCEPT !.visibility_scopes = vs] BY DEF new_visibility_scope
<1> HIDE DEF vs
<1>4. /\ V \in Builders /\ V.visibility_scopes = vs /\ V.scopes = B.scopes
      /\ V.local_decls = B.local_decls /\ V.basic_blocks = B.basic_blocks
      /\ V.visibility_scope = B.visibility_scope /\ V.loop_scopes = B.loop_scopes
      /\ V.cached_return_block = B.cached_return_block /\ V.asserts = B.asserts
  BY <1>1, <1>2, <1>3 DEF Builders
<1>5. SameGraph(B, V) /\ SameScopes(B, V) BY <1>4 DEF SameGraph, SameScopes, TermOf
<1>6. Filled(V)
  <2>1. Filled(B) BY DEF BuilderOK
  <2> QED BY <1>4, <2>1 DEF Filled, BlocksOf, StmtsOf
<1>7. Scheduled(V) BY <1>4 DEF Scheduled, BuilderOK, LocalsOf
<1>8. V.visibility_scope \in ScopesOf(V) BY <1>1, <1>2, <1>4 DEF BuilderOK, ScopesOf
<1>9. Len(B.local_decls) <= Len(V.local_decls) BY <1>1, <1>4
<1>10. BuilderOK(V) BY <1>4, <1>5, <1>6, <1>7, <1>8, <1>9, SameGraphOK, Zenon
<1> QED BY <1>1, <1>2, <1>4, <1>5, <1>9, <1>10 DEF Keeps, Grows, ScopesOf

LEMMA NextDeclared ==
  ASSUME NEW B, BuilderOK(B), B.scopes # << >>, NEW b \in BlocksOf(B),
         NEW D, NEW n \in Nat, Declares(B, D, n), NEW name \in AllNames
  PROVE  Declares(B, DeclareNext(D, b, name), n + 1)
<1> DEFINE V == IF D.scope = None THEN new_visibility_scope(D.b) ELSE D.b
           s == IF D.scope = None THEN Len(V.visibility_scopes) ELSE D.scope
           N == declare_binding(V, b, name, s)
           E == DeclareNext(D, b, name)
<1>1. /\ BuilderOK(D.b) /\ Grows(B, D.b) /\ D.b.visibility_scope = B.visibility_scope
      /\ D.scope \in {None} \union ScopesOf(D.b)
      /\ D.locals \in Seq(LocalsOf(D.b)) /\ Len(D.locals) = n
      /\ Len(D.b.local_decls) >= Len(B.local_decls) + n
  BY DEF Declares, Keeps, Grows
<1>2. /\ Grows(D.b, V) /\ V.visibility_scope = D.b.visibility_scope /\ V.scopes = D.b.scopes
      /\ V.local_decls = D.b.local_decls /\ s \in ScopesOf(V)
  <2>1. CASE D.scope = None BY <1>1, <2>1, VisibilityScopeAdded
  <2>2. CASE D.scope # None BY <1>1, <2>2, GrowsReflexive DEF Fills
  <2> QED BY <2>1, <2>2
<1>3. E = [b |-> N, scope |-> s, locals |-> Append(D.locals, Len(N.local_decls))]
  BY DEF DeclareNext
<1> HIDE DEF V, s, E
<1>4. BuilderOK(V) /\ Grows(B, V) /\ V.scopes # << >> /\ b \in BlocksOf(V)
  <2>1. BuilderOK(V) BY <1>2 DEF Keeps, Grows
  <2>2. Grows(B, V) BY <1>1, <1>2, GrowsTransitive
  <2>3. B.scopes \in Seq(ScopeRecords) /\ V.scopes \in Seq(ScopeRecords)
    BY <2>1, BuilderFields DEF BuilderOK
  <2>4. Len(V.scopes) = Len(B.scopes) BY <2>2 DEF Keeps, Grows, SameScopes
  <2>5. b \in BlocksOf(V) BY <2>2 DEF Keeps, Grows, SameGraph, BlocksOf
  <2> QED BY <2>1, <2>2, <2>3, <2>4, <2>5
<1>5. s \in Nat BY <1>2 DEF ScopesOf
<1>6. /\ Grows(V, N) /\ N.visibility_scope = V.visibility_scope
      /\ N.visibility_scopes = V.visibility_scopes
      /\ Len(N.local_decls) >= Len(V.local_decls) + 1
  BY <1>4, <1>5, BindingDeclared
<1> HIDE DEF N
<1>7. Grows(B, N) BY <1>4, <1>6, GrowsTransitive
<1>8. BuilderOK(N) BY <1>6 DEF Keeps, Grows
<1>9. Len(B.local_decls) \in Nat /\ Len(D.b.local_decls) \in Nat /\ Len(N.local_decls) \in Nat
  BY <1>1, <1>8, BuilderFields DEF BuilderOK
<1>10. Append(D.locals, Len(N.local_decls)) \in Seq(LocalsOf(N))
       /\ Len(Append(D.locals, Len(N.local_decls))) = n + 1
  <2>1. LocalsOf(D.b) \subseteq LocalsOf(N) BY <1>2, <1>6, <1>9 DEF LocalsOf
  <2>2. D.locals \in Seq(LocalsOf(N)) BY <1>1, <2>1, SeqMonotonic
  <2>3. Len(N.local_decls) \in LocalsOf(N) BY <1>2, <1>6, <1>9 DEF LocalsOf
  <2> QED BY <1>1, <2>2, <2>3, AppendProperties
<1>11. s \in ScopesOf(N) BY <1>2, <1>6 DEF ScopesOf
<1>12. Len(N.local_decls) >= Len(B.local_decls) + (n + 1)
  <2>1. Len(N.local_decls) >= Len(D.b.local_decls) + 1 BY <1>2, <1>6
  <2>2. Len(D.b.local_decls) >= Len(B.local_decls) + n BY <1>1
  <2>3. \A p, q, r \in Nat : p >= q + 1 /\ q >= r + n => p >= r + (n + 1) OBVIOUS
  <2> QED BY ONLY <1>9, <2>1, <2>2, <2>3, Zenon
<1>13. N.visibility_scope = B.visibility_scope BY <1>1, <1>2, <1>6
<1>14. E.b = N /\ E.scope = s /\ E.locals = Append(D.locals, Len(N.local_decls)) BY <1>3
<1>15. Declares(B, E, n + 1) BY <1>7, <1>10, <1>11, <1>12, <1>13, <1>14 DEF Declares
<1> QED BY <1>15 DEF E

LEMMA BindingsDeclared ==
  ASSUME NEW B, BuilderOK(B), B.scopes # << >>, NEW b \in BlocksOf(B),
         NEW names \in Seq(AllNames)
  PROVE  Declares(B, declare_bindings(B, b, names), Len(names))
<1> DEFINE none == [b |-> B, scope |-> None, locals |-> << >>]
           Rounds(g, m) == g = [i \in 0..m |-> IF i = 0 THEN none
                                               ELSE DeclareNext(g[i - 1], b, names[i])]
           T == {m \in Nat : \E g : Rounds(g, m)}
<1>1. 0 \in T
  <2>1. Rounds([i \in 0..0 |-> none], 0) OBVIOUS
  <2> QED BY <2>1
<1>2. ASSUME NEW m \in Nat, m \in T PROVE m + 1 \in T
  <2>1. PICK g : Rounds(g, m) BY <1>2
  <2> DEFINE h == [i \in 0..(m + 1) |-> IF i <= m THEN g[i] ELSE DeclareNext(g[i - 1], b, names[i])]
  <2> HIDE DEF none
  <2>2. ASSUME NEW i \in 0..(m + 1), i # 0
        PROVE  h[i] = DeclareNext(h[i - 1], b, names[i])
    <3>1. i - 1 \in 0..m /\ h[i - 1] = g[i - 1] BY <2>2
    <3>2. CASE i <= m
      <4>1. i \in 0..m /\ h[i] = g[i] BY <3>2
      <4> QED BY <2>1, <2>2, <3>1, <4>1
    <3>3. CASE ~(i <= m) BY <3>1, <3>3
    <3> QED BY <3>2, <3>3
  <2>3. h[0] = none BY <2>1
  <2>4. Rounds(h, m + 1)
    <3> DEFINE r == [i \in 0..(m + 1) |-> IF i = 0 THEN none ELSE DeclareNext(h[i - 1], b, names[i])]
    <3>1. \A i \in 0..(m + 1) : h[i] = r[i] BY <2>2, <2>3
    <3>2. h = [i \in 0..(m + 1) |-> h[i]] OBVIOUS
    <3> HIDE DEF h
    <3> QED BY <3>1, <3>2
  <2> HIDE DEF Rounds, h
  <2> QED BY <2>4
<1>3. Len(names) \in Nat OBVIOUS
<1>4. \E g : Rounds(g, Len(names)) /\ declare_bindings(B, b, names) = g[Len(names)]
  <2>1. Nat \subseteq T
    <3> HIDE DEF T
    <3> QED BY <1>1, <1>2, Induction
  <2>2. \E g : Rounds(g, Len(names)) BY <1>3, <2>1
  <2> QED BY <2>2 DEF declare_bindings
<1>5. PICK g : Rounds(g, Len(names)) /\ declare_bindings(B, b, names) = g[Len(names)] BY <1>4
<1> DEFINE U == {m \in Nat : m <= Len(names) => Declares(B, g[m], m)}
<1>6. 0 \in U
  <2>1. g[0] = none BY <1>3, <1>5
  <2>2. Declares(B, none, 0)
    <3>1. Grows(B, B) BY GrowsReflexive DEF Fills
    <3>2. Len(B.local_decls) \in Nat BY BuilderFields DEF BuilderOK
    <3> QED BY <3>1, <3>2 DEF Declares
  <2> QED BY <2>1, <2>2
<1>7. ASSUME NEW m \in Nat, m \in U, m + 1 <= Len(names) PROVE Declares(B, g[m + 1], m + 1)
  <2>1. m + 1 \in 0..Len(names) /\ (m + 1) - 1 = m /\ m + 1 # 0 /\ m <= Len(names)
    BY <1>3, <1>7
  <2>2. g[m + 1] = DeclareNext(g[m], b, names[m + 1]) BY <1>5, <2>1
  <2>3. names[m + 1] \in AllNames BY <2>1
  <2>4. Declares(B, g[m], m) BY <1>7, <2>1
  <2> QED BY <2>2, <2>3, <2>4, NextDeclared
<1>8. Len(names) \in U
  <2>1. ASSUME NEW m \in Nat, m \in U PROVE m + 1 \in U
    <3> HIDE DEF Rounds, none
    <3>1. m + 1 <= Len(names) => Declares(B, g[m + 1], m + 1) BY <1>7, <2>1
    <3> QED BY <3>1
  <2> HIDE DEF U
  <2> QED BY <1>3, <1>6, <2>1, Induction
<1> QED BY <1>3, <1>5, <1>8

LEMMA KeepsTransitive ==
  ASSUME NEW A, NEW B, NEW C, BuilderOK(A), Keeps(A, B), Keeps(B, C) PROVE Keeps(A, C)
<1>1. SameGraph(A, C) BY DEF Keeps, SameGraph, BlocksOf
<1>2. A \in Builders /\ B \in Builders /\ C \in Builders BY DEF Keeps, BuilderOK
<1>3. /\ Len(A.local_decls) \in Nat /\ Len(A.visibility_scopes) \in Nat
      /\ Len(B.local_decls) \in Nat /\ Len(B.visibility_scopes) \in Nat
      /\ Len(C.local_decls) \in Nat /\ Len(C.visibility_scopes) \in Nat
  BY <1>2, BuilderFields
<1> QED BY <1>1, <1>3 DEF Keeps

LEMMA ScopePushed ==
  ASSUME NEW B, BuilderOK(B), NEW extent \in Nat, NEW extents \in Nat,
         NEW P, P = push_scope([B EXCEPT !.extents = extents], extent)
  PROVE  /\ Keeps(B, P) /\ P.scopes # << >> /\ P.extents = extents
         /\ P.visibility_scope = B.visibility_scope
         /\ Len(P.scopes) = Len(B.scopes) + 1 /\ P.scopes[Len(B.scopes) + 1].extent = extent
         /\ \A i \in 1..Len(B.scopes) : P.scopes[i].extent = B.scopes[i].extent
         /\ Len(P.local_decls) = Len(B.local_decls)
<1> DEFINE top == [extent |-> extent, drops |-> {}, visibility_scope |-> B.visibility_scope]
           ss == Append(B.scopes, top)
           k == Len(B.scopes)
<1>1. /\ B \in Builders /\ B.scopes \in Seq(ScopeRecords) /\ B.visibility_scope \in Nat /\ k \in Nat
      /\ Len(B.visibility_scopes) \in Nat /\ Len(B.local_decls) \in Nat
  BY BuilderFields DEF BuilderOK
<1>2. top \in ScopeRecords BY <1>1 DEF ScopeRecords
<1>3. top.extent = extent /\ top.drops = {} OBVIOUS
<1>4. P = [[B EXCEPT !.extents = extents] EXCEPT !.scopes = ss] BY <1>1 DEF push_scope, Builders
<1> HIDE DEF top
<1>5. /\ ss \in Seq(ScopeRecords) /\ Len(ss) = k + 1 /\ ss # << >>
      /\ \A i \in 1..(k + 1) : ss[i] = IF i = k + 1 THEN top ELSE B.scopes[i]
  BY <1>1, <1>2
<1> HIDE DEF ss
<1>6. /\ P \in Builders /\ P.scopes = ss /\ P.extents = extents
      /\ P.local_decls = B.local_decls /\ P.basic_blocks = B.basic_blocks
      /\ P.visibility_scope = B.visibility_scope /\ P.visibility_scopes = B.visibility_scopes
      /\ P.loop_scopes = B.loop_scopes
      /\ P.cached_return_block = B.cached_return_block /\ P.asserts = B.asserts
  BY <1>1, <1>4, <1>5 DEF Builders
<1>7. SameGraph(B, P) BY <1>6 DEF SameGraph, TermOf
<1>8. Filled(P)
  <2>1. Filled(B) BY DEF BuilderOK
  <2> QED BY <1>6, <2>1 DEF Filled, BlocksOf, StmtsOf
<1>9. Scheduled(P)
  <2>1. Scheduled(B) BY DEF BuilderOK
  <2>2. Len(P.scopes) = k + 1
        /\ \A i \in 1..(k + 1) : P.scopes[i].drops = IF i = k + 1 THEN {} ELSE B.scopes[i].drops
    BY <1>3, <1>5, <1>6
  <2>3. LocalsOf(P) = LocalsOf(B) BY <1>6 DEF LocalsOf
  <2>4. \A i \in 1..(k + 1) : i # k + 1 => i \in 1..k BY <1>1
  <2>5. \A i \in 1..(k + 1) : P.scopes[i].drops \subseteq LocalsOf(P)
    BY <2>1, <2>2, <2>3, <2>4 DEF Scheduled
  <2>6. \A i, j \in 1..(k + 1) : i # j => P.scopes[i].drops \intersect P.scopes[j].drops = {}
    BY <2>1, <2>2, <2>4 DEF Scheduled
  <2> QED BY <2>2, <2>5, <2>6 DEF Scheduled
<1>10. P.visibility_scope \in ScopesOf(P) BY <1>6 DEF BuilderOK, ScopesOf
<1>11. /\ Len(B.local_decls) <= Len(P.local_decls)
       /\ Len(B.visibility_scopes) <= Len(P.visibility_scopes)
  BY <1>1, <1>6
<1>12. BuilderOK(P) BY <1>6, <1>7, <1>8, <1>9, <1>10, <1>11, SameGraphOK, Zenon
<1>13. Keeps(B, P) BY <1>6, <1>7, <1>11, <1>12 DEF Keeps
<1>14. /\ Len(P.scopes) = k + 1 /\ P.scopes[k + 1].extent = extent
       /\ \A i \in 1..k : P.scopes[i].extent = B.scopes[i].extent
  <2>1. k + 1 \in 1..(k + 1) /\ \A i \in 1..k : i \in 1..(k + 1) /\ i # k + 1 BY <1>1
  <2> QED BY <1>3, <1>5, <1>6, <2>1
<1> QED BY <1>5, <1>6, <1>13, <1>14

LEMMA ScopeEntered ==
  ASSUME NEW B, BuilderOK(B), NEW P, P = enter_scope(B)
  PROVE  /\ Keeps(B, P) /\ P.scopes # << >> /\ P.extents \in Nat
         /\ P.visibility_scope = B.visibility_scope
         /\ Len(P.scopes) = Len(B.scopes) + 1 /\ P.scopes[Len(B.scopes) + 1].extent = P.extents
         /\ \A i \in 1..Len(B.scopes) : P.scopes[i].extent = B.scopes[i].extent
         /\ Len(P.local_decls) = Len(B.local_decls)
<1>1. B \in Builders /\ B.extents + 1 \in Nat BY BuilderFields DEF BuilderOK
<1>2. P = push_scope([B EXCEPT !.extents = B.extents + 1], B.extents + 1)
  BY DEF enter_scope, start_new_extent
<1> QED BY <1>1, <1>2, ScopePushed

LEMMA ScopePopped ==
  ASSUME NEW B, BuilderOK(B), NEW b \in BlocksOf(B), B.scopes # << >>, NEW extent,
         B.scopes[Len(B.scopes)].extent = extent, NEW P, P = pop_scope(B, b, extent)
  PROVE  /\ Keeps(B, P) /\ P.visibility_scope = B.visibility_scope
         /\ Len(P.scopes) = Len(B.scopes) - 1
         /\ \A i \in 1..(Len(B.scopes) - 1) : P.scopes[i].extent = B.scopes[i].extent
         /\ Len(P.local_decls) = Len(B.local_decls)
<1> DEFINE k == Len(B.scopes)
           scope == Last(B.scopes)
           rest == Front(B.scopes)
           F == build_scope_drops(B, b, scope.drops, scope)
<1>1. /\ B \in Builders /\ B.scopes \in Seq(ScopeRecords) /\ k \in Nat /\ k \in 1..k
  BY BuilderFields DEF BuilderOK
<1>2. scope \in ScopeRecords /\ scope = B.scopes[k] BY <1>1 DEF Last
<1>3. /\ rest \in Seq(ScopeRecords) /\ Len(rest) = k - 1
      /\ \A i \in 1..(k - 1) : rest[i] = B.scopes[i]
  BY <1>1 DEF Front
<1>4. Fills(B, F) BY <1>2, ScopeDrops
<1>5. \A l \in scope.drops : ~ScheduledIn(rest, l)
  <2> SUFFICES ASSUME NEW l \in scope.drops, NEW i \in 1..Len(rest), l \in rest[i].drops
               PROVE  FALSE
    BY DEF ScheduledIn
  <2>1. i \in 1..k /\ i # k /\ rest[i] = B.scopes[i] BY <1>1, <1>3
  <2>2. B.scopes[i].drops \intersect B.scopes[k].drops = {}
    BY <1>1, <2>1 DEF BuilderOK, Scheduled
  <2> QED BY <1>2, <2>1, <2>2
<1>6. P = [[F EXCEPT !.scopes = rest] EXCEPT !.asserts = F.asserts]
  <2>1. F \in Builders BY <1>4 DEF Fills, Keeps, Grows, BuilderOK
  <2>2. pop_scope(B, b, extent) =
          [F EXCEPT !.scopes = rest,
                    !.asserts = @ /\ scope.extent = extent /\ \A l \in scope.drops : ~ScheduledIn(rest, l)]
    BY DEF pop_scope
  <2>3. scope.extent = extent BY <1>2
  <2> HIDE DEF F, rest, scope
  <2>4. (F.asserts /\ scope.extent = extent /\ \A l \in scope.drops : ~ScheduledIn(rest, l)) = F.asserts
    BY <1>5, <2>1, <2>3 DEF Builders
  <2> QED BY <2>1, <2>2, <2>4 DEF Builders
<1> HIDE DEF F, rest, scope
<1>7. /\ BuilderOK(F) /\ F \in Builders /\ SameGraph(B, F) /\ F.scopes = B.scopes
      /\ F.local_decls = B.local_decls /\ F.asserts = B.asserts
      /\ F.visibility_scope = B.visibility_scope /\ F.visibility_scopes = B.visibility_scopes
  BY <1>4 DEF Fills, Keeps, Grows, BuilderOK
<1>8. /\ P \in Builders /\ P.scopes = rest
      /\ P.local_decls = F.local_decls /\ P.basic_blocks = F.basic_blocks
      /\ P.visibility_scope = F.visibility_scope /\ P.visibility_scopes = F.visibility_scopes
      /\ P.loop_scopes = F.loop_scopes
      /\ P.cached_return_block = F.cached_return_block /\ P.asserts = F.asserts
  BY <1>3, <1>6, <1>7 DEF Builders
<1>9. SameGraph(F, P) BY <1>8 DEF SameGraph, TermOf
<1>10. Filled(P)
  <2>1. Filled(F) BY <1>7 DEF BuilderOK
  <2> QED BY <1>8, <2>1 DEF Filled, BlocksOf, StmtsOf
<1>11. Scheduled(P)
  <2>1. Scheduled(B) BY DEF BuilderOK
  <2>2. Len(P.scopes) = k - 1 /\ \A i \in 1..(k - 1) : P.scopes[i] = B.scopes[i] /\ i \in 1..k
    BY <1>1, <1>3, <1>8
  <2>3. LocalsOf(P) = LocalsOf(B) BY <1>7, <1>8 DEF LocalsOf
  <2>4. \A i \in 1..(k - 1) : P.scopes[i].drops \subseteq LocalsOf(P)
    BY <2>1, <2>2, <2>3 DEF Scheduled
  <2>5. \A i, j \in 1..(k - 1) : i # j => P.scopes[i].drops \intersect P.scopes[j].drops = {}
    BY <2>1, <2>2 DEF Scheduled
  <2> QED BY <2>2, <2>4, <2>5 DEF Scheduled
<1>12. P.visibility_scope \in ScopesOf(P) BY <1>7, <1>8 DEF BuilderOK, ScopesOf
<1>13. Len(F.local_decls) <= Len(P.local_decls) /\ Len(F.visibility_scopes) <= Len(P.visibility_scopes)
  <2>1. Len(F.local_decls) \in Nat /\ Len(F.visibility_scopes) \in Nat BY <1>7, BuilderFields
  <2> QED BY <1>8, <2>1
<1>14. BuilderOK(P) BY <1>7, <1>8, <1>9, <1>10, <1>11, <1>12, <1>13, SameGraphOK, Zenon
<1>15. Keeps(F, P) BY <1>8, <1>9, <1>13, <1>14 DEF Keeps
<1>16. Keeps(B, P) BY <1>4, <1>15, KeepsTransitive DEF Fills, Grows
<1>17. \A i \in 1..(k - 1) : P.scopes[i].extent = B.scopes[i].extent BY <1>3, <1>8
<1> QED BY <1>3, <1>7, <1>8, <1>16, <1>17

-----------------------------------------------------------------------------
(***************************************************************************)
(* The control-flow graph.                                                 *)
(***************************************************************************)
Unended(B) == {c \in BlocksOf(B) : TermOf(B, c) = Unterminated}
Suspended(B) == {c \in BlocksOf(B) : TermOf(B, c).op = "Suspend"}

\* What operations on the graph keep.
Advances(B, B2) ==
  /\ BuilderOK(B2)
  /\ Len(B.basic_blocks) <= Len(B2.basic_blocks)
  /\ \A x : Jumpable(B, x) => Jumpable(B2, x)
  /\ B2.loop_scopes = B.loop_scopes /\ B2.scopes = B.scopes
  /\ B2.local_decls = B.local_decls /\ B2.asserts = B.asserts
  /\ B2.visibility_scope = B.visibility_scope
  /\ B2.visibility_scopes = B.visibility_scopes

LEMMA AdvancesTransitive ==
  ASSUME NEW A, NEW B, NEW C, BuilderOK(A), Advances(A, B), Advances(B, C) PROVE Advances(A, C)
<1>1. A \in Builders /\ B \in Builders /\ C \in Builders BY DEF Advances, BuilderOK
<1>2. /\ Len(A.basic_blocks) \in Nat /\ Len(B.basic_blocks) \in Nat /\ Len(C.basic_blocks) \in Nat
  BY <1>1, BuilderFields
<1> QED BY <1>2 DEF Advances

LEMMA OpenExtents == ASSUME NEW B, BuilderOK(B) PROVE Open(B) \in SUBSET Nat
<1>1. B.scopes \in Seq(ScopeRecords) BY BuilderFields DEF BuilderOK
<1>2. \A i \in 1..Len(B.scopes) : B.scopes[i].extent \in Nat
  <2>1. \A i \in 1..Len(B.scopes) : B.scopes[i] \in ScopeRecords BY <1>1
  <2> QED BY <2>1 DEF ScopeRecords
<1> QED BY <1>2 DEF Open

\* The parts of a builder that changes to the graph leave alone.
LEMMA SameLocals ==
  ASSUME NEW B, BuilderOK(B), NEW B2, B2.local_decls = B.local_decls, B2.scopes = B.scopes,
         B2.visibility_scope = B.visibility_scope, B2.visibility_scopes = B.visibility_scopes
  PROVE  Scheduled(B2) /\ B2.visibility_scope \in ScopesOf(B2) /\ LocalsOf(B2) = LocalsOf(B)
BY DEF BuilderOK, Scheduled, ScopesOf, LocalsOf

LEMMA BlockStarted ==
  ASSUME NEW B, BuilderOK(B), NEW home \in SUBSET Nat,
         NEW B2, B2 = start_new_block(B, home)
  PROVE  /\ Advances(B, B2) /\ B2.cached_return_block = B.cached_return_block
         /\ Len(B2.basic_blocks) = Len(B.basic_blocks) + 1
         /\ NextBlock(B) \notin BlocksOf(B) /\ Jumpable(B2, NextBlock(B))
         /\ Unended(B2) = Unended(B) \union {NextBlock(B)}
         /\ Suspended(B2) = Suspended(B)
         /\ \A c \in BlocksOf(B2) : TermOf(B2, c) = IF c = NextBlock(B) THEN Unterminated ELSE TermOf(B, c)
<1> DEFINE k == Len(B.basic_blocks)
           bs == Append(B.basic_blocks, EmptyBlock(home))
<1>1. B \in Builders /\ B.basic_blocks \in Seq(BlockRecords) /\ k \in Nat BY BuilderFields DEF BuilderOK
<1>2. EmptyBlock(home) \in BlockRecords BY DEF EmptyBlock, BlockRecords
<1>3. /\ bs \in Seq(BlockRecords) /\ Len(bs) = k + 1
      /\ \A c \in 1..(k + 1) : bs[c] = IF c = k + 1 THEN EmptyBlock(home) ELSE B.basic_blocks[c]
  BY <1>1, <1>2
<1>4. EmptyBlock(home).term = Unterminated /\ EmptyBlock(home).stmts = << >> BY DEF EmptyBlock
<1>5. B2 = [B EXCEPT !.basic_blocks = bs] BY DEF start_new_block
<1> HIDE DEF bs
<1>6. /\ B2 \in Builders /\ B2.basic_blocks = bs /\ B2.scopes = B.scopes
      /\ B2.local_decls = B.local_decls /\ B2.loop_scopes = B.loop_scopes
      /\ B2.visibility_scope = B.visibility_scope /\ B2.visibility_scopes = B.visibility_scopes
      /\ B2.cached_return_block = B.cached_return_block /\ B2.asserts = B.asserts
  BY <1>1, <1>3, <1>5 DEF Builders
<1>7. /\ BlocksOf(B) = 1..k /\ BlocksOf(B2) = 1..(k + 1) /\ NextBlock(B) = k + 1
      /\ \A c \in 1..(k + 1) : TermOf(B2, c) = IF c = k + 1 THEN Unterminated ELSE TermOf(B, c)
      /\ \A c \in 1..(k + 1) : StmtsOf(B2, c) = IF c = k + 1 THEN << >> ELSE StmtsOf(B, c)
      /\ \A c \in 1..k : c \in 1..(k + 1) /\ c # k + 1
      /\ \A c \in 1..(k + 1) : c = k + 1 \/ c \in 1..k
      /\ k + 1 \in 1..(k + 1)
      /\ k + 1 \notin 1..k
  BY <1>1, <1>3, <1>4, <1>6 DEF BlocksOf, TermOf, StmtsOf, NextBlock
<1> HIDE DEF k
<1>8. Unterminated.op = "None" /\ Unterminated.succ = << >> BY DEF Unterminated
<1>9. \A x : IsArm(B2, x) <=> IsArm(B, x) BY <1>7, <1>8 DEF IsArm
<1>10. \A x : Jumpable(B, x) => Jumpable(B2, x) BY <1>7, <1>9 DEF Jumpable
<1>11. ASSUME NEW x, IsArm(B, x) PROVE x \in BlocksOf(B)
  <2>1. PICK c \in BlocksOf(B) : TermOf(B, c).op = "Match" /\ x \in ToSet(TermOf(B, c).succ)
    BY <1>11 DEF IsArm
  <2>2. IsTerminator(TermOf(B, c), Len(B.local_decls), Len(B.basic_blocks))
    BY <1>8, <2>1 DEF BuilderOK, Ended
  <2>3. TermOf(B, c).succ \in Seq(BlocksOf(B)) BY <2>2 DEF IsTerminator, BlocksOf
  <2> QED BY <2>1, <2>3 DEF ToSet
<1>12. Jumpable(B2, k + 1) BY <1>7, <1>9, <1>11 DEF Jumpable
<1>13. ArmsOwned(B2)
  <2>1. ArmsOwned(B) BY DEF BuilderOK
  <2>2. ~IsArm(B2, START_BLOCK) BY <1>9, <2>1 DEF ArmsOwned
  <2>3. ASSUME NEW b \in BlocksOf(B2), TermOf(B2, b).op = "Match", NEW i \in 1..Len(TermOf(B2, b).succ),
               NEW c \in BlocksOf(B2), NEW j \in 1..Len(TermOf(B2, c).succ),
               TermOf(B2, c).succ[j] = TermOf(B2, b).succ[i]
        PROVE  c = b /\ j = i
    <3>1. b \in 1..k /\ TermOf(B2, b) = TermOf(B, b) BY <1>7, <1>8, <2>3
    <3>2. c \in 1..k /\ TermOf(B2, c) = TermOf(B, c) BY <1>7, <1>8, <2>3
    <3> QED BY <1>7, <2>1, <2>3, <3>1, <3>2 DEF ArmsOwned
  <2> QED BY <2>2, <2>3 DEF ArmsOwned
<1>14. Filled(B2)
  <2>1. Filled(B) BY DEF BuilderOK
  <2>2. Len(<< >>) = 0 OBVIOUS
  <2> QED BY <1>6, <1>7, <2>1, <2>2 DEF Filled
<1>15. Ended(B2)
  <2> SUFFICES ASSUME NEW c \in BlocksOf(B2), TermOf(B2, c) # Unterminated
               PROVE  IsTerminator(TermOf(B2, c), Len(B2.local_decls), Len(B2.basic_blocks))
    BY DEF Ended
  <2> DEFINE t == TermOf(B2, c)
  <2>1. c \in BlocksOf(B) /\ t = TermOf(B, c) BY <1>7
  <2>2. IsTerminator(t, Len(B.local_decls), k) BY <2>1 DEF BuilderOK, Ended, k
  <2>3. 1..k \subseteq 1..(k + 1) BY <1>7
  <2> HIDE DEF t
  <2>4. t.succ \in Seq(1..k) BY <2>2 DEF IsTerminator
  <2>5. t.succ \in Seq(1..(k + 1)) BY <2>3, <2>4, SeqMonotonic
  <2>6. IsTerminator(t, Len(B.local_decls), k + 1) BY <2>2, <2>5 DEF IsTerminator
  <2> QED BY <1>3, <1>6, <2>6 DEF t, k
<1>16. Looping(B2) BY <1>6, <1>10 DEF Looping, LoopOK, BuilderOK, LocalsOf
<1>17. Returning(B2) BY <1>6, <1>10 DEF Returning, BuilderOK
<1>18. Len(B2.local_decls) >= 2 /\ Len(B2.basic_blocks) >= 1
  BY <1>1, <1>3, <1>6 DEF BuilderOK, k
<1>19. BuilderOK(B2) BY <1>6, <1>13, <1>14, <1>15, <1>16, <1>17, <1>18, SameLocals DEF BuilderOK
<1>20. Len(B.basic_blocks) <= Len(B2.basic_blocks) /\ Len(B2.basic_blocks) = Len(B.basic_blocks) + 1
  BY <1>1, <1>3, <1>6 DEF k
<1>21. Advances(B, B2) BY <1>6, <1>10, <1>19, <1>20 DEF Advances
<1>22. Unended(B2) = Unended(B) \union {k + 1} /\ Suspended(B2) = Suspended(B)
  BY <1>7, <1>8 DEF Unended, Suspended
<1> QED BY <1>6, <1>7, <1>12, <1>20, <1>21, <1>22

\* What terminate does, whatever the terminator.
LEMMA TermSet ==
  ASSUME NEW B, BuilderOK(B), NEW b \in Unended(B), NEW t \in AnyTerminator,
         IsTerminator(t, Len(B.local_decls), Len(B.basic_blocks)),
         NEW B2, B2 = terminate(B, b, t)
  PROVE  /\ B2 \in Builders /\ B2.scopes = B.scopes
         /\ B2.local_decls = B.local_decls /\ B2.loop_scopes = B.loop_scopes
         /\ B2.visibility_scope = B.visibility_scope /\ B2.visibility_scopes = B.visibility_scopes
         /\ B2.cached_return_block = B.cached_return_block /\ B2.asserts = B.asserts
         /\ Len(B2.basic_blocks) = Len(B.basic_blocks)
         /\ \A c \in BlocksOf(B) : TermOf(B2, c) = IF c = b THEN t ELSE TermOf(B, c)
         /\ Filled(B2) /\ Ended(B2)
         /\ Unended(B2) = Unended(B) \ {b}
         /\ Suspended(B2) = IF t.op = "Suspend" THEN Suspended(B) \union {b} ELSE Suspended(B)
         /\ b \notin Suspended(B)
<1> DEFINE k == Len(B.basic_blocks)
           old == B.basic_blocks[b]
           r == [old EXCEPT !.term = t]
           bs == [B.basic_blocks EXCEPT ![b] = r]
<1>1. B \in Builders /\ B.basic_blocks \in Seq(BlockRecords) /\ k \in Nat BY BuilderFields DEF BuilderOK
<1>2. b \in 1..k /\ old \in BlockRecords /\ old.term = Unterminated
  BY <1>1 DEF Unended, BlocksOf, TermOf
<1>3. r \in BlockRecords /\ r.stmts = old.stmts /\ r.term = t BY <1>2 DEF BlockRecords
<1> HIDE DEF r
<1>4. /\ bs \in Seq(BlockRecords) /\ Len(bs) = k
      /\ \A c \in 1..k : bs[c] = IF c = b THEN r ELSE B.basic_blocks[c]
  BY <1>1, <1>2, <1>3, ExceptSeq
<1>5. B2 = [[B EXCEPT !.basic_blocks = bs] EXCEPT !.asserts = B.asserts]
  <2>1. terminate(B, b, t) = [B EXCEPT !.basic_blocks = bs,
                                       !.asserts = @ /\ B.basic_blocks[b].term = Unterminated]
    BY DEF terminate, r
  <2>2. (B.asserts /\ B.basic_blocks[b].term = Unterminated) = B.asserts
    BY <1>1, <1>2 DEF Builders
  <2> HIDE DEF bs
  <2> QED BY <1>1, <2>1, <2>2 DEF Builders
<1> HIDE DEF bs
<1>6. /\ B2 \in Builders /\ B2.basic_blocks = bs /\ B2.scopes = B.scopes
      /\ B2.local_decls = B.local_decls /\ B2.loop_scopes = B.loop_scopes
      /\ B2.visibility_scope = B.visibility_scope /\ B2.visibility_scopes = B.visibility_scopes
      /\ B2.cached_return_block = B.cached_return_block /\ B2.asserts = B.asserts
  BY <1>1, <1>4, <1>5 DEF Builders
<1>7. /\ BlocksOf(B) = 1..k /\ BlocksOf(B2) = 1..k
      /\ \A c \in 1..k : TermOf(B2, c) = IF c = b THEN t ELSE TermOf(B, c)
      /\ \A c \in 1..k : StmtsOf(B2, c) = StmtsOf(B, c)
  BY <1>3, <1>4, <1>6 DEF BlocksOf, TermOf, StmtsOf
<1> HIDE DEF k
<1>8. Filled(B2)
  <2>1. Filled(B) BY DEF BuilderOK
  <2> QED BY <1>6, <1>7, <2>1 DEF Filled
<1>9. Ended(B2)
  <2>1. Ended(B) BY DEF BuilderOK
  <2> QED BY <1>4, <1>6, <1>7, <2>1 DEF Ended, k
<1>10. t # Unterminated /\ t.op # "None" /\ Unterminated.op = "None"
  BY DEF Unterminated, AnyTerminator, TermOps
<1>11. TermOf(B, b) = Unterminated BY DEF Unended
<1>12. b \notin Suspended(B) BY <1>10, <1>11 DEF Suspended
<1>13. Unended(B2) = Unended(B) \ {b} BY <1>7, <1>10 DEF Unended
<1>14. Suspended(B2) = IF t.op = "Suspend" THEN Suspended(B) \union {b} ELSE Suspended(B)
  BY <1>2, <1>7, <1>10, <1>11 DEF Suspended
<1> QED BY <1>4, <1>6, <1>7, <1>8, <1>9, <1>12, <1>13, <1>14 DEF k

LEMMA Terminated ==
  ASSUME NEW B, BuilderOK(B), NEW b \in Unended(B), NEW t \in AnyTerminator,
         IsTerminator(t, Len(B.local_decls), Len(B.basic_blocks)), t.op # "Match",
         \A i \in 1..Len(t.succ) : Jumpable(B, t.succ[i]),
         NEW B2, B2 = terminate(B, b, t)
  PROVE  /\ Advances(B, B2) /\ B2.cached_return_block = B.cached_return_block
         /\ Len(B2.basic_blocks) = Len(B.basic_blocks)
         /\ Unended(B2) = Unended(B) \ {b}
         /\ Suspended(B2) = IF t.op = "Suspend" THEN Suspended(B) \union {b} ELSE Suspended(B)
         /\ b \notin Suspended(B)
<1>1. /\ B2 \in Builders /\ B2.scopes = B.scopes
      /\ B2.local_decls = B.local_decls /\ B2.loop_scopes = B.loop_scopes
      /\ B2.visibility_scope = B.visibility_scope /\ B2.visibility_scopes = B.visibility_scopes
      /\ B2.cached_return_block = B.cached_return_block /\ B2.asserts = B.asserts
      /\ Len(B2.basic_blocks) = Len(B.basic_blocks)
      /\ \A c \in BlocksOf(B) : TermOf(B2, c) = IF c = b THEN t ELSE TermOf(B, c)
      /\ Filled(B2) /\ Ended(B2)
      /\ Unended(B2) = Unended(B) \ {b}
      /\ Suspended(B2) = IF t.op = "Suspend" THEN Suspended(B) \union {b} ELSE Suspended(B)
      /\ b \notin Suspended(B)
  BY TermSet
<1>2. BlocksOf(B2) = BlocksOf(B) BY <1>1 DEF BlocksOf
<1>3. TermOf(B, b) = Unterminated /\ Unterminated.op # "Match" /\ b \in BlocksOf(B)
  BY DEF Unended, Unterminated
<1>4. \A x : IsArm(B2, x) <=> IsArm(B, x) BY <1>1, <1>2, <1>3 DEF IsArm
<1>5. \A x : Jumpable(B2, x) <=> Jumpable(B, x) BY <1>2, <1>4 DEF Jumpable
<1>6. ArmsOwned(B2)
  <2>1. ArmsOwned(B) BY DEF BuilderOK
  <2>2. ~IsArm(B2, START_BLOCK) BY <1>4, <2>1 DEF ArmsOwned
  <2>3. ASSUME NEW a \in BlocksOf(B2), TermOf(B2, a).op = "Match", NEW i \in 1..Len(TermOf(B2, a).succ),
               NEW c \in BlocksOf(B2), NEW j \in 1..Len(TermOf(B2, c).succ),
               TermOf(B2, c).succ[j] = TermOf(B2, a).succ[i]
        PROVE  c = a /\ j = i
    <3>1. a \in BlocksOf(B) /\ a # b /\ TermOf(B2, a) = TermOf(B, a) BY <1>1, <1>2, <2>3
    <3>2. IsArm(B, TermOf(B, a).succ[i]) BY <2>3, <3>1 DEF IsArm, ToSet
    <3>3. c # b BY <1>1, <1>2, <2>3, <3>1, <3>2 DEF Jumpable
    <3>4. TermOf(B2, c) = TermOf(B, c) BY <1>1, <1>2, <3>3
    <3> QED BY <1>2, <2>1, <2>3, <3>1, <3>4 DEF ArmsOwned
  <2> QED BY <2>2, <2>3 DEF ArmsOwned
<1>7. Looping(B2) BY <1>1, <1>5 DEF Looping, LoopOK, BuilderOK, LocalsOf
<1>8. Returning(B2) BY <1>1, <1>5 DEF Returning, BuilderOK
<1>9. Len(B2.local_decls) >= 2 /\ Len(B2.basic_blocks) >= 1 BY <1>1 DEF BuilderOK
<1>10. BuilderOK(B2) BY <1>1, <1>6, <1>7, <1>8, <1>9, SameLocals DEF BuilderOK
<1>11. Len(B.basic_blocks) <= Len(B2.basic_blocks)
  <2>1. Len(B.basic_blocks) \in Nat BY BuilderFields DEF BuilderOK
  <2> QED BY <1>1, <2>1
<1>12. Advances(B, B2) BY <1>1, <1>5, <1>10, <1>11 DEF Advances
<1> QED BY <1>1, <1>12

\* A block that nothing leads to yet.
Unused(B, x) ==
  /\ x \in BlocksOf(B) /\ x # START_BLOCK
  /\ \A c \in BlocksOf(B) : \A j \in 1..Len(TermOf(B, c).succ) : TermOf(B, c).succ[j] # x
  /\ \A i \in 1..Len(B.loop_scopes) :
       B.loop_scopes[i].continue_block # x /\ B.loop_scopes[i].break_block # x
  /\ B.cached_return_block # x

LEMMA MatchTerminated ==
  ASSUME NEW B, BuilderOK(B), NEW b \in Unended(B), NEW t \in AnyTerminator,
         IsTerminator(t, Len(B.local_decls), Len(B.basic_blocks)), t.op = "Match",
         NEW x, NEW y, t.succ = <<x, y>>, x # y, Unused(B, x), Unused(B, y),
         NEW B2, B2 = terminate(B, b, t)
  PROVE  /\ BuilderOK(B2) /\ B2.scopes = B.scopes
         /\ B2.local_decls = B.local_decls /\ B2.loop_scopes = B.loop_scopes
         /\ B2.visibility_scope = B.visibility_scope /\ B2.visibility_scopes = B.visibility_scopes
         /\ B2.cached_return_block = B.cached_return_block /\ B2.asserts = B.asserts
         /\ Len(B2.basic_blocks) = Len(B.basic_blocks)
         /\ Unended(B2) = Unended(B) \ {b}
         /\ Suspended(B2) = Suspended(B)
         /\ \A z : Jumpable(B, z) /\ z # x /\ z # y => Jumpable(B2, z)
<1>1. /\ B2 \in Builders /\ B2.scopes = B.scopes
      /\ B2.local_decls = B.local_decls /\ B2.loop_scopes = B.loop_scopes
      /\ B2.visibility_scope = B.visibility_scope /\ B2.visibility_scopes = B.visibility_scopes
      /\ B2.cached_return_block = B.cached_return_block /\ B2.asserts = B.asserts
      /\ Len(B2.basic_blocks) = Len(B.basic_blocks)
      /\ \A c \in BlocksOf(B) : TermOf(B2, c) = IF c = b THEN t ELSE TermOf(B, c)
      /\ Filled(B2) /\ Ended(B2)
      /\ Unended(B2) = Unended(B) \ {b}
      /\ Suspended(B2) = Suspended(B)
  BY TermSet
<1>2. BlocksOf(B2) = BlocksOf(B) BY <1>1 DEF BlocksOf
<1>3. TermOf(B, b) = Unterminated /\ Unterminated.op # "Match" /\ b \in BlocksOf(B)
  BY DEF Unended, Unterminated
<1>4. /\ Len(t.succ) = 2 /\ t.succ[1] = x /\ t.succ[2] = y /\ ToSet(t.succ) = {x, y}
      /\ \A j \in 1..Len(t.succ) : j = 1 \/ j = 2
  BY DEF ToSet
<1>5. \A z : IsArm(B2, z) <=> IsArm(B, z) \/ z = x \/ z = y
  <2>1. ASSUME NEW z, IsArm(B2, z) PROVE IsArm(B, z) \/ z = x \/ z = y
    BY <1>1, <1>2, <1>4, <2>1 DEF IsArm
  <2>2. ASSUME NEW z, IsArm(B, z) PROVE IsArm(B2, z)
    BY <1>1, <1>2, <1>3, <2>2 DEF IsArm
  <2>3. IsArm(B2, x) /\ IsArm(B2, y) BY <1>1, <1>2, <1>3, <1>4 DEF IsArm
  <2> QED BY <2>1, <2>2, <2>3
<1>6. \A z : Jumpable(B, z) /\ z # x /\ z # y => Jumpable(B2, z) BY <1>2, <1>5 DEF Jumpable
<1>7. ArmsOwned(B2)
  <2>1. ArmsOwned(B) BY DEF BuilderOK
  <2>2. ~IsArm(B2, START_BLOCK) BY <1>5, <2>1 DEF ArmsOwned, Unused
  <2>3. ASSUME NEW a \in BlocksOf(B2), TermOf(B2, a).op = "Match", NEW i \in 1..Len(TermOf(B2, a).succ),
               NEW c \in BlocksOf(B2), NEW j \in 1..Len(TermOf(B2, c).succ),
               TermOf(B2, c).succ[j] = TermOf(B2, a).succ[i]
        PROVE  c = a /\ j = i
    <3>1. CASE a = b
      <4>1. TermOf(B2, a).succ[i] \in {x, y} /\ (i = 1 \/ i = 2) BY <1>1, <1>3, <1>4, <2>3, <3>1
      <4>2. c = b BY <1>1, <1>2, <2>3, <4>1 DEF Unused
      <4>3. j = 1 \/ j = 2 BY <1>1, <1>3, <1>4, <2>3, <4>2
      <4> QED BY <1>1, <1>3, <1>4, <2>3, <3>1, <4>1, <4>2, <4>3
    <3>2. CASE a # b
      <4>1. TermOf(B2, a) = TermOf(B, a) BY <1>1, <1>2, <3>2
      <4>2. c # b
        <5> SUFFICES ASSUME c = b PROVE FALSE OBVIOUS
        <5>1. TermOf(B2, c).succ[j] \in {x, y} BY <1>1, <1>3, <1>4, <2>3
        <5> QED BY <1>2, <2>3, <4>1, <5>1 DEF Unused
      <4>3. TermOf(B2, c) = TermOf(B, c) BY <1>1, <1>2, <4>2
      <4> QED BY <1>2, <2>1, <2>3, <4>1, <4>3 DEF ArmsOwned
    <3> QED BY <3>1, <3>2
  <2> QED BY <2>2, <2>3 DEF ArmsOwned
<1>8. Looping(B2) BY <1>1, <1>6 DEF Looping, LoopOK, BuilderOK, LocalsOf, Unused
<1>9. Returning(B2) BY <1>1, <1>6 DEF Returning, BuilderOK, Unused
<1>10. Len(B2.local_decls) >= 2 /\ Len(B2.basic_blocks) >= 1 BY <1>1 DEF BuilderOK
<1>11. BuilderOK(B2) BY <1>1, <1>7, <1>8, <1>9, <1>10, SameLocals DEF BuilderOK
<1> QED BY <1>1, <1>6, <1>11

LEMMA FillsAdvances ==
  ASSUME NEW B, BuilderOK(B), NEW B2, Fills(B, B2)
  PROVE  /\ Advances(B, B2) /\ B2.cached_return_block = B.cached_return_block
         /\ Len(B2.basic_blocks) = Len(B.basic_blocks)
         /\ Unended(B2) = Unended(B) /\ Suspended(B2) = Suspended(B)
<1>1. SameGraph(B, B2) BY DEF Fills, Grows, Keeps
<1>2. Len(B.basic_blocks) \in Nat BY BuilderFields DEF BuilderOK
<1>3. \A x : Jumpable(B2, x) <=> Jumpable(B, x) BY <1>1, SameArms
<1>4. BlocksOf(B2) = BlocksOf(B) BY <1>1, SameArms
<1>5. Advances(B, B2) BY <1>1, <1>2, <1>3 DEF Fills, Grows, Keeps, Advances, SameGraph
<1>6. Unended(B2) = Unended(B) /\ Suspended(B2) = Suspended(B)
  BY <1>1, <1>4 DEF SameGraph, Unended, Suspended
<1> QED BY <1>1, <1>5, <1>6 DEF SameGraph

LEMMA ReturnBlock ==
  ASSUME NEW B, BuilderOK(B), NEW R, R = return_block(B)
  PROVE  /\ Advances(B, R) /\ R.cached_return_block # None
         /\ Jumpable(R, R.cached_return_block)
         /\ Suspended(R) = Suspended(B)
         /\ \/ B.cached_return_block # None /\ R = B
            \/ /\ B.cached_return_block = None /\ R.cached_return_block \notin BlocksOf(B)
               /\ Unended(R) = Unended(B) \union {R.cached_return_block}
<1>1. CASE B.cached_return_block # None
  <2>1. R = B BY <1>1 DEF return_block
  <2>2. Advances(B, B) BY GrowsReflexive, FillsAdvances
  <2> QED BY <1>1, <2>1, <2>2 DEF BuilderOK, Returning
<1>2. CASE B.cached_return_block = None
  <2> DEFINE S == start_new_block(B, {CALL_SITE})
             n == NextBlock(B)
  <2>1. {CALL_SITE} \in SUBSET Nat BY DEF CALL_SITE
  <2>2. /\ Advances(B, S) /\ S.cached_return_block = B.cached_return_block
        /\ n \notin BlocksOf(B) /\ Jumpable(S, n)
        /\ Unended(S) = Unended(B) \union {n}
        /\ Suspended(S) = Suspended(B)
    BY <2>1, BlockStarted
  <2>3. R = [S EXCEPT !.cached_return_block = n] BY <1>2 DEF return_block
  <2>4. B \in Builders /\ n \in Nat /\ n # None
    <3>1. Len(B.basic_blocks) \in Nat BY BuilderFields DEF BuilderOK
    <3> QED BY <3>1 DEF NextBlock, None, BuilderOK
  <2> HIDE DEF S, n
  <2>5. BuilderOK(S) /\ S \in Builders BY <2>2 DEF Advances, BuilderOK
  <2>6. /\ R \in Builders /\ R.basic_blocks = S.basic_blocks /\ R.scopes = S.scopes
        /\ R.local_decls = S.local_decls /\ R.loop_scopes = S.loop_scopes
        /\ R.visibility_scope = S.visibility_scope /\ R.visibility_scopes = S.visibility_scopes
        /\ R.cached_return_block = n /\ R.asserts = S.asserts
    BY <2>3, <2>4, <2>5 DEF Builders
  <2>7. /\ BlocksOf(R) = BlocksOf(S) /\ \A c : TermOf(R, c) = TermOf(S, c)
        /\ \A c : StmtsOf(R, c) = StmtsOf(S, c)
    BY <2>6 DEF BlocksOf, TermOf, StmtsOf
  <2>8. \A x : IsArm(R, x) <=> IsArm(S, x) BY <2>7 DEF IsArm
  <2>9. \A x : Jumpable(R, x) <=> Jumpable(S, x) BY <2>7, <2>8 DEF Jumpable
  <2>10. ArmsOwned(R)
    <3>1. ArmsOwned(S) BY <2>5 DEF BuilderOK
    <3> QED BY <2>7, <2>8, <3>1 DEF ArmsOwned
  <2>11. Filled(R) /\ Ended(R)
    <3>1. Filled(S) /\ Ended(S) BY <2>5 DEF BuilderOK
    <3> QED BY <2>6, <2>7, <3>1 DEF Filled, Ended
  <2>12. Looping(R) BY <2>5, <2>6, <2>9 DEF Looping, LoopOK, BuilderOK, LocalsOf
  <2>13. Returning(R) BY <2>2, <2>6, <2>9 DEF Returning
  <2>14. Len(R.local_decls) >= 2 /\ Len(R.basic_blocks) >= 1 BY <2>5, <2>6 DEF BuilderOK
  <2>15. BuilderOK(R) BY <2>5, <2>6, <2>10, <2>11, <2>12, <2>13, <2>14, SameLocals DEF BuilderOK
  <2>16. Advances(B, R) BY <2>2, <2>6, <2>9, <2>15 DEF Advances
  <2>17. Unended(R) = Unended(S) /\ Suspended(R) = Suspended(S)
    BY <2>7 DEF Unended, Suspended
  <2> QED BY <1>2, <2>2, <2>4, <2>6, <2>9, <2>16, <2>17
<1> QED BY <1>1, <1>2

\* A well-formed terminator of n locals and k blocks.
Terminates(t, op, succ, n, k) ==
  t \in AnyTerminator /\ IsTerminator(t, n, k) /\ t.op = op /\ t.succ = succ
OperandFits(v, n) == v.moved \in SUBSET (1..n) /\ v.read \in SUBSET (1..n)
Arity(op, k) ==
  \/ op = "Goto" /\ k = 1
  \/ op \in {"If", "Break"} /\ k = 2
  \/ op = "Return" /\ k = 0

LEMMA JumpFits ==
  ASSUME NEW n \in Nat, NEW k \in Nat, NEW op, NEW succ \in Seq(1..k), NEW v,
         OperandFits(v, n), Arity(op, Len(succ))
  PROVE  Terminates(Jump(op, succ, v), op, succ, n, k)
<1> DEFINE binds == [i \in 1..Len(succ) |-> {}]
           t == Jump(op, succ, v)
<1>1. Len(succ) \in Nat OBVIOUS
<1>2. binds \in Seq(SUBSET (1..n)) /\ binds \in Seq(SUBSET Nat) /\ Len(binds) = Len(succ)
  BY <1>1
<1>3. \A i \in 1..Len(succ) : binds[i] = {} OBVIOUS
<1>4. /\ t.op = op /\ t.succ = succ /\ t.binds = binds /\ t.moved = v.moved /\ t.read = v.read
      /\ t = [op |-> op, succ |-> succ, binds |-> binds, moved |-> v.moved, read |-> v.read]
  BY DEF Jump
<1> HIDE DEF binds, t
<1>5. 1..n \subseteq Nat /\ 1..k \subseteq Nat OBVIOUS
<1>6. succ \in Seq(Nat) /\ v.moved \in SUBSET Nat /\ v.read \in SUBSET Nat
  BY <1>5, SeqMonotonic DEF OperandFits
<1>7. t \in AnyTerminator BY <1>2, <1>4, <1>6 DEF AnyTerminator, TermOps, Arity
<1>8. Len(succ) = 0 => succ = << >> BY EmptySeq
<1>9. IsTerminator(t, n, k) BY <1>2, <1>3, <1>4, <1>8 DEF IsTerminator, TermOps, Arity, OperandFits
<1> QED BY <1>4, <1>7, <1>9 DEF t, Terminates

LEMMA NoOperandFits == ASSUME NEW n PROVE OperandFits(NoOperand, n)
BY DEF NoOperand, OperandFits

LEMMA GotoFits ==
  ASSUME NEW n \in Nat, NEW k \in Nat, NEW x \in 1..k
  PROVE  Terminates(Jump("Goto", <<x>>, NoOperand), "Goto", <<x>>, n, k)
<1>1. <<x>> \in Seq(1..k) /\ Len(<<x>>) = 1 OBVIOUS
<1>2. Arity("Goto", Len(<<x>>)) BY <1>1 DEF Arity
<1> QED BY <1>1, <1>2, JumpFits, NoOperandFits

LEMMA BranchFits ==
  ASSUME NEW n \in Nat, NEW k \in Nat, NEW op \in {"If", "Break"}, NEW x \in 1..k, NEW y \in 1..k,
         NEW v, OperandFits(v, n)
  PROVE  Terminates(Jump(op, <<x, y>>, v), op, <<x, y>>, n, k)
<1>1. <<x, y>> \in Seq(1..k) /\ Len(<<x, y>>) = 2 OBVIOUS
<1>2. Arity(op, Len(<<x, y>>)) BY <1>1 DEF Arity
<1> QED BY <1>1, <1>2, JumpFits

LEMMA Exited ==
  ASSUME NEW B, BuilderOK(B), NEW b \in Unended(B), NEW extent,
         \E i \in 2..Len(B.scopes) : B.scopes[i].extent = extent,
         NEW target, Jumpable(B, target), NEW after, Jumpable(B, after),
         NEW X, X = exit_scope(B, extent, b, target, after)
  PROVE  /\ Advances(B, X) /\ X.cached_return_block = B.cached_return_block
         /\ Unended(X) = Unended(B) \ {b} /\ Suspended(X) = Suspended(B)
<1> DEFINE k == Len(B.scopes)
           encloses == {i \in 1..k : B.scopes[i].extent = extent}
           at == IF encloses = {} THEN 1 ELSE Latest(encloses)
           Scope(n) == B.scopes[k + 1 - n]
           Round(F, n) == build_scope_drops(F, b, Scope(n).drops \intersect initialized_decls(Scope(n)), Scope(n))
           Rounds(g, m) == g = [n \in 0..m |-> IF n = 0 THEN B ELSE Round(g[n - 1], n)]
           T == {m \in Nat : \E g : Rounds(g, m)}
           t == Jump("Break", <<target, after>>, NoOperand)
<1>1. B \in Builders /\ B.scopes \in Seq(ScopeRecords) /\ k \in Nat /\ b \in BlocksOf(B)
  BY BuilderFields DEF BuilderOK, Unended
<1>2. encloses # {} /\ at \in 2..k
  <2>1. PICK i \in 2..k : B.scopes[i].extent = extent OBVIOUS
  <2>2. i \in encloses BY <1>1, <2>1
  <2>3. encloses \in SUBSET (0..k) BY <1>1
  <2> HIDE DEF encloses
  <2>4. Latest(encloses) \in encloses /\ i <= Latest(encloses) BY <1>1, <2>2, <2>3, LatestMember
  <2> QED BY <1>1, <2>1, <2>2, <2>4 DEF encloses
<1> HIDE DEF at
<1>3. k - at \in Nat /\ \A n \in 1..(k - at) : k + 1 - n \in 1..k BY <1>1, <1>2
<1>4. 0 \in T
  <2>1. Rounds([n \in 0..0 |-> B], 0) OBVIOUS
  <2> QED BY <2>1
<1>5. ASSUME NEW m \in Nat, m \in T PROVE m + 1 \in T
  <2>1. PICK g : Rounds(g, m) BY <1>5
  <2> DEFINE h == [n \in 0..(m + 1) |-> IF n <= m THEN g[n] ELSE Round(g[n - 1], n)]
  <2> HIDE DEF Round
  <2>2. ASSUME NEW n \in 0..(m + 1), n # 0 PROVE h[n] = Round(h[n - 1], n)
    <3>1. n - 1 \in 0..m /\ h[n - 1] = g[n - 1] BY <2>2
    <3>2. CASE n <= m
      <4>1. n \in 0..m /\ h[n] = g[n] BY <3>2
      <4> QED BY <2>1, <2>2, <3>1, <4>1
    <3>3. CASE ~(n <= m) BY <3>1, <3>3
    <3> QED BY <3>2, <3>3
  <2>3. h[0] = B BY <2>1
  <2>4. Rounds(h, m + 1)
    <3> DEFINE r == [n \in 0..(m + 1) |-> IF n = 0 THEN B ELSE Round(h[n - 1], n)]
    <3>1. \A n \in 0..(m + 1) : h[n] = r[n] BY <2>2, <2>3
    <3>2. h = [n \in 0..(m + 1) |-> h[n]] OBVIOUS
    <3> HIDE DEF h
    <3> QED BY <3>1, <3>2
  <2> HIDE DEF Rounds, h
  <2> QED BY <2>4
<1>6. \E g : /\ Rounds(g, k - at)
             /\ X = [terminate(g[k - at], b, t) EXCEPT
                       !.asserts = /\ @ /\ encloses # {} /\ at > 1
                                   /\ \A i \in (at + 1)..k : \A l \in B.scopes[i].drops :
                                        ~ScheduledIn(SubSeq(B.scopes, 1, i - 1), l)]
  <2>1. Nat \subseteq T
    <3> HIDE DEF T
    <3> QED BY <1>4, <1>5, Induction
  <2>2. \E g : Rounds(g, k - at) BY <1>3, <2>1
  <2> QED BY <2>2 DEF exit_scope, at
<1>7. PICK g : /\ Rounds(g, k - at)
               /\ X = [terminate(g[k - at], b, t) EXCEPT
                         !.asserts = /\ @ /\ encloses # {} /\ at > 1
                                     /\ \A i \in (at + 1)..k : \A l \in B.scopes[i].drops :
                                          ~ScheduledIn(SubSeq(B.scopes, 1, i - 1), l)]
  BY <1>6
<1> DEFINE U == {m \in Nat : m <= k - at => Fills(B, g[m])}
<1>8. Fills(B, g[k - at])
  <2>1. 0 \in U
    <3>1. g[0] = B
      <4> HIDE DEF Round
      <4> QED BY <1>3, <1>7
    <3> QED BY <3>1, GrowsReflexive
  <2>2. ASSUME NEW m \in Nat, m \in U PROVE m + 1 \in U
    <3> SUFFICES ASSUME m + 1 <= k - at PROVE Fills(B, g[m + 1]) OBVIOUS
    <3>1. m + 1 \in 0..(k - at) /\ (m + 1) - 1 = m /\ m + 1 # 0 /\ m <= k - at /\ m + 1 \in 1..(k - at)
      BY <1>3
    <3>2. g[m + 1] = Round(g[m], m + 1)
      <4> HIDE DEF Round
      <4> QED BY <1>7, <3>1
    <3>3. Fills(B, g[m]) BY <2>2, <3>1
    <3>4. Scope(m + 1) \in ScopeRecords BY <1>1, <1>3, <3>1
    <3> HIDE DEF Scope
    <3>5. BuilderOK(g[m]) /\ b \in BlocksOf(g[m])
      <4>1. SameGraph(B, g[m]) BY <3>3 DEF Fills, Grows, Keeps
      <4> QED BY <1>1, <3>3, <4>1, SameArms DEF Fills, Grows, Keeps
    <3>6. Fills(g[m], g[m + 1]) BY <3>2, <3>4, <3>5, ScopeDrops
    <3> QED BY <3>3, <3>6, FillsTransitive
  <2> HIDE DEF U
  <2>3. Nat \subseteq U BY <2>1, <2>2, Induction
  <2> QED BY <1>3, <2>3 DEF U
<1> DEFINE F == g[k - at]
           A == terminate(F, b, t)
           none == \A i \in (at + 1)..k : \A l \in B.scopes[i].drops :
                     ~ScheduledIn(SubSeq(B.scopes, 1, i - 1), l)
<1>9. none
  <2> SUFFICES ASSUME NEW i \in (at + 1)..k, NEW l \in B.scopes[i].drops,
                      ScheduledIn(SubSeq(B.scopes, 1, i - 1), l)
               PROVE  FALSE
    OBVIOUS
  <2>1. /\ Len(SubSeq(B.scopes, 1, i - 1)) = i - 1
        /\ \A j \in 1..(i - 1) : SubSeq(B.scopes, 1, i - 1)[j] = B.scopes[j]
    BY <1>1, <1>2
  <2>2. PICK j \in 1..(i - 1) : l \in B.scopes[j].drops BY <2>1 DEF ScheduledIn
  <2>3. i \in 1..k /\ j \in 1..k /\ i # j BY <1>1, <1>2
  <2> QED BY <2>2, <2>3 DEF BuilderOK, Scheduled
<1>10. /\ BuilderOK(F) /\ Advances(B, F) /\ F.cached_return_block = B.cached_return_block
       /\ Len(F.basic_blocks) = Len(B.basic_blocks)
       /\ Unended(F) = Unended(B) /\ Suspended(F) = Suspended(B)
  BY <1>8, FillsAdvances DEF Advances
<1>11. /\ t \in AnyTerminator /\ IsTerminator(t, Len(F.local_decls), Len(F.basic_blocks))
       /\ t.op = "Break" /\ t.succ = <<target, after>>
  <2>1. Len(F.local_decls) \in Nat /\ Len(F.basic_blocks) \in Nat
    BY <1>10, BuilderFields DEF BuilderOK
  <2>2. target \in 1..Len(F.basic_blocks) /\ after \in 1..Len(F.basic_blocks)
    BY <1>10 DEF Jumpable, BlocksOf
  <2> HIDE DEF F
  <2>3. Terminates(t, "Break", <<target, after>>, Len(F.local_decls), Len(F.basic_blocks))
    BY <2>1, <2>2, BranchFits, NoOperandFits
  <2> QED BY <2>3 DEF Terminates
<1>12. \A i \in 1..Len(t.succ) : Jumpable(F, t.succ[i])
  <2>1. Jumpable(F, target) /\ Jumpable(F, after) BY <1>10 DEF Advances
  <2> HIDE DEF F, t
  <2> QED BY <1>11, <2>1
<1> HIDE DEF none, F, t, encloses
<1>13. /\ Advances(F, A) /\ A.cached_return_block = F.cached_return_block
       /\ Unended(A) = Unended(F) \ {b} /\ Suspended(A) = Suspended(F)
  BY <1>10, <1>11, <1>12, Terminated
<1>14. A \in Builders BY <1>13 DEF Advances, BuilderOK
<1>15. X = A
  <2>1. (A.asserts /\ encloses # {} /\ at > 1 /\ none) = A.asserts
    BY <1>2, <1>9, <1>14 DEF Builders
  <2>2. X = [A EXCEPT !.asserts = A.asserts /\ encloses # {} /\ at > 1 /\ none]
    BY <1>7 DEF F, none
  <2> HIDE DEF A
  <2> QED BY <1>14, <2>1, <2>2 DEF Builders
<1>16. Advances(B, A) BY <1>10, <1>13, AdvancesTransitive
<1> QED BY <1>10, <1>13, <1>15, <1>16
-----------------------------------------------------------------------------
(***************************************************************************)
(* The frames still to do are a plan.  At each frame it is known how many  *)
(* scopes (s), loops (l) and operands (o) there are when its turn comes,   *)
(* which blocks (x) it and the frames after it will end, whether there is  *)
(* a current block (c) that they end too, and how many suspensions (y)     *)
(* they will lower.                                                        *)
(***************************************************************************)
Heights == [s : Nat, l : Nat, o : Nat, y : Nat, x : SUBSET Nat, c : BOOLEAN]
NoneLeft == [s |-> 0, l |-> 0, o |-> 0, y |-> 0, x |-> {}, c |-> FALSE]

Closes(f) ==
  IF f.do = "pop" THEN 1
  ELSE IF f.do \in {"stmts", "close"} THEN 1 + Len(f.lets)
  ELSE IF f.do = "epilogue" THEN 2 ELSE 0
Ends(f) == IF f.do = "loop_end" THEN 1 ELSE 0
Makes(f) == IF f.do \in {"operand", "rvalue", "lvalue", "use_temp"} THEN 1 ELSE 0
Takes(f) ==
  IF f.do \in {"assign", "then", "test", "match", "let_pat", "suspend"} THEN 1
  ELSE IF f.do = "call" THEN 2 ELSE 0
Suspends(f) == IF f.do = "suspend" THEN 1 ELSE 0
Owned(f) ==
  IF f.do = "else" THEN {f.block}
  ELSE IF f.do = "join" THEN {f.then_end}
  ELSE IF f.do = "loop_end" THEN {f.loop.break_block}
  ELSE IF f.do = "arms" THEN {f.arms[i].block : i \in 1..Len(f.arms)} \union {f.end}
  ELSE {}

After(f, v) ==
  [s |-> v.s - Closes(f), l |-> v.l - Ends(f), o |-> (v.o + Makes(f)) - Takes(f),
   y |-> v.y - Suspends(f), x |-> v.x \ Owned(f), c |-> f.do \notin {"arm_end", "epilogue"}]

\* The outer scopes are there, and the scope around each loop.
Encloses(B, v, extent) == \E i \in 2..v.s : B.scopes[i].extent = extent
Stands(v, B) ==
  /\ v \in Heights /\ v.s >= 2
  /\ B.scopes[1].extent = CALL_SITE /\ B.scopes[2].extent = PARAMETERS
  /\ \A j \in 1..v.l : Encloses(B, v, B.loop_scopes[j].extent)

StmtsFrame(f, v, B) ==
  /\ f = [do |-> f.do, dest |-> f.dest, extent |-> f.extent, lets |-> f.lets,
          outer |-> f.outer, env |-> f.env]
  /\ f.lets \in Seq(Nat) /\ Len(f.lets) + 3 <= v.s
  /\ B.scopes[v.s - Len(f.lets)].extent = f.extent
  /\ \A j \in 1..Len(f.lets) : B.scopes[(v.s - Len(f.lets)) + j].extent = f.lets[j]
  /\ f.outer \in ScopesOf(B)

ArmsFrame(f, B) ==
  /\ f = [do |-> f.do, dest |-> f.dest, arms |-> f.arms, end |-> f.end,
          outer |-> f.outer, env |-> f.env]
  /\ \E S : f.arms \in Seq(S)
  /\ \A i \in 1..Len(f.arms) :
       f.arms[i].block \in BlocksOf(B) /\ f.arms[i].scope \in ScopesOf(B) /\ f.arms[i].block # f.end
  /\ \A i, j \in 1..Len(f.arms) : i # j => f.arms[i].block # f.arms[j].block
  /\ Jumpable(B, f.end) /\ f.outer \in ScopesOf(B)

\* What the fields of a frame are about.
FieldsOK(f, v, B) ==
  /\ f.do \in {"into", "block", "stmts", "close", "then", "else", "match", "arms", "suspend", "call"} =>
       f.dest \in LocalsOf(B)
  /\ f.do = "pop" => v.s >= 3 /\ B.scopes[v.s].extent = f.extent
  /\ f.do \in {"stmts", "close"} => StmtsFrame(f, v, B)
  /\ f.do = "exit" => Encloses(B, v, f.extent) /\ (f.target = None \/ Jumpable(B, f.target))
  /\ f.do = "enter" => f.scope \in {None} \union ScopesOf(B)
  /\ f.do = "let_pat" => f.locals \in Seq(LocalsOf(B)) /\ ("let_wild" \notin Forms => f.locals # << >>)
  /\ f.do = "use_temp" => f.local \in LocalsOf(B)
  /\ f.do = "else" => Jumpable(B, f.block)
  /\ f.do = "join" => f.then_end \in BlocksOf(B)
  /\ f.do = "test" => LoopOK(B, f.loop)
  /\ f.do = "loop_end" => LoopOK(B, f.loop) /\ v.l >= 1 /\ B.loop_scopes[v.l] = f.loop
  /\ f.do = "arms" => ArmsFrame(f, B)
  /\ f.do = "arm_end" => Jumpable(B, f.end)
  /\ f.do = "epilogue" => v.s = 2 /\ v.l = 0

FrameOK(f, v, B) ==
  /\ Stands(v, B)
  /\ v.c = (f.do # "arms")
  /\ v.o >= Takes(f) /\ Owned(f) \subseteq v.x
  /\ f.do # "epilogue" => v.s >= Closes(f) + 2
  /\ FieldsOK(f, v, B)

IsPlan(lv, fs, B, v) ==
  /\ lv \in [1..(Len(fs) + 1) -> Heights] /\ lv[1] = v
  /\ \A i \in 1..Len(fs) : lv[i + 1] = After(fs[i], lv[i]) /\ FrameOK(fs[i], lv[i], B)
  /\ lv[Len(fs) + 1] = NoneLeft
Frames(fs) == \E S : fs \in Seq(S)
Planned(fs, B, v) == Frames(fs) /\ \E lv : IsPlan(lv, fs, B, v)

LEMMA PlanPop ==
  ASSUME NEW fs, NEW B, NEW v, Planned(fs, B, v), fs # << >>
  PROVE  /\ v \in Heights /\ After(Head(fs), v) \in Heights
         /\ FrameOK(Head(fs), v, B)
         /\ Planned(Tail(fs), B, After(Head(fs), v))
<1>1. PICK S : fs \in Seq(S) BY DEF Planned, Frames
<1>2. PICK lv : IsPlan(lv, fs, B, v) BY DEF Planned
<1> DEFINE n == Len(fs)
           T == Tail(fs)
           mv == [i \in 1..n |-> lv[i + 1]]
<1>3. n \in Nat /\ 1 \in 1..n /\ Head(fs) = fs[1] BY <1>1
<1>4. T \in Seq(S) /\ Len(T) = n - 1 /\ \A i \in 1..(n - 1) : T[i] = fs[i + 1] BY <1>1
<1>5. /\ lv \in [1..(n + 1) -> Heights] /\ lv[1] = v /\ lv[n + 1] = NoneLeft
      /\ \A i \in 1..n : lv[i + 1] = After(fs[i], lv[i]) /\ FrameOK(fs[i], lv[i], B)
  BY <1>2 DEF IsPlan
<1> HIDE DEF n, T
<1>6. lv[2] = After(Head(fs), v) /\ FrameOK(Head(fs), v, B) /\ v \in Heights /\ lv[2] \in Heights
  <2>1. 1 \in 1..(n + 1) /\ 2 \in 1..(n + 1) BY <1>3
  <2> QED BY <1>3, <1>5, <2>1
<1>7. mv \in [1..((n - 1) + 1) -> Heights] /\ mv[1] = lv[2] /\ mv[(n - 1) + 1] = NoneLeft
  BY <1>3, <1>5
<1>8. ASSUME NEW i \in 1..(n - 1)
      PROVE  mv[i + 1] = After(T[i], mv[i]) /\ FrameOK(T[i], mv[i], B)
  <2>1. i + 1 \in 1..n /\ i \in 1..n BY <1>3
  <2>2. mv[i] = lv[i + 1] /\ mv[i + 1] = lv[(i + 1) + 1] /\ T[i] = fs[i + 1] BY <1>4, <2>1
  <2> QED BY <1>5, <2>1, <2>2
<1> HIDE DEF mv
<1>9. IsPlan(mv, T, B, lv[2]) BY <1>4, <1>7, <1>8 DEF IsPlan
<1> QED BY <1>4, <1>6, <1>9 DEF Planned, Frames, T

LEMMA PlanPush ==
  ASSUME NEW fs, NEW B, NEW f, NEW v \in Heights, NEW w, w = After(f, v),
         Planned(fs, B, w), FrameOK(f, v, B)
  PROVE  Planned(<<f>> \o fs, B, v)
<1>1. PICK S : fs \in Seq(S) BY DEF Planned, Frames
<1>2. PICK lv : IsPlan(lv, fs, B, w) BY DEF Planned
<1> DEFINE n == Len(fs)
           T == <<f>> \o fs
           mv == [i \in 1..(n + 2) |-> IF i = 1 THEN v ELSE lv[i - 1]]
<1>3. n \in Nat BY <1>1
<1>4. T \in Seq(S \union {f}) /\ Len(T) = n + 1 /\ T[1] = f /\ \A i \in 2..(n + 1) : T[i] = fs[i - 1]
  <2>1. <<f>> \in Seq(S \union {f}) /\ Len(<<f>>) = 1 /\ <<f>>[1] = f OBVIOUS
  <2>2. fs \in Seq(S \union {f}) BY <1>1
  <2>3. /\ T \in Seq(S \union {f}) /\ Len(T) = 1 + n
        /\ \A i \in 1..(1 + n) : T[i] = IF i <= 1 THEN <<f>>[i] ELSE fs[i - 1]
    BY <2>1, <2>2, ConcatProperties
  <2> HIDE DEF T
  <2> QED BY <1>3, <2>1, <2>3
<1>5. /\ lv \in [1..(n + 1) -> Heights] /\ lv[1] = w /\ lv[n + 1] = NoneLeft
      /\ \A i \in 1..n : lv[i + 1] = After(fs[i], lv[i]) /\ FrameOK(fs[i], lv[i], B)
  BY <1>2 DEF IsPlan
<1> HIDE DEF n, T
<1>6. mv \in [1..((n + 1) + 1) -> Heights] /\ mv[1] = v /\ mv[(n + 1) + 1] = NoneLeft
  BY <1>3, <1>5
<1>7. ASSUME NEW i \in 1..(n + 1)
      PROVE  mv[i + 1] = After(T[i], mv[i]) /\ FrameOK(T[i], mv[i], B)
  <2>1. CASE i = 1 BY <1>3, <1>4, <1>5, <2>1
  <2>2. CASE i # 1
    <3>1. i - 1 \in 1..n /\ i \in 2..(n + 1) /\ (i - 1) + 1 = i BY <1>3, <2>2
    <3>2. mv[i] = lv[i - 1] /\ mv[i + 1] = lv[i] /\ T[i] = fs[i - 1] BY <1>3, <1>4, <2>2, <3>1
    <3> QED BY <1>5, <3>1, <3>2
  <2> QED BY <2>1, <2>2
<1> HIDE DEF mv
<1>8. IsPlan(mv, T, B, v) BY <1>4, <1>6, <1>7 DEF IsPlan
<1> QED BY <1>4, <1>8 DEF Planned, Frames, T

LEMMA PlanDone ==
  ASSUME NEW B, NEW v, Planned(<< >>, B, v)
  PROVE  v = NoneLeft
<1>1. PICK lv : IsPlan(lv, << >>, B, v) BY DEF Planned
<1> QED BY <1>1 DEF IsPlan

\* Scopes and loops only close along a plan.
LEMMA FrameCounts ==
  ASSUME NEW f, NEW v, NEW B, FrameOK(f, v, B)
  PROVE  /\ Closes(f) \in Nat /\ Ends(f) \in Nat /\ Makes(f) \in Nat /\ Takes(f) \in Nat
         /\ Suspends(f) \in Nat
<1>1. f.do \in {"stmts", "close"} => Len(f.lets) \in Nat BY DEF FrameOK, FieldsOK, StmtsFrame
<1> QED BY <1>1 DEF Closes, Ends, Makes, Takes, Suspends

LEMMA PlanFalls ==
  ASSUME NEW lv, NEW fs, NEW B, NEW v, IsPlan(lv, fs, B, v), Frames(fs), NEW i \in 1..(Len(fs) + 1)
  PROVE  lv[i] \in Heights /\ lv[i].s <= v.s /\ lv[i].l <= v.l
<1> DEFINE n == Len(fs)
           T == {m \in Nat : m <= n => lv[m + 1].s <= v.s /\ lv[m + 1].l <= v.l}
<1>1. n \in Nat BY DEF Frames
<1>2. /\ lv \in [1..(n + 1) -> Heights] /\ lv[1] = v
      /\ \A m \in 1..n : lv[m + 1] = After(fs[m], lv[m]) /\ FrameOK(fs[m], lv[m], B)
  BY DEF IsPlan
<1> HIDE DEF n
<1>3. 0 \in T
  <2>1. v \in Heights /\ lv[0 + 1] = v BY <1>1, <1>2
  <2>2. v.s \in Nat /\ v.l \in Nat BY <2>1 DEF Heights
  <2> QED BY <2>1, <2>2
<1>4. ASSUME NEW m \in Nat, m \in T PROVE m + 1 \in T
  <2> SUFFICES ASSUME m + 1 <= n PROVE lv[(m + 1) + 1].s <= v.s /\ lv[(m + 1) + 1].l <= v.l
    OBVIOUS
  <2>1. m + 1 \in 1..n /\ m + 1 \in 1..(n + 1) /\ 1 \in 1..(n + 1) /\ m <= n BY <1>1
  <2>2. lv[m + 1].s <= v.s /\ lv[m + 1].l <= v.l BY <1>4, <2>1
  <2>3. lv[(m + 1) + 1] = After(fs[m + 1], lv[m + 1]) /\ FrameOK(fs[m + 1], lv[m + 1], B)
    BY <1>2, <2>1
  <2>4. Closes(fs[m + 1]) \in Nat /\ Ends(fs[m + 1]) \in Nat BY <2>3, FrameCounts
  <2>5. lv[m + 1] \in Heights /\ v \in Heights BY <1>2, <2>1
  <2>6. lv[m + 1].s \in Nat /\ lv[m + 1].l \in Nat /\ v.s \in Nat /\ v.l \in Nat
    BY <2>5 DEF Heights
  <2>7. lv[(m + 1) + 1].s = lv[m + 1].s - Closes(fs[m + 1])
        /\ lv[(m + 1) + 1].l = lv[m + 1].l - Ends(fs[m + 1])
    BY <2>3 DEF After
  <2> QED BY <2>2, <2>4, <2>6, <2>7, SMTT(60)
<1>5. Nat \subseteq T
  <2> HIDE DEF T
  <2> QED BY <1>3, <1>4, Induction
<1>6. i - 1 \in Nat /\ i - 1 <= n /\ (i - 1) + 1 = i BY <1>1 DEF n
<1>7. lv[i] \in Heights BY <1>2 DEF n
<1>8. i - 1 \in T BY <1>5, <1>6
<1>9. lv[(i - 1) + 1].s <= v.s /\ lv[(i - 1) + 1].l <= v.l BY <1>6, <1>8
<1> QED BY <1>6, <1>7, <1>9

\* What a builder must keep for a plan to stay one, from level v on.
Continues(B, B2, v) ==
  /\ LocalsOf(B) \subseteq LocalsOf(B2) /\ ScopesOf(B) \subseteq ScopesOf(B2)
  /\ BlocksOf(B) \subseteq BlocksOf(B2)
  /\ \A x : Jumpable(B, x) => Jumpable(B2, x)
  /\ \A i \in 1..v.s : B2.scopes[i].extent = B.scopes[i].extent
  /\ \A j \in 1..v.l : B2.loop_scopes[j] = B.loop_scopes[j]

LEMMA StandsKept ==
  ASSUME NEW B, NEW B2, NEW v, NEW u \in Heights, Stands(u, B), Continues(B, B2, v),
         v \in Heights, u.s <= v.s, u.l <= v.l
  PROVE  Stands(u, B2)
<1>1. v.s \in Nat /\ v.l \in Nat /\ u.s \in Nat /\ u.l \in Nat /\ u.s >= 2 BY DEF Heights, Stands
<1>2. 1 \in 1..v.s /\ 2 \in 1..v.s BY <1>1
<1>3. /\ \A i \in 1..v.s : B2.scopes[i].extent = B.scopes[i].extent
      /\ \A j \in 1..v.l : B2.loop_scopes[j] = B.loop_scopes[j]
  BY DEF Continues
<1>4. ASSUME NEW j \in 1..u.l PROVE Encloses(B2, u, B2.loop_scopes[j].extent)
  <2>1. j \in 1..v.l BY <1>1
  <2>2. PICK i \in 2..u.s : B.scopes[i].extent = B.loop_scopes[j].extent
    BY DEF Stands, Encloses
  <2>3. i \in 1..v.s BY <1>1
  <2> QED BY <1>3, <2>1, <2>2, <2>3 DEF Encloses
<1> QED BY <1>2, <1>3, <1>4 DEF Stands

LEMMA EnclosesKept ==
  ASSUME NEW B, NEW B2, NEW v, NEW u \in Heights, Continues(B, B2, v),
         v \in Heights, u.s <= v.s, NEW extent, Encloses(B, u, extent)
  PROVE  Encloses(B2, u, extent)
<1>1. v.s \in Nat /\ u.s \in Nat BY DEF Heights
<1>2. PICK i \in 2..u.s : B.scopes[i].extent = extent BY DEF Encloses
<1>3. i \in 1..v.s BY <1>1
<1>4. B2.scopes[i].extent = B.scopes[i].extent BY <1>3 DEF Continues
<1> QED BY <1>2, <1>4 DEF Encloses

LEMMA LoopKept ==
  ASSUME NEW B, NEW B2, NEW v, Continues(B, B2, v), NEW loop, LoopOK(B, loop)
  PROVE  LoopOK(B2, loop)
BY DEF LoopOK, Continues

LEMMA FrameKept ==
  ASSUME NEW B, NEW B2, NEW v \in Heights, Continues(B, B2, v),
         NEW f, NEW u \in Heights, FrameOK(f, u, B), u.s <= v.s, u.l <= v.l
  PROVE  FrameOK(f, u, B2)
<1>1. v.s \in Nat /\ u.s \in Nat /\ v.l \in Nat /\ u.l \in Nat BY DEF Heights
<1>2. Stands(u, B2) BY StandsKept DEF FrameOK
<1>3. /\ LocalsOf(B) \subseteq LocalsOf(B2) /\ ScopesOf(B) \subseteq ScopesOf(B2)
      /\ BlocksOf(B) \subseteq BlocksOf(B2)
      /\ \A x : Jumpable(B, x) => Jumpable(B2, x)
      /\ \A i \in 1..v.s : B2.scopes[i].extent = B.scopes[i].extent
      /\ \A j \in 1..v.l : B2.loop_scopes[j] = B.loop_scopes[j]
  BY DEF Continues
<1>4. FieldsOK(f, u, B) BY DEF FrameOK
<1>5. ASSUME f.do = "pop" PROVE u.s >= 3 /\ B2.scopes[u.s].extent = f.extent
  <2>1. u.s >= 3 /\ B.scopes[u.s].extent = f.extent BY <1>4, <1>5 DEF FieldsOK
  <2>2. u.s \in 1..v.s BY <1>1, <2>1
  <2> QED BY <1>3, <2>1, <2>2
<1>6. ASSUME f.do \in {"stmts", "close"} PROVE StmtsFrame(f, u, B2)
  <2>1. StmtsFrame(f, u, B) BY <1>4, <1>6 DEF FieldsOK
  <2>2. Len(f.lets) \in Nat /\ Len(f.lets) + 3 <= u.s BY <2>1 DEF StmtsFrame
  <2>3. u.s - Len(f.lets) \in 1..v.s BY <1>1, <2>2
  <2>4. \A j \in 1..Len(f.lets) : (u.s - Len(f.lets)) + j \in 1..v.s BY <1>1, <2>2
  <2> QED BY <1>3, <2>1, <2>3, <2>4 DEF StmtsFrame
<1>7. ASSUME f.do = "exit"
      PROVE  Encloses(B2, u, f.extent) /\ (f.target = None \/ Jumpable(B2, f.target))
  <2>1. Encloses(B, u, f.extent) /\ (f.target = None \/ Jumpable(B, f.target))
    BY <1>4, <1>7 DEF FieldsOK
  <2> QED BY <1>3, <2>1, EnclosesKept
<1>8. ASSUME f.do = "let_pat"
      PROVE  f.locals \in Seq(LocalsOf(B2)) /\ ("let_wild" \notin Forms => f.locals # << >>)
  <2>1. f.locals \in Seq(LocalsOf(B)) /\ ("let_wild" \notin Forms => f.locals # << >>)
    BY <1>4, <1>8 DEF FieldsOK
  <2> QED BY <1>3, <2>1, SeqMonotonic
<1>9. ASSUME f.do = "loop_end"
      PROVE  LoopOK(B2, f.loop) /\ u.l >= 1 /\ B2.loop_scopes[u.l] = f.loop
  <2>1. LoopOK(B, f.loop) /\ u.l >= 1 /\ B.loop_scopes[u.l] = f.loop BY <1>4, <1>9 DEF FieldsOK
  <2>2. u.l \in 1..v.l BY <1>1, <2>1
  <2> QED BY <1>3, <2>1, <2>2, LoopKept
<1>10. ASSUME f.do = "test" PROVE LoopOK(B2, f.loop) BY <1>4, <1>10, LoopKept DEF FieldsOK
<1>11. ASSUME f.do = "arms" PROVE ArmsFrame(f, B2)
  <2>1. ArmsFrame(f, B) BY <1>4, <1>11 DEF FieldsOK
  <2> QED BY <1>3, <2>1 DEF ArmsFrame
<1>12. FieldsOK(f, u, B2)
  BY <1>3, <1>4, <1>5, <1>6, <1>7, <1>8, <1>9, <1>10, <1>11 DEF FieldsOK
<1> QED BY <1>2, <1>12 DEF FrameOK

LEMMA PlanKept ==
  ASSUME NEW fs, NEW B, NEW B2, NEW v, Planned(fs, B, v), Continues(B, B2, v)
  PROVE  Planned(fs, B2, v)
<1>1. PICK lv : IsPlan(lv, fs, B, v) BY DEF Planned
<1>2. Frames(fs) /\ Len(fs) \in Nat BY DEF Planned, Frames
<1>3. v \in Heights
  <2>1. 1 \in 1..(Len(fs) + 1) BY <1>2
  <2> QED BY <1>1, <2>1 DEF IsPlan
<1>4. ASSUME NEW i \in 1..Len(fs) PROVE FrameOK(fs[i], lv[i], B2)
  <2>1. i \in 1..(Len(fs) + 1) BY <1>2
  <2>2. lv[i] \in Heights /\ lv[i].s <= v.s /\ lv[i].l <= v.l BY <1>1, <1>2, <2>1, PlanFalls
  <2>3. FrameOK(fs[i], lv[i], B) BY <1>1 DEF IsPlan
  <2> QED BY <1>3, <2>2, <2>3, FrameKept
<1>5. IsPlan(lv, fs, B2, v) BY <1>1, <1>4 DEF IsPlan
<1> QED BY <1>2, <1>5 DEF Planned

LEMMA KeepsContinues ==
  ASSUME NEW B, BuilderOK(B), NEW B2, Keeps(B, B2), NEW v,
         \A i \in 1..v.s : B2.scopes[i].extent = B.scopes[i].extent
  PROVE  Continues(B, B2, v)
<1>1. SameGraph(B, B2) /\ BuilderOK(B2) BY DEF Keeps
<1>2. /\ Len(B.local_decls) \in Nat /\ Len(B2.local_decls) \in Nat
      /\ Len(B.visibility_scopes) \in Nat /\ Len(B2.visibility_scopes) \in Nat
  BY <1>1, BuilderFields DEF BuilderOK
<1>3. LocalsOf(B) \subseteq LocalsOf(B2) /\ ScopesOf(B) \subseteq ScopesOf(B2)
  BY <1>2 DEF Keeps, LocalsOf, ScopesOf
<1>4. BlocksOf(B2) = BlocksOf(B) /\ \A x : Jumpable(B2, x) <=> Jumpable(B, x) BY <1>1, SameArms
<1>5. B2.loop_scopes = B.loop_scopes BY <1>1 DEF SameGraph
<1> QED BY <1>3, <1>4, <1>5 DEF Continues

LEMMA AdvancesContinues ==
  ASSUME NEW B, BuilderOK(B), NEW B2, Advances(B, B2), NEW v
  PROVE  Continues(B, B2, v) /\ BlocksOf(B) \subseteq BlocksOf(B2)
<1>1. BuilderOK(B2) BY DEF Advances
<1>2. Len(B.basic_blocks) \in Nat /\ Len(B2.basic_blocks) \in Nat
  BY <1>1, BuilderFields DEF BuilderOK
<1>3. BlocksOf(B) \subseteq BlocksOf(B2) BY <1>2 DEF Advances, BlocksOf
<1> QED BY <1>3 DEF Advances, Continues, LocalsOf, ScopesOf

-----------------------------------------------------------------------------
(***************************************************************************)
(* The inductive invariant.                                                *)
(***************************************************************************)
OperandsOf(B) == [moved : SUBSET LocalsOf(B), read : SUBSET LocalsOf(B)]

\* Every block that is not ended has somebody who will end it: the frame on
\* top (the current block), a frame further down, or the epilogue (the block
\* of the return).
Parts(B, b, fs, v) ==
  LET current == IF v.c THEN {b} ELSE {}
      return == IF fs = << >> THEN {} ELSE {B.cached_return_block} \ {None}
  IN /\ Unended(B) = v.x \union current \union return
     /\ v.x \intersect current = {} /\ v.x \intersect return = {}
     /\ current \intersect return = {}

StateOK(B, b, fs, ops, ys, v) ==
  /\ BuilderOK(B) /\ Len(B.local_decls) >= Len(Args) + 2
  /\ b \in BlocksOf(B) /\ ops \in Seq(OperandsOf(B))
  /\ "let_wild" \notin Forms => B.asserts
  /\ "yield_rvalue" \notin Forms => ys = Cardinality(Suspended(B)) + v.y
  /\ Planned(fs, B, v)
  /\ v.s = Len(B.scopes) /\ v.l = Len(B.loop_scopes) /\ v.o = Len(ops)
  /\ Parts(B, b, fs, v)

IInv == fuel \in 0..Fuel /\ \E v : StateOK(builder, block, todo, operands, yields, v)

\* The frame on top, taken off.
LEMMA TopFrame ==
  ASSUME NEW B, NEW b, NEW fs, NEW ops, NEW ys, NEW v, StateOK(B, b, fs, ops, ys, v), fs # << >>
  PROVE  LET f == Head(fs)
             w == After(f, v)
         IN /\ v \in Heights /\ w \in Heights
            /\ FrameOK(f, v, B) /\ FieldsOK(f, v, B) /\ Stands(v, B)
            /\ Planned(Tail(fs), B, w)
            /\ f.do # "epilogue" => Stands(w, B)
            /\ B.scopes # << >>
<1> DEFINE f == Head(fs)
           w == After(f, v)
<1>1. /\ v \in Heights /\ w \in Heights /\ FrameOK(f, v, B) /\ Planned(Tail(fs), B, w)
  BY PlanPop DEF StateOK
<1>2. FieldsOK(f, v, B) /\ Stands(v, B) BY <1>1 DEF FrameOK
<1>3. B.scopes # << >>
  <2>1. Len(B.scopes) >= 2 BY <1>2 DEF Stands, StateOK
  <2> QED BY <2>1
<1>4. ASSUME f.do # "epilogue" PROVE Stands(w, B)
  <2>1. w.s >= 2
    <3>1. Closes(f) \in Nat BY <1>1, FrameCounts
    <3>2. v.s \in Nat /\ v.s >= Closes(f) + 2 BY <1>1, <1>4 DEF Heights, FrameOK
    <3>3. w.s = v.s - Closes(f) BY DEF After
    <3> HIDE DEF w
    <3> QED BY <3>1, <3>2, <3>3
  <2>2. Tail(fs) # << >>
    <3> SUFFICES ASSUME Tail(fs) = << >> PROVE FALSE OBVIOUS
    <3>1. w = NoneLeft BY <1>1, PlanDone
    <3> QED BY <2>1, <3>1 DEF NoneLeft
  <2> HIDE DEF w
  <2> QED BY <1>1, <2>2, PlanPop DEF FrameOK
<1> QED BY <1>1, <1>2, <1>3, <1>4

LEMMA SuspendedFinite ==
  ASSUME NEW B, BuilderOK(B)
  PROVE  IsFiniteSet(Suspended(B)) /\ Cardinality(Suspended(B)) \in Nat
<1>1. Len(B.basic_blocks) \in Nat BY BuilderFields DEF BuilderOK
<1>2. IsFiniteSet(BlocksOf(B)) BY <1>1, FS_Interval DEF BlocksOf
<1>3. Suspended(B) \in SUBSET BlocksOf(B) BY DEF Suspended
<1>4. IsFiniteSet(Suspended(B)) BY <1>2, <1>3, FS_Subset
<1> QED BY <1>4, FS_CardinalityType

LEMMA OperandsKept ==
  ASSUME NEW B, BuilderOK(B), NEW B2, BuilderOK(B2), Len(B.local_decls) <= Len(B2.local_decls),
         NEW ops \in Seq(OperandsOf(B))
  PROVE  LocalsOf(B) \subseteq LocalsOf(B2) /\ ops \in Seq(OperandsOf(B2))
<1>1. Len(B.local_decls) \in Nat /\ Len(B2.local_decls) \in Nat BY BuilderFields DEF BuilderOK
<1>2. LocalsOf(B) \subseteq LocalsOf(B2) BY <1>1 DEF LocalsOf
<1>3. OperandsOf(B) \subseteq OperandsOf(B2) BY <1>2 DEF OperandsOf
<1> QED BY <1>2, <1>3, SeqMonotonic

LEMMA LastOperand ==
  ASSUME NEW B, NEW ops \in Seq(OperandsOf(B)), Len(ops) >= 1
  PROVE  /\ Last(ops).moved \in SUBSET LocalsOf(B) /\ Last(ops).read \in SUBSET LocalsOf(B)
         /\ Last(ops) \in OperandsOf(B)
         /\ Front(ops) \in Seq(OperandsOf(B)) /\ Len(Front(ops)) = Len(ops) - 1
<1>1. Len(ops) \in 1..Len(ops) OBVIOUS
<1>2. ops[Len(ops)] \in OperandsOf(B) BY <1>1
<1>3. Front(ops) \in Seq(OperandsOf(B)) /\ Len(Front(ops)) = Len(ops) - 1
  <2>1. \A i \in 1..(Len(ops) - 1) : ops[i] \in OperandsOf(B) BY <1>1
  <2>2. Len(ops) - 1 \in Int /\ (Len(ops) - 1) - 1 + 1 = Len(ops) - 1 BY <1>1
  <2> HIDE DEF OperandsOf
  <2> QED BY <1>1, <2>1, <2>2 DEF Front
<1> QED BY <1>2, <1>3 DEF Last, OperandsOf

\* Frames in front of others.
LEMMA ConsTwo ==
  ASSUME NEW T, Frames(T), NEW a, NEW b
  PROVE  <<a, b>> \o T = <<a>> \o (<<b>> \o T)
<1>1. PICK S : T \in Seq(S) BY DEF Frames
<1> DEFINE U == S \union {a, b}
<1>2. T \in Seq(U) /\ <<a>> \in Seq(U) /\ <<b>> \in Seq(U) BY <1>1
<1>3. <<a, b>> = <<a>> \o <<b>>
  <2>1. /\ <<a>> \o <<b>> \in Seq(U) /\ Len(<<a>> \o <<b>>) = 2
        /\ (<<a>> \o <<b>>)[1] = a /\ (<<a>> \o <<b>>)[2] = b
    BY <1>2
  <2>2. <<a, b>> \in Seq(U) /\ Len(<<a, b>>) = 2 BY <1>1
  <2>3. \A i \in 1..2 : <<a, b>>[i] = (<<a>> \o <<b>>)[i] BY <2>1
  <2> QED BY <2>1, <2>2, <2>3, SeqEqual
<1> QED BY <1>2, <1>3, ConcatAssociative

Three(T, a, b, c) == <<a, b, c>> \o T = <<a>> \o (<<b>> \o (<<c>> \o T))

LEMMA ConsThree ==
  ASSUME NEW T, Frames(T), NEW a, NEW b, NEW c PROVE Three(T, a, b, c)
<1>1. PICK S : T \in Seq(S) BY DEF Frames
<1> DEFINE U == S \union {a, b, c}
<1>2. T \in Seq(U) /\ <<a, b>> \in Seq(U) /\ <<c>> \in Seq(U) BY <1>1
<1>3. <<a, b, c>> = <<a, b>> \o <<c>> OBVIOUS
<1>4. <<a, b, c>> \o T = <<a, b>> \o (<<c>> \o T) BY <1>2, <1>3, ConcatAssociative
<1>5. Frames(<<c>> \o T) BY <1>2, ConcatProperties DEF Frames
<1> QED BY <1>4, <1>5, ConsTwo DEF Three

Four(T, a, b, c, d) == <<a, b, c, d>> \o T = <<a>> \o (<<b>> \o (<<c>> \o (<<d>> \o T)))

LEMMA ConsFour ==
  ASSUME NEW T, Frames(T), NEW a, NEW b, NEW c, NEW d PROVE Four(T, a, b, c, d)
<1>1. PICK S : T \in Seq(S) BY DEF Frames
<1> DEFINE U == S \union {a, b, c, d}
<1>2. T \in Seq(U) /\ <<b, c, d>> \in Seq(U) /\ <<a>> \in Seq(U) BY <1>1
<1>3. <<a, b, c, d>> = <<a>> \o <<b, c, d>> OBVIOUS
<1>4. <<a, b, c, d>> \o T = <<a>> \o (<<b, c, d>> \o T) BY <1>2, <1>3, ConcatAssociative
<1>5. <<b, c, d>> \o T = <<b>> \o (<<c>> \o (<<d>> \o T)) BY ConsThree DEF Three
<1> QED BY <1>4, <1>5 DEF Four

LEMMA ConsNone == ASSUME NEW T, Frames(T) PROVE << >> \o T = T
BY ConcatEmptySeq DEF Frames

\* A level w with ds more scopes and do more operands.
Lifted(u, w, ds, do, B) ==
  /\ Stands(u, B) /\ u.c /\ u.s = w.s + ds /\ u.l = w.l /\ u.o = w.o + do
  /\ u.x = w.x /\ u.y = w.y

Up(w, ds, do) ==
  [s |-> w.s + ds, l |-> w.l, o |-> w.o + do, y |-> w.y, x |-> w.x, c |-> w.c]

LEMMA StandsUp ==
  ASSUME NEW B, NEW w, Stands(w, B), w.c, NEW ds \in Nat, NEW do \in Int, w.o + do \in Nat
  PROVE  Lifted(Up(w, ds, do), w, ds, do, B)
<1> DEFINE u == Up(w, ds, do)
<1>1. w \in Heights BY DEF Stands
<1>2. /\ u \in Heights /\ u.s = w.s + ds /\ u.l = w.l /\ u.o = w.o + do /\ u.x = w.x
      /\ u.y = w.y /\ u.c = w.c
  <2>1. /\ w.s \in Nat /\ w.l \in Nat /\ w.o \in Nat /\ w.y \in Nat /\ w.x \in SUBSET Nat
        /\ w.c \in BOOLEAN
    BY <1>1 DEF Heights
  <2>2. u = [s |-> w.s + ds, l |-> w.l, o |-> w.o + do, y |-> w.y, x |-> w.x, c |-> w.c]
    BY <2>1 DEF Up
  <2>3. w.s + ds \in Nat BY <2>1
  <2> HIDE DEF u
  <2> QED BY <2>1, <2>2, <2>3 DEF Heights
<1> HIDE DEF u
<1>3. w.s \in Nat /\ w.s >= 2 BY <1>1 DEF Heights, Stands
<1>4. ASSUME NEW j \in 1..u.l PROVE Encloses(B, u, B.loop_scopes[j].extent)
  <2>1. PICK i \in 2..w.s : B.scopes[i].extent = B.loop_scopes[j].extent
    BY <1>2 DEF Stands, Encloses
  <2>2. i \in 2..u.s BY <1>2, <1>3
  <2> QED BY <2>1, <2>2 DEF Encloses
<1>5. Stands(u, B) BY <1>2, <1>3, <1>4 DEF Stands
<1> QED BY <1>2, <1>5 DEF Lifted, u

\* A frame that owns no block, in front of a plan.
LEMMA PushFrame ==
  ASSUME NEW fs, NEW B, NEW w, Planned(fs, B, w), Stands(w, B), w.c, NEW f,
         f.do \notin {"arms", "arm_end", "epilogue", "else", "join", "loop_end", "suspend"},
         Closes(f) \in Nat, Makes(f) <= w.o,
         FieldsOK(f, Up(w, Closes(f), Takes(f) - Makes(f)), B)
  PROVE  /\ Planned(<<f>> \o fs, B, Up(w, Closes(f), Takes(f) - Makes(f)))
         /\ Lifted(Up(w, Closes(f), Takes(f) - Makes(f)), w, Closes(f), Takes(f) - Makes(f), B)
<1> DEFINE ds == Closes(f)
           do == Takes(f) - Makes(f)
           u == Up(w, ds, do)
<1>1. w \in Heights BY DEF Stands
<1>2. Takes(f) \in Nat /\ Makes(f) \in Nat BY DEF Takes, Makes
<1>3. w.o \in Nat /\ w.s \in Nat /\ w.s >= 2 /\ w.l \in Nat /\ w.y \in Nat /\ w.x \in SUBSET Nat
  BY <1>1 DEF Heights, Stands
<1>4. do \in Int /\ w.o + do \in Nat BY <1>2, <1>3
<1>5. Lifted(u, w, ds, do, B) BY <1>4, StandsUp
<1>6. Owned(f) = {} /\ Ends(f) = 0 /\ Suspends(f) = 0 BY DEF Owned, Ends, Suspends
<1> HIDE DEF u
<1>7. /\ u.s = w.s + ds /\ u.l = w.l /\ u.o = w.o + do /\ u.x = w.x /\ u.y = w.y
      /\ Stands(u, B) /\ u.c /\ u \in Heights /\ u.c = TRUE /\ w.c = TRUE
  BY <1>1, <1>5 DEF Lifted, Stands, Heights
<1>8. FrameOK(f, u, B)
  <2>1. u.o >= Takes(f) BY <1>2, <1>3, <1>7
  <2>2. u.s >= Closes(f) + 2 BY <1>3, <1>7
  <2>3. FieldsOK(f, u, B) BY DEF u
  <2> QED BY <1>6, <1>7, <2>1, <2>2, <2>3 DEF FrameOK
<1>9. w = After(f, u)
  <2>1. w = [s |-> w.s, l |-> w.l, o |-> w.o, y |-> w.y, x |-> w.x, c |-> w.c] BY <1>1 DEF Heights
  <2>2. u.s - Closes(f) = w.s /\ u.l - Ends(f) = w.l BY <1>3, <1>6, <1>7
  <2>3. (u.o + Makes(f)) - Takes(f) = w.o /\ u.y - Suspends(f) = w.y BY <1>2, <1>3, <1>6, <1>7
  <2>4. u.x \ Owned(f) = w.x /\ (f.do \notin {"arm_end", "epilogue"}) = w.c BY <1>6, <1>7
  <2> HIDE DEF ds, do
  <2> QED BY <2>1, <2>2, <2>3, <2>4 DEF After
<1>10. Planned(<<f>> \o fs, B, u) BY <1>7, <1>8, <1>9, PlanPush
<1> QED BY <1>5, <1>10 DEF u
-----------------------------------------------------------------------------
(***************************************************************************)
(* The invariant while a block is being filled, without the frames; and a  *)
(* plan by its numbers.                                                    *)
(***************************************************************************)
Filling(B, b, ops, ys, y, x) ==
  /\ BuilderOK(B) /\ Len(B.local_decls) >= Len(Args) + 2
  /\ b \in BlocksOf(B) /\ ops \in Seq(OperandsOf(B))
  /\ "let_wild" \notin Forms => B.asserts
  /\ "yield_rvalue" \notin Forms => ys = Cardinality(Suspended(B)) + y
  /\ Unended(B) = x \union {b} \union ({B.cached_return_block} \ {None})
  /\ b \notin x /\ x \intersect ({B.cached_return_block} \ {None}) = {}
  /\ B.cached_return_block # b

Level(s, l, o, y, x) == [s |-> s, l |-> l, o |-> o, y |-> y, x |-> x, c |-> TRUE]
HasPlan(fs, B, s, l, o, y, x) ==
  /\ Planned(fs, B, Level(s, l, o, y, x)) /\ Stands(Level(s, l, o, y, x), B)

LEMMA PlanNumbers ==
  ASSUME NEW fs, NEW B, NEW s, NEW l, NEW o, NEW y, NEW x, HasPlan(fs, B, s, l, o, y, x)
  PROVE  /\ s \in Nat /\ s >= 2 /\ l \in Nat /\ o \in Nat /\ y \in Nat /\ x \in SUBSET Nat
         /\ Level(s, l, o, y, x) \in Heights /\ Frames(fs) /\ fs # << >>
<1> DEFINE v == Level(s, l, o, y, x)
<1>1. /\ v.s = s /\ v.l = l /\ v.o = o /\ v.y = y /\ v.x = x /\ v.c = TRUE BY DEF Level
<1>2. v \in Heights /\ v.s >= 2 BY DEF HasPlan, Stands
<1> HIDE DEF v
<1>3. s \in Nat /\ s >= 2 /\ l \in Nat /\ o \in Nat /\ y \in Nat /\ x \in SUBSET Nat
  BY <1>1, <1>2 DEF Heights
<1>4. Planned(fs, B, v) BY DEF HasPlan, v
<1>5. fs # << >>
  <2> SUFFICES ASSUME fs = << >> PROVE FALSE OBVIOUS
  <2>1. v = NoneLeft BY <1>4, PlanDone
  <2> QED BY <1>1, <2>1 DEF NoneLeft
<1> QED BY <1>2, <1>3, <1>4, <1>5 DEF Planned, v

\* The frame on top, taken off.
Opened(B, b, fs, ops, ys, v, f) ==
  /\ Filling(B, b, ops, ys, v.y, v.x) /\ B.scopes # << >>
  /\ v \in Heights /\ Stands(v, B) /\ FieldsOK(f, v, B)
  /\ v.s = Len(B.scopes) /\ v.l = Len(B.loop_scopes) /\ v.o = Len(ops)
  /\ v.o >= Takes(f) /\ Owned(f) \subseteq v.x
  /\ f.do \notin {"arm_end", "epilogue"} =>
       HasPlan(Tail(fs), B, v.s - Closes(f), v.l - Ends(f), (v.o + Makes(f)) - Takes(f),
               v.y - Suspends(f), v.x \ Owned(f))

LEMMA Begun ==
  ASSUME NEW B, NEW b, NEW fs, NEW ops, NEW ys, NEW v, StateOK(B, b, fs, ops, ys, v), fs # << >>,
         Head(fs).do # "arms"
  PROVE  Opened(B, b, fs, ops, ys, v, Head(fs))
<1> DEFINE f == Head(fs)
<1> DEFINE w == After(f, v)
<1>1. /\ v \in Heights /\ w \in Heights /\ FrameOK(f, v, B) /\ FieldsOK(f, v, B)
      /\ Stands(v, B) /\ Planned(Tail(fs), B, w)
      /\ f.do # "epilogue" => Stands(w, B)
      /\ B.scopes # << >>
  BY TopFrame
<1>2. v.c = TRUE /\ v.o >= Takes(f) /\ Owned(f) \subseteq v.x BY <1>1 DEF FrameOK
<1>3. Filling(B, b, ops, ys, v.y, v.x)
  <2>1. Parts(B, b, fs, v) BY DEF StateOK
  <2>3. b \in BlocksOf(B) /\ b # None BY DEF StateOK, BlocksOf, None
  <2>2. /\ Unended(B) = v.x \union {b} \union ({B.cached_return_block} \ {None})
        /\ b \notin v.x /\ v.x \intersect ({B.cached_return_block} \ {None}) = {}
        /\ B.cached_return_block # b
    BY <1>2, <2>1, <2>3 DEF Parts
  <2> QED BY <2>2 DEF Filling, StateOK
<1>4. ASSUME f.do \notin {"arm_end", "epilogue"}
      PROVE  HasPlan(Tail(fs), B, v.s - Closes(f), v.l - Ends(f), (v.o + Makes(f)) - Takes(f),
                     v.y - Suspends(f), v.x \ Owned(f))
  <2>1. w = Level(v.s - Closes(f), v.l - Ends(f), (v.o + Makes(f)) - Takes(f),
                  v.y - Suspends(f), v.x \ Owned(f))
    BY <1>4 DEF After, Level
  <2> HIDE DEF w
  <2>2. Planned(Tail(fs), B, w) /\ Stands(w, B) BY <1>1, <1>4
  <2> QED BY ONLY <2>1, <2>2, Zenon DEF HasPlan
<1>5. v.s = Len(B.scopes) /\ v.l = Len(B.loop_scopes) /\ v.o = Len(ops) BY DEF StateOK
<1> HIDE DEF w, f
<1>6. Opened(B, b, fs, ops, ys, v, f) BY <1>1, <1>2, <1>3, <1>4, <1>5 DEF Opened
<1> QED BY <1>6 DEF f

LEMMA Continued ==
  ASSUME NEW fs, NEW B, NEW B2, NEW s, NEW l, NEW o, NEW y, NEW x, HasPlan(fs, B, s, l, o, y, x),
         Continues(B, B2, Level(s, l, o, y, x))
  PROVE  HasPlan(fs, B2, s, l, o, y, x)
<1> DEFINE v == Level(s, l, o, y, x)
<1>1. v \in Heights BY PlanNumbers
<1>2. Planned(fs, B, v) /\ Stands(v, B) BY DEF HasPlan
<1>3. v.s <= v.s /\ v.l <= v.l BY <1>1 DEF Heights
<1> HIDE DEF v
<1>4. Continues(B, B2, v) BY DEF v
<1>5. Planned(fs, B2, v) BY <1>2, <1>4, PlanKept
<1>6. Stands(v, B2) BY <1>1, <1>2, <1>3, <1>4, StandsKept
<1> QED BY <1>5, <1>6 DEF HasPlan, v

LEMMA KeptContinues ==
  ASSUME NEW fs, NEW B, BuilderOK(B), NEW B2, Keeps(B, B2),
         NEW s, NEW l, NEW o, NEW y, NEW x, HasPlan(fs, B, s, l, o, y, x),
         \A i \in 1..s : B2.scopes[i].extent = B.scopes[i].extent
  PROVE  HasPlan(fs, B2, s, l, o, y, x)
<1> DEFINE v == Level(s, l, o, y, x)
<1>1. v.s = s BY DEF Level
<1> HIDE DEF v
<1>2. Continues(B, B2, v) BY <1>1, KeepsContinues
<1> QED BY <1>2, Continued DEF v

LEMMA GrownContinues ==
  ASSUME NEW fs, NEW B, BuilderOK(B), NEW B2, Grows(B, B2),
         NEW s, NEW l, NEW o, NEW y, NEW x, HasPlan(fs, B, s, l, o, y, x), s <= Len(B.scopes)
  PROVE  HasPlan(fs, B2, s, l, o, y, x)
<1>1. Len(B.scopes) \in Nat BY BuilderFields DEF BuilderOK
<1>2. s \in Nat BY PlanNumbers
<1>3. ASSUME NEW i \in 1..s PROVE B2.scopes[i].extent = B.scopes[i].extent
  <2>1. i \in 1..Len(B.scopes) BY <1>1, <1>2
  <2> QED BY <2>1 DEF Grows, SameScopes
<1> QED BY <1>3, KeptContinues DEF Grows

LEMMA AdvancedContinues ==
  ASSUME NEW fs, NEW B, BuilderOK(B), NEW B2, Advances(B, B2),
         NEW s, NEW l, NEW o, NEW y, NEW x, HasPlan(fs, B, s, l, o, y, x)
  PROVE  HasPlan(fs, B2, s, l, o, y, x)
BY AdvancesContinues, Continued

\* The block is filled on.
LEMMA FillingKept ==
  ASSUME NEW B, NEW b, NEW ops, NEW ys, NEW y, NEW x, Filling(B, b, ops, ys, y, x),
         NEW B2, BuilderOK(B2), SameGraph(B, B2), Len(B.local_decls) <= Len(B2.local_decls),
         "let_wild" \notin Forms /\ B.asserts => B2.asserts, NEW ops2 \in Seq(OperandsOf(B2))
  PROVE  Filling(B2, b, ops2, ys, y, x)
<1>1. /\ BuilderOK(B) /\ Len(B.local_decls) >= Len(Args) + 2 /\ b \in BlocksOf(B)
      /\ "let_wild" \notin Forms => B.asserts
      /\ "yield_rvalue" \notin Forms => ys = Cardinality(Suspended(B)) + y
      /\ Unended(B) = x \union {b} \union ({B.cached_return_block} \ {None})
      /\ b \notin x /\ x \intersect ({B.cached_return_block} \ {None}) = {}
      /\ B.cached_return_block # b
  BY DEF Filling
<1>2. BlocksOf(B2) = BlocksOf(B) BY SameArms
<1>3. \A c \in BlocksOf(B) : TermOf(B2, c) = TermOf(B, c) BY DEF SameGraph
<1>4. Unended(B2) = Unended(B) /\ Suspended(B2) = Suspended(B)
  BY <1>2, <1>3 DEF Unended, Suspended
<1>5. B2.cached_return_block = B.cached_return_block BY DEF SameGraph
<1>6. Len(B2.local_decls) >= Len(Args) + 2
  <2>1. Len(B.local_decls) \in Nat /\ Len(B2.local_decls) \in Nat /\ Len(Args) \in Nat
    BY <1>1, BuilderFields, ProgramAssumption DEF BuilderOK
  <2> QED BY <1>1, <2>1
<1> QED BY <1>1, <1>2, <1>4, <1>5, <1>6 DEF Filling

\* The state while a block is being filled, with its plan.
LEMMA Filled_StateOK ==
  ASSUME NEW B, NEW b, NEW fs, NEW ops, NEW ys, NEW y, NEW x, Filling(B, b, ops, ys, y, x),
         NEW s, NEW l, NEW o, HasPlan(fs, B, s, l, o, y, x),
         s = Len(B.scopes), l = Len(B.loop_scopes), o = Len(ops)
  PROVE  \E w : StateOK(B, b, fs, ops, ys, w)
<1> DEFINE v == Level(s, l, o, y, x)
<1>1. v.s = s /\ v.l = l /\ v.o = o /\ v.y = y /\ v.x = x /\ v.c = TRUE BY DEF Level
<1>2. fs # << >> /\ Planned(fs, B, v) BY PlanNumbers DEF HasPlan
<1> HIDE DEF v
<1>3. Parts(B, b, fs, v)
  <2>1. /\ Unended(B) = x \union {b} \union ({B.cached_return_block} \ {None})
        /\ b \notin x /\ x \intersect ({B.cached_return_block} \ {None}) = {}
        /\ B.cached_return_block # b
    BY DEF Filling
  <2> QED BY <1>1, <1>2, <2>1 DEF Parts
<1>4. StateOK(B, b, fs, ops, ys, v) BY <1>1, <1>2, <1>3 DEF StateOK, Filling
<1> QED BY <1>4

\* The block is filled, the frame on top done, others put in its place.
LEMMA Resumed ==
  ASSUME NEW B, NEW b, NEW ops, NEW ys, NEW y, NEW x, Filling(B, b, ops, ys, y, x),
         NEW B2, Grows(B, B2), NEW ops2 \in Seq(OperandsOf(B2)),
         NEW fs, NEW s, NEW l, NEW o, HasPlan(fs, B2, s, l, o, y, x),
         s = Len(B.scopes), l = Len(B.loop_scopes), o = Len(ops2)
  PROVE  \E w : StateOK(B2, b, fs, ops2, ys, w)
<1>1. /\ BuilderOK(B2) /\ SameGraph(B, B2) /\ Len(B.local_decls) <= Len(B2.local_decls)
      /\ B2.asserts = B.asserts /\ Len(B2.scopes) = Len(B.scopes)
      /\ B2.loop_scopes = B.loop_scopes
  BY DEF Grows, Keeps, SameScopes, SameGraph
<1>2. Filling(B2, b, ops2, ys, y, x) BY <1>1, FillingKept
<1> QED BY <1>1, <1>2, Filled_StateOK

\* A frame that owns no block, in front of a plan.
LEMMA Pushed ==
  ASSUME NEW fs, NEW B, NEW s, NEW l, NEW o, NEW y, NEW x, HasPlan(fs, B, s, l, o, y, x), NEW f,
         f.do \notin {"arms", "arm_end", "epilogue", "else", "join", "loop_end", "suspend"},
         NEW ds \in Nat, Closes(f) = ds, NEW do, Takes(f) - Makes(f) = do, Makes(f) <= o,
         FieldsOK(f, Level(s + ds, l, o + do, y, x), B)
  PROVE  HasPlan(<<f>> \o fs, B, s + ds, l, o + do, y, x)
<1> DEFINE w == Level(s, l, o, y, x)
           u == Up(w, ds, do)
<1>1. w.s = s /\ w.l = l /\ w.o = o /\ w.y = y /\ w.x = x /\ w.c = TRUE BY DEF Level
<1>2. u = Level(s + ds, l, o + do, y, x) BY <1>1 DEF Up, Level
<1>3. Planned(fs, B, w) /\ Stands(w, B) BY DEF HasPlan
<1> HIDE DEF w, u
<1>4. FieldsOK(f, u, B) BY <1>2
<1>5. u = Up(w, Closes(f), Takes(f) - Makes(f)) BY DEF u
<1>6. Planned(<<f>> \o fs, B, u) /\ Lifted(u, w, ds, do, B)
  BY <1>1, <1>3, <1>4, <1>5, PushFrame
<1>7. Planned(<<f>> \o fs, B, u) /\ Stands(u, B) BY <1>6 DEF Lifted
<1> QED BY ONLY <1>2, <1>7, Zenon DEF HasPlan

LEMMA PushInto ==
  ASSUME NEW fs, NEW B, NEW s, NEW l, NEW o, NEW y, NEW x, HasPlan(fs, B, s, l, o, y, x), NEW f,
         f.do \in {"into", "block"}, f.dest \in LocalsOf(B)
  PROVE  HasPlan(<<f>> \o fs, B, s, l, o, y, x)
<1>1. s \in Nat /\ o \in Nat BY PlanNumbers
<1>2. Closes(f) = 0 /\ Takes(f) - Makes(f) = 0 /\ Makes(f) <= o BY <1>1 DEF Closes, Takes, Makes
<1>3. s + 0 = s /\ o + 0 = o BY <1>1
<1>4. FieldsOK(f, Level(s + 0, l, o + 0, y, x), B) BY DEF FieldsOK
<1>5. HasPlan(<<f>> \o fs, B, s + 0, l, o + 0, y, x) BY <1>2, <1>4, Pushed
<1> QED BY <1>3, <1>5

LEMMA PushFree ==
  ASSUME NEW fs, NEW B, NEW s, NEW l, NEW o, NEW y, NEW x, HasPlan(fs, B, s, l, o, y, x), NEW f,
         f.do \in {"stmt", "body"}
  PROVE  HasPlan(<<f>> \o fs, B, s, l, o, y, x)
<1>1. s \in Nat /\ o \in Nat BY PlanNumbers
<1>2. Closes(f) = 0 /\ Takes(f) - Makes(f) = 0 /\ Makes(f) <= o BY <1>1 DEF Closes, Takes, Makes
<1>3. s + 0 = s /\ o + 0 = o BY <1>1
<1>4. FieldsOK(f, Level(s + 0, l, o + 0, y, x), B) BY DEF FieldsOK
<1>5. HasPlan(<<f>> \o fs, B, s + 0, l, o + 0, y, x) BY <1>2, <1>4, Pushed
<1> QED BY <1>3, <1>5

LEMMA PushEnter ==
  ASSUME NEW fs, NEW B, NEW s, NEW l, NEW o, NEW y, NEW x, HasPlan(fs, B, s, l, o, y, x), NEW f,
         f.do = "enter", f.scope \in {None} \union ScopesOf(B)
  PROVE  HasPlan(<<f>> \o fs, B, s, l, o, y, x)
<1>1. s \in Nat /\ o \in Nat BY PlanNumbers
<1>2. Closes(f) = 0 /\ Takes(f) - Makes(f) = 0 /\ Makes(f) <= o BY <1>1 DEF Closes, Takes, Makes
<1>3. s + 0 = s /\ o + 0 = o BY <1>1
<1>4. FieldsOK(f, Level(s + 0, l, o + 0, y, x), B) BY DEF FieldsOK
<1>5. HasPlan(<<f>> \o fs, B, s + 0, l, o + 0, y, x) BY <1>2, <1>4, Pushed
<1> QED BY <1>3, <1>5

LEMMA PushOperand ==
  ASSUME NEW fs, NEW B, NEW s, NEW l, NEW o, NEW y, NEW x, NEW p \in Nat, o = p + 1,
         HasPlan(fs, B, s, l, o, y, x), NEW f, f.do \in {"operand", "rvalue", "lvalue"}
  PROVE  HasPlan(<<f>> \o fs, B, s, l, p, y, x)
<1>1. s \in Nat /\ o \in Nat BY PlanNumbers
<1>2. Closes(f) = 0 /\ Takes(f) - Makes(f) = -1 /\ Makes(f) <= o BY <1>1 DEF Closes, Takes, Makes
<1>3. s + 0 = s /\ o + (-1) = p BY <1>1
<1>4. FieldsOK(f, Level(s + 0, l, o + (-1), y, x), B) BY DEF FieldsOK
<1>5. HasPlan(<<f>> \o fs, B, s + 0, l, o + (-1), y, x) BY <1>2, <1>4, Pushed
<1> QED BY <1>3, <1>5

LEMMA PushUseTemp ==
  ASSUME NEW fs, NEW B, NEW s, NEW l, NEW o, NEW y, NEW x, NEW p \in Nat, o = p + 1,
         HasPlan(fs, B, s, l, o, y, x), NEW f, f.do = "use_temp", f.local \in LocalsOf(B)
  PROVE  HasPlan(<<f>> \o fs, B, s, l, p, y, x)
<1>1. s \in Nat /\ o \in Nat BY PlanNumbers
<1>2. Closes(f) = 0 /\ Takes(f) - Makes(f) = -1 /\ Makes(f) <= o BY <1>1 DEF Closes, Takes, Makes
<1>3. s + 0 = s /\ o + (-1) = p BY <1>1
<1>4. FieldsOK(f, Level(s + 0, l, o + (-1), y, x), B) BY DEF FieldsOK
<1>5. HasPlan(<<f>> \o fs, B, s + 0, l, o + (-1), y, x) BY <1>2, <1>4, Pushed
<1> QED BY <1>3, <1>5

LEMMA PushTakes ==
  ASSUME NEW fs, NEW B, NEW s, NEW l, NEW o, NEW y, NEW x, HasPlan(fs, B, s, l, o, y, x), NEW f,
         \/ f.do = "assign"
         \/ f.do \in {"then", "match"} /\ f.dest \in LocalsOf(B)
         \/ f.do = "test" /\ LoopOK(B, f.loop)
         \/ /\ f.do = "let_pat"
            /\ f.locals \in Seq(LocalsOf(B)) /\ ("let_wild" \notin Forms => f.locals # << >>)
  PROVE  HasPlan(<<f>> \o fs, B, s, l, o + 1, y, x)
<1>1. s \in Nat /\ o \in Nat BY PlanNumbers
<1>2. Closes(f) = 0 /\ Takes(f) - Makes(f) = 1 /\ Makes(f) <= o BY <1>1 DEF Closes, Takes, Makes
<1>3. s + 0 = s BY <1>1
<1>4. FieldsOK(f, Level(s + 0, l, o + 1, y, x), B) BY DEF FieldsOK
<1>5. HasPlan(<<f>> \o fs, B, s + 0, l, o + 1, y, x) BY <1>2, <1>4, Pushed
<1> QED BY <1>3, <1>5

LEMMA PushCall ==
  ASSUME NEW fs, NEW B, NEW s, NEW l, NEW o, NEW y, NEW x, HasPlan(fs, B, s, l, o, y, x), NEW f,
         f.do = "call" /\ f.dest \in LocalsOf(B)
  PROVE  HasPlan(<<f>> \o fs, B, s, l, o + 2, y, x)
<1>1. s \in Nat /\ o \in Nat BY PlanNumbers
<1>2. Closes(f) = 0 /\ Takes(f) - Makes(f) = 2 /\ Makes(f) <= o BY <1>1 DEF Closes, Takes, Makes
<1>3. s + 0 = s BY <1>1
<1>4. FieldsOK(f, Level(s + 0, l, o + 2, y, x), B) BY DEF FieldsOK
<1>5. HasPlan(<<f>> \o fs, B, s + 0, l, o + 2, y, x) BY <1>2, <1>4, Pushed
<1> QED BY <1>3, <1>5

LEMMA PushPop ==
  ASSUME NEW fs, NEW B, NEW s, NEW l, NEW o, NEW y, NEW x, HasPlan(fs, B, s, l, o, y, x), NEW f,
         f.do = "pop", B.scopes[s + 1].extent = f.extent
  PROVE  HasPlan(<<f>> \o fs, B, s + 1, l, o, y, x)
<1>1. s \in Nat /\ s >= 2 /\ o \in Nat BY PlanNumbers
<1>2. Closes(f) = 1 /\ Takes(f) - Makes(f) = 0 /\ Makes(f) <= o BY <1>1 DEF Closes, Takes, Makes
<1>3. o + 0 = o /\ s + 1 >= 3 BY <1>1
<1>4. Level(s + 1, l, o + 0, y, x).s = s + 1 BY DEF Level
<1>5. FieldsOK(f, Level(s + 1, l, o + 0, y, x), B) BY <1>3, <1>4 DEF FieldsOK
<1>6. HasPlan(<<f>> \o fs, B, s + 1, l, o + 0, y, x) BY <1>2, <1>5, Pushed
<1> QED BY <1>3, <1>6

LEMMA PushExit ==
  ASSUME NEW fs, NEW B, NEW s, NEW l, NEW o, NEW y, NEW x, HasPlan(fs, B, s, l, o, y, x), NEW f,
         f.do = "exit", \E i \in 2..s : B.scopes[i].extent = f.extent,
         f.target = None \/ Jumpable(B, f.target)
  PROVE  HasPlan(<<f>> \o fs, B, s, l, o, y, x)
<1>1. s \in Nat /\ o \in Nat BY PlanNumbers
<1>2. Closes(f) = 0 /\ Takes(f) - Makes(f) = 0 /\ Makes(f) <= o BY <1>1 DEF Closes, Takes, Makes
<1>3. s + 0 = s /\ o + 0 = o BY <1>1
<1>4. Level(s, l, o, y, x).s = s BY DEF Level
<1>5. FieldsOK(f, Level(s, l, o, y, x), B) BY <1>4 DEF FieldsOK, Encloses
<1>6. HasPlan(<<f>> \o fs, B, s + 0, l, o + 0, y, x) BY <1>2, <1>3, <1>5, Pushed
<1> QED BY <1>3, <1>6

-----------------------------------------------------------------------------
(***************************************************************************)
(* Each action keeps the invariant.                                        *)
(***************************************************************************)
Scopes == Len(builder.scopes)
Loops == Len(builder.loop_scopes)
Now(v) == StateOK(builder, block, todo, operands, yields, v)
Kept == \E w : StateOK(builder', block', todo', operands', yields', w)

\* What holds when there is a frame to do, and the plan after that frame.
Common(v) ==
  /\ Filling(builder, block, operands, yields, v.y, v.x)
  /\ BuilderOK(builder) /\ builder.scopes # << >> /\ block \in BlocksOf(builder)
  /\ operands \in Seq(OperandsOf(builder)) /\ FieldsOK(Top, v, builder)
  /\ Stands(v, builder) /\ v.s = Scopes /\ v.l = Loops
  /\ Scopes \in Nat /\ Scopes >= 2 /\ Loops \in Nat /\ Len(operands) \in Nat
Rest(s, l, o, y, x) == HasPlan(Tail(todo), builder, s, l, o, y, x)

LEMMA Started ==
  ASSUME NEW v, Now(v), todo # << >>, Top.do # "arms"
  PROVE  /\ Common(v) /\ v \in Heights /\ v.o = Len(operands) /\ v.o >= Takes(Top)
         /\ Owned(Top) \subseteq v.x
         /\ Top.do \notin {"arm_end", "epilogue"} =>
              Rest(v.s - Closes(Top), v.l - Ends(Top), (v.o + Makes(Top)) - Takes(Top),
                   v.y - Suspends(Top), v.x \ Owned(Top))
<1> DEFINE f == Top
<1>1. Top = Head(todo) BY DEF Top
<1>2. StateOK(builder, block, todo, operands, yields, v) BY DEF Now
<1>0. Opened(builder, block, todo, operands, yields, v, Top) BY <1>1, <1>2, Begun
<1> HIDE DEF f
<1>3. /\ Filling(builder, block, operands, yields, v.y, v.x) /\ builder.scopes # << >>
      /\ v \in Heights /\ Stands(v, builder) /\ FieldsOK(f, v, builder)
      /\ v.s = Len(builder.scopes) /\ v.l = Len(builder.loop_scopes) /\ v.o = Len(operands)
      /\ v.o >= Takes(f) /\ Owned(f) \subseteq v.x
      /\ f.do \notin {"arm_end", "epilogue"} =>
           HasPlan(Tail(todo), builder, v.s - Closes(f), v.l - Ends(f),
                   (v.o + Makes(f)) - Takes(f), v.y - Suspends(f), v.x \ Owned(f))
  BY <1>0 DEF Opened, f
<1>4. v.s \in Nat /\ v.l \in Nat /\ v.o \in Nat /\ v.s >= 2
  BY <1>3 DEF Heights, Stands
<1>5. BuilderOK(builder) /\ block \in BlocksOf(builder) /\ operands \in Seq(OperandsOf(builder))
  BY <1>3 DEF Filling
<1>6. Common(v) BY <1>3, <1>4, <1>5 DEF Common, Scopes, Loops, f
<1> QED BY <1>3, <1>6 DEF Rest, f

LEMMA Neutral ==
  ASSUME NEW v, Now(v), At({"into", "stmt", "block", "body", "enter", "exit"})
  PROVE  /\ Common(v) /\ v \in Heights /\ Rest(Scopes, Loops, Len(operands), v.y, v.x)
<1>1. todo # << >> /\ Top.do \in {"into", "stmt", "block", "body", "enter", "exit"} BY DEF At
<1> DEFINE f == Top
<1>2. /\ Common(v) /\ v \in Heights /\ v.o = Len(operands) /\ v.o >= Takes(f)
      /\ Rest(v.s - Closes(f), v.l - Ends(f), (v.o + Makes(f)) - Takes(f), v.y - Suspends(f),
              v.x \ Owned(f))
  BY <1>1, Started
<1>3. /\ Closes(f) = 0 /\ Ends(f) = 0 /\ Makes(f) = 0 /\ Takes(f) = 0 /\ Suspends(f) = 0
      /\ Owned(f) = {}
  BY <1>1 DEF Closes, Ends, Makes, Takes, Suspends, Owned
<1> HIDE DEF f
<1>4. v.s \in Nat /\ v.l \in Nat /\ v.o \in Nat /\ v.y \in Nat /\ v.x \in SUBSET Nat
  BY <1>2 DEF Heights
<1>5. /\ v.s - Closes(f) = v.s /\ v.l - Ends(f) = v.l /\ (v.o + Makes(f)) - Takes(f) = v.o
      /\ v.y - Suspends(f) = v.y /\ v.x \ Owned(f) = v.x
  BY <1>3, <1>4
<1>6. v.s = Scopes /\ v.l = Loops BY <1>2 DEF Common
<1>7. Rest(Scopes, Loops, Len(operands), v.y, v.x) BY <1>2, <1>5, <1>6
<1> QED BY <1>2, <1>7

LEMMA Making ==
  ASSUME NEW v, Now(v), At({"operand", "rvalue", "lvalue", "use_temp"})
  PROVE  /\ Common(v) /\ v \in Heights /\ Rest(Scopes, Loops, Len(operands) + 1, v.y, v.x)
<1>1. todo # << >> /\ Top.do \in {"operand", "rvalue", "lvalue", "use_temp"} BY DEF At
<1> DEFINE f == Top
<1>2. /\ Common(v) /\ v \in Heights /\ v.o = Len(operands) /\ v.o >= Takes(f)
      /\ Rest(v.s - Closes(f), v.l - Ends(f), (v.o + Makes(f)) - Takes(f), v.y - Suspends(f),
              v.x \ Owned(f))
  BY <1>1, Started
<1>3. /\ Closes(f) = 0 /\ Ends(f) = 0 /\ Makes(f) = 1 /\ Takes(f) = 0 /\ Suspends(f) = 0
      /\ Owned(f) = {}
  BY <1>1 DEF Closes, Ends, Makes, Takes, Suspends, Owned
<1> HIDE DEF f
<1>4. v.s \in Nat /\ v.l \in Nat /\ v.o \in Nat /\ v.y \in Nat /\ v.x \in SUBSET Nat
  BY <1>2 DEF Heights
<1>5. /\ v.s - Closes(f) = v.s /\ v.l - Ends(f) = v.l /\ (v.o + Makes(f)) - Takes(f) = v.o + 1
      /\ v.y - Suspends(f) = v.y /\ v.x \ Owned(f) = v.x
  BY <1>3, <1>4
<1>6. v.s = Scopes /\ v.l = Loops BY <1>2 DEF Common
<1>7. Rest(Scopes, Loops, Len(operands) + 1, v.y, v.x) BY <1>2, <1>5, <1>6
<1> QED BY <1>2, <1>7

LEMMA Taking ==
  ASSUME NEW v, Now(v), At({"assign", "then", "test", "match", "let_pat"})
  PROVE  /\ Common(v) /\ v \in Heights /\ Rest(Scopes, Loops, Len(operands) - 1, v.y, v.x)
         /\ Last(operands).moved \in SUBSET LocalsOf(builder)
         /\ Last(operands).read \in SUBSET LocalsOf(builder)
         /\ Front(operands) \in Seq(OperandsOf(builder))
         /\ Len(Front(operands)) = Len(operands) - 1
<1>1. todo # << >> /\ Top.do \in {"assign", "then", "test", "match", "let_pat"} BY DEF At
<1> DEFINE f == Top
<1>2. /\ Common(v) /\ v \in Heights /\ v.o = Len(operands) /\ v.o >= Takes(f)
      /\ Rest(v.s - Closes(f), v.l - Ends(f), (v.o + Makes(f)) - Takes(f), v.y - Suspends(f),
              v.x \ Owned(f))
  BY <1>1, Started
<1>3. /\ Closes(f) = 0 /\ Ends(f) = 0 /\ Makes(f) = 0 /\ Takes(f) = 1 /\ Suspends(f) = 0
      /\ Owned(f) = {}
  BY <1>1 DEF Closes, Ends, Makes, Takes, Suspends, Owned
<1> HIDE DEF f
<1>4. v.s \in Nat /\ v.l \in Nat /\ v.o \in Nat /\ v.y \in Nat /\ v.x \in SUBSET Nat
  BY <1>2 DEF Heights
<1>5. /\ v.s - Closes(f) = v.s /\ v.l - Ends(f) = v.l /\ (v.o + Makes(f)) - Takes(f) = v.o - 1
      /\ v.y - Suspends(f) = v.y /\ v.x \ Owned(f) = v.x
  BY <1>3, <1>4
<1>6. v.s = Scopes /\ v.l = Loops BY <1>2 DEF Common
<1>7. Rest(Scopes, Loops, Len(operands) - 1, v.y, v.x) BY <1>2, <1>5, <1>6
<1>8. Len(operands) >= 1 BY <1>2, <1>3
<1>9. operands \in Seq(OperandsOf(builder)) BY <1>2 DEF Common
<1> QED BY <1>2, <1>7, <1>8, <1>9, LastOperand

LEMMA OperandAdded ==
  ASSUME NEW B, NEW ops \in Seq(OperandsOf(B)), NEW z \in OperandsOf(B)
  PROVE  Append(ops, z) \in Seq(OperandsOf(B)) /\ Len(Append(ops, z)) = Len(ops) + 1
BY AppendProperties

LEMMA OperandIs ==
  ASSUME NEW B, NEW m \in SUBSET LocalsOf(B), NEW r \in SUBSET LocalsOf(B)
  PROVE  [moved |-> m, read |-> r] \in OperandsOf(B)
BY DEF OperandsOf

LEMMA PlaceFits ==
  ASSUME BuilderOK(builder), NEW name
  PROVE  Place(name) \in SUBSET LocalsOf(builder)
BY FoundLocal DEF Place

LEMMA RestFrames ==
  ASSUME NEW s, NEW l, NEW o, NEW y, NEW x, Rest(s, l, o, y, x)
  PROVE  Frames(Tail(todo)) /\ << >> \o Tail(todo) = Tail(todo)
BY PlanNumbers, ConsNone DEF Rest

\* Nothing is put in the place of the frame on top.
LEMMA Consumed ==
  ASSUME NEW v, Common(v), NEW o, Rest(Scopes, Loops, o, v.y, v.x),
         Grows(builder, builder'), block' = block, yields' = yields, Then(<< >>),
         operands' \in Seq(OperandsOf(builder')), Len(operands') = o
  PROVE  Kept
<1>1. todo' = Tail(todo) BY RestFrames DEF Then
<1>2. HasPlan(Tail(todo), builder', Scopes, Loops, o, v.y, v.x)
  BY GrownContinues DEF Common, Rest, Scopes
<1> QED BY <1>1, <1>2, Resumed DEF Common, Kept, Scopes, Loops

LEMMA FilledOperands ==
  ASSUME NEW v, Common(v), Fills(builder, builder')
  PROVE  OperandsOf(builder') = OperandsOf(builder) /\ Grows(builder, builder')
BY DEF Fills, OperandsOf, LocalsOf

LEMMA IntoConstantKeeps == ASSUME NEW v, Now(v), IntoConstant PROVE Kept
<1>1. Common(v) /\ Rest(Scopes, Loops, Len(operands), v.y, v.x) BY Neutral DEF IntoConstant, At
<1>2. Top.dest \in LocalsOf(builder) BY <1>1 DEF Common, FieldsOK, IntoConstant, At
<1>3. Fills(builder, builder') BY <1>1, <1>2, PushUnit DEF IntoConstant, Common
<1>4. operands' \in Seq(OperandsOf(builder')) /\ Grows(builder, builder') /\ operands' = operands
  BY <1>1, <1>3, FilledOperands DEF Common, IntoConstant
<1> QED BY <1>1, <1>4, Consumed DEF IntoConstant, program

LEMMA IntoPathKeeps == ASSUME NEW v, Now(v), NEW name, IntoPath(name) PROVE Kept
<1>1. Common(v) /\ Rest(Scopes, Loops, Len(operands), v.y, v.x) BY Neutral DEF IntoPath, At
<1>2. Top.dest \in LocalsOf(builder) BY <1>1 DEF Common, FieldsOK, IntoPath, At
<1>3. Fills(builder, builder')
  <2>1. {Top.dest} \in SUBSET LocalsOf(builder) /\ {} \in SUBSET LocalsOf(builder) BY <1>2
  <2>2. Place(name) \in SUBSET LocalsOf(builder) BY <1>1, PlaceFits DEF Common
  <2>3. builder' = push(builder, block, Write({Top.dest}, {}, Place(name))) BY DEF IntoPath
  <2> QED BY <1>1, <2>1, <2>2, <2>3, PushWrite DEF Common
<1>4. operands' \in Seq(OperandsOf(builder')) /\ Grows(builder, builder') /\ operands' = operands
  BY <1>1, <1>3, FilledOperands DEF Common, IntoPath
<1> QED BY <1>1, <1>4, Consumed DEF IntoPath

LEMMA OperandConstantKeeps == ASSUME NEW v, Now(v), OperandConstant PROVE Kept
<1>1. Common(v) /\ Rest(Scopes, Loops, Len(operands) + 1, v.y, v.x)
  BY Making DEF OperandConstant, At
<1>2. builder' = builder /\ Grows(builder, builder')
  BY <1>1, GrowsReflexive DEF OperandConstant, Fills, Common
<1>3. /\ operands' \in Seq(OperandsOf(builder)) /\ Len(operands') = Len(operands) + 1
  <2>1. NoOperand \in OperandsOf(builder) BY OperandIs DEF NoOperand
  <2>2. operands' = Append(operands, NoOperand) BY DEF OperandConstant
  <2> QED BY <1>1, <2>1, <2>2, OperandAdded DEF Common
<1> QED BY <1>1, <1>2, <1>3, Consumed DEF OperandConstant, program

LEMMA OperandPathKeeps == ASSUME NEW v, Now(v), NEW name, OperandPath(name) PROVE Kept
<1>1. Common(v) /\ Rest(Scopes, Loops, Len(operands) + 1, v.y, v.x)
  BY Making DEF OperandPath, At
<1>2. builder' = builder /\ Grows(builder, builder')
  BY <1>1, GrowsReflexive DEF OperandPath, Fills, Common
<1>3. Place(name) \in SUBSET LocalsOf(builder) BY <1>1, PlaceFits DEF Common
<1>4. /\ operands' \in Seq(OperandsOf(builder)) /\ Len(operands') = Len(operands) + 1
  <2>1. \/ operands' = Append(operands, [moved |-> {}, read |-> Place(name)])
        \/ operands' = Append(operands, [moved |-> Place(name), read |-> {}])
    BY DEF OperandPath
  <2>2. {} \in SUBSET LocalsOf(builder) OBVIOUS
  <2>3. PICK z \in OperandsOf(builder) : operands' = Append(operands, z)
    BY <1>3, <2>1, <2>2, OperandIs
  <2> QED BY <1>1, <2>3, OperandAdded DEF Common
<1> QED BY <1>1, <1>2, <1>4, Consumed DEF OperandPath

LEMMA UseTempKeeps == ASSUME NEW v, Now(v), UseTemp PROVE Kept
<1>1. Common(v) /\ Rest(Scopes, Loops, Len(operands) + 1, v.y, v.x) BY Making DEF UseTemp, At
<1>2. builder' = builder /\ Grows(builder, builder')
  BY <1>1, GrowsReflexive DEF UseTemp, Fills, Common
<1>3. Top.local \in LocalsOf(builder) BY <1>1 DEF Common, FieldsOK, UseTemp, At
<1>4. /\ operands' \in Seq(OperandsOf(builder)) /\ Len(operands') = Len(operands) + 1
  <2>1. \/ operands' = Append(operands, [moved |-> {}, read |-> {Top.local}])
        \/ operands' = Append(operands, [moved |-> {Top.local}, read |-> {}])
    BY DEF UseTemp
  <2>2. {} \in SUBSET LocalsOf(builder) /\ {Top.local} \in SUBSET LocalsOf(builder) BY <1>3
  <2>3. PICK z \in OperandsOf(builder) : operands' = Append(operands, z)
    BY <2>1, <2>2, OperandIs
  <2> QED BY <1>1, <2>3, OperandAdded DEF Common
<1> QED BY <1>1, <1>2, <1>4, Consumed DEF UseTemp, program

\* The new plan is for a builder that only grew.
LEMMA Stacked ==
  ASSUME NEW v, Common(v), Grows(builder, builder'), block' = block, yields' = yields,
         operands' \in Seq(OperandsOf(builder')),
         HasPlan(todo', builder', Scopes, Loops, Len(operands'), v.y, v.x)
  PROVE  Kept
BY Resumed DEF Common, Kept, Scopes, Loops

LEMMA GrownRest ==
  ASSUME NEW v, Common(v), NEW B2, Grows(builder, B2), NEW o, Rest(Scopes, Loops, o, v.y, v.x)
  PROVE  /\ HasPlan(Tail(todo), B2, Scopes, Loops, o, v.y, v.x)
         /\ LocalsOf(builder) \subseteq LocalsOf(B2) /\ Frames(Tail(todo))
         /\ operands \in Seq(OperandsOf(B2))
<1>1. Scopes <= Len(builder.scopes) /\ BuilderOK(builder) /\ operands \in Seq(OperandsOf(builder))
  BY DEF Common, Scopes
<1>2. HasPlan(Tail(todo), builder, Scopes, Loops, o, v.y, v.x) BY DEF Rest
<1>3. HasPlan(Tail(todo), B2, Scopes, Loops, o, v.y, v.x) BY <1>1, <1>2, GrownContinues
<1>4. Frames(Tail(todo)) BY <1>3, PlanNumbers
<1> QED BY <1>1, <1>3, <1>4, OperandsKept DEF Grows, Keeps

LEMMA OperandTempKeeps == ASSUME NEW v, Now(v), OperandTemp PROVE Kept
<1>1. Common(v) /\ Rest(Scopes, Loops, Len(operands) + 1, v.y, v.x) BY Making DEF OperandTemp, At
<1>2. builder' = temp(builder, block) BY DEF OperandTemp
<1>3. Grows(builder, builder') /\ NextLocal(builder) \in LocalsOf(builder')
  BY <1>1, <1>2, TempGrows DEF Common
<1>4. PICK but, moved :
        Then(<<Into(NextLocal(builder), but),
               [do |-> "use_temp", local |-> NextLocal(builder), moved |-> moved]>>)
  BY DEF OperandTemp
<1> DEFINE f == Into(NextLocal(builder), but)
           u == [do |-> "use_temp", local |-> NextLocal(builder), moved |-> moved]
<1>5. /\ HasPlan(Tail(todo), builder', Scopes, Loops, Len(operands) + 1, v.y, v.x)
      /\ Frames(Tail(todo)) /\ operands \in Seq(OperandsOf(builder'))
  BY <1>1, <1>3, GrownRest
<1>6. /\ u.do = "use_temp" /\ u.local = NextLocal(builder)
      /\ f.do = "into" /\ f.dest = NextLocal(builder)
  BY DEF Into
<1>7. todo' = <<f, u>> \o Tail(todo) BY <1>4 DEF Then
<1> HIDE DEF f, u
<1>8. todo' = <<f>> \o (<<u>> \o Tail(todo)) BY <1>5, <1>7, ConsTwo
<1>9. HasPlan(<<u>> \o Tail(todo), builder', Scopes, Loops, Len(operands), v.y, v.x)
  BY <1>1, <1>3, <1>5, <1>6, PushUseTemp DEF Common
<1>10. HasPlan(todo', builder', Scopes, Loops, Len(operands), v.y, v.x)
  <2>1. f.do \in {"into", "block"} /\ f.dest \in LocalsOf(builder') BY <1>3, <1>6
  <2> DEFINE T == <<u>> \o Tail(todo)
  <2> HIDE DEF T
  <2>2. HasPlan(T, builder', Scopes, Loops, Len(operands), v.y, v.x) BY <1>9 DEF T
  <2>3. HasPlan(<<f>> \o T, builder', Scopes, Loops, Len(operands), v.y, v.x)
    BY <2>1, <2>2, PushInto
  <2> QED BY <1>8, <2>3 DEF T
<1>11. operands' = operands /\ block' = block /\ yields' = yields BY DEF OperandTemp, program
<1> QED BY <1>1, <1>3, <1>5, <1>10, <1>11, Stacked

LEMMA RvalueMacKeeps == ASSUME NEW v, Now(v), RvalueMac PROVE Kept
<1>1. Common(v) /\ Rest(Scopes, Loops, Len(operands) + 1, v.y, v.x) BY Making DEF RvalueMac, At
<1>2. /\ operands' = Append(operands, NoOperand) /\ builder' = builder /\ block' = block
      /\ "yield_rvalue" \in Forms /\ Then(<< >>)
  BY DEF RvalueMac
<1>3. operands' \in Seq(OperandsOf(builder)) /\ Len(operands') = Len(operands) + 1
  <2>1. NoOperand \in OperandsOf(builder) BY OperandIs DEF NoOperand
  <2> QED BY <1>1, <1>2, <2>1, OperandAdded DEF Common
<1>4. Filling(builder, block, operands', yields', v.y, v.x)
  BY <1>1, <1>2, <1>3 DEF Common, Filling
<1>5. todo' = Tail(todo) BY <1>1, <1>2, RestFrames DEF Then
<1>6. HasPlan(todo', builder, Scopes, Loops, Len(operands'), v.y, v.x) BY <1>1, <1>3, <1>5 DEF Rest
<1> QED BY <1>2, <1>4, <1>6, Filled_StateOK DEF Kept, Scopes, Loops

LEMMA StmtOtherKeeps == ASSUME NEW v, Now(v), StmtOther PROVE Kept
<1>1. Common(v) /\ Rest(Scopes, Loops, Len(operands), v.y, v.x) BY Neutral DEF StmtOther, At
<1>2. builder' = temp(builder, block) BY DEF StmtOther
<1>3. Grows(builder, builder') /\ NextLocal(builder) \in LocalsOf(builder')
  BY <1>1, <1>2, TempGrows DEF Common
<1> DEFINE f == Into(NextLocal(builder), Direct)
<1>4. f.do = "into" /\ f.dest = NextLocal(builder) BY DEF Into
<1>5. todo' = <<f>> \o Tail(todo) BY DEF StmtOther, Then
<1> HIDE DEF f
<1>6. /\ HasPlan(Tail(todo), builder', Scopes, Loops, Len(operands), v.y, v.x)
      /\ operands \in Seq(OperandsOf(builder'))
  BY <1>1, <1>3, GrownRest
<1>7. HasPlan(todo', builder', Scopes, Loops, Len(operands), v.y, v.x)
  BY <1>3, <1>4, <1>5, <1>6, PushInto
<1>8. operands' = operands /\ block' = block /\ yields' = yields BY DEF StmtOther, program
<1> QED BY <1>1, <1>3, <1>6, <1>7, <1>8, Stacked

LEMMA PreparedFills ==
  ASSUME NEW v, Common(v), At({"stmt", "into"})
  PROVE  Fills(builder, Prepared)
<1>1. CASE Top.do = "into"
  <2>1. Top.dest \in LocalsOf(builder) BY <1>1 DEF Common, FieldsOK
  <2> QED BY <1>1, <2>1, PushUnit DEF Common, Prepared
<1>2. CASE Top.do # "into" BY <1>2, GrowsReflexive DEF Common, Prepared
<1> QED BY <1>1, <1>2

LEMMA AssignExprKeeps == ASSUME NEW v, Now(v), NEW name, AssignExpr(name) PROVE Kept
<1>1. Common(v) /\ Rest(Scopes, Loops, Len(operands), v.y, v.x) BY Neutral DEF AssignExpr, At
<1>2. Grows(builder, builder')
  <2>1. builder' = Prepared /\ At({"stmt", "into"}) BY DEF AssignExpr
  <2>2. Fills(builder, Prepared) BY <1>1, <2>1, PreparedFills
  <2> QED BY <2>1, <2>2 DEF Fills
<1>3. PICK f, a : /\ Then(<<f, a>>) /\ f.do \in {"operand", "rvalue"} /\ a.do = "assign"
  <2>1. Rvalue.do = "rvalue" /\ Operand.do = "operand" BY DEF Rvalue, Operand
  <2>2. \A op : [do |-> "assign", name |-> name, op |-> op].do = "assign" OBVIOUS
  <2> QED BY <2>1, <2>2 DEF AssignExpr
<1>4. /\ HasPlan(Tail(todo), builder', Scopes, Loops, Len(operands), v.y, v.x)
      /\ Frames(Tail(todo)) /\ operands \in Seq(OperandsOf(builder'))
  BY <1>1, <1>2, GrownRest
<1>5. todo' = <<f>> \o (<<a>> \o Tail(todo)) BY <1>3, <1>4, ConsTwo DEF Then
<1>6. HasPlan(<<a>> \o Tail(todo), builder', Scopes, Loops, Len(operands) + 1, v.y, v.x)
  BY <1>3, <1>4, PushTakes
<1>7. HasPlan(todo', builder', Scopes, Loops, Len(operands), v.y, v.x)
  <2>1. Len(operands) \in Nat /\ Len(operands) + 1 = Len(operands) + 1 BY <1>1 DEF Common
  <2>2. f.do \in {"operand", "rvalue", "lvalue"} BY <1>3
  <2> DEFINE T == <<a>> \o Tail(todo)
  <2> HIDE DEF T
  <2>3. HasPlan(T, builder', Scopes, Loops, Len(operands) + 1, v.y, v.x) BY <1>6 DEF T
  <2>4. HasPlan(<<f>> \o T, builder', Scopes, Loops, Len(operands), v.y, v.x)
    BY <2>1, <2>2, <2>3, PushOperand
  <2> QED BY <1>5, <2>4 DEF T
<1>8. operands' = operands /\ block' = block /\ yields' = yields BY DEF AssignExpr, program
<1> QED BY <1>1, <1>2, <1>4, <1>7, <1>8, Stacked

LEMMA AssignKeeps == ASSUME NEW v, Now(v), Assign PROVE Kept
<1>1. /\ Common(v) /\ Rest(Scopes, Loops, Len(operands) - 1, v.y, v.x)
      /\ Last(operands).moved \in SUBSET LocalsOf(builder)
      /\ Last(operands).read \in SUBSET LocalsOf(builder)
      /\ Front(operands) \in Seq(OperandsOf(builder)) /\ Len(Front(operands)) = Len(operands) - 1
  BY Taking DEF Assign, At
<1> DEFINE lhs == Place(Top.name)
           moved == Last(operands).moved \union (IF Top.op THEN lhs ELSE {})
<1>2. lhs \in SUBSET LocalsOf(builder) BY <1>1, PlaceFits DEF Common
<1>3. moved \in SUBSET LocalsOf(builder) BY <1>1, <1>2
<1>4. builder' = push(builder, block, Write(lhs, moved, Last(operands).read)) BY DEF Assign
<1> HIDE DEF lhs, moved
<1>5. Fills(builder, builder') BY <1>1, <1>2, <1>3, <1>4, PushWrite DEF Common
<1>6. OperandsOf(builder') = OperandsOf(builder) /\ Grows(builder, builder')
  BY <1>1, <1>5, FilledOperands
<1>7. operands' = Front(operands) /\ block' = block /\ yields' = yields /\ Then(<< >>) BY DEF Assign
<1> QED BY <1>1, <1>6, <1>7, Consumed

\* The loops and the function can be left from wherever the block is.
LEMMA LoopAround ==
  ASSUME NEW v, Common(v), NEW i \in 1..Loops, NEW loop, loop = builder.loop_scopes[i]
  PROVE  /\ loop.break_destination \in LocalsOf(builder)
         /\ Jumpable(builder, loop.break_block) /\ Jumpable(builder, loop.continue_block)
         /\ \E j \in 2..Scopes : builder.scopes[j].extent = loop.extent
<1>1. LoopOK(builder, loop) BY DEF Common, BuilderOK, Looping, Loops
<1>2. \E j \in 2..Scopes : builder.scopes[j].extent = loop.extent
  BY DEF Common, Stands, Encloses
<1> QED BY <1>1, <1>2 DEF LoopOK

LEMMA ExitPlanned ==
  ASSUME NEW v, Common(v), NEW B2, Fills(builder, B2), NEW f, f.do = "exit",
         \E j \in 2..Scopes : builder.scopes[j].extent = f.extent,
         f.target = None \/ Jumpable(builder, f.target),
         Rest(Scopes, Loops, Len(operands), v.y, v.x)
  PROVE  /\ HasPlan(<<f>> \o Tail(todo), B2, Scopes, Loops, Len(operands), v.y, v.x)
         /\ Frames(Tail(todo)) /\ Grows(builder, B2) /\ operands \in Seq(OperandsOf(B2))
<1>1. Grows(builder, B2) /\ B2.scopes = builder.scopes BY DEF Fills
<1>2. /\ HasPlan(Tail(todo), B2, Scopes, Loops, Len(operands), v.y, v.x)
      /\ Frames(Tail(todo)) /\ operands \in Seq(OperandsOf(B2))
  BY <1>1, GrownRest
<1>3. f.target = None \/ Jumpable(B2, f.target) BY <1>1, SameArms DEF Grows, Keeps
<1>4. \E j \in 2..Scopes : B2.scopes[j].extent = f.extent BY <1>1
<1> QED BY <1>1, <1>2, <1>3, <1>4, PushExit

\* Out of a loop or the function, with a value that was assigned to dest or
\* one that is still to be lowered into it.
LEMMA Leaves_Unit ==
  ASSUME NEW v, Common(v), Rest(Scopes, Loops, Len(operands), v.y, v.x),
         At({"stmt", "into"}), NEW dest \in LocalsOf(builder), NEW f, f.do = "exit",
         \E j \in 2..Scopes : builder.scopes[j].extent = f.extent,
         f.target = None \/ Jumpable(builder, f.target),
         builder' = push_assign_unit(Prepared, block, dest), Then(<<f>>),
         operands' = operands, block' = block, yields' = yields
  PROVE  Kept
<1>1. Fills(builder, Prepared) BY PreparedFills
<1>2. /\ BuilderOK(Prepared) /\ block \in BlocksOf(Prepared) /\ dest \in LocalsOf(Prepared)
  BY <1>1, SameArms DEF Fills, Grows, Keeps, Common, LocalsOf
<1>3. Fills(Prepared, builder') BY <1>2, PushUnit
<1>4. Fills(builder, builder') BY <1>1, <1>3, FillsTransitive DEF Common
<1>5. /\ HasPlan(<<f>> \o Tail(todo), builder', Scopes, Loops, Len(operands), v.y, v.x)
      /\ Grows(builder, builder') /\ operands \in Seq(OperandsOf(builder'))
  BY <1>4, ExitPlanned
<1>6. todo' = <<f>> \o Tail(todo) BY DEF Then
<1> QED BY <1>5, <1>6, Stacked

LEMMA Leaves_Value ==
  ASSUME NEW v, Common(v), Rest(Scopes, Loops, Len(operands), v.y, v.x),
         At({"stmt", "into"}), NEW dest \in LocalsOf(builder), NEW f, f.do = "exit",
         \E j \in 2..Scopes : builder.scopes[j].extent = f.extent,
         f.target = None \/ Jumpable(builder, f.target),
         builder' = Prepared, NEW a, a.do = "into", a.dest = dest, Then(<<a, f>>),
         operands' = operands, block' = block, yields' = yields
  PROVE  Kept
<1>1. Fills(builder, builder') BY PreparedFills
<1>2. /\ HasPlan(<<f>> \o Tail(todo), builder', Scopes, Loops, Len(operands), v.y, v.x)
      /\ Frames(Tail(todo)) /\ Grows(builder, builder') /\ operands \in Seq(OperandsOf(builder'))
  BY <1>1, ExitPlanned
<1>3. a.dest \in LocalsOf(builder') BY <1>1 DEF Fills, LocalsOf
<1>4. todo' = <<a>> \o (<<f>> \o Tail(todo)) BY <1>2, ConsTwo DEF Then
<1>5. a.do \in {"into", "block"} OBVIOUS
<1>6. HasPlan(todo', builder', Scopes, Loops, Len(operands), v.y, v.x)
  BY <1>2, <1>3, <1>4, <1>5, PushInto
<1> QED BY <1>2, <1>6, Stacked

\* The same without a value.
LEMMA Leaves_Only ==
  ASSUME NEW v, Common(v), Rest(Scopes, Loops, Len(operands), v.y, v.x),
         At({"stmt", "into"}), NEW f, f.do = "exit",
         \E j \in 2..Scopes : builder.scopes[j].extent = f.extent,
         f.target = None \/ Jumpable(builder, f.target),
         builder' = Prepared, Then(<<f>>),
         operands' = operands, block' = block, yields' = yields
  PROVE  Kept
<1>1. Fills(builder, builder') BY PreparedFills
<1>2. /\ HasPlan(<<f>> \o Tail(todo), builder', Scopes, Loops, Len(operands), v.y, v.x)
      /\ Grows(builder, builder') /\ operands \in Seq(OperandsOf(builder'))
  BY <1>1, ExitPlanned
<1>3. todo' = <<f>> \o Tail(todo) BY DEF Then
<1> QED BY <1>2, <1>3, Stacked

LEMMA BreakExprKeeps == ASSUME NEW v, Now(v), NEW i \in 1..Loops, BreakExpr(i) PROVE Kept
<1>1. At({"stmt", "into"}) BY DEF BreakExpr
<1>2. Common(v) /\ Rest(Scopes, Loops, Len(operands), v.y, v.x) BY <1>1, Neutral DEF At
<1> DEFINE loop == builder.loop_scopes[i]
           f == Exit(loop.extent, loop.break_block)
           dest == loop.break_destination
           a == Into(dest, {})
<1>3. /\ dest \in LocalsOf(builder) /\ Jumpable(builder, loop.break_block)
      /\ \E j \in 2..Scopes : builder.scopes[j].extent = loop.extent
  BY <1>2, LoopAround
<1>4. f.do = "exit" /\ f.extent = loop.extent /\ f.target = loop.break_block BY DEF Exit
<1>5. a.do = "into" /\ a.dest = dest BY DEF Into
<1>6. operands' = operands /\ block' = block /\ yields' = yields BY DEF BreakExpr, program
<1>7. \/ builder' = push_assign_unit(Prepared, block, dest) /\ Then(<<f>>)
      \/ builder' = Prepared /\ Then(<<a, f>>)
  BY DEF BreakExpr
<1> HIDE DEF loop, f, dest, a
<1>8. \E j \in 2..Scopes : builder.scopes[j].extent = f.extent BY <1>3, <1>4
<1>9. f.target = None \/ Jumpable(builder, f.target) BY <1>3, <1>4
<1>10. CASE builder' = push_assign_unit(Prepared, block, dest) /\ Then(<<f>>)
  BY <1>1, <1>2, <1>3, <1>4, <1>6, <1>8, <1>9, <1>10, Leaves_Unit
<1>11. CASE builder' = Prepared /\ Then(<<a, f>>)
  BY <1>1, <1>2, <1>3, <1>4, <1>5, <1>6, <1>8, <1>9, <1>11, Leaves_Value
<1> QED BY <1>7, <1>10, <1>11

LEMMA ContinueExprKeeps == ASSUME NEW v, Now(v), NEW i \in 1..Loops, ContinueExpr(i) PROVE Kept
<1>1. At({"stmt", "into"}) BY DEF ContinueExpr
<1>2. Common(v) /\ Rest(Scopes, Loops, Len(operands), v.y, v.x) BY <1>1, Neutral DEF At
<1> DEFINE loop == builder.loop_scopes[i]
           f == Exit(loop.extent, loop.continue_block)
<1>3. /\ Jumpable(builder, loop.continue_block)
      /\ \E j \in 2..Scopes : builder.scopes[j].extent = loop.extent
  BY <1>2, LoopAround
<1>4. f.do = "exit" /\ f.extent = loop.extent /\ f.target = loop.continue_block BY DEF Exit
<1>5. /\ operands' = operands /\ block' = block /\ yields' = yields
      /\ builder' = Prepared /\ Then(<<f>>)
  BY DEF ContinueExpr, program
<1> HIDE DEF loop, f
<1>6. \E j \in 2..Scopes : builder.scopes[j].extent = f.extent BY <1>3, <1>4
<1>7. f.target = None \/ Jumpable(builder, f.target) BY <1>3, <1>4
<1> QED BY <1>1, <1>2, <1>4, <1>5, <1>6, <1>7, Leaves_Only

LEMMA ReturnExprKeeps == ASSUME NEW v, Now(v), ReturnExpr PROVE Kept
<1>1. At({"stmt", "into"}) BY DEF ReturnExpr
<1>2. Common(v) /\ Rest(Scopes, Loops, Len(operands), v.y, v.x) BY <1>1, Neutral DEF At
<1> DEFINE f == Exit(PARAMETERS, None)
           a == Into(RETURN_POINTER, {})
<1>3. RETURN_POINTER \in LocalsOf(builder)
  <2>1. Len(builder.local_decls) \in Nat /\ Len(builder.local_decls) >= 2
    BY <1>2, BuilderFields DEF Common, BuilderOK
  <2> QED BY <2>1 DEF LocalsOf, RETURN_POINTER
<1>4. f.do = "exit" /\ f.extent = PARAMETERS /\ f.target = None BY DEF Exit
<1>5. a.do = "into" /\ a.dest = RETURN_POINTER BY DEF Into
<1>6. operands' = operands /\ block' = block /\ yields' = yields BY DEF ReturnExpr, program
<1>7. \/ builder' = push_assign_unit(Prepared, block, RETURN_POINTER) /\ Then(<<f>>)
      \/ builder' = Prepared /\ Then(<<a, f>>)
  BY DEF ReturnExpr
<1> HIDE DEF f, a
<1>8. \E j \in 2..Scopes : builder.scopes[j].extent = f.extent
  <2>1. 2 \in 2..Scopes /\ builder.scopes[2].extent = PARAMETERS BY <1>2 DEF Common, Stands
  <2> QED BY <1>4, <2>1
<1>9. f.target = None \/ Jumpable(builder, f.target) BY <1>4
<1>10. CASE builder' = push_assign_unit(Prepared, block, RETURN_POINTER) /\ Then(<<f>>)
  BY <1>1, <1>2, <1>3, <1>4, <1>6, <1>8, <1>9, <1>10, Leaves_Unit
<1>11. CASE builder' = Prepared /\ Then(<<a, f>>)
  BY <1>1, <1>2, <1>3, <1>4, <1>5, <1>6, <1>8, <1>9, <1>11, Leaves_Value
<1> QED BY <1>7, <1>10, <1>11

\* Scopes are opened or closed.
LEMMA Restacked ==
  ASSUME NEW v, Common(v), Keeps(builder, builder'), block' = block, yields' = yields,
         operands' \in Seq(OperandsOf(builder')), NEW s, s = Len(builder'.scopes),
         HasPlan(todo', builder', s, Loops, Len(operands'), v.y, v.x)
  PROVE  Kept
<1>1. /\ BuilderOK(builder') /\ SameGraph(builder, builder')
      /\ Len(builder.local_decls) <= Len(builder'.local_decls)
      /\ builder'.asserts = builder.asserts /\ Loops = Len(builder'.loop_scopes)
  BY DEF Keeps, SameGraph, Loops
<1>2. Filling(builder', block, operands', yields, v.y, v.x) BY <1>1, FillingKept DEF Common
<1> QED BY <1>1, <1>2, Filled_StateOK DEF Kept

LEMMA KeptRest ==
  ASSUME NEW v, Common(v), NEW B2, Keeps(builder, B2), NEW n, n <= Scopes, NEW o,
         Rest(n, Loops, o, v.y, v.x),
         \A i \in 1..n : B2.scopes[i].extent = builder.scopes[i].extent
  PROVE  /\ HasPlan(Tail(todo), B2, n, Loops, o, v.y, v.x)
         /\ LocalsOf(builder) \subseteq LocalsOf(B2) /\ ScopesOf(builder) \subseteq ScopesOf(B2)
         /\ Frames(Tail(todo)) /\ operands \in Seq(OperandsOf(B2))
<1>1. BuilderOK(builder) /\ operands \in Seq(OperandsOf(builder)) /\ BuilderOK(B2)
  BY DEF Common, Keeps
<1>2. HasPlan(Tail(todo), builder, n, Loops, o, v.y, v.x) BY DEF Rest
<1>3. HasPlan(Tail(todo), B2, n, Loops, o, v.y, v.x) BY <1>1, <1>2, KeptContinues
<1>4. Frames(Tail(todo)) BY <1>3, PlanNumbers
<1>5. Len(builder.visibility_scopes) \in Nat /\ Len(B2.visibility_scopes) \in Nat
  BY <1>1, BuilderFields DEF BuilderOK
<1>6. ScopesOf(builder) \subseteq ScopesOf(B2) BY <1>5 DEF Keeps, ScopesOf
<1> QED BY <1>1, <1>3, <1>4, <1>6, OperandsKept DEF Keeps

LEMMA WholePlan ==
  ASSUME NEW v, Now(v), todo # << >>, Top.do # "arms"
  PROVE  HasPlan(todo, builder, Scopes, Loops, Len(operands), v.y, v.x)
<1>1. Common(v) /\ v \in Heights /\ v.o = Len(operands) BY Started
<1>2. StateOK(builder, block, todo, operands, yields, v) BY DEF Now
<1>3. FrameOK(Top, v, builder) BY <1>2, TopFrame DEF Top
<1>4. v.c = TRUE /\ v.s = Scopes /\ v.l = Loops BY <1>1, <1>3 DEF FrameOK, Common
<1>5. v = Level(Scopes, Loops, Len(operands), v.y, v.x)
  <2>1. v = [s |-> v.s, l |-> v.l, o |-> v.o, y |-> v.y, x |-> v.x, c |-> v.c]
    BY <1>1 DEF Heights
  <2> QED BY <1>1, <1>4, <2>1 DEF Level
<1>6. Planned(todo, builder, v) /\ Stands(v, builder) BY <1>1, <1>2 DEF StateOK, Common
<1> QED BY ONLY <1>5, <1>6, Zenon DEF HasPlan

-----------------------------------------------------------------------------
\* The frame of a block, with the scopes of the lets in it.
LEMMA InStmts ==
  ASSUME NEW v, Now(v), At({"stmts", "close"})
  PROVE  /\ Common(v) /\ StmtsFrame(Top, v, builder) /\ Top.dest \in LocalsOf(builder)
         /\ Len(Top.lets) \in Nat /\ Len(Top.lets) + 3 <= Scopes
         /\ Rest(Scopes - (1 + Len(Top.lets)), Loops, Len(operands), v.y, v.x)
<1> DEFINE f == Top
<1>1. todo # << >> /\ f.do \in {"stmts", "close"} BY DEF At
<1>2. /\ Common(v) /\ v \in Heights /\ v.o = Len(operands)
      /\ Rest(v.s - Closes(f), v.l - Ends(f), (v.o + Makes(f)) - Takes(f), v.y - Suspends(f),
              v.x \ Owned(f))
  BY <1>1, Started
<1>3. StmtsFrame(f, v, builder) /\ f.dest \in LocalsOf(builder) BY <1>1, <1>2 DEF Common, FieldsOK
<1>4. Len(f.lets) \in Nat /\ Len(f.lets) + 3 <= v.s BY <1>3 DEF StmtsFrame
<1> HIDE DEF f
<1>5. /\ Closes(f) = 1 + Len(f.lets) /\ Ends(f) = 0 /\ Makes(f) = 0 /\ Takes(f) = 0
      /\ Suspends(f) = 0 /\ Owned(f) = {}
  BY <1>1 DEF Closes, Ends, Makes, Takes, Suspends, Owned
<1>6. v.s \in Nat /\ v.l \in Nat /\ v.o \in Nat /\ v.y \in Nat /\ v.x \in SUBSET Nat
  BY <1>2 DEF Heights
<1>7. /\ v.l - Ends(f) = v.l /\ (v.o + Makes(f)) - Takes(f) = v.o
      /\ v.y - Suspends(f) = v.y /\ v.x \ Owned(f) = v.x
  BY <1>5, <1>6
<1>8. v.s = Scopes /\ v.l = Loops BY <1>2 DEF Common
<1>9. Rest(Scopes - (1 + Len(f.lets)), Loops, Len(operands), v.y, v.x) BY <1>2, <1>5, <1>7, <1>8
<1> QED BY <1>2, <1>3, <1>4, <1>8, <1>9 DEF f

LEMMA StmtsKept ==
  ASSUME NEW f, NEW v, NEW B, StmtsFrame(f, v, B), NEW u, u.s = v.s, v.s \in Nat, NEW B2,
         ScopesOf(B) \subseteq ScopesOf(B2), NEW f2, f2 = [f EXCEPT !.do = f2.do],
         \A i \in 1..v.s : B2.scopes[i].extent = B.scopes[i].extent
  PROVE  StmtsFrame(f2, u, B2) /\ f2.lets = f.lets /\ f2.dest = f.dest
<1>1. /\ f = [do |-> f.do, dest |-> f.dest, extent |-> f.extent, lets |-> f.lets,
              outer |-> f.outer, env |-> f.env]
      /\ f.lets \in Seq(Nat) /\ Len(f.lets) + 3 <= v.s
      /\ B.scopes[v.s - Len(f.lets)].extent = f.extent
      /\ \A j \in 1..Len(f.lets) : B.scopes[(v.s - Len(f.lets)) + j].extent = f.lets[j]
      /\ f.outer \in ScopesOf(B)
  BY DEF StmtsFrame
<1>2. /\ f2 = [do |-> f2.do, dest |-> f2.dest, extent |-> f2.extent, lets |-> f2.lets,
               outer |-> f2.outer, env |-> f2.env]
      /\ f2.dest = f.dest /\ f2.extent = f.extent /\ f2.lets = f.lets /\ f2.outer = f.outer
  BY <1>1
<1>3. v.s - Len(f.lets) \in 1..v.s /\ \A j \in 1..Len(f.lets) : (v.s - Len(f.lets)) + j \in 1..v.s
  <2> DEFINE n == Len(f.lets)
             k == v.s
  <2>1. n \in Nat /\ k \in Nat /\ n + 3 <= k BY <1>1
  <2> HIDE DEF n, k
  <2>2. k - n \in 1..k /\ \A j \in 1..n : (k - n) + j \in 1..k BY <2>1
  <2> QED BY <2>2 DEF n, k
<1> QED BY <1>1, <1>2, <1>3, ZenonT(60) DEF StmtsFrame

\* Another let: the scope of the rest of the block.
LEMMA StmtsExtended ==
  ASSUME NEW f, NEW v, NEW B, StmtsFrame(f, v, B), NEW u, u.s = v.s + 1, v.s \in Nat, NEW B2,
         ScopesOf(B) \subseteq ScopesOf(B2), NEW e \in Nat, B2.scopes[v.s + 1].extent = e,
         NEW f2, f2 = [f EXCEPT !.lets = Append(@, e)],
         \A i \in 1..v.s : B2.scopes[i].extent = B.scopes[i].extent
  PROVE  /\ StmtsFrame(f2, u, B2) /\ Len(f2.lets) = Len(f.lets) + 1 /\ f2.dest = f.dest
         /\ f2.do = f.do
<1>1. /\ f = [do |-> f.do, dest |-> f.dest, extent |-> f.extent, lets |-> f.lets,
              outer |-> f.outer, env |-> f.env]
      /\ f.lets \in Seq(Nat) /\ Len(f.lets) + 3 <= v.s
      /\ B.scopes[v.s - Len(f.lets)].extent = f.extent
      /\ \A j \in 1..Len(f.lets) : B.scopes[(v.s - Len(f.lets)) + j].extent = f.lets[j]
      /\ f.outer \in ScopesOf(B)
  BY DEF StmtsFrame
<1> DEFINE n == Len(f.lets)
<1>2. /\ f2 = [do |-> f2.do, dest |-> f2.dest, extent |-> f2.extent, lets |-> f2.lets,
               outer |-> f2.outer, env |-> f2.env]
      /\ f2.dest = f.dest /\ f2.extent = f.extent /\ f2.outer = f.outer /\ f2.do = f.do
      /\ f2.lets = Append(f.lets, e)
  BY <1>1
<1>3. /\ f2.lets \in Seq(Nat) /\ Len(f2.lets) = n + 1 /\ n \in Nat
      /\ f2.lets[n + 1] = e /\ \A j \in 1..n : f2.lets[j] = f.lets[j]
  BY <1>1, <1>2, AppendProperties
<1>4. v.s - n \in 1..v.s /\ \A j \in 1..n : (v.s - n) + j \in 1..v.s BY <1>1, SMTT(60)
<1>5. u.s - Len(f2.lets) = v.s - n /\ Len(f2.lets) + 3 <= u.s BY <1>1, <1>3
<1>6. ASSUME NEW j \in 1..(n + 1) PROVE B2.scopes[(v.s - n) + j].extent = f2.lets[j]
  <2>1. CASE j \in 1..n BY <1>1, <1>3, <1>4, <2>1
  <2>2. CASE j = n + 1
    <3>1. (v.s - n) + j = v.s + 1 BY <1>3, <2>2
    <3> QED BY <1>3, <2>2, <3>1
  <2> QED BY <1>3, <2>1, <2>2
<1>7. B2.scopes[v.s - n].extent = f.extent BY <1>1, <1>4
<1> HIDE DEF n
<1> HIDE DEF n
<1>8. /\ B2.scopes[u.s - Len(f2.lets)].extent = f2.extent
      /\ \A j \in 1..Len(f2.lets) : B2.scopes[(u.s - Len(f2.lets)) + j].extent = f2.lets[j]
  <2>1. Len(f2.lets) = n + 1 BY <1>3
  <2>2. \A j \in 1..Len(f2.lets) : B2.scopes[(v.s - n) + j].extent = f2.lets[j] BY <1>6, <2>1
  <2>3. f2.extent = f.extent BY <1>2
  <2> QED BY ONLY <1>5, <1>7, <2>2, <2>3
<1>9. f2.outer \in ScopesOf(B2) BY <1>1, <1>2
<1>10. StmtsFrame(f2, u, B2) BY ONLY <1>2, <1>3, <1>5, <1>8, <1>9, Zenon DEF StmtsFrame
<1> QED BY <1>2, <1>3, <1>10 DEF n

LEMMA PushStmts ==
  ASSUME NEW fs, NEW B, NEW s, NEW l, NEW o, NEW y, NEW x, HasPlan(fs, B, s, l, o, y, x), NEW f,
         f.do \in {"stmts", "close"}, f.dest \in LocalsOf(B), NEW t, t = s + (1 + Len(f.lets)),
         NEW u, u.s = t, StmtsFrame(f, u, B)
  PROVE  HasPlan(<<f>> \o fs, B, t, l, o, y, x)
<1>1. s \in Nat /\ o \in Nat BY PlanNumbers
<1>2. Len(f.lets) \in Nat BY DEF StmtsFrame
<1> DEFINE ds == 1 + Len(f.lets)
<1>3. ds \in Nat /\ Closes(f) = ds /\ Takes(f) - Makes(f) = 0 /\ Makes(f) <= o
  BY <1>1, <1>2 DEF Closes, Takes, Makes
<1>4. o + 0 = o /\ t = s + ds BY <1>1
<1>5. Level(s + ds, l, o + 0, y, x).s = u.s BY <1>4 DEF Level
<1> HIDE DEF ds
<1>6. StmtsFrame(f, Level(s + ds, l, o + 0, y, x), B) BY <1>5 DEF StmtsFrame
<1>7. FieldsOK(f, Level(s + ds, l, o + 0, y, x), B) BY <1>6 DEF FieldsOK
<1>8. HasPlan(<<f>> \o fs, B, s + ds, l, o + 0, y, x) BY <1>3, <1>7, Pushed
<1> QED BY <1>4, <1>8

LEMMA BlockExprKeeps == ASSUME NEW v, Now(v), BlockExpr PROVE Kept
<1>1. Common(v) /\ Rest(Scopes, Loops, Len(operands), v.y, v.x) BY Neutral DEF BlockExpr, At
<1> DEFINE f == InnerBlock(Top.dest)
<1>2. f.do = "block" /\ f.dest = Top.dest BY DEF InnerBlock
<1>3. Top.dest \in LocalsOf(builder) BY <1>1 DEF Common, FieldsOK, BlockExpr, At
<1>4. todo' = <<f>> \o Tail(todo) BY DEF BlockExpr, Then
<1>5. /\ operands' = operands /\ block' = block /\ yields' = yields /\ builder' = builder
  BY DEF BlockExpr, program
<1> HIDE DEF f
<1>6. f.do \in {"into", "block"} /\ f.dest \in LocalsOf(builder) BY <1>2, <1>3
<1>7. HasPlan(<<f>> \o Tail(todo), builder, Scopes, Loops, Len(operands), v.y, v.x)
  BY <1>1, <1>6, PushInto DEF Rest
<1>8. Grows(builder, builder') BY <1>1, <1>5, GrowsReflexive DEF Fills, Common
<1>9. operands \in Seq(OperandsOf(builder)) BY <1>1 DEF Common
<1> QED BY <1>1, <1>4, <1>5, <1>7, <1>8, <1>9, Stacked

LEMMA Entered ==
  ASSUME NEW v, Common(v), NEW P, P = enter_scope(builder)
  PROVE  /\ Keeps(builder, P) /\ P.extents \in Nat /\ P.visibility_scope = builder.visibility_scope
         /\ Len(P.scopes) = Scopes + 1 /\ P.scopes[Scopes + 1].extent = P.extents
         /\ \A i \in 1..Scopes : P.scopes[i].extent = builder.scopes[i].extent
BY ScopeEntered DEF Common, Scopes

LEMMA OpenBlockKeeps == ASSUME NEW v, Now(v), OpenBlock PROVE Kept
<1>1. Common(v) /\ Rest(Scopes, Loops, Len(operands), v.y, v.x) BY Neutral DEF OpenBlock, At
<1> DEFINE f == [do |-> "stmts", dest |-> Top.dest, extent |-> builder'.extents, lets |-> << >>,
                 outer |-> builder.visibility_scope, env |-> env]
<1>2. /\ builder' = enter_scope(builder) /\ todo' = <<f>> \o Tail(todo)
      /\ operands' = operands /\ block' = block /\ yields' = yields
  BY DEF OpenBlock, Then, program
<1>3. Top.dest \in LocalsOf(builder) BY <1>1 DEF Common, FieldsOK, OpenBlock, At
<1>4. /\ Keeps(builder, builder') /\ builder'.extents \in Nat
      /\ Len(builder'.scopes) = Scopes + 1
      /\ builder'.scopes[Scopes + 1].extent = builder'.extents
      /\ \A i \in 1..Scopes : builder'.scopes[i].extent = builder.scopes[i].extent
  BY <1>1, <1>2, Entered
<1>5. Scopes \in Nat /\ Scopes >= 2 /\ Scopes <= Scopes BY <1>1 DEF Common
<1>6. /\ HasPlan(Tail(todo), builder', Scopes, Loops, Len(operands), v.y, v.x)
      /\ LocalsOf(builder) \subseteq LocalsOf(builder')
      /\ ScopesOf(builder) \subseteq ScopesOf(builder')
      /\ operands \in Seq(OperandsOf(builder'))
  BY <1>1, <1>4, <1>5, KeptRest
<1>7. /\ f = [do |-> f.do, dest |-> f.dest, extent |-> f.extent, lets |-> f.lets,
              outer |-> f.outer, env |-> f.env]
      /\ f.do = "stmts" /\ f.dest = Top.dest /\ f.extent = builder'.extents /\ f.lets = << >>
      /\ f.outer = builder.visibility_scope
  OBVIOUS
<1> HIDE DEF f
<1> DEFINE u == [s |-> Scopes + 1]
<1>8. u.s = Scopes + 1 OBVIOUS
<1> HIDE DEF u
<1>9. StmtsFrame(f, u, builder')
  <2>1. Len(f.lets) = 0 /\ f.lets \in Seq(Nat) BY <1>7
  <2>2. Len(f.lets) + 3 <= u.s /\ u.s - Len(f.lets) = Scopes + 1 BY <1>5, <1>8, <2>1
  <2>3. builder'.scopes[u.s - Len(f.lets)].extent = f.extent BY <1>4, <1>7, <2>2
  <2>4. f.outer \in ScopesOf(builder') BY <1>1, <1>6, <1>7 DEF Common, BuilderOK
  <2>5. \A j \in 1..Len(f.lets) :
          builder'.scopes[(u.s - Len(f.lets)) + j].extent = f.lets[j]
    BY <2>1
  <2>6. f = [do |-> f.do, dest |-> f.dest, extent |-> f.extent, lets |-> f.lets,
             outer |-> f.outer, env |-> f.env]
    BY <1>7
  <2> QED BY ONLY <2>1, <2>2, <2>3, <2>4, <2>5, <2>6, Zenon DEF StmtsFrame
<1>10. Scopes + 1 = Scopes + (1 + Len(f.lets)) BY <1>5, <1>7
<1>11. f.do \in {"stmts", "close"} /\ f.dest \in LocalsOf(builder') BY <1>3, <1>6, <1>7
<1>12. HasPlan(<<f>> \o Tail(todo), builder', Scopes + 1, Loops, Len(operands), v.y, v.x)
  BY <1>6, <1>8, <1>9, <1>10, <1>11, PushStmts
<1> QED BY <1>1, <1>2, <1>4, <1>6, <1>12, Restacked

\* The frame of the block again, after a step that keeps its scopes.
LEMMA StmtsAgain ==
  ASSUME NEW v, Now(v), At({"stmts", "close"}), NEW B2, Keeps(builder, B2),
         \A i \in 1..Scopes : B2.scopes[i].extent = builder.scopes[i].extent,
         NEW f, f = [Top EXCEPT !.do = f.do], f.do \in {"stmts", "close"}
  PROVE  /\ Common(v) /\ operands \in Seq(OperandsOf(B2)) /\ Frames(Tail(todo))
         /\ HasPlan(<<f>> \o Tail(todo), B2, Scopes, Loops, Len(operands), v.y, v.x)
         /\ f.dest = Top.dest /\ Top.dest \in LocalsOf(builder)
         /\ LocalsOf(builder) \subseteq LocalsOf(B2)
<1> DEFINE n == Scopes - (1 + Len(Top.lets))
<1>1. /\ Common(v) /\ StmtsFrame(Top, v, builder) /\ Top.dest \in LocalsOf(builder)
      /\ Len(Top.lets) \in Nat /\ Len(Top.lets) + 3 <= Scopes
      /\ Rest(n, Loops, Len(operands), v.y, v.x)
  BY InStmts
<1>2. Scopes \in Nat /\ v.s = Scopes BY <1>1 DEF Common
<1>3. n <= Scopes /\ n \in Nat /\ Scopes = n + (1 + Len(Top.lets)) BY <1>1, <1>2
<1> HIDE DEF n
<1>4. \A i \in 1..n : B2.scopes[i].extent = builder.scopes[i].extent BY <1>2, <1>3
<1>5. /\ HasPlan(Tail(todo), B2, n, Loops, Len(operands), v.y, v.x)
      /\ LocalsOf(builder) \subseteq LocalsOf(B2) /\ ScopesOf(builder) \subseteq ScopesOf(B2)
      /\ Frames(Tail(todo)) /\ operands \in Seq(OperandsOf(B2))
  BY <1>1, <1>3, <1>4, KeptRest
<1>6. StmtsFrame(f, v, B2) /\ f.lets = Top.lets /\ f.dest = Top.dest
  BY <1>1, <1>2, <1>5, StmtsKept
<1>7. f.dest \in LocalsOf(B2) /\ Scopes = n + (1 + Len(f.lets)) BY <1>1, <1>3, <1>5, <1>6
<1>8. HasPlan(<<f>> \o Tail(todo), B2, Scopes, Loops, Len(operands), v.y, v.x)
  BY <1>2, <1>5, <1>6, <1>7, PushStmts
<1> QED BY <1>1, <1>5, <1>6, <1>8

LEMMA ExprStmtKeeps == ASSUME NEW v, Now(v), ExprStmt PROVE Kept
<1> DEFINE T == Tail(todo)
           p == Pop(builder'.extents)
<1>1. Common(v) BY InStmts DEF ExprStmt, At
<1>2. /\ builder' = enter_scope(builder) /\ todo' = <<Stmt, p, Top>> \o T
      /\ operands' = operands /\ block' = block /\ yields' = yields
  BY DEF ExprStmt, Then, program
<1>3. /\ Keeps(builder, builder') /\ Len(builder'.scopes) = Scopes + 1
      /\ builder'.scopes[Scopes + 1].extent = builder'.extents
      /\ \A i \in 1..Scopes : builder'.scopes[i].extent = builder.scopes[i].extent
  BY <1>1, <1>2, Entered
<1>4. /\ Top = [Top EXCEPT !.do = Top.do] /\ Top.do \in {"stmts", "close"}
  <2>1. Top.do = "stmts" BY DEF ExprStmt, At
  <2>2. StmtsFrame(Top, v, builder) BY InStmts DEF ExprStmt, At
  <2> QED BY <2>1, <2>2 DEF StmtsFrame
<1>5. At({"stmts", "close"}) BY DEF ExprStmt, At
<1>6. /\ operands \in Seq(OperandsOf(builder')) /\ Frames(T)
      /\ HasPlan(<<Top>> \o T, builder', Scopes, Loops, Len(operands), v.y, v.x)
  BY <1>3, <1>4, <1>5, StmtsAgain
<1>7. p.do = "pop" /\ p.extent = builder'.extents /\ Stmt.do = "stmt" BY DEF Pop, Stmt
<1> HIDE DEF T, p
<1>8. todo' = <<Stmt>> \o (<<p>> \o (<<Top>> \o T))
  <2>1. Three(T, Stmt, p, Top) BY <1>6, ConsThree
  <2> QED BY <1>2, <2>1 DEF Three
<1> DEFINE R == <<Top>> \o T
           Q == <<p>> \o R
<1> HIDE DEF R
<1>9. HasPlan(R, builder', Scopes, Loops, Len(operands), v.y, v.x) BY <1>6 DEF R
<1>10. HasPlan(Q, builder', Scopes + 1, Loops, Len(operands), v.y, v.x)
  BY <1>3, <1>7, <1>9, PushPop
<1> HIDE DEF Q
<1>11. HasPlan(<<Stmt>> \o Q, builder', Scopes + 1, Loops, Len(operands), v.y, v.x)
  <2>1. Stmt.do \in {"stmt", "body"} BY <1>7
  <2> QED BY <1>10, <2>1, PushFree
<1>12. todo' = <<Stmt>> \o Q BY <1>8 DEF Q, R
<1> QED BY <1>1, <1>2, <1>3, <1>6, <1>11, <1>12, Restacked

LEMMA FillsKeeps ==
  ASSUME NEW A, BuilderOK(A), NEW B, Keeps(A, B), NEW C, Fills(B, C) PROVE Keeps(A, C)
BY KeepsTransitive DEF Fills, Grows

\* A scope around something that only grows is closed again.
LEMMA ClosedAgain ==
  ASSUME NEW v, Common(v), NEW S, S = enter_scope(builder), NEW T, Grows(S, T),
         NEW P, P = pop_scope(T, block, S.extents)
  PROVE  Grows(builder, P)
<1>1. /\ Keeps(builder, S) /\ Len(S.scopes) = Scopes + 1
      /\ S.scopes[Scopes + 1].extent = S.extents
      /\ \A i \in 1..Scopes : S.scopes[i].extent = builder.scopes[i].extent
  BY Entered
<1>2. Scopes \in Nat /\ block \in BlocksOf(builder) /\ BuilderOK(builder) BY DEF Common
<1>3. /\ BuilderOK(T) /\ Len(T.scopes) = Scopes + 1
      /\ \A i \in 1..(Scopes + 1) : T.scopes[i].extent = S.scopes[i].extent
  BY <1>1 DEF Grows, Keeps, SameScopes
<1>4. Keeps(builder, T) BY <1>1, <1>2, KeepsTransitive DEF Grows
<1>5. block \in BlocksOf(T) BY <1>2, <1>4, SameArms DEF Keeps
<1>6. T.scopes # << >> /\ T.scopes[Len(T.scopes)].extent = S.extents
  <2>1. T.scopes[Scopes + 1].extent = S.extents BY <1>1, <1>2, <1>3
  <2> QED BY <1>2, <1>3, <2>1
<1>7. /\ Keeps(T, P) /\ Len(P.scopes) = Len(T.scopes) - 1
      /\ \A i \in 1..(Len(T.scopes) - 1) : P.scopes[i].extent = T.scopes[i].extent
  <2>1. P = pop_scope(T, block, S.extents) OBVIOUS
  <2>2. BuilderOK(T) BY <1>3
  <2>3. T.scopes # << >> /\ T.scopes[Len(T.scopes)].extent = S.extents BY <1>6
  <2> QED BY ONLY <1>5, <2>1, <2>2, <2>3, ScopePopped
<1>8. Keeps(builder, P) BY <1>2, <1>4, <1>7, KeepsTransitive
<1>9. Len(P.scopes) = Scopes BY <1>2, <1>3, <1>7
<1>10. \A i \in 1..Scopes : P.scopes[i].extent = builder.scopes[i].extent
  <2> TAKE i \in 1..Scopes
  <2>1. i \in 1..(Scopes + 1) /\ i \in 1..(Len(T.scopes) - 1) BY <1>2, <1>3
  <2> QED BY <1>1, <1>3, <1>7, <2>1
<1> QED BY <1>8, <1>9, <1>10 DEF Grows, SameScopes, Scopes

LEMMA MacStmtKeeps == ASSUME NEW v, Now(v), MacStmt PROVE Kept
<1> DEFINE S == enter_scope(builder)
           T == temp(S, block)
           U == push(T, block, MacroStmt)
           W == push_assign_unit(U, block, NextLocal(S))
<1>1. /\ builder' = pop_scope(W, block, S.extents) /\ todo' = todo /\ operands' = operands
      /\ block' = block /\ yields' = yields
  BY DEF MacStmt, program
<1>2. todo # << >> /\ Top.do # "arms" BY DEF MacStmt, At
<1>3. Common(v) BY <1>2, Started
<1>4. Keeps(builder, S) /\ BuilderOK(S) /\ S.scopes # << >> /\ block \in BlocksOf(S)
  <2>1. Keeps(builder, S) /\ S.scopes # << >> BY <1>3, ScopeEntered DEF Common
  <2>2. block \in BlocksOf(S) BY <1>3, <2>1, SameArms DEF Keeps, Common
  <2> QED BY <2>1, <2>2 DEF Keeps
<1> HIDE DEF S
<1>5. Grows(S, T) /\ NextLocal(S) \in LocalsOf(T) BY <1>4, TempGrows
<1> HIDE DEF T
<1>6. BuilderOK(T) /\ block \in BlocksOf(T) BY <1>4, <1>5, SameArms DEF Grows, Keeps
<1>7. Fills(T, U)
  <2>1. MacroStmt \in AnyStatement /\ StmtFits(MacroStmt, Len(T.local_decls))
    <3>1. MacroStmt \in AnyStatement BY DEF MacroStmt, AnyStatement, StmtOps
    <3>2. StmtFits(MacroStmt, Len(T.local_decls)) BY DEF MacroStmt, StmtFits
    <3> QED BY <3>1, <3>2
  <2>2. T.visibility_scope \in Nat BY <1>6, BuilderFields DEF BuilderOK
  <2> QED BY <1>6, <2>1, <2>2, PushAt DEF push
<1> HIDE DEF U
<1>8. BuilderOK(U) /\ block \in BlocksOf(U) /\ NextLocal(S) \in LocalsOf(U)
  <2>1. BuilderOK(U) /\ block \in BlocksOf(U) BY <1>6, <1>7, SameArms DEF Fills, Grows, Keeps
  <2> QED BY <1>5, <1>7, <2>1 DEF Fills, LocalsOf
<1>9. Fills(U, W) BY <1>8, PushUnit
<1> HIDE DEF W
<1>10. Grows(S, W)
  <2>1. Grows(T, U) /\ Grows(U, W) BY <1>7, <1>9 DEF Fills
  <2>2. Grows(S, U) BY <1>4, <1>5, <2>1, GrowsTransitive
  <2> QED BY <1>4, <2>1, <2>2, GrowsTransitive
<1>11. Grows(builder, builder') BY <1>1, <1>3, <1>10, ClosedAgain DEF S
<1>12. HasPlan(todo, builder, Scopes, Loops, Len(operands), v.y, v.x) BY <1>2, WholePlan
<1>13. HasPlan(todo, builder', Scopes, Loops, Len(operands), v.y, v.x)
  BY <1>3, <1>11, <1>12, GrownContinues DEF Common, Scopes
<1>14. operands \in Seq(OperandsOf(builder'))
  BY <1>3, <1>11, OperandsKept DEF Common, Grows, Keeps
<1> QED BY <1>1, <1>3, <1>11, <1>13, <1>14, Stacked

LEMMA PopScopeKeeps == ASSUME NEW v, Now(v), PopScope PROVE Kept
<1>1. todo # << >> /\ Top.do = "pop" BY DEF PopScope, At
<1> DEFINE f == Top
<1>2. /\ Common(v) /\ v \in Heights /\ v.o = Len(operands)
      /\ Rest(v.s - Closes(f), v.l - Ends(f), (v.o + Makes(f)) - Takes(f), v.y - Suspends(f),
              v.x \ Owned(f))
  BY <1>1, Started
<1>3. v.s >= 3 /\ builder.scopes[v.s].extent = f.extent BY <1>1, <1>2 DEF Common, FieldsOK
<1>4. /\ builder' = pop_scope(builder, block, f.extent) /\ todo' = << >> \o Tail(todo)
      /\ operands' = operands /\ block' = block /\ yields' = yields
  BY DEF PopScope, Then, program
<1>5. /\ Closes(f) = 1 /\ Ends(f) = 0 /\ Makes(f) = 0 /\ Takes(f) = 0 /\ Suspends(f) = 0
      /\ Owned(f) = {}
  BY <1>1 DEF Closes, Ends, Makes, Takes, Suspends, Owned
<1> HIDE DEF f
<1>6. v.s \in Nat /\ v.l \in Nat /\ v.o \in Nat /\ v.y \in Nat /\ v.x \in SUBSET Nat
  BY <1>2 DEF Heights
<1>7. /\ v.l - Ends(f) = v.l /\ (v.o + Makes(f)) - Takes(f) = v.o
      /\ v.y - Suspends(f) = v.y /\ v.x \ Owned(f) = v.x /\ v.s - Closes(f) = v.s - 1
  BY <1>5, <1>6
<1>8. v.s = Scopes /\ v.l = Loops BY <1>2 DEF Common
<1>9. Rest(Scopes - 1, Loops, Len(operands), v.y, v.x) BY <1>2, <1>7, <1>8
<1>10. builder.scopes[Len(builder.scopes)].extent = f.extent BY <1>3, <1>8 DEF Scopes
<1>11. /\ Keeps(builder, builder') /\ Len(builder'.scopes) = Scopes - 1
       /\ \A i \in 1..(Scopes - 1) : builder'.scopes[i].extent = builder.scopes[i].extent
  BY <1>2, <1>4, <1>10, ScopePopped DEF Common, Scopes
<1>12. Scopes - 1 <= Scopes BY <1>6, <1>8
<1>13. /\ HasPlan(Tail(todo), builder', Scopes - 1, Loops, Len(operands), v.y, v.x)
       /\ operands \in Seq(OperandsOf(builder'))
  BY <1>2, <1>9, <1>11, <1>12, KeptRest
<1>14. todo' = Tail(todo) BY <1>4, <1>9, RestFrames
<1> QED BY <1>2, <1>4, <1>11, <1>13, <1>14, Restacked

-----------------------------------------------------------------------------
\* let.
Five(T, a, b, c, d, e) ==
  <<a, b, c, d, e>> \o T = <<a>> \o (<<b>> \o (<<c>> \o (<<d>> \o (<<e>> \o T))))

LEMMA ConsFive ==
  ASSUME NEW T, Frames(T), NEW a, NEW b, NEW c, NEW d, NEW e PROVE Five(T, a, b, c, d, e)
<1>1. PICK S : T \in Seq(S) BY DEF Frames
<1> DEFINE U == S \union {a, b, c, d, e}
<1>2. T \in Seq(U) /\ <<b, c, d, e>> \in Seq(U) /\ <<a>> \in Seq(U) BY <1>1
<1>3. <<a, b, c, d, e>> = <<a>> \o <<b, c, d, e>> OBVIOUS
<1>4. <<a, b, c, d, e>> \o T = <<a>> \o (<<b, c, d, e>> \o T)
  <2> DEFINE p == <<a>>
             q == <<b, c, d, e>>
             r == <<a, b, c, d, e>>
  <2>1. p \in Seq(U) /\ q \in Seq(U) /\ T \in Seq(U) /\ r = p \o q BY <1>2, <1>3
  <2> HIDE DEF p, q, r, U
  <2>2. r \o T = p \o (q \o T) BY <2>1, ConcatAssociative
  <2> QED BY <2>2 DEF p, q, r
<1>5. Four(T, b, c, d, e) BY ConsFour
<1> QED BY <1>4, <1>5 DEF Four, Five

LEMMA PatternNames ==
  ASSUME NEW names \in LetPatterns
  PROVE  names \in Seq(AllNames) /\ ("let_wild" \notin Forms => Len(names) >= 1)
<1>1. CASE \E n \in Names : names = <<n>> BY <1>1 DEF AllNames
<1>2. CASE \E p \in Names \X Names : names = p
  <2>1. PICK a \in Names, b \in Names : names = <<a, b>> BY <1>2
  <2> QED BY <2>1 DEF AllNames
<1>3. CASE "let_wild" \in Forms /\ names = << >> BY <1>3
<1> QED BY <1>1, <1>2, <1>3 DEF LetPatterns

\* The scope of the rest of the block, with the bindings of the let.
LEMMA LetDeclared ==
  ASSUME NEW v, Common(v), NEW names \in Seq(AllNames), NEW R, R = enter_scope(builder),
         NEW D, D = declare_bindings(R, block, names)
  PROVE  /\ Declares(R, D, Len(names)) /\ R.extents \in Nat
         /\ Keeps(builder, D.b) /\ Len(D.b.scopes) = Scopes + 1
         /\ D.b.scopes[Scopes + 1].extent = R.extents
         /\ \A i \in 1..Scopes : D.b.scopes[i].extent = builder.scopes[i].extent
<1>1. /\ Keeps(builder, R) /\ R.extents \in Nat
      /\ Len(R.scopes) = Scopes + 1 /\ R.scopes[Scopes + 1].extent = R.extents
      /\ \A i \in 1..Scopes : R.scopes[i].extent = builder.scopes[i].extent
  BY Entered
<1>2. R.scopes # << >> BY ScopeEntered DEF Common
<1>3. BuilderOK(R) /\ block \in BlocksOf(R) BY <1>1, SameArms DEF Keeps, Common
<1>4. Declares(R, D, Len(names)) BY <1>2, <1>3, BindingsDeclared
<1>5. Grows(R, D.b) BY <1>4 DEF Declares
<1>6. Keeps(builder, D.b) BY <1>1, <1>5, KeepsTransitive DEF Grows, Common
<1>7. Scopes \in Nat BY DEF Common
<1>8. /\ Len(D.b.scopes) = Scopes + 1
      /\ \A i \in 1..(Scopes + 1) : D.b.scopes[i].extent = R.scopes[i].extent
  BY <1>1, <1>5 DEF Grows, SameScopes
<1>9. Scopes + 1 \in 1..(Scopes + 1) /\ \A i \in 1..Scopes : i \in 1..(Scopes + 1) BY <1>7
<1> QED BY <1>1, <1>4, <1>6, <1>8, <1>9

\* The two last frames of a let.
LEMMA LetPlanned ==
  ASSUME NEW v, Now(v), At({"stmts"}), NEW names \in Seq(AllNames),
         NEW R, R = enter_scope(builder), NEW D, D = declare_bindings(R, block, names),
         NEW B2, Keeps(D.b, B2),
         \A i \in 1..(Scopes + 1) : B2.scopes[i].extent = D.b.scopes[i].extent,
         NEW enter, enter.do = "enter", enter.scope = D.scope,
         NEW rest, rest = [Top EXCEPT !.lets = Append(@, R.extents)]
  PROVE  /\ Keeps(builder, B2) /\ D.locals \in Seq(LocalsOf(B2)) /\ Len(D.locals) = Len(names)
         /\ operands \in Seq(OperandsOf(B2)) /\ Frames(Tail(todo))
         /\ HasPlan(<<enter>> \o (<<rest>> \o Tail(todo)), B2, Scopes + 1, Loops, Len(operands),
                    v.y, v.x)
<1> DEFINE n == Scopes - (1 + Len(Top.lets))
           T == Tail(todo)
<1>1. /\ Common(v) /\ StmtsFrame(Top, v, builder) /\ Top.dest \in LocalsOf(builder)
      /\ Len(Top.lets) \in Nat /\ Len(Top.lets) + 3 <= Scopes /\ Top.do = "stmts"
      /\ Rest(n, Loops, Len(operands), v.y, v.x)
  BY InStmts DEF At
<1>2. /\ Declares(R, D, Len(names)) /\ R.extents \in Nat
      /\ Keeps(builder, D.b) /\ Len(D.b.scopes) = Scopes + 1
      /\ D.b.scopes[Scopes + 1].extent = R.extents
      /\ \A i \in 1..Scopes : D.b.scopes[i].extent = builder.scopes[i].extent
  BY <1>1, LetDeclared
<1>3. Scopes \in Nat /\ v.s = Scopes BY <1>1 DEF Common
<1>4. n <= Scopes /\ n \in Nat /\ Scopes = n + (1 + Len(Top.lets)) BY <1>1, <1>3
<1>5. Keeps(builder, B2) BY <1>1, <1>2, KeepsTransitive DEF Common
<1>6. /\ B2.scopes[Scopes + 1].extent = R.extents
      /\ \A i \in 1..Scopes : B2.scopes[i].extent = builder.scopes[i].extent
  <2>1. Scopes + 1 \in 1..(Scopes + 1) /\ \A i \in 1..Scopes : i \in 1..(Scopes + 1) BY <1>3
  <2> QED BY <1>2, <2>1
<1> HIDE DEF n
<1>7. \A i \in 1..n : B2.scopes[i].extent = builder.scopes[i].extent BY <1>3, <1>4, <1>6
<1>8. /\ HasPlan(T, B2, n, Loops, Len(operands), v.y, v.x)
      /\ LocalsOf(builder) \subseteq LocalsOf(B2) /\ ScopesOf(builder) \subseteq ScopesOf(B2)
      /\ Frames(T) /\ operands \in Seq(OperandsOf(B2))
  BY <1>1, <1>4, <1>5, <1>7, KeptRest
<1> DEFINE u == [s |-> Scopes + 1]
<1>9. u.s = Scopes + 1 OBVIOUS
<1> HIDE DEF u
<1>10. /\ StmtsFrame(rest, u, B2) /\ Len(rest.lets) = Len(Top.lets) + 1
       /\ rest.dest = Top.dest /\ rest.do = Top.do
  <2>1. R.extents \in Nat /\ B2.scopes[v.s + 1].extent = R.extents BY <1>2, <1>3, <1>6
  <2>2. u.s = v.s + 1 /\ v.s \in Nat BY <1>3, <1>9
  <2>3. \A i \in 1..v.s : B2.scopes[i].extent = builder.scopes[i].extent BY <1>3, <1>6
  <2>4. StmtsFrame(Top, v, builder) /\ ScopesOf(builder) \subseteq ScopesOf(B2) BY <1>1, <1>8
  <2> QED BY <2>1, <2>2, <2>3, <2>4, StmtsExtended, SMTT(60)
<1>11. Scopes + 1 = n + (1 + Len(rest.lets)) BY <1>1, <1>3, <1>4, <1>10
<1>12. rest.do \in {"stmts", "close"} /\ rest.dest \in LocalsOf(B2) BY <1>1, <1>8, <1>10
<1> HIDE DEF T
<1> DEFINE Q == <<rest>> \o T
<1>13. HasPlan(Q, B2, Scopes + 1, Loops, Len(operands), v.y, v.x)
  <2>1. HasPlan(T, B2, n, Loops, Len(operands), v.y, v.x) BY <1>8
  <2>2. StmtsFrame(rest, u, B2) BY <1>10
  <2>3. HasPlan(<<rest>> \o T, B2, Scopes + 1, Loops, Len(operands), v.y, v.x)
    BY ONLY <1>9, <1>11, <1>12, <2>1, <2>2, PushStmts
  <2> QED BY <2>3
<1> HIDE DEF Q
<1>14. BuilderOK(D.b) /\ BuilderOK(B2) /\ D.locals \in Seq(LocalsOf(D.b))
  BY <1>2 DEF Declares, Grows, Keeps
<1>15. D.locals \in Seq(LocalsOf(B2)) /\ ScopesOf(D.b) \subseteq ScopesOf(B2)
  <2>1. /\ Len(D.b.local_decls) \in Nat /\ Len(B2.local_decls) \in Nat
        /\ Len(D.b.visibility_scopes) \in Nat /\ Len(B2.visibility_scopes) \in Nat
    BY <1>14, BuilderFields DEF BuilderOK
  <2>2. LocalsOf(D.b) \subseteq LocalsOf(B2) /\ ScopesOf(D.b) \subseteq ScopesOf(B2)
    BY <2>1 DEF Keeps, LocalsOf, ScopesOf
  <2> QED BY <1>14, <2>2, SeqMonotonic
<1>16. enter.scope \in {None} \union ScopesOf(B2) BY <1>2, <1>15 DEF Declares
<1>17. HasPlan(<<enter>> \o Q, B2, Scopes + 1, Loops, Len(operands), v.y, v.x)
  BY <1>13, <1>16, PushEnter
<1>18. Len(D.locals) = Len(names) BY <1>2 DEF Declares
<1> QED BY <1>5, <1>8, <1>15, <1>17, <1>18 DEF Q, T

LEMMA LetStmtKeeps == ASSUME NEW v, Now(v), NEW names \in LetPatterns, LetStmt(names) PROVE Kept
<1> DEFINE T == Tail(todo)
           R == enter_scope(builder)
           D == declare_bindings(R, block, names)
           S == enter_scope(D.b)
           enter == [do |-> "enter", scope |-> D.scope, names |-> names, locals |-> D.locals]
           rest == [Top EXCEPT !.lets = Append(@, R.extents)]
           into == Into(D.locals[1], {})
           pop == Pop(S.extents)
           lvalue == [do |-> "lvalue"]
           pat == [do |-> "let_pat", locals |-> D.locals]
           P == <<enter>> \o (<<rest>> \o T)
<1>1. At({"stmts"}) /\ At({"stmts", "close"}) BY DEF LetStmt, At
<1>2. names \in Seq(AllNames) /\ ("let_wild" \notin Forms => Len(names) >= 1) BY PatternNames
<1>3. Common(v) /\ Scopes \in Nat /\ Len(operands) \in Nat BY <1>1, InStmts DEF Common
<1>4. operands' = operands /\ block' = block /\ yields' = yields BY DEF LetStmt, program
<1>5. enter.do = "enter" /\ enter.scope = D.scope OBVIOUS
<1>6. \/ /\ Len(names) = 1 /\ builder' = storage_live(S, block, D.locals)
         /\ todo' = <<into, pop, enter, rest>> \o T
      \/ builder' = S /\ todo' = <<lvalue, pat, pop, enter, rest>> \o T
      \/ builder' = storage_live(D.b, block, D.locals) /\ todo' = <<enter, rest>> \o T
  BY DEF LetStmt, Then
<1>7. into.do = "into" /\ into.dest = D.locals[1] /\ pop.do = "pop" /\ pop.extent = S.extents
  BY DEF Into, Pop
<1>8. lvalue.do = "lvalue" /\ pat.do = "let_pat" /\ pat.locals = D.locals OBVIOUS
<1> HIDE DEF R, D, enter, rest, into, pop, lvalue, pat
<1>9. /\ Declares(R, D, Len(names)) /\ Keeps(builder, D.b) /\ Len(D.b.scopes) = Scopes + 1
  BY <1>2, <1>3, LetDeclared DEF R, D
<1>10. BuilderOK(D.b) /\ block \in BlocksOf(D.b) /\ D.locals \in Seq(LocalsOf(D.b))
  BY <1>3, <1>9, SameArms DEF Keeps, Common, Declares
<1>11. /\ Keeps(D.b, S) /\ Len(S.scopes) = Scopes + 2 /\ S.scopes[Scopes + 2].extent = S.extents
       /\ \A i \in 1..(Scopes + 1) : S.scopes[i].extent = D.b.scopes[i].extent
       /\ Len(S.local_decls) = Len(D.b.local_decls)
  <2>1. /\ Keeps(D.b, S) /\ Len(S.scopes) = Len(D.b.scopes) + 1
        /\ S.scopes[Len(D.b.scopes) + 1].extent = S.extents
        /\ \A i \in 1..Len(D.b.scopes) : S.scopes[i].extent = D.b.scopes[i].extent
        /\ Len(S.local_decls) = Len(D.b.local_decls)
    BY <1>10, ScopeEntered
  <2>2. Len(D.b.scopes) + 1 = Scopes + 2 BY <1>3, <1>9
  <2> HIDE DEF S
  <2> QED BY <1>9, <2>1, <2>2
<1> HIDE DEF S
\* With the frames of the let in place.
<1>12. ASSUME NEW B2, Keeps(D.b, B2),
              \A i \in 1..(Scopes + 1) : B2.scopes[i].extent = D.b.scopes[i].extent
       PROVE  /\ Keeps(builder, B2) /\ D.locals \in Seq(LocalsOf(B2)) /\ Len(D.locals) = Len(names)
              /\ operands \in Seq(OperandsOf(B2)) /\ Frames(T)
              /\ HasPlan(P, B2, Scopes + 1, Loops, Len(operands), v.y, v.x)
  BY <1>1, <1>2, <1>5, <1>12, LetPlanned DEF R, D, rest
<1> HIDE DEF P
<1>13. Frames(T)
  <2>1. Keeps(D.b, D.b) BY <1>10, GrowsReflexive DEF Fills, Grows
  <2> QED BY <1>12, <2>1
<1> HIDE DEF T
<1>14. ASSUME Len(names) = 1, builder' = storage_live(S, block, D.locals),
              todo' = <<into, pop, enter, rest>> \o T
       PROVE  Kept
  <2>1. Fills(S, builder')
    <3>1. BuilderOK(S) /\ block \in BlocksOf(S) BY <1>10, <1>11, SameArms DEF Keeps
    <3>2. D.locals \in Seq(LocalsOf(S)) BY <1>10, <1>11 DEF LocalsOf
    <3> QED BY <1>14, <3>1, <3>2, StorageIsLive
  <2>2. Keeps(D.b, builder') /\ builder'.scopes = S.scopes
    BY <1>10, <1>11, <2>1, FillsKeeps DEF Fills
  <2>3. \A i \in 1..(Scopes + 1) : builder'.scopes[i].extent = D.b.scopes[i].extent
    BY <1>11, <2>2
  <2>4. /\ Keeps(builder, builder') /\ D.locals \in Seq(LocalsOf(builder'))
        /\ Len(D.locals) = Len(names) /\ operands \in Seq(OperandsOf(builder'))
        /\ HasPlan(P, builder', Scopes + 1, Loops, Len(operands), v.y, v.x)
    BY <1>12, <2>2, <2>3
  <2> DEFINE Q == <<pop>> \o P
  <2>5. HasPlan(Q, builder', (Scopes + 1) + 1, Loops, Len(operands), v.y, v.x)
    <3>1. builder'.scopes[(Scopes + 1) + 1].extent = pop.extent BY <1>3, <1>7, <1>11, <2>2
    <3> QED BY <1>7, <2>4, <3>1, PushPop
  <2> HIDE DEF Q
  <2>6. into.dest \in LocalsOf(builder') /\ into.do \in {"into", "block"}
    BY <1>7, <1>14, <2>4
  <2>7. HasPlan(<<into>> \o Q, builder', (Scopes + 1) + 1, Loops, Len(operands), v.y, v.x)
    BY <2>5, <2>6, PushInto
  <2>8. todo' = <<into>> \o Q 
    <3>1. Four(T, into, pop, enter, rest) BY <1>13, ConsFour
    <3> QED BY <1>14, <3>1 DEF Q, P, Four
  <2>9. (Scopes + 1) + 1 = Len(builder'.scopes) BY <1>3, <1>11, <2>2
  <2> QED BY <1>3, <1>4, <2>4, <2>7, <2>8, <2>9, Restacked
<1>15. ASSUME builder' = S, todo' = <<lvalue, pat, pop, enter, rest>> \o T
       PROVE  Kept
  <2>1. /\ Keeps(builder, builder') /\ D.locals \in Seq(LocalsOf(builder'))
        /\ Len(D.locals) = Len(names) /\ operands \in Seq(OperandsOf(builder'))
        /\ HasPlan(P, builder', Scopes + 1, Loops, Len(operands), v.y, v.x)
    BY <1>11, <1>12, <1>15
  <2> DEFINE Q == <<pop>> \o P
             W == <<pat>> \o Q
  <2>2. HasPlan(Q, builder', (Scopes + 1) + 1, Loops, Len(operands), v.y, v.x)
    <3>1. builder'.scopes[(Scopes + 1) + 1].extent = pop.extent BY <1>3, <1>7, <1>11, <1>15
    <3> QED BY <1>7, <2>1, <3>1, PushPop
  <2> HIDE DEF Q
  <2>3. HasPlan(W, builder', (Scopes + 1) + 1, Loops, Len(operands) + 1, v.y, v.x)
    <3>1. pat.locals \in Seq(LocalsOf(builder')) /\ ("let_wild" \notin Forms => pat.locals # << >>)
      BY <1>2, <1>8, <2>1
    <3> QED BY <1>8, <2>2, <3>1, PushTakes
  <2> HIDE DEF W
  <2>4. HasPlan(<<lvalue>> \o W, builder', (Scopes + 1) + 1, Loops, Len(operands), v.y, v.x)
    <3>1. Len(operands) \in Nat /\ lvalue.do \in {"operand", "rvalue", "lvalue"} BY <1>3, <1>8
    <3> QED BY <2>3, <3>1, PushOperand
  <2>5. todo' = <<lvalue>> \o W 
    <3>1. Five(T, lvalue, pat, pop, enter, rest) BY <1>13, ConsFive
    <3> QED BY <1>15, <3>1 DEF W, Q, P, Five
  <2>6. (Scopes + 1) + 1 = Len(builder'.scopes) BY <1>3, <1>11, <1>15
  <2> QED BY <1>3, <1>4, <2>1, <2>4, <2>5, <2>6, Restacked
<1>16. ASSUME builder' = storage_live(D.b, block, D.locals), todo' = <<enter, rest>> \o T
       PROVE  Kept
  <2>1. Fills(D.b, builder') BY <1>10, <1>16, StorageIsLive
  <2>2. Keeps(D.b, builder') /\ builder'.scopes = D.b.scopes BY <2>1 DEF Fills, Grows
  <2>3. /\ Keeps(builder, builder') /\ operands \in Seq(OperandsOf(builder'))
        /\ HasPlan(P, builder', Scopes + 1, Loops, Len(operands), v.y, v.x)
    BY <1>12, <2>2
  <2>4. todo' = P BY <1>13, <1>16, ConsTwo DEF P
  <2> QED BY <1>3, <1>4, <1>9, <2>2, <2>3, <2>4, Restacked
<1> QED BY <1>6, <1>14, <1>15, <1>16

\* Only the fields of a builder that are not about its graph change.
LEMMA Adjusted ==
  ASSUME NEW B, BuilderOK(B), NEW p \in BOOLEAN, NEW scope \in ScopesOf(B), NEW B2,
         B2 = [B EXCEPT !.visibility_scope = scope] \/ B2 = [B EXCEPT !.asserts = p]
  PROVE  /\ BuilderOK(B2) /\ SameGraph(B, B2) /\ B2.local_decls = B.local_decls
         /\ B2.scopes = B.scopes /\ B2.visibility_scopes = B.visibility_scopes
         /\ B2.basic_blocks = B.basic_blocks
         /\ B2 = [B EXCEPT !.visibility_scope = scope] => Keeps(B, B2)
<1>1. B \in Builders /\ scope \in Nat
  <2>1. B \in Builders BY DEF BuilderOK
  <2> QED BY <2>1, BuilderFields DEF ScopesOf
<1>2. /\ B2 \in Builders /\ B2.basic_blocks = B.basic_blocks /\ B2.local_decls = B.local_decls
      /\ B2.scopes = B.scopes /\ B2.visibility_scopes = B.visibility_scopes
      /\ B2.cached_return_block = B.cached_return_block /\ B2.loop_scopes = B.loop_scopes
      /\ B2.visibility_scope \in ScopesOf(B)
  <2>1. B.visibility_scope \in ScopesOf(B) BY DEF BuilderOK
  <2> QED BY <1>1, <2>1 DEF Builders
<1>3. SameGraph(B, B2) BY <1>2 DEF SameGraph, TermOf, BlocksOf
<1>4. Filled(B2) BY <1>2 DEF BuilderOK, Filled, BlocksOf, StmtsOf
<1>5. Scheduled(B2) BY <1>2 DEF BuilderOK, Scheduled, LocalsOf
<1>6. B2.visibility_scope \in ScopesOf(B2) BY <1>2 DEF ScopesOf
<1>7. Len(B.local_decls) <= Len(B2.local_decls)
      /\ Len(B.visibility_scopes) <= Len(B2.visibility_scopes)
  BY <1>1, <1>2, BuilderFields
<1>8. BuilderOK(B2)
  BY ONLY BuilderOK(B), <1>2, <1>3, <1>4, <1>5, <1>6, <1>7, SameGraphOK
<1>9. ASSUME B2 = [B EXCEPT !.visibility_scope = scope] PROVE Keeps(B, B2)
  <2>1. B2.asserts = B.asserts BY <1>1, <1>9 DEF Builders
  <2> QED BY <1>3, <1>7, <1>8, <2>1 DEF Keeps
<1> QED BY <1>2, <1>3, <1>8, <1>9

\* The same, when another visibility scope is entered.
LEMMA Rescoped ==
  ASSUME NEW B, BuilderOK(B), NEW scope \in ScopesOf(B), NEW B2,
         B2 = [B EXCEPT !.visibility_scope = scope]
  PROVE  Keeps(B, B2) /\ B2.scopes = B.scopes /\ B2.local_decls = B.local_decls
<1>1. TRUE \in BOOLEAN OBVIOUS
<1> QED BY <1>1, Adjusted

LEMMA LetPatternKeeps == ASSUME NEW v, Now(v), LetPattern PROVE Kept
<1>1. /\ Common(v) /\ Rest(Scopes, Loops, Len(operands) - 1, v.y, v.x)
      /\ Last(operands).moved \in SUBSET LocalsOf(builder)
      /\ Last(operands).read \in SUBSET LocalsOf(builder)
      /\ Front(operands) \in Seq(OperandsOf(builder)) /\ Len(Front(operands)) = Len(operands) - 1
  BY Taking DEF LetPattern, At
<1> DEFINE o == Last(operands)
           L == storage_live(builder, block, Top.locals)
           st == [Write(ToSet(Top.locals), o.moved \union o.read, {}) EXCEPT !.op = "Let"]
           U == push(L, block, st)
           p == U.asserts /\ Top.locals # << >>
<1>2. /\ builder' = [U EXCEPT !.asserts = p] /\ operands' = Front(operands)
      /\ block' = block /\ yields' = yields /\ todo' = << >> \o Tail(todo)
  BY DEF LetPattern, Then, program
<1>3. /\ Top.locals \in Seq(LocalsOf(builder))
      /\ "let_wild" \notin Forms => Top.locals # << >>
  BY <1>1 DEF Common, FieldsOK, LetPattern, At
<1>4. Fills(builder, L) BY <1>1, <1>3, StorageIsLive DEF Common
<1>5. BuilderOK(L) /\ block \in BlocksOf(L) /\ LocalsOf(L) = LocalsOf(builder)
  BY <1>1, <1>4, SameArms DEF Common, Fills, Grows, Keeps, LocalsOf
<1>6. st \in AnyStatement /\ StmtFits(st, Len(L.local_decls))
  <2>1. st = [op |-> "Let", to |-> ToSet(Top.locals), moved |-> o.moved \union o.read, read |-> {}]
    BY DEF Write
  <2>2. ToSet(Top.locals) \subseteq LocalsOf(L) BY <1>3, <1>5 DEF ToSet
  <2>3. o.moved \union o.read \subseteq LocalsOf(L) BY <1>1, <1>5
  <2>4. LocalsOf(L) \subseteq Nat BY DEF LocalsOf
  <2>5. "Let" \in StmtOps BY DEF StmtOps
  <2> HIDE DEF st, o, L
  <2>6. st \in AnyStatement BY <2>1, <2>2, <2>3, <2>4, <2>5 DEF AnyStatement
  <2>7. StmtFits(st, Len(L.local_decls)) BY <2>1, <2>2, <2>3 DEF StmtFits, LocalsOf
  <2> QED BY <2>6, <2>7
<1>7. L.visibility_scope \in Nat BY <1>5, BuilderFields DEF BuilderOK
<1> HIDE DEF L, st, o
<1>8. Fills(L, U) BY <1>5, <1>6, <1>7, PushAt DEF push
<1>9. Fills(builder, U) BY <1>1, <1>4, <1>8, FillsTransitive DEF Common
<1>10. BuilderOK(U) /\ U.asserts \in BOOLEAN /\ U.visibility_scope \in ScopesOf(U)
  BY <1>9, BuilderFields DEF Fills, Grows, Keeps, BuilderOK
<1> HIDE DEF U
<1>11. p \in BOOLEAN BY <1>10
<1> HIDE DEF p
<1>12. /\ BuilderOK(builder') /\ SameGraph(U, builder') /\ builder'.local_decls = U.local_decls
       /\ builder'.scopes = U.scopes /\ builder'.visibility_scopes = U.visibility_scopes
  BY <1>2, <1>10, <1>11, Adjusted
<1>13. SameGraph(builder, builder') BY <1>9, <1>12 DEF Fills, Grows, Keeps, SameGraph, BlocksOf
<1>14. builder'.local_decls = builder.local_decls /\ builder'.scopes = builder.scopes
       /\ builder'.visibility_scopes = builder.visibility_scopes
  BY <1>9, <1>12 DEF Fills
<1>15. "let_wild" \notin Forms /\ builder.asserts => builder'.asserts
  <2>1. U.asserts = builder.asserts BY <1>9 DEF Fills, Grows, Keeps
  <2>2. builder'.asserts = p BY <1>2, <1>10 DEF BuilderOK, Builders
  <2> QED BY <1>3, <2>1, <2>2 DEF p
<1>16. Len(builder.local_decls) <= Len(builder'.local_decls)
  <2>1. Len(builder.local_decls) \in Nat BY <1>1, BuilderFields DEF Common, BuilderOK
  <2> QED BY <1>14, <2>1
<1>17. operands' \in Seq(OperandsOf(builder')) BY <1>1, <1>2, <1>14 DEF OperandsOf, LocalsOf
<1>18. Filling(builder', block, operands', yields, v.y, v.x)
  BY <1>1, <1>12, <1>13, <1>15, <1>16, <1>17, FillingKept DEF Common
<1>19. todo' = Tail(todo) BY <1>1, <1>2, RestFrames
<1>20. HasPlan(Tail(todo), builder', Scopes, Loops, Len(operands) - 1, v.y, v.x)
  <2> DEFINE w == Level(Scopes, Loops, Len(operands) - 1, v.y, v.x)
  <2> HIDE DEF w
  <2>1. Continues(builder, builder', w)
    BY <1>13, <1>14, SameArms DEF Continues, SameGraph, LocalsOf, ScopesOf
  <2> QED BY <1>1, <2>1, Continued DEF Rest, w
<1>21. Scopes = Len(builder'.scopes) /\ Loops = Len(builder'.loop_scopes)
  BY <1>13, <1>14 DEF Scopes, Loops, SameGraph
<1>22. Len(operands') = Len(operands) - 1 BY <1>1, <1>2
<1> QED BY <1>2, <1>18, <1>19, <1>20, <1>21, <1>22, Filled_StateOK DEF Kept

LEMMA EnterVisibilityKeeps == ASSUME NEW v, Now(v), EnterVisibility PROVE Kept
<1>1. Common(v) /\ Rest(Scopes, Loops, Len(operands), v.y, v.x)
  BY Neutral DEF EnterVisibility, At
<1>2. /\ builder' = IF Top.scope = None THEN builder
                    ELSE [builder EXCEPT !.visibility_scope = Top.scope]
      /\ operands' = operands /\ block' = block /\ yields' = yields /\ Then(<< >>)
  BY DEF EnterVisibility
<1>3. Top.scope \in {None} \union ScopesOf(builder)
  BY <1>1 DEF Common, FieldsOK, EnterVisibility, At
<1>4. Grows(builder, builder')
  <2>1. CASE Top.scope = None BY <1>1, <1>2, <2>1, GrowsReflexive DEF Fills, Common
  <2>2. CASE Top.scope # None
    <3>1. builder' = [builder EXCEPT !.visibility_scope = Top.scope] BY <1>2, <2>2
    <3>2. Top.scope \in ScopesOf(builder) BY <1>3, <2>2
    <3>3. Keeps(builder, builder') /\ builder'.scopes = builder.scopes
      BY <1>1, <3>1, <3>2, Adjusted DEF Common
    <3> QED BY <3>3 DEF Grows, SameScopes
  <2> QED BY <2>1, <2>2
<1>5. operands \in Seq(OperandsOf(builder'))
  BY <1>1, <1>4, OperandsKept DEF Common, Grows, Keeps
<1> QED BY <1>1, <1>2, <1>4, <1>5, Consumed

LEMMA FinishBlockKeeps == ASSUME NEW v, Now(v), FinishBlock PROVE Kept
<1> DEFINE T == Tail(todo)
           f == [Top EXCEPT !.do = "close"]
           a == Into(Top.dest, {})
<1>1. At({"stmts", "close"}) /\ Top.do = "stmts" BY DEF FinishBlock, At
<1>2. /\ \/ builder' = builder /\ todo' = (<<a>> \o <<f>>) \o T
         \/ builder' = push_assign_unit(builder, block, Top.dest) /\ todo' = <<f>> \o T
      /\ operands' = operands /\ block' = block /\ yields' = yields
  BY DEF FinishBlock, Then, program
<1>3. Common(v) /\ Top.dest \in LocalsOf(builder) /\ StmtsFrame(Top, v, builder) BY <1>1, InStmts
<1>4. f = [Top EXCEPT !.do = f.do] /\ f.do \in {"stmts", "close"}
  <2>1. f.do = "close" BY <1>3 DEF StmtsFrame
  <2> QED BY <2>1
<1>5. a.do \in {"into", "block"} /\ a.dest = Top.dest BY DEF Into
<1> HIDE DEF T, f, a
<1>6. Fills(builder, builder')
  <2>1. CASE builder' = builder BY <1>3, <2>1, GrowsReflexive DEF Common
  <2>2. CASE builder' = push_assign_unit(builder, block, Top.dest)
    BY <1>3, <2>2, PushUnit DEF Common
  <2> QED BY <1>2, <2>1, <2>2
<1>7. /\ Grows(builder, builder') /\ Keeps(builder, builder')
      /\ \A i \in 1..Scopes : builder'.scopes[i].extent = builder.scopes[i].extent
  BY <1>6 DEF Fills, Grows
<1> DEFINE Q == <<f>> \o T
<1>8. /\ operands \in Seq(OperandsOf(builder')) /\ Frames(T)
      /\ HasPlan(Q, builder', Scopes, Loops, Len(operands), v.y, v.x)
      /\ Top.dest \in LocalsOf(builder')
  BY <1>1, <1>4, <1>7, StmtsAgain DEF T
<1>9. HasPlan(todo', builder', Scopes, Loops, Len(operands), v.y, v.x)
  <2>1. CASE todo' = Q BY <1>8, <2>1
  <2>2. CASE todo' = (<<a>> \o <<f>>) \o T
    <3>1. todo' = <<a>> \o Q
      <4>1. PICK S : T \in Seq(S) BY <1>8 DEF Frames
      <4> DEFINE U == S \union {a, f}
      <4>2. T \in Seq(U) /\ <<a>> \in Seq(U) /\ <<f>> \in Seq(U) BY <4>1
      <4> QED BY <2>2, <4>2, ConcatAssociative
    <3> HIDE DEF Q
    <3>2. a.dest \in LocalsOf(builder') BY <1>5, <1>8
    <3>3. HasPlan(<<a>> \o Q, builder', Scopes, Loops, Len(operands), v.y, v.x)
      BY <1>5, <1>8, <3>2, PushInto
    <3> QED BY <3>1, <3>3
  <2> QED BY <1>2, <2>1, <2>2
<1> QED BY <1>2, <1>3, <1>7, <1>8, <1>9, Stacked

\* The scopes of the lets are popped, the latest first.
ClosedLets(B, P, n) ==
  /\ Keeps(B, P) /\ Len(P.scopes) = Len(B.scopes) - n
  /\ \A i \in 1..(Len(B.scopes) - n) : P.scopes[i].extent = B.scopes[i].extent

LEMMA LetClosed ==
  ASSUME NEW v, NEW f, NEW B, StmtsFrame(f, v, B), BuilderOK(B), v.s = Len(B.scopes),
         NEW b \in BlocksOf(B), NEW n \in Nat, n < Len(f.lets), NEW P, ClosedLets(B, P, n),
         NEW P2, P2 = pop_scope(P, b, f.lets[Len(f.lets) + 1 - (n + 1)])
  PROVE  ClosedLets(B, P2, n + 1)
<1> DEFINE k == Len(f.lets)
           s == Len(B.scopes)
<1>1. /\ k \in Nat /\ s \in Nat /\ k + 3 <= s
      /\ \A j \in 1..k : B.scopes[(s - k) + j].extent = f.lets[j]
  BY BuilderFields DEF StmtsFrame, BuilderOK
<1>2. /\ Keeps(B, P) /\ BuilderOK(P) /\ Len(P.scopes) = s - n
      /\ \A i \in 1..(s - n) : P.scopes[i].extent = B.scopes[i].extent
  BY DEF ClosedLets, Keeps
<1>3. b \in BlocksOf(P) BY <1>2, SameArms DEF Keeps
<1> HIDE DEF k, s
<1>4. k - n \in 1..k /\ (s - k) + (k - n) = s - n /\ s - n \in 1..(s - n) BY <1>1 DEF k
<1>5. P.scopes[s - n].extent = f.lets[k - n]
  <2>1. B.scopes[(s - k) + (k - n)].extent = f.lets[k - n] BY <1>1, <1>4
  <2>2. P.scopes[s - n].extent = B.scopes[s - n].extent BY <1>2, <1>4
  <2> QED BY <1>4, <2>1, <2>2
<1>6. k + 1 - (n + 1) = k - n BY <1>1
<1>7. P2 = pop_scope(P, b, f.lets[k - n])
  <2>1. P2 = pop_scope(P, b, f.lets[k + 1 - (n + 1)]) BY DEF k
  <2> QED BY <1>6, <2>1
<1>8. P.scopes # << >> BY <1>2, <1>4
<1>9. P.scopes[Len(P.scopes)].extent = f.lets[k - n] BY <1>2, <1>5
<1>10. /\ Keeps(P, P2) /\ Len(P2.scopes) = Len(P.scopes) - 1
       /\ \A i \in 1..(Len(P.scopes) - 1) : P2.scopes[i].extent = P.scopes[i].extent
  <2> DEFINE e == f.lets[k - n]
  <2>1. P2 = pop_scope(P, b, e) /\ P.scopes[Len(P.scopes)].extent = e BY <1>7, <1>9
  <2>2. BuilderOK(P) BY <1>2
  <2> HIDE DEF e
  <2> QED BY ONLY <1>3, <1>8, <2>1, <2>2, ScopePopped
<1>11. Keeps(B, P2) BY <1>2, <1>10, KeepsTransitive
<1>12. Len(P2.scopes) = s - (n + 1) BY <1>1, <1>2, <1>10
<1>13. ASSUME NEW i \in 1..(s - (n + 1)) PROVE P2.scopes[i].extent = B.scopes[i].extent
  <2>1. i \in 1..(s - n) /\ i \in 1..(Len(P.scopes) - 1) BY <1>1, <1>2
  <2> QED BY <1>2, <1>10, <2>1
<1> QED BY <1>11, <1>12, <1>13 DEF ClosedLets, s

LEMMA LetsClosed ==
  ASSUME NEW v, Common(v), StmtsFrame(Top, v, builder), CloseBlock
  PROVE  \E P : /\ ClosedLets(builder, P, Len(Top.lets))
                /\ builder' = pop_scope([P EXCEPT !.visibility_scope = Top.outer], block, Top.extent)
<1> DEFINE k == Len(Top.lets)
           Round(P, n) == pop_scope(P, block, Top.lets[k + 1 - n])
           Rounds(g, m) == g = [n \in 0..m |-> IF n = 0 THEN builder ELSE Round(g[n - 1], n)]
           T == {m \in Nat : \E g : Rounds(g, m)}
<1>1. k \in Nat BY DEF StmtsFrame
<1>2. 0 \in T
  <2>1. Rounds([n \in 0..0 |-> builder], 0) OBVIOUS
  <2> QED BY <2>1
<1>3. ASSUME NEW m \in Nat, m \in T PROVE m + 1 \in T
  <2>1. PICK g : Rounds(g, m) BY <1>3
  <2> DEFINE h == [n \in 0..(m + 1) |-> IF n <= m THEN g[n] ELSE Round(g[n - 1], n)]
  <2> HIDE DEF Round
  <2>2. ASSUME NEW n \in 0..(m + 1), n # 0 PROVE h[n] = Round(h[n - 1], n)
    <3>1. n - 1 \in 0..m /\ h[n - 1] = g[n - 1] BY <2>2
    <3>2. CASE n <= m
      <4>1. n \in 0..m /\ h[n] = g[n] BY <3>2
      <4> QED BY <2>1, <2>2, <3>1, <4>1
    <3>3. CASE ~(n <= m) BY <3>1, <3>3
    <3> QED BY <3>2, <3>3
  <2>3. h[0] = builder BY <2>1
  <2>4. Rounds(h, m + 1)
    <3> DEFINE r == [n \in 0..(m + 1) |-> IF n = 0 THEN builder ELSE Round(h[n - 1], n)]
    <3>1. \A n \in 0..(m + 1) : h[n] = r[n] BY <2>2, <2>3
    <3>2. h = [n \in 0..(m + 1) |-> h[n]] OBVIOUS
    <3> HIDE DEF h
    <3> QED BY <3>1, <3>2
  <2> HIDE DEF Rounds, h
  <2> QED BY <2>4
<1>4. \E g : /\ Rounds(g, k)
             /\ builder' = pop_scope([g[k] EXCEPT !.visibility_scope = Top.outer], block, Top.extent)
  <2>1. Nat \subseteq T
    <3> HIDE DEF T
    <3> QED BY <1>2, <1>3, Induction
  <2>2. \E g : Rounds(g, k) BY <1>1, <2>1
  <2> QED BY <2>2 DEF CloseBlock
<1>5. PICK g : /\ Rounds(g, k)
               /\ builder' = pop_scope([g[k] EXCEPT !.visibility_scope = Top.outer], block, Top.extent)
  BY <1>4
<1> DEFINE U == {m \in Nat : m <= k => ClosedLets(builder, g[m], m)}
<1>6. ClosedLets(builder, g[k], k)
  <2>1. 0 \in U
    <3>1. g[0] = builder
      <4> HIDE DEF Round
      <4> QED BY <1>1, <1>5
    <3>2. Keeps(builder, builder) BY GrowsReflexive DEF Common, Fills, Grows
    <3>3. ClosedLets(builder, builder, 0) BY <3>2 DEF ClosedLets, Common, Scopes
    <3> QED BY <3>1, <3>3
  <2>2. ASSUME NEW m \in Nat, m \in U PROVE m + 1 \in U
    <3> SUFFICES ASSUME m + 1 <= k PROVE ClosedLets(builder, g[m + 1], m + 1) OBVIOUS
    <3>1. m + 1 \in 0..k /\ (m + 1) - 1 = m /\ m + 1 # 0 /\ m <= k /\ m < k BY <1>1
    <3>2. g[m + 1] = Round(g[m], m + 1)
      <4> HIDE DEF Round
      <4> QED BY <1>5, <3>1
    <3>3. ClosedLets(builder, g[m], m) BY <2>2, <3>1
    <3> QED BY <3>1, <3>2, <3>3, LetClosed DEF Common, Scopes
  <2> HIDE DEF U
  <2>3. Nat \subseteq U BY <2>1, <2>2, Induction
  <2> QED BY <1>1, <2>3 DEF U
<1> QED BY <1>5, <1>6

LEMMA CloseBlockKeeps == ASSUME NEW v, Now(v), CloseBlock PROVE Kept
<1> DEFINE k == Len(Top.lets)
           n == Scopes - (1 + k)
<1>1. At({"stmts", "close"}) BY DEF CloseBlock, At
<1>2. /\ Common(v) /\ StmtsFrame(Top, v, builder) /\ k \in Nat /\ k + 3 <= Scopes
      /\ Rest(n, Loops, Len(operands), v.y, v.x)
  BY <1>1, InStmts
<1>3. PICK P : /\ ClosedLets(builder, P, k)
               /\ builder' = pop_scope([P EXCEPT !.visibility_scope = Top.outer], block, Top.extent)
  BY <1>2, LetsClosed
<1>4. /\ operands' = operands /\ block' = block /\ yields' = yields /\ todo' = << >> \o Tail(todo)
  BY DEF CloseBlock, Then
<1>5. /\ v.s = Scopes /\ Scopes \in Nat /\ BuilderOK(builder) /\ block \in BlocksOf(builder)
      /\ operands \in Seq(OperandsOf(builder))
  BY <1>2 DEF Common
<1>6. builder.scopes[Scopes - k].extent = Top.extent /\ Top.outer \in ScopesOf(builder)
  BY <1>2, <1>5 DEF StmtsFrame
<1> HIDE DEF k
<1>7. /\ Keeps(builder, P) /\ BuilderOK(P) /\ Len(P.scopes) = Scopes - k
      /\ \A i \in 1..(Scopes - k) : P.scopes[i].extent = builder.scopes[i].extent
      /\ Top.outer \in ScopesOf(P)
  <2>1. /\ Keeps(builder, P) /\ BuilderOK(P) /\ Len(P.scopes) = Scopes - k
        /\ \A i \in 1..(Scopes - k) : P.scopes[i].extent = builder.scopes[i].extent
    BY <1>3 DEF ClosedLets, Keeps, Scopes
  <2>2. Len(builder.visibility_scopes) \in Nat /\ Len(P.visibility_scopes) \in Nat
    BY <1>5, <2>1, BuilderFields DEF BuilderOK
  <2>3. Top.outer \in ScopesOf(P) BY <1>6, <2>1, <2>2 DEF Keeps, ScopesOf
  <2> QED BY <2>1, <2>3
<1> DEFINE Q == [P EXCEPT !.visibility_scope = Top.outer]
<1>8. Keeps(P, Q) /\ BuilderOK(Q) /\ Q.scopes = P.scopes
  <2>1. TRUE \in BOOLEAN OBVIOUS
  <2> QED BY <1>7, <2>1, Adjusted
<1>9. builder' = pop_scope(Q, block, Top.extent) BY <1>3
<1> HIDE DEF Q
<1>10. Keeps(builder, Q) BY <1>5, <1>7, <1>8, KeepsTransitive
<1>11. block \in BlocksOf(Q) BY <1>5, <1>10, SameArms DEF Keeps
<1>12. Scopes - k \in Nat /\ Scopes - k >= 3 /\ n = (Scopes - k) - 1 BY <1>2, <1>5
<1>13. Q.scopes # << >> /\ Q.scopes[Len(Q.scopes)].extent = Top.extent
  <2>1. Scopes - k \in 1..(Scopes - k) BY <1>12
  <2>2. Len(Q.scopes) = Scopes - k BY <1>7, <1>8
  <2> QED BY <1>6, <1>7, <1>8, <1>12, <2>1, <2>2
<1>14. /\ Keeps(Q, builder') /\ Len(builder'.scopes) = Len(Q.scopes) - 1
       /\ \A i \in 1..(Len(Q.scopes) - 1) : builder'.scopes[i].extent = Q.scopes[i].extent
  BY ONLY <1>8, <1>9, <1>11, <1>13, ScopePopped, SMTT(60)
<1>15. Keeps(builder, builder') BY <1>5, <1>10, <1>14, KeepsTransitive
<1>16. Len(builder'.scopes) = n /\ n <= Scopes
  <2>1. Len(Q.scopes) = Scopes - k BY <1>7, <1>8
  <2> QED BY <1>2, <1>5, <1>12, <1>14, <2>1
<1>17. ASSUME NEW i \in 1..n PROVE builder'.scopes[i].extent = builder.scopes[i].extent
  <2>1. i \in 1..(Scopes - k) /\ i \in 1..(Len(Q.scopes) - 1) BY <1>7, <1>8, <1>12
  <2> QED BY <1>7, <1>8, <1>14, <2>1
<1> HIDE DEF n
<1>18. /\ HasPlan(Tail(todo), builder', n, Loops, Len(operands), v.y, v.x)
       /\ operands \in Seq(OperandsOf(builder')) /\ Frames(Tail(todo))
  BY <1>2, <1>15, <1>16, <1>17, KeptRest
<1>19. todo' = Tail(todo) BY <1>4, <1>18, ConsNone
<1> QED BY <1>2, <1>4, <1>15, <1>16, <1>18, <1>19, Restacked

-----------------------------------------------------------------------------
\* Any frame but the ones that leave no current block, in front of a plan.
LEMMA PushAny ==
  ASSUME NEW fs, NEW B, NEW s, NEW l, NEW o, NEW y, NEW x, HasPlan(fs, B, s, l, o, y, x), NEW f,
         f.do \notin {"arms", "arm_end", "epilogue"},
         NEW s2, NEW l2, NEW o2, NEW y2, NEW x2, NEW w, w = Level(s2, l2, o2, y2, x2),
         Stands(w, B), FieldsOK(f, w, B), o2 >= Takes(f), Closes(f) \in Nat,
         s2 - Closes(f) = s, l2 - Ends(f) = l, (o2 + Makes(f)) - Takes(f) = o,
         y2 - Suspends(f) = y, x2 \ Owned(f) = x, Owned(f) \subseteq x2
  PROVE  HasPlan(<<f>> \o fs, B, s2, l2, o2, y2, x2)
<1> DEFINE u == Level(s, l, o, y, x)
<1>1. w.s = s2 /\ w.l = l2 /\ w.o = o2 /\ w.y = y2 /\ w.x = x2 /\ w.c = TRUE BY DEF Level
<1>2. Planned(fs, B, u) /\ s >= 2 BY PlanNumbers DEF HasPlan
<1>3. After(f, w) = u BY <1>1 DEF After, Level
<1>4. w \in Heights /\ s2 \in Nat BY <1>1 DEF Stands, Heights
<1>5. FrameOK(f, w, B)
  <2>1. s2 >= Closes(f) + 2 BY <1>2, <1>4
  <2>2. w.c = (f.do # "arms") BY <1>1
  <2>3. w.o >= Takes(f) /\ Owned(f) \subseteq w.x /\ w.s >= Closes(f) + 2 BY <1>1, <2>1
  <2> QED BY <2>2, <2>3 DEF FrameOK
<1> HIDE DEF u
<1>6. Planned(<<f>> \o fs, B, w) BY <1>2, <1>3, <1>4, <1>5, PlanPush
<1> QED BY <1>6 DEF HasPlan

LEMMA PushSuspend ==
  ASSUME NEW fs, NEW B, NEW s, NEW l, NEW o, NEW y, NEW x, HasPlan(fs, B, s, l, o, y, x), NEW f,
         f.do = "suspend", f.dest \in LocalsOf(B)
  PROVE  HasPlan(<<f>> \o fs, B, s, l, o + 1, y + 1, x)
<1>1. s \in Nat /\ s >= 2 /\ l \in Nat /\ o \in Nat /\ y \in Nat /\ x \in SUBSET Nat BY PlanNumbers
<1>2. /\ Closes(f) = 0 /\ Ends(f) = 0 /\ Makes(f) = 0 /\ Takes(f) = 1 /\ Suspends(f) = 1
      /\ Owned(f) = {}
  BY DEF Closes, Ends, Makes, Takes, Suspends, Owned
<1> DEFINE u == Level(s, l, o, y, x)
           w == Level(s, l, o + 1, y + 1, x)
<1>3. Stands(w, B)
  <2>1. /\ u.s = s /\ u.l = l /\ w.s = s /\ w.l = l
        /\ w = [s |-> s, l |-> l, o |-> o + 1, y |-> y + 1, x |-> x, c |-> TRUE]
    BY DEF Level
  <2>2. Stands(u, B) BY DEF HasPlan
  <2> HIDE DEF u, w
  <2>3. w \in Heights BY <1>1, <2>1 DEF Heights
  <2> QED BY <2>1, <2>2, <2>3 DEF Stands, Encloses
<1>4. FieldsOK(f, w, B) BY DEF FieldsOK
<1>5. /\ o + 1 >= Takes(f) /\ s - Closes(f) = s /\ l - Ends(f) = l /\ Closes(f) \in Nat
      /\ ((o + 1) + Makes(f)) - Takes(f) = o /\ (y + 1) - Suspends(f) = y
      /\ x \ Owned(f) = x /\ Owned(f) \subseteq x
  BY <1>1, <1>2
<1>6. f.do \notin {"arms", "arm_end", "epilogue"} OBVIOUS
<1> HIDE DEF w
<1>7. w = Level(s, l, o + 1, y + 1, x) BY DEF w
<1> QED BY ONLY HasPlan(fs, B, s, l, o, y, x), <1>3, <1>4, <1>5, <1>6, <1>7, PushAny

\* An operand first, and then the frame that takes it.
LEMMA AsksOperand ==
  ASSUME NEW v, Common(v), Rest(Scopes, Loops, Len(operands), v.y, v.x), NEW f,
         f.do \in {"then", "match"}, f.dest \in LocalsOf(builder), Then(<<Operand, f>>),
         builder' = builder, operands' = operands, block' = block, yields' = yields
  PROVE  Kept
<1> DEFINE T == Tail(todo)
           Q == <<f>> \o T
<1>1. Frames(T) BY RestFrames
<1>2. Operand.do \in {"operand", "rvalue", "lvalue"} BY DEF Operand
<1>3. todo' = <<Operand>> \o Q BY <1>1, ConsTwo DEF Then
<1>4. HasPlan(Q, builder, Scopes, Loops, Len(operands) + 1, v.y, v.x) BY PushTakes DEF Rest
<1> HIDE DEF Q
<1>5. Len(operands) \in Nat BY DEF Common
<1>6. HasPlan(<<Operand>> \o Q, builder, Scopes, Loops, Len(operands), v.y, v.x)
  BY <1>2, <1>4, <1>5, PushOperand
<1>7. Grows(builder, builder') BY GrowsReflexive DEF Common, Fills
<1> QED BY <1>3, <1>6, <1>7, Stacked DEF Common

LEMMA IfExprKeeps == ASSUME NEW v, Now(v), IfExpr PROVE Kept
<1> DEFINE f == [do |-> "then", dest |-> Top.dest]
<1>1. Common(v) /\ Rest(Scopes, Loops, Len(operands), v.y, v.x) BY Neutral DEF IfExpr, At
<1>2. Top.dest \in LocalsOf(builder) BY <1>1 DEF Common, FieldsOK, IfExpr, At
<1>3. f.do \in {"then", "match"} /\ f.dest = Top.dest OBVIOUS
<1>4. /\ Then(<<Operand, f>>) /\ builder' = builder /\ operands' = operands /\ block' = block
      /\ yields' = yields
  BY DEF IfExpr, program
<1> HIDE DEF f
<1> QED BY <1>1, <1>2, <1>3, <1>4, AsksOperand

LEMMA MatchExprKeeps == ASSUME NEW v, Now(v), MatchExpr PROVE Kept
<1> DEFINE f == [do |-> "match", dest |-> Top.dest]
<1>1. Common(v) /\ Rest(Scopes, Loops, Len(operands), v.y, v.x) BY Neutral DEF MatchExpr, At
<1>2. Top.dest \in LocalsOf(builder) BY <1>1 DEF Common, FieldsOK, MatchExpr, At
<1>3. f.do \in {"then", "match"} /\ f.dest = Top.dest OBVIOUS
<1>4. /\ Then(<<Operand, f>>) /\ builder' = builder /\ operands' = operands /\ block' = block
      /\ yields' = yields
  BY DEF MatchExpr, program
<1> HIDE DEF f
<1> QED BY <1>1, <1>2, <1>3, <1>4, AsksOperand

LEMMA LoopBodyKeeps == ASSUME NEW v, Now(v), LoopBody PROVE Kept
<1>1. Common(v) /\ Rest(Scopes, Loops, Len(operands), v.y, v.x) BY Neutral DEF LoopBody, At
<1>2. builder' = temp(builder, block) BY DEF LoopBody
<1>3. Grows(builder, builder') /\ NextLocal(builder) \in LocalsOf(builder')
  BY <1>1, <1>2, TempGrows DEF Common
<1> DEFINE f == InnerBlock(NextLocal(builder))
<1>4. f.do = "block" /\ f.dest = NextLocal(builder) BY DEF InnerBlock
<1>5. todo' = <<f>> \o Tail(todo) BY DEF LoopBody, Then
<1> HIDE DEF f
<1>6. /\ HasPlan(Tail(todo), builder', Scopes, Loops, Len(operands), v.y, v.x)
      /\ operands \in Seq(OperandsOf(builder'))
  BY <1>1, <1>3, GrownRest
<1>7. HasPlan(todo', builder', Scopes, Loops, Len(operands), v.y, v.x)
  BY <1>3, <1>4, <1>5, <1>6, PushInto
<1>8. operands' = operands /\ block' = block /\ yields' = yields BY DEF LoopBody, program
<1> QED BY <1>1, <1>3, <1>6, <1>7, <1>8, Stacked

LEMMA SuspendExprKeeps == ASSUME NEW v, Now(v), SuspendExpr PROVE Kept
<1> DEFINE T == Tail(todo)
           f == [do |-> "suspend", dest |-> Top.dest]
           Q == <<f>> \o T
<1>1. Common(v) /\ Rest(Scopes, Loops, Len(operands), v.y, v.x) BY Neutral DEF SuspendExpr, At
<1>2. Top.dest \in LocalsOf(builder) BY <1>1 DEF Common, FieldsOK, SuspendExpr, At
<1>3. f.do = "suspend" /\ f.dest = Top.dest OBVIOUS
<1>4. /\ Then(<<Operand, f>>) /\ builder' = builder /\ operands' = operands /\ block' = block
      /\ yields' = yields + 1
  BY DEF SuspendExpr
<1> HIDE DEF f
<1>5. Frames(T) BY <1>1, RestFrames
<1>6. Operand.do \in {"operand", "rvalue", "lvalue"} BY DEF Operand
<1>7. todo' = <<Operand>> \o Q BY <1>4, <1>5, ConsTwo DEF Then
<1>8. HasPlan(Q, builder, Scopes, Loops, Len(operands) + 1, v.y + 1, v.x)
  BY <1>1, <1>2, <1>3, PushSuspend DEF Rest
<1> HIDE DEF Q
<1>9. Len(operands) \in Nat /\ v.y \in Nat
  BY <1>1, PlanNumbers DEF Common, Rest
<1>10. HasPlan(<<Operand>> \o Q, builder, Scopes, Loops, Len(operands), v.y + 1, v.x)
  BY <1>6, <1>8, <1>9, PushOperand
<1>11. Filling(builder, block, operands, yields + 1, v.y + 1, v.x)
  <2>1. Filling(builder, block, operands, yields, v.y, v.x) BY <1>1 DEF Common
  <2>2. Cardinality(Suspended(builder)) \in Nat BY <1>1, SuspendedFinite DEF Common
  <2>3. ASSUME "yield_rvalue" \notin Forms
        PROVE  yields + 1 = Cardinality(Suspended(builder)) + (v.y + 1)
    <3>1. yields = Cardinality(Suspended(builder)) + v.y BY <2>1, <2>3 DEF Filling
    <3> QED BY <1>9, <2>2, <3>1
  <2> QED BY <2>1, <2>3 DEF Filling
<1>12. HasPlan(todo', builder', Scopes, Loops, Len(operands), v.y + 1, v.x) BY <1>4, <1>7, <1>10
<1>13. Filling(builder', block', operands', yields', v.y + 1, v.x) BY <1>4, <1>11
<1>14. Scopes = Len(builder'.scopes) /\ Loops = Len(builder'.loop_scopes)
       /\ Len(operands) = Len(operands')
  BY <1>4 DEF Scopes, Loops
<1> QED BY <1>12, <1>13, <1>14, Filled_StateOK DEF Kept

LEMMA CallExprKeeps == ASSUME NEW v, Now(v), CallExpr PROVE Kept
<1> DEFINE T == Tail(todo)
           f == [do |-> "call", dest |-> Top.dest]
           Q == <<f>> \o T
           R == <<Rvalue>> \o Q
<1>1. Common(v) /\ Rest(Scopes, Loops, Len(operands), v.y, v.x) BY Neutral DEF CallExpr, At
<1>2. Top.dest \in LocalsOf(builder) BY <1>1 DEF Common, FieldsOK, CallExpr, At
<1>3. f.do = "call" /\ f.dest = Top.dest OBVIOUS
<1>4. /\ Then(<<Operand, Rvalue, f>>) /\ builder' = builder /\ operands' = operands
      /\ block' = block /\ yields' = yields
  BY DEF CallExpr, program
<1> HIDE DEF f
<1>5. Frames(T) BY <1>1, RestFrames
<1>6. Operand.do \in {"operand", "rvalue", "lvalue"} /\ Rvalue.do \in {"operand", "rvalue", "lvalue"}
  BY DEF Operand, Rvalue
<1>7. todo' = <<Operand>> \o R
  <2>1. todo' = <<Operand, Rvalue, f>> \o T BY <1>4 DEF Then
  <2>2. Three(T, Operand, Rvalue, f) BY <1>5, ConsThree
  <2> QED BY <2>1, <2>2 DEF Three
<1>8. HasPlan(Q, builder, Scopes, Loops, Len(operands) + 2, v.y, v.x)
  BY <1>1, <1>2, <1>3, PushCall DEF Rest
<1> HIDE DEF Q
<1>9. /\ Len(operands) \in Nat /\ Len(operands) + 1 \in Nat
      /\ Len(operands) + 2 = (Len(operands) + 1) + 1
  BY <1>1 DEF Common
<1>10. HasPlan(R, builder, Scopes, Loops, Len(operands) + 1, v.y, v.x)
  <2> DEFINE p == Len(operands) + 1
  <2>1. p \in Nat /\ HasPlan(Q, builder, Scopes, Loops, p + 1, v.y, v.x) BY <1>8, <1>9
  <2> HIDE DEF p
  <2>2. HasPlan(<<Rvalue>> \o Q, builder, Scopes, Loops, p, v.y, v.x) BY <1>6, <2>1, PushOperand
  <2> QED BY <2>2 DEF p
<1> HIDE DEF R
<1>11. HasPlan(<<Operand>> \o R, builder, Scopes, Loops, Len(operands), v.y, v.x)
  BY <1>6, <1>9, <1>10, PushOperand
<1>12. Grows(builder, builder') BY <1>1, <1>4, GrowsReflexive DEF Common, Fills
<1> QED BY <1>1, <1>4, <1>7, <1>11, <1>12, Stacked DEF Common

LEMMA CallKeeps == ASSUME NEW v, Now(v), Call PROVE Kept
<1> DEFINE f == Top
           n == Len(operands)
<1>1. todo # << >> /\ f.do = "call" BY DEF Call, At
<1>2. /\ Common(v) /\ v \in Heights /\ v.o = n /\ v.o >= Takes(f)
      /\ Rest(v.s - Closes(f), v.l - Ends(f), (v.o + Makes(f)) - Takes(f), v.y - Suspends(f),
              v.x \ Owned(f))
  BY <1>1, Started
<1>3. /\ Closes(f) = 0 /\ Ends(f) = 0 /\ Makes(f) = 0 /\ Takes(f) = 2 /\ Suspends(f) = 0
      /\ Owned(f) = {}
  BY <1>1 DEF Closes, Ends, Makes, Takes, Suspends, Owned
<1>4. f.dest \in LocalsOf(builder) BY <1>1, <1>2 DEF Common, FieldsOK
<1> DEFINE a == operands[n - 1]
           b == operands[n]
<1>5. /\ builder' = push(builder, block, Write({f.dest}, a.moved \union b.moved, a.read \union b.read))
      /\ operands' = SubSeq(operands, 1, n - 2) /\ block' = block /\ yields' = yields /\ Then(<< >>)
  BY DEF Call, program
<1> HIDE DEF f
<1>6. v.s \in Nat /\ v.l \in Nat /\ v.o \in Nat /\ v.y \in Nat /\ v.x \in SUBSET Nat
  BY <1>2 DEF Heights
<1>7. /\ v.s - Closes(f) = v.s /\ v.l - Ends(f) = v.l /\ (v.o + Makes(f)) - Takes(f) = n - 2
      /\ v.y - Suspends(f) = v.y /\ v.x \ Owned(f) = v.x /\ n >= 2
  BY <1>2, <1>3, <1>6
<1>8. v.s = Scopes /\ v.l = Loops BY <1>2 DEF Common
<1>9. Rest(Scopes, Loops, n - 2, v.y, v.x) BY <1>2, <1>7, <1>8
<1>10. a \in OperandsOf(builder) /\ b \in OperandsOf(builder)
  <2>1. n - 1 \in 1..n /\ n \in 1..n BY <1>2, <1>6, <1>7
  <2> QED BY <1>2, <2>1 DEF Common
<1> HIDE DEF a, b
<1>11. Fills(builder, builder')
  <2>1. /\ {f.dest} \in SUBSET LocalsOf(builder)
        /\ a.moved \union b.moved \in SUBSET LocalsOf(builder)
        /\ a.read \union b.read \in SUBSET LocalsOf(builder)
    BY <1>4, <1>10 DEF OperandsOf
  <2> QED BY <1>2, <1>5, <2>1, PushWrite DEF Common
<1>12. OperandsOf(builder') = OperandsOf(builder) /\ Grows(builder, builder')
  BY <1>2, <1>11, FilledOperands
<1>13. operands' \in Seq(OperandsOf(builder)) /\ Len(operands') = n - 2
  <2>1. \A i \in 1..(n - 2) : operands[i] \in OperandsOf(builder)
    BY <1>2, <1>6 DEF Common
  <2>2. n - 2 \in Nat /\ (n - 2) - 1 + 1 = n - 2 BY <1>2, <1>6, <1>7
  <2>3. operands \in Seq(OperandsOf(builder)) BY <1>2 DEF Common
  <2> HIDE DEF OperandsOf
  <2> QED BY <1>5, <2>1, <2>2, <2>3, SubSeqProperties
<1> QED BY <1>2, <1>5, <1>9, <1>12, <1>13, Consumed
-----------------------------------------------------------------------------
(***************************************************************************)
(* The actions that add blocks and terminators.                            *)
(***************************************************************************)
LEMMA Elsewhere ==
  ASSUME NEW B, NEW b, NEW ops, NEW ys, NEW y, NEW x, Filling(B, b, ops, ys, y, x),
         NEW B2, Advances(B, B2), NEW b2 \in BlocksOf(B2), NEW ops2 \in Seq(OperandsOf(B)),
         NEW ys2, NEW y2, NEW x2,
         Unended(B2) = x2 \union {b2} \union ({B2.cached_return_block} \ {None}),
         b2 \notin x2, x2 \intersect ({B2.cached_return_block} \ {None}) = {},
         B2.cached_return_block # b2,
         "yield_rvalue" \notin Forms => ys2 = Cardinality(Suspended(B2)) + y2
  PROVE  Filling(B2, b2, ops2, ys2, y2, x2)
<1>1. /\ BuilderOK(B2) /\ B2.local_decls = B.local_decls /\ B2.asserts = B.asserts
      /\ OperandsOf(B2) = OperandsOf(B)
  BY DEF Advances, OperandsOf, LocalsOf
<1> QED BY <1>1 DEF Filling

LEMMA FillingFacts ==
  ASSUME NEW B, NEW b, NEW ops, NEW ys, NEW y, NEW x, Filling(B, b, ops, ys, y, x)
  PROVE  /\ BuilderOK(B) /\ b \in Unended(B) /\ x \subseteq Unended(B)
         /\ Unended(B) \subseteq BlocksOf(B) /\ BlocksOf(B) \subseteq Nat
         /\ None \notin BlocksOf(B) /\ NextBlock(B) \notin BlocksOf(B) /\ NextBlock(B) \in Nat
         /\ NextBlock(B) + 1 \notin BlocksOf(B) /\ NextBlock(B) >= 2
         /\ B.cached_return_block \in BlocksOf(B) \union {None}
         /\ "yield_rvalue" \notin Forms => ys = Cardinality(Suspended(B)) + y
         /\ Unended(B) = x \union {b} \union ({B.cached_return_block} \ {None})
         /\ b \notin x /\ x \intersect ({B.cached_return_block} \ {None}) = {}
         /\ B.cached_return_block # b
<1>1. Len(B.basic_blocks) \in Nat /\ Len(B.basic_blocks) >= 1 BY BuilderFields DEF Filling, BuilderOK
<1>2. B.cached_return_block \in BlocksOf(B) \union {None}
  BY DEF Filling, BuilderOK, Returning, Jumpable
<1>3. /\ None \notin BlocksOf(B) /\ NextBlock(B) \notin BlocksOf(B) /\ NextBlock(B) \in Nat
      /\ NextBlock(B) + 1 \notin BlocksOf(B) /\ NextBlock(B) >= 2
      /\ BlocksOf(B) \subseteq Nat
  BY <1>1 DEF None, NextBlock, BlocksOf
<1>4. Unended(B) \subseteq BlocksOf(B) BY DEF Unended
<1> QED BY <1>2, <1>3, <1>4 DEF Filling

LEMMA Relevel ==
  ASSUME NEW B, NEW s, NEW l, NEW o, NEW y, NEW x, Stands(Level(s, l, o, y, x), B),
         NEW o2 \in Nat, NEW y2 \in Nat, NEW x2 \in SUBSET Nat
  PROVE  Stands(Level(s, l, o2, y2, x2), B)
<1> DEFINE u == Level(s, l, o, y, x)
           w == Level(s, l, o2, y2, x2)
<1>1. /\ u.s = s /\ u.l = l /\ w.s = s /\ w.l = l
      /\ w = [s |-> s, l |-> l, o |-> o2, y |-> y2, x |-> x2, c |-> TRUE]
  BY DEF Level
<1>2. Stands(u, B) OBVIOUS
<1> HIDE DEF u, w
<1>3. s \in Nat /\ l \in Nat BY <1>1, <1>2 DEF Stands, Heights
<1>4. w \in Heights BY <1>1, <1>3 DEF Heights
<1>5. Stands(w, B) BY <1>1, <1>2, <1>4 DEF Stands, Encloses
<1> QED BY <1>5 DEF w

\* The frame that owns a block, in front of a plan.
LEMMA PushOwner ==
  ASSUME NEW fs, NEW B, NEW s, NEW l, NEW o, NEW y, NEW x, HasPlan(fs, B, s, l, o, y, x), NEW f,
         NEW c \in BlocksOf(B), c \notin x,
         \/ f.do = "else" /\ f.block = c /\ f.dest \in LocalsOf(B) /\ Jumpable(B, c)
         \/ f.do = "join" /\ f.then_end = c
  PROVE  HasPlan(<<f>> \o fs, B, s, l, o, y, x \union {c})
<1>1. s \in Nat /\ s >= 2 /\ l \in Nat /\ o \in Nat /\ y \in Nat /\ x \in SUBSET Nat BY PlanNumbers
<1>2. /\ Closes(f) = 0 /\ Ends(f) = 0 /\ Makes(f) = 0 /\ Takes(f) = 0 /\ Suspends(f) = 0
      /\ Owned(f) = {c}
  BY DEF Closes, Ends, Makes, Takes, Suspends, Owned
<1> DEFINE w == Level(s, l, o, y, x \union {c})
<1>3. Stands(w, B)
  <2>1. x \union {c} \in SUBSET Nat BY <1>1 DEF BlocksOf
  <2>2. Stands(Level(s, l, o, y, x), B) BY DEF HasPlan
  <2> QED BY <1>1, <2>1, <2>2, Relevel
<1>4. FieldsOK(f, w, B) BY DEF FieldsOK
<1>5. /\ o >= Takes(f) /\ s - Closes(f) = s /\ l - Ends(f) = l /\ Closes(f) \in Nat
      /\ (o + Makes(f)) - Takes(f) = o /\ y - Suspends(f) = y
      /\ (x \union {c}) \ Owned(f) = x /\ Owned(f) \subseteq x \union {c}
  BY <1>1, <1>2
<1>6. f.do \notin {"arms", "arm_end", "epilogue"} OBVIOUS
<1>7. w = Level(s, l, o, y, x \union {c}) OBVIOUS
<1> HIDE DEF w
<1> QED BY ONLY HasPlan(fs, B, s, l, o, y, x), <1>3, <1>4, <1>5, <1>6, <1>7, PushAny

LEMMA TwoBlocks ==
  ASSUME NEW B, BuilderOK(B), NEW home, home = Open(B), NEW P,
         P = start_new_block(start_new_block(B, home), home)
  PROVE  LET n == NextBlock(B)
         IN /\ Advances(B, P) /\ P.cached_return_block = B.cached_return_block
            /\ Jumpable(P, n) /\ Jumpable(P, n + 1)
            /\ Unended(P) = Unended(B) \union {n, n + 1} /\ Suspended(P) = Suspended(B)
            /\ BlocksOf(P) = BlocksOf(B) \union {n, n + 1}
            /\ \A c \in BlocksOf(P) :
                 TermOf(P, c) = IF c \in BlocksOf(B) THEN TermOf(B, c) ELSE Unterminated
<1> DEFINE A == start_new_block(B, home)
           n == NextBlock(B)
<1>0. home \in SUBSET Nat BY OpenExtents
<1>1. /\ Advances(B, A) /\ A.cached_return_block = B.cached_return_block
      /\ Len(A.basic_blocks) = Len(B.basic_blocks) + 1
      /\ n \notin BlocksOf(B) /\ Jumpable(A, n)
      /\ Unended(A) = Unended(B) \union {n} /\ Suspended(A) = Suspended(B)
      /\ \A c \in BlocksOf(A) : TermOf(A, c) = IF c = n THEN Unterminated ELSE TermOf(B, c)
  BY <1>0, BlockStarted
<1>2. BuilderOK(A) /\ P = start_new_block(A, home) BY <1>1 DEF Advances
<1> HIDE DEF A
<1>3. /\ Advances(A, P) /\ P.cached_return_block = A.cached_return_block
      /\ Len(P.basic_blocks) = Len(A.basic_blocks) + 1
      /\ NextBlock(A) \notin BlocksOf(A) /\ Jumpable(P, NextBlock(A))
      /\ Unended(P) = Unended(A) \union {NextBlock(A)} /\ Suspended(P) = Suspended(A)
      /\ \A c \in BlocksOf(P) : TermOf(P, c) = IF c = NextBlock(A) THEN Unterminated ELSE TermOf(A, c)
  BY <1>0, <1>2, BlockStarted
<1>4. Len(B.basic_blocks) \in Nat BY BuilderFields DEF BuilderOK
<1>5. NextBlock(A) = n + 1 BY <1>1, <1>4 DEF NextBlock
<1>6. Advances(B, P) BY <1>1, <1>3, AdvancesTransitive
<1>7. Jumpable(P, n) BY <1>1, <1>3 DEF Advances
<1>8. BlocksOf(A) = BlocksOf(B) \union {n} /\ BlocksOf(P) = BlocksOf(A) \union {n + 1}
      /\ n + 1 \notin BlocksOf(B)
  BY <1>1, <1>3, <1>4 DEF BlocksOf, NextBlock
<1> HIDE DEF n
<1>9. \A c \in BlocksOf(P) :
        TermOf(P, c) = IF c \in BlocksOf(B) THEN TermOf(B, c) ELSE Unterminated
  BY <1>1, <1>3, <1>5, <1>8
<1> QED BY <1>1, <1>3, <1>5, <1>6, <1>7, <1>8, <1>9 DEF n

LEMMA IfThenKeeps == ASSUME NEW v, Now(v), IfThen PROVE Kept
<1> DEFINE n == NextBlock(builder)
           P == start_new_block(start_new_block(builder, Open(builder)), Open(builder))
           t == Jump("If", <<n, n + 1>>, Last(operands))
           a == InnerBlock(Top.dest)
           e == [do |-> "else", dest |-> Top.dest, block |-> n + 1]
           T == Tail(todo)
<1>1. /\ Common(v) /\ Rest(Scopes, Loops, Len(operands) - 1, v.y, v.x)
      /\ Last(operands).moved \in SUBSET LocalsOf(builder)
      /\ Last(operands).read \in SUBSET LocalsOf(builder)
      /\ Front(operands) \in Seq(OperandsOf(builder)) /\ Len(Front(operands)) = Len(operands) - 1
  BY Taking DEF IfThen, At
<1>2. /\ builder' = terminate(P, block, t) /\ block' = n /\ todo' = <<a, e>> \o T
      /\ operands' = Front(operands) /\ yields' = yields
  BY DEF IfThen, Then, program
<1>3. Top.dest \in LocalsOf(builder) BY <1>1 DEF Common, FieldsOK, IfThen, At
<1>4. /\ Advances(builder, P) /\ P.cached_return_block = builder.cached_return_block
      /\ Jumpable(P, n) /\ Jumpable(P, n + 1)
      /\ Unended(P) = Unended(builder) \union {n, n + 1} /\ Suspended(P) = Suspended(builder)
  BY <1>1, TwoBlocks DEF Common
<1>5. /\ a.do = "block" /\ a.dest = Top.dest
      /\ e.do = "else" /\ e.dest = Top.dest /\ e.block = n + 1
  BY DEF InnerBlock
<1> HIDE DEF P, a, e
<1>6. Filling(builder, block, operands, yields, v.y, v.x) BY <1>1 DEF Common
<1>7. Terminates(t, "If", <<n, n + 1>>, Len(P.local_decls), Len(P.basic_blocks))
  <2>1. Len(P.local_decls) \in Nat /\ Len(P.basic_blocks) \in Nat
    BY <1>4, BuilderFields DEF Advances, BuilderOK
  <2>2. OperandFits(Last(operands), Len(P.local_decls))
    BY <1>1, <1>4 DEF OperandFits, LocalsOf, Advances
  <2>3. n \in 1..Len(P.basic_blocks) /\ n + 1 \in 1..Len(P.basic_blocks)
    BY <1>4 DEF Jumpable, BlocksOf
  <2>4. "If" \in {"If", "Break"} OBVIOUS
  <2> HIDE DEF n
  <2> QED BY <2>1, <2>2, <2>3, <2>4, BranchFits
<1>8. block \in Unended(P) /\ BuilderOK(P) BY <1>4, <1>6, FillingFacts DEF Advances
<1>9. /\ t \in AnyTerminator /\ IsTerminator(t, Len(P.local_decls), Len(P.basic_blocks))
      /\ t.op = "If" /\ t.succ = <<n, n + 1>>
  BY <1>7 DEF Terminates
<1> HIDE DEF t
<1>10. \A i \in 1..Len(t.succ) : Jumpable(P, t.succ[i])
  <2> HIDE DEF n
  <2> QED BY <1>4, <1>9
<1>11. /\ Advances(P, builder') /\ builder'.cached_return_block = P.cached_return_block
       /\ Unended(builder') = Unended(P) \ {block} /\ Suspended(builder') = Suspended(P)
  BY <1>2, <1>8, <1>9, <1>10, Terminated
<1>12. Advances(builder, builder') /\ Jumpable(builder', n) /\ Jumpable(builder', n + 1)
  BY <1>1, <1>4, <1>11, AdvancesTransitive DEF Common, Advances
<1>13. Filling(builder', n, Front(operands), yields, v.y, v.x \union {n + 1})
  <2> DEFINE x == v.x \union {n + 1}
             c == builder.cached_return_block
  <2>1. /\ Unended(builder) = v.x \union {block} \union ({c} \ {None})
        /\ block \notin v.x /\ v.x \intersect ({c} \ {None}) = {} /\ c # block
        /\ block \in BlocksOf(builder) /\ v.x \subseteq BlocksOf(builder)
        /\ c \in BlocksOf(builder) \union {None} /\ None \notin BlocksOf(builder)
        /\ n \notin BlocksOf(builder) /\ n + 1 \notin BlocksOf(builder) /\ n # n + 1 /\ n # None
        /\ n + 1 # None
        /\ "yield_rvalue" \notin Forms => yields = Cardinality(Suspended(builder)) + v.y
    BY <1>6, FillingFacts DEF None
  <2>2. builder'.cached_return_block = c /\ Suspended(builder') = Suspended(builder)
        /\ Unended(builder') = (Unended(builder) \union {n, n + 1}) \ {block}
    BY <1>4, <1>11
  <2>3. n \in BlocksOf(builder') BY <1>12 DEF Jumpable
  <2> HIDE DEF c, n
  <2>4. /\ Unended(builder') = x \union {n} \union ({c} \ {None})
        /\ n \notin x /\ x \intersect ({c} \ {None}) = {} /\ c # n
    BY <2>1, <2>2
  <2> HIDE DEF x
  <2>5. Filling(builder', n, Front(operands), yields, v.y, x)
    BY <1>1, <1>6, <1>12, <2>1, <2>2, <2>3, <2>4, Elsewhere
  <2> QED BY <2>5 DEF x
<1>14. HasPlan(T, builder', Scopes, Loops, Len(operands) - 1, v.y, v.x) /\ Frames(T)
  BY <1>1, <1>12, AdvancedContinues, RestFrames DEF Common, Rest
<1> DEFINE Q == <<e>> \o T
<1>15. HasPlan(Q, builder', Scopes, Loops, Len(operands) - 1, v.y, v.x \union {n + 1})
  <2> DEFINE c == n + 1
  <2>1. c \in BlocksOf(builder') /\ Jumpable(builder', c) BY <1>12 DEF Jumpable
  <2>2. c \notin v.x BY <1>6, FillingFacts
  <2>3. e.block = c /\ e.dest \in LocalsOf(builder') BY <1>3, <1>5, <1>12 DEF Advances, LocalsOf
  <2> HIDE DEF c
  <2>4. HasPlan(<<e>> \o T, builder', Scopes, Loops, Len(operands) - 1, v.y, v.x \union {c})
    BY <1>5, <1>14, <2>1, <2>2, <2>3, PushOwner
  <2> QED BY <2>4 DEF c
<1>16. HasPlan(<<a>> \o Q, builder', Scopes, Loops, Len(operands) - 1, v.y, v.x \union {n + 1})
  <2> HIDE DEF Q
  <2>1. a.do \in {"into", "block"} /\ a.dest \in LocalsOf(builder')
    BY <1>3, <1>5, <1>12 DEF Advances, LocalsOf
  <2> QED BY <1>15, <2>1, PushInto
<1>17. todo' = <<a>> \o Q BY <1>2, <1>14, ConsTwo
<1>18. Scopes = Len(builder'.scopes) /\ Loops = Len(builder'.loop_scopes)
  BY <1>12 DEF Advances, Scopes, Loops
<1> QED BY <1>1, <1>2, <1>13, <1>16, <1>17, <1>18, Filled_StateOK DEF Kept

\* A jump from an unended block, without and with a condition.
LEMMA Jumped ==
  ASSUME NEW B, BuilderOK(B), NEW b \in Unended(B), NEW x, Jumpable(B, x),
         NEW B2, B2 = terminate(B, b, Jump("Goto", <<x>>, NoOperand))
  PROVE  /\ Advances(B, B2) /\ B2.cached_return_block = B.cached_return_block
         /\ Len(B2.basic_blocks) = Len(B.basic_blocks)
         /\ Unended(B2) = Unended(B) \ {b} /\ Suspended(B2) = Suspended(B)
<1> DEFINE t == Jump("Goto", <<x>>, NoOperand)
<1>1. Len(B.local_decls) \in Nat /\ Len(B.basic_blocks) \in Nat BY BuilderFields DEF BuilderOK
<1>2. x \in 1..Len(B.basic_blocks) BY DEF Jumpable, BlocksOf
<1>3. Terminates(t, "Goto", <<x>>, Len(B.local_decls), Len(B.basic_blocks))
  BY <1>1, <1>2, GotoFits
<1>4. /\ t \in AnyTerminator /\ IsTerminator(t, Len(B.local_decls), Len(B.basic_blocks))
      /\ t.op = "Goto" /\ t.succ = <<x>>
  BY <1>3 DEF Terminates
<1> HIDE DEF t
<1>5. \A i \in 1..Len(t.succ) : Jumpable(B, t.succ[i]) BY <1>4
<1>6. B2 = terminate(B, b, t) BY DEF t
<1> QED BY <1>4, <1>5, <1>6, Terminated

LEMMA Branched ==
  ASSUME NEW B, BuilderOK(B), NEW b \in Unended(B), NEW x, Jumpable(B, x), NEW z, Jumpable(B, z),
         NEW v, v.moved \in SUBSET LocalsOf(B), v.read \in SUBSET LocalsOf(B),
         NEW B2, B2 = terminate(B, b, Jump("If", <<x, z>>, v))
  PROVE  /\ Advances(B, B2) /\ B2.cached_return_block = B.cached_return_block
         /\ Len(B2.basic_blocks) = Len(B.basic_blocks)
         /\ Unended(B2) = Unended(B) \ {b} /\ Suspended(B2) = Suspended(B)
<1> DEFINE t == Jump("If", <<x, z>>, v)
<1>1. Len(B.local_decls) \in Nat /\ Len(B.basic_blocks) \in Nat BY BuilderFields DEF BuilderOK
<1>2. x \in 1..Len(B.basic_blocks) /\ z \in 1..Len(B.basic_blocks) BY DEF Jumpable, BlocksOf
<1>3. "If" \in {"If", "Break"} /\ OperandFits(v, Len(B.local_decls)) BY DEF OperandFits, LocalsOf
<1>4. Terminates(t, "If", <<x, z>>, Len(B.local_decls), Len(B.basic_blocks))
  BY <1>1, <1>2, <1>3, BranchFits
<1>5. /\ t \in AnyTerminator /\ IsTerminator(t, Len(B.local_decls), Len(B.basic_blocks))
      /\ t.op = "If" /\ t.succ = <<x, z>>
  BY <1>4 DEF Terminates
<1> HIDE DEF t
<1>6. \A i \in 1..Len(t.succ) : Jumpable(B, t.succ[i]) BY <1>5
<1>7. B2 = terminate(B, b, t) BY DEF t
<1> QED BY <1>5, <1>6, <1>7, Terminated

\* The graph went on, and with it the plan.
LEMMA Advanced ==
  ASSUME NEW v, Common(v), Advances(builder, builder'), NEW y, NEW x,
         Filling(builder', block', operands', yields', y, x),
         HasPlan(todo', builder', Scopes, Loops, Len(operands'), y, x)
  PROVE  Kept
<1>1. Scopes = Len(builder'.scopes) /\ Loops = Len(builder'.loop_scopes)
  BY DEF Advances, Scopes, Loops
<1> QED BY <1>1, Filled_StateOK DEF Kept

LEMMA AdvancedRest ==
  ASSUME NEW v, Common(v), NEW B2, Advances(builder, B2), NEW s, NEW l, NEW o, NEW y, NEW x,
         Rest(s, l, o, y, x)
  PROVE  HasPlan(Tail(todo), B2, s, l, o, y, x) /\ Frames(Tail(todo))
BY AdvancedContinues, PlanNumbers DEF Common, Rest

\* The frame on top owns a block.
LEMMA Owning ==
  ASSUME NEW v, Now(v), At({"else", "join"}), NEW c, {c} = Owned(Top)
  PROVE  /\ Common(v) /\ v \in Heights /\ c \in v.x
         /\ Rest(Scopes, Loops, Len(operands), v.y, v.x \ {c})
<1>1. todo # << >> /\ Top.do \in {"else", "join"} BY DEF At
<1> DEFINE f == Top
<1>2. /\ Common(v) /\ v \in Heights /\ v.o = Len(operands) /\ v.o >= Takes(f)
      /\ Owned(f) \subseteq v.x
      /\ Rest(v.s - Closes(f), v.l - Ends(f), (v.o + Makes(f)) - Takes(f), v.y - Suspends(f),
              v.x \ Owned(f))
  BY <1>1, Started
<1>3. Closes(f) = 0 /\ Ends(f) = 0 /\ Makes(f) = 0 /\ Takes(f) = 0 /\ Suspends(f) = 0
  BY <1>1 DEF Closes, Ends, Makes, Takes, Suspends
<1> HIDE DEF f
<1>4. v.s \in Nat /\ v.l \in Nat /\ v.o \in Nat /\ v.y \in Nat BY <1>2 DEF Heights
<1>5. /\ v.s - Closes(f) = v.s /\ v.l - Ends(f) = v.l /\ (v.o + Makes(f)) - Takes(f) = v.o
      /\ v.y - Suspends(f) = v.y /\ Owned(f) = {c}
  BY <1>3, <1>4 DEF f
<1>6. v.s = Scopes /\ v.l = Loops BY <1>2 DEF Common
<1>7. Rest(Scopes, Loops, Len(operands), v.y, v.x \ {c}) BY <1>2, <1>5, <1>6
<1> QED BY <1>2, <1>5, <1>7

LEMMA IfElseKeeps == ASSUME NEW v, Now(v), IfElse PROVE Kept
<1> DEFINE c == Top.block
           j == [do |-> "join", then_end |-> block]
           a == InnerBlock(Top.dest)
           z == Into(Top.dest, Forms \ {"if"})
           x == (v.x \ {c}) \union {block}
           T == Tail(todo)
           Q == <<j>> \o T
<1>1. At({"else", "join"}) /\ Top.do = "else" BY DEF IfElse, At
<1>2. {c} = Owned(Top) BY <1>1 DEF Owned
<1>3. /\ Common(v) /\ v \in Heights /\ c \in v.x
      /\ Rest(Scopes, Loops, Len(operands), v.y, v.x \ {c})
  BY <1>1, <1>2, Owning
<1>4. Top.dest \in LocalsOf(builder) BY <1>1, <1>3 DEF Common, FieldsOK
<1>5. /\ block' = c /\ operands' = operands /\ yields' = yields
      /\ \/ builder' = push_assign_unit(builder, c, Top.dest) /\ todo' = <<j>> \o T
         \/ builder' = builder /\ todo' = (<<a>> \o <<j>>) \o T
         \/ builder' = builder /\ todo' = (<<z>> \o <<j>>) \o T
  BY DEF IfElse, Then, program
<1>6. /\ j.do = "join" /\ j.then_end = block
      /\ a.do \in {"into", "block"} /\ a.dest = Top.dest
      /\ z.do \in {"into", "block"} /\ z.dest = Top.dest
  BY DEF InnerBlock, Into
<1>7. Filling(builder, block, operands, yields, v.y, v.x) BY <1>3 DEF Common
<1>8. c \in BlocksOf(builder) /\ block \in BlocksOf(builder) /\ block \notin v.x
  BY <1>3, <1>7, FillingFacts
<1> HIDE DEF j, a, z, c, T
<1>9. Fills(builder, builder')
  <2>1. CASE builder' = push_assign_unit(builder, c, Top.dest)
    BY <1>3, <1>4, <1>8, <2>1, PushUnit DEF Common
  <2>2. CASE builder' = builder BY <1>3, <2>2, GrowsReflexive DEF Common
  <2> QED BY <1>5, <2>1, <2>2
<1>10. /\ Advances(builder, builder')
       /\ builder'.cached_return_block = builder.cached_return_block
       /\ Unended(builder') = Unended(builder) /\ Suspended(builder') = Suspended(builder)
       /\ BlocksOf(builder') = BlocksOf(builder) /\ LocalsOf(builder') = LocalsOf(builder)
  BY <1>3, <1>9, FillsAdvances DEF Common, BlocksOf, Fills, LocalsOf
<1>11. Filling(builder', c, operands, yields, v.y, x)
  <2> DEFINE r == {builder.cached_return_block} \ {None}
  <2>1. /\ Unended(builder) = v.x \union {block} \union r
        /\ block \notin v.x /\ v.x \intersect r = {} /\ builder.cached_return_block # block
        /\ c # None
        /\ "yield_rvalue" \notin Forms => yields = Cardinality(Suspended(builder)) + v.y
    BY <1>7, <1>8, FillingFacts
  <2>2. Unended(builder') = x \union {c} \union r BY <1>3, <1>10, <2>1
  <2>3. c \notin x /\ x \intersect r = {} /\ builder.cached_return_block # c
    BY <1>3, <2>1
  <2> HIDE DEF x
  <2>4. operands \in Seq(OperandsOf(builder)) /\ c \in BlocksOf(builder')
    BY <1>3, <1>8, <1>10 DEF Common
  <2> QED BY <1>7, <1>10, <2>1, <2>2, <2>3, <2>4, Elsewhere
<1>12. HasPlan(T, builder', Scopes, Loops, Len(operands), v.y, v.x \ {c}) /\ Frames(T)
  BY <1>3, <1>10, AdvancedRest DEF T
<1>13. HasPlan(Q, builder', Scopes, Loops, Len(operands), v.y, x)
  <2>1. block \notin v.x \ {c} /\ block \in BlocksOf(builder') BY <1>8, <1>10
  <2> QED BY <1>6, <1>12, <2>1, PushOwner
<1>14. HasPlan(todo', builder', Scopes, Loops, Len(operands), v.y, x)
  <2>1. ASSUME NEW g, todo' = (<<g>> \o <<j>>) \o T, g.do \in {"into", "block"}, g.dest = Top.dest
        PROVE  HasPlan(todo', builder', Scopes, Loops, Len(operands), v.y, x)
    <3>1. todo' = <<g>> \o Q
      <4>1. PICK S : T \in Seq(S) BY <1>12 DEF Frames
      <4> DEFINE U == S \union {g, j}
      <4>2. T \in Seq(U) /\ <<g>> \in Seq(U) /\ <<j>> \in Seq(U) BY <4>1
      <4> QED BY <2>1, <4>2, ConcatAssociative
    <3>2. g.dest \in LocalsOf(builder') BY <1>4, <1>10, <2>1
    <3> HIDE DEF Q, x
    <3>3. HasPlan(<<g>> \o Q, builder', Scopes, Loops, Len(operands), v.y, x)
      BY <1>13, <2>1, <3>2, PushInto
    <3> QED BY <3>1, <3>3
  <2>2. CASE todo' = <<j>> \o T BY <1>13, <2>2
  <2>3. CASE todo' = (<<a>> \o <<j>>) \o T BY <1>6, <2>1, <2>3
  <2>4. CASE todo' = (<<z>> \o <<j>>) \o T BY <1>6, <2>1, <2>4
  <2> QED BY <1>5, <2>2, <2>3, <2>4
<1> HIDE DEF x
<1> QED BY <1>3, <1>5, <1>10, <1>11, <1>14, Advanced

LEMMA IfJoinKeeps == ASSUME NEW v, Now(v), IfJoin PROVE Kept
<1> DEFINE c == Top.then_end
           n == NextBlock(builder)
           goto == Jump("Goto", <<n>>, NoOperand)
           P == start_new_block(builder, Open(builder))
           R == terminate(P, c, goto)
           x == v.x \ {c}
<1>1. At({"else", "join"}) /\ Top.do = "join" BY DEF IfJoin, At
<1>2. {c} = Owned(Top) BY <1>1 DEF Owned
<1>3. /\ Common(v) /\ v \in Heights /\ c \in v.x
      /\ Rest(Scopes, Loops, Len(operands), v.y, v.x \ {c})
  BY <1>1, <1>2, Owning
<1>4. /\ builder' = terminate(R, block, goto) /\ block' = n /\ operands' = operands
      /\ yields' = yields /\ todo' = << >> \o Tail(todo)
  BY DEF IfJoin, Then, program
<1>5. /\ Advances(builder, P) /\ P.cached_return_block = builder.cached_return_block
      /\ n \notin BlocksOf(builder) /\ Jumpable(P, n)
      /\ Unended(P) = Unended(builder) \union {n} /\ Suspended(P) = Suspended(builder)
  <2>1. Open(builder) \in SUBSET Nat BY <1>3, OpenExtents DEF Common
  <2> QED BY <1>3, <2>1, BlockStarted DEF Common
<1>6. Filling(builder, block, operands, yields, v.y, v.x) BY <1>3 DEF Common
<1> HIDE DEF P
<1> DEFINE r == {builder.cached_return_block} \ {None}
<1>7. /\ Unended(builder) = v.x \union {block} \union r
      /\ block \notin v.x /\ v.x \intersect r = {} /\ builder.cached_return_block # block
      /\ "yield_rvalue" \notin Forms => yields = Cardinality(Suspended(builder)) + v.y
      /\ n \notin Unended(builder) /\ builder.cached_return_block # n /\ n # None
  <2>1. NextBlock(builder) >= 2 BY <1>6, FillingFacts
  <2> QED BY <1>6, <2>1, FillingFacts DEF None
<1> HIDE DEF c, n
<1>8. BuilderOK(P) /\ c \in Unended(P) BY <1>3, <1>5, <1>7 DEF Advances
<1>9. /\ Advances(P, R) /\ R.cached_return_block = P.cached_return_block
      /\ Unended(R) = Unended(P) \ {c} /\ Suspended(R) = Suspended(P)
  BY <1>5, <1>8, Jumped
<1> HIDE DEF R
<1>10. BuilderOK(R) /\ block \in Unended(R) /\ Jumpable(R, n)
  BY <1>3, <1>5, <1>7, <1>9 DEF Advances
<1>11. /\ Advances(R, builder') /\ builder'.cached_return_block = R.cached_return_block
       /\ Unended(builder') = Unended(R) \ {block} /\ Suspended(builder') = Suspended(R)
  BY <1>4, <1>10, Jumped
<1>12. Advances(builder, builder')
  <2>1. Advances(builder, R) BY <1>3, <1>5, <1>9, AdvancesTransitive DEF Common
  <2> QED BY <1>3, <1>11, <2>1, AdvancesTransitive DEF Common
<1>13. Filling(builder', n, operands, yields, v.y, x)
  <2>1. Unended(builder') = x \union {n} \union r
    BY <1>3, <1>5, <1>7, <1>9, <1>11
  <2>2. n \notin x /\ x \intersect r = {} BY <1>7
  <2>3. n \in BlocksOf(builder') BY <1>10, <1>11 DEF Advances, Jumpable
  <2>4. operands \in Seq(OperandsOf(builder)) BY <1>3 DEF Common
  <2>5. builder'.cached_return_block = builder.cached_return_block
        /\ Suspended(builder') = Suspended(builder)
    BY <1>5, <1>9, <1>11
  <2> HIDE DEF x
  <2> QED BY <1>6, <1>7, <1>12, <2>1, <2>2, <2>3, <2>4, <2>5, Elsewhere
<1>14. HasPlan(Tail(todo), builder', Scopes, Loops, Len(operands), v.y, x) /\ Frames(Tail(todo))
  BY <1>3, <1>12, AdvancedRest
<1>15. todo' = Tail(todo) BY <1>4, <1>14, ConsNone
<1> QED BY <1>3, <1>4, <1>12, <1>13, <1>14, <1>15, Advanced

LEMMA AdvancesReflexive == ASSUME NEW B, BuilderOK(B) PROVE Advances(B, B)
BY GrowsReflexive, FillsAdvances

\* The block that an exit jumps to; the one of the Return may be new.
Returned(B, R) ==
  \/ R.cached_return_block = B.cached_return_block /\ Unended(R) = Unended(B)
  \/ /\ B.cached_return_block = None
     /\ R.cached_return_block \notin BlocksOf(B) \union {None}
     /\ Unended(R) = Unended(B) \union {R.cached_return_block}

LEMMA ReturnTarget ==
  ASSUME NEW B, BuilderOK(B), NEW p, p = TRUE,
         NEW R, R = [return_block(B) EXCEPT !.asserts = @ /\ p]
  PROVE  /\ Advances(B, R) /\ Suspended(R) = Suspended(B) /\ Returned(B, R)
         /\ Jumpable(R, R.cached_return_block)
<1> DEFINE S == return_block(B)
<1>1. /\ Advances(B, S) /\ S.cached_return_block # None
      /\ Jumpable(S, S.cached_return_block)
      /\ Suspended(S) = Suspended(B)
      /\ \/ B.cached_return_block # None /\ S = B
         \/ /\ B.cached_return_block = None /\ S.cached_return_block \notin BlocksOf(B)
            /\ Unended(S) = Unended(B) \union {S.cached_return_block}
  BY ReturnBlock
<1> HIDE DEF S
<1>2. S \in Builders BY <1>1 DEF Advances, BuilderOK
<1>3. R = [S EXCEPT !.asserts = S.asserts] BY <1>2 DEF S, Builders
<1>4. R = S BY <1>2, <1>3 DEF Builders
<1> QED BY <1>1, <1>4 DEF Returned

LEMMA ExitScopeKeeps == ASSUME NEW v, Now(v), ExitScope PROVE Kept
<1> DEFINE p == Len(builder.scopes) >= 2 /\ builder.scopes[2].extent = PARAMETERS
           R == IF Top.target # None THEN builder
                ELSE [return_block(builder) EXCEPT
                        !.asserts = @ /\ Len(builder.scopes) >= 2
                                      /\ builder.scopes[2].extent = PARAMETERS]
           target == IF Top.target # None THEN Top.target ELSE R.cached_return_block
           n == NextBlock(R)
           P == start_new_block(R, Open(R))
<1>1. Common(v) /\ Rest(Scopes, Loops, Len(operands), v.y, v.x) BY Neutral DEF ExitScope, At
<1>2. /\ builder' = exit_scope(P, Top.extent, block, target, n) /\ block' = n
      /\ Then(<< >>) /\ operands' = operands /\ yields' = yields
  BY DEF ExitScope, program
<1>3. /\ \E i \in 2..Scopes : builder.scopes[i].extent = Top.extent
      /\ Top.target = None \/ Jumpable(builder, Top.target)
      /\ p = TRUE /\ BuilderOK(builder)
  BY <1>1 DEF Common, FieldsOK, ExitScope, At, Encloses, Stands, Scopes
<1>4. /\ Advances(builder, R) /\ Suspended(R) = Suspended(builder) /\ Returned(builder, R)
      /\ Jumpable(R, target)
  <2>1. CASE Top.target # None
    <3>1. R = builder /\ target = Top.target BY <2>1
    <3> HIDE DEF R, target
    <3> QED BY <1>3, <2>1, <3>1, AdvancesReflexive DEF Returned
  <2>2. CASE Top.target = None
    <3>1. R = [return_block(builder) EXCEPT !.asserts = @ /\ p] /\ target = R.cached_return_block
      BY <2>2
    <3> HIDE DEF R, target, p
    <3> QED BY <1>3, <3>1, ReturnTarget
  <2> QED BY <2>1, <2>2
<1> HIDE DEF R, target
<1>5. BuilderOK(R) /\ R.scopes = builder.scopes BY <1>4 DEF Advances
<1>6. /\ Advances(R, P) /\ P.cached_return_block = R.cached_return_block
      /\ n \notin BlocksOf(R) /\ Jumpable(P, n)
      /\ Unended(P) = Unended(R) \union {n} /\ Suspended(P) = Suspended(R)
  <2>1. Open(R) \in SUBSET Nat BY <1>5, OpenExtents
  <2> QED BY <1>5, <2>1, BlockStarted
<1> HIDE DEF P
<1>7. Filling(builder, block, operands, yields, v.y, v.x) BY <1>1 DEF Common
<1> DEFINE c == builder.cached_return_block
           d == R.cached_return_block
<1>8. /\ Unended(builder) = v.x \union {block} \union ({c} \ {None})
      /\ block \notin v.x /\ v.x \intersect ({c} \ {None}) = {} /\ c # block
      /\ block \in BlocksOf(builder) /\ v.x \subseteq BlocksOf(builder)
      /\ c \in BlocksOf(builder) \union {None} /\ None \notin BlocksOf(builder)
      /\ "yield_rvalue" \notin Forms => yields = Cardinality(Suspended(builder)) + v.y
  BY <1>7, FillingFacts
<1>9. BlocksOf(builder) \subseteq BlocksOf(R) /\ d \in BlocksOf(R) \union {None} /\ n # None
  <2>1. BlocksOf(builder) \subseteq BlocksOf(R) BY <1>3, <1>4, AdvancesContinues
  <2>2. d \in BlocksOf(R) \union {None} BY <1>5 DEF BuilderOK, Returning, Jumpable
  <2>3. n \in BlocksOf(P) /\ Len(P.basic_blocks) \in Nat
    BY <1>6, BuilderFields DEF Jumpable, Advances, BuilderOK
  <2> HIDE DEF n
  <2> QED BY <2>1, <2>2, <2>3 DEF BlocksOf, None
<1> HIDE DEF n
<1>10. block \in Unended(P) /\ BuilderOK(P) /\ Jumpable(P, target)
  BY <1>4, <1>6, <1>8 DEF Returned, Advances
<1>11. /\ Advances(P, builder') /\ builder'.cached_return_block = P.cached_return_block
       /\ Unended(builder') = Unended(P) \ {block} /\ Suspended(builder') = Suspended(P)
  <2>1. \E i \in 2..Len(P.scopes) : P.scopes[i].extent = Top.extent
    BY <1>3, <1>5, <1>6 DEF Advances, Scopes
  <2>2. builder' = exit_scope(P, Top.extent, block, target, n) BY <1>2
  <2>3. BuilderOK(P) /\ block \in Unended(P) /\ Jumpable(P, target) /\ Jumpable(P, n) BY <1>6, <1>10
  <2> QED BY ONLY <2>1, <2>2, <2>3, Exited
<1>12. Advances(builder, builder')
  <2>1. Advances(builder, P) BY <1>3, <1>4, <1>6, AdvancesTransitive
  <2> QED BY <1>3, <1>11, <2>1, AdvancesTransitive
<1>13. Filling(builder', n, operands, yields, v.y, v.x)
  <2>1. /\ Unended(builder') = v.x \union {n} \union ({d} \ {None})
        /\ v.x \intersect ({d} \ {None}) = {} /\ n \notin v.x
    BY <1>4, <1>6, <1>8, <1>9, <1>11 DEF Returned
  <2>2. builder'.cached_return_block = d /\ d # n BY <1>6, <1>9, <1>11
  <2>3. n \in BlocksOf(builder') BY <1>6, <1>11 DEF Advances, Jumpable
  <2>4. operands \in Seq(OperandsOf(builder)) BY <1>1 DEF Common
  <2>5. Suspended(builder') = Suspended(builder) BY <1>4, <1>6, <1>11
  <2> HIDE DEF d
  <2> QED BY <1>7, <1>8, <1>12, <2>1, <2>2, <2>3, <2>4, <2>5, Elsewhere
<1>14. HasPlan(Tail(todo), builder', Scopes, Loops, Len(operands), v.y, v.x)
  BY <1>1, <1>12, AdvancedRest
<1>15. todo' = Tail(todo) BY <1>1, <1>2, RestFrames DEF Then
<1> QED BY <1>1, <1>2, <1>12, <1>13, <1>14, <1>15, Advanced

-----------------------------------------------------------------------------
\* Loops are entered and left.
Relooped(B, B2, loops) ==
  /\ BuilderOK(B2) /\ B2.loop_scopes = loops
  /\ B2.local_decls = B.local_decls /\ B2.scopes = B.scopes /\ B2.asserts = B.asserts
  /\ B2.visibility_scopes = B.visibility_scopes
  /\ B2.cached_return_block = B.cached_return_block
  /\ BlocksOf(B2) = BlocksOf(B) /\ Unended(B2) = Unended(B) /\ Suspended(B2) = Suspended(B)
  /\ \A x : Jumpable(B, x) => Jumpable(B2, x)

LEMMA LoopsSet ==
  ASSUME NEW B, BuilderOK(B), NEW loops \in Seq(LoopRecords),
         \A i \in 1..Len(loops) : LoopOK(B, loops[i]),
         NEW B2, B2 = [B EXCEPT !.loop_scopes = loops]
  PROVE  Relooped(B, B2, loops)
<1>1. B \in Builders BY DEF BuilderOK
<1>2. /\ B2 \in Builders /\ B2.basic_blocks = B.basic_blocks /\ B2.local_decls = B.local_decls
      /\ B2.scopes = B.scopes /\ B2.visibility_scopes = B.visibility_scopes
      /\ B2.cached_return_block = B.cached_return_block /\ B2.loop_scopes = loops
      /\ B2.visibility_scope = B.visibility_scope /\ B2.asserts = B.asserts
  BY <1>1 DEF Builders
<1>3. /\ BlocksOf(B2) = BlocksOf(B) /\ \A c : TermOf(B2, c) = TermOf(B, c) /\ StmtsOf(B2, c) = StmtsOf(B, c)
      /\ LocalsOf(B2) = LocalsOf(B) /\ ScopesOf(B2) = ScopesOf(B)
  BY <1>2 DEF BlocksOf, TermOf, StmtsOf, LocalsOf, ScopesOf
<1>4. \A x : IsArm(B2, x) <=> IsArm(B, x) BY <1>3 DEF IsArm
<1>5. \A x : Jumpable(B2, x) <=> Jumpable(B, x) BY <1>3, <1>4 DEF Jumpable
<1>6. Unended(B2) = Unended(B) /\ Suspended(B2) = Suspended(B) BY <1>3 DEF Unended, Suspended
<1>7. Filled(B2) /\ Ended(B2)
  <2>1. Filled(B) /\ Ended(B) BY DEF BuilderOK
  <2> QED BY <1>2, <1>3, <2>1 DEF Filled, Ended
<1>8. Scheduled(B2) BY <1>2, <1>3 DEF BuilderOK, Scheduled
<1>9. ArmsOwned(B2)
  <2>1. ArmsOwned(B) BY DEF BuilderOK
  <2> QED BY <1>3, <1>4, <2>1 DEF ArmsOwned
<1>10. Looping(B2)
  <2>1. \A i \in 1..Len(loops) : LoopOK(B2, loops[i]) BY <1>3, <1>5 DEF LoopOK
  <2> QED BY <1>2, <2>1 DEF Looping
<1>11. Returning(B2) BY <1>2, <1>5 DEF BuilderOK, Returning
<1>12. BuilderOK(B2)
  <2>1. /\ Len(B2.local_decls) >= 2 /\ Len(B2.basic_blocks) >= 1
        /\ B2.visibility_scope \in ScopesOf(B2)
    BY <1>2, <1>3 DEF BuilderOK
  <2> QED BY <1>2, <1>7, <1>8, <1>9, <1>10, <1>11, <2>1 DEF BuilderOK
<1> QED BY <1>2, <1>3, <1>5, <1>6, <1>12 DEF Relooped

LEMMA FillingRelooped ==
  ASSUME NEW B, NEW b, NEW ops, NEW ys, NEW y, NEW x, Filling(B, b, ops, ys, y, x),
         NEW loops, NEW B2, Relooped(B, B2, loops)
  PROVE  Filling(B2, b, ops, ys, y, x)
BY DEF Filling, Relooped, OperandsOf, LocalsOf

LEMMA PlanRelooped ==
  ASSUME NEW fs, NEW B, NEW s, NEW l, NEW o, NEW y, NEW x, HasPlan(fs, B, s, l, o, y, x),
         NEW loops, NEW B2, Relooped(B, B2, loops), \A j \in 1..l : loops[j] = B.loop_scopes[j]
  PROVE  HasPlan(fs, B2, s, l, o, y, x)
<1> DEFINE w == Level(s, l, o, y, x)
<1>1. w.l = l BY DEF Level
<1> HIDE DEF w
<1>2. /\ LocalsOf(B2) = LocalsOf(B) /\ ScopesOf(B2) = ScopesOf(B) /\ BlocksOf(B2) = BlocksOf(B)
      /\ B2.scopes = B.scopes /\ B2.loop_scopes = loops
      /\ \A z : Jumpable(B, z) => Jumpable(B2, z)
  BY DEF Relooped, LocalsOf, ScopesOf
<1>3. Continues(B, B2, w) BY <1>1, <1>2 DEF Continues
<1> QED BY <1>3, Continued DEF w

LEMMA LoopBlocks ==
  ASSUME NEW v, Common(v), NEW n, n = NextBlock(builder), NEW P,
         P = start_new_block(start_new_block(builder, Open(builder)), Open(builder)),
         NEW T, T = terminate(P, block, Jump("Goto", <<n>>, NoOperand))
  PROVE  /\ Advances(builder, T) /\ Jumpable(T, n) /\ Jumpable(T, n + 1)
         /\ Filling(T, n, operands, yields, v.y, v.x \union {n + 1})
         /\ n + 1 \notin v.x /\ n \in Nat
<1>1. /\ Advances(builder, P) /\ P.cached_return_block = builder.cached_return_block
      /\ Jumpable(P, n) /\ Jumpable(P, n + 1)
      /\ Unended(P) = Unended(builder) \union {n, n + 1} /\ Suspended(P) = Suspended(builder)
  BY TwoBlocks DEF Common
<1>2. Filling(builder, block, operands, yields, v.y, v.x) BY DEF Common
<1> DEFINE x == v.x \union {n + 1}
           c == builder.cached_return_block
<1>3. /\ Unended(builder) = v.x \union {block} \union ({c} \ {None})
      /\ block \notin v.x /\ v.x \intersect ({c} \ {None}) = {} /\ c # block
      /\ block \in BlocksOf(builder) /\ v.x \subseteq BlocksOf(builder)
      /\ c \in BlocksOf(builder) \union {None} /\ None \notin BlocksOf(builder)
      /\ n \notin BlocksOf(builder) /\ n + 1 \notin BlocksOf(builder) /\ n # n + 1 /\ n # None
      /\ n + 1 # None /\ n \in Nat
      /\ "yield_rvalue" \notin Forms => yields = Cardinality(Suspended(builder)) + v.y
  BY <1>2, FillingFacts DEF None
<1>4. block \in Unended(P) /\ BuilderOK(P) BY <1>1, <1>3 DEF Advances
<1>5. /\ Advances(P, T) /\ T.cached_return_block = P.cached_return_block
      /\ Unended(T) = Unended(P) \ {block} /\ Suspended(T) = Suspended(P)
  BY <1>1, <1>4, Jumped
<1>6. Advances(builder, T) /\ Jumpable(T, n) /\ Jumpable(T, n + 1)
  BY <1>1, <1>5, AdvancesTransitive DEF Common, Advances
<1>7. Filling(T, n, operands, yields, v.y, x)
  <2>1. T.cached_return_block = c /\ Suspended(T) = Suspended(builder)
        /\ Unended(T) = (Unended(builder) \union {n, n + 1}) \ {block}
    BY <1>1, <1>5
  <2>2. n \in BlocksOf(T) BY <1>6 DEF Jumpable
  <2>3. operands \in Seq(OperandsOf(builder)) BY DEF Common
  <2> HIDE DEF c
  <2>4. /\ Unended(T) = x \union {n} \union ({c} \ {None})
        /\ n \notin x /\ x \intersect ({c} \ {None}) = {} /\ c # n
    BY <1>3, <2>1
  <2> HIDE DEF x
  <2> QED BY <1>2, <1>3, <1>6, <2>1, <2>2, <2>3, <2>4, Elsewhere
<1> QED BY <1>3, <1>6, <1>7

\* The frame that ends a loop, in front of the plan after the loop.
LEMMA PushLoopEnd ==
  ASSUME NEW fs, NEW B, NEW s, NEW l, NEW o, NEW y, NEW x, HasPlan(fs, B, s, l, o, y, x), NEW f,
         f.do = "loop_end", NEW c \in BlocksOf(B), c \notin x, f.loop.break_block = c,
         LoopOK(B, f.loop), B.loop_scopes[l + 1] = f.loop,
         \E i \in 2..s : B.scopes[i].extent = f.loop.extent
  PROVE  HasPlan(<<f>> \o fs, B, s, l + 1, o, y, x \union {c})
<1>1. s \in Nat /\ s >= 2 /\ l \in Nat /\ o \in Nat /\ y \in Nat /\ x \in SUBSET Nat BY PlanNumbers
<1>2. /\ Closes(f) = 0 /\ Ends(f) = 1 /\ Makes(f) = 0 /\ Takes(f) = 0 /\ Suspends(f) = 0
      /\ Owned(f) = {c}
  BY DEF Closes, Ends, Makes, Takes, Suspends, Owned
<1> DEFINE w == Level(s, l + 1, o, y, x \union {c})
           u == Level(s, l, o, y, x)
<1>3. Stands(w, B)
  <2>1. /\ u.s = s /\ u.l = l /\ w.s = s /\ w.l = l + 1
        /\ w = [s |-> s, l |-> l + 1, o |-> o, y |-> y, x |-> x \union {c}, c |-> TRUE]
    BY DEF Level
  <2>2. x \union {c} \in SUBSET Nat BY <1>1 DEF BlocksOf
  <2>3. Stands(u, B) BY DEF HasPlan
  <2> HIDE DEF w, u
  <2>4. w \in Heights BY <1>1, <2>1, <2>2 DEF Heights
  <2>5. ASSUME NEW j \in 1..w.l PROVE Encloses(B, w, B.loop_scopes[j].extent)
    <3>1. CASE j = l + 1 BY <2>1, <3>1 DEF Encloses
    <3>2. CASE j # l + 1
      <4>1. j \in 1..u.l BY <1>1, <2>1, <3>2
      <4> QED BY <2>1, <2>3, <4>1 DEF Stands, Encloses
    <3> QED BY <3>1, <3>2
  <2> QED BY <2>1, <2>3, <2>4, <2>5 DEF Stands
<1>4. FieldsOK(f, w, B)
  <2>1. w.l = l + 1 BY DEF Level
  <2> HIDE DEF w
  <2>2. LoopOK(B, f.loop) /\ w.l >= 1 /\ B.loop_scopes[w.l] = f.loop BY <1>1, <2>1
  <2> QED BY <2>2 DEF FieldsOK
<1>5. /\ o >= Takes(f) /\ s - Closes(f) = s /\ (l + 1) - Ends(f) = l /\ Closes(f) \in Nat
      /\ (o + Makes(f)) - Takes(f) = o /\ y - Suspends(f) = y
      /\ (x \union {c}) \ Owned(f) = x /\ Owned(f) \subseteq x \union {c}
  BY <1>1, <1>2
<1>6. f.do \notin {"arms", "arm_end", "epilogue"} OBVIOUS
<1>7. w = Level(s, l + 1, o, y, x \union {c}) OBVIOUS
<1> HIDE DEF w
<1> QED BY ONLY HasPlan(fs, B, s, l, o, y, x), <1>3, <1>4, <1>5, <1>6, <1>7, PushAny

LEMMA LoopExprKeeps == ASSUME NEW v, Now(v), LoopExpr PROVE Kept
<1> DEFINE n == NextBlock(builder)
           P == start_new_block(start_new_block(builder, Open(builder)), Open(builder))
           T == terminate(P, block, Jump("Goto", <<n>>, NoOperand))
           loop == [extent |-> extent_of_innermost_scope(builder), continue_block |-> n,
                    break_block |-> n + 1, break_destination |-> Top.dest]
           e == [do |-> "loop_end", loop |-> loop]
           t == [do |-> "test", loop |-> loop]
           a == [do |-> "body"]
           loops == Append(builder.loop_scopes, loop)
           R == Tail(todo)
           x == v.x \union {n + 1}
<1>1. Common(v) /\ Rest(Scopes, Loops, Len(operands), v.y, v.x) BY Neutral DEF LoopExpr, At
<1>2. Top.dest \in LocalsOf(builder) BY <1>1 DEF Common, FieldsOK, LoopExpr, At
<1>3. /\ builder' = [T EXCEPT !.loop_scopes = Append(@, loop)] /\ block' = n
      /\ todo' = <<Operand, t, a, e>> \o R \/ todo' = <<a, e>> \o R
      /\ operands' = operands /\ yields' = yields
  BY DEF LoopExpr, Then, program
<1>4. /\ Advances(builder, T) /\ Jumpable(T, n) /\ Jumpable(T, n + 1)
      /\ Filling(T, n, operands, yields, v.y, x)
      /\ n + 1 \notin v.x /\ n \in Nat
  BY <1>1, LoopBlocks
<1> HIDE DEF T, n
<1>5. /\ T.loop_scopes = builder.loop_scopes /\ T.scopes = builder.scopes
      /\ T.local_decls = builder.local_decls /\ BuilderOK(T)
  BY <1>4 DEF Advances
<1>6. loop.extent = builder.scopes[Scopes].extent /\ Scopes \in 2..Scopes
  BY <1>1 DEF extent_of_innermost_scope, Last, Scopes, Common
<1>7. /\ e.do = "loop_end" /\ e.loop = loop /\ t.do = "test" /\ t.loop = loop /\ a.do = "body"
      /\ loop.continue_block = n /\ loop.break_block = n + 1 /\ loop.break_destination = Top.dest
      /\ loop = [extent |-> loop.extent, continue_block |-> loop.continue_block,
                 break_block |-> loop.break_block, break_destination |-> loop.break_destination]
  OBVIOUS
<1> HIDE DEF loop, e, t, a
<1>8. LoopOK(T, loop)
  <2>1. loop.extent \in Nat
    <3>1. builder.scopes \in Seq(ScopeRecords) BY <1>1, BuilderFields DEF Common, BuilderOK
    <3>2. Scopes \in 1..Len(builder.scopes) BY <1>6 DEF Scopes
    <3>3. builder.scopes[Scopes] \in ScopeRecords BY <3>1, <3>2
    <3> QED BY <1>6, <3>3 DEF ScopeRecords
  <2>2. Top.dest \in Nat BY <1>2 DEF LocalsOf
  <2>3. loop \in LoopRecords BY <1>4, <1>7, <2>1, <2>2 DEF LoopRecords
  <2>4. Top.dest \in LocalsOf(T) BY <1>2, <1>5 DEF LocalsOf
  <2> QED BY <1>4, <1>7, <2>3, <2>4 DEF LoopOK
<1>9. /\ loops \in Seq(LoopRecords) /\ Len(loops) = Loops + 1 /\ loops[Loops + 1] = loop
      /\ \A j \in 1..Loops : loops[j] = builder.loop_scopes[j]
      /\ Loops \in Nat
  <2>1. builder.loop_scopes \in Seq(LoopRecords) BY <1>1, BuilderFields DEF Common, BuilderOK
  <2>2. loop \in LoopRecords BY <1>8 DEF LoopOK
  <2> QED BY <2>1, <2>2, AppendProperties DEF Loops
<1> HIDE DEF loops
<1>10. Relooped(T, builder', loops)
  <2>1. builder' = [T EXCEPT !.loop_scopes = loops] BY <1>3, <1>5 DEF loops
  <2>2. ASSUME NEW i \in 1..Len(loops) PROVE LoopOK(T, loops[i])
    <3>1. CASE i = Loops + 1 BY <1>8, <1>9, <3>1
    <3>2. CASE i # Loops + 1
      <4>1. i \in 1..Loops BY <1>9, <3>2
      <4>2. loops[i] = T.loop_scopes[i] /\ i \in 1..Len(T.loop_scopes) BY <1>5, <1>9, <4>1 DEF Loops
      <4> QED BY <1>5, <4>2 DEF BuilderOK, Looping
    <3> QED BY <3>1, <3>2
  <2> QED BY <1>5, <1>9, <2>1, <2>2, LoopsSet
<1> HIDE DEF x
<1>11. Filling(builder', n, operands, yields, v.y, x) BY <1>4, <1>10, FillingRelooped
<1>12. HasPlan(R, builder', Scopes, Loops, Len(operands), v.y, v.x) /\ Frames(R)
  <2>1. HasPlan(R, T, Scopes, Loops, Len(operands), v.y, v.x) /\ Frames(R)
    BY <1>1, <1>4, AdvancedRest DEF R
  <2> QED BY <1>5, <1>9, <1>10, <2>1, PlanRelooped
<1> HIDE DEF R
<1> DEFINE E == <<e>> \o R
           A == <<a>> \o E
           S == <<t>> \o A
<1>13. HasPlan(E, builder', Scopes, Loops + 1, Len(operands), v.y, x)
  <2> DEFINE c == n + 1
  <2>1. c \in BlocksOf(builder') /\ c \notin v.x BY <1>4, <1>10 DEF Relooped, Jumpable
  <2>2. LoopOK(builder', loop) BY <1>8, <1>10 DEF LoopOK, Relooped, LocalsOf
  <2>3. builder'.loop_scopes[Loops + 1] = loop /\ builder'.scopes = builder.scopes
    BY <1>5, <1>9, <1>10 DEF Relooped
  <2>4. \E i \in 2..Scopes : builder'.scopes[i].extent = loop.extent BY <1>6, <2>3
  <2>5. x = v.x \union {c} /\ loop.break_block = c BY <1>7 DEF x
  <2> HIDE DEF c
  <2>6. e.loop.break_block = c BY <1>7, <2>5
  <2>7. HasPlan(<<e>> \o R, builder', Scopes, Loops + 1, Len(operands), v.y, v.x \union {c})
    BY <1>7, <1>12, <2>1, <2>2, <2>3, <2>4, <2>6, PushLoopEnd
  <2> QED BY <2>5, <2>7
<1> DEFINE l == Loops + 1
           o == Len(operands)
<1>14. o \in Nat /\ HasPlan(E, builder', Scopes, l, o, v.y, x) BY <1>1, <1>13 DEF Common
<1> HIDE DEF E, l, o
<1>15. HasPlan(A, builder', Scopes, l, o, v.y, x) BY <1>7, <1>14, PushFree
<1>16. HasPlan(todo', builder', Scopes, l, o, v.y, x)
  <2>1. CASE todo' = <<a, e>> \o R
    <3>1. todo' = A BY <1>12, <2>1, ConsTwo DEF E
    <3> QED BY <1>15, <3>1
  <2>2. CASE todo' = <<Operand, t, a, e>> \o R
    <3>1. todo' = <<Operand>> \o S
      <4>1. Four(R, Operand, t, a, e) BY <1>12, ConsFour
      <4> QED BY ONLY <2>2, <4>1 DEF Four, E
    <3>2. LoopOK(builder', loop) BY <1>8, <1>10 DEF LoopOK, Relooped, LocalsOf
    <3> HIDE DEF A
    <3>3. HasPlan(S, builder', Scopes, l, o + 1, v.y, x) BY <1>7, <1>15, <3>2, PushTakes
    <3> HIDE DEF S
    <3>4. Operand.do \in {"operand", "rvalue", "lvalue"} BY DEF Operand
    <3>5. HasPlan(<<Operand>> \o S, builder', Scopes, l, o, v.y, x) BY <1>14, <3>3, <3>4, PushOperand
    <3> QED BY <3>1, <3>5
  <2> QED BY <1>3, <2>1, <2>2
<1>17. Scopes = Len(builder'.scopes) /\ l = Len(builder'.loop_scopes)
  BY <1>5, <1>9, <1>10 DEF Relooped, Scopes, l
<1>18. o = Len(operands) BY DEF o
<1> HIDE DEF A, S
<1> QED BY <1>3, <1>11, <1>16, <1>17, <1>18, Filled_StateOK DEF Kept

LEMMA WhileTestKeeps == ASSUME NEW v, Now(v), WhileTest PROVE Kept
<1> DEFINE n == NextBlock(builder)
           k == Top.loop.break_block
           d == Top.loop.break_destination
           P == start_new_block(builder, Open(builder))
           T == terminate(P, block, Jump("If", <<n, k>>, Last(operands)))
<1>1. /\ Common(v) /\ Rest(Scopes, Loops, Len(operands) - 1, v.y, v.x)
      /\ Last(operands).moved \in SUBSET LocalsOf(builder)
      /\ Last(operands).read \in SUBSET LocalsOf(builder)
      /\ Front(operands) \in Seq(OperandsOf(builder)) /\ Len(Front(operands)) = Len(operands) - 1
  BY Taking DEF WhileTest, At
<1>2. /\ builder' = push_assign_unit(T, k, d) /\ block' = n /\ todo' = << >> \o Tail(todo)
      /\ operands' = Front(operands) /\ yields' = yields
  BY DEF WhileTest, Then, program
<1>3. Jumpable(builder, k) /\ d \in LocalsOf(builder)
  BY <1>1 DEF Common, FieldsOK, WhileTest, At, LoopOK
<1> HIDE DEF k, d
<1>4. /\ Advances(builder, P) /\ P.cached_return_block = builder.cached_return_block
      /\ n \notin BlocksOf(builder) /\ Jumpable(P, n)
      /\ Unended(P) = Unended(builder) \union {n} /\ Suspended(P) = Suspended(builder)
  <2>1. Open(builder) \in SUBSET Nat BY <1>1, OpenExtents DEF Common
  <2> QED BY <1>1, <2>1, BlockStarted DEF Common
<1> HIDE DEF P
<1>5. Filling(builder, block, operands, yields, v.y, v.x) BY <1>1 DEF Common
<1> DEFINE c == builder.cached_return_block
<1>6. /\ Unended(builder) = v.x \union {block} \union ({c} \ {None})
      /\ block \notin v.x /\ v.x \intersect ({c} \ {None}) = {} /\ c # block
      /\ block \in BlocksOf(builder) /\ v.x \subseteq BlocksOf(builder)
      /\ c \in BlocksOf(builder) \union {None} /\ n # None
      /\ "yield_rvalue" \notin Forms => yields = Cardinality(Suspended(builder)) + v.y
  <2>1. NextBlock(builder) >= 2 BY <1>5, FillingFacts
  <2> QED BY <1>5, <2>1, FillingFacts DEF None
<1> HIDE DEF n
<1>7. block \in Unended(P) /\ BuilderOK(P) /\ Jumpable(P, k) /\ LocalsOf(P) = LocalsOf(builder)
  BY <1>3, <1>4, <1>6 DEF Advances, LocalsOf
<1>8. /\ Advances(P, T) /\ T.cached_return_block = P.cached_return_block
      /\ Unended(T) = Unended(P) \ {block} /\ Suspended(T) = Suspended(P)
  BY <1>1, <1>4, <1>7, Branched
<1> HIDE DEF T
<1>9. BuilderOK(T) /\ k \in BlocksOf(T) /\ d \in LocalsOf(T)
  BY <1>3, <1>7, <1>8 DEF Advances, Jumpable, LocalsOf
<1>10. /\ Advances(T, builder') /\ builder'.cached_return_block = T.cached_return_block
       /\ Unended(builder') = Unended(T) /\ Suspended(builder') = Suspended(T)
  BY <1>2, <1>9, PushUnit, FillsAdvances
<1>11. Advances(builder, builder')
  <2>1. Advances(builder, T) BY <1>1, <1>4, <1>8, AdvancesTransitive DEF Common
  <2> QED BY <1>1, <1>10, <2>1, AdvancesTransitive DEF Common
<1>12. Filling(builder', n, Front(operands), yields, v.y, v.x)
  <2>1. /\ Unended(builder') = v.x \union {n} \union ({c} \ {None})
        /\ n \notin v.x /\ c # n
    BY <1>4, <1>6, <1>8, <1>10
  <2>2. builder'.cached_return_block = c /\ Suspended(builder') = Suspended(builder)
    BY <1>4, <1>8, <1>10
  <2>3. n \in BlocksOf(builder') BY <1>4, <1>8, <1>10 DEF Advances, Jumpable
  <2> HIDE DEF c
  <2> QED BY <1>1, <1>5, <1>6, <1>11, <2>1, <2>2, <2>3, Elsewhere
<1>13. HasPlan(Tail(todo), builder', Scopes, Loops, Len(operands) - 1, v.y, v.x) /\ Frames(Tail(todo))
  BY <1>1, <1>11, AdvancedRest
<1>14. todo' = Tail(todo) BY <1>2, <1>13, ConsNone
<1> QED BY <1>1, <1>2, <1>11, <1>12, <1>13, <1>14, Advanced

\* The block that gets the rest of the code after a loop, owned by its end.
LEMMA LoopEndKeeps == ASSUME NEW v, Now(v), LoopEnd PROVE Kept
<1> DEFINE f == Top
           k == Top.loop.break_block
           T == terminate(builder, block, Jump("Goto", <<Top.loop.continue_block>>, NoOperand))
           loops == Front(builder.loop_scopes)
           x == v.x \ {k}
<1>1. todo # << >> /\ Top.do = "loop_end" BY DEF LoopEnd, At
<1>2. /\ Common(v) /\ v \in Heights /\ v.o = Len(operands) /\ Owned(f) \subseteq v.x
      /\ Rest(v.s - Closes(f), v.l - Ends(f), (v.o + Makes(f)) - Takes(f), v.y - Suspends(f),
              v.x \ Owned(f))
  BY <1>1, Started
<1>3. /\ Closes(f) = 0 /\ Ends(f) = 1 /\ Makes(f) = 0 /\ Takes(f) = 0 /\ Suspends(f) = 0
      /\ Owned(f) = {k}
  BY <1>1 DEF Closes, Ends, Makes, Takes, Suspends, Owned
<1>4. /\ builder' = [T EXCEPT !.asserts = @ /\ Last(builder.loop_scopes).extent = Top.loop.extent,
                              !.loop_scopes = Front(@)]
      /\ block' = k /\ todo' = << >> \o Tail(todo) /\ operands' = operands /\ yields' = yields
  BY DEF LoopEnd, Then, program
<1>5. LoopOK(builder, Top.loop) /\ v.l >= 1 /\ builder.loop_scopes[v.l] = Top.loop
  BY <1>1, <1>2 DEF Common, FieldsOK
<1> HIDE DEF f, k
<1>6. Rest(Scopes, Loops - 1, Len(operands), v.y, x) /\ k \in v.x
  <2>1. v.s \in Nat /\ v.l \in Nat /\ v.o \in Nat /\ v.y \in Nat /\ v.s = Scopes /\ v.l = Loops
    BY <1>2 DEF Heights, Common
  <2>2. /\ v.s - Closes(f) = Scopes /\ v.l - Ends(f) = Loops - 1
        /\ (v.o + Makes(f)) - Takes(f) = Len(operands)
        /\ v.y - Suspends(f) = v.y /\ v.x \ Owned(f) = x
    BY <1>2, <1>3, <2>1
  <2> HIDE DEF x
  <2> QED BY <1>2, <1>3, <2>2
<1>7. Filling(builder, block, operands, yields, v.y, v.x) BY <1>2 DEF Common
<1> DEFINE c == builder.cached_return_block
<1>8. /\ Unended(builder) = v.x \union {block} \union ({c} \ {None})
      /\ block \notin v.x /\ v.x \intersect ({c} \ {None}) = {} /\ c # block
      /\ block \in Unended(builder) /\ None \notin BlocksOf(builder) /\ k \in BlocksOf(builder)
      /\ "yield_rvalue" \notin Forms => yields = Cardinality(Suspended(builder)) + v.y
  BY <1>6, <1>7, FillingFacts
<1>9. /\ Advances(builder, T) /\ T.cached_return_block = c
      /\ Unended(T) = Unended(builder) \ {block} /\ Suspended(T) = Suspended(builder)
  BY <1>2, <1>5, <1>8, Jumped DEF Common, LoopOK
<1> HIDE DEF T
<1>10. /\ T.loop_scopes = builder.loop_scopes /\ T.scopes = builder.scopes
       /\ T.local_decls = builder.local_decls /\ BuilderOK(T)
  BY <1>9 DEF Advances
<1>11. /\ loops \in Seq(LoopRecords) /\ Len(loops) = Loops - 1
       /\ \A j \in 1..(Loops - 1) : loops[j] = builder.loop_scopes[j]
       /\ Last(builder.loop_scopes) = builder.loop_scopes[Loops] /\ Loops \in Nat /\ Loops >= 1
  <2>1. builder.loop_scopes \in Seq(LoopRecords) BY <1>2, BuilderFields DEF Common, BuilderOK
  <2>2. Loops >= 1 /\ Loops \in Nat BY <1>2, <1>5 DEF Common
  <2> QED BY <2>1, <2>2 DEF Loops, Front, Last
<1> HIDE DEF loops
<1>12. Relooped(T, builder', loops)
  <2>1. builder' = [T EXCEPT !.loop_scopes = loops]
    <3>1. Last(builder.loop_scopes) = Top.loop BY <1>2, <1>5, <1>11 DEF Common
    <3>2. T \in Builders BY <1>10 DEF BuilderOK
    <3>3. builder' = [T EXCEPT !.asserts = T.asserts, !.loop_scopes = loops]
      BY <1>4, <1>10, <3>1, <3>2 DEF Builders, loops
    <3> QED BY <3>2, <3>3 DEF Builders
  <2>2. ASSUME NEW i \in 1..Len(loops) PROVE LoopOK(T, loops[i])
    <3>1. loops[i] = T.loop_scopes[i] /\ i \in 1..Len(T.loop_scopes) BY <1>10, <1>11 DEF Loops
    <3> QED BY <1>10, <3>1 DEF BuilderOK, Looping
  <2> QED BY <1>10, <1>11, <2>1, <2>2, LoopsSet
<1>13. Filling(T, k, operands, yields, v.y, x)
  <2>1. /\ Unended(T) = x \union {k} \union ({c} \ {None})
        /\ k \notin x /\ x \intersect ({c} \ {None}) = {} /\ c # k
    BY <1>6, <1>8, <1>9
  <2>2. k \in BlocksOf(T) BY <1>5, <1>9 DEF LoopOK, Advances, Jumpable, k
  <2>3. operands \in Seq(OperandsOf(builder)) BY <1>2 DEF Common
  <2> HIDE DEF x, c
  <2> QED BY <1>7, <1>8, <1>9, <2>1, <2>2, <2>3, Elsewhere
<1> HIDE DEF x
<1>14. Filling(builder', k, operands, yields, v.y, x) BY <1>12, <1>13, FillingRelooped
<1> DEFINE l == Loops - 1
<1>15. HasPlan(Tail(todo), builder', Scopes, l, Len(operands), v.y, x) /\ Frames(Tail(todo))
  <2>1. HasPlan(Tail(todo), T, Scopes, l, Len(operands), v.y, x) /\ Frames(Tail(todo))
    BY <1>2, <1>6, <1>9, AdvancedRest
  <2> QED BY <1>10, <1>11, <1>12, <2>1, PlanRelooped
<1>16. Scopes = Len(builder'.scopes) /\ l = Len(builder'.loop_scopes)
  BY <1>10, <1>11, <1>12 DEF Relooped, Scopes
<1> HIDE DEF l
<1>17. todo' = Tail(todo) BY <1>4, <1>15, ConsNone
<1>18. HasPlan(todo', builder', Scopes, l, Len(operands), v.y, x) BY <1>15, <1>17
<1>19. \E w : StateOK(builder', k, todo', operands, yields, w)
  BY ONLY <1>14, <1>16, <1>18, Filled_StateOK
<1> QED BY <1>4, <1>19 DEF Kept

-----------------------------------------------------------------------------
\* The suspension.
LEMMA SuspendFits ==
  ASSUME NEW n \in Nat, n >= 2, NEW k \in Nat, NEW x \in 1..k, NEW z, OperandFits(z, n), NEW t,
         t = [op |-> "Suspend", succ |-> <<x>>, binds |-> <<{COROUTINE_ARGS}>>,
              moved |-> z.moved, read |-> z.read]
  PROVE  Terminates(t, "Suspend", <<x>>, n, k)
<1>1. {COROUTINE_ARGS} \in SUBSET (1..n) BY DEF COROUTINE_ARGS
<1> DEFINE s == <<x>>
           d == <<{COROUTINE_ARGS}>>
<1>2. s \in Seq(1..k) /\ s \in Seq(Nat) /\ Len(s) = 1 OBVIOUS
<1>3. d \in Seq(SUBSET (1..n)) /\ d \in Seq(SUBSET Nat) /\ Len(d) = 1 /\ d[1] = {COROUTINE_ARGS}
  BY <1>1
<1>4. /\ t.op = "Suspend" /\ t.succ = s /\ t.binds = d /\ t.moved = z.moved /\ t.read = z.read
      /\ t = [op |-> "Suspend", succ |-> s, binds |-> d, moved |-> z.moved, read |-> z.read]
  OBVIOUS
<1> HIDE DEF s, d
<1>5. z.moved \in SUBSET (1..n) /\ z.read \in SUBSET (1..n) BY DEF OperandFits
<1>6. z.moved \in SUBSET Nat /\ z.read \in SUBSET Nat BY <1>5
<1>7. t \in AnyTerminator BY <1>2, <1>3, <1>4, <1>6 DEF AnyTerminator, TermOps
<1>8. IsTerminator(t, n, k) BY <1>2, <1>3, <1>4, <1>5 DEF IsTerminator, TermOps
<1> QED BY <1>4, <1>7, <1>8 DEF Terminates, s

LEMMA SuspendKeeps == ASSUME NEW v, Now(v), Suspend PROVE Kept
<1> DEFINE f == Top
           n == NextBlock(builder)
           z == Last(operands)
           P == start_new_block(builder, Open(builder))
           t == [op |-> "Suspend", succ |-> <<n>>, binds |-> <<{COROUTINE_ARGS}>>,
                 moved |-> z.moved, read |-> z.read]
           T == terminate(P, block, t)
           c == builder.cached_return_block
<1>1. todo # << >> /\ Top.do = "suspend" BY DEF Suspend, At
<1>2. /\ Common(v) /\ v \in Heights /\ v.o = Len(operands) /\ v.o >= Takes(f)
      /\ Rest(v.s - Closes(f), v.l - Ends(f), (v.o + Makes(f)) - Takes(f), v.y - Suspends(f),
              v.x \ Owned(f))
  BY <1>1, Started
<1>3. /\ Closes(f) = 0 /\ Ends(f) = 0 /\ Makes(f) = 0 /\ Takes(f) = 1 /\ Suspends(f) = 1
      /\ Owned(f) = {}
  BY <1>1 DEF Closes, Ends, Makes, Takes, Suspends, Owned
<1>4. /\ builder' = push(T, n, Write({Top.dest}, {COROUTINE_ARGS}, {}))
      /\ block' = n /\ todo' = << >> \o Tail(todo) /\ operands' = Front(operands)
      /\ yields' = yields
  BY DEF Suspend, Then, program
<1>5. Top.dest \in LocalsOf(builder) BY <1>1, <1>2 DEF Common, FieldsOK
<1> HIDE DEF f
<1>6. /\ Rest(Scopes, Loops, Len(operands) - 1, v.y - 1, v.x)
      /\ v.y - 1 \in Nat /\ v.y \in Nat /\ Len(operands) >= 1
  <2>1. /\ v.s \in Nat /\ v.l \in Nat /\ v.o \in Nat /\ v.y \in Nat /\ v.s = Scopes /\ v.l = Loops
        /\ v.x \in SUBSET Nat
    BY <1>2 DEF Heights, Common
  <2>2. /\ v.s - Closes(f) = Scopes /\ v.l - Ends(f) = Loops
        /\ (v.o + Makes(f)) - Takes(f) = Len(operands) - 1
        /\ v.y - Suspends(f) = v.y - 1 /\ v.x \ Owned(f) = v.x /\ Len(operands) >= 1
    BY <1>2, <1>3, <2>1
  <2>3. Rest(Scopes, Loops, Len(operands) - 1, v.y - 1, v.x) BY <1>2, <2>2
  <2>4. v.y - 1 \in Nat BY <2>3, PlanNumbers DEF Rest
  <2> QED BY <2>1, <2>2, <2>3, <2>4
<1>7. /\ z.moved \in SUBSET LocalsOf(builder) /\ z.read \in SUBSET LocalsOf(builder)
      /\ Front(operands) \in Seq(OperandsOf(builder)) /\ Len(Front(operands)) = Len(operands) - 1
  BY <1>2, <1>6, LastOperand DEF Common
<1> HIDE DEF z
<1>8. /\ Advances(builder, P) /\ P.cached_return_block = c
      /\ n \notin BlocksOf(builder) /\ Jumpable(P, n)
      /\ Unended(P) = Unended(builder) \union {n} /\ Suspended(P) = Suspended(builder)
  <2>1. Open(builder) \in SUBSET Nat BY <1>2, OpenExtents DEF Common
  <2> QED BY <1>2, <2>1, BlockStarted DEF Common
<1> HIDE DEF P
<1>9. Filling(builder, block, operands, yields, v.y, v.x) BY <1>2 DEF Common
<1>10. /\ Unended(builder) = v.x \union {block} \union ({c} \ {None})
       /\ block \notin v.x /\ v.x \intersect ({c} \ {None}) = {} /\ c # block
       /\ block \in BlocksOf(builder) /\ v.x \subseteq BlocksOf(builder)
       /\ c \in BlocksOf(builder) \union {None} /\ n # None
       /\ "yield_rvalue" \notin Forms => yields = Cardinality(Suspended(builder)) + v.y
  <2>1. NextBlock(builder) >= 2 BY <1>9, FillingFacts
  <2> QED BY <1>9, <2>1, FillingFacts DEF None
<1> HIDE DEF n
<1>11. /\ block \in Unended(P) /\ BuilderOK(P) /\ LocalsOf(P) = LocalsOf(builder)
       /\ Len(P.local_decls) \in Nat /\ Len(P.local_decls) >= 2 /\ Len(P.basic_blocks) \in Nat
  <2>1. block \in Unended(P) /\ BuilderOK(P) /\ LocalsOf(P) = LocalsOf(builder)
    BY <1>8, <1>10 DEF Advances, LocalsOf
  <2> QED BY <2>1, BuilderFields DEF BuilderOK
<1>12. Terminates(t, "Suspend", <<n>>, Len(P.local_decls), Len(P.basic_blocks))
  <2>1. n \in 1..Len(P.basic_blocks) BY <1>8 DEF Jumpable, BlocksOf
  <2>2. OperandFits(z, Len(P.local_decls)) BY <1>7, <1>11 DEF OperandFits, LocalsOf
  <2> QED BY <1>11, <2>1, <2>2, SuspendFits
<1>13. /\ t \in AnyTerminator /\ IsTerminator(t, Len(P.local_decls), Len(P.basic_blocks))
       /\ t.op = "Suspend" /\ t.succ = <<n>>
  BY <1>12 DEF Terminates
<1> HIDE DEF t
<1>14. \A i \in 1..Len(t.succ) : Jumpable(P, t.succ[i]) BY <1>8, <1>13
<1>15. /\ Advances(P, T) /\ T.cached_return_block = P.cached_return_block
       /\ Unended(T) = Unended(P) \ {block} /\ Suspended(T) = Suspended(P) \union {block}
       /\ block \notin Suspended(P)
  BY <1>11, <1>13, <1>14, Terminated
<1> HIDE DEF T
<1>16. BuilderOK(T) /\ n \in BlocksOf(T) /\ Top.dest \in LocalsOf(T) /\ COROUTINE_ARGS \in LocalsOf(T)
  <2>1. BuilderOK(T) /\ n \in BlocksOf(T) /\ LocalsOf(T) = LocalsOf(P)
    BY <1>8, <1>15 DEF Advances, Jumpable, LocalsOf
  <2> QED BY <1>5, <1>11, <2>1 DEF LocalsOf, COROUTINE_ARGS
<1>17. /\ Advances(T, builder') /\ builder'.cached_return_block = T.cached_return_block
       /\ Unended(builder') = Unended(T) /\ Suspended(builder') = Suspended(T)
  <2>1. {Top.dest} \in SUBSET LocalsOf(T) /\ {COROUTINE_ARGS} \in SUBSET LocalsOf(T)
        /\ {} \in SUBSET LocalsOf(T)
    BY <1>16
  <2>2. Fills(T, push(T, n, Write({Top.dest}, {COROUTINE_ARGS}, {}))) BY <1>16, <2>1, PushWrite
  <2> QED BY <1>4, <1>16, <2>2, FillsAdvances
<1>18. Advances(builder, builder')
  <2>1. Advances(builder, T) BY <1>2, <1>8, <1>15, AdvancesTransitive DEF Common
  <2> QED BY <1>2, <1>17, <2>1, AdvancesTransitive DEF Common
<1> DEFINE y == v.y - 1
<1>19. Filling(builder', n, Front(operands), yields, y, v.x)
  <2>1. /\ Unended(builder') = v.x \union {n} \union ({c} \ {None})
        /\ n \notin v.x /\ c # n
    BY <1>8, <1>10, <1>15, <1>17
  <2>2. builder'.cached_return_block = c BY <1>8, <1>15, <1>17
  <2>3. n \in BlocksOf(builder') BY <1>8, <1>15, <1>17 DEF Advances, Jumpable
  <2>4. ASSUME "yield_rvalue" \notin Forms
        PROVE  yields = Cardinality(Suspended(builder')) + y
    <3> DEFINE U == Suspended(builder)
    <3>1. IsFiniteSet(U) /\ Cardinality(U) \in Nat BY <1>2, SuspendedFinite DEF Common
    <3>2. Suspended(builder') = U \union {block} /\ block \notin U BY <1>8, <1>15, <1>17
    <3>3. Cardinality(U \union {block}) = Cardinality(U) + 1 BY <3>1, <3>2, FS_AddElement
    <3>4. yields = Cardinality(U) + v.y BY <1>10, <2>4
    <3> HIDE DEF U
    <3> QED BY <1>6, <3>1, <3>2, <3>3, <3>4
  <2> HIDE DEF c, y
  <2> QED BY <1>7, <1>9, <1>10, <1>18, <2>1, <2>2, <2>3, <2>4, Elsewhere
<1>20. HasPlan(Tail(todo), builder', Scopes, Loops, Len(operands) - 1, y, v.x) /\ Frames(Tail(todo))
  BY <1>2, <1>6, <1>18, AdvancedRest
<1> HIDE DEF y
<1>21. todo' = Tail(todo) BY <1>4, <1>20, ConsNone
<1> QED BY <1>2, <1>4, <1>7, <1>18, <1>19, <1>20, <1>21, Advanced
-----------------------------------------------------------------------------
(***************************************************************************)
(* Between the arms of a match no block is being filled.                   *)
(***************************************************************************)
Between(B, ops, ys, y, x) ==
  /\ BuilderOK(B) /\ Len(B.local_decls) >= Len(Args) + 2
  /\ ops \in Seq(OperandsOf(B))
  /\ "let_wild" \notin Forms => B.asserts
  /\ "yield_rvalue" \notin Forms => ys = Cardinality(Suspended(B)) + y
  /\ Unended(B) = x \union ({B.cached_return_block} \ {None})
  /\ x \intersect ({B.cached_return_block} \ {None}) = {}

Waiting(s, l, o, y, x) == [s |-> s, l |-> l, o |-> o, y |-> y, x |-> x, c |-> FALSE]
Waits(fs, B, s, l, o, y, x) ==
  /\ Planned(fs, B, Waiting(s, l, o, y, x)) /\ Stands(Waiting(s, l, o, y, x), B)

LEMMA BetweenFilling ==
  ASSUME NEW B, NEW ops, NEW ys, NEW y, NEW x, Between(B, ops, ys, y, x), NEW b \in x
  PROVE  Filling(B, b, ops, ys, y, x \ {b})
<1>1. b \in BlocksOf(B) BY DEF Between, Unended
<1>2. B.cached_return_block # b
  <2>1. b # None BY <1>1 DEF BlocksOf, None
  <2> QED BY <2>1 DEF Between
<1> QED BY <1>1, <1>2 DEF Between, Filling

LEMMA FillingEnded ==
  ASSUME NEW B, NEW b, NEW ops, NEW ys, NEW y, NEW x, Filling(B, b, ops, ys, y, x),
         NEW B2, Advances(B, B2), B2.cached_return_block = B.cached_return_block,
         Unended(B2) = Unended(B) \ {b}, Suspended(B2) = Suspended(B)
  PROVE  Between(B2, ops, ys, y, x)
<1>1. /\ BuilderOK(B2) /\ B2.local_decls = B.local_decls /\ B2.asserts = B.asserts
      /\ OperandsOf(B2) = OperandsOf(B)
  BY DEF Advances, OperandsOf, LocalsOf
<1> QED BY <1>1 DEF Filling, Between

LEMMA Between_StateOK ==
  ASSUME NEW B, NEW b \in BlocksOf(B), NEW fs, NEW ops, NEW ys, NEW y, NEW x,
         Between(B, ops, ys, y, x), NEW s, NEW l, NEW o, Waits(fs, B, s, l, o, y, x),
         s = Len(B.scopes), l = Len(B.loop_scopes), o = Len(ops)
  PROVE  \E w : StateOK(B, b, fs, ops, ys, w)
<1> DEFINE v == Waiting(s, l, o, y, x)
<1>1. v.s = s /\ v.l = l /\ v.o = o /\ v.y = y /\ v.x = x /\ v.c = FALSE BY DEF Waiting
<1>2. Planned(fs, B, v) /\ Stands(v, B) BY DEF Waits
<1> HIDE DEF v
<1>3. fs # << >>
  <2> SUFFICES ASSUME fs = << >> PROVE FALSE OBVIOUS
  <2>1. v = NoneLeft BY <1>2, PlanDone
  <2>2. v.s >= 2 BY <1>2 DEF Stands
  <2> QED BY <2>1, <2>2 DEF NoneLeft
<1>4. Parts(B, b, fs, v)
  <2>1. /\ Unended(B) = x \union ({B.cached_return_block} \ {None})
        /\ x \intersect ({B.cached_return_block} \ {None}) = {}
    BY DEF Between
  <2> QED BY <1>1, <1>3, <2>1 DEF Parts
<1>5. StateOK(B, b, fs, ops, ys, v) BY <1>1, <1>2, <1>4 DEF StateOK, Between
<1> QED BY <1>5

LEMMA WaitsOn ==
  ASSUME NEW fs, NEW B, NEW B2, NEW s, NEW l, NEW o, NEW y, NEW x, Waits(fs, B, s, l, o, y, x),
         Continues(B, B2, Waiting(s, l, o, y, x))
  PROVE  Waits(fs, B2, s, l, o, y, x)
<1> DEFINE v == Waiting(s, l, o, y, x)
<1>1. Planned(fs, B, v) /\ Stands(v, B) /\ Continues(B, B2, v) BY DEF Waits
<1>2. v \in Heights BY <1>1 DEF Stands
<1>3. v.s <= v.s /\ v.l <= v.l BY <1>2 DEF Heights
<1> HIDE DEF v
<1>4. Planned(fs, B2, v) BY <1>1, PlanKept
<1>5. Stands(v, B2) BY <1>1, <1>2, <1>3, StandsKept
<1> QED BY <1>4, <1>5 DEF Waits, v

LEMMA WaitingStands ==
  ASSUME NEW B, NEW s, NEW l, NEW o, NEW y, NEW x, Stands(Level(s, l, o, y, x), B),
         NEW x2 \in SUBSET Nat
  PROVE  /\ Stands(Waiting(s, l, o, y, x2), B)
         /\ Waiting(s, l, o, y, x2) \in Heights /\ s \in Nat /\ s >= 2
<1> DEFINE u == Level(s, l, o, y, x)
           w == Waiting(s, l, o, y, x2)
<1>1. /\ u.s = s /\ u.l = l /\ u.o = o /\ u.y = y /\ w.s = s /\ w.l = l
      /\ w = [s |-> s, l |-> l, o |-> o, y |-> y, x |-> x2, c |-> FALSE]
  BY DEF Level, Waiting
<1>2. Stands(u, B) OBVIOUS
<1> HIDE DEF u, w
<1>3. s \in Nat /\ l \in Nat /\ o \in Nat /\ y \in Nat /\ s >= 2
  BY <1>1, <1>2 DEF Stands, Heights
<1>4. w \in Heights BY <1>1, <1>3 DEF Heights
<1>5. Stands(w, B) BY <1>1, <1>2, <1>4 DEF Stands, Encloses
<1> QED BY <1>3, <1>4, <1>5 DEF w

\* The frame of the arms that are left, in front of the plan after the match.
LEMMA PushArms ==
  ASSUME NEW fs, NEW B, NEW s, NEW l, NEW o, NEW y, NEW x, HasPlan(fs, B, s, l, o, y, x), NEW f,
         f.do = "arms", f.dest \in LocalsOf(B), ArmsFrame(f, B),
         NEW x2 \in SUBSET Nat, Owned(f) \subseteq x2, x2 \ Owned(f) = x
  PROVE  Waits(<<f>> \o fs, B, s, l, o, y, x2)
<1> DEFINE u == Level(s, l, o, y, x)
           w == Waiting(s, l, o, y, x2)
<1>1. w.s = s /\ w.l = l /\ w.o = o /\ w.y = y /\ w.x = x2 /\ w.c = FALSE BY DEF Waiting
<1>2. Planned(fs, B, u) /\ Stands(u, B) BY DEF HasPlan
<1>3. Stands(w, B) /\ w \in Heights /\ s \in Nat /\ s >= 2 BY <1>2, WaitingStands
<1>4. /\ Closes(f) = 0 /\ Ends(f) = 0 /\ Makes(f) = 0 /\ Takes(f) = 0 /\ Suspends(f) = 0
  BY DEF Closes, Ends, Makes, Takes, Suspends
<1>5. w.o \in Nat /\ w.l \in Nat /\ w.y \in Nat BY <1>3 DEF Heights
<1>6. After(f, w) = u
  <2>1. /\ w.s - Closes(f) = s /\ w.l - Ends(f) = l /\ (w.o + Makes(f)) - Takes(f) = o
        /\ w.y - Suspends(f) = y /\ w.x \ Owned(f) = x
    BY <1>1, <1>3, <1>4, <1>5
  <2>2. (f.do \notin {"arm_end", "epilogue"}) = TRUE OBVIOUS
  <2> HIDE DEF w
  <2> QED BY <2>1, <2>2 DEF After, Level
<1>7. FieldsOK(f, w, B) BY DEF FieldsOK
<1>8. FrameOK(f, w, B)
  <2>1. w.c = (f.do # "arms") BY <1>1
  <2>2. w.o >= Takes(f) /\ w.s >= Closes(f) + 2 /\ Owned(f) \subseteq w.x BY <1>1, <1>3, <1>4, <1>5
  <2> HIDE DEF w
  <2> QED BY <1>3, <1>7, <2>1, <2>2 DEF FrameOK
<1> HIDE DEF u, w
<1>9. Planned(<<f>> \o fs, B, w) BY <1>2, <1>3, <1>6, <1>8, PlanPush
<1> QED BY <1>3, <1>9 DEF Waits, w

\* The frame that ends an arm, in front of the frame of the others.
LEMMA PushArmEnd ==
  ASSUME NEW fs, NEW B, NEW s, NEW l, NEW o, NEW y, NEW x, Waits(fs, B, s, l, o, y, x), NEW f,
         f.do = "arm_end", Jumpable(B, f.end)
  PROVE  HasPlan(<<f>> \o fs, B, s, l, o, y, x)
<1> DEFINE u == Waiting(s, l, o, y, x)
           w == Level(s, l, o, y, x)
<1>1. /\ w.s = s /\ w.l = l /\ w.o = o /\ w.y = y /\ w.x = x /\ w.c = TRUE
      /\ w = [s |-> s, l |-> l, o |-> o, y |-> y, x |-> x, c |-> TRUE]
      /\ u.s = s /\ u.l = l /\ u.o = o /\ u.y = y /\ u.x = x
  BY DEF Waiting, Level
<1>2. Planned(fs, B, u) /\ Stands(u, B) BY DEF Waits
<1>3. /\ Closes(f) = 0 /\ Ends(f) = 0 /\ Makes(f) = 0 /\ Takes(f) = 0 /\ Suspends(f) = 0
      /\ Owned(f) = {}
  BY DEF Closes, Ends, Makes, Takes, Suspends, Owned
<1>4. s \in Nat /\ s >= 2 /\ l \in Nat /\ o \in Nat /\ y \in Nat /\ x \in SUBSET Nat
  <2> HIDE DEF u
  <2> QED BY <1>1, <1>2 DEF Stands, Heights
<1>5. After(f, w) = u
  <2>1. /\ w.s - Closes(f) = s /\ w.l - Ends(f) = l /\ (w.o + Makes(f)) - Takes(f) = o
        /\ w.y - Suspends(f) = y /\ w.x \ Owned(f) = x
    BY <1>1, <1>3, <1>4
  <2>2. (f.do \notin {"arm_end", "epilogue"}) = FALSE OBVIOUS
  <2> HIDE DEF w
  <2> QED BY <2>1, <2>2 DEF After, Waiting
<1> HIDE DEF u, w
<1>6. w \in Heights BY <1>1, <1>4 DEF Heights
<1>7. Stands(w, B) BY <1>1, <1>2, <1>6 DEF Stands, Encloses
<1>8. FieldsOK(f, w, B) BY DEF FieldsOK
<1>9. FrameOK(f, w, B)
  <2>1. w.c = (f.do # "arms") BY <1>1
  <2>2. w.o >= Takes(f) /\ w.s >= Closes(f) + 2 /\ Owned(f) \subseteq w.x BY <1>1, <1>3, <1>4
  <2> QED BY <1>7, <1>8, <2>1, <2>2 DEF FrameOK
<1>10. Planned(<<f>> \o fs, B, w) BY <1>2, <1>5, <1>6, <1>9, PlanPush
<1> QED BY <1>7, <1>10 DEF HasPlan, w

LEMMA ArmEndKeeps == ASSUME NEW v, Now(v), ArmEnd PROVE Kept
<1> DEFINE f == Top
           w == After(f, v)
           T == Tail(todo)
           o == Len(operands)
<1>1. todo # << >> /\ Top.do = "arm_end" BY DEF ArmEnd, At
<1>2. /\ Common(v) /\ v \in Heights /\ v.o = Len(operands)
      /\ v.s = Scopes /\ v.l = Loops
  BY <1>1, Started DEF Common
<1>3. Jumpable(builder, Top.end) BY <1>1, <1>2 DEF Common, FieldsOK
<1>4. /\ builder' = terminate(builder, block, Jump("Goto", <<Top.end>>, NoOperand))
      /\ todo' = << >> \o T /\ operands' = operands /\ yields' = yields /\ block' = block
  BY DEF ArmEnd, Then, program
<1>5. Planned(T, builder, w) /\ Stands(w, builder)
  <2>1. StateOK(builder, block, todo, operands, yields, v) BY DEF Now
  <2> QED BY <1>1, <2>1, TopFrame DEF Top
<1>6. w = Waiting(Scopes, Loops, o, v.y, v.x)
  <2>1. /\ Closes(f) = 0 /\ Ends(f) = 0 /\ Makes(f) = 0 /\ Takes(f) = 0 /\ Suspends(f) = 0
        /\ Owned(f) = {}
    BY <1>1 DEF Closes, Ends, Makes, Takes, Suspends, Owned
  <2>2. v.s \in Nat /\ v.l \in Nat /\ v.o \in Nat /\ v.y \in Nat BY <1>2 DEF Heights
  <2>3. /\ v.s - Closes(f) = Scopes /\ v.l - Ends(f) = Loops
        /\ (v.o + Makes(f)) - Takes(f) = o
        /\ v.y - Suspends(f) = v.y /\ v.x \ Owned(f) = v.x
    BY <1>2, <2>1, <2>2
  <2>4. (f.do \notin {"arm_end", "epilogue"}) = FALSE BY <1>1
  <2> HIDE DEF f, o
  <2> QED BY <2>3, <2>4 DEF After, Waiting
<1> HIDE DEF w, f
<1>7. Waits(T, builder, Scopes, Loops, o, v.y, v.x) BY ONLY <1>5, <1>6, Zenon DEF Waits
<1>8. Filling(builder, block, operands, yields, v.y, v.x) BY <1>2 DEF Common
<1>9. block \in Unended(builder) BY <1>8, FillingFacts
<1>10. /\ Advances(builder, builder') /\ builder'.cached_return_block = builder.cached_return_block
       /\ Unended(builder') = Unended(builder) \ {block} /\ Suspended(builder') = Suspended(builder)
  BY <1>2, <1>3, <1>4, <1>9, Jumped DEF Common
<1>11. Between(builder', operands, yields, v.y, v.x) BY <1>8, <1>10, FillingEnded
<1>12. Waits(T, builder', Scopes, Loops, o, v.y, v.x) /\ block \in BlocksOf(builder')
  <2>1. Continues(builder, builder', Waiting(Scopes, Loops, o, v.y, v.x))
        /\ BlocksOf(builder) \subseteq BlocksOf(builder')
    BY <1>2, <1>10, AdvancesContinues DEF Common
  <2> QED BY <1>2, <1>7, <2>1, WaitsOn DEF Common
<1>13. Scopes = Len(builder'.scopes) /\ Loops = Len(builder'.loop_scopes)
  BY <1>10 DEF Advances, Scopes, Loops
<1>14. todo' = T
  <2>1. Frames(T) BY <1>7 DEF Waits, Planned
  <2> QED BY <1>4, <2>1, ConsNone
<1>15. \E u : StateOK(builder', block, T, operands, yields, u)
  <2>1. o = Len(operands) OBVIOUS
  <2> HIDE DEF o, T
  <2> QED BY ONLY <1>11, <1>12, <1>13, <2>1, Between_StateOK
<1> QED BY <1>4, <1>14, <1>15 DEF Kept

\* The frame of the arms on top, taken off.
LEMMA AtArms ==
  ASSUME NEW v, Now(v), At({"arms"})
  PROVE  /\ Between(builder, operands, yields, v.y, v.x) /\ v.x \in SUBSET Nat
         /\ ArmsFrame(Top, builder) /\ Top.dest \in LocalsOf(builder)
         /\ Owned(Top) = {Top.arms[i].block : i \in 1..Len(Top.arms)} \union {Top.end}
         /\ Owned(Top) \subseteq v.x
         /\ HasPlan(Tail(todo), builder, Scopes, Loops, Len(operands), v.y, v.x \ Owned(Top))
<1> DEFINE f == Top
           w == After(f, v)
<1>1. todo # << >> /\ f.do = "arms" /\ f = Head(todo) BY DEF At, Top
<1>2. StateOK(builder, block, todo, operands, yields, v) BY DEF Now
<1>3. /\ v \in Heights /\ FrameOK(f, v, builder) /\ FieldsOK(f, v, builder)
      /\ Planned(Tail(todo), builder, w) /\ Stands(w, builder)
  BY <1>1, <1>2, TopFrame
<1>4. v.c = FALSE /\ Owned(f) \subseteq v.x BY <1>1, <1>3 DEF FrameOK
<1>5. ArmsFrame(f, builder) /\ f.dest \in LocalsOf(builder) BY <1>1, <1>3 DEF FieldsOK
<1>6. Owned(f) = {f.arms[i].block : i \in 1..Len(f.arms)} \union {f.end} BY <1>1 DEF Owned
<1>7. Between(builder, operands, yields, v.y, v.x)
  <2>1. Parts(builder, block, todo, v) BY <1>2 DEF StateOK
  <2>2. /\ Unended(builder) = v.x \union ({builder.cached_return_block} \ {None})
        /\ v.x \intersect ({builder.cached_return_block} \ {None}) = {}
    BY <1>1, <1>4, <2>1 DEF Parts
  <2> QED BY <1>2, <2>2 DEF StateOK, Between
<1>8. w = Level(Scopes, Loops, Len(operands), v.y, v.x \ Owned(f))
  <2>1. v.s = Scopes /\ v.l = Loops /\ v.o = Len(operands) BY <1>2 DEF StateOK, Scopes, Loops
  <2>2. /\ Closes(f) = 0 /\ Ends(f) = 0 /\ Makes(f) = 0 /\ Takes(f) = 0 /\ Suspends(f) = 0
    BY <1>1 DEF Closes, Ends, Makes, Takes, Suspends
  <2>3. v.s \in Nat /\ v.l \in Nat /\ v.o \in Nat /\ v.y \in Nat BY <1>3 DEF Heights
  <2>4. /\ v.s - Closes(f) = Scopes /\ v.l - Ends(f) = Loops
        /\ (v.o + Makes(f)) - Takes(f) = Len(operands) /\ v.y - Suspends(f) = v.y
    BY <2>1, <2>2, <2>3
  <2>5. (f.do \notin {"arm_end", "epilogue"}) = TRUE BY <1>1
  <2> HIDE DEF f
  <2> QED BY <2>4, <2>5 DEF After, Level
<1> HIDE DEF w
<1>9. HasPlan(Tail(todo), builder, Scopes, Loops, Len(operands), v.y, v.x \ Owned(f))
  <2>1. Planned(Tail(todo), builder, w) /\ Stands(w, builder) BY <1>3
  <2> QED BY ONLY <1>8, <2>1, Zenon DEF HasPlan
<1>10. v.x \in SUBSET Nat BY <1>3 DEF Heights
<1> QED BY <1>4, <1>5, <1>6, <1>7, <1>9, <1>10

LEMMA MatchEndKeeps == ASSUME NEW v, Now(v), MatchEnd PROVE Kept
<1> DEFINE c == Top.end
           x == v.x \ {c}
           T == Tail(todo)
           o == Len(operands)
<1>1. At({"arms"}) /\ Top.arms = << >> BY DEF MatchEnd
<1>2. /\ Between(builder, operands, yields, v.y, v.x)
      /\ ArmsFrame(Top, builder)
      /\ Owned(Top) = {Top.arms[i].block : i \in 1..Len(Top.arms)} \union {Top.end}
      /\ Owned(Top) \subseteq v.x
      /\ HasPlan(T, builder, Scopes, Loops, o, v.y, v.x \ Owned(Top))
  BY <1>1, AtArms
<1>3. Owned(Top) = {c}
  <2>1. Len(Top.arms) = 0 BY <1>1
  <2> QED BY <1>2, <2>1
<1>4. /\ builder' = [builder EXCEPT !.visibility_scope = Top.outer] /\ block' = c
      /\ todo' = << >> \o T /\ operands' = operands /\ yields' = yields
  BY DEF MatchEnd, Then
<1>5. Top.outer \in ScopesOf(builder) BY <1>2 DEF ArmsFrame
<1> HIDE DEF c
<1>6. Filling(builder, c, operands, yields, v.y, x) BY <1>2, <1>3, BetweenFilling
<1>7. Keeps(builder, builder') /\ builder'.scopes = builder.scopes /\ BuilderOK(builder)
      /\ operands \in Seq(OperandsOf(builder'))
  <2>1. BuilderOK(builder) /\ TRUE \in BOOLEAN /\ operands \in Seq(OperandsOf(builder))
    BY <1>2 DEF Between
  <2>2. Keeps(builder, builder') /\ builder'.scopes = builder.scopes BY <1>4, <1>5, <2>1, Adjusted
  <2> QED BY <2>1, <2>2, OperandsKept DEF Keeps
<1>8. Filling(builder', c, operands, yields, v.y, x) BY <1>6, <1>7, FillingKept DEF Keeps
<1>9. HasPlan(T, builder', Scopes, Loops, o, v.y, x) /\ Frames(T)
  <2>1. HasPlan(T, builder, Scopes, Loops, o, v.y, x) BY <1>2, <1>3
  <2> HIDE DEF x, o, T
  <2>2. HasPlan(T, builder', Scopes, Loops, o, v.y, x) BY <1>7, <2>1, KeptContinues
  <2> QED BY <2>2, PlanNumbers
<1>10. Scopes = Len(builder'.scopes) /\ Loops = Len(builder'.loop_scopes) /\ o = Len(operands)
  BY <1>7 DEF Keeps, SameGraph, Scopes, Loops
<1>11. todo' = T BY <1>4, <1>9, ConsNone
<1> HIDE DEF x, o, T
<1>12. \E u : StateOK(builder', c, T, operands, yields, u)
  BY ONLY <1>8, <1>9, <1>10, Filled_StateOK
<1> QED BY <1>4, <1>11, <1>12 DEF Kept

\* The frame of the other arms.
LEMMA OtherArms ==
  ASSUME NEW B, NEW f, ArmsFrame(f, B), f.arms # << >>, NEW r, r = [f EXCEPT !.arms = Tail(@)],
         f.do = "arms", NEW arm, arm = Head(f.arms)
  PROVE  /\ ArmsFrame(r, B) /\ r.do = "arms" /\ r.dest = f.dest
         /\ arm.block \in Owned(f) /\ Owned(r) = Owned(f) \ {arm.block}
         /\ arm.scope \in ScopesOf(B) /\ Jumpable(B, f.end)
<1> DEFINE n == Len(f.arms)
           S == Tail(f.arms)
<1>1. /\ f = [do |-> f.do, dest |-> f.dest, arms |-> f.arms, end |-> f.end,
              outer |-> f.outer, env |-> f.env]
      /\ \A i \in 1..n : f.arms[i].block \in BlocksOf(B) /\ f.arms[i].scope \in ScopesOf(B)
                         /\ f.arms[i].block # f.end
      /\ \A i, j \in 1..n : i # j => f.arms[i].block # f.arms[j].block
      /\ Jumpable(B, f.end) /\ f.outer \in ScopesOf(B)
  BY DEF ArmsFrame
<1>2. PICK U : f.arms \in Seq(U) BY DEF ArmsFrame
<1>3. n \in Nat /\ n >= 1 /\ S \in Seq(U) /\ Len(S) = n - 1 /\ \A i \in 1..(n - 1) : S[i] = f.arms[i + 1]
      /\ arm = f.arms[1]
  BY <1>2
<1>4. /\ r.do = f.do /\ r.dest = f.dest /\ r.arms = S /\ r.end = f.end /\ r.outer = f.outer
      /\ r = [do |-> r.do, dest |-> r.dest, arms |-> r.arms, end |-> r.end,
              outer |-> r.outer, env |-> r.env]
  <2>1. r = [do |-> f.do, dest |-> f.dest, arms |-> S, end |-> f.end, outer |-> f.outer, env |-> f.env]
    BY <1>1
  <2> HIDE DEF S
  <2>2. r.do = f.do /\ r.dest = f.dest /\ r.arms = S /\ r.end = f.end /\ r.outer = f.outer
        /\ r.env = f.env
    BY ONLY <2>1
  <2> QED BY ONLY <2>1, <2>2
<1> HIDE DEF n, S
<1>5. ASSUME NEW i \in 1..(n - 1)
      PROVE  i + 1 \in 1..n /\ i + 1 # 1 /\ r.arms[i] = f.arms[i + 1]
  BY <1>3, <1>4
<1>6. Len(r.arms) = n - 1 /\ 1 \in 1..n BY <1>3, <1>4
<1>7. ArmsFrame(r, B)
  <2>1. ASSUME NEW i \in 1..Len(r.arms), NEW j \in 1..Len(r.arms), i # j
        PROVE  r.arms[i].block # r.arms[j].block
    <3>1. i \in 1..(n - 1) /\ j \in 1..(n - 1) BY <1>6
    <3>2. i + 1 # j + 1 BY <2>1, <3>1
    <3>3. i + 1 \in 1..n /\ j + 1 \in 1..n /\ r.arms[i] = f.arms[i + 1] /\ r.arms[j] = f.arms[j + 1]
      BY <1>5, <3>1
    <3> QED BY <1>1, <3>2, <3>3 DEF n
  <2>2. ASSUME NEW i \in 1..Len(r.arms)
        PROVE  r.arms[i].block \in BlocksOf(B) /\ r.arms[i].scope \in ScopesOf(B)
               /\ r.arms[i].block # r.end
    <3>1. i \in 1..(n - 1) BY <1>6
    <3>2. i + 1 \in 1..n /\ r.arms[i] = f.arms[i + 1] BY <1>5, <3>1
    <3> QED BY <1>1, <1>4, <3>2 DEF n
  <2>3. \E V : r.arms \in Seq(V) BY <1>3, <1>4
  <2>4. Jumpable(B, r.end) /\ r.outer \in ScopesOf(B) BY <1>1, <1>4
  <2> QED BY <1>4, <2>1, <2>2, <2>3, <2>4 DEF ArmsFrame
<1>8. /\ Owned(f) = {f.arms[i].block : i \in 1..n} \union {f.end}
      /\ Owned(r) = {r.arms[i].block : i \in 1..(n - 1)} \union {f.end}
  BY <1>4, <1>6 DEF Owned, n
<1>9. Owned(r) = Owned(f) \ {arm.block}
  <2>1. ASSUME NEW z \in Owned(r) PROVE z \in Owned(f) \ {arm.block}
    <3>1. CASE z = f.end BY <1>1, <1>3, <1>6, <1>8, <3>1 DEF n
    <3>2. CASE z # f.end
      <4>1. PICK i \in 1..(n - 1) : z = r.arms[i].block BY <1>8, <3>2
      <4>2. i + 1 \in 1..n /\ i + 1 # 1 /\ z = f.arms[i + 1].block BY <1>5, <4>1
      <4>3. f.arms[i + 1].block # f.arms[1].block BY <1>1, <1>6, <4>2 DEF n
      <4> QED BY <1>3, <1>8, <4>2, <4>3
    <3> QED BY <3>1, <3>2
  <2>2. ASSUME NEW z \in Owned(f), z # arm.block PROVE z \in Owned(r)
    <3>1. CASE z = f.end BY <1>8, <3>1
    <3>2. CASE z # f.end
      <4>1. PICK i \in 1..n : z = f.arms[i].block BY <1>8, <3>2
      <4>2. i # 1 BY <1>3, <2>2, <4>1
      <4>3. i - 1 \in 1..(n - 1) /\ (i - 1) + 1 = i BY <1>3, <4>1, <4>2
      <4>4. r.arms[i - 1] = f.arms[i] BY <1>5, <4>3
      <4> QED BY <1>8, <4>1, <4>3, <4>4
    <3> QED BY <3>1, <3>2
  <2> QED BY <2>1, <2>2
<1>10. arm.block \in Owned(f) /\ arm.scope \in ScopesOf(B) BY <1>1, <1>3, <1>6, <1>8 DEF n
<1> QED BY <1>1, <1>4, <1>7, <1>9, <1>10

LEMMA NextArmKeeps == ASSUME NEW v, Now(v), NextArm PROVE Kept
<1> DEFINE f == Top
           arm == Head(Top.arms)
           c == arm.block
           x == v.x \ {c}
           T == Tail(todo)
           o == Len(operands)
           a == Into(Top.dest, {})
           g == [do |-> "arm_end", end |-> Top.end]
           r == [Top EXCEPT !.arms = Tail(@)]
<1>1. At({"arms"}) /\ Top.arms # << >> /\ Top.do = "arms" BY DEF NextArm, At
<1>2. /\ Between(builder, operands, yields, v.y, v.x) /\ v.x \in SUBSET Nat
      /\ ArmsFrame(f, builder) /\ f.dest \in LocalsOf(builder)
      /\ Owned(f) \subseteq v.x
      /\ HasPlan(T, builder, Scopes, Loops, o, v.y, v.x \ Owned(f))
  BY <1>1, AtArms
<1>3. /\ builder' = [builder EXCEPT !.visibility_scope = arm.scope] /\ block' = c
      /\ todo' = <<a, g, r>> \o T /\ operands' = operands /\ yields' = yields
  BY DEF NextArm, Then
<1>4. /\ ArmsFrame(r, builder) /\ r.do = "arms" /\ r.dest = f.dest
      /\ c \in Owned(f) /\ Owned(r) = Owned(f) \ {c}
      /\ arm.scope \in ScopesOf(builder) /\ Jumpable(builder, f.end)
  BY <1>1, <1>2, OtherArms
<1>5. a.do = "into" /\ a.dest = f.dest /\ g.do = "arm_end" /\ g.end = f.end BY DEF Into
<1> HIDE DEF a, g, r, c, f
<1>6. Filling(builder, c, operands, yields, v.y, x) BY <1>2, <1>4, BetweenFilling
<1>7. Keeps(builder, builder') /\ builder'.scopes = builder.scopes /\ BuilderOK(builder)
      /\ operands \in Seq(OperandsOf(builder')) /\ LocalsOf(builder) \subseteq LocalsOf(builder')
      /\ ScopesOf(builder') = ScopesOf(builder)
  <2>1. BuilderOK(builder) /\ TRUE \in BOOLEAN /\ operands \in Seq(OperandsOf(builder))
    BY <1>2 DEF Between
  <2>2. Keeps(builder, builder') /\ builder'.scopes = builder.scopes
        /\ builder'.visibility_scopes = builder.visibility_scopes
    BY <1>3, <1>4, <2>1, Adjusted, ZenonT(60)
  <2> QED BY <2>1, <2>2, OperandsKept DEF Keeps, ScopesOf
<1>8. Filling(builder', c, operands, yields, v.y, x) BY <1>6, <1>7, FillingKept DEF Keeps
<1>9. HasPlan(T, builder', Scopes, Loops, o, v.y, v.x \ Owned(f)) /\ Frames(T)
  <2>1. HasPlan(T, builder, Scopes, Loops, o, v.y, v.x \ Owned(f)) BY <1>2
  <2> HIDE DEF o, T
  <2>2. HasPlan(T, builder', Scopes, Loops, o, v.y, v.x \ Owned(f)) BY <1>7, <2>1, KeptContinues
  <2> QED BY <2>2, PlanNumbers
<1> HIDE DEF T, o
<1>10. /\ BlocksOf(builder') = BlocksOf(builder) /\ \A z : Jumpable(builder', z) <=> Jumpable(builder, z)
  BY <1>7, SameArms DEF Keeps
<1>11. ArmsFrame(r, builder') BY <1>4, <1>7, <1>10 DEF ArmsFrame
<1> DEFINE Q == <<r>> \o T
           S == <<g>> \o Q
<1>12. Waits(Q, builder', Scopes, Loops, o, v.y, x)
  <2>1. x \in SUBSET Nat /\ Owned(r) \subseteq x /\ x \ Owned(r) = v.x \ Owned(f) BY <1>2, <1>4
  <2>2. r.dest \in LocalsOf(builder') BY <1>2, <1>4, <1>7
  <2> HIDE DEF x
  <2> QED BY <1>4, <1>9, <1>11, <2>1, <2>2, PushArms
<1> HIDE DEF x, Q
<1>13. HasPlan(S, builder', Scopes, Loops, o, v.y, x)
  <2>1. Jumpable(builder', g.end) BY <1>4, <1>5, <1>10
  <2> QED BY <1>5, <1>12, <2>1, PushArmEnd
<1> HIDE DEF S
<1>14. HasPlan(<<a>> \o S, builder', Scopes, Loops, o, v.y, x)
  <2>1. a.do \in {"into", "block"} /\ a.dest \in LocalsOf(builder') BY <1>2, <1>5, <1>7
  <2> QED BY <1>13, <2>1, PushInto
<1>15. todo' = <<a>> \o S
  <2>1. Three(T, a, g, r) BY <1>9, ConsThree
  <2> QED BY ONLY <1>3, <2>1 DEF Three, S, Q
<1>16. Scopes = Len(builder'.scopes) /\ Loops = Len(builder'.loop_scopes) /\ o = Len(operands)
  BY <1>7 DEF Keeps, SameGraph, Scopes, Loops, o
<1>17. HasPlan(todo', builder', Scopes, Loops, o, v.y, x) BY <1>14, <1>15
<1>18. \E u : StateOK(builder', c, todo', operands, yields, u)
  BY ONLY <1>8, <1>16, <1>17, Filled_StateOK
<1> QED BY <1>3, <1>18 DEF Kept

-----------------------------------------------------------------------------
\* Nothing leads to a block that was just made.
LEMMA FreshUnused ==
  ASSUME NEW B, BuilderOK(B), NEW Q, NEW x \in BlocksOf(Q), x \notin BlocksOf(B),
         Q.loop_scopes = B.loop_scopes, Q.cached_return_block = B.cached_return_block,
         \A c \in BlocksOf(Q) :
           TermOf(Q, c) = IF c \in BlocksOf(B) THEN TermOf(B, c) ELSE Unterminated
  PROVE  Unused(Q, x)
<1>1. Len(B.basic_blocks) \in Nat /\ Len(B.basic_blocks) >= 1 BY BuilderFields DEF BuilderOK
<1>2. x # START_BLOCK /\ x # None BY <1>1 DEF START_BLOCK, BlocksOf, None
<1>3. ASSUME NEW c \in BlocksOf(Q), NEW j \in 1..Len(TermOf(Q, c).succ)
      PROVE  TermOf(Q, c).succ[j] # x
  <2>1. TermOf(Q, c) # Unterminated
    <3> SUFFICES ASSUME TermOf(Q, c) = Unterminated PROVE FALSE OBVIOUS
    <3>1. Unterminated.succ = << >> BY DEF Unterminated
    <3> QED BY <3>1
  <2>2. c \in BlocksOf(B) /\ TermOf(Q, c) = TermOf(B, c) BY <2>1
  <2>3. TermOf(B, c).succ \in Seq(1..Len(B.basic_blocks))
    BY <2>1, <2>2 DEF BuilderOK, Ended, IsTerminator
  <2>4. TermOf(B, c).succ[j] \in BlocksOf(B) BY <2>2, <2>3 DEF BlocksOf
  <2> QED BY <2>2, <2>4
<1>4. \A i \in 1..Len(B.loop_scopes) :
        B.loop_scopes[i].continue_block # x /\ B.loop_scopes[i].break_block # x
  BY DEF BuilderOK, Looping, LoopOK, Jumpable
<1>5. B.cached_return_block # x BY <1>2 DEF BuilderOK, Returning, Jumpable
<1> QED BY <1>2, <1>3, <1>4, <1>5 DEF Unused

\* The bindings of one arm more.
Bound(B, A, x) ==
  /\ Grows(B, A.b)
  /\ A.arm.block = x /\ A.arm.scope \in ScopesOf(A.b) /\ ToSet(A.arm.locals) \subseteq LocalsOf(A.b)

ArmMore(A, D, x) ==
  \E arm : Bound(A.b, [b |-> D.b, arm |-> arm], x) /\ D.arms = Append(A.arms, arm)

LEMMA ArmBound ==
  ASSUME NEW A, BuilderOK(A.b), A.b.scopes # << >>, block \in BlocksOf(A.b),
         NEW names \in ArmPatterns, NEW x, NEW D, D = BindArm(A, x, names)
  PROVE  ArmMore(A, D, x)
<1> DEFINE d == declare_bindings(A.b, block, names)
           s == IF d.scope = None THEN d.b.visibility_scope ELSE d.scope
           arm == [block |-> x, scope |-> s, names |-> names, locals |-> d.locals]
<1>1. names \in Seq(AllNames)
  <2>1. CASE names = << >> BY <2>1
  <2>2. CASE \E n \in ArmNames : names = <<n>> BY <2>2 DEF AllNames
  <2> QED BY <2>1, <2>2 DEF ArmPatterns
<1>2. Declares(A.b, d, Len(names)) BY <1>1, BindingsDeclared
<1>3. D.b = d.b /\ D.arms = Append(A.arms, arm) BY DEF BindArm
<1> HIDE DEF d
<1>4. /\ Grows(A.b, d.b) /\ d.scope \in {None} \union ScopesOf(d.b) /\ d.locals \in Seq(LocalsOf(d.b))
      /\ d.b.visibility_scope \in ScopesOf(d.b)
  BY <1>2 DEF Declares, Grows, Keeps, BuilderOK
<1>5. ToSet(d.locals) \subseteq LocalsOf(d.b) BY <1>4 DEF ToSet
<1>6. s \in ScopesOf(d.b) BY <1>4
<1>7. arm.block = x /\ arm.scope = s /\ arm.locals = d.locals OBVIOUS
<1> HIDE DEF arm, s
<1> DEFINE E == [b |-> D.b, arm |-> arm]
<1>8. E.b = d.b /\ E.arm = arm BY <1>3
<1> HIDE DEF E
<1>9. Bound(A.b, E, x) BY <1>4, <1>5, <1>6, <1>7, <1>8 DEF Bound
<1> QED BY <1>3, <1>9 DEF E, ArmMore

BothBound(B, D, x, z) ==
  /\ Grows(B, D.b) /\ (\E S : D.arms \in Seq(S)) /\ Len(D.arms) = 2
  /\ D.arms[1].block = x /\ D.arms[2].block = z
  /\ \A i \in 1..2 : D.arms[i].scope \in ScopesOf(D.b) /\ ToSet(D.arms[i].locals) \subseteq LocalsOf(D.b)

LEMMA ArmsBound ==
  ASSUME NEW P, BuilderOK(P), P.scopes # << >>, block \in BlocksOf(P),
         NEW pats \in ArmPatterns \X ArmPatterns, NEW x, NEW z, NEW D,
         D = BindArm(BindArm([b |-> P, arms |-> << >>], x, pats[1]), z, pats[2])
  PROVE  BothBound(P, D, x, z)
<1> DEFINE N == [b |-> P, arms |-> << >>]
           F == BindArm(N, x, pats[1])
<1>1. pats[1] \in ArmPatterns /\ pats[2] \in ArmPatterns OBVIOUS
<1>2. N.b = P /\ N.arms = << >> OBVIOUS
<1> HIDE DEF N
<1>3. BuilderOK(N.b) /\ N.b.scopes # << >> /\ block \in BlocksOf(N.b) BY <1>2
<1>a. F = BindArm(N, x, pats[1]) OBVIOUS
<1> HIDE DEF F
<1>b. ArmMore(N, F, x) BY <1>1, <1>3, <1>a, ArmBound
<1>4. PICK a : Bound(N.b, [b |-> F.b, arm |-> a], x) /\ F.arms = Append(N.arms, a)
  BY <1>b DEF ArmMore
<1>5. Grows(P, F.b) /\ a.block = x /\ a.scope \in ScopesOf(F.b) /\ ToSet(a.locals) \subseteq LocalsOf(F.b)
  BY <1>2, <1>4 DEF Bound
<1>6. BuilderOK(F.b) /\ F.b.scopes # << >> /\ block \in BlocksOf(F.b)
  <2>1. BuilderOK(F.b) /\ SameGraph(P, F.b) BY <1>5 DEF Grows, Keeps
  <2>2. Len(F.b.scopes) = Len(P.scopes) BY <1>5 DEF Grows, SameScopes
  <2>3. P.scopes \in Seq(ScopeRecords) BY BuilderFields DEF BuilderOK
  <2>4. Len(P.scopes) # 0 BY <2>3
  <2> QED BY <2>1, <2>2, <2>4, SameArms
<1>7. D = BindArm(F, z, pats[2]) BY DEF F, N
<1>c. ArmMore(F, D, z) BY <1>1, <1>6, <1>7, ArmBound
<1>8. PICK e : Bound(F.b, [b |-> D.b, arm |-> e], z) /\ D.arms = Append(F.arms, e)
  BY <1>c DEF ArmMore
<1>9. Grows(F.b, D.b) /\ e.block = z /\ e.scope \in ScopesOf(D.b) /\ ToSet(e.locals) \subseteq LocalsOf(D.b)
  BY <1>8 DEF Bound
<1>10. Grows(P, D.b) BY <1>5, <1>9, GrowsTransitive
<1>11. ScopesOf(F.b) \subseteq ScopesOf(D.b) /\ LocalsOf(F.b) \subseteq LocalsOf(D.b)
  <2>1. BuilderOK(D.b) BY <1>9 DEF Grows, Keeps
  <2>2. /\ Len(F.b.local_decls) \in Nat /\ Len(D.b.local_decls) \in Nat
        /\ Len(F.b.visibility_scopes) \in Nat /\ Len(D.b.visibility_scopes) \in Nat
    BY <1>6, <2>1, BuilderFields DEF BuilderOK
  <2> QED BY <1>9, <2>2 DEF Grows, Keeps, ScopesOf, LocalsOf
<1>12. D.arms = <<a, e>> BY <1>2, <1>4, <1>8
<1> DEFINE S == {a, e}
<1>d. a \in S /\ e \in S OBVIOUS
<1> HIDE DEF S
<1>13. D.arms[1] = a /\ D.arms[2] = e /\ Len(D.arms) = 2 /\ D.arms \in Seq(S) BY ONLY <1>12, <1>d
<1>14. \A i \in 1..2 : D.arms[i].scope \in ScopesOf(D.b) /\ ToSet(D.arms[i].locals) \subseteq LocalsOf(D.b)
  <2>1. \A i \in 1..2 : i = 1 \/ i = 2 OBVIOUS
  <2> QED BY <1>5, <1>9, <1>11, <1>13, <2>1
<1> QED BY <1>5, <1>9, <1>10, <1>13, <1>14 DEF BothBound

LEMMA MatchFits ==
  ASSUME NEW n \in Nat, NEW k \in Nat, NEW x \in 1..k, NEW y \in 1..k, NEW z, OperandFits(z, n),
         NEW d1 \in SUBSET (1..n), NEW d2 \in SUBSET (1..n), NEW t,
         t = [op |-> "Match", succ |-> <<x, y>>, binds |-> <<d1, d2>>,
              moved |-> z.moved, read |-> z.read]
  PROVE  Terminates(t, "Match", <<x, y>>, n, k)
<1> DEFINE s == <<x, y>>
           d == <<d1, d2>>
<1>1. d1 \in SUBSET Nat /\ d2 \in SUBSET Nat OBVIOUS
<1>2. s \in Seq(1..k) /\ s \in Seq(Nat) /\ Len(s) = 2 OBVIOUS
<1>3. d \in Seq(SUBSET (1..n)) /\ d \in Seq(SUBSET Nat) /\ Len(d) = 2 BY <1>1
<1>4. /\ t.op = "Match" /\ t.succ = s /\ t.binds = d /\ t.moved = z.moved /\ t.read = z.read
      /\ t = [op |-> "Match", succ |-> s, binds |-> d, moved |-> z.moved, read |-> z.read]
  OBVIOUS
<1> HIDE DEF s, d
<1>5. z.moved \in SUBSET (1..n) /\ z.read \in SUBSET (1..n) BY DEF OperandFits
<1>6. z.moved \in SUBSET Nat /\ z.read \in SUBSET Nat BY <1>5
<1>7. t \in AnyTerminator BY <1>2, <1>3, <1>4, <1>6 DEF AnyTerminator, TermOps
<1>8. IsTerminator(t, n, k) BY <1>2, <1>3, <1>4, <1>5 DEF IsTerminator, TermOps
<1> QED BY <1>4, <1>7, <1>8 DEF Terminates, s

\* What the blocks, the bindings and the Match of a match have done to a
\* builder B, from block b on.
Matched(B, b, D, T, n) ==
  /\ BuilderOK(T) /\ T.cached_return_block = B.cached_return_block /\ T.asserts = B.asserts
  /\ Len(B.local_decls) <= Len(T.local_decls)
  /\ Len(T.scopes) = Len(B.scopes) /\ T.loop_scopes = B.loop_scopes
  /\ \A i \in 1..Len(B.scopes) : T.scopes[i].extent = B.scopes[i].extent
  /\ LocalsOf(B) \subseteq LocalsOf(T) /\ ScopesOf(B) \subseteq ScopesOf(T)
  /\ BlocksOf(B) \subseteq BlocksOf(T) /\ n \in BlocksOf(T) /\ n + 1 \in BlocksOf(T)
  /\ \A x : Jumpable(B, x) => Jumpable(T, x)
  /\ Jumpable(T, n + 2)
  /\ Unended(T) = (Unended(B) \union {n, n + 1, n + 2}) \ {b} /\ Suspended(T) = Suspended(B)
  /\ \A i \in 1..2 : D.arms[i].scope \in ScopesOf(T)

LEMMA StartedAt ==
  ASSUME NEW B, BuilderOK(B), NEW home \in SUBSET Nat, NEW e, e = NextBlock(B),
         NEW B2, B2 = start_new_block(B, home)
  PROVE  /\ Advances(B, B2) /\ B2.cached_return_block = B.cached_return_block
         /\ Len(B2.basic_blocks) = Len(B.basic_blocks) + 1 /\ Jumpable(B2, e)
         /\ Unended(B2) = Unended(B) \union {e} /\ Suspended(B2) = Suspended(B)
         /\ \A c \in BlocksOf(B2) : TermOf(B2, c) = IF c = e THEN Unterminated ELSE TermOf(B, c)
BY BlockStarted

LEMMA MatchBuilt ==
  ASSUME NEW B, BuilderOK(B), B.scopes # << >>, block \in Unended(B),
         NEW n, n = NextBlock(B),
         NEW P, P = start_new_block(start_new_block(B, Open(B)), Open(B)),
         NEW D, BothBound(P, D, n, n + 1),
         NEW Q, Q = start_new_block(D.b, Open(D.b)),
         NEW z, z.moved \in SUBSET LocalsOf(B), z.read \in SUBSET LocalsOf(B),
         NEW t, t = [op |-> "Match", succ |-> <<n, n + 1>>,
                     binds |-> <<ToSet(D.arms[1].locals), ToSet(D.arms[2].locals)>>,
                     moved |-> z.moved, read |-> z.read],
         NEW T, T = terminate(Q, block, t)
  PROVE  Matched(B, block, D, T, n)
<1> DEFINE m == n + 1
           e == n + 2
<1>1. /\ Advances(B, P) /\ P.cached_return_block = B.cached_return_block
      /\ Jumpable(P, n) /\ Jumpable(P, m)
      /\ Unended(P) = Unended(B) \union {n, m} /\ Suspended(P) = Suspended(B)
      /\ BlocksOf(P) = BlocksOf(B) \union {n, m}
      /\ \A c \in BlocksOf(P) : TermOf(P, c) = IF c \in BlocksOf(B) THEN TermOf(B, c) ELSE Unterminated
  BY TwoBlocks
<1>2. /\ Grows(P, D.b) /\ BuilderOK(D.b) /\ SameGraph(P, D.b) /\ BuilderOK(P)
      /\ Len(P.local_decls) <= Len(D.b.local_decls)
      /\ Len(P.visibility_scopes) <= Len(D.b.visibility_scopes)
      /\ D.b.asserts = P.asserts /\ SameScopes(P, D.b)
  BY <1>1 DEF BothBound, Grows, Keeps, Advances
<1>3. /\ P.local_decls = B.local_decls /\ P.scopes = B.scopes /\ P.loop_scopes = B.loop_scopes
      /\ P.visibility_scopes = B.visibility_scopes /\ P.asserts = B.asserts
      /\ \A x : Jumpable(B, x) => Jumpable(P, x)
  BY <1>1 DEF Advances
<1>4. /\ BlocksOf(D.b) = BlocksOf(P) /\ \A x : Jumpable(D.b, x) <=> Jumpable(P, x)
      /\ \A c \in BlocksOf(P) : TermOf(D.b, c) = TermOf(P, c)
      /\ D.b.cached_return_block = P.cached_return_block /\ D.b.loop_scopes = P.loop_scopes
      /\ Len(D.b.basic_blocks) = Len(P.basic_blocks)
  BY <1>2, SameArms DEF SameGraph
<1>5. Unended(D.b) = Unended(P) /\ Suspended(D.b) = Suspended(P)
  BY <1>4 DEF Unended, Suspended
<1>6. /\ Len(B.basic_blocks) \in Nat /\ Len(P.basic_blocks) = Len(B.basic_blocks) + 2
      /\ n \in Nat /\ NextBlock(D.b) = e /\ n = Len(B.basic_blocks) + 1
  <2>1. Len(B.basic_blocks) \in Nat /\ Len(P.basic_blocks) \in Nat
    BY <1>2, BuilderFields DEF BuilderOK
  <2>2. n = Len(B.basic_blocks) + 1 BY DEF NextBlock
  <2>3. 1..Len(P.basic_blocks) = 1..Len(B.basic_blocks) \union {n, n + 1} BY <1>1 DEF BlocksOf
  <2>4. Len(P.basic_blocks) = Len(B.basic_blocks) + 2
    <3>1. n + 1 \in 1..Len(P.basic_blocks) BY <2>3
    <3>2. Len(P.basic_blocks) >= n + 1 BY <2>1, <2>2, <3>1
    <3>3. Len(P.basic_blocks) \in 1..Len(B.basic_blocks) \union {n, n + 1}
      <4>1. n + 1 >= 1 BY <2>1, <2>2
      <4>2. Len(P.basic_blocks) \in 1..Len(P.basic_blocks) BY <2>1, <2>2, <3>2, <4>1
      <4> QED BY <2>3, <4>2
    <3> QED BY <2>1, <2>2, <3>2, <3>3
  <2> QED BY <1>4, <2>1, <2>2, <2>4 DEF NextBlock
<1>7. n \notin BlocksOf(B) /\ m \notin BlocksOf(B) /\ e \notin BlocksOf(P) /\ n # m /\ m # e /\ n # e
  BY <1>6 DEF BlocksOf
<1>8. /\ Advances(D.b, Q) /\ Q.cached_return_block = D.b.cached_return_block
      /\ Len(Q.basic_blocks) = Len(D.b.basic_blocks) + 1 /\ Jumpable(Q, e)
      /\ Unended(Q) = Unended(D.b) \union {e} /\ Suspended(Q) = Suspended(D.b)
      /\ \A c \in BlocksOf(Q) : TermOf(Q, c) = IF c = e THEN Unterminated ELSE TermOf(D.b, c)
  <2>1. Open(D.b) \in SUBSET Nat BY <1>2, OpenExtents
  <2>2. BuilderOK(D.b) /\ e = NextBlock(D.b) BY <1>2, <1>6
  <2> HIDE DEF e
  <2> QED BY <2>1, <2>2, StartedAt
<1> HIDE DEF m, e
<1>9. /\ BuilderOK(Q) /\ Q.local_decls = D.b.local_decls /\ Q.scopes = D.b.scopes
      /\ Q.loop_scopes = D.b.loop_scopes /\ Q.visibility_scopes = D.b.visibility_scopes
      /\ Q.asserts = D.b.asserts /\ \A x : Jumpable(D.b, x) => Jumpable(Q, x)
  BY <1>8 DEF Advances
<1>10. BlocksOf(Q) = BlocksOf(B) \union {n, m, e}
  <2>1. BlocksOf(Q) = BlocksOf(D.b) \union {e} BY <1>4, <1>6, <1>8 DEF BlocksOf, e
  <2> QED BY <1>1, <1>4, <2>1
<1>11. \A c \in BlocksOf(Q) : TermOf(Q, c) = IF c \in BlocksOf(B) THEN TermOf(B, c) ELSE Unterminated
  BY <1>1, <1>4, <1>7, <1>8, <1>10
<1>12. Q.loop_scopes = B.loop_scopes /\ Q.cached_return_block = B.cached_return_block
  BY <1>1, <1>3, <1>4, <1>8, <1>9
<1>13. Unused(Q, n) /\ Unused(Q, m)
  <2>1. n \in BlocksOf(Q) /\ m \in BlocksOf(Q) BY <1>10
  <2> QED BY <1>7, <1>11, <1>12, <2>1, FreshUnused
<1>14. /\ LocalsOf(B) \subseteq LocalsOf(Q) /\ ScopesOf(B) \subseteq ScopesOf(Q)
       /\ Len(B.local_decls) <= Len(Q.local_decls) /\ Len(Q.local_decls) \in Nat
       /\ Len(Q.basic_blocks) \in Nat
       /\ LocalsOf(Q) = LocalsOf(D.b) /\ ScopesOf(Q) = ScopesOf(D.b)
  <2>1. /\ Len(B.local_decls) \in Nat /\ Len(B.visibility_scopes) \in Nat
        /\ Len(Q.local_decls) \in Nat /\ Len(Q.visibility_scopes) \in Nat
        /\ Len(Q.basic_blocks) \in Nat
    BY <1>9, BuilderFields DEF BuilderOK
  <2> QED BY <1>2, <1>3, <1>9, <2>1 DEF LocalsOf, ScopesOf
<1>15. /\ D.arms[1].scope \in ScopesOf(Q) /\ D.arms[2].scope \in ScopesOf(Q)
       /\ ToSet(D.arms[1].locals) \in SUBSET LocalsOf(Q)
       /\ ToSet(D.arms[2].locals) \in SUBSET LocalsOf(Q)
  <2>1. 1 \in 1..2 /\ 2 \in 1..2 OBVIOUS
  <2> QED BY <1>14, <2>1 DEF BothBound
<1>16. Terminates(t, "Match", <<n, m>>, Len(Q.local_decls), Len(Q.basic_blocks))
  <2>1. n \in 1..Len(Q.basic_blocks) /\ m \in 1..Len(Q.basic_blocks) BY <1>10 DEF BlocksOf
  <2>2. OperandFits(z, Len(Q.local_decls)) BY <1>14 DEF OperandFits, LocalsOf
  <2> DEFINE d1 == ToSet(D.arms[1].locals)
             d2 == ToSet(D.arms[2].locals)
  <2>3. d1 \in SUBSET (1..Len(Q.local_decls)) /\ d2 \in SUBSET (1..Len(Q.local_decls))
    BY <1>15 DEF LocalsOf
  <2>4. t = [op |-> "Match", succ |-> <<n, m>>, binds |-> <<d1, d2>>,
             moved |-> z.moved, read |-> z.read]
    BY DEF m
  <2> HIDE DEF d1, d2
  <2> QED BY <1>14, <2>1, <2>2, <2>3, <2>4, MatchFits
<1>17. /\ t \in AnyTerminator /\ IsTerminator(t, Len(Q.local_decls), Len(Q.basic_blocks))
       /\ t.op = "Match" /\ t.succ = <<n, m>>
  BY <1>16 DEF Terminates
<1> HIDE DEF Terminates
<1>18. block \in Unended(Q) BY <1>1, <1>5, <1>8
<1>19. /\ BuilderOK(T) /\ T.scopes = Q.scopes
       /\ T.local_decls = Q.local_decls /\ T.loop_scopes = Q.loop_scopes
       /\ T.visibility_scopes = Q.visibility_scopes
       /\ T.cached_return_block = Q.cached_return_block /\ T.asserts = Q.asserts
       /\ Len(T.basic_blocks) = Len(Q.basic_blocks)
       /\ Unended(T) = Unended(Q) \ {block} /\ Suspended(T) = Suspended(Q)
       /\ \A x : Jumpable(Q, x) /\ x # n /\ x # m => Jumpable(T, x)
  <2>1. t \in AnyTerminator /\ IsTerminator(t, Len(Q.local_decls), Len(Q.basic_blocks))
        /\ t.op = "Match" /\ t.succ = <<n, m>> /\ n # m /\ T = terminate(Q, block, t)
    BY <1>7, <1>17
  <2> QED BY ONLY <1>9, <1>13, <1>18, <2>1, MatchTerminated
<1>20. BlocksOf(T) = BlocksOf(Q) /\ LocalsOf(T) = LocalsOf(Q) /\ ScopesOf(T) = ScopesOf(Q)
  BY <1>19 DEF BlocksOf, LocalsOf, ScopesOf
<1>21. ASSUME NEW x, Jumpable(B, x) PROVE Jumpable(T, x)
  <2>1. x # n /\ x # m BY <1>7, <1>21 DEF Jumpable
  <2>2. Jumpable(Q, x) BY <1>3, <1>4, <1>9, <1>21
  <2> QED BY <1>19, <2>1, <2>2
<1>22. Jumpable(T, e) BY <1>7, <1>8, <1>19
<1>23. Unended(T) = (Unended(B) \union {n, m, e}) \ {block} BY <1>1, <1>5, <1>8, <1>19
<1>24. Suspended(T) = Suspended(B) BY <1>1, <1>5, <1>8, <1>19
<1>25. /\ Len(T.scopes) = Len(B.scopes)
       /\ \A i \in 1..Len(B.scopes) : T.scopes[i].extent = B.scopes[i].extent
  <2>1. T.scopes = D.b.scopes /\ P.scopes = B.scopes BY <1>3, <1>9, <1>19
  <2>2. SameScopes(P, D.b) BY <1>2
  <2> QED BY ONLY <2>1, <2>2 DEF SameScopes
<1>26. \A i \in 1..2 : D.arms[i].scope \in ScopesOf(T)
  <2>1. \A i \in 1..2 : i = 1 \/ i = 2 OBVIOUS
  <2> QED BY <1>15, <1>20, <2>1
<1>27. T.cached_return_block = B.cached_return_block /\ T.asserts = B.asserts
       /\ T.loop_scopes = B.loop_scopes /\ Len(B.local_decls) <= Len(T.local_decls)
  BY <1>2, <1>3, <1>9, <1>12, <1>14, <1>19
<1>28. /\ LocalsOf(B) \subseteq LocalsOf(T) /\ ScopesOf(B) \subseteq ScopesOf(T)
       /\ BlocksOf(B) \subseteq BlocksOf(T) /\ n \in BlocksOf(T) /\ m \in BlocksOf(T)
  BY <1>10, <1>14, <1>20
<1> QED BY <1>19, <1>21, <1>22, <1>23, <1>24, <1>25, <1>26, <1>27, <1>28 DEF Matched, m, e

LEMMA MatchArmsKeeps ==
  ASSUME NEW v, Now(v), NEW pats \in ArmPatterns \X ArmPatterns, MatchArms(pats) PROVE Kept
<1> DEFINE n == NextBlock(builder)
           z == Last(operands)
           P == start_new_block(start_new_block(builder, Open(builder)), Open(builder))
           D == BindArm(BindArm([b |-> P, arms |-> << >>], n, pats[1]), n + 1, pats[2])
           Q == start_new_block(D.b, Open(D.b))
           t == [op |-> "Match", succ |-> <<n, n + 1>>,
                 binds |-> <<ToSet(D.arms[1].locals), ToSet(D.arms[2].locals)>>,
                 moved |-> z.moved, read |-> z.read]
           T == terminate(Q, block, t)
           f == [do |-> "arms", dest |-> Top.dest, arms |-> D.arms, end |-> n + 2,
                 outer |-> builder.visibility_scope, env |-> env]
           R == Tail(todo)
           o == Len(operands) - 1
           c == builder.cached_return_block
           x == v.x \union {n, n + 1, n + 2}
<1>1. /\ Common(v) /\ v \in Heights /\ Rest(Scopes, Loops, o, v.y, v.x)
      /\ z.moved \in SUBSET LocalsOf(builder) /\ z.read \in SUBSET LocalsOf(builder)
      /\ Front(operands) \in Seq(OperandsOf(builder)) /\ Len(Front(operands)) = o
  BY Taking DEF MatchArms, At
<1>2. /\ builder' = T /\ block' = block /\ todo' = <<f>> \o R
      /\ operands' = Front(operands) /\ yields' = yields
  BY DEF MatchArms, Then, program
<1>3. Top.dest \in LocalsOf(builder) BY <1>1 DEF Common, FieldsOK, MatchArms, At
<1>4. Filling(builder, block, operands, yields, v.y, v.x) BY <1>1 DEF Common
<1>5. /\ Unended(builder) = v.x \union {block} \union ({c} \ {None})
      /\ block \notin v.x /\ v.x \intersect ({c} \ {None}) = {} /\ c # block
      /\ block \in BlocksOf(builder) /\ v.x \subseteq BlocksOf(builder)
      /\ BlocksOf(builder) \subseteq Nat
      /\ c \in BlocksOf(builder) \union {None}
      /\ n \notin BlocksOf(builder) /\ n + 1 \notin BlocksOf(builder) /\ n \in Nat /\ n >= 2
      /\ "yield_rvalue" \notin Forms => yields = Cardinality(Suspended(builder)) + v.y
  BY <1>4, FillingFacts
<1>6. n + 2 \notin BlocksOf(builder)
  <2>1. Len(builder.basic_blocks) \in Nat BY <1>1, BuilderFields DEF Common, BuilderOK
  <2> QED BY <2>1 DEF NextBlock, BlocksOf
<1>7. BothBound(P, D, n, n + 1)
  <2>1. /\ Advances(builder, P) /\ BlocksOf(P) = BlocksOf(builder) \union {n, n + 1}
    BY <1>1, TwoBlocks DEF Common
  <2>2. BuilderOK(P) /\ P.scopes # << >> /\ block \in BlocksOf(P)
    BY <1>1, <2>1 DEF Advances, Common
  <2> DEFINE m == n + 1
  <2>3. D = BindArm(BindArm([b |-> P, arms |-> << >>], n, pats[1]), m, pats[2]) OBVIOUS
  <2> HIDE DEF P, D, n, m
  <2>4. BothBound(P, D, n, m) BY <2>2, <2>3, ArmsBound
  <2> QED BY <2>4 DEF m
<1>8. /\ (\E S : D.arms \in Seq(S)) /\ Len(D.arms) = 2
      /\ D.arms[1].block = n /\ D.arms[2].block = n + 1
  <2> HIDE DEF D, P
  <2> QED BY <1>7 DEF BothBound
<1>9. Matched(builder, block, D, T, n)
  <2>1. BuilderOK(builder) /\ builder.scopes # << >> /\ block \in Unended(builder)
    BY <1>1, <1>5 DEF Common
  <2>2. /\ n = NextBlock(builder)
        /\ P = start_new_block(start_new_block(builder, Open(builder)), Open(builder))
        /\ Q = start_new_block(D.b, Open(D.b))
        /\ t = [op |-> "Match", succ |-> <<n, n + 1>>,
                binds |-> <<ToSet(D.arms[1].locals), ToSet(D.arms[2].locals)>>,
                moved |-> z.moved, read |-> z.read]
        /\ T = terminate(Q, block, t)
    OBVIOUS
  <2> HIDE DEF n, P, D, Q, t, T, z
  <2> QED BY ONLY <1>1, <1>7, <2>1, <2>2, MatchBuilt
<1>10. /\ f.do = "arms" /\ f.dest = Top.dest /\ f.arms = D.arms /\ f.end = n + 2
       /\ f.outer = builder.visibility_scope
       /\ f = [do |-> f.do, dest |-> f.dest, arms |-> f.arms, end |-> f.end,
               outer |-> f.outer, env |-> f.env]
  OBVIOUS
<1> HIDE DEF P, D, Q, t, T, f, z, n
<1>11. /\ BuilderOK(T) /\ T.cached_return_block = c /\ T.asserts = builder.asserts
       /\ Len(builder.local_decls) <= Len(T.local_decls)
       /\ Len(T.scopes) = Scopes /\ Len(T.loop_scopes) = Loops
       /\ LocalsOf(builder) \subseteq LocalsOf(T) /\ ScopesOf(builder) \subseteq ScopesOf(T)
       /\ BlocksOf(builder) \subseteq BlocksOf(T) /\ n \in BlocksOf(T) /\ n + 1 \in BlocksOf(T)
       /\ Jumpable(T, n + 2)
       /\ Unended(T) = (Unended(builder) \union {n, n + 1, n + 2}) \ {block}
       /\ Suspended(T) = Suspended(builder)
       /\ \A i \in 1..2 : D.arms[i].scope \in ScopesOf(T)
  BY <1>9 DEF Matched, Scopes, Loops
<1>12. HasPlan(R, T, Scopes, Loops, o, v.y, v.x)
  <2> DEFINE w == Level(Scopes, Loops, o, v.y, v.x)
  <2>1. w.s = Len(builder.scopes) /\ w.l = Len(builder.loop_scopes) BY DEF Level, Scopes, Loops
  <2> HIDE DEF w
  <2>2. Continues(builder, T, w) BY <1>9, <2>1 DEF Matched, Continues
  <2>3. HasPlan(R, builder, Scopes, Loops, o, v.y, v.x) BY <1>1 DEF Rest
  <2> HIDE DEF R, o
  <2> QED BY <2>2, <2>3, Continued DEF w
<1>13. Owned(f) = {n, n + 1, n + 2}
  <2>1. Owned(f) = {f.arms[i].block : i \in 1..Len(f.arms)} \union {f.end} BY <1>10 DEF Owned
  <2>2. \A i \in 1..2 : i = 1 \/ i = 2 OBVIOUS
  <2>3. 1 \in 1..2 /\ 2 \in 1..2 OBVIOUS
  <2>4. {f.arms[i].block : i \in 1..Len(f.arms)} = {n, n + 1} BY <1>8, <1>10, <2>2, <2>3
  <2> QED BY <1>10, <2>1, <2>4
<1>14. ArmsFrame(f, T)
  <2>1. builder.visibility_scope \in ScopesOf(T) BY <1>1, <1>11 DEF Common, BuilderOK
  <2>2. \A i \in 1..2 : i = 1 \/ i = 2 OBVIOUS
  <2>3. n # n + 1 /\ n # n + 2 /\ n + 1 # n + 2 BY <1>5
  <2>4. Len(f.arms) = 2 /\ f.arms[1].block = n /\ f.arms[2].block = n + 1 BY <1>8, <1>10
  <2>5. \A i \in 1..Len(f.arms) :
          f.arms[i].block \in BlocksOf(T) /\ f.arms[i].scope \in ScopesOf(T) /\ f.arms[i].block # f.end
    BY <1>10, <1>11, <2>2, <2>3, <2>4
  <2>6. \A i, j \in 1..Len(f.arms) : i # j => f.arms[i].block # f.arms[j].block
    BY <2>2, <2>3, <2>4
  <2>7. (\E S : f.arms \in Seq(S)) /\ Jumpable(T, f.end) /\ f.outer \in ScopesOf(T)
    BY <1>8, <1>10, <1>11, <2>1
  <2> QED BY <1>10, <2>5, <2>6, <2>7 DEF ArmsFrame
<1>15. x \in SUBSET Nat /\ Owned(f) \subseteq x /\ x \ Owned(f) = v.x
  BY <1>5, <1>6, <1>13
<1>16. Waits(<<f>> \o R, T, Scopes, Loops, o, v.y, x)
  <2>1. f.dest \in LocalsOf(T) BY <1>3, <1>10, <1>11
  <2> HIDE DEF x, R, o
  <2> QED BY <1>10, <1>12, <1>14, <1>15, <2>1, PushArms
<1>17. Between(T, Front(operands), yields, v.y, x)
  <2>1. Unended(T) = x \union ({c} \ {None}) BY <1>5, <1>6, <1>11
  <2>2. x \intersect ({c} \ {None}) = {} BY <1>5, <1>6
  <2>3. Len(T.local_decls) >= Len(Args) + 2
    <3>1. Len(builder.local_decls) \in Nat /\ Len(T.local_decls) \in Nat /\ Len(Args) \in Nat
      BY <1>1, <1>11, BuilderFields, ProgramAssumption DEF Common, BuilderOK
    <3> QED BY <1>4, <1>11, <3>1 DEF Filling
  <2>4. Front(operands) \in Seq(OperandsOf(T)) BY <1>1, <1>11, OperandsKept DEF Common
  <2>5. "let_wild" \notin Forms => T.asserts BY <1>4, <1>11 DEF Filling
  <2>6. "yield_rvalue" \notin Forms => yields = Cardinality(Suspended(T)) + v.y BY <1>5, <1>11
  <2> HIDE DEF x
  <2> QED BY <1>11, <2>1, <2>2, <2>3, <2>4, <2>5, <2>6 DEF Between
<1>18. block \in BlocksOf(T) BY <1>5, <1>11
<1>19. o = Len(Front(operands)) BY <1>1
<1> HIDE DEF x, o, R
<1>20. \E u : StateOK(T, block, <<f>> \o R, Front(operands), yields, u)
  BY ONLY <1>11, <1>16, <1>17, <1>18, <1>19, Between_StateOK
<1> QED BY <1>2, <1>20 DEF Kept
-----------------------------------------------------------------------------
(***************************************************************************)
(* The epilogue.                                                           *)
(***************************************************************************)
LEMMA NothingPlanned == ASSUME NEW B PROVE Planned(<< >>, B, NoneLeft)
<1> DEFINE lv == [i \in 1..1 |-> NoneLeft]
<1>1. NoneLeft \in Heights BY DEF NoneLeft, Heights
<1>2. Len(<< >>) = 0 OBVIOUS
<1>3. lv \in [1..(Len(<< >>) + 1) -> Heights] /\ lv[1] = NoneLeft /\ lv[Len(<< >>) + 1] = NoneLeft
  BY <1>1, <1>2
<1>4. IsPlan(lv, << >>, B, NoneLeft)
  <2> HIDE DEF lv
  <2> QED BY <1>2, <1>3 DEF IsPlan
<1>5. Frames(<< >>)
  <2>1. << >> \in Seq({}) OBVIOUS
  <2> QED BY <2>1 DEF Frames
<1> QED BY <1>4, <1>5 DEF Planned

\* The frame of the epilogue is the last.
LEMMA AtEpilogue ==
  ASSUME NEW v, Now(v), At({"epilogue"})
  PROVE  /\ Common(v) /\ Tail(todo) = << >> /\ Scopes = 2 /\ Loops = 0 /\ Len(operands) = 0
         /\ v.y = 0 /\ v.x = {}
<1> DEFINE f == Top
           w == After(f, v)
<1>1. todo # << >> /\ f.do = "epilogue" /\ f = Head(todo) BY DEF At, Top
<1>2. StateOK(builder, block, todo, operands, yields, v) BY DEF Now
<1>3. Common(v) /\ v \in Heights /\ v.o = Len(operands) BY <1>1, Started
<1>4. v \in Heights /\ FieldsOK(f, v, builder) /\ Planned(Tail(todo), builder, w) /\ w \in Heights
  BY <1>1, <1>2, TopFrame
<1>5. v.s = 2 /\ v.l = 0 BY <1>1, <1>4 DEF FieldsOK
<1>6. /\ Closes(f) = 2 /\ Ends(f) = 0 /\ Makes(f) = 0 /\ Takes(f) = 0 /\ Suspends(f) = 0
      /\ Owned(f) = {}
  BY <1>1 DEF Closes, Ends, Makes, Takes, Suspends, Owned
<1>7. /\ w.s = v.s - Closes(f) /\ w.o = (v.o + Makes(f)) - Takes(f)
      /\ w.y = v.y - Suspends(f) /\ w.x = v.x \ Owned(f)
  BY DEF After
<1> HIDE DEF f, w
<1>8. v.o \in Nat /\ v.y \in Nat /\ v.x \in SUBSET Nat BY <1>3 DEF Heights
<1>9. w.s = 0 /\ w.o = v.o /\ w.y = v.y /\ w.x = v.x BY <1>5, <1>6, <1>7, <1>8
<1>10. Tail(todo) = << >>
  <2> SUFFICES ASSUME Tail(todo) # << >> PROVE FALSE OBVIOUS
  <2>1. FrameOK(Head(Tail(todo)), w, builder) BY <1>4, PlanPop
  <2>2. w.s >= 2 BY <2>1 DEF FrameOK, Stands
  <2> QED BY <1>9, <2>2
<1>11. w = NoneLeft BY <1>4, <1>10, PlanDone
<1>12. v.o = 0 /\ v.y = 0 /\ v.x = {} BY <1>9, <1>11 DEF NoneLeft
<1> QED BY <1>3, <1>5, <1>10, <1>12 DEF Common

LEMMA EpilogueKeeps == ASSUME NEW v, Now(v), Epilogue PROVE Kept
<1> DEFINE P == pop_scope(builder, block, PARAMETERS)
           R == return_block(P)
           end == R.cached_return_block
           A == terminate(R, block, Jump("Goto", <<end>>, NoOperand))
           T == terminate(A, end, Jump("Return", << >>, NoOperand))
           C == pop_scope(T, end, CALL_SITE)
           p == C.asserts /\ \A b \in 1..Len(C.basic_blocks) : C.basic_blocks[b].term # Unterminated
           c == builder.cached_return_block
<1>1. /\ Common(v) /\ Tail(todo) = << >> /\ Scopes = 2 /\ Loops = 0 /\ Len(operands) = 0
      /\ v.y = 0 /\ v.x = {}
  BY AtEpilogue DEF Epilogue
<1>2. /\ builder' = [C EXCEPT !.asserts = p] /\ block' = end /\ todo' = << >> \o Tail(todo)
      /\ operands' = operands /\ yields' = yields
  BY DEF Epilogue, Then, program
<1>3. /\ BuilderOK(builder) /\ builder.scopes # << >> /\ block \in BlocksOf(builder)
      /\ builder.scopes[1].extent = CALL_SITE /\ builder.scopes[2].extent = PARAMETERS
      /\ operands \in Seq(OperandsOf(builder))
  BY <1>1 DEF Common, Stands
<1>4. Filling(builder, block, operands, yields, v.y, v.x) BY <1>1 DEF Common
<1>5. /\ Unended(builder) = {block} \union ({c} \ {None}) /\ c # block
      /\ c \in BlocksOf(builder) \union {None}
      /\ "yield_rvalue" \notin Forms => yields = Cardinality(Suspended(builder)) + v.y
  BY <1>1, <1>4, FillingFacts
<1>6. Keeps(builder, P) /\ Len(P.scopes) = 1 /\ P.scopes[1].extent = CALL_SITE
  <2>1. builder.scopes[Len(builder.scopes)].extent = PARAMETERS /\ Len(builder.scopes) = 2
    BY <1>1, <1>3 DEF Scopes
  <2>2. P = pop_scope(builder, block, PARAMETERS) OBVIOUS
  <2> HIDE DEF P
  <2>3. /\ Keeps(builder, P) /\ Len(P.scopes) = Len(builder.scopes) - 1
        /\ \A i \in 1..(Len(builder.scopes) - 1) : P.scopes[i].extent = builder.scopes[i].extent
    <3>1. builder.scopes[Len(builder.scopes)].extent = PARAMETERS BY <2>1
    <3> QED BY ONLY <1>3, <2>2, <3>1, ScopePopped, SMTT(60)
  <2>4. 1 \in 1..(Len(builder.scopes) - 1) /\ Len(P.scopes) = 1 BY <2>1, <2>3
  <2> QED BY <1>3, <2>3, <2>4
<1> HIDE DEF P
<1>7. /\ BuilderOK(P) /\ SameGraph(builder, P) /\ P.cached_return_block = c
      /\ BlocksOf(P) = BlocksOf(builder) /\ P.asserts = builder.asserts
      /\ P.loop_scopes = builder.loop_scopes
      /\ Len(builder.local_decls) <= Len(P.local_decls)
  BY <1>6, SameArms DEF Keeps, SameGraph
<1>8. Unended(P) = Unended(builder) /\ Suspended(P) = Suspended(builder)
  <2>1. \A b \in BlocksOf(builder) : TermOf(P, b) = TermOf(builder, b) BY <1>7 DEF SameGraph
  <2> QED BY <1>7, <2>1 DEF Unended, Suspended
<1>9. /\ Advances(P, R) /\ end # None /\ Jumpable(R, end) /\ Suspended(R) = Suspended(P)
      /\ \/ P.cached_return_block # None /\ R = P
         \/ /\ P.cached_return_block = None /\ end \notin BlocksOf(P)
            /\ Unended(R) = Unended(P) \union {end}
  <2>1. R = return_block(P) OBVIOUS
  <2> HIDE DEF R
  <2> QED BY <1>7, <2>1, ReturnBlock
<1>10. Unended(R) = {block, end} /\ block # end /\ BuilderOK(R)
  <2>1. BuilderOK(R) BY <1>9 DEF Advances
  <2>2. CASE P.cached_return_block # None /\ R = P BY <1>5, <1>7, <1>8, <2>1, <2>2
  <2>3. CASE P.cached_return_block = None /\ end \notin BlocksOf(P)
             /\ Unended(R) = Unended(P) \union {end}
    BY <1>3, <1>5, <1>7, <1>8, <2>1, <2>3
  <2> QED BY <1>9, <2>2, <2>3
<1> HIDE DEF R, end
<1>11. /\ Advances(R, A) /\ Unended(A) = {end} /\ Suspended(A) = Suspended(R)
       /\ BuilderOK(A) /\ Len(A.basic_blocks) = Len(R.basic_blocks)
  <2>1. block \in Unended(R) BY <1>10
  <2>2. /\ Advances(R, A) /\ Unended(A) = Unended(R) \ {block} /\ Suspended(A) = Suspended(R)
        /\ Len(A.basic_blocks) = Len(R.basic_blocks)
    BY <1>9, <1>10, <2>1, Jumped, SMTT(60)
  <2> QED BY <1>10, <2>2 DEF Advances
<1> HIDE DEF A
<1> DEFINE t == Jump("Return", << >>, NoOperand)
<1>12. Terminates(t, "Return", << >>, Len(A.local_decls), Len(A.basic_blocks))
  <2> DEFINE n == Len(A.local_decls)
             k == Len(A.basic_blocks)
             s == << >>
  <2>1. n \in Nat /\ k \in Nat BY <1>11, BuilderFields DEF BuilderOK
  <2>2. s \in Seq(1..k) /\ Arity("Return", Len(s)) BY DEF Arity
  <2>3. OperandFits(NoOperand, n) BY NoOperandFits
  <2> HIDE DEF n, k, s
  <2>4. Terminates(Jump("Return", s, NoOperand), "Return", s, n, k) BY <2>1, <2>2, <2>3, JumpFits
  <2> QED BY <2>4 DEF n, k, s
<1>13. /\ t \in AnyTerminator /\ IsTerminator(t, Len(A.local_decls), Len(A.basic_blocks))
       /\ t.op = "Return" /\ t.succ = << >>
  BY <1>12 DEF Terminates
<1>14. T = terminate(A, end, t) OBVIOUS
<1> HIDE DEF t, T
<1>15. /\ Advances(A, T) /\ Unended(T) = {} /\ Suspended(T) = Suspended(A) /\ BuilderOK(T)
       /\ Len(T.basic_blocks) = Len(A.basic_blocks)
  <2>1. end \in Unended(A) BY <1>11
  <2>2. \A i \in 1..Len(t.succ) : Jumpable(A, t.succ[i]) BY <1>13
  <2>a. t.op # "Match" /\ t.op # "Suspend" BY <1>13
  <2>3. /\ Advances(A, T) /\ Unended(T) = Unended(A) \ {end} /\ Suspended(T) = Suspended(A)
        /\ Len(T.basic_blocks) = Len(A.basic_blocks)
    <3>1. t \in AnyTerminator /\ IsTerminator(t, Len(A.local_decls), Len(A.basic_blocks))
      BY <1>13
    <3>2. BuilderOK(A) BY <1>11
    <3> QED BY ONLY <1>14, <2>1, <2>2, <2>a, <3>1, <3>2, Terminated
  <2> QED BY <1>11, <2>3 DEF Advances
<1>16. /\ T.scopes = P.scopes /\ T.local_decls = P.local_decls /\ T.asserts = P.asserts
       /\ T.loop_scopes = P.loop_scopes
  BY <1>9, <1>11, <1>15 DEF Advances
<1>17. end \in BlocksOf(T)
  <2>1. end \in BlocksOf(A) BY <1>11 DEF Unended
  <2> QED BY <1>15, <2>1 DEF BlocksOf
<1>18. Keeps(T, C) /\ Len(C.scopes) = 0
  <2>1. T.scopes # << >> BY <1>6, <1>16
  <2>2. T.scopes[Len(T.scopes)].extent = CALL_SITE /\ Len(T.scopes) = 1 BY <1>6, <1>16
  <2> QED BY <1>15, <1>17, <2>1, <2>2, ScopePopped
<1> HIDE DEF C
<1>19. /\ BuilderOK(C) /\ SameGraph(T, C) /\ C.asserts = T.asserts /\ BlocksOf(C) = BlocksOf(T)
       /\ Len(T.local_decls) <= Len(C.local_decls) /\ C.loop_scopes = T.loop_scopes
  BY <1>18, SameArms DEF Keeps, SameGraph
<1>20. \A b \in BlocksOf(C) : TermOf(C, b) = TermOf(T, b) /\ TermOf(C, b) # Unterminated
  <2>1. \A b \in BlocksOf(T) : TermOf(C, b) = TermOf(T, b) BY <1>19 DEF SameGraph
  <2>2. \A b \in BlocksOf(T) : TermOf(T, b) # Unterminated BY <1>15 DEF Unended
  <2> QED BY <1>19, <2>1, <2>2
<1>21. p = C.asserts
  <2>1. C.asserts \in BOOLEAN BY <1>19, BuilderFields DEF BuilderOK
  <2>2. \A b \in 1..Len(C.basic_blocks) : C.basic_blocks[b].term # Unterminated
    BY <1>20 DEF BlocksOf, TermOf
  <2> QED BY <2>1, <2>2
<1> HIDE DEF p
<1>22. builder'.asserts = builder.asserts /\ p \in BOOLEAN
  <2>1. C \in Builders /\ C.asserts \in BOOLEAN BY <1>19, BuilderFields DEF BuilderOK
  <2>2. builder'.asserts = p BY <1>2, <2>1 DEF Builders
  <2> QED BY <1>7, <1>16, <1>19, <1>21, <2>1, <2>2
<1>23. /\ BuilderOK(builder') /\ SameGraph(C, builder') /\ builder'.local_decls = C.local_decls
       /\ builder'.scopes = C.scopes /\ builder'.basic_blocks = C.basic_blocks
  <2>1. C.visibility_scope \in ScopesOf(C) BY <1>19 DEF BuilderOK
  <2> QED BY <1>2, <1>19, <1>22, <2>1, Adjusted
<1>24. Unended(builder') = {} /\ Suspended(builder') = Suspended(builder)
       /\ end \in BlocksOf(builder')
  <2>1. BlocksOf(builder') = BlocksOf(C) /\ \A b : TermOf(builder', b) = TermOf(C, b)
    BY <1>23 DEF BlocksOf, TermOf
  <2>2. Unended(builder') = {} BY <1>20, <2>1 DEF Unended
  <2>3. Suspended(builder') = Suspended(T) BY <1>19, <1>20, <2>1 DEF Suspended
  <2> QED BY <1>8, <1>9, <1>11, <1>15, <1>17, <1>19, <2>1, <2>2, <2>3
<1>25. /\ Len(builder.local_decls) <= Len(builder'.local_decls)
       /\ Len(builder'.local_decls) >= Len(Args) + 2
  <2>1. /\ Len(builder.local_decls) \in Nat /\ Len(P.local_decls) \in Nat
        /\ Len(C.local_decls) \in Nat /\ Len(Args) \in Nat
    BY <1>3, <1>7, <1>19, BuilderFields, ProgramAssumption DEF BuilderOK
  <2>2. Len(builder.local_decls) <= Len(C.local_decls) BY <1>7, <1>16, <1>19, <2>1
  <2>3. Len(builder.local_decls) >= Len(Args) + 2 BY <1>4 DEF Filling
  <2> QED BY <1>23, <2>1, <2>2, <2>3
<1>26. operands \in Seq(OperandsOf(builder'))
  BY <1>3, <1>23, <1>25, OperandsKept
<1>27. todo' = << >> BY <1>1, <1>2
<1>28. /\ NoneLeft.s = Len(builder'.scopes) /\ NoneLeft.l = Len(builder'.loop_scopes)
       /\ NoneLeft.o = Len(operands)
  <2>1. builder'.loop_scopes = builder.loop_scopes
    BY <1>7, <1>16, <1>19, <1>23 DEF SameGraph
  <2>2. Len(builder'.loop_scopes) = 0 BY <1>1, <2>1 DEF Loops
  <2> QED BY <1>1, <1>18, <1>23, <2>2 DEF NoneLeft
<1>29. Parts(builder', end, << >>, NoneLeft) BY <1>24 DEF Parts, NoneLeft
<1>30. "yield_rvalue" \notin Forms => yields = Cardinality(Suspended(builder')) + NoneLeft.y
  <2>1. NoneLeft.y = 0 BY DEF NoneLeft
  <2> QED BY <1>1, <1>5, <1>24, <2>1
<1>31. "let_wild" \notin Forms => builder'.asserts BY <1>4, <1>22 DEF Filling
<1>32. StateOK(builder', end, << >>, operands, yields, NoneLeft)
  BY <1>23, <1>24, <1>25, <1>26, <1>28, <1>29, <1>30, <1>31, NothingPlanned DEF StateOK
<1> QED BY <1>2, <1>27, <1>32 DEF Kept

-----------------------------------------------------------------------------
(***************************************************************************)
(* The start: the builder with the two outer scopes and the arguments.     *)
(***************************************************************************)
LEMMA NewBuilderOK ==
  /\ BuilderOK(NewBuilder) /\ Unended(NewBuilder) = {START_BLOCK} /\ Suspended(NewBuilder) = {}
  /\ NewBuilder.asserts = TRUE /\ NewBuilder.scopes = << >> /\ NewBuilder.loop_scopes = << >>
  /\ Len(NewBuilder.local_decls) = 2 /\ NewBuilder.extents = 2
  /\ NewBuilder.cached_return_block = None
<1> DEFINE B == NewBuilder
           k == EmptyBlock({CALL_SITE, PARAMETERS})
           d1 == [name |-> "return_pointer", scope |-> 2, extent |-> CALL_SITE]
           d2 == [name |-> "coroutine_args", scope |-> 3, extent |-> CALL_SITE]
           blocks == <<k>>
           decls == <<d1, d2>>
           visible == <<None, 1, 2>>
<1>1. k.stmts = << >> /\ k.scopes = << >> /\ k.term = Unterminated /\ k.home = {CALL_SITE, PARAMETERS}
      /\ k = [stmts |-> k.stmts, scopes |-> k.scopes, term |-> k.term, home |-> k.home]
  BY DEF EmptyBlock
<1>2. k \in BlockRecords
  <2>1. << >> \in Seq(AnyStatement) /\ << >> \in Seq(Nat) OBVIOUS
  <2>2. {CALL_SITE, PARAMETERS} \in SUBSET Nat BY DEF CALL_SITE, PARAMETERS
  <2> HIDE DEF k
  <2> QED BY <1>1, <2>1, <2>2 DEF BlockRecords
<1>3. d1 \in DeclRecords /\ d2 \in DeclRecords BY DEF DeclRecords, AllNames, CALL_SITE
<1> HIDE DEF k, d1, d2
<1>4. blocks \in Seq(BlockRecords) /\ Len(blocks) = 1 /\ blocks[1] = k BY <1>2
<1>5. decls \in Seq(DeclRecords) /\ Len(decls) = 2 BY <1>3
<1>6. visible \in Seq(Nat) /\ Len(visible) = 3 BY DEF None
<1>7. B = [basic_blocks |-> blocks, scopes |-> << >>, extents |-> 2,
           visibility_scope |-> 3, visibility_scopes |-> visible,
           loop_scopes |-> << >>, local_decls |-> decls, cached_return_block |-> None,
           asserts |-> TRUE]
  BY DEF NewBuilder, k, d1, d2
<1> HIDE DEF blocks, decls, visible, B
<1>8. /\ B.basic_blocks = blocks /\ B.scopes = << >> /\ B.extents = 2 /\ B.visibility_scope = 3
      /\ B.visibility_scopes = visible /\ B.loop_scopes = << >> /\ B.local_decls = decls
      /\ B.cached_return_block = None /\ B.asserts = TRUE
  BY <1>7
<1>9. B \in Builders
  <2>1. << >> \in Seq(ScopeRecords) /\ << >> \in Seq(LoopRecords) OBVIOUS
  <2> QED BY <1>4, <1>5, <1>6, <1>7, <2>1 DEF Builders, None
<1>10. /\ BlocksOf(B) = {1} /\ StmtsOf(B, 1) = << >> /\ TermOf(B, 1) = Unterminated
       /\ Unterminated.op = "None" /\ Unterminated.succ = << >>
  <2>1. B.basic_blocks[1] = k /\ Len(B.basic_blocks) = 1 BY <1>4, <1>8
  <2>2. 1..1 = {1} OBVIOUS
  <2>3. Unterminated.op = "None" /\ Unterminated.succ = << >> BY DEF Unterminated
  <2> QED BY ONLY <1>1, <2>1, <2>2, <2>3 DEF BlocksOf, StmtsOf, TermOf
<1>11. Unended(B) = {START_BLOCK} /\ Suspended(B) = {}
  BY <1>10 DEF Unended, Suspended, START_BLOCK
<1>12. Filled(B) /\ Ended(B) BY <1>10 DEF Filled, Ended
<1>13. Scheduled(B) BY <1>8 DEF Scheduled
<1>14. ArmsOwned(B)
  <2>1. \A x : ~IsArm(B, x) BY <1>10 DEF IsArm
  <2> QED BY <1>10, <2>1 DEF ArmsOwned
<1>15. Looping(B) /\ Returning(B) BY <1>8 DEF Looping, Returning
<1>16. Len(B.local_decls) = 2 /\ Len(B.basic_blocks) = 1 /\ B.visibility_scope \in ScopesOf(B)
  <2>1. B.visibility_scope \in 1..3 /\ Len(B.visibility_scopes) = 3 BY <1>6, <1>8
  <2> QED BY <1>4, <1>5, <1>8, <2>1 DEF ScopesOf
<1>17. BuilderOK(B) BY <1>9, <1>12, <1>13, <1>14, <1>15, <1>16 DEF BuilderOK
<1> QED BY <1>8, <1>11, <1>16, <1>17 DEF B

LEMMA ScopeOpened ==
  ASSUME NEW B, BuilderOK(B), NEW extent \in Nat, NEW P, P = push_scope(B, extent)
  PROVE  /\ Keeps(B, P) /\ P.scopes # << >>
         /\ Len(P.scopes) = Len(B.scopes) + 1 /\ P.scopes[Len(B.scopes) + 1].extent = extent
         /\ \A i \in 1..Len(B.scopes) : P.scopes[i].extent = B.scopes[i].extent
         /\ Len(P.local_decls) = Len(B.local_decls)
<1> DEFINE e == B.extents
<1>1. B \in Builders /\ e \in Nat BY BuilderFields DEF BuilderOK
<1>2. B = [B EXCEPT !.extents = e] BY <1>1 DEF Builders
<1>3. P = push_scope([B EXCEPT !.extents = e], extent) BY <1>2
<1> HIDE DEF e
<1> QED BY <1>1, <1>3, ScopePushed, SMTT(60)

LEMMA KeptGraph ==
  ASSUME NEW B, NEW B2, Keeps(B, B2)
  PROVE  /\ BuilderOK(B2) /\ Unended(B2) = Unended(B) /\ Suspended(B2) = Suspended(B)
         /\ B2.asserts = B.asserts /\ B2.cached_return_block = B.cached_return_block
         /\ B2.loop_scopes = B.loop_scopes
<1>1. SameGraph(B, B2) /\ BuilderOK(B2) /\ B2.asserts = B.asserts BY DEF Keeps
<1>2. BlocksOf(B2) = BlocksOf(B) BY <1>1, SameArms
<1>3. \A c \in BlocksOf(B) : TermOf(B2, c) = TermOf(B, c) BY <1>1 DEF SameGraph
<1> QED BY <1>1, <1>2, <1>3 DEF Unended, Suspended, SameGraph

\* The frame of the epilogue, the last one.
LEMMA EpiloguePlanned ==
  ASSUME NEW B, NEW w, w = Level(2, 0, 0, 0, {}), Stands(w, B), NEW f, f = [do |-> "epilogue"]
  PROVE  HasPlan(<<f>> \o << >>, B, 2, 0, 0, 0, {})
<1>1. /\ w.s = 2 /\ w.l = 0 /\ w.o = 0 /\ w.y = 0 /\ w.x = {} /\ w.c = TRUE BY DEF Level
<1>2. f.do = "epilogue" OBVIOUS
<1>3. /\ Closes(f) = 2 /\ Ends(f) = 0 /\ Makes(f) = 0 /\ Takes(f) = 0 /\ Suspends(f) = 0
      /\ Owned(f) = {}
  BY <1>2 DEF Closes, Ends, Makes, Takes, Suspends, Owned
<1>4. After(f, w) = NoneLeft
  <2>1. /\ w.s - Closes(f) = 0 /\ w.l - Ends(f) = 0 /\ (w.o + Makes(f)) - Takes(f) = 0
        /\ w.y - Suspends(f) = 0 /\ w.x \ Owned(f) = {}
    BY <1>1, <1>3
  <2>2. (f.do \notin {"arm_end", "epilogue"}) = FALSE BY <1>2
  <2> QED BY <2>1, <2>2 DEF After, NoneLeft
<1>5. FieldsOK(f, w, B) BY <1>1, <1>2 DEF FieldsOK
<1>6. FrameOK(f, w, B)
  <2>1. w.c = (f.do # "arms") BY <1>1, <1>2
  <2>2. w.o >= Takes(f) /\ Owned(f) \subseteq w.x BY <1>1, <1>3
  <2>3. f.do # "epilogue" => w.s >= Closes(f) + 2 BY <1>2
  <2> QED BY ONLY Stands(w, B), <1>5, <2>1, <2>2, <2>3 DEF FrameOK
<1>7. w \in Heights BY DEF Stands
<1>8. Planned(<< >>, B, NoneLeft) BY NothingPlanned
<1> DEFINE T == << >>
<1> HIDE DEF T
<1>9. Planned(<<f>> \o T, B, w)
  <2>1. Planned(T, B, NoneLeft) BY <1>8 DEF T
  <2> QED BY <1>4, <1>6, <1>7, <2>1, PlanPush
<1> QED BY <1>9 DEF HasPlan, T

LEMMA InitEstablishes == Init => IInv
<1> SUFFICES ASSUME Init PROVE IInv OBVIOUS
<1> DEFINE N == NewBuilder
           C == push_scope(N, CALL_SITE)
           P == push_scope(C, PARAMETERS)
           D == declare_bindings(P, START_BLOCK, Args)
           a == InnerBlock(RETURN_POINTER)
           e == [do |-> "epilogue"]
<1>1. /\ builder = IF D.scope = None THEN D.b ELSE [D.b EXCEPT !.visibility_scope = D.scope]
      /\ block = START_BLOCK /\ todo = <<a, e>> /\ operands = << >> /\ fuel = Fuel /\ yields = 0
  BY DEF Init
<1>2. /\ BuilderOK(N) /\ Unended(N) = {START_BLOCK} /\ Suspended(N) = {}
      /\ N.asserts = TRUE /\ N.scopes = << >> /\ N.loop_scopes = << >>
      /\ Len(N.local_decls) = 2 /\ N.cached_return_block = None
  BY NewBuilderOK
<1> HIDE DEF N
<1>3. /\ Keeps(N, C) /\ Len(C.scopes) = 1 /\ C.scopes[1].extent = CALL_SITE
      /\ Len(C.local_decls) = 2
  <2>1. Len(N.scopes) = 0 BY <1>2
  <2>2. /\ Keeps(N, C) /\ Len(C.scopes) = Len(N.scopes) + 1
        /\ C.scopes[Len(N.scopes) + 1].extent = CALL_SITE
        /\ Len(C.local_decls) = Len(N.local_decls)
    <3>1. BuilderOK(N) /\ CALL_SITE \in Nat BY <1>2 DEF CALL_SITE
    <3> QED BY <3>1, ScopeOpened
  <2> HIDE DEF C
  <2> QED BY <1>2, <2>1, <2>2
<1> HIDE DEF C
<1>4. /\ Keeps(C, P) /\ Len(P.scopes) = 2 /\ P.scopes[2].extent = PARAMETERS
      /\ P.scopes[1].extent = CALL_SITE /\ P.scopes # << >> /\ Len(P.local_decls) = 2
  <2>1. /\ Keeps(C, P) /\ Len(P.scopes) = Len(C.scopes) + 1
        /\ P.scopes[Len(C.scopes) + 1].extent = PARAMETERS
        /\ \A i \in 1..Len(C.scopes) : P.scopes[i].extent = C.scopes[i].extent
        /\ Len(P.local_decls) = Len(C.local_decls) /\ P.scopes # << >>
    <3>1. BuilderOK(C) /\ PARAMETERS \in Nat BY <1>3 DEF Keeps, PARAMETERS
    <3> QED BY <3>1, ScopeOpened
  <2>2. 1 \in 1..Len(C.scopes) BY <1>3
  <2> HIDE DEF P
  <2> QED BY <1>3, <2>1, <2>2
<1> HIDE DEF P
<1>5. /\ BuilderOK(P) /\ Unended(P) = {START_BLOCK} /\ Suspended(P) = {}
      /\ P.asserts = TRUE /\ P.cached_return_block = None /\ P.loop_scopes = << >>
  <2>1. /\ BuilderOK(C) /\ Unended(C) = {START_BLOCK} /\ Suspended(C) = {}
        /\ C.asserts = TRUE /\ C.cached_return_block = None /\ C.loop_scopes = << >>
    BY <1>2, <1>3, KeptGraph
  <2> QED BY <1>4, <2>1, KeptGraph
<1>6. Declares(P, D, Len(Args))
  <2>1. ToSet(Args) \subseteq AllNames BY DEF AllNames
  <2>2. Args \in Seq(AllNames) BY <2>1, ProgramAssumption, SeqMonotonic
  <2>3. START_BLOCK \in BlocksOf(P) BY <1>5 DEF Unended
  <2> QED BY <1>4, <1>5, <2>2, <2>3, BindingsDeclared
<1> HIDE DEF D
<1>7. /\ Grows(P, D.b) /\ Keeps(P, D.b) /\ SameScopes(P, D.b)
      /\ D.scope \in {None} \union ScopesOf(D.b)
      /\ Len(D.b.local_decls) >= Len(P.local_decls) + Len(Args)
  BY <1>6 DEF Declares, Grows
<1>8. /\ BuilderOK(D.b) /\ Unended(D.b) = {START_BLOCK} /\ Suspended(D.b) = {}
      /\ D.b.asserts = TRUE /\ D.b.cached_return_block = None /\ D.b.loop_scopes = << >>
  BY <1>5, <1>7, KeptGraph
<1>9. /\ Len(D.b.scopes) = 2 /\ D.b.scopes[1].extent = CALL_SITE /\ D.b.scopes[2].extent = PARAMETERS
      /\ Len(D.b.local_decls) >= Len(Args) + 2
  <2>1. 1 \in 1..Len(P.scopes) /\ 2 \in 1..Len(P.scopes) BY <1>4
  <2>2. Len(Args) \in Nat BY ProgramAssumption
  <2>3. D.b.scopes[1].extent = CALL_SITE /\ D.b.scopes[2].extent = PARAMETERS
    BY <1>4, <1>7, <2>1 DEF SameScopes
  <2> QED BY <1>4, <1>7, <2>2, <2>3 DEF SameScopes
<1>10. /\ BuilderOK(builder) /\ Unended(builder) = {START_BLOCK} /\ Suspended(builder) = {}
       /\ builder.asserts = TRUE /\ builder.cached_return_block = None
       /\ builder.loop_scopes = << >> /\ builder.scopes = D.b.scopes
       /\ builder.local_decls = D.b.local_decls
  <2>1. CASE D.scope = None BY <1>1, <1>8, <2>1
  <2>2. CASE D.scope # None
    <3>1. D.scope \in ScopesOf(D.b) BY <1>7, <2>2
    <3>2. builder = [D.b EXCEPT !.visibility_scope = D.scope] BY <1>1, <2>2
    <3>3. Keeps(D.b, builder) /\ builder.scopes = D.b.scopes /\ builder.local_decls = D.b.local_decls
      <4>1. BuilderOK(D.b) BY <1>8
      <4> QED BY ONLY <3>1, <3>2, <4>1, Rescoped
    <3> QED BY <1>8, <3>3, KeptGraph
  <2> QED BY <2>1, <2>2
<1>11. /\ Len(builder.scopes) = 2 /\ Len(builder.loop_scopes) = 0
       /\ builder.scopes[1].extent = CALL_SITE /\ builder.scopes[2].extent = PARAMETERS
       /\ Len(builder.local_decls) >= Len(Args) + 2
  BY <1>9, <1>10
<1> DEFINE w == Level(2, 0, 0, 0, {})
<1>12. Stands(w, builder)
  <2>1. /\ w.s = 2 /\ w.l = 0 /\ w = [s |-> 2, l |-> 0, o |-> 0, y |-> 0, x |-> {}, c |-> TRUE]
    BY DEF Level
  <2> HIDE DEF w
  <2>2. w \in Heights BY <2>1 DEF Heights
  <2>3. \A j \in 1..w.l : Encloses(builder, w, builder.loop_scopes[j].extent) BY <2>1
  <2> QED BY <1>11, <2>1, <2>2, <2>3 DEF Stands
<1> DEFINE E == <<e>> \o << >>
           S == <<a>> \o E
<1>13. HasPlan(E, builder, 2, 0, 0, 0, {})
  <2> HIDE DEF w
  <2>1. w = Level(2, 0, 0, 0, {}) BY DEF w
  <2> QED BY <1>12, <2>1, EpiloguePlanned
<1>14. a.do = "block" /\ a.dest = RETURN_POINTER BY DEF InnerBlock
<1> HIDE DEF a
<1>15. todo = S
  <2> DEFINE T == << >>
  <2>1. Frames(T)
    <3>1. << >> \in Seq({}) OBVIOUS
    <3> QED BY <3>1 DEF Frames
  <2>2. <<a, e>> \o << >> = <<a, e>>
    <3>1. <<a, e>> \in Seq({a, e}) OBVIOUS
    <3> QED BY <3>1, ConcatEmptySeq
  <2> HIDE DEF T
  <2>3. <<a, e>> \o T = <<a>> \o (<<e>> \o T) BY <2>1, ConsTwo
  <2> QED BY <1>1, <2>2, <2>3 DEF T
<1> HIDE DEF E, e
<1>16. HasPlan(S, builder, 2, 0, 0, 0, {})
  <2>1. a.do \in {"into", "block"} BY <1>14
  <2>2. a.dest \in LocalsOf(builder)
    <3>1. Len(builder.local_decls) \in Nat /\ Len(builder.local_decls) >= 2
      BY <1>10, BuilderFields DEF BuilderOK
    <3> QED BY <1>14, <3>1 DEF LocalsOf, RETURN_POINTER
  <2> QED BY <1>13, <2>1, <2>2, PushInto
<1> HIDE DEF S
<1>17. Filling(builder, block, operands, yields, 0, {})
  <2>1. operands \in Seq(OperandsOf(builder)) BY <1>1
  <2>2. block \in BlocksOf(builder) BY <1>1, <1>10 DEF Unended
  <2>3. yields = Cardinality(Suspended(builder)) + 0
    <3>1. Cardinality(Suspended(builder)) = 0 BY <1>10, FS_EmptySet
    <3> QED BY <1>1, <3>1
  <2>4. Unended(builder) = {} \union {block} \union ({builder.cached_return_block} \ {None})
    BY <1>1, <1>10
  <2>5. builder.cached_return_block # block BY <1>1, <1>10 DEF None, START_BLOCK
  <2> QED BY <1>10, <1>11, <2>1, <2>2, <2>3, <2>4, <2>5 DEF Filling
<1>18. Len(operands) = 0 BY <1>1
<1>19. \E u : StateOK(builder, block, todo, operands, yields, u)
  <2>1. HasPlan(todo, builder, 2, 0, 0, 0, {}) BY <1>15, <1>16
  <2> DEFINE y == 0
             x == {}
  <2>2. 2 = Len(builder.scopes) /\ y = Len(builder.loop_scopes) /\ y = Len(operands) BY <1>11, <1>18
  <2>3. HasPlan(todo, builder, 2, y, y, y, x) /\ Filling(builder, block, operands, yields, y, x)
    BY <1>17, <2>1
  <2> HIDE DEF y, x
  <2> QED BY ONLY <2>2, <2>3, Filled_StateOK
<1>20. fuel \in 0..Fuel BY <1>1, ProgramAssumption
<1> QED BY <1>19, <1>20 DEF IInv
-----------------------------------------------------------------------------
(***************************************************************************)
(* The invariant, and what follows from it.                                *)
(***************************************************************************)
\* Fuel is only spent.
LEMMA FuelSpent == ASSUME Next PROVE UNCHANGED fuel \/ Spend
<1> DEFINE Same == UNCHANGED fuel
<1>1. ASSUME IntoConstant \/ OperandConstant \/ OperandTemp \/ UseTemp PROVE Same
  BY <1>1 DEF IntoConstant, OperandConstant, OperandTemp, UseTemp
<1>2. ASSUME RvalueMac PROVE Spend BY <1>2 DEF RvalueMac
<1>3. ASSUME \E name \in Names \union ArmNames : IntoPath(name) \/ OperandPath(name) PROVE Same
  BY <1>3 DEF IntoPath, OperandPath
<1>4. ASSUME \E name \in Names \union ArmNames : AssignExpr(name) PROVE Spend
  BY <1>4 DEF AssignExpr
<1>5. ASSUME StmtOther \/ Assign PROVE Same BY <1>5 DEF StmtOther, Assign
<1>6. ASSUME \E i \in 1..Len(builder.loop_scopes) : BreakExpr(i) \/ ContinueExpr(i) PROVE Spend
  BY <1>6 DEF BreakExpr, ContinueExpr
<1>7. ASSUME ReturnExpr \/ BlockExpr \/ ExprStmt \/ MacStmt PROVE Spend
  BY <1>7 DEF ReturnExpr, BlockExpr, ExprStmt, MacStmt
<1>8. ASSUME ExitScope \/ OpenBlock \/ PopScope PROVE Same
  BY <1>8 DEF ExitScope, OpenBlock, PopScope
<1>9. ASSUME \E names \in LetPatterns : LetStmt(names) PROVE Spend BY <1>9 DEF LetStmt
<1>10. ASSUME LetPattern \/ EnterVisibility \/ FinishBlock \/ CloseBlock PROVE Same
  BY <1>10 DEF LetPattern, EnterVisibility, FinishBlock, CloseBlock
<1>11. ASSUME IfExpr \/ LoopExpr \/ MatchExpr \/ SuspendExpr \/ CallExpr PROVE Spend
  BY <1>11 DEF IfExpr, LoopExpr, MatchExpr, SuspendExpr, CallExpr
<1>12. ASSUME IfThen \/ IfElse \/ IfJoin \/ WhileTest \/ LoopBody \/ LoopEnd PROVE Same
  BY <1>12 DEF IfThen, IfElse, IfJoin, WhileTest, LoopBody, LoopEnd
<1>13. ASSUME \E pats \in ArmPatterns \X ArmPatterns : MatchArms(pats) PROVE Same
  BY <1>13 DEF MatchArms
<1>14. ASSUME NextArm \/ ArmEnd \/ MatchEnd \/ Suspend \/ Call \/ Epilogue PROVE Same
  BY <1>14 DEF NextArm, ArmEnd, MatchEnd, Suspend, Call, Epilogue
<1>15. ASSUME Done PROVE Same BY <1>15 DEF Done, vars
<1> HIDE DEF Same
<1>16. Same \/ Spend
  BY <1>1, <1>2, <1>3, <1>4, <1>5, <1>6, <1>7, <1>8, <1>9, <1>10, <1>11, <1>12, <1>13, <1>14,
     <1>15 DEF Next
<1> QED BY <1>16 DEF Same

LEMMA NextKeeps == ASSUME NEW v, Now(v), Next PROVE Kept
<1>1. ASSUME IntoConstant PROVE Kept BY <1>1, IntoConstantKeeps
<1>2. ASSUME OperandConstant PROVE Kept BY <1>2, OperandConstantKeeps
<1>3. ASSUME OperandTemp PROVE Kept BY <1>3, OperandTempKeeps
<1>4. ASSUME UseTemp PROVE Kept BY <1>4, UseTempKeeps
<1>5. ASSUME RvalueMac PROVE Kept BY <1>5, RvalueMacKeeps
<1>6. ASSUME NEW name \in Names \union ArmNames, IntoPath(name) PROVE Kept BY <1>6, IntoPathKeeps
<1>7. ASSUME NEW name \in Names \union ArmNames, OperandPath(name) PROVE Kept
  BY <1>7, OperandPathKeeps
<1>8. ASSUME NEW name \in Names \union ArmNames, AssignExpr(name) PROVE Kept
  BY <1>8, AssignExprKeeps
<1>9. ASSUME StmtOther PROVE Kept BY <1>9, StmtOtherKeeps
<1>10. ASSUME Assign PROVE Kept BY <1>10, AssignKeeps
<1>11. ASSUME NEW i \in 1..Len(builder.loop_scopes), BreakExpr(i) PROVE Kept
  BY <1>11, BreakExprKeeps DEF Loops
<1>12. ASSUME NEW i \in 1..Len(builder.loop_scopes), ContinueExpr(i) PROVE Kept
  BY <1>12, ContinueExprKeeps DEF Loops
<1>13. ASSUME ReturnExpr PROVE Kept BY <1>13, ReturnExprKeeps
<1>14. ASSUME ExitScope PROVE Kept BY <1>14, ExitScopeKeeps
<1>15. ASSUME BlockExpr PROVE Kept BY <1>15, BlockExprKeeps
<1>16. ASSUME OpenBlock PROVE Kept BY <1>16, OpenBlockKeeps
<1>17. ASSUME ExprStmt PROVE Kept BY <1>17, ExprStmtKeeps
<1>18. ASSUME MacStmt PROVE Kept BY <1>18, MacStmtKeeps
<1>19. ASSUME PopScope PROVE Kept BY <1>19, PopScopeKeeps
<1>20. ASSUME NEW names \in LetPatterns, LetStmt(names) PROVE Kept BY <1>20, LetStmtKeeps
<1>21. ASSUME LetPattern PROVE Kept BY <1>21, LetPatternKeeps
<1>22. ASSUME EnterVisibility PROVE Kept BY <1>22, EnterVisibilityKeeps
<1>23. ASSUME FinishBlock PROVE Kept BY <1>23, FinishBlockKeeps
<1>24. ASSUME CloseBlock PROVE Kept BY <1>24, CloseBlockKeeps
<1>25. ASSUME IfExpr PROVE Kept BY <1>25, IfExprKeeps
<1>26. ASSUME IfThen PROVE Kept BY <1>26, IfThenKeeps
<1>27. ASSUME IfElse PROVE Kept BY <1>27, IfElseKeeps
<1>28. ASSUME IfJoin PROVE Kept BY <1>28, IfJoinKeeps
<1>29. ASSUME LoopExpr PROVE Kept BY <1>29, LoopExprKeeps
<1>30. ASSUME WhileTest PROVE Kept BY <1>30, WhileTestKeeps
<1>31. ASSUME LoopBody PROVE Kept BY <1>31, LoopBodyKeeps
<1>32. ASSUME LoopEnd PROVE Kept BY <1>32, LoopEndKeeps
<1>33. ASSUME MatchExpr PROVE Kept BY <1>33, MatchExprKeeps
<1>34. ASSUME NEW pats \in ArmPatterns \X ArmPatterns, MatchArms(pats) PROVE Kept
  BY <1>34, MatchArmsKeeps
<1>35. ASSUME NextArm PROVE Kept BY <1>35, NextArmKeeps
<1>36. ASSUME ArmEnd PROVE Kept BY <1>36, ArmEndKeeps
<1>37. ASSUME MatchEnd PROVE Kept BY <1>37, MatchEndKeeps
<1>38. ASSUME SuspendExpr PROVE Kept BY <1>38, SuspendExprKeeps
<1>39. ASSUME Suspend PROVE Kept BY <1>39, SuspendKeeps
<1>40. ASSUME CallExpr PROVE Kept BY <1>40, CallExprKeeps
<1>41. ASSUME Call PROVE Kept BY <1>41, CallKeeps
<1>42. ASSUME Epilogue PROVE Kept BY <1>42, EpilogueKeeps
<1>43. ASSUME Done PROVE Kept BY <1>43 DEF Done, vars, program, Now, Kept
<1> QED
  BY <1>1, <1>2, <1>3, <1>4, <1>5, <1>6, <1>7, <1>8, <1>9, <1>10, <1>11, <1>12, <1>13, <1>14,
     <1>15, <1>16, <1>17, <1>18, <1>19, <1>20, <1>21, <1>22, <1>23, <1>24, <1>25, <1>26, <1>27,
     <1>28, <1>29, <1>30, <1>31, <1>32, <1>33, <1>34, <1>35, <1>36, <1>37, <1>38, <1>39, <1>40,
     <1>41, <1>42, <1>43 DEF Next

LEMMA Inductive == Spec => []IInv
<1>1. Init => IInv BY InitEstablishes
<1>2. IInv /\ [Next]_vars => IInv'
  <2> SUFFICES ASSUME IInv, [Next]_vars PROVE IInv' OBVIOUS
  <2>1. PICK v : StateOK(builder, block, todo, operands, yields, v) BY DEF IInv
  <2>2. fuel \in 0..Fuel BY DEF IInv
  <2>3. CASE UNCHANGED vars BY <2>3 DEF vars, program, IInv
  <2>4. CASE Next
    <3>1. Kept BY <2>1, <2>4, NextKeeps DEF Now
    <3>2. UNCHANGED fuel \/ Spend BY <2>4, FuelSpent
    <3>3. fuel' \in 0..Fuel BY <2>2, <3>2, ProgramAssumption DEF Spend
    <3> QED BY <3>1, <3>3 DEF Kept, IInv
  <2> QED BY <2>3, <2>4
<1> QED BY <1>1, <1>2, PTL DEF Spec

LEMMA BodyStatements ==
  ASSUME BuilderOK(builder), NEW b \in BuiltBlocks
  PROVE  Stmts(Body, b) \in Seq(StatementSet(Len(builder.local_decls)))
<1> DEFINE ss == StmtsOf(builder, b)
           n == Len(builder.local_decls)
<1>1. Stmts(Body, b) = ss BY DEF Stmts, Body, StmtsOf
<1>2. builder \in Builders /\ Filled(builder) /\ b \in BlocksOf(builder)
  BY DEF BuilderOK, BuiltBlocks, BlocksOf
<1>3. ss \in Seq(AnyStatement) BY <1>2, BlockFields
<1>4. ASSUME NEW i \in 1..Len(ss) PROVE ss[i] \in StatementSet(n)
  <2>1. StmtFits(ss[i], n) BY <1>2 DEF Filled
  <2>2. ss[i] \in AnyStatement BY <1>3
  <2> HIDE DEF ss, n
  <2> QED BY <2>1, <2>2 DEF StmtFits, AnyStatement, StatementSet
<1> HIDE DEF ss, n
<1>5. ss \in Seq(StatementSet(n))
  <2>1. Len(ss) \in Nat /\ ss = [i \in 1..Len(ss) |-> ss[i]] BY <1>3
  <2> QED BY <1>4, <2>1
<1> QED BY <1>1, <1>5 DEF n

\* Whatever the program, the Builder stays well-typed: statements and
\* operands use locals that were declared, and drops are scheduled for such
\* locals only.
THEOREM LoweringTypes == Spec => []LoweringTypeOK
<1>1. IInv => LoweringTypeOK
  <2> SUFFICES ASSUME IInv PROVE LoweringTypeOK OBVIOUS
  <2>1. PICK v : StateOK(builder, block, todo, operands, yields, v) BY DEF IInv
  <2>2. /\ BuilderOK(builder) /\ block \in BlocksOf(builder)
        /\ operands \in Seq(OperandsOf(builder))
    BY <2>1 DEF StateOK
  <2>3. block \in BuiltBlocks /\ fuel \in 0..Fuel BY <2>2 DEF IInv, BuiltBlocks, BlocksOf
  <2>4. \A b \in BuiltBlocks : Stmts(Body, b) \in Seq(StatementSet(Len(builder.local_decls)))
    BY <2>2, BodyStatements
  <2>5. ASSUME NEW i \in 1..Len(operands)
        PROVE  operands[i].moved \union operands[i].read \subseteq BuiltLocals
    <3>1. operands[i] \in OperandsOf(builder) BY <2>2
    <3> QED BY <3>1 DEF OperandsOf, BuiltLocals, LocalsOf
  <2>6. UNION {builder.scopes[i].drops : i \in 1..Len(builder.scopes)} \subseteq BuiltLocals
    BY <2>2 DEF BuilderOK, Scheduled, BuiltLocals, LocalsOf
  <2>7. builder.visibility_scope \in 1..Len(builder.visibility_scopes)
    BY <2>2 DEF BuilderOK, ScopesOf
  <2> QED BY <2>3, <2>4, <2>5, <2>6, <2>7 DEF LoweringTypeOK
<1> QED BY <1>1, Inductive, PTL

\* No assert! or span_bug! of the lowering fails on a program without a let
\* of a pattern that binds nothing.
THEOREM AssertionsCorrect ==
  ASSUME "let_wild" \notin Forms PROVE Spec => []AssertionsHold
<1>1. IInv => AssertionsHold BY DEF IInv, StateOK, AssertionsHold
<1> QED BY <1>1, Inductive, PTL

\* When construct_fn has returned, every block was ended.
LEMMA AllEnded ==
  ASSUME IInv, Finished
  PROVE  /\ BuilderOK(builder) /\ Len(builder.local_decls) >= Len(Args) + 2
         /\ Unended(builder) = {}
         /\ "yield_rvalue" \notin Forms => yields = Cardinality(Suspended(builder))
<1>1. PICK v : StateOK(builder, block, todo, operands, yields, v) BY DEF IInv
<1>2. todo = << >> BY DEF Finished
<1>3. v = NoneLeft BY <1>1, <1>2, PlanDone DEF StateOK
<1>4. v.x = {} /\ v.c = FALSE /\ v.y = 0 BY <1>3 DEF NoneLeft
<1>5. /\ BuilderOK(builder) /\ Len(builder.local_decls) >= Len(Args) + 2
      /\ Parts(builder, block, todo, v)
      /\ "yield_rvalue" \notin Forms => yields = Cardinality(Suspended(builder)) + v.y
  BY <1>1 DEF StateOK
<1>6. Unended(builder) = {} BY <1>2, <1>4, <1>5 DEF Parts
<1>7. Cardinality(Suspended(builder)) \in Nat BY <1>5, SuspendedFinite
<1> QED BY <1>4, <1>5, <1>6, <1>7

\* Every program is lowered to a body with all that the theorems about the
\* dataflow analysis and the generated code assume of one: every block ends
\* in a terminator that leads to blocks that exist, and the block of an arm
\* with bindings is the target of its match only.
THEOREM BuiltCorrect == Spec => []BuiltIsBody
<1>1. IInv => BuiltIsBody
  <2> SUFFICES ASSUME IInv, Finished PROVE IsBody(Body) /\ ArmsOwnTheirBlocks(Body)
    BY DEF BuiltIsBody
  <2> DEFINE n == Len(builder.local_decls)
             k == Len(builder.basic_blocks)
             m == Body
  <2>1. /\ BuilderOK(builder) /\ n >= Len(Args) + 2 /\ Unended(builder) = {} BY AllEnded
  <2>2. n \in Nat /\ k \in Nat /\ k >= 1 /\ Len(Args) \in Nat
    BY <2>1, BuilderFields, ProgramAssumption DEF BuilderOK
  <2>3. /\ m.args = Len(Args) /\ m.nlocals = n /\ Len(m.blocks) = k
        /\ Blocks(m) = 1..k /\ BlocksOf(builder) = 1..k /\ BuiltBlocks = 1..k
        /\ \A b \in 1..k : Term(m, b) = TermOf(builder, b)
    BY DEF Body, Blocks, BlocksOf, BuiltBlocks, Term, TermOf
  <2>4. \A b \in 1..k : Stmts(m, b) \in Seq(StatementSet(n)) BY <2>1, <2>3, BodyStatements
  <2> HIDE DEF n, k, m
  <2>5. \A b \in 1..k : IsTerminator(Term(m, b), n, k)
    BY <2>1, <2>3 DEF Unended, BuilderOK, Ended, n, k
  <2>6. Validated(m)
    <3>1. \A b \in 1..k : Term(m, b).succ \in Seq(1..k) BY <2>5 DEF IsTerminator
    <3>2. ASSUME NEW b \in 1..k, NEW i \in 1..Len(Term(m, b).succ)
          PROVE  Term(m, b).succ[i] \in 1..k
      <4> DEFINE s == Term(m, b).succ
      <4>1. s \in Seq(1..k) BY <3>1
      <4> HIDE DEF s
      <4> DEFINE K == 1..k
      <4>2. s \in Seq(K) BY <4>1
      <4> HIDE DEF K
      <4>3. \A j \in 1..Len(s) : s[j] \in K BY ONLY <4>2, ElementOfSeq
      <4> QED BY <4>3 DEF s, K
    <3> QED BY <2>1, <2>3, <3>2 DEF Validated, successors
  <2>7. IsBody(m) BY <2>2, <2>3, <2>4, <2>5, <2>6 DEF IsBody
  <2>8. ASSUME NEW b \in 1..k, Term(m, b).op = "Match", NEW i \in 1..Len(Term(m, b).succ)
        PROVE  /\ Term(m, b).succ[i] # START_BLOCK
               /\ \A c \in 1..k : \A j \in 1..Len(Term(m, c).succ) :
                    Term(m, c).succ[j] = Term(m, b).succ[i] => c = b /\ j = i
    <3>1. ArmsOwned(builder) BY <2>1 DEF BuilderOK
    <3>2. Term(m, b).succ[i] \in ToSet(Term(m, b).succ) BY DEF ToSet
    <3>3. IsArm(builder, Term(m, b).succ[i]) BY <2>3, <2>8, <3>2 DEF IsArm
    <3>4. Term(m, b).succ[i] # START_BLOCK BY <3>1, <3>3 DEF ArmsOwned
    <3>5. \A c \in 1..k : \A j \in 1..Len(Term(m, c).succ) :
            Term(m, c).succ[j] = Term(m, b).succ[i] => c = b /\ j = i
      <4> SUFFICES ASSUME NEW c \in 1..k, NEW j \in 1..Len(Term(m, c).succ),
                          Term(m, c).succ[j] = Term(m, b).succ[i]
                   PROVE  c = b /\ j = i
        OBVIOUS
      <4>1. Term(m, b) = TermOf(builder, b) /\ Term(m, c) = TermOf(builder, c) BY <2>3
      <4>2. b \in BlocksOf(builder) /\ c \in BlocksOf(builder) BY <2>3
      <4> QED BY ONLY <3>1, <4>1, <4>2, <2>8, c \in 1..k, j \in 1..Len(Term(m, c).succ),
                      Term(m, c).succ[j] = Term(m, b).succ[i] DEF ArmsOwned
    <3> QED BY <3>4, <3>5
  <2>9. ArmsOwnTheirBlocks(m) BY <2>3, <2>8 DEF ArmsOwnTheirBlocks
  <2> QED BY <2>7, <2>9 DEF m
<1> QED BY <1>1, Inductive, PTL

\* Every suspension in the program becomes a terminator Suspend, one each,
\* if none stands where as_rvalue takes it as it is.
THEOREM SuspensionsCorrect ==
  ASSUME "yield_rvalue" \notin Forms PROVE Spec => []SuspensionsLowered
<1>1. IInv => SuspensionsLowered
  <2> SUFFICES ASSUME IInv, Finished
               PROVE  Cardinality({b \in BuiltBlocks : Term(Body, b).op = "Suspend"}) = yields
    BY DEF SuspensionsLowered
  <2>1. {b \in BuiltBlocks : Term(Body, b).op = "Suspend"} = Suspended(builder)
    BY DEF BuiltBlocks, Suspended, BlocksOf, Term, TermOf, Body
  <2> QED BY <2>1, AllEnded
<1> QED BY <1>1, Inductive, PTL
=============================================================================
