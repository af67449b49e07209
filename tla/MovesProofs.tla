----------------------------- MODULE MovesProofs -----------------------------
(***************************************************************************)
(* Proofs that the lowering loses no move: what as_operand takes out of a  *)
(* variable reaches a statement or a terminator.  A move on its way waits  *)
(* in an operand (OnTheWay), and once in a block it stays there (Onward),  *)
(* since no step that the assertions let pass takes a statement or a       *)
(* terminator back.                                                        *)
(* And that nothing else is in the scope of the coroutine's argument: the  *)
(* frames to come bring the builder to other scopes (AllOutside).          *)
(***************************************************************************)
EXTENDS NamesProofs

(***************************************************************************)
(* Moves.  What is moved out of by a statement or a terminator of block c. *)
(***************************************************************************)
MovedAt(B, c) ==
  (UNION {StmtsOf(B, c)[i].moved : i \in 1..Len(StmtsOf(B, c))}) \union TermMoves(TermOf(B, c))

BlockShaped(k) == DOMAIN k = {"stmts", "scopes", "term", "home"} /\ Frames(k.stmts)
GraphShaped(B) ==
  /\ Shaped(B) /\ Frames(B.basic_blocks) /\ Frames(B.local_decls)
  /\ \A c \in BlocksOf(B) : BlockShaped(B.basic_blocks[c])

\* No move is taken back, as long as the assertions hold.
Onward(B, B2) ==
  /\ GraphShaped(B2)
  /\ BlocksOf(B) \subseteq BlocksOf(B2)
  /\ B2.asserts => B.asserts /\ \A c \in BlocksOf(B) : MovedAt(B, c) \subseteq MovedAt(B2, c)

LEMMA BuilderShaped == ASSUME NEW B, BuilderOK(B) PROVE GraphShaped(B)
<1>1. Shaped(B) BY Shape
<1>2. B.basic_blocks \in Seq(BlockRecords) /\ B.local_decls \in Seq(DeclRecords)
  BY BuilderFields DEF BuilderOK
<1>3. ASSUME NEW c \in BlocksOf(B) PROVE BlockShaped(B.basic_blocks[c])
  <2>1. B.basic_blocks[c] \in BlockRecords BY <1>2 DEF BlocksOf
  <2>2. B.basic_blocks[c].stmts \in Seq(AnyStatement) BY <2>1 DEF BlockRecords
  <2>3. DOMAIN B.basic_blocks[c] = {"stmts", "scopes", "term", "home"} BY <2>1 DEF BlockRecords
  <2> QED BY <2>2, <2>3 DEF BlockShaped, Frames
<1> QED BY <1>1, <1>2, <1>3 DEF GraphShaped, Frames

LEMMA OnwardReflexive == ASSUME NEW B, GraphShaped(B) PROVE Onward(B, B)
BY DEF Onward

LEMMA OnwardTransitive ==
  ASSUME NEW A, NEW B, NEW C, Onward(A, B), Onward(B, C) PROVE Onward(A, C)
<1>1. C.asserts => \A c \in BlocksOf(A) : MovedAt(A, c) \subseteq MovedAt(C, c) BY DEF Onward
<1> QED BY <1>1 DEF Onward

\* The blocks are as before.
SameBlocks(B, B2) ==
  /\ Shaped(B2) /\ B2.basic_blocks = B.basic_blocks /\ Frames(B2.local_decls)
  /\ B2.asserts => B.asserts

LEMMA SameBlocksOnward ==
  ASSUME NEW B, GraphShaped(B), NEW B2, SameBlocks(B, B2) PROVE Onward(B, B2)
<1>1. \A c : MovedAt(B2, c) = MovedAt(B, c) BY DEF SameBlocks, MovedAt, StmtsOf, TermOf
<1>2. BlocksOf(B2) = BlocksOf(B) BY DEF SameBlocks, BlocksOf
<1>3. GraphShaped(B2) BY <1>2 DEF SameBlocks, GraphShaped
<1> QED BY <1>1, <1>2, <1>3 DEF SameBlocks, Onward

LEMMA SeqAppend ==
  ASSUME NEW s, Frames(s), NEW x
  PROVE  /\ Frames(Append(s, x)) /\ Len(Append(s, x)) = Len(s) + 1 /\ Len(s) \in Nat
         /\ \A i \in 1..Len(s) : Append(s, x)[i] = s[i]
         /\ Append(s, x)[Len(s) + 1] = x
<1>1. PICK S : s \in Seq(S) BY DEF Frames
<1>2. s \in Seq(S \union {x}) /\ x \in S \union {x} BY <1>1
<1> DEFINE U == S \union {x}
<1> HIDE DEF U
<1>3. s \in Seq(U) /\ x \in U BY <1>2 DEF U
<1> QED BY <1>3 DEF Frames

LEMMA SeqJoin ==
  ASSUME NEW s, Frames(s), NEW t, Frames(t)
  PROVE  /\ Frames(s \o t) /\ Len(s \o t) = Len(s) + Len(t) /\ Len(s) \in Nat /\ Len(t) \in Nat
         /\ \A i \in 1..Len(s) : (s \o t)[i] = s[i]
<1>1. PICK S : s \in Seq(S) BY DEF Frames
<1>2. PICK T : t \in Seq(T) BY DEF Frames
<1> DEFINE U == S \union T
<1>3. s \in Seq(U) /\ t \in Seq(U) BY <1>1, <1>2
<1> HIDE DEF U
<1> QED BY <1>3 DEF Frames

IsExcept(t, s, b, x) == t = [s EXCEPT ![b] = x]
LEMMA SeqExcept ==
  ASSUME NEW s, Frames(s), NEW b, NEW x, NEW t, IsExcept(t, s, b, x)
  PROVE  /\ Frames(t) /\ Len(t) = Len(s)
         /\ \A i \in 1..Len(s) : t[i] = IF i = b THEN x ELSE s[i]
<1>1. PICK S : s \in Seq(S) BY DEF Frames
<1> DEFINE U == S \union {x}
<1>2. s \in Seq(U) /\ x \in U BY <1>1
<1> HIDE DEF U
<1>3. DOMAIN s = 1..Len(s) /\ Len(s) \in Nat /\ \A i \in 1..Len(s) : s[i] \in U BY <1>2
<1> DEFINE e == [s EXCEPT ![b] = x]
<1>4. e = [i \in 1..Len(s) |-> IF i = b THEN x ELSE s[i]] BY <1>2, <1>3
<1>5. e \in [1..Len(s) -> U] BY <1>2, <1>3, <1>4
<1>6. e \in Seq(U) /\ Len(e) = Len(s) BY <1>3, <1>5
<1>7. t = e BY DEF IsExcept
<1> QED BY <1>4, <1>6, <1>7 DEF Frames

\* Block b has the content k, that moves X.
Content(k) == (UNION {k.stmts[i].moved : i \in 1..Len(k.stmts)}) \union TermMoves(k.term)
Changed(B, b, k, X, B2) ==
  /\ Shaped(B2) /\ B2.local_decls = B.local_decls
  /\ B2.basic_blocks = [B.basic_blocks EXCEPT ![b] = k]
  /\ b \in BlocksOf(B) => BlockShaped(k) /\ X \subseteq Content(k)
  /\ B2.asserts => B.asserts /\ (b \in BlocksOf(B) => MovedAt(B, b) \subseteq Content(k))
Changes(B, b, X, B2) == Onward(B, B2) /\ (b \in BlocksOf(B) => X \subseteq MovedAt(B2, b))

LEMMA BlockChanged ==
  ASSUME NEW B, GraphShaped(B), NEW b, NEW k, NEW X, NEW B2, Changed(B, b, k, X, B2)
  PROVE  Changes(B, b, X, B2)
<1>1. /\ Frames(B2.basic_blocks) /\ Len(B2.basic_blocks) = Len(B.basic_blocks)
      /\ \A c \in BlocksOf(B) : B2.basic_blocks[c] = IF c = b THEN k ELSE B.basic_blocks[c]
  <2> DEFINE s == B.basic_blocks
             t == [s EXCEPT ![b] = k]
  <2>1. Frames(s) /\ B2.basic_blocks = t /\ BlocksOf(B) = 1..Len(s) BY DEF GraphShaped, BlocksOf, Changed
  <2>2. Frames(t) /\ Len(t) = Len(s) /\ \A c \in 1..Len(s) : t[c] = IF c = b THEN k ELSE s[c]
    <3>1. Frames(s) /\ IsExcept(t, s, b, k) BY <2>1 DEF IsExcept
    <3> HIDE DEF s, t
    <3> QED BY <3>1, SeqExcept
  <2> HIDE DEF t
  <2> QED BY <2>1, <2>2
<1>2. BlocksOf(B2) = BlocksOf(B) BY <1>1 DEF BlocksOf
<1>3. GraphShaped(B2)
  <2>1. \A c \in BlocksOf(B2) : BlockShaped(B2.basic_blocks[c])
    BY <1>1, <1>2 DEF GraphShaped, Changed
  <2> QED BY <1>1, <2>1 DEF GraphShaped, Changed
<1>4. \A c \in BlocksOf(B) : MovedAt(B2, c) = IF c = b THEN Content(k) ELSE MovedAt(B, c)
  BY <1>1 DEF MovedAt, StmtsOf, TermOf, Content
<1>5. Onward(B, B2) BY <1>2, <1>3, <1>4 DEF Onward, Changed
<1> QED BY <1>4, <1>5 DEF Changes, Changed

LEMMA BlockOnward ==
  ASSUME NEW B, GraphShaped(B), NEW home
  PROVE  Onward(B, start_new_block(B, home)) /\ NextBlock(B) \in BlocksOf(start_new_block(B, home))
<1> DEFINE k == EmptyBlock(home)
           B2 == start_new_block(B, home)
           n == Len(B.basic_blocks)
<1>1. /\ Shaped(B2) /\ B2.basic_blocks = Append(B.basic_blocks, k)
      /\ B2.local_decls = B.local_decls /\ B2.asserts = B.asserts
  BY DEF start_new_block, GraphShaped, Shaped, BuilderFieldNames
<1>2. BlockShaped(k)
  <2>1. << >> \in Seq({}) OBVIOUS
  <2> QED BY <2>1 DEF EmptyBlock, BlockShaped, Frames
<1> HIDE DEF k, B2
<1>3. /\ Frames(B2.basic_blocks) /\ Len(B2.basic_blocks) = n + 1 /\ n \in Nat
      /\ \A c \in 1..n : B2.basic_blocks[c] = B.basic_blocks[c]
      /\ B2.basic_blocks[n + 1] = k
  <2>1. Frames(B.basic_blocks) BY DEF GraphShaped
  <2> QED BY <1>1, <2>1, SeqAppend
<1>4. BlocksOf(B) = 1..n /\ BlocksOf(B2) = 1..(n + 1) BY <1>3 DEF BlocksOf
<1> HIDE DEF n
<1>5. BlocksOf(B) \subseteq BlocksOf(B2) /\ \A c \in BlocksOf(B2) : c \in 1..n \/ c = n + 1
  BY <1>3, <1>4
<1>6. GraphShaped(B2)
  <2>1. \A c \in BlocksOf(B2) : BlockShaped(B2.basic_blocks[c]) BY <1>2, <1>3, <1>4, <1>5 DEF GraphShaped
  <2> QED BY <1>1, <1>3, <2>1 DEF GraphShaped
<1>7. \A c \in BlocksOf(B) : MovedAt(B2, c) = MovedAt(B, c)
  BY <1>3, <1>4 DEF MovedAt, StmtsOf, TermOf
<1>8. NextBlock(B) \in BlocksOf(B2) BY <1>3, <1>4 DEF NextBlock, n
<1> QED BY <1>1, <1>5, <1>6, <1>7, <1>8 DEF Onward, B2

\* Pushing statements.
LEMMA PushAtOnward ==
  ASSUME NEW B, GraphShaped(B), NEW b, NEW s, NEW scope
  PROVE  Changes(B, b, s.moved, push_at(B, b, s, scope))
<1> DEFINE o == B.basic_blocks[b]
           k == [o EXCEPT !.stmts = Append(@, s), !.scopes = Append(@, scope)]
           B2 == push_at(B, b, s, scope)
<1>1. /\ Shaped(B2) /\ B2.local_decls = B.local_decls /\ B2.asserts = B.asserts
      /\ B2.basic_blocks = [B.basic_blocks EXCEPT ![b] = k]
  BY DEF push_at, GraphShaped, Shaped, BuilderFieldNames
<1>2. ASSUME b \in BlocksOf(B)
      PROVE  /\ BlockShaped(k) /\ MovedAt(B, b) \subseteq Content(k) /\ s.moved \subseteq Content(k)
  <2>1. BlockShaped(o) BY <1>2 DEF GraphShaped
  <2>2. /\ DOMAIN k = {"stmts", "scopes", "term", "home"}
        /\ k.stmts = Append(o.stmts, s) /\ k.term = o.term
    <3> HIDE DEF o
    <3> QED BY <2>1 DEF BlockShaped
  <2> HIDE DEF o, k
  <2>3. /\ Frames(k.stmts) /\ Len(k.stmts) = Len(o.stmts) + 1 /\ Len(o.stmts) \in Nat
        /\ \A i \in 1..Len(o.stmts) : k.stmts[i] = o.stmts[i]
        /\ k.stmts[Len(o.stmts) + 1] = s
    BY <2>1, <2>2, SeqAppend DEF BlockShaped
  <2>4. /\ \A i \in 1..Len(o.stmts) : i \in 1..Len(k.stmts)
        /\ Len(o.stmts) + 1 \in 1..Len(k.stmts)
    BY <2>3
  <2>5. MovedAt(B, b) = (UNION {o.stmts[i].moved : i \in 1..Len(o.stmts)}) \union TermMoves(o.term)
    BY DEF MovedAt, StmtsOf, TermOf, o
  <2>6. (UNION {o.stmts[i].moved : i \in 1..Len(o.stmts)})
          \subseteq (UNION {k.stmts[i].moved : i \in 1..Len(k.stmts)})
    BY <2>3, <2>4
  <2>7. s.moved \subseteq (UNION {k.stmts[i].moved : i \in 1..Len(k.stmts)}) BY <2>3, <2>4
  <2> QED BY <2>2, <2>3, <2>5, <2>6, <2>7 DEF BlockShaped, Content
<1> HIDE DEF k, B2
<1>3. Changed(B, b, k, s.moved, B2) BY <1>1, <1>2 DEF Changed
<1> QED BY <1>3, BlockChanged DEF B2

LEMMA PushAllOnward ==
  ASSUME NEW B, GraphShaped(B), NEW b, NEW ss, Frames(ss), NEW scope
  PROVE  Onward(B, push_all(B, b, ss, scope))
<1> DEFINE o == B.basic_blocks[b]
           sc == [i \in 1..Len(ss) |-> scope]
           k == [o EXCEPT !.stmts = @ \o ss, !.scopes = @ \o sc]
           B2 == push_all(B, b, ss, scope)
<1>1. /\ Shaped(B2) /\ B2.local_decls = B.local_decls /\ B2.asserts = B.asserts
      /\ B2.basic_blocks = [B.basic_blocks EXCEPT ![b] = k]
  BY DEF push_all, GraphShaped, Shaped, BuilderFieldNames
<1>2. ASSUME b \in BlocksOf(B)
      PROVE  /\ BlockShaped(k) /\ MovedAt(B, b) \subseteq Content(k)
  <2>1. BlockShaped(o) BY <1>2 DEF GraphShaped
  <2>2. /\ DOMAIN k = {"stmts", "scopes", "term", "home"}
        /\ k.stmts = o.stmts \o ss /\ k.term = o.term
    <3> HIDE DEF o, sc
    <3> QED BY <2>1 DEF BlockShaped
  <2> HIDE DEF o, k
  <2>3. /\ Frames(k.stmts) /\ Len(k.stmts) = Len(o.stmts) + Len(ss)
        /\ Len(o.stmts) \in Nat /\ Len(ss) \in Nat
        /\ \A i \in 1..Len(o.stmts) : k.stmts[i] = o.stmts[i]
    BY <2>1, <2>2, SeqJoin DEF BlockShaped
  <2>4. \A i \in 1..Len(o.stmts) : i \in 1..Len(k.stmts) BY <2>3
  <2>5. MovedAt(B, b) = (UNION {o.stmts[i].moved : i \in 1..Len(o.stmts)}) \union TermMoves(o.term)
    BY DEF MovedAt, StmtsOf, TermOf, o
  <2>6. (UNION {o.stmts[i].moved : i \in 1..Len(o.stmts)})
          \subseteq (UNION {k.stmts[i].moved : i \in 1..Len(k.stmts)})
    BY <2>3, <2>4
  <2> QED BY <2>2, <2>3, <2>5, <2>6 DEF BlockShaped, Content
<1> HIDE DEF k, B2
<1>3. Changed(B, b, k, {}, B2) BY <1>1, <1>2 DEF Changed
<1>4. Changes(B, b, {}, B2) BY <1>3, BlockChanged
<1> QED BY <1>4 DEF B2, Changes

\* A block that has a terminator keeps it: terminate asserts that it has none.
LEMMA TerminateOnward ==
  ASSUME NEW B, GraphShaped(B), NEW b, NEW t
  PROVE  Changes(B, b, TermMoves(t), terminate(B, b, t))
<1> DEFINE o == B.basic_blocks[b]
           k == [o EXCEPT !.term = t]
           B2 == terminate(B, b, t)
<1>1. /\ Shaped(B2) /\ B2.local_decls = B.local_decls
      /\ B2.asserts = (B.asserts /\ o.term = Unterminated)
      /\ B2.basic_blocks = [B.basic_blocks EXCEPT ![b] = k]
  BY DEF terminate, GraphShaped, Shaped, BuilderFieldNames
<1>2. ASSUME b \in BlocksOf(B)
      PROVE  /\ BlockShaped(k) /\ TermMoves(t) \subseteq Content(k)
             /\ o.term = Unterminated => MovedAt(B, b) \subseteq Content(k)
  <2>1. BlockShaped(o) BY <1>2 DEF GraphShaped
  <2>2. /\ DOMAIN k = {"stmts", "scopes", "term", "home"} /\ k.stmts = o.stmts /\ k.term = t
    <3> HIDE DEF o
    <3> QED BY <2>1 DEF BlockShaped
  <2> HIDE DEF o, k
  <2>3. MovedAt(B, b) = (UNION {o.stmts[i].moved : i \in 1..Len(o.stmts)}) \union TermMoves(o.term)
    BY DEF MovedAt, StmtsOf, TermOf, o
  <2>4. TermMoves(Unterminated) = {} BY DEF TermMoves, Unterminated
  <2>5. Content(k) = (UNION {o.stmts[i].moved : i \in 1..Len(o.stmts)}) \union TermMoves(t)
    BY <2>2 DEF Content
  <2>6. o.term = Unterminated => TermMoves(o.term) = {} BY <2>4
  <2>7. BlockShaped(k) BY <2>1, <2>2 DEF BlockShaped
  <2>8. o.term = Unterminated => MovedAt(B, b) \subseteq Content(k)
    <3>1. SUFFICES ASSUME o.term = Unterminated PROVE MovedAt(B, b) \subseteq Content(k) OBVIOUS
    <3>2. TermMoves(o.term) = {} BY <2>6, <3>1
    <3> QED BY <2>3, <2>5, <3>2
  <2>9. TermMoves(t) \subseteq Content(k)
    <3> DEFINE U == UNION {o.stmts[i].moved : i \in 1..Len(o.stmts)}
    <3>1. Content(k) = U \union TermMoves(t) BY <2>5
    <3> HIDE DEF U
    <3> QED BY <3>1
  <2> QED BY <2>7, <2>8, <2>9
<1> HIDE DEF k, B2
<1>3. B2.asserts => B.asserts /\ o.term = Unterminated BY <1>1
<1>4. Changed(B, b, k, TermMoves(t), B2) BY <1>1, <1>2, <1>3 DEF Changed
<1> QED BY <1>4, BlockChanged DEF B2

LEMMA PushOnward ==
  ASSUME NEW B, GraphShaped(B), NEW b, NEW s PROVE Changes(B, b, s.moved, push(B, b, s))
BY PushAtOnward DEF push

LEMMA UnitOnward ==
  ASSUME NEW B, GraphShaped(B), NEW b, NEW dest PROVE Onward(B, push_assign_unit(B, b, dest))
BY PushOnward DEF push_assign_unit, Changes

LEMMA DeclareOnward ==
  ASSUME NEW B, GraphShaped(B), NEW name, NEW scope PROVE Onward(B, Declare(B, name, scope))
<1> DEFINE x == [name |-> name, scope |-> scope, extent |-> extent_of_innermost_scope(B)]
           B2 == Declare(B, name, scope)
<1>1. Shaped(B) BY DEF GraphShaped
<1>2. /\ Shaped(B2) /\ B2.basic_blocks = B.basic_blocks /\ B2.asserts = B.asserts
      /\ B2.local_decls = Append(B.local_decls, x)
  BY <1>1 DEF Declare, Shaped, BuilderFieldNames
<1>3. Frames(Append(B.local_decls, x))
  <2> HIDE DEF x
  <2> QED BY SeqAppend DEF GraphShaped
<1> HIDE DEF x, B2
<1>4. SameBlocks(B, B2) BY <1>2, <1>3 DEF SameBlocks
<1> QED BY <1>4, SameBlocksOnward DEF B2

LEMMA DropOnward ==
  ASSUME NEW B, GraphShaped(B), NEW l PROVE Onward(B, schedule_drop(B, l))
<1> DEFINE B2 == schedule_drop(B, l)
<1>1. Shaped(B) BY DEF GraphShaped
<1>2. /\ Shaped(B2) /\ B2.basic_blocks = B.basic_blocks /\ B2.local_decls = B.local_decls
      /\ B2.asserts => B.asserts
  BY <1>1 DEF schedule_drop, Shaped, BuilderFieldNames
<1> HIDE DEF B2
<1>3. SameBlocks(B, B2) BY <1>2 DEF SameBlocks, GraphShaped
<1> QED BY <1>3, SameBlocksOnward DEF B2

\* Fields that no block depends on.
LEMMA FieldsOnward ==
  ASSUME NEW B, GraphShaped(B), NEW x
  PROVE  /\ Onward(B, [B EXCEPT !.visibility_scope = x])
         /\ Onward(B, [B EXCEPT !.visibility_scopes = x])
         /\ Onward(B, [B EXCEPT !.loop_scopes = x])
         /\ Onward(B, [B EXCEPT !.extents = x])
         /\ Onward(B, [B EXCEPT !.scopes = x])
         /\ Onward(B, [B EXCEPT !.cached_return_block = x])
<1>1. Shaped(B) /\ Frames(B.local_decls) BY DEF GraphShaped
<1>2. SameBlocks(B, [B EXCEPT !.visibility_scope = x])
  BY <1>1 DEF SameBlocks, Shaped, BuilderFieldNames
<1>3. SameBlocks(B, [B EXCEPT !.visibility_scopes = x])
  BY <1>1 DEF SameBlocks, Shaped, BuilderFieldNames
<1>4. SameBlocks(B, [B EXCEPT !.loop_scopes = x]) BY <1>1 DEF SameBlocks, Shaped, BuilderFieldNames
<1>5. SameBlocks(B, [B EXCEPT !.extents = x]) BY <1>1 DEF SameBlocks, Shaped, BuilderFieldNames
<1>6. SameBlocks(B, [B EXCEPT !.scopes = x]) BY <1>1 DEF SameBlocks, Shaped, BuilderFieldNames
<1>7. SameBlocks(B, [B EXCEPT !.cached_return_block = x])
  BY <1>1 DEF SameBlocks, Shaped, BuilderFieldNames
<1> QED BY <1>2, <1>3, <1>4, <1>5, <1>6, <1>7, SameBlocksOnward

\* One more assertion.
LEMMA AssertsOnward ==
  ASSUME NEW B, GraphShaped(B), NEW a, a => B.asserts
  PROVE  Onward(B, [B EXCEPT !.asserts = a])
<1>1. Shaped(B) /\ Frames(B.local_decls) BY DEF GraphShaped
<1>2. SameBlocks(B, [B EXCEPT !.asserts = a]) BY <1>1 DEF SameBlocks, Shaped, BuilderFieldNames
<1> QED BY <1>2, SameBlocksOnward

LEMMA ScopeOnward ==
  ASSUME NEW B, GraphShaped(B), NEW extent
  PROVE  Onward(B, push_scope(B, extent)) /\ Onward(B, enter_scope(B))
<1>1. ASSUME NEW C, GraphShaped(C), NEW e PROVE Onward(C, push_scope(C, e))
  BY <1>1, FieldsOnward DEF push_scope
<1>2. Onward(B, start_new_extent(B)) BY FieldsOnward DEF start_new_extent
<1>3. GraphShaped(start_new_extent(B)) BY <1>2 DEF Onward
<1>4. Onward(start_new_extent(B), enter_scope(B)) BY <1>1, <1>3 DEF enter_scope
<1> QED BY <1>1, <1>2, <1>4, OnwardTransitive

LEMMA TempOnward ==
  ASSUME NEW B, GraphShaped(B), NEW b PROVE Onward(B, temp(B, b))
<1> DEFINE D == Declare(B, TempName, B.visibility_scope)
           P == push(D, b, StorageLive(NextLocal(B)))
<1>1. Onward(B, D) BY DeclareOnward
<1>2. GraphShaped(D) BY <1>1 DEF Onward
<1> HIDE DEF D
<1>3. Onward(D, P) BY <1>2, PushOnward DEF Changes
<1>4. GraphShaped(P) BY <1>3 DEF Onward
<1> HIDE DEF P
<1>5. Onward(P, schedule_drop(P, NextLocal(B))) BY <1>4, DropOnward
<1>6. temp(B, b) = schedule_drop(P, NextLocal(B)) BY DEF temp, P, D
<1> QED BY <1>1, <1>3, <1>5, <1>6, OnwardTransitive

LEMMA DropsOnward ==
  ASSUME NEW B, GraphShaped(B), NEW b, NEW locals, NEW scope
  PROVE  Onward(B, build_scope_drops(B, b, locals, scope))
<1> DEFINE dropped == Reverse(Ascending(locals, Len(B.local_decls)))
           ss == [i \in 1..Len(dropped) |-> StorageDead(dropped[i])]
           S == {StorageDead(dropped[i]) : i \in 1..Len(dropped)}
<1>1. Len(B.local_decls) \in Nat
  <2>1. PICK T : B.local_decls \in Seq(T) BY DEF GraphShaped, Frames
  <2> QED BY <2>1
<1>2. Len(dropped) \in Nat
  <2>1. dropped \in Seq(locals \intersect (1..Len(B.local_decls))) BY <1>1, DropsInOrder
  <2> QED BY <2>1
<1> HIDE DEF dropped
<1>3. ss \in Seq(S) BY <1>2
<1>4. Frames(ss) BY <1>3 DEF Frames
<1> HIDE DEF ss
<1>5. Onward(B, push_all(B, b, ss, scope.visibility_scope)) BY <1>4, PushAllOnward
<1> QED BY <1>5 DEF build_scope_drops, ss, dropped

LEMMA PopOnward ==
  ASSUME NEW B, GraphShaped(B), NEW b, NEW extent PROVE Onward(B, pop_scope(B, b, extent))
<1> DEFINE scope == Last(B.scopes)
           rest == Front(B.scopes)
           D == build_scope_drops(B, b, scope.drops, scope)
           a == D.asserts /\ scope.extent = extent /\ \A l \in scope.drops : ~ScheduledIn(rest, l)
           S == [D EXCEPT !.scopes = rest]
<1>1. Onward(B, D) BY DropsOnward
<1>2. GraphShaped(D) BY <1>1 DEF Onward
<1>3. pop_scope(B, b, extent) = [S EXCEPT !.asserts = a]
  <2>1. DOMAIN D = BuilderFieldNames BY <1>2 DEF GraphShaped, Shaped
  <2>2. pop_scope(B, b, extent) = [D EXCEPT !.scopes = rest, !.asserts = a] BY DEF pop_scope
  <2> HIDE DEF D, rest, a
  <2> QED BY <2>1, <2>2 DEF BuilderFieldNames
<1> HIDE DEF D, rest
<1>4. Onward(D, S) BY <1>2, FieldsOnward
<1>5. GraphShaped(S) BY <1>4 DEF Onward
<1>6. a => S.asserts
  <2>1. Shaped(D) BY <1>2 DEF GraphShaped
  <2>2. S.asserts = D.asserts BY <2>1 DEF Shaped, BuilderFieldNames
  <2> QED BY <2>2
<1> HIDE DEF S, a
<1>7. Onward(S, [S EXCEPT !.asserts = a]) BY <1>5, <1>6, AssertsOnward
<1> QED BY <1>1, <1>3, <1>4, <1>7, OnwardTransitive

LEMMA LiveOnward ==
  ASSUME NEW B, GraphShaped(B), NEW b, NEW locals, Len(locals) \in Nat
  PROVE  Onward(B, storage_live(B, b, locals))
<1> DEFINE ss == [i \in 1..Len(locals) |-> StorageLive(locals[i])]
           S == {StorageLive(locals[i]) : i \in 1..Len(locals)}
<1>1. ss \in Seq(S) OBVIOUS
<1>2. Frames(ss) BY <1>1 DEF Frames
<1> HIDE DEF ss
<1>3. Onward(B, push_all(B, b, ss, B.visibility_scope)) BY <1>2, PushAllOnward
<1> QED BY <1>3 DEF storage_live, ss

LEMMA ReturnOnward ==
  ASSUME NEW B, GraphShaped(B) PROVE Onward(B, return_block(B))
<1> DEFINE N == start_new_block(B, {CALL_SITE})
<1>1. Onward(B, N) BY BlockOnward
<1>2. GraphShaped(N) BY <1>1 DEF Onward
<1>3. Onward(N, [N EXCEPT !.cached_return_block = NextBlock(B)])
  <2> HIDE DEF N
  <2> QED BY <1>2, FieldsOnward
<1>4. Onward(B, [N EXCEPT !.cached_return_block = NextBlock(B)]) BY <1>1, <1>3, OnwardTransitive
<1>5. return_block(B) = IF B.cached_return_block # None THEN B
                        ELSE [N EXCEPT !.cached_return_block = NextBlock(B)]
  BY DEF return_block
<1> HIDE DEF N
<1> QED BY <1>4, <1>5, OnwardReflexive

(***************************************************************************)
(* The operations that repeat something.                                   *)
(***************************************************************************)
LEMMA BindingOnward ==
  ASSUME NEW B, GraphShaped(B), NEW b, NEW name, NEW scope
  PROVE  Onward(B, declare_binding(B, b, name, scope))
<1> DEFINE shadowed == find_local_in_current_scope(B, name)
           T == temp(B, b)
           P == push_at(T, b, Write({NextLocal(B)}, {shadowed}, {}), scope)
           K == IF shadowed = None THEN B ELSE P
           D == Declare(K, name, scope)
<1>1. Onward(B, T) BY TempOnward
<1>2. GraphShaped(T) BY <1>1 DEF Onward
<1> HIDE DEF T
<1>3. Onward(T, P)
  <2> DEFINE s == Write({NextLocal(B)}, {shadowed}, {})
  <2>1. Changes(T, b, s.moved, push_at(T, b, s, scope))
    <3> HIDE DEF s
    <3> QED BY <1>2, PushAtOnward
  <2> QED BY <2>1 DEF Changes
<1> HIDE DEF P
<1>4. Onward(B, P) BY <1>1, <1>3, OnwardTransitive
<1>5. Onward(B, B) BY OnwardReflexive
<1>6. Onward(B, K) BY <1>4, <1>5
<1>7. declare_binding(B, b, name, scope) = schedule_drop(D, NextLocal(K))
  BY DEF declare_binding, P, T
<1> HIDE DEF K
<1>8. GraphShaped(K) BY <1>6 DEF Onward
<1>9. Onward(K, D) BY <1>8, DeclareOnward
<1> HIDE DEF D
<1>10. Onward(D, schedule_drop(D, NextLocal(K)))
  <2>1. GraphShaped(D) BY <1>9 DEF Onward
  <2> QED BY <2>1, DropOnward
<1> QED BY <1>6, <1>7, <1>9, <1>10, OnwardTransitive

LEMMA NextOnward ==
  ASSUME NEW D, GraphShaped(D.b), Frames(D.locals), NEW b, NEW name, NEW E, E = DeclareNext(D, b, name)
  PROVE  Onward(D.b, E.b) /\ Frames(E.locals)
<1> DEFINE V == IF D.scope = None THEN new_visibility_scope(D.b) ELSE D.b
           s == IF D.scope = None THEN Len(V.visibility_scopes) ELSE D.scope
           N == declare_binding(V, b, name, s)
<1>1. E.b = N /\ E.locals = Append(D.locals, Len(N.local_decls)) BY DEF DeclareNext
<1>2. Onward(D.b, V)
  <2>1. Onward(D.b, new_visibility_scope(D.b)) BY FieldsOnward DEF new_visibility_scope
  <2>2. Onward(D.b, D.b) BY OnwardReflexive
  <2> QED BY <2>1, <2>2
<1> HIDE DEF V, s
<1>3. Onward(V, N)
  <2>1. GraphShaped(V) BY <1>2 DEF Onward
  <2> QED BY <2>1, BindingOnward
<1> HIDE DEF N
<1>4. Frames(Append(D.locals, Len(N.local_decls))) BY SeqAppend
<1> QED BY <1>1, <1>2, <1>3, <1>4, OnwardTransitive

LEMMA BindingsOnward ==
  ASSUME NEW B, GraphShaped(B), NEW b, NEW names, Len(names) \in Nat
  PROVE  /\ Onward(B, declare_bindings(B, b, names).b)
         /\ Frames(declare_bindings(B, b, names).locals)
<1>0. PICK g : Turns(g, B, b, names) /\ declare_bindings(B, b, names) = g[Len(names)]
  BY BindingsFrom
<1> DEFINE none == [b |-> B, scope |-> None, locals |-> << >>]
           k == Len(names)
<1>1. /\ g[0] = none
      /\ \A i \in 1..k : g[i] = DeclareNext(g[i - 1], b, names[i])
      /\ declare_bindings(B, b, names) = g[k]
  BY <1>0 DEF Turns
<1> DEFINE Right(D) == Onward(B, D.b) /\ Frames(D.locals)
           U == {m \in Nat : m <= k => Right(g[m])}
<1>2. 0 \in U
  <2>1. g[0] = none BY <1>1
  <2>2. Onward(B, B) BY OnwardReflexive
  <2>3. Frames(<< >>)
    <3>1. << >> \in Seq({}) OBVIOUS
    <3> QED BY <3>1 DEF Frames
  <2>4. none.b = B /\ none.locals = << >> OBVIOUS
  <2> HIDE DEF none
  <2> QED BY <2>1, <2>2, <2>3, <2>4
<1>3. ASSUME NEW m \in Nat, m \in U, m + 1 <= k PROVE Right(g[m + 1])
  <2>1. m + 1 \in 1..k /\ (m + 1) - 1 = m /\ m <= k BY <1>3
  <2>2. g[m + 1] = DeclareNext(g[m], b, names[m + 1]) BY <1>1, <2>1
  <2>3. Right(g[m]) BY <1>3, <2>1
  <2>4. GraphShaped(g[m].b) BY <2>3 DEF Onward
  <2>5. Onward(g[m].b, g[m + 1].b) /\ Frames(g[m + 1].locals) BY <2>2, <2>3, <2>4, NextOnward
  <2> QED BY <2>3, <2>5, OnwardTransitive
<1>4. k \in U
  <2>1. ASSUME NEW m \in Nat, m \in U PROVE m + 1 \in U
    <3> HIDE DEF none, Right
    <3>1. m + 1 <= k => Right(g[m + 1]) BY <1>3, <2>1
    <3> QED BY <3>1
  <2> HIDE DEF U
  <2> QED BY <1>2, <2>1, Induction
<1> QED BY <1>1, <1>4

LEMMA ExitOnward ==
  ASSUME NEW B, GraphShaped(B), Len(B.scopes) \in Nat, Len(B.scopes) >= 1,
         NEW extent, NEW b, NEW target, NEW after
  PROVE  Onward(B, exit_scope(B, extent, b, target, after))
<1> DEFINE k == Len(B.scopes)
           encloses == {i \in 1..k : B.scopes[i].extent = extent}
           at == IF encloses = {} THEN 1 ELSE Latest(encloses)
           Scope(n) == B.scopes[k + 1 - n]
           Round(F, n) == build_scope_drops(F, b, Scope(n).drops \intersect initialized_decls(Scope(n)), Scope(n))
           Rounds(g, m) == g = [i \in 0..m |-> IF i = 0 THEN B ELSE Round(g[i - 1], i)]
           T == {m \in Nat : \E g : Rounds(g, m)}
           t == Jump("Break", <<target, after>>, NoOperand)
           X == exit_scope(B, extent, b, target, after)
           none == \A i \in (at + 1)..k : \A l \in B.scopes[i].drops :
                     ~ScheduledIn(SubSeq(B.scopes, 1, i - 1), l)
<1>1. 0 \in T
  <2>1. Rounds([i \in 0..0 |-> B], 0) OBVIOUS
  <2> QED BY <2>1
<1>2. ASSUME NEW m \in Nat, m \in T PROVE m + 1 \in T
  <2>1. PICK g : Rounds(g, m) BY <1>2
  <2> DEFINE h == [i \in 0..(m + 1) |-> IF i <= m THEN g[i] ELSE Round(g[i - 1], i)]
  <2> HIDE DEF Round
  <2>2. ASSUME NEW i \in 0..(m + 1), i # 0 PROVE h[i] = Round(h[i - 1], i)
    <3>1. i - 1 \in 0..m /\ h[i - 1] = g[i - 1] BY <2>2
    <3>2. CASE i <= m
      <4>1. i \in 0..m /\ h[i] = g[i] BY <3>2
      <4> QED BY <2>1, <2>2, <3>1, <4>1
    <3>3. CASE ~(i <= m) BY <3>1, <3>3
    <3> QED BY <3>2, <3>3
  <2>3. h[0] = B BY <2>1
  <2>4. Rounds(h, m + 1)
    <3> DEFINE r == [i \in 0..(m + 1) |-> IF i = 0 THEN B ELSE Round(h[i - 1], i)]
    <3>1. \A i \in 0..(m + 1) : h[i] = r[i] BY <2>2, <2>3
    <3>2. h = [i \in 0..(m + 1) |-> h[i]] OBVIOUS
    <3> HIDE DEF h
    <3> QED BY <3>1, <3>2
  <2> HIDE DEF Rounds, h
  <2> QED BY <2>4
<1>3. k \in Nat /\ k >= 1 OBVIOUS
<1>4. at \in 1..k
  <2>1. encloses \in SUBSET (0..k) OBVIOUS
  <2>2. encloses # {} => Latest(encloses) \in encloses
    <3> HIDE DEF encloses
    <3> QED BY <1>3, <2>1, LatestMember
  <2> QED BY <1>3, <2>2
<1> HIDE DEF at, none
<1>5. k - at \in Nat BY <1>3, <1>4
<1>6. \E g : /\ Rounds(g, k - at)
             /\ X = [terminate(g[k - at], b, t) EXCEPT !.asserts = @ /\ encloses # {} /\ at > 1 /\ none]
  <2>1. Nat \subseteq T
    <3> HIDE DEF T
    <3> QED BY <1>1, <1>2, Induction
  <2>2. \E g : Rounds(g, k - at) BY <1>5, <2>1
  <2> QED BY <2>2 DEF exit_scope, at, none
<1>7. PICK g : /\ Rounds(g, k - at)
               /\ X = [terminate(g[k - at], b, t) EXCEPT !.asserts = @ /\ encloses # {} /\ at > 1 /\ none]
  BY <1>6
<1> DEFINE last == k - at
           U == {m \in Nat : m <= last => Onward(B, g[m])}
<1> HIDE DEF Scope, t, last
<1>8. last \in Nat /\ Rounds(g, last) BY <1>5, <1>7 DEF last
<1>9. 0 \in U
  <2>1. g[0] = B BY <1>8
  <2> QED BY <2>1, OnwardReflexive
<1>10. ASSUME NEW m \in Nat, m \in U, m + 1 <= last PROVE Onward(B, g[m + 1])
  <2>1. m + 1 \in 0..last /\ (m + 1) - 1 = m /\ m + 1 # 0 /\ m <= last BY <1>8, <1>10
  <2> HIDE DEF Round
  <2>2. g[m + 1] = Round(g[m], m + 1) BY <1>8, <2>1
  <2>3. Onward(B, g[m]) BY <1>10, <2>1
  <2>4. GraphShaped(g[m]) BY <2>3 DEF Onward
  <2>5. Onward(g[m], Round(g[m], m + 1)) BY <2>4, DropsOnward DEF Round
  <2> QED BY <2>2, <2>3, <2>5, OnwardTransitive
<1>11. last \in U
  <2>1. ASSUME NEW m \in Nat, m \in U PROVE m + 1 \in U
    <3> HIDE DEF Rounds
    <3>1. m + 1 <= last => Onward(B, g[m + 1]) BY <1>10, <2>1
    <3> QED BY <3>1
  <2> HIDE DEF U
  <2> QED BY <1>8, <1>9, <2>1, Induction
<1> DEFINE L == g[last]
           M == terminate(L, b, t)
           a == M.asserts /\ encloses # {} /\ at > 1 /\ none
<1>12. Onward(B, L) BY <1>8, <1>11
<1>13. X = [M EXCEPT !.asserts = a] BY <1>7 DEF last
<1> HIDE DEF L, X, encloses
<1>14. Onward(L, M)
  <2>1. GraphShaped(L) BY <1>12 DEF Onward
  <2> QED BY <2>1, TerminateOnward DEF Changes
<1> HIDE DEF M
<1>15. Onward(M, [M EXCEPT !.asserts = a])
  <2>1. GraphShaped(M) /\ (a => M.asserts) BY <1>14 DEF Onward
  <2> HIDE DEF a
  <2> QED BY <2>1, AssertsOnward
<1>16. Onward(B, X) BY <1>12, <1>13, <1>14, <1>15, OnwardTransitive
<1> QED BY <1>16 DEF X

-----------------------------------------------------------------------------
(***************************************************************************)
(* Frames that no condition waits for.  The move of a condition is not     *)
(* recorded: it is a bool, that stays usable.                              *)
(***************************************************************************)
Conditions == {"then", "else", "join", "test"}
Calm(fs) == Frames(fs) /\ \A i \in 1..Len(fs) : fs[i].do \notin Conditions

LEMMA CalmNone == Calm(<< >>)
<1>1. << >> \in Seq({}) OBVIOUS
<1>2. Frames(<< >>) BY <1>1 DEF Frames
<1> QED BY <1>2 DEF Calm

LEMMA CalmOne == ASSUME NEW a, a.do \notin Conditions PROVE Calm(<<a>>)
<1> DEFINE F == <<a>>
<1>1. F \in Seq({a}) OBVIOUS
<1>2. Frames(F) BY <1>1 DEF Frames
<1>3. Len(F) = 1 /\ F[1] = a OBVIOUS
<1> HIDE DEF F
<1>4. \A i \in 1..Len(F) : i = 1 BY <1>3
<1>5. Calm(F) BY <1>2, <1>3, <1>4 DEF Calm
<1> QED BY <1>5 DEF F

LEMMA CalmJoin == ASSUME NEW F, NEW G, Calm(F), Calm(G) PROVE Calm(F \o G)
<1>1. PICK S : F \in Seq(S) BY DEF Calm, Frames
<1>2. PICK T : G \in Seq(T) BY DEF Calm, Frames
<1> DEFINE U == S \union T
<1>3. F \in Seq(U) /\ G \in Seq(U) BY <1>1, <1>2
<1> HIDE DEF U
<1>4. /\ F \o G \in Seq(U) /\ Len(F \o G) = Len(F) + Len(G) /\ Len(F) \in Nat /\ Len(G) \in Nat
      /\ \A i \in 1..(Len(F) + Len(G)) : (F \o G)[i] = IF i <= Len(F) THEN F[i] ELSE G[i - Len(F)]
  BY <1>3
<1>5. ASSUME NEW i \in 1..Len(F \o G) PROVE (F \o G)[i].do \notin Conditions
  <2>1. i \in 1..(Len(F) + Len(G)) BY <1>4
  <2>2. CASE i <= Len(F)
    <3>1. i \in 1..Len(F) BY <1>4, <2>1, <2>2
    <3> QED BY <1>4, <2>1, <2>2, <3>1 DEF Calm
  <2>3. CASE ~(i <= Len(F))
    <3>1. i - Len(F) \in 1..Len(G) BY <1>4, <2>1, <2>3
    <3> QED BY <1>4, <2>1, <2>3, <3>1 DEF Calm
  <2> QED BY <2>2, <2>3
<1> QED BY <1>4, <1>5 DEF Calm, Frames

LEMMA CalmTwo ==
  ASSUME NEW a, NEW b, {a.do, b.do} \intersect Conditions = {} PROVE Calm(<<a, b>>)
<1>1. Calm(<<a>>) /\ Calm(<<b>>) BY CalmOne
<1>2. <<a>> \o <<b>> = <<a, b>> BY PairOf
<1> QED BY <1>1, <1>2, CalmJoin

LEMMA CalmThree ==
  ASSUME NEW a, NEW b, NEW c, {a.do, b.do, c.do} \intersect Conditions = {}
  PROVE  Calm(<<a, b, c>>)
<1>1. Calm(<<a, b>>) /\ Calm(<<c>>) BY CalmOne, CalmTwo
<1>2. <<a, b, c>> = <<a, b>> \o <<c>> OBVIOUS
<1> QED BY <1>1, <1>2, CalmJoin

LEMMA CalmFour ==
  ASSUME NEW a, NEW b, NEW c, NEW d, {a.do, b.do, c.do, d.do} \intersect Conditions = {}
  PROVE  Calm(<<a, b, c, d>>)
<1>1. Calm(<<a>>) /\ Calm(<<b, c, d>>) BY CalmOne, CalmThree
<1>2. <<a, b, c, d>> = <<a>> \o <<b, c, d>> OBVIOUS
<1> QED BY <1>1, <1>2, CalmJoin

LEMMA CalmFive ==
  ASSUME NEW a, NEW b, NEW c, NEW d, NEW e,
         {a.do, b.do, c.do, d.do, e.do} \intersect Conditions = {}
  PROVE  Calm(<<a, b, c, d, e>>)
<1>1. Calm(<<a>>) /\ Calm(<<b, c, d, e>>) BY CalmOne, CalmFour
<1>2. <<a, b, c, d, e>> = <<a>> \o <<b, c, d, e>> OBVIOUS
<1> QED BY <1>1, <1>2, CalmJoin

LEMMA CalmTail == ASSUME NEW fs, Calm(fs), fs # << >> PROVE Calm(Tail(fs)) /\ Head(fs).do \notin Conditions
<1>1. PICK S : fs \in Seq(S) BY DEF Calm, Frames
<1>2. /\ Tail(fs) \in Seq(S) /\ Len(fs) \in Nat /\ Len(fs) >= 1 /\ Len(Tail(fs)) = Len(fs) - 1
      /\ \A i \in 1..(Len(fs) - 1) : Tail(fs)[i] = fs[i + 1]
      /\ Head(fs) = fs[1]
  BY <1>1
<1>3. \A i \in 1..(Len(fs) - 1) : i + 1 \in 1..Len(fs) BY <1>2
<1>4. 1 \in 1..Len(fs) BY <1>2
<1> QED BY <1>2, <1>3, <1>4 DEF Calm, Frames

LEMMA CalmThen ==
  ASSUME Calm(todo), todo # << >>, NEW F, Calm(F), Then(F) PROVE Calm(todo')
BY CalmTail, CalmJoin DEF Then

-----------------------------------------------------------------------------
(***************************************************************************)
(* The invariant: what the program moves is moved by the body built so far *)
(* or by an operand that waits for its use.                                *)
(***************************************************************************)
Gone(B) == UNION {MovedAt(B, c) : c \in BlocksOf(B)}
OnTheWay(ops) == UNION {ops[i].moved : i \in 1..Len(ops)}
MInv == takes \subseteq Gone(builder) \union OnTheWay(operands)

Ready ==
  /\ GraphShaped(builder) /\ block \in BlocksOf(builder) /\ builder'.asserts
  /\ Frames(operands) /\ Calm(todo)
  /\ Len(builder.scopes) \in Nat /\ (todo # << >> => Len(builder.scopes) >= 1)

Moves ==
  /\ Onward(builder, builder') /\ Calm(todo')
  /\ takes' \subseteq takes \union OnTheWay(operands')
  /\ OnTheWay(operands) \subseteq Gone(builder') \union OnTheWay(operands')

LEMMA OnwardGone ==
  ASSUME NEW B, NEW B2, Onward(B, B2), B2.asserts PROVE Gone(B) \subseteq Gone(B2)
BY DEF Onward, Gone

LEMMA QuietMoves ==
  ASSUME Ready, todo # << >>, Onward(builder, builder'), operands' = operands, takes' = takes,
         NEW F, Calm(F), Then(F)
  PROVE  Moves
<1>1. Calm(todo') BY CalmThen DEF Ready
<1> QED BY <1>1 DEF Moves

\* The operand is pushed.
LEMMA WaitingAppend ==
  ASSUME NEW ops, Frames(ops), NEW x
  PROVE  OnTheWay(Append(ops, x)) = OnTheWay(ops) \union x.moved
<1> DEFINE n == Len(ops)
           A == Append(ops, x)
<1>1. /\ Len(A) = n + 1 /\ n \in Nat /\ A[n + 1] = x
      /\ \A i \in 1..n : A[i] = ops[i]
  BY SeqAppend
<1> HIDE DEF A, n
<1>2. 1..(n + 1) = (1..n) \union {n + 1} BY <1>1
<1>3. /\ \A i \in 1..n : A[i].moved = ops[i].moved
      /\ A[n + 1].moved = x.moved
  BY <1>1
<1>4. UNION {A[i].moved : i \in 1..(n + 1)} = (UNION {ops[i].moved : i \in 1..n}) \union x.moved
  <2>1. UNION {A[i].moved : i \in 1..(n + 1)} = (UNION {A[i].moved : i \in 1..n}) \union A[n + 1].moved
    BY <1>2
  <2>2. {A[i].moved : i \in 1..n} = {ops[i].moved : i \in 1..n} BY <1>3
  <2> QED BY <1>3, <2>1, <2>2
<1>5. OnTheWay(A) = UNION {A[i].moved : i \in 1..(n + 1)} BY <1>1 DEF OnTheWay
<1> QED BY <1>4, <1>5 DEF OnTheWay, A, n

LEMMA AppendMoves ==
  ASSUME Ready, todo # << >>, builder' = builder, NEW x, operands' = Append(operands, x),
         takes' \subseteq takes \union x.moved, Then(<< >>)
  PROVE  Moves
<1>1. Calm(todo') BY CalmNone, CalmThen DEF Ready
<1>2. Onward(builder, builder') BY OnwardReflexive DEF Ready
<1>3. OnTheWay(operands') = OnTheWay(operands) \union x.moved BY WaitingAppend DEF Ready
<1> QED BY <1>1, <1>2, <1>3 DEF Moves

\* The last operand is taken, or the last two are.
LEMMA WaitingFront ==
  ASSUME NEW ops, Frames(ops), ops # << >>
  PROVE  OnTheWay(ops) \subseteq OnTheWay(Front(ops)) \union Last(ops).moved
<1> DEFINE n == Len(ops)
<1>1. PICK S : ops \in Seq(S) BY DEF Frames
<1>2. n \in Nat /\ n >= 1 /\ Last(ops) = ops[n] BY <1>1 DEF Last
<1>3. Front(ops) = SubSeq(ops, 1, n - 1) /\ Len(ops) = n BY DEF Front
<1> HIDE DEF n
<1>4. Len(Front(ops)) = n - 1 /\ \A i \in 1..(n - 1) : Front(ops)[i] = ops[i]
  <2> DEFINE F == SubSeq(ops, 1, n - 1)
  <2>1. Len(F) = n - 1 /\ \A i \in 1..(n - 1) : F[i] = ops[i] BY <1>1, <1>2, <1>3
  <2> HIDE DEF F
  <2>2. Front(ops) = F BY <1>3 DEF F
  <2> QED BY <2>1, <2>2
<1>5. \A i \in 1..n : i \in 1..(n - 1) \/ i = n BY <1>2
<1>6. OnTheWay(ops) = UNION {ops[i].moved : i \in 1..n} BY DEF OnTheWay, n
<1>7. OnTheWay(Front(ops)) = UNION {Front(ops)[i].moved : i \in 1..(n - 1)} BY <1>4 DEF OnTheWay
<1>8. \A i \in 1..(n - 1) : ops[i].moved \subseteq OnTheWay(Front(ops)) BY <1>4, <1>7
<1> QED BY <1>2, <1>5, <1>6, <1>8

LEMMA WaitingTwo ==
  ASSUME NEW ops, Frames(ops), NEW n, n = Len(ops), n >= 2
  PROVE  OnTheWay(ops) \subseteq
           OnTheWay(SubSeq(ops, 1, n - 2)) \union ops[n - 1].moved \union ops[n].moved
<1>1. PICK S : ops \in Seq(S) BY DEF Frames
<1> DEFINE F == SubSeq(ops, 1, n - 2)
<1>2. n \in Nat BY <1>1
<1>3. Len(F) = n - 2 /\ \A i \in 1..(n - 2) : F[i] = ops[i] BY <1>1, <1>2
<1> HIDE DEF F
<1>4. \A i \in 1..n : i \in 1..(n - 2) \/ i = n - 1 \/ i = n BY <1>2
<1>5. OnTheWay(ops) = UNION {ops[i].moved : i \in 1..n} BY DEF OnTheWay
<1>6. OnTheWay(F) = UNION {F[i].moved : i \in 1..(n - 2)} BY <1>3 DEF OnTheWay
<1>7. \A i \in 1..(n - 2) : ops[i].moved \subseteq OnTheWay(F) BY <1>3, <1>6
<1>8. OnTheWay(ops) \subseteq OnTheWay(F) \union ops[n - 1].moved \union ops[n].moved
  BY <1>4, <1>5, <1>7
<1> QED BY <1>8 DEF F

\* The operand is moved by the block, or not at all.
LEMMA PopMoves ==
  ASSUME Ready, todo # << >>, operands # << >>, Onward(builder, builder'),
         operands' = Front(operands), takes' = takes, Last(operands).moved \subseteq Gone(builder'),
         NEW F, Calm(F), Then(F)
  PROVE  Moves
<1>1. Calm(todo') BY CalmThen DEF Ready
<1>2. OnTheWay(operands) \subseteq OnTheWay(operands') \union Last(operands).moved
  BY WaitingFront DEF Ready
<1> QED BY <1>1, <1>2 DEF Moves

-----------------------------------------------------------------------------
\* Operations one after the other.
LEMMA ShapedOn == ASSUME NEW A, NEW B, Onward(A, B) PROVE GraphShaped(B)
BY DEF Onward

LEMMA BlockOnwards ==
  ASSUME NEW A, NEW B, Onward(A, B), NEW h PROVE Onward(A, start_new_block(B, h))
BY ShapedOn, BlockOnward, OnwardTransitive

LEMMA PushOnwards ==
  ASSUME NEW A, NEW B, Onward(A, B), NEW b, NEW s PROVE Onward(A, push(B, b, s))
BY ShapedOn, PushOnward, OnwardTransitive DEF Changes

LEMMA UnitOnwards ==
  ASSUME NEW A, NEW B, Onward(A, B), NEW b, NEW d PROVE Onward(A, push_assign_unit(B, b, d))
BY ShapedOn, UnitOnward, OnwardTransitive

LEMMA TerminateOnwards ==
  ASSUME NEW A, NEW B, Onward(A, B), NEW b, NEW t PROVE Onward(A, terminate(B, b, t))
BY ShapedOn, TerminateOnward, OnwardTransitive DEF Changes

LEMMA AssertsOnwards ==
  ASSUME NEW A, NEW B, Onward(A, B), NEW a, a => B.asserts PROVE Onward(A, [B EXCEPT !.asserts = a])
BY ShapedOn, AssertsOnward, OnwardTransitive

LEMMA ScopeOnwards ==
  ASSUME NEW A, NEW B, Onward(A, B) PROVE Onward(A, enter_scope(B))
BY ShapedOn, ScopeOnward, OnwardTransitive

LEMMA TempOnwards ==
  ASSUME NEW A, NEW B, Onward(A, B), NEW b PROVE Onward(A, temp(B, b))
BY ShapedOn, TempOnward, OnwardTransitive

LEMMA PopOnwards ==
  ASSUME NEW A, NEW B, Onward(A, B), NEW b, NEW e PROVE Onward(A, pop_scope(B, b, e))
BY ShapedOn, PopOnward, OnwardTransitive

LEMMA LiveOnwards ==
  ASSUME NEW A, NEW B, Onward(A, B), NEW b, NEW locals, Len(locals) \in Nat
  PROVE  Onward(A, storage_live(B, b, locals))
BY ShapedOn, LiveOnward, OnwardTransitive

LEMMA ReturnOnwards ==
  ASSUME NEW A, NEW B, Onward(A, B) PROVE Onward(A, return_block(B))
BY ShapedOn, ReturnOnward, OnwardTransitive

LEMMA FieldsOnwards ==
  ASSUME NEW A, NEW B, Onward(A, B), NEW x
  PROVE  /\ Onward(A, [B EXCEPT !.visibility_scope = x])
         /\ Onward(A, [B EXCEPT !.loop_scopes = x])
<1>1. GraphShaped(B) BY ShapedOn
<1> QED BY <1>1, FieldsOnward, OnwardTransitive

LEMMA SameOnward == ASSUME Ready PROVE Onward(builder, builder)
BY OnwardReflexive DEF Ready

LEMMA PreparedOnward == ASSUME Ready PROVE Onward(builder, Prepared)
BY SameOnward, UnitOnwards DEF Prepared

\* What block b is given is moved by the body.
LEMMA ChangeGone ==
  ASSUME NEW B, NEW b \in BlocksOf(B), NEW X, NEW B2, Changes(B, b, X, B2) PROVE X \subseteq Gone(B2)
<1>1. b \in BlocksOf(B2) /\ X \subseteq MovedAt(B2, b) BY DEF Changes, Onward
<1> QED BY <1>1 DEF Gone

-----------------------------------------------------------------------------
(***************************************************************************)
(* Every action moves on: first those that leave the operands alone.       *)
(***************************************************************************)
LEMMA IntoConstantMoves == ASSUME Ready, IntoConstant PROVE Moves
<1>1. todo # << >> /\ Then(<< >>) /\ operands' = operands /\ takes' = takes
  BY DEF IntoConstant, At, program
<1>2. Onward(builder, builder') BY SameOnward, UnitOnwards DEF IntoConstant
<1> QED BY <1>1, <1>2, CalmNone, QuietMoves

LEMMA IntoPathMoves ==
  ASSUME "moved_into" \notin Forms, Ready, NEW name, IntoPath(name) PROVE Moves
<1>1. todo # << >> /\ Then(<< >>) /\ operands' = operands BY DEF IntoPath, At
<1>2. Onward(builder, builder') BY SameOnward, PushOnwards DEF IntoPath
<1>3. takes' = takes BY DEF IntoPath, Pick
<1> QED BY <1>1, <1>2, <1>3, CalmNone, QuietMoves

LEMMA OperandTempMoves == ASSUME Ready, OperandTemp PROVE Moves
<1> DEFINE use(moved) == [do |-> "use_temp", local |-> NextLocal(builder), moved |-> moved]
<1>1. todo # << >> /\ operands' = operands /\ takes' = takes BY DEF OperandTemp, At, program
<1>2. Onward(builder, builder') BY SameOnward, TempOnwards DEF OperandTemp
<1>3. \E but, moved : Then(<<Into(NextLocal(builder), but), use(moved)>>) BY DEF OperandTemp
<1>4. PICK but, moved : Then(<<Into(NextLocal(builder), but), use(moved)>>) BY <1>3
<1>5. Into(NextLocal(builder), but).do = "into" /\ use(moved).do = "use_temp" BY DEF Into
<1> HIDE DEF use
<1>6. Calm(<<Into(NextLocal(builder), but), use(moved)>>) BY <1>5, CalmTwo DEF Conditions
<1> QED BY <1>1, <1>2, <1>4, <1>6, QuietMoves

LEMMA StmtOtherMoves == ASSUME Ready, StmtOther PROVE Moves
<1> DEFINE f == Into(NextLocal(builder), Direct)
<1>1. todo # << >> /\ Then(<<f>>) /\ operands' = operands /\ takes' = takes
  BY DEF StmtOther, At, program
<1>2. Onward(builder, builder') BY SameOnward, TempOnwards DEF StmtOther
<1>3. f.do = "into" BY DEF Into
<1> HIDE DEF f
<1>4. Calm(<<f>>) BY <1>3, CalmOne DEF Conditions
<1> QED BY <1>1, <1>2, <1>4, QuietMoves

LEMMA AssignExprMoves == ASSUME Ready, NEW name, AssignExpr(name) PROVE Moves
<1> DEFINE f(op) == [do |-> "assign", name |-> name, op |-> op]
<1>1. todo # << >> /\ operands' = operands /\ takes' = takes BY DEF AssignExpr, At, program
<1>2. Onward(builder, builder') BY PreparedOnward DEF AssignExpr
<1>3. Then(<<Rvalue, f(FALSE)>>) \/ Then(<<Operand, f(TRUE)>>) BY DEF AssignExpr
<1>4. Rvalue.do = "rvalue" /\ Operand.do = "operand" /\ f(FALSE).do = "assign" /\ f(TRUE).do = "assign"
  BY DEF Rvalue, Operand
<1> HIDE DEF f
<1>5. Calm(<<Rvalue, f(FALSE)>>) /\ Calm(<<Operand, f(TRUE)>>) BY <1>4, CalmTwo DEF Conditions
<1> QED BY <1>1, <1>2, <1>3, <1>5, QuietMoves

LEMMA ExitCalm == ASSUME NEW e, NEW t PROVE Calm(<<Exit(e, t)>>)
BY CalmOne DEF Exit, Conditions

LEMMA ValueCalm == ASSUME NEW d, NEW e, NEW t PROVE Calm(<<Into(d, {}), Exit(e, t)>>)
BY CalmTwo DEF Into, Exit, Conditions

LEMMA BreakExprMoves == ASSUME Ready, NEW i, BreakExpr(i) PROVE Moves
<1> DEFINE loop == builder.loop_scopes[i]
<1>1. todo # << >> /\ operands' = operands /\ takes' = takes BY DEF BreakExpr, At, program
<1>2. \/ /\ builder' = push_assign_unit(Prepared, block, loop.break_destination)
         /\ Then(<<Exit(loop.extent, loop.break_block)>>)
      \/ /\ builder' = Prepared
         /\ Then(<<Into(loop.break_destination, {}), Exit(loop.extent, loop.break_block)>>)
  BY DEF BreakExpr
<1>3. Onward(builder, builder') BY <1>2, PreparedOnward, UnitOnwards
<1> QED BY <1>1, <1>2, <1>3, ExitCalm, ValueCalm, QuietMoves

LEMMA ContinueExprMoves == ASSUME Ready, NEW i, ContinueExpr(i) PROVE Moves
<1>1. todo # << >> /\ operands' = operands /\ takes' = takes BY DEF ContinueExpr, At, program
<1>2. /\ builder' = Prepared
      /\ Then(<<Exit(builder.loop_scopes[i].extent, builder.loop_scopes[i].continue_block)>>)
  BY DEF ContinueExpr
<1>3. Onward(builder, builder') BY <1>2, PreparedOnward
<1> QED BY <1>1, <1>2, <1>3, ExitCalm, QuietMoves

LEMMA ReturnExprMoves == ASSUME Ready, ReturnExpr PROVE Moves
<1>1. todo # << >> /\ operands' = operands /\ takes' = takes BY DEF ReturnExpr, At, program
<1>2. \/ /\ builder' = push_assign_unit(Prepared, block, RETURN_POINTER)
         /\ Then(<<Exit(PARAMETERS, None)>>)
      \/ /\ builder' = Prepared
         /\ Then(<<Into(RETURN_POINTER, {}), Exit(PARAMETERS, None)>>)
  BY DEF ReturnExpr
<1>3. Onward(builder, builder') BY <1>2, PreparedOnward, UnitOnwards
<1> QED BY <1>1, <1>2, <1>3, ExitCalm, ValueCalm, QuietMoves

LEMMA ExitScopeMoves == ASSUME Ready, ExitScope PROVE Moves
<1> DEFINE A == return_block(builder)
           p == A.asserts /\ Len(builder.scopes) >= 2 /\ builder.scopes[2].extent = PARAMETERS
           R == IF Top.target # None THEN builder ELSE [A EXCEPT !.asserts = p]
           target == IF Top.target # None THEN Top.target ELSE R.cached_return_block
           S == start_new_block(R, Open(R))
<1>1. todo # << >> /\ operands' = operands /\ takes' = takes /\ Then(<< >>)
  BY DEF ExitScope, At, program
<1>2. builder' = exit_scope(S, Top.extent, block, target, NextBlock(R)) BY DEF ExitScope
<1>3. Onward(builder, A) BY SameOnward, ReturnOnwards
<1>4. Onward(builder, R) /\ R.scopes = builder.scopes
  <2>1. A.scopes = builder.scopes /\ Shaped(A)
    <3>1. Shaped(A) BY <1>3 DEF Onward, GraphShaped
    <3>2. A.scopes = builder.scopes BY DEF return_block, start_new_block, Ready, GraphShaped, Shaped, BuilderFieldNames
    <3> QED BY <3>1, <3>2
  <2> HIDE DEF A
  <2>2. Onward(builder, [A EXCEPT !.asserts = p])
    <3>1. p => A.asserts OBVIOUS
    <3> HIDE DEF p
    <3> QED BY <1>3, <3>1, AssertsOnwards
  <2>3. [A EXCEPT !.asserts = p].scopes = A.scopes
    <3> HIDE DEF p
    <3> QED BY <2>1 DEF Shaped, BuilderFieldNames
  <2> QED BY <2>1, <2>2, <2>3, SameOnward
<1> HIDE DEF A, R
<1>5. Onward(builder, S) /\ S.scopes = builder.scopes
  <2>1. Onward(builder, S) BY <1>4, BlockOnwards
  <2>2. GraphShaped(R) BY <1>4, ShapedOn
  <2>3. S.scopes = R.scopes BY <2>2 DEF start_new_block, GraphShaped, Shaped, BuilderFieldNames
  <2> QED BY <1>4, <2>1, <2>3
<1> HIDE DEF S, target
<1>6. Len(S.scopes) \in Nat /\ Len(S.scopes) >= 1 /\ GraphShaped(S) BY <1>1, <1>5, ShapedOn DEF Ready
<1>7. Onward(S, builder') BY <1>2, <1>6, ExitOnward
<1>8. Onward(builder, builder') BY <1>5, <1>7, OnwardTransitive
<1> QED BY <1>1, <1>8, CalmNone, QuietMoves

LEMMA BlockExprMoves == ASSUME Ready, BlockExpr PROVE Moves
<1>1. todo # << >> /\ operands' = operands /\ takes' = takes /\ Then(<<InnerBlock(Top.dest)>>)
  BY DEF BlockExpr, At, program
<1>2. Onward(builder, builder') BY SameOnward DEF BlockExpr
<1>3. Calm(<<InnerBlock(Top.dest)>>) BY CalmOne DEF InnerBlock, Conditions
<1> QED BY <1>1, <1>2, <1>3, QuietMoves

LEMMA OpenBlockMoves == ASSUME Ready, OpenBlock PROVE Moves
<1> DEFINE f == [do |-> "stmts", dest |-> Top.dest, extent |-> builder'.extents, lets |-> << >>,
                 outer |-> builder.visibility_scope, env |-> env]
<1>1. todo # << >> /\ operands' = operands /\ takes' = takes /\ Then(<<f>>)
  BY DEF OpenBlock, At, program
<1>2. Onward(builder, builder') BY SameOnward, ScopeOnwards DEF OpenBlock
<1>3. f.do = "stmts" OBVIOUS
<1> HIDE DEF f
<1>4. Calm(<<f>>) BY <1>3, CalmOne DEF Conditions
<1> QED BY <1>1, <1>2, <1>4, QuietMoves

LEMMA ExprStmtMoves == ASSUME Ready, ExprStmt PROVE Moves
<1> DEFINE p == Pop(builder'.extents)
<1>1. todo # << >> /\ operands' = operands /\ takes' = takes /\ Then(<<Stmt, p, Top>>) /\ Top.do = "stmts"
  BY DEF ExprStmt, At, program
<1>2. Onward(builder, builder') BY SameOnward, ScopeOnwards DEF ExprStmt
<1>3. p.do = "pop" /\ Stmt.do = "stmt" BY DEF Pop, Stmt
<1> HIDE DEF p
<1>4. Calm(<<Stmt, p, Top>>) BY <1>1, <1>3, CalmThree DEF Conditions
<1> QED BY <1>1, <1>2, <1>4, QuietMoves

LEMMA MacStmtMoves == ASSUME Ready, MacStmt PROVE Moves
<1>1. todo' = todo /\ operands' = operands /\ takes' = takes BY DEF MacStmt, program
<1>2. Onward(builder, builder')
  BY SameOnward, ScopeOnwards, TempOnwards, PushOnwards, UnitOnwards, PopOnwards DEF MacStmt
<1> QED BY <1>1, <1>2 DEF Moves, Ready

LEMMA PopScopeMoves == ASSUME Ready, PopScope PROVE Moves
<1>1. todo # << >> /\ operands' = operands /\ takes' = takes /\ Then(<< >>)
  BY DEF PopScope, At, program
<1>2. Onward(builder, builder') BY SameOnward, PopOnwards DEF PopScope
<1> QED BY <1>1, <1>2, CalmNone, QuietMoves

LEMMA LetStmtMoves == ASSUME Ready, NEW names \in LetPatterns, LetStmt(names) PROVE Moves
<1> DEFINE R == enter_scope(builder)
           D == declare_bindings(R, block, names)
           S == enter_scope(D.b)
           enter == [do |-> "enter", scope |-> D.scope, names |-> names, locals |-> D.locals]
           rest == [Top EXCEPT !.lets = Append(@, R.extents)]
           a == Into(D.locals[1], {})
           l == [do |-> "lvalue"]
           m == [do |-> "let_pat", locals |-> D.locals]
           p == Pop(S.extents)
<1>1. todo # << >> /\ operands' = operands /\ takes' = takes /\ Top.do = "stmts"
  BY DEF LetStmt, At, program
<1>2. \/ builder' = storage_live(S, block, D.locals) /\ Then(<<a, p, enter, rest>>)
      \/ builder' = S /\ Then(<<l, m, p, enter, rest>>)
      \/ builder' = storage_live(D.b, block, D.locals) /\ Then(<<enter, rest>>)
  BY DEF LetStmt
<1>3. Onward(builder, R) BY SameOnward, ScopeOnwards
<1>4. Len(names) \in Nat BY PatternNames
<1>5. Onward(builder, D.b) /\ Len(D.locals) \in Nat
  <2>1. GraphShaped(R) BY <1>3, ShapedOn
  <2> HIDE DEF R
  <2>2. Onward(R, D.b) /\ Frames(D.locals) BY <1>4, <2>1, BindingsOnward
  <2> HIDE DEF D
  <2>3. Len(D.locals) \in Nat BY <2>2 DEF Frames
  <2> QED BY <1>3, <2>2, <2>3, OnwardTransitive
<1>6. Calm(<<a, p, enter, rest>>) /\ Calm(<<l, m, p, enter, rest>>) /\ Calm(<<enter, rest>>)
  <2>1. a.do = "into" /\ p.do = "pop" BY DEF Into, Pop
  <2>2. enter.do = "enter" /\ l.do = "lvalue" /\ m.do = "let_pat" OBVIOUS
  <2>3. rest.do \notin Conditions
    <3> HIDE DEF R
    <3> QED BY <1>1 DEF Conditions
  <2> HIDE DEF a, p, enter, rest, l, m
  <2> QED BY <2>1, <2>2, <2>3, CalmTwo, CalmFour, CalmFive DEF Conditions
<1> HIDE DEF R, D
<1>7. Onward(builder, S) BY <1>5, ScopeOnwards
<1> HIDE DEF S, a, p, enter, rest, l, m
<1>8. Onward(builder, builder') BY <1>2, <1>5, <1>7, LiveOnwards
<1> QED BY <1>1, <1>2, <1>6, <1>8, QuietMoves

LEMMA EnterVisibilityMoves == ASSUME Ready, EnterVisibility PROVE Moves
<1>1. todo # << >> /\ operands' = operands /\ takes' = takes /\ Then(<< >>)
  BY DEF EnterVisibility, At
<1>2. Onward(builder, builder') BY SameOnward, FieldsOnwards DEF EnterVisibility
<1> QED BY <1>1, <1>2, CalmNone, QuietMoves

LEMMA FinishBlockMoves == ASSUME NEW v, Now(v), Ready, FinishBlock PROVE Moves
<1> DEFINE f == [Top EXCEPT !.do = "close"]
           a == Into(Top.dest, {})
<1>1. todo # << >> /\ operands' = operands /\ takes' = takes /\ At({"stmts", "close"})
  BY DEF FinishBlock, At, program
<1>2. \/ builder' = builder /\ Then(<<a>> \o <<f>>)
      \/ builder' = push_assign_unit(builder, block, Top.dest) /\ Then(<<f>>)
  BY DEF FinishBlock
<1>3. Onward(builder, builder') BY <1>2, SameOnward, UnitOnwards
<1>4. f.do = "close"
  <2>1. StmtsFrame(Top, v, builder) BY <1>1, InStmts
  <2> QED BY <2>1 DEF StmtsFrame
<1>5. a.do = "into" BY DEF Into
<1> HIDE DEF a, f
<1>6. Calm(<<a>>) /\ Calm(<<f>>) BY <1>4, <1>5, CalmOne DEF Conditions
<1>7. Calm(<<a>> \o <<f>>) BY <1>6, CalmJoin
<1> QED BY <1>1, <1>2, <1>3, <1>6, <1>7, QuietMoves

LEMMA CloseBlockMoves == ASSUME NEW v, Now(v), Ready, CloseBlock PROVE Moves
<1> DEFINE k == Len(Top.lets)
           Round(P, m) == pop_scope(P, block, Top.lets[k + 1 - m])
           Rounds(g, m) == g = [i \in 0..m |-> IF i = 0 THEN builder ELSE Round(g[i - 1], i)]
           T == {m \in Nat : \E g : Rounds(g, m)}
<1>1. todo # << >> /\ operands' = operands /\ takes' = takes /\ Then(<< >>) /\ At({"stmts", "close"})
  BY DEF CloseBlock, At
<1>2. k \in Nat BY <1>1, InStmts
<1>3. 0 \in T
  <2>1. Rounds([i \in 0..0 |-> builder], 0) OBVIOUS
  <2> QED BY <2>1
<1>4. ASSUME NEW m \in Nat, m \in T PROVE m + 1 \in T
  <2>1. PICK g : Rounds(g, m) BY <1>4
  <2> DEFINE h == [i \in 0..(m + 1) |-> IF i <= m THEN g[i] ELSE Round(g[i - 1], i)]
  <2> HIDE DEF Round
  <2>2. ASSUME NEW i \in 0..(m + 1), i # 0 PROVE h[i] = Round(h[i - 1], i)
    <3>1. i - 1 \in 0..m /\ h[i - 1] = g[i - 1] BY <2>2
    <3>2. CASE i <= m
      <4>1. i \in 0..m /\ h[i] = g[i] BY <3>2
      <4> QED BY <2>1, <2>2, <3>1, <4>1
    <3>3. CASE ~(i <= m) BY <3>1, <3>3
    <3> QED BY <3>2, <3>3
  <2>3. h[0] = builder BY <2>1
  <2>4. Rounds(h, m + 1)
    <3> DEFINE r == [i \in 0..(m + 1) |-> IF i = 0 THEN builder ELSE Round(h[i - 1], i)]
    <3>1. \A i \in 0..(m + 1) : h[i] = r[i] BY <2>2, <2>3
    <3>2. h = [i \in 0..(m + 1) |-> h[i]] OBVIOUS
    <3> HIDE DEF h
    <3> QED BY <3>1, <3>2
  <2> HIDE DEF Rounds, h
  <2> QED BY <2>4
<1>5. \E g : /\ Rounds(g, k)
             /\ builder' = pop_scope([g[k] EXCEPT !.visibility_scope = Top.outer], block, Top.extent)
  <2>1. Nat \subseteq T
    <3> HIDE DEF T
    <3> QED BY <1>3, <1>4, Induction
  <2>2. \E g : Rounds(g, k) BY <1>2, <2>1
  <2> QED BY <2>2 DEF CloseBlock
<1>6. PICK g : /\ Rounds(g, k)
               /\ builder' = pop_scope([g[k] EXCEPT !.visibility_scope = Top.outer], block, Top.extent)
  BY <1>5
<1> HIDE DEF Round
<1> DEFINE U == {m \in Nat : m <= k => Onward(builder, g[m])}
<1>7. 0 \in U
  <2>1. g[0] = builder BY <1>2, <1>6
  <2> QED BY <2>1, SameOnward
<1>8. ASSUME NEW m \in Nat, m \in U PROVE m + 1 \in U
  <2> SUFFICES ASSUME m + 1 <= k PROVE Onward(builder, g[m + 1]) OBVIOUS
  <2>1. m + 1 \in 0..k /\ (m + 1) - 1 = m /\ m + 1 # 0 /\ m <= k BY <1>2
  <2>2. g[m + 1] = Round(g[m], m + 1) BY <1>6, <2>1
  <2>3. Onward(builder, g[m]) BY <1>8, <2>1
  <2>4. Onward(builder, Round(g[m], m + 1)) BY <2>3, PopOnwards DEF Round
  <2> QED BY <2>2, <2>4
<1> HIDE DEF U
<1>9. Nat \subseteq U BY <1>7, <1>8, Induction
<1>10. Onward(builder, g[k]) BY <1>2, <1>9 DEF U
<1>11. Onward(builder, builder') BY <1>6, <1>10, FieldsOnwards, PopOnwards
<1> QED BY <1>1, <1>11, CalmNone, QuietMoves

\* No condition is lowered in a program without if and while.
LEMMA LoopExprMoves == ASSUME "while" \notin Forms, Ready, LoopExpr PROVE Moves
<1> DEFINE n == NextBlock(builder)
           S == start_new_block(start_new_block(builder, Open(builder)), Open(builder))
           T == terminate(S, block, Jump("Goto", <<n>>, NoOperand))
           loop == [extent |-> extent_of_innermost_scope(builder), continue_block |-> n,
                    break_block |-> n + 1, break_destination |-> Top.dest]
           body == [do |-> "body"]
           end == [do |-> "loop_end", loop |-> loop]
<1>1. todo # << >> /\ operands' = operands /\ takes' = takes /\ Then(<<body, end>>)
  BY DEF LoopExpr, At, program, Pick
<1>2. builder' = [T EXCEPT !.loop_scopes = Append(@, loop)] BY DEF LoopExpr
<1>3. Onward(builder, T) BY SameOnward, BlockOnwards, TerminateOnwards
<1>4. body.do = "body" /\ end.do = "loop_end" OBVIOUS
<1> HIDE DEF T, loop, body, end
<1>5. Onward(builder, builder')
  <2> DEFINE x == Append(T.loop_scopes, loop)
  <2>1. builder' = [T EXCEPT !.loop_scopes = x] BY <1>2
  <2> HIDE DEF x
  <2> QED BY <1>3, <2>1, FieldsOnwards
<1>6. Calm(<<body, end>>) BY <1>4, CalmTwo DEF Conditions
<1> QED BY <1>1, <1>5, <1>6, QuietMoves

LEMMA LoopBodyMoves == ASSUME Ready, LoopBody PROVE Moves
<1> DEFINE f == InnerBlock(NextLocal(builder))
<1>1. todo # << >> /\ Then(<<f>>) /\ operands' = operands /\ takes' = takes
  BY DEF LoopBody, At, program
<1>2. Onward(builder, builder') BY SameOnward, TempOnwards DEF LoopBody
<1>3. Calm(<<f>>) BY CalmOne DEF InnerBlock, Conditions
<1> QED BY <1>1, <1>2, <1>3, QuietMoves

LEMMA LoopEndMoves == ASSUME Ready, LoopEnd PROVE Moves
<1> DEFINE T == terminate(builder, block, Jump("Goto", <<Top.loop.continue_block>>, NoOperand))
           p == T.asserts /\ Last(builder.loop_scopes).extent = Top.loop.extent
           x == Front(T.loop_scopes)
           A == [T EXCEPT !.asserts = p]
<1>1. todo # << >> /\ operands' = operands /\ takes' = takes /\ Then(<< >>)
  BY DEF LoopEnd, At, program
<1>2. Onward(builder, T) BY SameOnward, TerminateOnwards
<1>3. builder' = [T EXCEPT !.asserts = p, !.loop_scopes = x] BY DEF LoopEnd
<1>4. p => T.asserts OBVIOUS
<1>5. Shaped(T) BY <1>2 DEF Onward, GraphShaped
<1> HIDE DEF T, p, x
<1>6. builder' = [A EXCEPT !.loop_scopes = x] BY <1>3, <1>5 DEF Shaped, BuilderFieldNames
<1>7. Onward(builder, A) BY <1>2, <1>4, AssertsOnwards
<1> HIDE DEF A
<1>8. Onward(builder, builder') BY <1>6, <1>7, FieldsOnwards
<1> QED BY <1>1, <1>8, CalmNone, QuietMoves

LEMMA MatchExprMoves == ASSUME Ready, MatchExpr PROVE Moves
<1> DEFINE m == [do |-> "match", dest |-> Top.dest]
<1>1. todo # << >> /\ operands' = operands /\ takes' = takes /\ Then(<<Operand, m>>)
  BY DEF MatchExpr, At, program
<1>2. Onward(builder, builder') BY SameOnward DEF MatchExpr
<1>3. Operand.do = "operand" /\ m.do = "match" BY DEF Operand
<1> HIDE DEF m
<1>4. Calm(<<Operand, m>>) BY <1>3, CalmTwo DEF Conditions
<1> QED BY <1>1, <1>2, <1>4, QuietMoves

LEMMA NextArmMoves == ASSUME NEW v, Now(v), Ready, NextArm PROVE Moves
<1> DEFINE arm == Head(Top.arms)
           a == Into(Top.dest, {})
           e == [do |-> "arm_end", end |-> Top.end]
           r == [Top EXCEPT !.arms = Tail(@)]
<1>1. todo # << >> /\ operands' = operands /\ takes' = takes /\ Then(<<a, e, r>>) /\ Top.do = "arms"
  BY DEF NextArm, At
<1>2. Onward(builder, builder')
  <2>1. builder' = [builder EXCEPT !.visibility_scope = arm.scope] BY DEF NextArm
  <2> QED BY <2>1, SameOnward, FieldsOnwards
<1>3. a.do = "into" /\ e.do = "arm_end" /\ r.do \notin Conditions
  BY <1>1 DEF Into, Conditions
<1> HIDE DEF a, e, r
<1>4. Calm(<<a, e, r>>) BY <1>3, CalmThree DEF Conditions
<1> QED BY <1>1, <1>2, <1>4, QuietMoves

LEMMA ArmEndMoves == ASSUME Ready, ArmEnd PROVE Moves
<1>1. todo # << >> /\ operands' = operands /\ takes' = takes /\ Then(<< >>)
  BY DEF ArmEnd, At, program
<1>2. Onward(builder, builder') BY SameOnward, TerminateOnwards DEF ArmEnd
<1> QED BY <1>1, <1>2, CalmNone, QuietMoves

LEMMA MatchEndMoves == ASSUME Ready, MatchEnd PROVE Moves
<1>1. todo # << >> /\ operands' = operands /\ takes' = takes /\ Then(<< >>)
  BY DEF MatchEnd, At
<1>2. Onward(builder, builder') BY SameOnward, FieldsOnwards DEF MatchEnd
<1> QED BY <1>1, <1>2, CalmNone, QuietMoves

LEMMA SuspendExprMoves == ASSUME Ready, SuspendExpr PROVE Moves
<1> DEFINE m == [do |-> "suspend", dest |-> Top.dest]
<1>1. todo # << >> /\ operands' = operands /\ takes' = takes /\ Then(<<Operand, m>>)
  BY DEF SuspendExpr, At
<1>2. Onward(builder, builder') BY SameOnward DEF SuspendExpr
<1>3. Operand.do = "operand" /\ m.do = "suspend" BY DEF Operand
<1> HIDE DEF m
<1>4. Calm(<<Operand, m>>) BY <1>3, CalmTwo DEF Conditions
<1> QED BY <1>1, <1>2, <1>4, QuietMoves

LEMMA CallExprMoves == ASSUME Ready, CallExpr PROVE Moves
<1> DEFINE m == [do |-> "call", dest |-> Top.dest]
<1>1. todo # << >> /\ operands' = operands /\ takes' = takes /\ Then(<<Operand, Rvalue, m>>)
  BY DEF CallExpr, At, program
<1>2. Onward(builder, builder') BY SameOnward DEF CallExpr
<1>3. Operand.do = "operand" /\ Rvalue.do = "rvalue" /\ m.do = "call" BY DEF Operand, Rvalue
<1> HIDE DEF m
<1>4. Calm(<<Operand, Rvalue, m>>) BY <1>3, CalmThree DEF Conditions
<1> QED BY <1>1, <1>2, <1>4, QuietMoves

LEMMA EpilogueMoves == ASSUME Ready, Epilogue PROVE Moves
<1> DEFINE P == pop_scope(builder, block, PARAMETERS)
           R == return_block(P)
           end == R.cached_return_block
           G == terminate(R, block, Jump("Goto", <<end>>, NoOperand))
           T == terminate(G, end, Jump("Return", << >>, NoOperand))
           C == pop_scope(T, end, CALL_SITE)
           p == C.asserts /\ \A b \in 1..Len(C.basic_blocks) : C.basic_blocks[b].term # Unterminated
<1>1. todo # << >> /\ operands' = operands /\ takes' = takes /\ Then(<< >>)
  BY DEF Epilogue, At, program
<1>2. builder' = [C EXCEPT !.asserts = p] BY DEF Epilogue
<1>3. Onward(builder, R) BY SameOnward, PopOnwards, ReturnOnwards
<1> HIDE DEF R, end
<1>4. Onward(builder, C) BY <1>3, TerminateOnwards, PopOnwards
<1>5. p => C.asserts OBVIOUS
<1> HIDE DEF C, p
<1>6. Onward(builder, builder') BY <1>2, <1>4, <1>5, AssertsOnwards
<1> QED BY <1>1, <1>6, CalmNone, QuietMoves

(***************************************************************************)
(* Then those that make operands.                                          *)
(***************************************************************************)
LEMMA OperandConstantMoves == ASSUME Ready, OperandConstant PROVE Moves
<1>1. /\ todo # << >> /\ builder' = builder /\ operands' = Append(operands, NoOperand)
      /\ takes' = takes /\ Then(<< >>)
  BY DEF OperandConstant, At, program
<1> QED BY <1>1, AppendMoves

LEMMA OperandPathMoves == ASSUME Ready, NEW name, OperandPath(name) PROVE Moves
<1> DEFINE r == [moved |-> {}, read |-> Place(name)]
           m == [moved |-> Place(name), read |-> {}]
<1>1. /\ todo # << >> /\ builder' = builder /\ Then(<< >>)
      /\ \/ operands' = Append(operands, r) /\ takes' = takes
         \/ operands' = Append(operands, m) /\ takes' = takes \union Place(name)
  BY DEF OperandPath, At
<1>2. m.moved = Place(name) OBVIOUS
<1> HIDE DEF r, m
<1> QED BY <1>1, <1>2, AppendMoves

LEMMA UseTempMoves == ASSUME Ready, UseTemp PROVE Moves
<1> DEFINE x == [moved |-> IF Top.moved THEN {Top.local} ELSE {},
                 read |-> IF Top.moved THEN {} ELSE {Top.local}]
<1>1. /\ todo # << >> /\ builder' = builder /\ operands' = Append(operands, x)
      /\ takes' = takes /\ Then(<< >>)
  BY DEF UseTemp, At, program
<1> HIDE DEF x
<1> QED BY <1>1, AppendMoves

LEMMA RvalueMacMoves == ASSUME Ready, RvalueMac PROVE Moves
<1>1. /\ todo # << >> /\ builder' = builder /\ operands' = Append(operands, NoOperand)
      /\ takes' = takes /\ Then(<< >>)
  BY DEF RvalueMac, At
<1> QED BY <1>1, AppendMoves

(***************************************************************************)
(* And those that use them.                                                *)
(***************************************************************************)
LEMMA OperandThere ==
  ASSUME NEW v, Now(v), todo # << >>, Top.do # "arms", Takes(Top) >= 1
  PROVE  operands # << >> /\ Len(operands) >= Takes(Top) /\ Len(operands) \in Nat
<1>1. Common(v) /\ v.o = Len(operands) /\ v.o >= Takes(Top) BY Started
<1>2. Len(operands) \in Nat BY <1>1 DEF Common
<1>3. Takes(Top) \in Nat BY DEF Takes
<1>4. Len(operands) # 0 BY <1>1, <1>2, <1>3
<1>5. operands # << >> BY <1>4
<1> QED BY <1>1, <1>2, <1>5

LEMMA AssignMoves == ASSUME NEW v, Now(v), Ready, Assign PROVE Moves
<1> DEFINE z == Last(operands)
           lhs == Place(Top.name)
           s == Write(lhs, z.moved \union (IF Top.op THEN lhs ELSE {}), z.read)
<1>1. /\ todo # << >> /\ Top.do = "assign" /\ operands' = Front(operands) /\ takes' = takes
      /\ Then(<< >>)
  BY DEF Assign, At
<1>2. builder' = push(builder, block, s) BY DEF Assign
<1>3. z.moved \subseteq s.moved BY DEF Write
<1>4. operands # << >> BY <1>1, OperandThere DEF Takes
<1> HIDE DEF s
<1>5. Changes(builder, block, s.moved, builder') BY <1>2, PushOnward DEF Ready
<1>6. s.moved \subseteq Gone(builder') BY <1>5, ChangeGone DEF Ready
<1> QED BY <1>1, <1>3, <1>4, <1>5, <1>6, CalmNone, PopMoves DEF Changes

LEMMA LetPatternMoves == ASSUME NEW v, Now(v), Ready, LetPattern PROVE Moves
<1> DEFINE z == Last(operands)
           L == storage_live(builder, block, Top.locals)
           s == [Write(ToSet(Top.locals), z.moved \union z.read, {}) EXCEPT !.op = "Let"]
           P == push(L, block, s)
           p == P.asserts /\ Top.locals # << >>
<1>1. /\ todo # << >> /\ Top.do = "let_pat" /\ operands' = Front(operands) /\ takes' = takes
      /\ Then(<< >>)
  BY DEF LetPattern, At, program
<1>2. builder' = [P EXCEPT !.asserts = p] BY DEF LetPattern
<1>3. z.moved \subseteq s.moved BY DEF Write
<1>4. operands # << >> BY <1>1, OperandThere DEF Takes
<1>5. Len(Top.locals) \in Nat
  <2>1. Common(v) BY <1>1, Started
  <2>2. Top.locals \in Seq(LocalsOf(builder)) BY <1>1, <2>1 DEF Common, FieldsOK
  <2> QED BY <2>2
<1> HIDE DEF s
<1>6. Onward(builder, L) BY <1>5, SameOnward, LiveOnwards
<1>7. GraphShaped(L) /\ block \in BlocksOf(L) BY <1>6 DEF Onward, Ready
<1> HIDE DEF L
<1>8. Changes(L, block, s.moved, P) BY <1>7, PushOnward
<1>9. s.moved \subseteq Gone(P) BY <1>7, <1>8, ChangeGone
<1>10. p => P.asserts OBVIOUS
<1>11. GraphShaped(P) BY <1>8 DEF Changes, Onward
<1>12. Onward(P, builder') /\ Onward(L, P)
  <2> HIDE DEF P, p
  <2> QED BY <1>2, <1>8, <1>10, <1>11, AssertsOnward DEF Changes
<1> HIDE DEF P
<1>13. Onward(builder, builder') BY <1>6, <1>12, OnwardTransitive
<1>14. Gone(P) \subseteq Gone(builder') BY <1>12, OnwardGone DEF Ready
<1> QED BY <1>1, <1>3, <1>4, <1>9, <1>13, <1>14, CalmNone, PopMoves

LEMMA ArmOnward ==
  ASSUME NEW A, GraphShaped(A.b), NEW target, NEW names, Len(names) \in Nat
  PROVE  Onward(A.b, BindArm(A, target, names).b)
<1>1. BindArm(A, target, names).b = declare_bindings(A.b, block, names).b BY DEF BindArm
<1> QED BY <1>1, BindingsOnward

LEMMA MatchArmsMoves ==
  ASSUME NEW v, Now(v), Ready, NEW pats \in ArmPatterns \X ArmPatterns, MatchArms(pats)
  PROVE  Moves
<1> DEFINE first == NextBlock(builder)
           z == Last(operands)
           B == start_new_block(start_new_block(builder, Open(builder)), Open(builder))
           N == [b |-> B, arms |-> << >>]
           E == BindArm(N, first, pats[1])
           D == BindArm(E, first + 1, pats[2])
           S == start_new_block(D.b, Open(D.b))
           t == [op |-> "Match", succ |-> <<first, first + 1>>,
                 binds |-> <<ToSet(D.arms[1].locals), ToSet(D.arms[2].locals)>>,
                 moved |-> z.moved, read |-> z.read]
           f == [do |-> "arms", dest |-> Top.dest, arms |-> D.arms, end |-> first + 2,
                 outer |-> builder.visibility_scope, env |-> env]
<1>1. /\ todo # << >> /\ Top.do = "match" /\ operands' = Front(operands) /\ takes' = takes
      /\ Then(<<f>>)
  BY DEF MatchArms, At, program
<1>2. builder' = terminate(S, block, t) BY DEF MatchArms
<1>3. operands # << >> BY <1>1, OperandThere DEF Takes
<1>4. TermMoves(t) = z.moved BY DEF TermMoves
<1>5. f.do = "arms" OBVIOUS
<1> HIDE DEF t, f
<1>6. Len(pats[1]) \in Nat /\ Len(pats[2]) \in Nat
  <2>1. pats[1] \in ArmPatterns /\ pats[2] \in ArmPatterns OBVIOUS
  <2>2. \A p \in ArmPatterns : Len(p) \in Nat
    <3> SUFFICES ASSUME NEW p \in ArmPatterns PROVE Len(p) \in Nat OBVIOUS
    <3>1. CASE p = << >> BY <3>1
    <3>2. CASE \E n \in ArmNames : p = <<n>>
      <4>1. PICK n \in ArmNames : p = <<n>> BY <3>2
      <4> QED BY <4>1
    <3> QED BY <3>1, <3>2 DEF ArmPatterns
  <2> QED BY <2>1, <2>2
<1>7. Onward(builder, B) BY SameOnward, BlockOnwards
<1>8. N.b = B OBVIOUS
<1> HIDE DEF B, N, first
<1>9. Onward(builder, E.b)
  <2>1. Onward(N.b, E.b) BY <1>6, <1>7, <1>8, ShapedOn, ArmOnward
  <2> QED BY <1>7, <1>8, <2>1, OnwardTransitive
<1> HIDE DEF E
<1>10. Onward(builder, D.b)
  <2>1. Onward(E.b, D.b) BY <1>6, <1>9, ShapedOn, ArmOnward
  <2> QED BY <1>9, <2>1, OnwardTransitive
<1> HIDE DEF D
<1>11. Onward(builder, S) BY <1>10, BlockOnwards
<1>12. GraphShaped(S) /\ block \in BlocksOf(S) BY <1>11 DEF Onward, Ready
<1> HIDE DEF S
<1>13. Changes(S, block, TermMoves(t), builder') BY <1>2, <1>12, TerminateOnward
<1>14. z.moved \subseteq Gone(builder') BY <1>4, <1>12, <1>13, ChangeGone
<1>15. Onward(builder, builder') BY <1>11, <1>13, OnwardTransitive DEF Changes
<1>16. Calm(<<f>>) BY <1>5, CalmOne DEF Conditions
<1> QED BY <1>1, <1>3, <1>14, <1>15, <1>16, PopMoves

LEMMA SuspendMoves == ASSUME NEW v, Now(v), Ready, Suspend PROVE Moves
<1> DEFINE n == NextBlock(builder)
           z == Last(operands)
           S == start_new_block(builder, Open(builder))
           t == [op |-> "Suspend", succ |-> <<n>>, binds |-> <<{COROUTINE_ARGS}>>,
                 moved |-> z.moved, read |-> z.read]
           T == terminate(S, block, t)
<1>1. /\ todo # << >> /\ Top.do = "suspend" /\ operands' = Front(operands) /\ takes' = takes
      /\ Then(<< >>)
  BY DEF Suspend, At, program
<1>2. builder' = push(T, n, Write({Top.dest}, {COROUTINE_ARGS}, {})) BY DEF Suspend
<1>3. operands # << >> BY <1>1, OperandThere DEF Takes
<1>4. TermMoves(t) = z.moved BY DEF TermMoves
<1> HIDE DEF t, n
<1>5. Onward(builder, S) BY SameOnward, BlockOnwards
<1>6. GraphShaped(S) /\ block \in BlocksOf(S) BY <1>5 DEF Onward, Ready
<1> HIDE DEF S
<1>7. Changes(S, block, TermMoves(t), T) BY <1>6, TerminateOnward
<1>8. z.moved \subseteq Gone(T) BY <1>4, <1>6, <1>7, ChangeGone
<1>9. Onward(builder, T) /\ GraphShaped(T) BY <1>5, <1>7, OnwardTransitive, ShapedOn DEF Changes
<1> HIDE DEF T
<1>10. Onward(T, builder') BY <1>2, <1>9, PushOnward DEF Changes
<1>11. Onward(builder, builder') BY <1>9, <1>10, OnwardTransitive
<1>12. Gone(T) \subseteq Gone(builder') BY <1>10, OnwardGone DEF Ready
<1> QED BY <1>1, <1>3, <1>8, <1>11, <1>12, CalmNone, PopMoves

LEMMA CallMoves == ASSUME NEW v, Now(v), Ready, Call PROVE Moves
<1> DEFINE n == Len(operands)
           s == Write({Top.dest}, operands[n - 1].moved \union operands[n].moved,
                      operands[n - 1].read \union operands[n].read)
<1>1. /\ todo # << >> /\ Top.do = "call" /\ takes' = takes /\ Then(<< >>)
      /\ operands' = SubSeq(operands, 1, n - 2)
  BY DEF Call, At, program
<1>2. builder' = push(builder, block, s) BY DEF Call
<1>3. operands[n - 1].moved \union operands[n].moved \subseteq s.moved BY DEF Write
<1>4. Takes(Top) = 2 BY <1>1 DEF Takes
<1>5. Len(operands) >= 2 BY <1>1, <1>4, OperandThere
<1> HIDE DEF s
<1>6. Changes(builder, block, s.moved, builder') BY <1>2, PushOnward DEF Ready
<1>7. s.moved \subseteq Gone(builder') BY <1>6, ChangeGone DEF Ready
<1>8. OnTheWay(operands) \subseteq
        OnTheWay(SubSeq(operands, 1, n - 2)) \union operands[n - 1].moved \union operands[n].moved
  BY <1>5, WaitingTwo DEF Ready
<1>9. Calm(todo') BY <1>1, CalmNone, CalmThen DEF Ready
<1> QED BY <1>1, <1>3, <1>6, <1>7, <1>8, <1>9 DEF Moves, Changes

-----------------------------------------------------------------------------
(***************************************************************************)
(* A program without conditions, without `let y = moved!(x)' and without   *)
(* `let _ = e'.                                                            *)
(***************************************************************************)
Moving == Forms \intersect {"if", "while", "moved_into", "let_wild"} = {}

LEMMA StillMoves == ASSUME Ready, UNCHANGED vars PROVE Moves
<1>1. builder' = builder /\ todo' = todo /\ operands' = operands /\ takes' = takes
  BY DEF vars, program
<1>2. Onward(builder, builder') BY <1>1, SameOnward
<1> QED BY <1>1, <1>2 DEF Moves, Ready

LEMMA NoCondition == ASSUME Calm(todo), todo # << >> PROVE Top.do \notin Conditions
BY CalmTail DEF Top

LEMMA NextMoves == ASSUME Moving, NEW v, Now(v), Ready, Next PROVE Moves
<1>0. "if" \notin Forms /\ "while" \notin Forms /\ "moved_into" \notin Forms BY DEF Moving
<1>1. ASSUME IntoConstant PROVE Moves BY <1>1, IntoConstantMoves
<1>2. ASSUME OperandConstant PROVE Moves BY <1>2, OperandConstantMoves
<1>3. ASSUME OperandTemp PROVE Moves BY <1>3, OperandTempMoves
<1>4. ASSUME UseTemp PROVE Moves BY <1>4, UseTempMoves
<1>5. ASSUME RvalueMac PROVE Moves BY <1>5, RvalueMacMoves
<1>6. ASSUME NEW name \in Names \union ArmNames, IntoPath(name) PROVE Moves
  BY <1>0, <1>6, IntoPathMoves
<1>7. ASSUME NEW name \in Names \union ArmNames, OperandPath(name) PROVE Moves
  BY <1>7, OperandPathMoves
<1>8. ASSUME NEW name \in Names \union ArmNames, AssignExpr(name) PROVE Moves
  BY <1>8, AssignExprMoves
<1>9. ASSUME StmtOther PROVE Moves BY <1>9, StmtOtherMoves
<1>10. ASSUME Assign PROVE Moves BY <1>10, AssignMoves
<1>11. ASSUME NEW i \in 1..Len(builder.loop_scopes), BreakExpr(i) PROVE Moves
  BY <1>11, BreakExprMoves
<1>12. ASSUME NEW i \in 1..Len(builder.loop_scopes), ContinueExpr(i) PROVE Moves
  BY <1>12, ContinueExprMoves
<1>13. ASSUME ReturnExpr PROVE Moves BY <1>13, ReturnExprMoves
<1>14. ASSUME ExitScope PROVE Moves BY <1>14, ExitScopeMoves
<1>15. ASSUME BlockExpr PROVE Moves BY <1>15, BlockExprMoves
<1>16. ASSUME OpenBlock PROVE Moves BY <1>16, OpenBlockMoves
<1>17. ASSUME ExprStmt PROVE Moves BY <1>17, ExprStmtMoves
<1>18. ASSUME MacStmt PROVE Moves BY <1>18, MacStmtMoves
<1>19. ASSUME PopScope PROVE Moves BY <1>19, PopScopeMoves
<1>20. ASSUME NEW names \in LetPatterns, LetStmt(names) PROVE Moves BY <1>20, LetStmtMoves
<1>21. ASSUME LetPattern PROVE Moves BY <1>21, LetPatternMoves
<1>22. ASSUME EnterVisibility PROVE Moves BY <1>22, EnterVisibilityMoves
<1>23. ASSUME FinishBlock PROVE Moves BY <1>23, FinishBlockMoves
<1>24. ASSUME CloseBlock PROVE Moves BY <1>24, CloseBlockMoves
<1>25. ASSUME IfExpr PROVE FALSE BY <1>0, <1>25 DEF IfExpr, Pick
<1>26. ASSUME At(Conditions) PROVE FALSE BY <1>26, NoCondition DEF At, Ready
<1>27. IfThen \/ IfElse \/ IfJoin \/ WhileTest => At(Conditions)
  BY DEF IfThen, IfElse, IfJoin, WhileTest, At, Conditions
<1>28. ASSUME LoopExpr PROVE Moves BY <1>0, <1>28, LoopExprMoves
<1>29. ASSUME LoopBody PROVE Moves BY <1>29, LoopBodyMoves
<1>30. ASSUME LoopEnd PROVE Moves BY <1>30, LoopEndMoves
<1>31. ASSUME MatchExpr PROVE Moves BY <1>31, MatchExprMoves
<1>32. ASSUME NEW pats \in ArmPatterns \X ArmPatterns, MatchArms(pats) PROVE Moves
  BY <1>32, MatchArmsMoves
<1>33. ASSUME NextArm PROVE Moves BY <1>33, NextArmMoves
<1>34. ASSUME ArmEnd PROVE Moves BY <1>34, ArmEndMoves
<1>35. ASSUME MatchEnd PROVE Moves BY <1>35, MatchEndMoves
<1>36. ASSUME SuspendExpr PROVE Moves BY <1>36, SuspendExprMoves
<1>37. ASSUME Suspend PROVE Moves BY <1>37, SuspendMoves
<1>38. ASSUME CallExpr PROVE Moves BY <1>38, CallExprMoves
<1>39. ASSUME Call PROVE Moves BY <1>39, CallMoves
<1>40. ASSUME Epilogue PROVE Moves BY <1>40, EpilogueMoves
<1>41. ASSUME Done PROVE Moves BY <1>41, StillMoves DEF Done
<1> QED
  BY <1>1, <1>2, <1>3, <1>4, <1>5, <1>6, <1>7, <1>8, <1>9, <1>10, <1>11, <1>12, <1>13, <1>14,
     <1>15, <1>16, <1>17, <1>18, <1>19, <1>20, <1>21, <1>22, <1>23, <1>24, <1>25, <1>26, <1>27,
     <1>28, <1>29, <1>30, <1>31, <1>32, <1>33, <1>34, <1>35, <1>36, <1>37, <1>38, <1>39, <1>40,
     <1>41 DEF Next

LEMMA MovedStep ==
  ASSUME Moving, IInv, IInv', Calm(todo), MInv, [Next]_vars PROVE Calm(todo') /\ MInv'
<1>1. PICK v : Now(v) BY InvBuilder
<1>2. BuilderOK(builder) /\ Len(builder.scopes) \in Nat
  <2>1. BuilderOK(builder) BY InvBuilder
  <2> QED BY <2>1, Counts
<1>3. builder'.asserts
  <2>1. PICK w : StateOK(builder', block', todo', operands', yields', w) BY DEF IInv
  <2> QED BY <2>1 DEF StateOK, Moving
<1>4. Ready
  <2>1. block \in BlocksOf(builder) /\ Frames(operands) BY <1>1 DEF Now, StateOK, Frames
  <2>2. todo # << >> => Len(builder.scopes) >= 1
    <3> SUFFICES ASSUME todo # << >> PROVE Len(builder.scopes) >= 1 OBVIOUS
    <3>1. builder.scopes # << >> BY <1>1, TopFrame DEF Now
    <3>2. builder.scopes \in Seq(ScopeRecords) BY <1>2, BuilderFields DEF BuilderOK
    <3> DEFINE s == builder.scopes
    <3>3. s \in Seq(ScopeRecords) /\ s # << >> BY <3>1, <3>2
    <3> HIDE DEF s
    <3>4. Len(s) >= 1 BY <3>3
    <3> QED BY <3>4 DEF s
  <2> QED BY <1>2, <1>3, <2>1, <2>2, BuilderShaped DEF Ready
<1>5. Moves
  <2>1. CASE UNCHANGED vars BY <1>4, <2>1, StillMoves
  <2>2. CASE Next BY <1>1, <1>4, <2>2, NextMoves
  <2> QED BY <2>1, <2>2
<1>6. Gone(builder) \subseteq Gone(builder') BY <1>4, <1>5, OnwardGone DEF Moves, Ready
<1> QED BY <1>5, <1>6 DEF Moves, MInv

LEMMA InitMoved == ASSUME Init PROVE Calm(todo) /\ MInv
<1> DEFINE e == [do |-> "epilogue"]
           i == InnerBlock(RETURN_POINTER)
<1>1. todo = <<i, e>> /\ takes = {} BY DEF Init
<1>2. i.do = "block" /\ e.do = "epilogue" BY DEF InnerBlock
<1> HIDE DEF i, e
<1>3. Calm(<<i, e>>) BY <1>2, CalmTwo DEF Conditions
<1> QED BY <1>1, <1>3 DEF MInv

\* What is moved is among the uses that empty a local.
LEMMA GoneUsed ==
  ASSUME NEW c \in BuiltBlocks, NEW n, n = Len(StmtsOf(builder, c)), n \in Nat,
         NEW x \in MovedAt(builder, c)
  PROVE  \E i \in 1..TermIndex(Body, c) : x \in Uses(c, i) \intersect Absent(Body, c, i)
<1>1. Stmts(Body, c) = StmtsOf(builder, c) /\ Term(Body, c) = TermOf(builder, c)
  BY DEF Body, Stmts, Term, StmtsOf, TermOf
<1>2. TermIndex(Body, c) = n + 1 BY <1>1 DEF TermIndex
<1>3. CASE x \in TermMoves(TermOf(builder, c))
  <2>1. n + 1 \in 1..(n + 1) OBVIOUS
  <2>2. AtTerm(Body, c, n + 1) BY <1>2 DEF AtTerm
  <2>3. x \in Uses(c, n + 1) /\ x \in Absent(Body, c, n + 1)
    BY <1>1, <1>3, <2>2 DEF Uses, Absent
  <2> QED BY <1>2, <2>1, <2>3
<1>4. CASE x \notin TermMoves(TermOf(builder, c))
  <2>1. PICK i \in 1..n : x \in StmtsOf(builder, c)[i].moved BY <1>4 DEF MovedAt
  <2>2. i \in 1..(n + 1) /\ i # n + 1 OBVIOUS
  <2>3. ~AtTerm(Body, c, i) BY <1>2, <2>2 DEF AtTerm
  <2>4. x \in Uses(c, i) /\ x \in Absent(Body, c, i)
    BY <1>1, <2>1, <2>3 DEF Uses, Absent, StmtMoves
  <2> QED BY <1>2, <2>2, <2>4
<1> QED BY <1>3, <1>4

\* In every program without conditions, without `let y = moved!(x)' and
\* without `let _ = e', each variable that the program moves out of is moved
\* out of by a statement or a terminator of the body: no operand is lost on
\* the way from as_operand to the block.
THEOREM MovedCorrect ==
  ASSUME Forms \intersect {"if", "while", "moved_into", "let_wild"} = {}
  PROVE  Spec => []MovedIsConsumed
<1>0. Moving BY DEF Moving
<1>1. Init => IInv BY InitEstablishes
<1>2. Init => Calm(todo) /\ MInv BY InitMoved
<1>3. IInv /\ IInv' /\ Calm(todo) /\ MInv /\ [Next]_vars => Calm(todo)' /\ MInv'
  BY <1>0, MovedStep
<1>4. IInv /\ MInv => MovedIsConsumed
  <2> SUFFICES ASSUME IInv, MInv, Finished, NEW x \in takes
               PROVE  \E b \in BuiltBlocks : \E i \in 1..TermIndex(Body, b) :
                        x \in Uses(b, i) \intersect Absent(Body, b, i)
    BY DEF MovedIsConsumed
  <2>1. PICK v : Now(v) BY InvBuilder
  <2>2. todo = << >> BY DEF Finished
  <2>3. v = NoneLeft BY <2>1, <2>2, PlanDone DEF Now, StateOK
  <2>4. Len(operands) = 0 BY <2>1, <2>3 DEF Now, StateOK, NoneLeft
  <2>5. OnTheWay(operands) = {} BY <2>4 DEF OnTheWay
  <2>6. PICK c \in BlocksOf(builder) : x \in MovedAt(builder, c) BY <2>5 DEF MInv, Gone
  <2>7. c \in BuiltBlocks BY DEF BlocksOf, BuiltBlocks
  <2>8. Len(StmtsOf(builder, c)) \in Nat
    <3>1. BuilderOK(builder) BY InvBuilder
    <3>2. Frames(StmtsOf(builder, c)) BY <3>1, BuilderShaped DEF GraphShaped, BlockShaped, StmtsOf
    <3> QED BY <3>2 DEF Frames
  <2> QED BY <2>6, <2>7, <2>8, GoneUsed
<1> QED BY <1>1, <1>2, <1>3, <1>4, Inductive, PTL DEF Spec

-----------------------------------------------------------------------------
(***************************************************************************)
(* The scope of the coroutine's argument.  No other local is declared in   *)
(* it, and no frame brings the builder back to it.                         *)
(***************************************************************************)
Away(scope) == scope # COROUTINE_ARGS_VISIBILITY_SCOPE

DeclsApart(B) ==
  /\ Shaped(B) /\ Frames(B.local_decls) /\ Frames(B.visibility_scopes)
  /\ Len(B.visibility_scopes) >= COROUTINE_ARGS_VISIBILITY_SCOPE
  /\ \A l \in LocalsOf(B) : l # COROUTINE_ARGS => Away(B.local_decls[l].scope)
Apart(B) == DeclsApart(B) /\ Away(B.visibility_scope)

LEMMA SameDeclsApart ==
  ASSUME NEW A, NEW B, DeclsApart(A), SameDecls(A, B) PROVE DeclsApart(B)
BY DEF DeclsApart, SameDecls, LocalsOf

LEMMA SameApart ==
  ASSUME NEW A, NEW B, Apart(A), SameNames(A, B) PROVE Apart(B)
BY DEF Apart, DeclsApart, SameNames, LocalsOf

LEMMA DeclareApart ==
  ASSUME NEW B, DeclsApart(B), NEW name, NEW scope, Away(scope)
  PROVE  /\ DeclsApart(Declare(B, name, scope))
         /\ Declare(B, name, scope).visibility_scope = B.visibility_scope
<1> DEFINE x == [name |-> name, scope |-> scope, extent |-> extent_of_innermost_scope(B)]
           D == Declare(B, name, scope)
           n == Len(B.local_decls)
<1>1. /\ Shaped(D) /\ D.local_decls = Append(B.local_decls, x)
      /\ D.visibility_scopes = B.visibility_scopes /\ D.visibility_scope = B.visibility_scope
  BY DEF DeclsApart, Declare, Shaped, BuilderFieldNames
<1>2. x.scope = scope OBVIOUS
<1> HIDE DEF x, D
<1>3. /\ Frames(D.local_decls) /\ Len(D.local_decls) = n + 1 /\ n \in Nat
      /\ \A l \in 1..n : D.local_decls[l] = B.local_decls[l]
      /\ D.local_decls[n + 1] = x
  BY <1>1, SeqAppend DEF DeclsApart
<1>4. ASSUME NEW l \in LocalsOf(D), l # COROUTINE_ARGS PROVE Away(D.local_decls[l].scope)
  <2>1. l \in 1..(n + 1) BY <1>3 DEF LocalsOf
  <2>2. CASE l = n + 1 BY <1>2, <1>3, <2>2
  <2>3. CASE l # n + 1
    <3>1. l \in LocalsOf(B) BY <1>3, <2>1, <2>3 DEF LocalsOf
    <3> QED BY <1>3, <1>4, <3>1 DEF DeclsApart, LocalsOf
  <2> QED BY <2>2, <2>3
<1> QED BY <1>1, <1>3, <1>4 DEF DeclsApart, D

LEMMA DropDecls ==
  ASSUME NEW B, Shaped(B), NEW l
  PROVE  SameDecls(B, schedule_drop(B, l))
         /\ schedule_drop(B, l).visibility_scope = B.visibility_scope
BY DEF SameDecls, Shaped, BuilderFieldNames, schedule_drop

LEMMA TempApart == ASSUME NEW B, Apart(B), NEW b PROVE Apart(temp(B, b))
<1> DEFINE D == Declare(B, TempName, B.visibility_scope)
           E == push(D, b, StorageLive(NextLocal(B)))
<1>1. Apart(D) BY DeclareApart DEF Apart
<1> HIDE DEF D
<1>2. Apart(E)
  <2>1. SameNames(D, E) BY <1>1, PushSame DEF Apart, DeclsApart
  <2> QED BY <1>1, <2>1, SameApart
<1> HIDE DEF E
<1>3. Apart(schedule_drop(E, NextLocal(B)))
  BY <1>2, DropDecls, SameDeclsApart DEF Apart, DeclsApart
<1> QED BY <1>3 DEF temp, E, D

\* A temporary that holds a shadowed local is made in the visibility scope of
\* the builder, so there must be none if that is the argument's.
LEMMA BindingApart ==
  ASSUME NEW B, DeclsApart(B), NEW b, NEW name, NEW scope, Away(scope),
         Away(B.visibility_scope) \/ find_local_in_current_scope(B, name) = None
  PROVE  /\ DeclsApart(declare_binding(B, b, name, scope))
         /\ declare_binding(B, b, name, scope).visibility_scope = B.visibility_scope
<1> DEFINE shadowed == find_local_in_current_scope(B, name)
           T == temp(B, b)
           P == push_at(T, b, Write({NextLocal(B)}, {shadowed}, {}), scope)
           K == IF shadowed = None THEN B ELSE P
           D == Declare(K, name, scope)
<1>1. DeclsApart(K) /\ K.visibility_scope = B.visibility_scope
  <2>1. CASE shadowed = None BY <2>1
  <2>2. CASE shadowed # None
    <3>1. Apart(T) BY <2>2, TempApart DEF Apart
    <3>2. T.visibility_scope = B.visibility_scope
      BY DEF DeclsApart, Shaped, BuilderFieldNames, temp, schedule_drop, push, push_at, Declare
    <3>3. SameNames(T, P)
      <4> HIDE DEF T
      <4> QED BY <3>1, PushAtSame DEF Apart, DeclsApart
    <3> HIDE DEF T, P
    <3>4. Apart(P) /\ P.visibility_scope = T.visibility_scope
      BY <3>1, <3>3, SameApart DEF SameNames
    <3> QED BY <2>2, <3>2, <3>4 DEF Apart
  <2> QED BY <2>1, <2>2
<1>2. declare_binding(B, b, name, scope) = schedule_drop(D, NextLocal(K)) BY DEF declare_binding
<1> HIDE DEF K
<1>3. DeclsApart(D) /\ D.visibility_scope = B.visibility_scope BY <1>1, DeclareApart
<1> HIDE DEF D
<1>4. Shaped(D) BY <1>3 DEF DeclsApart
<1> QED BY <1>2, <1>3, <1>4, DropDecls, SameDeclsApart

LEMMA NextApart ==
  ASSUME NEW D, DeclsApart(D.b), Away(D.scope), NEW b, NEW name, NEW E, E = DeclareNext(D, b, name),
         \/ Away(D.b.visibility_scope)
         \/ D.b.scopes # << >> /\ find_local_in_current_scope(D.b, name) = None
  PROVE  /\ DeclsApart(E.b) /\ E.b.visibility_scope = D.b.visibility_scope
         /\ Away(E.scope) /\ E.scope # None
<1> DEFINE V == IF D.scope = None THEN new_visibility_scope(D.b) ELSE D.b
           s == IF D.scope = None THEN Len(V.visibility_scopes) ELSE D.scope
           N == declare_binding(V, b, name, s)
<1>1. E.b = N /\ E.scope = s BY DEF DeclareNext
<1>2. /\ DeclsApart(V) /\ V.scopes = D.b.scopes /\ V.local_decls = D.b.local_decls
      /\ V.visibility_scope = D.b.visibility_scope /\ Away(s) /\ s # None
  <2>1. CASE D.scope # None BY <2>1
  <2>2. CASE D.scope = None
    <3> DEFINE v == D.b.visibility_scope
               n == Len(D.b.visibility_scopes)
    <3>1. /\ Shaped(V) /\ V.scopes = D.b.scopes /\ V.local_decls = D.b.local_decls
          /\ V.visibility_scope = v /\ V.visibility_scopes = Append(D.b.visibility_scopes, v)
      BY <2>2 DEF DeclsApart, Shaped, BuilderFieldNames, new_visibility_scope
    <3> HIDE DEF v, V
    <3>2. Frames(V.visibility_scopes) /\ Len(V.visibility_scopes) = n + 1 /\ n \in Nat
      BY <3>1, SeqAppend DEF DeclsApart
    <3>3. n >= 3 BY DEF DeclsApart, COROUTINE_ARGS_VISIBILITY_SCOPE
    <3>4. DeclsApart(V)
      <4>1. Len(V.visibility_scopes) >= 3 BY <3>2, <3>3
      <4> QED BY <3>1, <3>2, <4>1 DEF DeclsApart, LocalsOf, COROUTINE_ARGS_VISIBILITY_SCOPE
    <3>5. s = n + 1 BY <2>2, <3>2
    <3>6. Away(s) /\ s # None BY <3>2, <3>3, <3>5 DEF Away, None, COROUTINE_ARGS_VISIBILITY_SCOPE
    <3> QED BY <3>1, <3>4, <3>6 DEF v
  <2> QED BY <2>1, <2>2
<1>3. find_local_in_current_scope(V, name) = find_local_in_current_scope(D.b, name)
  BY <1>2 DEF find_local_in_current_scope, Named
<1> HIDE DEF V, s
<1>4. DeclsApart(N) /\ N.visibility_scope = V.visibility_scope BY <1>2, <1>3, BindingApart
<1> HIDE DEF N
<1> QED BY <1>1, <1>2, <1>4

LEMMA BindingsApart ==
  ASSUME NEW B, Apart(B), NEW b, NEW names, Len(names) \in Nat
  PROVE  Apart(declare_bindings(B, b, names).b) /\ Away(declare_bindings(B, b, names).scope)
<1>0. PICK g : Turns(g, B, b, names) /\ declare_bindings(B, b, names) = g[Len(names)]
  BY BindingsFrom
<1> DEFINE none == [b |-> B, scope |-> None, locals |-> << >>]
           k == Len(names)
<1>1. /\ g[0] = none
      /\ \A i \in 1..k : g[i] = DeclareNext(g[i - 1], b, names[i])
      /\ declare_bindings(B, b, names) = g[k]
  BY <1>0 DEF Turns
<1> DEFINE Right(D) == Apart(D.b) /\ Away(D.scope)
           U == {m \in Nat : m <= k => Right(g[m])}
<1>2. 0 \in U
  <2>1. none.b = B /\ none.scope = None OBVIOUS
  <2>2. Away(None) BY DEF Away, None, COROUTINE_ARGS_VISIBILITY_SCOPE
  <2> HIDE DEF none
  <2> QED BY <1>1, <2>1, <2>2
<1>3. ASSUME NEW m \in Nat, m \in U, m + 1 <= k PROVE Right(g[m + 1])
  <2>1. m + 1 \in 1..k /\ (m + 1) - 1 = m /\ m <= k BY <1>3
  <2>2. g[m + 1] = DeclareNext(g[m], b, names[m + 1]) BY <1>1, <2>1
  <2>3. Right(g[m]) BY <1>3, <2>1
  <2>4. /\ DeclsApart(g[m + 1].b) /\ g[m + 1].b.visibility_scope = g[m].b.visibility_scope
        /\ Away(g[m + 1].scope)
    BY <2>2, <2>3, NextApart DEF Apart
  <2> QED BY <2>3, <2>4 DEF Apart
<1>4. k \in U
  <2>1. ASSUME NEW m \in Nat, m \in U PROVE m + 1 \in U
    <3> HIDE DEF none, Right
    <3>1. m + 1 <= k => Right(g[m + 1]) BY <1>3, <2>1
    <3> QED BY <3>1
  <2> HIDE DEF U
  <2> QED BY <1>2, <2>1, Induction
<1> QED BY <1>1, <1>4

\* The arguments are declared while the builder is in the argument's scope:
\* as no two have one name, no temporary is made there.
DistinctArgs == \A i, j \in 1..Len(Args) : Args[i] = Args[j] => i = j

LEMMA ArgumentsApart ==
  ASSUME DistinctArgs, NEW P, BuilderOK(P), P.scopes # << >>, START_BLOCK \in BlocksOf(P),
         DeclsApart(P), \A name : Named(P, P.scopes[Len(P.scopes)], name) = {}
  PROVE  LET D == declare_bindings(P, START_BLOCK, Args)
         IN DeclsApart(D.b) /\ Away(D.scope) /\ (Args # << >> => D.scope # None)
<1>0. Args \in Seq(AllNames) /\ Len(Args) \in Nat /\ Unwritten(Args) BY ArgumentsWritten
<1>6. PICK g : /\ Turns(g, P, START_BLOCK, Args)
               /\ declare_bindings(P, START_BLOCK, Args) = g[Len(Args)]
  BY <1>0, BindingsFrom
<1> DEFINE none == [b |-> P, scope |-> None, locals |-> << >>]
           k == Len(Args)
<1>1. /\ g[0] = none
      /\ \A i \in 1..k : g[i] = DeclareNext(g[i - 1], START_BLOCK, Args[i])
      /\ declare_bindings(P, START_BLOCK, Args) = g[k]
  BY <1>6 DEF Turns
<1> DEFINE Right(D, m) == /\ Declares(P, D, m) /\ Adding(P, D, Args, m)
                          /\ DeclsApart(D.b) /\ Away(D.scope) /\ (m # 0 => D.scope # None)
           U == {m \in Nat : m <= k => Right(g[m], m)}
<1>2. 0 \in U
  <2>1. Declares(P, none, 0) /\ Adding(P, none, Args, 0) BY NothingAdded
  <2>2. none.b = P /\ none.scope = None OBVIOUS
  <2>3. Away(None) BY DEF Away, None, COROUTINE_ARGS_VISIBILITY_SCOPE
  <2> HIDE DEF none
  <2>4. Right(none, 0) BY <2>1, <2>2, <2>3
  <2> QED BY <1>1, <2>4
<1>3. ASSUME NEW m \in Nat, m \in U, m + 1 <= k PROVE Right(g[m + 1], m + 1)
  <2> DEFINE D == g[m]
             name == Args[m + 1]
             E == g[m + 1]
  <2>1. m + 1 \in 1..k /\ (m + 1) - 1 = m /\ m <= k BY <1>3
  <2>2. E = DeclareNext(D, START_BLOCK, name) BY <1>1, <2>1
  <2>3. Right(D, m) BY <1>3, <2>1
  <2>4. name \in AllNames /\ name # TempName BY <1>0, <2>1 DEF Unwritten
  <2>5. Declares(P, E, m + 1) BY <2>2, <2>3, <2>4, NextDeclared
  <2>6. Adding(P, E, Args, m + 1) BY <2>2, <2>3, <2>4, AddsBinding
  <2>7. find_local_in_current_scope(D.b, name) = None /\ D.b.scopes # << >>
    <3>1. Len(P.scopes) \in Nat /\ Len(P.scopes) >= 1 /\ P.scopes \in Seq(ScopeRecords) BY Counts
    <3>2. Len(D.b.scopes) = Len(P.scopes) BY <2>3 DEF Adding
    <3>3. D.b.scopes # << >> BY <3>1, <3>2
    <3>4. Given(D, Args, m, name) = {}
      <4>1. \A h \in 1..m : Args[h] # name BY <1>0, <2>1 DEF DistinctArgs
      <4> QED BY <4>1 DEF Given
    <3>5. Named(D.b, D.b.scopes[Len(P.scopes)], name) = {}
      <4>1. Len(P.scopes) \in 1..Len(P.scopes) BY <3>1
      <4> QED BY <2>3, <2>4, <3>4, <4>1 DEF Adding
    <3>6. Last(D.b.scopes) = D.b.scopes[Len(P.scopes)] BY <3>2 DEF Last
    <3> HIDE DEF D, name
    <3> QED BY <3>3, <3>5, <3>6 DEF find_local_in_current_scope
  <2>8. DeclsApart(E.b) /\ Away(E.scope) /\ E.scope # None
    <3> HIDE DEF D, name, E
    <3> QED BY <2>2, <2>3, <2>7, NextApart
  <2> QED BY <2>5, <2>6, <2>8
<1>4. k \in U
  <2>1. ASSUME NEW m \in Nat, m \in U PROVE m + 1 \in U
    <3> HIDE DEF none, Right
    <3>1. m + 1 <= k => Right(g[m + 1], m + 1) BY <1>3, <2>1
    <3> QED BY <3>1
  <2> HIDE DEF U
  <2> QED BY <1>0, <1>2, <2>1, Induction
<1>5. Args # << >> => k # 0 BY <1>0
<1> QED BY <1>0, <1>1, <1>4, <1>5


-----------------------------------------------------------------------------
(***************************************************************************)
(* The frames that bring the builder to a visibility scope bring it to     *)
(* another than the argument's.                                            *)
(***************************************************************************)
Outside(f) ==
  /\ f.do = "enter" => Away(f.scope)
  /\ f.do \in {"stmts", "close", "arms"} => Away(f.outer)
  /\ f.do = "arms" => \A i \in 1..Len(f.arms) : Away(f.arms[i].scope)
AllOutside(fs) == Frames(fs) /\ \A i \in 1..Len(fs) : Outside(fs[i])

LEMMA OutsidePlain == ASSUME NEW f, Plain(f) \/ f.do = "pop" \/ f.do = "epilogue" PROVE Outside(f)
BY DEF Plain, Outside

LEMMA OutsidePlains == ASSUME NEW F, PlainFrames(F) PROVE AllOutside(F)
BY OutsidePlain DEF PlainFrames, AllOutside

LEMMA OutsideNone == AllOutside(<< >>)
BY PlainNone, OutsidePlains

LEMMA OutsideOne == ASSUME NEW a, Outside(a) PROVE AllOutside(<<a>>)
<1> DEFINE F == <<a>>
<1>1. F \in Seq({a}) OBVIOUS
<1>2. Frames(F) BY <1>1 DEF Frames
<1>3. Len(F) = 1 /\ F[1] = a OBVIOUS
<1> HIDE DEF F
<1>4. \A i \in 1..Len(F) : i = 1 BY <1>3
<1>5. AllOutside(F) BY <1>2, <1>3, <1>4 DEF AllOutside
<1> QED BY <1>5 DEF F

LEMMA OutsideJoin ==
  ASSUME NEW F, NEW G, AllOutside(F), AllOutside(G) PROVE AllOutside(F \o G)
<1>1. PICK S : F \in Seq(S) BY DEF AllOutside, Frames
<1>2. PICK T : G \in Seq(T) BY DEF AllOutside, Frames
<1> DEFINE U == S \union T
<1>3. F \in Seq(U) /\ G \in Seq(U) BY <1>1, <1>2
<1> HIDE DEF U
<1>4. /\ F \o G \in Seq(U) /\ Len(F \o G) = Len(F) + Len(G) /\ Len(F) \in Nat /\ Len(G) \in Nat
      /\ \A i \in 1..(Len(F) + Len(G)) : (F \o G)[i] = IF i <= Len(F) THEN F[i] ELSE G[i - Len(F)]
  BY <1>3
<1>5. ASSUME NEW i \in 1..Len(F \o G) PROVE Outside((F \o G)[i])
  <2>1. i \in 1..(Len(F) + Len(G)) BY <1>4
  <2>2. CASE i <= Len(F)
    <3>1. i \in 1..Len(F) BY <1>4, <2>1, <2>2
    <3> QED BY <1>4, <2>1, <2>2, <3>1 DEF AllOutside
  <2>3. CASE ~(i <= Len(F))
    <3>1. i - Len(F) \in 1..Len(G) BY <1>4, <2>1, <2>3
    <3> QED BY <1>4, <2>1, <2>3, <3>1 DEF AllOutside
  <2> QED BY <2>2, <2>3
<1> QED BY <1>4, <1>5 DEF AllOutside, Frames

LEMMA OutsideTwo == ASSUME NEW a, NEW b, Outside(a), Outside(b) PROVE AllOutside(<<a, b>>)
<1>1. AllOutside(<<a>>) /\ AllOutside(<<b>>) BY OutsideOne
<1>2. <<a>> \o <<b>> = <<a, b>> BY PairOf
<1> QED BY <1>1, <1>2, OutsideJoin

LEMMA OutsideThree ==
  ASSUME NEW a, NEW b, NEW c, Outside(a), Outside(b), Outside(c) PROVE AllOutside(<<a, b, c>>)
<1>1. AllOutside(<<a, b>>) /\ AllOutside(<<c>>) BY OutsideOne, OutsideTwo
<1>2. <<a, b, c>> = <<a, b>> \o <<c>> OBVIOUS
<1> QED BY <1>1, <1>2, OutsideJoin

LEMMA OutsideFour ==
  ASSUME NEW a, NEW b, NEW c, NEW d, Outside(a), Outside(b), Outside(c), Outside(d)
  PROVE  AllOutside(<<a, b, c, d>>)
<1>1. AllOutside(<<a>>) /\ AllOutside(<<b, c, d>>) BY OutsideOne, OutsideThree
<1>2. <<a, b, c, d>> = <<a>> \o <<b, c, d>> OBVIOUS
<1> QED BY <1>1, <1>2, OutsideJoin

LEMMA OutsideTail ==
  ASSUME NEW fs, AllOutside(fs), fs # << >> PROVE AllOutside(Tail(fs)) /\ Outside(Head(fs))
<1>1. PICK S : fs \in Seq(S) BY DEF AllOutside, Frames
<1>2. /\ Tail(fs) \in Seq(S) /\ Len(fs) \in Nat /\ Len(fs) >= 1 /\ Len(Tail(fs)) = Len(fs) - 1
      /\ \A i \in 1..(Len(fs) - 1) : Tail(fs)[i] = fs[i + 1]
      /\ Head(fs) = fs[1]
  BY <1>1
<1>3. \A i \in 1..(Len(fs) - 1) : i + 1 \in 1..Len(fs) BY <1>2
<1>4. 1 \in 1..Len(fs) BY <1>2
<1> QED BY <1>2, <1>3, <1>4 DEF AllOutside, Frames

LEMMA OutsideThen ==
  ASSUME AllOutside(todo), todo # << >>, NEW F, AllOutside(F), Then(F) PROVE AllOutside(todo')
BY OutsideTail, OutsideJoin DEF Then

-----------------------------------------------------------------------------
(***************************************************************************)
(* The steps.                                                              *)
(***************************************************************************)
AInv == Apart(builder) /\ AllOutside(todo)

LEMMA EnterDecls ==
  ASSUME NEW B, Apart(B)
  PROVE  /\ Apart(enter_scope(B)) /\ SameDecls(B, enter_scope(B))
         /\ enter_scope(B).visibility_scope = B.visibility_scope
<1>1. SameDecls(B, enter_scope(B)) /\ enter_scope(B).visibility_scope = B.visibility_scope
  BY DEF Apart, DeclsApart, SameDecls, Shaped, BuilderFieldNames, enter_scope, push_scope,
         start_new_extent
<1> QED BY <1>1, SameDeclsApart DEF Apart

LEMMA PopDecls ==
  ASSUME NEW B, DeclsApart(B), NEW b, NEW extent
  PROVE  /\ DeclsApart(pop_scope(B, b, extent))
         /\ pop_scope(B, b, extent).visibility_scope = B.visibility_scope
<1> DEFINE scope == Last(B.scopes)
           rest == Front(B.scopes)
           S == build_scope_drops(B, b, scope.drops, scope)
           p == /\ S.asserts /\ scope.extent = extent
                /\ \A l \in scope.drops : ~ScheduledIn(rest, l)
           Q == pop_scope(B, b, extent)
<1>1. SameNames(B, S) BY PushAllSame DEF build_scope_drops, DeclsApart
<1>2. Q = [S EXCEPT !.scopes = rest, !.asserts = p] BY DEF pop_scope
<1> HIDE DEF S, p, rest, Q
<1>3. SameDecls(B, Q) /\ Q.visibility_scope = B.visibility_scope
  BY <1>1, <1>2 DEF SameNames, SameDecls, Shaped, BuilderFieldNames
<1>4. DeclsApart(Q) BY <1>3, SameDeclsApart
<1> QED BY <1>3, <1>4 DEF Q

LEMMA VisibilityApart ==
  ASSUME NEW B, DeclsApart(B), NEW x, Away(x) PROVE Apart([B EXCEPT !.visibility_scope = x])
<1> DEFINE V == [B EXCEPT !.visibility_scope = x]
<1>1. SameDecls(B, V) /\ V.visibility_scope = x
  BY DEF DeclsApart, SameDecls, Shaped, BuilderFieldNames
<1> HIDE DEF V
<1>2. Apart(V) BY <1>1, SameDeclsApart DEF Apart
<1> QED BY <1>2 DEF V

LEMMA PlainlyApart == ASSUME AInv, Plainly PROVE AInv'
<1>1. PICK F : PlainFrames(F) /\ Then(F) BY DEF Plainly
<1>2. AllOutside(todo') BY <1>1, OutsidePlains, OutsideThen DEF AInv, Plainly
<1>3. Apart(builder') BY SameApart, TempApart DEF AInv, Plainly
<1> QED BY <1>2, <1>3 DEF AInv

LEMMA OpenBlockApart == ASSUME AInv, OpenBlock PROVE AInv'
<1> DEFINE f == [do |-> "stmts", dest |-> Top.dest, extent |-> builder'.extents, lets |-> << >>,
                 outer |-> builder.visibility_scope, env |-> env]
<1>1. todo # << >> /\ builder' = enter_scope(builder) /\ Then(<<f>>) BY DEF OpenBlock, At
<1>2. f.do = "stmts" /\ f.outer = builder.visibility_scope OBVIOUS
<1> HIDE DEF f
<1>3. AllOutside(<<f>>) BY <1>2, OutsideOne DEF Outside, AInv, Apart
<1> QED BY <1>1, <1>3, EnterDecls, OutsideThen DEF AInv

LEMMA ExprStmtApart == ASSUME AInv, ExprStmt PROVE AInv'
<1> DEFINE p == Pop(builder'.extents)
<1>1. todo # << >> /\ builder' = enter_scope(builder) /\ Then(<<Stmt, p, Top>>) BY DEF ExprStmt, At
<1>2. Outside(Stmt) BY OutsidePlain DEF Stmt, Plain
<1>3. Outside(p) BY OutsidePlain DEF Pop
<1>4. Outside(Top) BY <1>1, OutsideTail DEF AInv, Top
<1> HIDE DEF p
<1>5. AllOutside(<<Stmt, p, Top>>) BY <1>2, <1>3, <1>4, OutsideThree
<1> QED BY <1>1, <1>5, EnterDecls, OutsideThen DEF AInv

LEMMA PushApart == ASSUME NEW B, Apart(B), NEW b, NEW s PROVE Apart(push(B, b, s))
BY PushSame, SameApart DEF Apart, DeclsApart

LEMMA MacStmtApart == ASSUME AInv, MacStmt PROVE AInv'
<1> DEFINE S == enter_scope(builder)
           T == push(temp(S, block), block, MacroStmt)
           U == push_assign_unit(T, block, NextLocal(S))
<1>1. todo' = todo /\ builder' = pop_scope(U, block, S.extents) BY DEF MacStmt
<1>2. Apart(S) BY EnterDecls DEF AInv
<1> HIDE DEF S
<1>3. Apart(T) BY <1>2, TempApart, PushApart
<1> HIDE DEF T
<1>4. Apart(U) BY <1>3, PushApart DEF push_assign_unit
<1> HIDE DEF U
<1>5. Apart(builder') BY <1>1, <1>4, PopDecls DEF Apart
<1> QED BY <1>1, <1>5 DEF AInv

LEMMA PopScopeApart == ASSUME AInv, PopScope PROVE AInv'
<1>1. todo # << >> /\ builder' = pop_scope(builder, block, Top.extent) /\ Then(<< >>)
  BY DEF PopScope, At
<1>2. Apart(builder') BY <1>1, PopDecls DEF AInv, Apart
<1> QED BY <1>1, <1>2, OutsideNone, OutsideThen DEF AInv

LEMMA LiveApart ==
  ASSUME NEW B, Apart(B), NEW b, NEW locals PROVE Apart(storage_live(B, b, locals))
BY PushAllSame, SameApart DEF Apart, DeclsApart, storage_live

LEMMA LetStmtApart ==
  ASSUME NEW v, Now(v), AInv, NEW names \in LetPatterns, LetStmt(names) PROVE AInv'
<1> DEFINE R == enter_scope(builder)
           D == declare_bindings(R, block, names)
           S == enter_scope(D.b)
           enter == [do |-> "enter", scope |-> D.scope, names |-> names, locals |-> D.locals]
           rest == [Top EXCEPT !.lets = Append(@, R.extents)]
           into == Into(D.locals[1], {})
           pop == Pop(S.extents)
           lvalue == [do |-> "lvalue"]
           pat == [do |-> "let_pat", locals |-> D.locals]
<1>1. /\ At({"stmts", "close"}) /\ todo # << >> /\ Top.do = "stmts"
      /\ \/ builder' = storage_live(S, block, D.locals) /\ Then(<<into, pop, enter, rest>>)
         \/ builder' = S /\ Then(<<lvalue, pat, pop, enter, rest>>)
         \/ builder' = storage_live(D.b, block, D.locals) /\ Then(<<enter, rest>>)
  BY DEF LetStmt, At
<1>2. Len(names) \in Nat
  <2>1. names \in Seq(AllNames) BY PatternNames
  <2> QED BY <2>1
<1>3. Apart(R) BY EnterDecls DEF AInv
<1>4. StmtsFrame(Top, v, builder) BY <1>1, InStmts
<1>5. Outside(Top) BY <1>1, OutsideTail DEF AInv, Top
<1>6. Outside(rest)
  <2>1. rest.do = "stmts" /\ rest.outer = Top.outer BY <1>1, <1>4 DEF StmtsFrame
  <2> HIDE DEF rest
  <2> QED BY <1>1, <1>5, <2>1 DEF Outside
<1>7. enter.do = "enter" /\ enter.scope = D.scope OBVIOUS
<1>8. Outside(into) /\ Outside(lvalue) /\ Outside(pat) BY OutsidePlain DEF Plain, Into
<1>9. Outside(pop) BY OutsidePlain DEF Pop
<1> HIDE DEF R, enter, rest, into, pop, lvalue, pat
<1>10. Apart(D.b) /\ Away(D.scope) BY <1>2, <1>3, BindingsApart
<1>11. Outside(enter) BY <1>7, <1>10 DEF Outside
<1> HIDE DEF D
<1>12. Apart(S) BY <1>10, EnterDecls
<1> HIDE DEF S
<1>13. Apart(builder') BY <1>1, <1>10, <1>12, LiveApart
<1>14. AllOutside(<<enter, rest>>) BY <1>6, <1>11, OutsideTwo
<1>15. AllOutside(<<into, pop, enter, rest>>) BY <1>6, <1>8, <1>9, <1>11, OutsideFour
<1>16. AllOutside(<<lvalue, pat, pop, enter, rest>>)
  <2>1. AllOutside(<<pat, pop, enter, rest>>) /\ AllOutside(<<lvalue>>)
    BY <1>6, <1>8, <1>9, <1>11, OutsideOne, OutsideFour
  <2>2. <<lvalue, pat, pop, enter, rest>> = <<lvalue>> \o <<pat, pop, enter, rest>> OBVIOUS
  <2> QED BY <2>1, <2>2, OutsideJoin
<1>17. AllOutside(todo') BY <1>1, <1>14, <1>15, <1>16, OutsideThen DEF AInv
<1> QED BY <1>13, <1>17 DEF AInv

LEMMA EnterVisibilityApart == ASSUME AInv, EnterVisibility PROVE AInv'
<1>1. /\ todo # << >> /\ Top.do = "enter" /\ Then(<< >>)
      /\ builder' = IF Top.scope = None THEN builder
                    ELSE [builder EXCEPT !.visibility_scope = Top.scope]
  BY DEF EnterVisibility, At
<1>2. Away(Top.scope) BY <1>1, OutsideTail DEF AInv, Top, Outside
<1> DEFINE x == Top.scope
<1>3. Away(x) BY <1>2
<1>4. builder' = builder \/ builder' = [builder EXCEPT !.visibility_scope = x] BY <1>1
<1> HIDE DEF x
<1>5. Apart(builder') BY <1>3, <1>4, VisibilityApart DEF AInv, Apart
<1> QED BY <1>1, <1>5, OutsideNone, OutsideThen DEF AInv

LEMMA FinishBlockApart == ASSUME NEW v, Now(v), AInv, FinishBlock PROVE AInv'
<1> DEFINE f == [Top EXCEPT !.do = "close"]
           a == Into(Top.dest, {})
           P == push_assign_unit(builder, block, Top.dest)
<1>1. /\ todo # << >> /\ Top.do = "stmts" /\ At({"stmts", "close"})
      /\ \/ builder' = builder /\ Then(<<a>> \o <<f>>)
         \/ builder' = P /\ Then(<<f>>)
  BY DEF FinishBlock, At
<1>2. StmtsFrame(Top, v, builder) BY <1>1, InStmts
<1>3. f.do = "close" /\ f.outer = Top.outer BY <1>2 DEF StmtsFrame
<1>4. Outside(Top) BY <1>1, OutsideTail DEF AInv, Top
<1> HIDE DEF f
<1>5. Outside(f) BY <1>1, <1>3, <1>4 DEF Outside
<1>6. Outside(a) BY OutsidePlain DEF Plain, Into
<1> HIDE DEF a
<1>7. AllOutside(<<f>>) /\ AllOutside(<<a>> \o <<f>>) BY <1>5, <1>6, OutsideOne, OutsideJoin
<1>8. Apart(P) BY PushApart DEF AInv, push_assign_unit
<1> HIDE DEF P
<1> QED BY <1>1, <1>7, <1>8, OutsideThen DEF AInv

LEMMA CloseBlockApart == ASSUME NEW v, Now(v), AInv, CloseBlock PROVE AInv'
<1>1. todo # << >> /\ Top.do = "close" /\ At({"stmts", "close"}) /\ Then(<< >>)
  BY DEF CloseBlock, At
<1>2. StmtsFrame(Top, v, builder) /\ Common(v) BY <1>1, InStmts
<1>3. PICK P : /\ Pops(builder, P, Len(Top.lets))
               /\ builder' = pop_scope([P EXCEPT !.visibility_scope = Top.outer], block, Top.extent)
  BY <1>2, LetsPop
<1>4. DeclsApart(P) BY <1>3, SameDeclsApart DEF Pops, AInv, Apart
<1>5. Away(Top.outer) BY <1>1, OutsideTail DEF AInv, Top, Outside
<1> DEFINE x == Top.outer
           V == [P EXCEPT !.visibility_scope = x]
<1>6. Away(x) BY <1>5
<1> HIDE DEF x
<1>7. Apart(V) BY <1>4, <1>6, VisibilityApart
<1>8. builder' = pop_scope(V, block, Top.extent) BY <1>3 DEF x
<1> HIDE DEF V
<1>9. Apart(builder') BY <1>7, <1>8, PopDecls DEF Apart
<1> QED BY <1>1, <1>9, OutsideNone, OutsideThen DEF AInv


ArmsAway(s) == Frames(s) /\ \A i \in 1..Len(s) : Away(s[i].scope)

LEMMA ArmApart ==
  ASSUME NEW A, Apart(A.b), ArmsAway(A.arms), NEW target, NEW names, Len(names) \in Nat,
         NEW E, E = BindArm(A, target, names)
  PROVE  Apart(E.b) /\ ArmsAway(E.arms)
<1> DEFINE d == declare_bindings(A.b, block, names)
           s == IF d.scope = None THEN d.b.visibility_scope ELSE d.scope
           x == [block |-> target, scope |-> s, names |-> names, locals |-> d.locals]
<1>1. E.b = d.b /\ E.arms = Append(A.arms, x) /\ x.scope = s BY DEF BindArm
<1>2. Apart(d.b) /\ Away(d.scope) BY BindingsApart
<1> HIDE DEF d, x
<1>3. Away(s) BY <1>2 DEF Apart
<1> HIDE DEF s
<1>4. /\ Frames(E.arms) /\ Len(E.arms) = Len(A.arms) + 1 /\ Len(A.arms) \in Nat
      /\ \A i \in 1..Len(A.arms) : E.arms[i] = A.arms[i]
      /\ E.arms[Len(A.arms) + 1] = x
  BY <1>1, SeqAppend DEF ArmsAway
<1>5. ASSUME NEW i \in 1..Len(E.arms) PROVE Away(E.arms[i].scope)
  <2>1. CASE i = Len(A.arms) + 1 BY <1>1, <1>3, <1>4, <2>1
  <2>2. CASE i # Len(A.arms) + 1
    <3>1. i \in 1..Len(A.arms) BY <1>4, <2>2
    <3> QED BY <1>4, <3>1 DEF ArmsAway
  <2> QED BY <2>1, <2>2
<1> QED BY <1>1, <1>2, <1>4, <1>5 DEF ArmsAway

LEMMA BlockApart == ASSUME NEW B, Apart(B), NEW h PROVE Apart(start_new_block(B, h))
BY BlockSame, SameApart DEF Apart, DeclsApart

LEMMA TerminateApart == ASSUME NEW B, Apart(B), NEW b, NEW t PROVE Apart(terminate(B, b, t))
BY TerminateSame, SameApart DEF Apart, DeclsApart

LEMMA MatchArmsApart ==
  ASSUME AInv, NEW pats \in ArmPatterns \X ArmPatterns, MatchArms(pats) PROVE AInv'
<1> DEFINE first == NextBlock(builder)
           B == start_new_block(start_new_block(builder, Open(builder)), Open(builder))
           N == [b |-> B, arms |-> << >>]
           E == BindArm(N, first, pats[1])
           D == BindArm(E, first + 1, pats[2])
           S == start_new_block(D.b, Open(D.b))
           t == [op |-> "Match", succ |-> <<first, first + 1>>,
                 binds |-> <<ToSet(D.arms[1].locals), ToSet(D.arms[2].locals)>>,
                 moved |-> Last(operands).moved, read |-> Last(operands).read]
           f == [do |-> "arms", dest |-> Top.dest, arms |-> D.arms, end |-> first + 2,
                 outer |-> builder.visibility_scope, env |-> env]
<1>1. todo # << >> /\ builder' = terminate(S, block, t) /\ Then(<<f>>) BY DEF MatchArms, At
<1>2. f.do = "arms" /\ f.outer = builder.visibility_scope /\ f.arms = D.arms OBVIOUS
<1> HIDE DEF t, f
<1>3. Len(pats[1]) \in Nat /\ Len(pats[2]) \in Nat
  <2>1. pats[1] \in ArmPatterns /\ pats[2] \in ArmPatterns OBVIOUS
  <2>2. \A p \in ArmPatterns : Len(p) \in Nat
    <3> SUFFICES ASSUME NEW p \in ArmPatterns PROVE Len(p) \in Nat OBVIOUS
    <3>1. CASE p = << >> BY <3>1
    <3>2. CASE \E n \in ArmNames : p = <<n>>
      <4>1. PICK n \in ArmNames : p = <<n>> BY <3>2
      <4> QED BY <4>1
    <3> QED BY <3>1, <3>2 DEF ArmPatterns
  <2> QED BY <2>1, <2>2
<1>4. Apart(N.b) /\ ArmsAway(N.arms)
  <2>1. Apart(B) BY BlockApart DEF AInv
  <2>2. N.b = B /\ N.arms = << >> OBVIOUS
  <2> HIDE DEF B, N
  <2>3. Frames(<< >>) BY OutsideNone DEF AllOutside
  <2>4. Len(<< >>) = 0 OBVIOUS
  <2>5. ArmsAway(<< >>) BY <2>3, <2>4 DEF ArmsAway
  <2> QED BY <2>1, <2>2, <2>5
<1> HIDE DEF N, first
<1>5. Apart(E.b) /\ ArmsAway(E.arms) BY <1>3, <1>4, ArmApart
<1> HIDE DEF E
<1>6. Apart(D.b) /\ ArmsAway(D.arms) BY <1>3, <1>5, ArmApart
<1> HIDE DEF D
<1>7. Apart(S) BY <1>6, BlockApart
<1> HIDE DEF S
<1>8. Apart(builder') BY <1>1, <1>7, TerminateApart
<1>9. Outside(f) BY <1>2, <1>6 DEF Outside, ArmsAway, AInv, Apart
<1>10. AllOutside(<<f>>) BY <1>9, OutsideOne
<1> QED BY <1>1, <1>8, <1>10, OutsideThen DEF AInv

LEMMA NextArmApart == ASSUME NEW v, Now(v), AInv, NextArm PROVE AInv'
<1> DEFINE arm == Head(Top.arms)
           a == Into(Top.dest, {})
           e == [do |-> "arm_end", end |-> Top.end]
           r == [Top EXCEPT !.arms = Tail(@)]
           x == arm.scope
           R == Tail(Top.arms)
<1>1. /\ todo # << >> /\ Top.do = "arms" /\ At({"arms"}) /\ Top.arms # << >>
      /\ builder' = [builder EXCEPT !.visibility_scope = x] /\ Then(<<a, e, r>>)
  BY DEF NextArm, At
<1>2. ArmsFrame(Top, builder) BY <1>1, AtArms
<1>3. PICK S : Top.arms \in Seq(S) BY <1>2 DEF ArmsFrame
<1>4. /\ arm = Top.arms[1] /\ 1 \in 1..Len(Top.arms)
      /\ \A i \in 1..Len(R) : R[i] = Top.arms[i + 1] /\ i + 1 \in 1..Len(Top.arms)
  <2> DEFINE s == Top.arms
  <2>1. s \in Seq(S) /\ s # << >> BY <1>1, <1>3
  <2> HIDE DEF s
  <2>2. Head(s) = s[1] /\ Len(s) \in Nat /\ Len(s) >= 1 BY <2>1
  <2>3. Len(Tail(s)) = Len(s) - 1 /\ \A i \in 1..(Len(s) - 1) : Tail(s)[i] = s[i + 1] BY <2>1
  <2> QED BY <2>2, <2>3 DEF s
<1>5. r.do = "arms" /\ r.outer = Top.outer /\ r.arms = R BY <1>1, <1>2 DEF ArmsFrame
<1>6. Outside(a) /\ Outside(e) BY OutsidePlain DEF Plain, Into
<1>7. Outside(Top) BY <1>1, OutsideTail DEF AInv, Top
<1> HIDE DEF a, e, r, R, arm
<1>8. Away(x) BY <1>1, <1>4, <1>7 DEF Outside
<1>9. Outside(r) BY <1>1, <1>4, <1>5, <1>7 DEF Outside
<1> HIDE DEF x
<1>10. Apart(builder') BY <1>1, <1>8, VisibilityApart DEF AInv, Apart
<1>11. AllOutside(<<a, e, r>>) BY <1>6, <1>9, OutsideThree
<1> QED BY <1>1, <1>10, <1>11, OutsideThen DEF AInv

LEMMA MatchEndApart == ASSUME AInv, MatchEnd PROVE AInv'
<1> DEFINE x == Top.outer
<1>1. /\ todo # << >> /\ Top.do = "arms" /\ Then(<< >>)
      /\ builder' = [builder EXCEPT !.visibility_scope = x]
  BY DEF MatchEnd, At
<1>2. Away(x) BY <1>1, OutsideTail DEF AInv, Top, Outside
<1> HIDE DEF x
<1>3. Apart(builder') BY <1>1, <1>2, VisibilityApart DEF AInv, Apart
<1> QED BY <1>1, <1>3, OutsideNone, OutsideThen DEF AInv

LEMMA EpilogueApart == ASSUME AInv, Epilogue PROVE AInv'
<1> DEFINE P == pop_scope(builder, block, PARAMETERS)
           R == return_block(P)
           end == R.cached_return_block
           G == terminate(R, block, Jump("Goto", <<end>>, NoOperand))
           T == terminate(G, end, Jump("Return", << >>, NoOperand))
           C == pop_scope(T, end, CALL_SITE)
           p == C.asserts /\ \A b \in 1..Len(C.basic_blocks) : C.basic_blocks[b].term # Unterminated
<1>1. todo # << >> /\ Then(<< >>) /\ builder' = [C EXCEPT !.asserts = p] BY DEF Epilogue, At
<1>2. Apart(P) BY PopDecls DEF AInv, Apart
<1> HIDE DEF P
<1>3. Apart(R) BY <1>2, ReturnSame, SameApart DEF Apart, DeclsApart
<1> HIDE DEF R, end
<1>4. Apart(T) BY <1>3, TerminateApart
<1> HIDE DEF T
<1>5. Apart(C) BY <1>4, PopDecls DEF Apart
<1> HIDE DEF C, p
<1>6. Apart(builder') BY <1>1, <1>5, AssertsSame, SameApart DEF Apart, DeclsApart
<1> QED BY <1>1, <1>6, OutsideNone, OutsideThen DEF AInv

LEMMA NextKeepsApart == ASSUME NEW v, Now(v), Good, AInv, Next PROVE AInv'
<1>0. todo # << >> => builder.scopes # << >> BY TopFrame DEF Now
<1>1. ASSUME Plainly PROVE AInv' BY <1>1, PlainlyApart
<1>2. ASSUME OpenBlock PROVE AInv' BY <1>2, OpenBlockApart
<1>3. ASSUME ExprStmt PROVE AInv' BY <1>3, ExprStmtApart
<1>4. ASSUME MacStmt PROVE AInv' BY <1>4, MacStmtApart
<1>5. ASSUME PopScope PROVE AInv' BY <1>5, PopScopeApart
<1>6. ASSUME NEW names \in LetPatterns, LetStmt(names) PROVE AInv' BY <1>6, LetStmtApart
<1>7. ASSUME EnterVisibility PROVE AInv' BY <1>7, EnterVisibilityApart
<1>8. ASSUME FinishBlock PROVE AInv' BY <1>8, FinishBlockApart
<1>9. ASSUME CloseBlock PROVE AInv' BY <1>9, CloseBlockApart
<1>10. ASSUME NEW pats \in ArmPatterns \X ArmPatterns, MatchArms(pats) PROVE AInv'
  BY <1>10, MatchArmsApart
<1>11. ASSUME NextArm PROVE AInv' BY <1>11, NextArmApart
<1>12. ASSUME MatchEnd PROVE AInv' BY <1>12, MatchEndApart
<1>13. ASSUME Epilogue PROVE AInv' BY <1>13, EpilogueApart
<1>14. ASSUME Done PROVE AInv'
  <2>1. builder' = builder /\ todo' = todo BY <1>14 DEF Done, vars
  <2> QED BY <2>1 DEF AInv
<1> QED
  BY <1>0, <1>1, <1>2, <1>3, <1>4, <1>5, <1>6, <1>7, <1>8, <1>9, <1>10, <1>11, <1>12, <1>13,
     <1>14, NextPlain DEF Scoping

\* The inputs are declared, and the builder brought to their scope.
LEMMA InitApart == ASSUME DistinctArgs, Args # << >>, Init PROVE AInv
<1> DEFINE P == push_scope(push_scope(NewBuilder, CALL_SITE), PARAMETERS)
           D == declare_bindings(P, START_BLOCK, Args)
           x == D.scope
           a == InnerBlock(RETURN_POINTER)
           e == [do |-> "epilogue"]
<1>1. /\ builder = IF D.scope = None THEN D.b ELSE [D.b EXCEPT !.visibility_scope = x]
      /\ todo = <<a, e>>
  BY DEF Init
<1>2. /\ BuilderOK(P) /\ P.scopes # << >> /\ START_BLOCK \in BlocksOf(P) /\ Len(P.scopes) = 2
      /\ \A name : Named(P, P.scopes[2], name) = {}
  BY OuterScopes
<1>3. DeclsApart(P)
  <2> DEFINE r == [name |-> "return_pointer", scope |-> 2, extent |-> CALL_SITE]
             c == [name |-> "coroutine_args", scope |-> 3, extent |-> CALL_SITE]
             L == <<r, c>>
             V == <<None, 1, 2>>
  <2>1. P.local_decls = L /\ P.visibility_scopes = V
    BY DEF NewBuilder, push_scope
  <2>2. L \in Seq({r, c}) /\ Len(L) = 2 /\ L[1] = r /\ r.scope = 2 OBVIOUS
  <2>3. V \in Seq({None, 1, 2}) /\ Len(V) = 3 OBVIOUS
  <2>4. Shaped(P) BY <1>2, Shape
  <2> HIDE DEF r, c, L, V, P
  <2>5. \A l \in 1..2 : l # 2 => l = 1 OBVIOUS
  <2>6. Away(2) BY DEF Away, COROUTINE_ARGS_VISIBILITY_SCOPE
  <2>7. \A l \in LocalsOf(P) : l # COROUTINE_ARGS => Away(P.local_decls[l].scope)
    BY <2>1, <2>2, <2>5, <2>6 DEF LocalsOf, COROUTINE_ARGS
  <2> QED BY <2>1, <2>2, <2>3, <2>4, <2>7 DEF DeclsApart, Frames, COROUTINE_ARGS_VISIBILITY_SCOPE
<1> HIDE DEF P
<1>4. DeclsApart(D.b) /\ Away(D.scope) /\ D.scope # None
  <2>1. \A name : Named(P, P.scopes[Len(P.scopes)], name) = {} BY <1>2
  <2> QED BY <1>2, <1>3, <2>1, ArgumentsApart
<1>5. Away(x) /\ builder = [D.b EXCEPT !.visibility_scope = x] BY <1>1, <1>4
<1> HIDE DEF D, x
<1>6. Apart(builder) BY <1>4, <1>5, VisibilityApart
<1>7. Outside(a) /\ Outside(e) BY OutsidePlain DEF Plain, InnerBlock
<1> HIDE DEF a, e
<1> QED BY <1>1, <1>6, <1>7, OutsideTwo DEF AInv


-----------------------------------------------------------------------------
(***************************************************************************)
(* What the analysis says of a body that is finished is about its locals,  *)
(* and the body does not change any more.                                  *)
(***************************************************************************)
Known ==
  assignments # << >> =>
    Finished /\ \A b \in BuiltBlocks : assignments[b].on_entry \subseteq LocalsOf(builder)

LEMMA AtWork == ASSUME Good, NEW v, Now(v), Next, Finished PROVE UNCHANGED vars
<1>1. todo = << >> BY DEF Finished
<1>2. ~Plainly BY <1>1 DEF Plainly
<1>3. Scoping BY <1>1, <1>2, NextPlain
<1>4. Done
  BY <1>1, <1>3 DEF Scoping, At, OpenBlock, ExprStmt, MacStmt, PopScope, LetStmt, EnterVisibility,
     FinishBlock, CloseBlock, MatchArms, NextArm, MatchEnd, Epilogue
<1> QED BY <1>4 DEF Done

LEMMA EntriesAreLocals ==
  ASSUME NEW b \in BuiltBlocks PROVE DefiniteAssignment[b].on_entry \subseteq LocalsOf(builder)
<1> DEFINE m == Body
<1>1. Locals(m) = LocalsOf(builder) /\ b \in Blocks(m)
  BY DEF Body, Locals, LocalsOf, Blocks, BuiltBlocks
<1>2. DefiniteAssignment[b].on_entry = SetOnEntry(m)[b] \union ArmBindings(m, b)
  BY DEF DefiniteAssignment
<1> HIDE DEF m
<1>3. SetOnEntry(m)[b] \subseteq Locals(m) BY <1>1 DEF SetOnEntry
<1>4. ArmBindings(m, b) \subseteq Locals(m) BY DEF ArmBindings
<1> QED BY <1>1, <1>2, <1>3, <1>4

LEMMA TranslateStep ==
  ASSUME IInv, IInv', AInv, Known, [TranslateNext]_translateVars PROVE AInv' /\ Known'
<1>1. BuilderOK(builder')
  <2>1. PICK w : StateOK(builder', block', todo', operands', yields', w) BY DEF IInv
  <2> QED BY <2>1 DEF StateOK
<1>2. Good BY <1>1, InvBuilder DEF Good
<1>3. PICK v : Now(v) BY InvBuilder
<1>4. ASSUME UNCHANGED vars PROVE AInv' /\ (assignments' = assignments => Known')
  <2>1. builder' = builder /\ todo' = todo BY <1>4 DEF vars
  <2> QED BY <2>1 DEF AInv, Known, Finished, BuiltBlocks
<1>5. CASE Next /\ UNCHANGED <<assignments, arms>>
  <2>1. AInv' BY <1>2, <1>3, <1>5, NextKeepsApart
  <2>2. CASE Finished
    <3>1. UNCHANGED vars BY <1>2, <1>3, <1>5, <2>2, AtWork
    <3> QED BY <1>4, <1>5, <3>1
  <2>3. CASE ~Finished
    <3>1. assignments' = << >> BY <1>5, <2>3 DEF Known
    <3> QED BY <2>1, <3>1 DEF Known
  <2> QED BY <2>2, <2>3
<1>6. CASE AnalyzeAssignments
  <2>1. Finished /\ assignments' = DefiniteAssignment /\ UNCHANGED vars
    BY <1>6 DEF AnalyzeAssignments
  <2>2. AInv' BY <1>4, <2>1
  <2>3. builder' = builder /\ todo' = todo BY <2>1 DEF vars
  <2>4. \A b \in BuiltBlocks : assignments'[b].on_entry \subseteq LocalsOf(builder)
    BY <2>1, EntriesAreLocals
  <2>5. Finished' /\ BuiltBlocks' = BuiltBlocks BY <2>1, <2>3 DEF Finished, BuiltBlocks
  <2> QED BY <2>2, <2>3, <2>4, <2>5 DEF Known
<1>7. CASE internal_state
  <2>1. UNCHANGED vars /\ assignments' = assignments BY <1>7 DEF internal_state
  <2> QED BY <1>4, <2>1
<1>8. CASE UNCHANGED translateVars
  <2>1. UNCHANGED vars /\ assignments' = assignments BY <1>8 DEF translateVars
  <2> QED BY <1>4, <2>1
<1> QED BY <1>5, <1>6, <1>7, <1>8 DEF TranslateNext

LEMMA TranslateLowers == TranslateSpec => Spec
<1>1. TranslateInit => Init BY DEF TranslateInit
<1>2. [TranslateNext]_translateVars => [Next]_vars
  BY DEF TranslateNext, AnalyzeAssignments, internal_state, translateVars
<1> QED BY <1>1, <1>2, PTL DEF TranslateSpec, Spec

LEMMA ResumedAreBlocks == ASSUME BuiltIsBody, Finished PROVE resume_blocks \subseteq BuiltBlocks
<1>1. IsBody(Body) BY DEF BuiltIsBody
<1>2. Blocks(Body) = BuiltBlocks /\ Len(Body.blocks) = Len(builder.basic_blocks)
  BY DEF Blocks, Body, BuiltBlocks
<1>3. START_BLOCK \in BuiltBlocks BY <1>1, <1>2 DEF IsBody, BuiltBlocks, START_BLOCK
<1>4. ASSUME NEW b \in BuiltBlocks, Term(Body, b).op = "Suspend"
      PROVE  Term(Body, b).succ[1] \in BuiltBlocks
  <2> DEFINE s == Term(Body, b).succ
  <2>1. IsTerminator(Term(Body, b), Body.nlocals, Len(Body.blocks)) BY <1>1, <1>2 DEF IsBody
  <2>2. s \in Seq(BuiltBlocks) /\ Len(s) = 1
    BY <1>2, <1>4, <2>1 DEF IsTerminator, BuiltBlocks
  <2> HIDE DEF s
  <2>3. s[1] \in BuiltBlocks BY <2>2
  <2> QED BY <2>3 DEF s
<1> QED BY <1>3, <1>4 DEF resume_blocks

\* In every function that takes an input, the local that is the argument of
\* the coroutine is alone in its scope: the tuple that resume_arm makes for
\* that scope leaves no other local of a resumed state out.  Rust has no two
\* inputs of one name.
THEOREM LiftedCorrect ==
  ASSUME DistinctArgs, Args # << >> PROVE TranslateSpec => []ArgumentsLifted
<1>1. TranslateInit => AInv /\ Known BY InitApart DEF TranslateInit, Known
<1>2. IInv /\ IInv' /\ AInv /\ Known /\ [TranslateNext]_translateVars => AInv' /\ Known'
  BY TranslateStep
<1>3. AInv /\ Known /\ BuiltIsBody => ArgumentsLifted
  <2> SUFFICES ASSUME AInv, Known, BuiltIsBody, assignments # << >>, NEW b \in resume_blocks,
                      NEW l \in assignments[b].on_entry, l # COROUTINE_ARGS
               PROVE  Decl(l).scope # COROUTINE_ARGS_VISIBILITY_SCOPE
    BY DEF ArgumentsLifted
  <2>1. b \in BuiltBlocks BY ResumedAreBlocks DEF Known
  <2>2. l \in LocalsOf(builder) BY <2>1 DEF Known
  <2> QED BY <2>2 DEF AInv, Apart, DeclsApart, Decl, Away
<1> QED BY <1>1, <1>2, <1>3, TranslateLowers, Inductive, BuiltCorrect, PTL DEF TranslateSpec
=============================================================================
