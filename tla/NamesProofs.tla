---------------------------- MODULE NamesProofs ----------------------------
(***************************************************************************)
(* Names.  In a program whose match arms bind nothing, whatever its size,  *)
(* every name means to the lowering what it means to Rust.                 *)
(***************************************************************************)
EXTENDS Translate, LoweringProofs

(***************************************************************************)
(* What the operations of Builder do to names and scopes.                  *)
(***************************************************************************)
BuilderFieldNames ==
  {"basic_blocks", "scopes", "extents", "visibility_scope", "visibility_scopes", "loop_scopes",
   "local_decls", "cached_return_block", "asserts"}
Shaped(B) == DOMAIN B = BuilderFieldNames

LEMMA Shape == ASSUME NEW B, BuilderOK(B) PROVE Shaped(B)
BY DEF BuilderOK, Builders, Shaped, BuilderFieldNames

\* Names, scopes and what is visible are as before.
SameNames(B, B2) ==
  /\ Shaped(B2)
  /\ B2.scopes = B.scopes /\ B2.local_decls = B.local_decls
  /\ B2.visibility_scope = B.visibility_scope /\ B2.visibility_scopes = B.visibility_scopes

LEMMA SameReflexive == ASSUME NEW B, Shaped(B) PROVE SameNames(B, B)
BY DEF SameNames

LEMMA SameTransitive ==
  ASSUME NEW A, NEW B, NEW C, SameNames(A, B), SameNames(B, C) PROVE SameNames(A, C)
BY DEF SameNames

LEMMA BlocksSame ==
  ASSUME NEW B, Shaped(B), NEW bs PROVE SameNames(B, [B EXCEPT !.basic_blocks = bs])
BY DEF SameNames, Shaped, BuilderFieldNames

LEMMA AssertsSame ==
  ASSUME NEW B, Shaped(B), NEW a PROVE SameNames(B, [B EXCEPT !.asserts = a])
BY DEF SameNames, Shaped, BuilderFieldNames

LEMMA LoopsSame ==
  ASSUME NEW B, Shaped(B), NEW a PROVE SameNames(B, [B EXCEPT !.loop_scopes = a])
BY DEF SameNames, Shaped, BuilderFieldNames

LEMMA BlockSame ==
  ASSUME NEW B, Shaped(B), NEW h PROVE SameNames(B, start_new_block(B, h))
BY DEF SameNames, Shaped, BuilderFieldNames, start_new_block

LEMMA PushAtSame ==
  ASSUME NEW B, Shaped(B), NEW b, NEW s, NEW scope PROVE SameNames(B, push_at(B, b, s, scope))
BY DEF SameNames, Shaped, BuilderFieldNames, push_at

LEMMA PushSame ==
  ASSUME NEW B, Shaped(B), NEW b, NEW s PROVE SameNames(B, push(B, b, s))
BY PushAtSame DEF push

LEMMA PushAllSame ==
  ASSUME NEW B, Shaped(B), NEW b, NEW s, NEW scope PROVE SameNames(B, push_all(B, b, s, scope))
BY DEF SameNames, Shaped, BuilderFieldNames, push_all

LEMMA TerminateSame ==
  ASSUME NEW B, Shaped(B), NEW b, NEW t PROVE SameNames(B, terminate(B, b, t))
BY DEF SameNames, Shaped, BuilderFieldNames, terminate

LEMMA ReturnSame ==
  ASSUME NEW B, Shaped(B) PROVE SameNames(B, return_block(B))
BY DEF SameNames, Shaped, BuilderFieldNames, return_block, start_new_block

(***************************************************************************)
(* What is there stays there.                                              *)
(***************************************************************************)
Longer(B, B2) ==
  /\ Len(B.local_decls) <= Len(B2.local_decls)
  /\ \A l \in LocalsOf(B) : B2.local_decls[l] = B.local_decls[l]
  /\ Len(B.visibility_scopes) <= Len(B2.visibility_scopes)
  /\ \A s \in ScopesOf(B) : B2.visibility_scopes[s] = B.visibility_scopes[s]

\* The first s scopes have the same variables.
SameVariables(B, B2, s) ==
  \A i \in 1..s : \A n : n # TempName => Named(B2, B2.scopes[i], n) = Named(B, B.scopes[i], n)

\* Temporaries may have been made, no more.
SameView(B, B2) ==
  /\ Longer(B, B2) /\ Len(B2.scopes) = Len(B.scopes)
  /\ B2.visibility_scope = B.visibility_scope
  /\ SameVariables(B, B2, Len(B.scopes))

LEMMA Counts ==
  ASSUME NEW B, BuilderOK(B)
  PROVE  /\ Len(B.local_decls) \in Nat /\ Len(B.visibility_scopes) \in Nat
         /\ Len(B.scopes) \in Nat /\ B.scopes \in Seq(ScopeRecords)
         /\ B.local_decls \in Seq(DeclRecords) /\ B.visibility_scopes \in Seq(Nat)
BY BuilderFields DEF BuilderOK

LEMMA LongerTransitive ==
  ASSUME NEW A, NEW B, NEW C, BuilderOK(A), BuilderOK(B), BuilderOK(C), Longer(A, B), Longer(B, C)
  PROVE  Longer(A, C)
<1>1. /\ Len(A.local_decls) \in Nat /\ Len(A.visibility_scopes) \in Nat
      /\ Len(B.local_decls) \in Nat /\ Len(B.visibility_scopes) \in Nat
      /\ Len(C.local_decls) \in Nat /\ Len(C.visibility_scopes) \in Nat
  BY Counts
<1>2. LocalsOf(A) \subseteq LocalsOf(B) /\ ScopesOf(A) \subseteq ScopesOf(B)
  BY <1>1 DEF Longer, LocalsOf, ScopesOf
<1> QED BY <1>1, <1>2 DEF Longer

LEMMA VariablesTransitive ==
  ASSUME NEW A, NEW B, NEW C, NEW D, NEW k,
         SameVariables(A, B, k), SameVariables(B, C, k), SameVariables(C, D, k)
  PROVE  SameVariables(A, D, k)
BY DEF SameVariables

LEMMA SameViews ==
  ASSUME NEW B, BuilderOK(B), NEW B2, SameNames(B, B2)
  PROVE  SameView(B, B2)
<1>1. Longer(B, B2) BY Counts DEF SameNames, Longer
<1>2. SameVariables(B, B2, Len(B.scopes)) BY DEF SameNames, SameVariables, Named
<1> QED BY <1>1, <1>2 DEF SameNames, SameView

LEMMA ViewTransitive ==
  ASSUME NEW A, NEW B, NEW C, BuilderOK(A), BuilderOK(B), BuilderOK(C),
         SameView(A, B), SameView(B, C)
  PROVE  SameView(A, C)
<1>1. Longer(A, C) BY LongerTransitive DEF SameView
<1>2. SameVariables(A, C, Len(A.scopes)) BY DEF SameView, SameVariables
<1> QED BY <1>1, <1>2 DEF SameView

(***************************************************************************)
(* Declaring a local.                                                      *)
(***************************************************************************)
\* L is the latest local of B2, with a name that some scope s of B now has.
Adds(B, B2, L, name, scope) ==
  /\ Longer(B, B2) /\ Len(B2.scopes) = Len(B.scopes)
  /\ B2.visibility_scope = B.visibility_scope /\ B2.visibility_scopes = B.visibility_scopes
  /\ L = Len(B2.local_decls) /\ Len(B.local_decls) < L
  /\ B2.local_decls[L].name = name /\ B2.local_decls[L].scope = scope
  /\ \A i \in 1..Len(B.scopes) : \A n : n # TempName =>
       Named(B2, B2.scopes[i], n) =
         IF i = Len(B.scopes) /\ n = name THEN Named(B, B.scopes[i], n) \union {L}
         ELSE Named(B, B.scopes[i], n)

LEMMA LocalAdded ==
  ASSUME NEW B, BuilderOK(B), B.scopes # << >>, NEW name, NEW scope,
         NEW E, Shaped(E), E.scopes = B.scopes,
         E.local_decls = Declare(B, name, scope).local_decls,
         E.visibility_scope = B.visibility_scope, E.visibility_scopes = B.visibility_scopes,
         NEW B2, B2 = schedule_drop(E, NextLocal(B))
  PROVE  Adds(B, B2, NextLocal(B), name, scope)
<1> DEFINE n == Len(B.local_decls)
           k == Len(B.scopes)
           decl == [name |-> name, scope |-> scope, extent |-> extent_of_innermost_scope(B)]
<1>1. /\ Shaped(B) /\ n \in Nat /\ k \in Nat /\ B.scopes \in Seq(ScopeRecords)
      /\ B.local_decls \in Seq(DeclRecords) /\ Len(B.visibility_scopes) \in Nat /\ k \in 1..k
  <2>1. Shaped(B) /\ n \in Nat /\ k \in Nat /\ B.scopes \in Seq(ScopeRecords)
        /\ B.local_decls \in Seq(DeclRecords) /\ Len(B.visibility_scopes) \in Nat
    BY Shape, Counts
  <2> QED BY <2>1
<1>2. E.local_decls = Append(B.local_decls, decl)
  BY <1>1 DEF Declare, Shaped, BuilderFieldNames
<1>3. /\ Len(E.local_decls) = n + 1 /\ E.local_decls[n + 1] = decl
      /\ \A l \in 1..n : E.local_decls[l] = B.local_decls[l]
  <2> HIDE DEF decl
  <2>1. B.local_decls \in Seq(DeclRecords \union {decl}) BY <1>1
  <2> QED BY <1>1, <1>2, <2>1
<1>4. NextLocal(B) = n + 1 BY DEF NextLocal
<1> DEFINE inner == [B.scopes[k] EXCEPT !.drops = @ \union {n + 1}]
<1>5. /\ B2.local_decls = E.local_decls /\ B2.scopes = [B.scopes EXCEPT ![k] = inner]
      /\ B2.visibility_scope = B.visibility_scope /\ B2.visibility_scopes = B.visibility_scopes
  BY <1>1, <1>4 DEF schedule_drop, Shaped, BuilderFieldNames
<1>6. Len(B2.scopes) = k /\ \A i \in 1..k : B2.scopes[i].drops =
        IF i = k THEN B.scopes[i].drops \union {n + 1} ELSE B.scopes[i].drops
  <2>1. B.scopes[k] \in ScopeRecords BY <1>1
  <2>2. inner.drops = B.scopes[k].drops \union {n + 1} BY <2>1 DEF ScopeRecords
  <2>3. n + 1 \in Nat BY <1>1
  <2>4. inner \in ScopeRecords
    <3> HIDE DEF n, k
    <3> QED BY <2>1, <2>3 DEF ScopeRecords
  <2> HIDE DEF inner
  <2> DEFINE ss == [B.scopes EXCEPT ![k] = inner]
  <2>5. Len(ss) = k /\ \A i \in 1..k : ss[i] = IF i = k THEN inner ELSE B.scopes[i]
    BY <1>1, <2>4, ExceptSeq
  <2>6. B2.scopes = ss BY <1>5
  <2> HIDE DEF ss
  <2> QED BY <2>2, <2>5, <2>6
<1>7. \A i \in 1..k : B.scopes[i].drops \subseteq 1..n
  BY DEF BuilderOK, Scheduled, LocalsOf
<1>8. Longer(B, B2) BY <1>1, <1>3, <1>5 DEF Longer, LocalsOf, ScopesOf
<1>9. ASSUME NEW i \in 1..k, NEW m
      PROVE  Named(B2, B2.scopes[i], m) =
               IF i = k /\ m = name THEN Named(B, B.scopes[i], m) \union {n + 1}
               ELSE Named(B, B.scopes[i], m)
  <2>1. decl.name = name OBVIOUS
  <2> HIDE DEF decl
  <2>2. \A l \in B.scopes[i].drops : B2.local_decls[l].name = B.local_decls[l].name
    BY <1>3, <1>5, <1>7
  <2>3. B2.local_decls[n + 1].name = name BY <1>3, <1>5, <2>1
  <2>4. CASE i = k
    <3>1. B2.scopes[i].drops = B.scopes[i].drops \union {n + 1} BY <1>6, <2>4
    <3> QED BY <2>2, <2>3, <2>4, <3>1 DEF Named
  <2>5. CASE i # k
    <3>1. B2.scopes[i].drops = B.scopes[i].drops BY <1>6, <2>5
    <3> QED BY <2>2, <2>5, <3>1 DEF Named
  <2> QED BY <2>4, <2>5
<1>10. B2.local_decls[n + 1].name = name /\ B2.local_decls[n + 1].scope = scope BY <1>3, <1>5
<1>11. n + 1 = Len(B2.local_decls) /\ n < n + 1 BY <1>1, <1>3, <1>5
<1> DEFINE L == NextLocal(B)
<1>12. \A i \in 1..Len(B.scopes) : \A m : m # TempName =>
         Named(B2, B2.scopes[i], m) =
           IF i = Len(B.scopes) /\ m = name THEN Named(B, B.scopes[i], m) \union {L}
           ELSE Named(B, B.scopes[i], m)
  BY <1>4, <1>9
<1> QED BY <1>4, <1>5, <1>6, <1>8, <1>10, <1>11, <1>12 DEF Adds

LEMMA TempAdds ==
  ASSUME NEW B, BuilderOK(B), B.scopes # << >>, NEW b
  PROVE  /\ Adds(B, temp(B, b), NextLocal(B), TempName, B.visibility_scope)
         /\ SameView(B, temp(B, b))
<1> DEFINE D == Declare(B, TempName, B.visibility_scope)
           E == push(D, b, StorageLive(NextLocal(B)))
<1>1. Shaped(B) BY Shape
<1>2. /\ Shaped(D) /\ D.scopes = B.scopes /\ D.visibility_scope = B.visibility_scope
      /\ D.visibility_scopes = B.visibility_scopes
  BY <1>1 DEF Declare, Shaped, BuilderFieldNames
<1>3. SameNames(D, E)
  <2> HIDE DEF D
  <2> QED BY <1>2, PushSame
<1>4. temp(B, b) = schedule_drop(E, NextLocal(B)) BY DEF temp
<1>5. Adds(B, temp(B, b), NextLocal(B), TempName, B.visibility_scope)
  <2> DEFINE sc == B.visibility_scope
             nm == TempName
  <2>1. /\ Shaped(E) /\ E.scopes = B.scopes /\ E.local_decls = Declare(B, nm, sc).local_decls
        /\ E.visibility_scope = B.visibility_scope /\ E.visibility_scopes = B.visibility_scopes
    BY <1>2, <1>3 DEF SameNames
  <2> HIDE DEF E, sc, nm
  <2>2. Adds(B, temp(B, b), NextLocal(B), nm, sc) BY <1>4, <2>1, LocalAdded
  <2> QED BY <2>2 DEF nm, sc
<1> QED BY <1>5 DEF Adds, SameView, SameVariables

LEMMA AddsAfter ==
  ASSUME NEW A, BuilderOK(A), NEW B, BuilderOK(B), SameView(A, B),
         B.visibility_scopes = A.visibility_scopes,
         NEW C, BuilderOK(C), NEW L, NEW name, NEW scope, Adds(B, C, L, name, scope)
  PROVE  Adds(A, C, L, name, scope)
<1>1. Longer(A, C) BY LongerTransitive DEF SameView, Adds
<1>2. /\ Len(A.local_decls) \in Nat /\ Len(B.local_decls) \in Nat /\ Len(C.local_decls) \in Nat
  BY Counts
<1>3. Len(A.local_decls) < L
  <2>1. Len(A.local_decls) <= Len(B.local_decls) BY DEF SameView, Longer
  <2>2. Len(B.local_decls) < L /\ L = Len(C.local_decls) BY DEF Adds
  <2> QED BY <1>2, <2>1, <2>2
<1>4. \A i \in 1..Len(A.scopes) : \A n : n # TempName =>
        Named(B, B.scopes[i], n) = Named(A, A.scopes[i], n)
  BY DEF SameView, SameVariables
<1>5. Len(B.scopes) = Len(A.scopes) /\ B.visibility_scope = A.visibility_scope BY DEF SameView
<1>6. \A i \in 1..Len(A.scopes) : \A n : n # TempName =>
        Named(C, C.scopes[i], n) =
          IF i = Len(A.scopes) /\ n = name THEN Named(A, A.scopes[i], n) \union {L}
          ELSE Named(A, A.scopes[i], n)
  <2>1. \A i \in 1..Len(A.scopes) : \A n : n # TempName =>
          Named(C, C.scopes[i], n) =
            IF i = Len(A.scopes) /\ n = name THEN Named(B, B.scopes[i], n) \union {L}
            ELSE Named(B, B.scopes[i], n)
    BY <1>5 DEF Adds
  <2> QED BY <1>4, <2>1
<1>7. /\ Len(C.scopes) = Len(A.scopes)
      /\ C.visibility_scope = A.visibility_scope /\ C.visibility_scopes = A.visibility_scopes
      /\ L = Len(C.local_decls)
      /\ C.local_decls[L].name = name /\ C.local_decls[L].scope = scope
  BY <1>5 DEF Adds
<1> QED BY <1>1, <1>3, <1>6, <1>7 DEF Adds

LEMMA BindingAdds ==
  ASSUME NEW B, BuilderOK(B), B.scopes # << >>, NEW b \in BlocksOf(B),
         NEW name \in AllNames, NEW scope \in Nat,
         NEW N, N = declare_binding(B, b, name, scope), BuilderOK(N)
  PROVE  Adds(B, N, Len(N.local_decls), name, scope)
<1> DEFINE shadowed == find_local_in_current_scope(B, name)
           T == temp(B, b)
           kept == IF shadowed = None THEN B
                   ELSE push_at(T, b, Write({NextLocal(B)}, {shadowed}, {}), scope)
           D == Declare(kept, name, scope)
<1>1. BuilderOK(kept) /\ SameView(B, kept) /\ kept.visibility_scopes = B.visibility_scopes
  <2>1. CASE shadowed = None
    <3>1. SameNames(B, B) BY Shape, SameReflexive
    <3> QED BY <2>1, <3>1, SameViews
  <2>2. CASE shadowed # None
    <3>1. Grows(B, T) /\ NextLocal(B) \in LocalsOf(T) /\ T.visibility_scopes = B.visibility_scopes
      BY TempGrows
    <3>2. BuilderOK(T) /\ b \in BlocksOf(T) BY <3>1, SameArms DEF Keeps, Grows
    <3>3. Len(T.local_decls) \in Nat /\ Len(B.local_decls) \in Nat BY <3>2, Counts
    <3>4. shadowed \in LocalsOf(T)
      <4>1. shadowed \in LocalsOf(B) BY <2>2, FoundInCurrent
      <4> QED BY <3>1, <3>3, <4>1 DEF Keeps, Grows, LocalsOf
    <3> DEFINE s == Write({NextLocal(B)}, {shadowed}, {})
               P == push_at(T, b, s, scope)
    <3>5. s \in AnyStatement /\ StmtFits(s, Len(T.local_decls))
      BY <3>1, <3>3, <3>4, StatementsFit DEF Write, StmtOps, LocalsOf
    <3>6. SameView(B, T) BY TempAdds
    <3>7. kept = P BY <2>2
    <3> HIDE DEF s, T, kept
    <3>8. Fills(T, P) /\ SameNames(T, P) BY <3>2, <3>5, PushAt, PushAtSame, Shape
    <3> HIDE DEF P
    <3>9. BuilderOK(P) /\ SameView(T, P) BY <3>2, <3>8, SameViews DEF Fills, Grows, Keeps
    <3>10. P.visibility_scopes = B.visibility_scopes BY <3>1, <3>8 DEF SameNames
    <3>11. SameView(B, P) BY <3>2, <3>6, <3>9, ViewTransitive
    <3> QED BY <3>7, <3>9, <3>10, <3>11
  <2> QED BY <2>1, <2>2
<1>2. N = schedule_drop(D, NextLocal(kept)) BY DEF declare_binding
<1> HIDE DEF kept
<1>3. Shaped(kept) /\ kept.scopes # << >>
  <2>1. B.scopes \in Seq(ScopeRecords) /\ kept.scopes \in Seq(ScopeRecords) BY <1>1, Counts
  <2>2. Len(kept.scopes) = Len(B.scopes) BY <1>1 DEF SameView
  <2> QED BY <1>1, <2>1, <2>2, Shape
<1>4. /\ Shaped(D) /\ D.scopes = kept.scopes /\ D.local_decls = Declare(kept, name, scope).local_decls
      /\ D.visibility_scope = kept.visibility_scope /\ D.visibility_scopes = kept.visibility_scopes
  BY <1>3 DEF Declare, Shaped, BuilderFieldNames
<1> HIDE DEF D
<1>5. Adds(kept, N, NextLocal(kept), name, scope) BY <1>1, <1>2, <1>3, <1>4, LocalAdded
<1>6. NextLocal(kept) = Len(N.local_decls) BY <1>5 DEF Adds
<1> QED BY <1>1, <1>5, <1>6, AddsAfter

(***************************************************************************)
(* The bindings of a pattern, or the arguments.                            *)
(***************************************************************************)
\* The locals that the first n names of a pattern gave to one of them.
Given(D, names, n, name) == {D.locals[j] : j \in {h \in 1..n : names[h] = name}}

Adding(B, D, names, n) ==
  /\ Longer(B, D.b) /\ Len(D.b.scopes) = Len(B.scopes)
  /\ D.b.visibility_scope = B.visibility_scope
  /\ IF n = 0 THEN D.scope = None /\ D.b.visibility_scopes = B.visibility_scopes
     ELSE /\ D.scope = Len(B.visibility_scopes) + 1
          /\ D.b.visibility_scopes = Append(B.visibility_scopes, B.visibility_scope)
  /\ \A j \in 1..n : /\ D.locals[j] \in LocalsOf(D.b) /\ Len(B.local_decls) < D.locals[j]
                     /\ D.b.local_decls[D.locals[j]].scope = D.scope
                     /\ D.b.local_decls[D.locals[j]].name = names[j]
  /\ \A i, j \in 1..n : i < j => D.locals[i] < D.locals[j]
  /\ \A i \in 1..Len(B.scopes) : \A m : m # TempName =>
       Named(D.b, D.b.scopes[i], m) =
         IF i = Len(B.scopes) THEN Named(B, B.scopes[i], m) \union Given(D, names, n, m)
         ELSE Named(B, B.scopes[i], m)

LEMMA AddingOutside ==
  ASSUME NEW B, NEW D, NEW names, NEW n, Adding(B, D, names, n),
         NEW i \in 1..Len(B.scopes), i # Len(B.scopes)
  PROVE  \A m : m # TempName => Named(D.b, D.b.scopes[i], m) = Named(B, B.scopes[i], m)
BY DEF Adding

LEMMA AddsBinding ==
  ASSUME NEW B, BuilderOK(B), B.scopes # << >>, NEW b \in BlocksOf(B),
         NEW names, NEW n \in Nat, names[n + 1] \in AllNames,
         NEW D, Declares(B, D, n), Adding(B, D, names, n)
  PROVE  Adding(B, DeclareNext(D, b, names[n + 1]), names, n + 1)
<1> DEFINE name == names[n + 1]
           V == IF D.scope = None THEN new_visibility_scope(D.b) ELSE D.b
           s == IF D.scope = None THEN Len(V.visibility_scopes) ELSE D.scope
           N == declare_binding(V, b, name, s)
           E == DeclareNext(D, b, name)
           L == Len(N.local_decls)
<1>1. E.b = N /\ E.scope = s /\ E.locals = Append(D.locals, L) BY DEF DeclareNext
<1>2. /\ BuilderOK(D.b) /\ Grows(B, D.b) /\ D.scope \in {None} \union ScopesOf(D.b)
      /\ D.locals \in Seq(LocalsOf(D.b)) /\ Len(D.locals) = n
  BY DEF Declares, Keeps, Grows
<1>3. BuilderOK(E.b)
  <2>1. Declares(B, E, n + 1)
    <3> HIDE DEF name, E
    <3>1. name \in AllNames BY DEF name
    <3> QED BY <3>1, NextDeclared DEF E
  <2> QED BY <2>1 DEF Declares, Keeps, Grows
<1>4. /\ Len(B.visibility_scopes) \in Nat /\ B.visibility_scopes \in Seq(Nat)
      /\ B.visibility_scope \in Nat /\ Len(B.local_decls) \in Nat /\ Len(D.b.local_decls) \in Nat
      /\ Len(B.scopes) \in Nat
  <2>1. /\ Len(B.visibility_scopes) \in Nat /\ B.visibility_scopes \in Seq(Nat)
        /\ Len(B.local_decls) \in Nat /\ Len(B.scopes) \in Nat
    BY Counts
  <2>2. Len(D.b.local_decls) \in Nat BY <1>2, Counts
  <2>3. B.visibility_scope \in Nat BY BuilderFields DEF BuilderOK
  <2> QED BY <2>1, <2>2, <2>3
<1>5. /\ s = Len(B.visibility_scopes) + 1 /\ s \in ScopesOf(V)
      /\ V.visibility_scopes = Append(B.visibility_scopes, B.visibility_scope)
      /\ BuilderOK(V) /\ V.scopes = D.b.scopes /\ V.local_decls = D.b.local_decls
      /\ V.visibility_scope = D.b.visibility_scope
  <2>1. CASE n = 0
    <3>1. D.scope = None /\ D.b.visibility_scopes = B.visibility_scopes
          /\ D.b.visibility_scope = B.visibility_scope
      BY <2>1 DEF Adding
    <3>2. /\ BuilderOK(V) /\ V.scopes = D.b.scopes /\ V.local_decls = D.b.local_decls
          /\ V.visibility_scope = D.b.visibility_scope /\ Len(V.visibility_scopes) \in ScopesOf(V)
      BY <1>2, <3>1, VisibilityScopeAdded DEF Grows, Keeps
    <3>3. V.visibility_scopes = Append(B.visibility_scopes, B.visibility_scope)
      BY <1>2, <3>1, Shape DEF new_visibility_scope, Shaped, BuilderFieldNames
    <3>4. Len(V.visibility_scopes) = Len(B.visibility_scopes) + 1 BY <1>4, <3>3
    <3> QED BY <3>1, <3>2, <3>3, <3>4
  <2>2. CASE n # 0
    <3>1. /\ D.scope = Len(B.visibility_scopes) + 1
          /\ D.b.visibility_scopes = Append(B.visibility_scopes, B.visibility_scope)
      BY <2>2 DEF Adding
    <3>2. D.scope # None BY <1>4, <3>1 DEF None
    <3> QED BY <1>2, <3>1, <3>2
  <2> QED BY <2>1, <2>2
<1> HIDE DEF V, s, E
<1>6. Adds(V, N, L, name, s)
  <2>1. V.scopes # << >>
    <3>1. B.scopes \in Seq(ScopeRecords) /\ V.scopes \in Seq(ScopeRecords) BY <1>5, Counts
    <3>2. Len(V.scopes) = Len(B.scopes) BY <1>5 DEF Adding
    <3> QED BY <3>1, <3>2
  <2>2. b \in BlocksOf(V)
    <3>1. b \in BlocksOf(D.b) BY <1>2, SameArms DEF Grows, Keeps
    <3>2. V.basic_blocks = D.b.basic_blocks
      BY <1>2, Shape DEF V, new_visibility_scope, Shaped, BuilderFieldNames
    <3> QED BY <3>1, <3>2 DEF BlocksOf
  <2>3. s \in Nat BY <1>4, <1>5
  <2>4. BuilderOK(N) /\ name \in AllNames BY <1>1, <1>3
  <2> HIDE DEF N, name
  <2> QED BY <1>5, <2>1, <2>2, <2>3, <2>4, BindingAdds DEF N
<1>7. /\ \A j \in 1..n : D.locals[j] \in LocalsOf(D.b) /\ E.locals[j] = D.locals[j]
      /\ E.locals[n + 1] = L
  <2>1. /\ \A j \in 1..n : D.locals[j] \in LocalsOf(D.b) /\ Append(D.locals, L)[j] = D.locals[j]
        /\ Append(D.locals, L)[n + 1] = L
    <3> HIDE DEF L
    <3>1. D.locals \in Seq(LocalsOf(D.b) \union {L}) BY <1>2
    <3> QED BY <1>2, <3>1
  <2> QED BY <1>1, <2>1
<1>8. BuilderOK(N) BY <1>1, <1>3
<1>9. Longer(V, N) /\ Len(N.scopes) = Len(B.scopes) /\ N.visibility_scope = B.visibility_scope
      /\ N.visibility_scopes = Append(B.visibility_scopes, B.visibility_scope)
      /\ Len(D.b.local_decls) < L /\ L = Len(N.local_decls)
      /\ N.local_decls[L].name = name /\ N.local_decls[L].scope = s
  BY <1>5, <1>6 DEF Adds, Adding
<1> HIDE DEF N
<1>10. L \in Nat /\ L \in LocalsOf(N) /\ LocalsOf(D.b) \subseteq LocalsOf(N)
  <2>1. L \in Nat BY <1>8, Counts
  <2> QED BY <1>4, <1>9, <2>1 DEF LocalsOf
<1>11. Longer(B, N)
  <2>1. Longer(B, V)
    <3>1. Len(B.local_decls) <= Len(V.local_decls)
          /\ \A l \in LocalsOf(B) : V.local_decls[l] = B.local_decls[l]
      BY <1>5 DEF Adding, Longer
    <3>2. Len(B.visibility_scopes) <= Len(V.visibility_scopes)
          /\ \A x \in ScopesOf(B) : V.visibility_scopes[x] = B.visibility_scopes[x]
      BY <1>4, <1>5 DEF ScopesOf
    <3> QED BY <3>1, <3>2 DEF Longer
  <2> QED BY <1>5, <1>8, <1>9, <2>1, LongerTransitive
<1>12. \A j \in 1..n : D.scope = s
  <2>1. n # 0 => D.scope = s BY <1>5 DEF Adding
  <2> QED BY <2>1
<1> HIDE DEF L, name
<1>13. ASSUME NEW j \in 1..(n + 1)
       PROVE  /\ E.locals[j] \in LocalsOf(N) /\ Len(B.local_decls) < E.locals[j]
              /\ N.local_decls[E.locals[j]].scope = s
              /\ N.local_decls[E.locals[j]].name = names[j]
  <2>1. CASE j = n + 1
    <3>1. Len(B.local_decls) <= Len(D.b.local_decls) BY DEF Adding, Longer
    <3>2. L \in Nat /\ Len(B.local_decls) < L BY <1>4, <1>9, <1>10, <3>1, Counts
    <3>3. E.locals[j] = L /\ names[j] = name BY <1>7, <2>1 DEF name
    <3> QED BY <1>9, <1>10, <3>2, <3>3
  <2>2. CASE j # n + 1
    <3>1. j \in 1..n BY <2>2
    <3>2. E.locals[j] = D.locals[j] /\ D.locals[j] \in LocalsOf(D.b) /\ D.scope = s
      BY <1>7, <1>12, <3>1
    <3>3. /\ Len(B.local_decls) < D.locals[j] /\ D.b.local_decls[D.locals[j]].scope = D.scope
          /\ D.b.local_decls[D.locals[j]].name = names[j]
      BY <3>1 DEF Adding
    <3>4. N.local_decls[D.locals[j]] = D.b.local_decls[D.locals[j]]
      BY <1>5, <1>9, <3>2 DEF Longer, LocalsOf
    <3> QED BY <1>10, <3>2, <3>3, <3>4
  <2> QED BY <2>1, <2>2
<1>14. ASSUME NEW i \in 1..(n + 1), NEW j \in 1..(n + 1), i < j PROVE E.locals[i] < E.locals[j]
  <2>1. i \in 1..n /\ E.locals[i] = D.locals[i] /\ D.locals[i] \in LocalsOf(D.b) BY <1>7, <1>14
  <2>2. CASE j = n + 1
    <3>1. D.locals[i] \in Nat /\ D.locals[i] <= Len(D.b.local_decls) BY <1>4, <2>1 DEF LocalsOf
    <3>2. Len(D.b.local_decls) \in Nat /\ L \in Nat /\ Len(D.b.local_decls) < L BY <1>4, <1>9, <1>10
    <3>3. E.locals[i] = D.locals[i] /\ E.locals[j] = L BY <1>7, <2>1, <2>2
    <3> QED BY <3>1, <3>2, <3>3
  <2>3. CASE j # n + 1
    <3>1. j \in 1..n /\ E.locals[j] = D.locals[j] BY <1>7, <2>3
    <3> QED BY <1>14, <2>1, <3>1 DEF Adding
  <2> QED BY <2>2, <2>3
<1>15. \A m : Given(E, names, n + 1, m) =
         IF m = name THEN Given(D, names, n, m) \union {L} ELSE Given(D, names, n, m)
  <2> SUFFICES ASSUME NEW m
               PROVE  Given(E, names, n + 1, m) =
                 IF m = name THEN Given(D, names, n, m) \union {L} ELSE Given(D, names, n, m)
    OBVIOUS
  <2> DEFINE H == {h \in 1..n : names[h] = m}
             H2 == {h \in 1..(n + 1) : names[h] = m}
  <2>1. H2 = IF m = name THEN H \union {n + 1} ELSE H BY DEF name
  <2>2. \A h \in H : E.locals[h] = D.locals[h] BY <1>7
  <2> HIDE DEF H, H2
  <2>3. {E.locals[h] : h \in H2} = IF m = name THEN {D.locals[h] : h \in H} \union {L}
                                   ELSE {D.locals[h] : h \in H}
    BY <1>7, <2>1, <2>2
  <2> QED BY <2>3 DEF Given, H, H2
<1>16. \A i \in 1..Len(B.scopes) : \A m : m # TempName =>
         Named(N, N.scopes[i], m) =
           IF i = Len(B.scopes) THEN Named(B, B.scopes[i], m) \union Given(E, names, n + 1, m)
           ELSE Named(B, B.scopes[i], m)
  <2> SUFFICES ASSUME NEW i \in 1..Len(B.scopes), NEW m, m # TempName
               PROVE  Named(N, N.scopes[i], m) =
                 IF i = Len(B.scopes) THEN Named(B, B.scopes[i], m) \union Given(E, names, n + 1, m)
                 ELSE Named(B, B.scopes[i], m)
    OBVIOUS
  <2>1. Len(V.scopes) = Len(B.scopes) BY <1>5 DEF Adding
  <2>2. Named(N, N.scopes[i], m) =
          IF i = Len(B.scopes) /\ m = name THEN Named(V, V.scopes[i], m) \union {L}
          ELSE Named(V, V.scopes[i], m)
    BY <1>6, <2>1 DEF Adds
  <2>3. Named(V, V.scopes[i], m) = Named(D.b, D.b.scopes[i], m) BY <1>5 DEF Named
  <2>4. Named(D.b, D.b.scopes[i], m) =
          IF i = Len(B.scopes) THEN Named(B, B.scopes[i], m) \union Given(D, names, n, m)
          ELSE Named(B, B.scopes[i], m)
    BY DEF Adding
  <2> QED BY <1>15, <2>2, <2>3, <2>4
<1>17. n + 1 # 0 /\ E.b = N /\ E.scope = s /\ s = Len(B.visibility_scopes) + 1 BY <1>1, <1>5
<1>18. Adding(B, E, names, n + 1)
  BY <1>9, <1>11, <1>13, <1>14, <1>16, <1>17 DEF Adding
<1> QED BY <1>18 DEF E, name

\* The rounds of declare_bindings: where its loop starts, and each name's turn.
Turns(g, B, b, names) ==
    /\ g[0] = [b |-> B, scope |-> None, locals |-> << >>]
    /\ \A i \in 1..Len(names) : g[i] = DeclareNext(g[i - 1], b, names[i])

LEMMA BindingsFrom ==
  ASSUME NEW B, NEW b, NEW names, Len(names) \in Nat
  PROVE  \E g : Turns(g, B, b, names) /\ declare_bindings(B, b, names) = g[Len(names)]
<1> DEFINE none == [b |-> B, scope |-> None, locals |-> << >>]
           k == Len(names)
           Round(D, n) == DeclareNext(D, b, names[n])
           Rounds(g, m) == g = [i \in 0..m |-> IF i = 0 THEN none ELSE Round(g[i - 1], i)]
           T == {m \in Nat : \E g : Rounds(g, m)}
<1>1. 0 \in T
  <2>1. Rounds([i \in 0..0 |-> none], 0) OBVIOUS
  <2> QED BY <2>1
<1>2. ASSUME NEW m \in Nat, m \in T PROVE m + 1 \in T
  <2>1. PICK g : Rounds(g, m) BY <1>2
  <2> DEFINE h == [i \in 0..(m + 1) |-> IF i <= m THEN g[i] ELSE Round(g[i - 1], i)]
  <2> HIDE DEF Round, none
  <2>2. ASSUME NEW i \in 0..(m + 1), i # 0 PROVE h[i] = Round(h[i - 1], i)
    <3>1. i - 1 \in 0..m /\ h[i - 1] = g[i - 1] BY <2>2
    <3>2. CASE i <= m
      <4>1. i \in 0..m /\ h[i] = g[i] BY <3>2
      <4> QED BY <2>1, <2>2, <3>1, <4>1
    <3>3. CASE ~(i <= m) BY <3>1, <3>3
    <3> QED BY <3>2, <3>3
  <2>3. h[0] = none BY <2>1
  <2>4. Rounds(h, m + 1)
    <3> DEFINE r == [i \in 0..(m + 1) |-> IF i = 0 THEN none ELSE Round(h[i - 1], i)]
    <3>1. \A i \in 0..(m + 1) : h[i] = r[i] BY <2>2, <2>3
    <3>2. h = [i \in 0..(m + 1) |-> h[i]] OBVIOUS
    <3> HIDE DEF h
    <3> QED BY <3>1, <3>2
  <2> HIDE DEF Rounds, h
  <2> QED BY <2>4
<1>3. \E g : Rounds(g, k) /\ declare_bindings(B, b, names) = g[k]
  <2>1. Nat \subseteq T
    <3> HIDE DEF T
    <3> QED BY <1>1, <1>2, Induction
  <2>2. \E g : Rounds(g, k) BY <2>1
  <2> QED BY <2>2 DEF declare_bindings
<1>4. PICK g : Rounds(g, k) /\ declare_bindings(B, b, names) = g[k] BY <1>3
<1> HIDE DEF Round, none
<1>5. g[0] = none BY <1>4
<1>6. ASSUME NEW i \in 1..k PROVE g[i] = Round(g[i - 1], i)
  <2>1. i \in 0..k /\ i # 0 BY <1>6
  <2> QED BY <1>4, <2>1
<1>7. Turns(g, B, b, names) BY <1>5, <1>6 DEF Turns, none, Round
<1> QED BY <1>4, <1>7

LEMMA NothingAdded ==
  ASSUME NEW B, BuilderOK(B), NEW names, NEW none, none = [b |-> B, scope |-> None, locals |-> << >>]
  PROVE  Declares(B, none, 0) /\ Adding(B, none, names, 0)
<1>1. none.b = B /\ none.scope = None /\ none.locals = << >> OBVIOUS
<1>2. Declares(B, none, 0)
  <2>1. Grows(B, B) BY GrowsReflexive DEF Fills
  <2>2. Len(B.local_decls) \in Nat BY BuilderFields DEF BuilderOK
  <2> QED BY <2>1, <2>2 DEF Declares
<1>3. Longer(B, B) BY Counts DEF Longer
<1>4. \A m : Given(none, names, 0, m) = {} BY DEF Given
<1>5. \A i \in 1..Len(B.scopes) : \A m : m # TempName =>
        Named(B, B.scopes[i], m) =
          IF i = Len(B.scopes) THEN Named(B, B.scopes[i], m) \union Given(none, names, 0, m)
          ELSE Named(B, B.scopes[i], m)
  BY <1>4
<1>6. \A j \in 1..0 : FALSE OBVIOUS
<1>7. Adding(B, none, names, 0) BY <1>1, <1>3, <1>5, <1>6 DEF Adding
<1> QED BY <1>2, <1>7

LEMMA BindingsAdd ==
  ASSUME NEW B, BuilderOK(B), B.scopes # << >>, NEW b \in BlocksOf(B),
         NEW names \in Seq(AllNames)
  PROVE  /\ Declares(B, declare_bindings(B, b, names), Len(names))
         /\ Adding(B, declare_bindings(B, b, names), names, Len(names))
<1>1. Len(names) \in Nat OBVIOUS
<1>0. PICK g : Turns(g, B, b, names) /\ declare_bindings(B, b, names) = g[Len(names)]
  BY <1>1, BindingsFrom
<1> DEFINE none == [b |-> B, scope |-> None, locals |-> << >>]
<1>2. /\ g[0] = none
      /\ \A i \in 1..Len(names) : g[i] = DeclareNext(g[i - 1], b, names[i])
      /\ declare_bindings(B, b, names) = g[Len(names)]
  BY <1>0 DEF Turns
<1> DEFINE Both(D, m) == Declares(B, D, m) /\ Adding(B, D, names, m)
           U == {m \in Nat : m <= Len(names) => Both(g[m], m)}
<1>3. 0 \in U
  <2>1. Declares(B, none, 0) /\ Adding(B, none, names, 0) BY NothingAdded
  <2> QED BY <1>2, <2>1
<1>4. ASSUME NEW m \in Nat, m \in U, m + 1 <= Len(names) PROVE Both(g[m + 1], m + 1)
  <2>1. m + 1 \in 1..Len(names) /\ (m + 1) - 1 = m /\ m <= Len(names) BY <1>1, <1>4
  <2>2. g[m + 1] = DeclareNext(g[m], b, names[m + 1]) BY <1>2, <2>1
  <2>3. names[m + 1] \in AllNames BY <2>1
  <2>4. Declares(B, g[m], m) /\ Adding(B, g[m], names, m) BY <1>4, <2>1
  <2>5. Declares(B, DeclareNext(g[m], b, names[m + 1]), m + 1) BY <2>3, <2>4, NextDeclared
  <2>6. Adding(B, DeclareNext(g[m], b, names[m + 1]), names, m + 1) BY <2>3, <2>4, AddsBinding
  <2> QED BY <2>2, <2>5, <2>6
<1>5. Len(names) \in U
  <2>1. ASSUME NEW m \in Nat, m \in U PROVE m + 1 \in U
    <3> HIDE DEF none, Both
    <3>1. m + 1 <= Len(names) => Both(g[m + 1], m + 1) BY <1>4, <2>1
    <3> QED BY <3>1
  <2> HIDE DEF U
  <2> QED BY <1>1, <1>3, <2>1, Induction
<1> QED BY <1>1, <1>2, <1>5

(***************************************************************************)
(* Scopes and what they mean.  What find_local finds in the first s        *)
(* scopes; what a name means in an environment by Rust's rules; and that   *)
(* scope a is visibility scope v or one around it, in less than v steps.   *)
(***************************************************************************)
Found(B, s, name) ==
  LET in == {i \in 1..s : Named(B, B.scopes[i], name) # {}}
  IN IF in = {} THEN None ELSE Latest(Named(B, B.scopes[Latest(in)], name))

MeaningIn(e, name) == e[Latest({i \in 1..Len(e) : e[i].name = name})].local

Path(B, c, k, a, v) ==
  /\ c \in [0..k -> ScopesOf(B)] /\ c[0] = v /\ c[k] = a
  /\ \A i \in 1..k : c[i] = B.visibility_scopes[c[i - 1]]
Around(B, a, v) == \E k \in 0..(v - 1) : \E c : Path(B, c, k, a, v)

LEMMA FoundAll == ASSUME NEW B, NEW name PROVE find_local(B, name) = Found(B, Len(B.scopes), name)
BY DEF find_local, Found

LEMMA FoundSame ==
  ASSUME NEW B, NEW B2, NEW s \in Nat, SameVariables(B, B2, s), NEW name, name # TempName
  PROVE  Found(B2, s, name) = Found(B, s, name)
<1>1. \A i \in 1..s : Named(B2, B2.scopes[i], name) = Named(B, B.scopes[i], name) BY DEF SameVariables
<1> DEFINE in == {i \in 1..s : Named(B, B.scopes[i], name) # {}}
           in2 == {i \in 1..s : Named(B2, B2.scopes[i], name) # {}}
<1>2. in2 = in BY <1>1
<1>3. in # {} => Latest(in) \in 1..s
  <2>1. in \in SUBSET (0..s) BY DEF in
  <2> HIDE DEF in
  <2>2. in # {} => Latest(in) \in in BY <2>1, LatestMember
  <2> QED BY <2>2 DEF in
<1> HIDE DEF in, in2
<1>4. Found(B, s, name) = IF in = {} THEN None ELSE Latest(Named(B, B.scopes[Latest(in)], name))
  BY DEF Found, in
<1>5. Found(B2, s, name) = IF in2 = {} THEN None ELSE Latest(Named(B2, B2.scopes[Latest(in2)], name))
  BY DEF Found, in2
<1> QED BY <1>1, <1>2, <1>3, <1>4, <1>5

\* One scope more.
LEMMA FoundNext ==
  ASSUME NEW B, NEW s \in Nat, NEW name
  PROVE  Found(B, s + 1, name) =
           IF Named(B, B.scopes[s + 1], name) = {} THEN Found(B, s, name)
           ELSE Latest(Named(B, B.scopes[s + 1], name))
<1> DEFINE in == {i \in 1..s : Named(B, B.scopes[i], name) # {}}
           in2 == {i \in 1..(s + 1) : Named(B, B.scopes[i], name) # {}}
<1>1. CASE Named(B, B.scopes[s + 1], name) = {}
  <2>1. in2 = in BY <1>1
  <2> QED BY <1>1, <2>1 DEF Found
<1>2. CASE Named(B, B.scopes[s + 1], name) # {}
  <2>1. s + 1 \in in2 /\ in2 \in SUBSET (0..(s + 1)) BY <1>2
  <2>2. Found(B, s + 1, name) =
          IF in2 = {} THEN None ELSE Latest(Named(B, B.scopes[Latest(in2)], name))
    BY DEF Found
  <2>5. \A i \in in2 : i <= s + 1 /\ i \in Nat OBVIOUS
  <2> HIDE DEF in2
  <2>3. Latest(in2) \in in2 /\ s + 1 <= Latest(in2)
    <3> DEFINE n == s + 1
    <3>1. n \in Nat /\ in2 \in SUBSET (0..n) /\ in2 # {} /\ n \in in2 BY <2>1
    <3> HIDE DEF n
    <3>2. Latest(in2) \in in2 /\ \A k \in in2 : k <= Latest(in2) BY <3>1, LatestMember
    <3> QED BY <3>1, <3>2 DEF n
  <2>4. Latest(in2) = s + 1 BY <2>3, <2>5
  <2> QED BY <1>2, <2>1, <2>2, <2>4
<1> QED BY <1>1, <1>2

LEMMA AroundKept ==
  ASSUME NEW B, NEW B2, BuilderOK(B), BuilderOK(B2), Longer(B, B2), NEW a, NEW v, Around(B, a, v)
  PROVE  Around(B2, a, v)
<1>1. PICK k \in 0..(v - 1) : \E c : Path(B, c, k, a, v) BY DEF Around
<1>2. PICK c : Path(B, c, k, a, v) BY <1>1
<1>3. Len(B.visibility_scopes) \in Nat /\ Len(B2.visibility_scopes) \in Nat BY Counts
<1>4. ScopesOf(B) \subseteq ScopesOf(B2) BY <1>3 DEF Longer, ScopesOf
<1>5. c \in [0..k -> ScopesOf(B2)] BY <1>2, <1>4 DEF Path
<1>6. ASSUME NEW i \in 1..k PROVE c[i] = B2.visibility_scopes[c[i - 1]]
  <2>1. i - 1 \in 0..k OBVIOUS
  <2>2. c[i - 1] \in ScopesOf(B) BY <1>2, <2>1 DEF Path
  <2> QED BY <1>2, <2>2 DEF Path, Longer
<1>7. Path(B2, c, k, a, v) BY <1>2, <1>5, <1>6 DEF Path
<1> QED BY <1>7 DEF Around

LEMMA AroundItself ==
  ASSUME NEW B, BuilderOK(B), NEW v \in ScopesOf(B)
  PROVE  Around(B, v, v)
<1>1. v \in Nat /\ v >= 1 BY Counts DEF ScopesOf
<1> DEFINE c == [i \in 0..0 |-> v]
<1>2. Path(B, c, 0, v, v) BY DEF Path
<1>3. 0 \in 0..(v - 1) BY <1>1
<1> HIDE DEF c
<1> QED BY <1>2, <1>3 DEF Around

LEMMA AroundInner ==
  ASSUME NEW B, BuilderOK(B), NEW w \in ScopesOf(B), NEW v \in ScopesOf(B), v < w,
         B.visibility_scopes[w] = v, NEW a, Around(B, a, v)
  PROVE  Around(B, a, w)
<1>1. PICK k \in 0..(v - 1) : \E c : Path(B, c, k, a, v) BY DEF Around
<1>2. PICK c : Path(B, c, k, a, v) BY <1>1
<1>3. v \in Nat /\ w \in Nat /\ v >= 1 /\ k \in Nat BY Counts DEF ScopesOf
<1> DEFINE d == [i \in 0..(k + 1) |-> IF i = 0 THEN w ELSE c[i - 1]]
<1>4. d \in [0..(k + 1) -> ScopesOf(B)]
  <2>1. \A i \in 0..(k + 1) : i # 0 => c[i - 1] \in ScopesOf(B) BY <1>2 DEF Path
  <2> QED BY <2>1
<1>5. d[0] = w /\ d[k + 1] = a BY <1>2, <1>3 DEF Path
<1>6. ASSUME NEW i \in 1..(k + 1) PROVE d[i] = B.visibility_scopes[d[i - 1]]
  <2>1. d[i] = c[i - 1] OBVIOUS
  <2>2. CASE i = 1
    <3>1. d[i - 1] = w /\ c[i - 1] = v BY <1>2, <2>2 DEF Path
    <3> QED BY <2>1, <3>1
  <2>3. CASE i # 1
    <3>1. i - 1 \in 1..k /\ i - 1 \in 0..(k + 1) /\ i - 1 # 0 BY <2>3
    <3>2. d[i - 1] = c[(i - 1) - 1] BY <3>1
    <3>3. c[i - 1] = B.visibility_scopes[c[(i - 1) - 1]] BY <1>2, <3>1 DEF Path
    <3> QED BY <2>1, <3>2, <3>3
  <2> QED BY <2>2, <2>3
<1> HIDE DEF d
<1>7. Path(B, d, k + 1, a, w) BY <1>4, <1>5, <1>6 DEF Path
<1>8. k + 1 \in 0..(w - 1) BY <1>3
<1> QED BY <1>7, <1>8 DEF Around

\* As VisibleResolution has it.
LEMMA AroundEnclosing ==
  ASSUME BuilderOK(builder), NEW v \in ScopesOf(builder), NEW a, Around(builder, a, v)
  PROVE  a \in Enclosing(v)
<1> DEFINE vs == builder.visibility_scopes
           n == Len(vs)
           Round(S) == S \union {vs[s] : s \in S \ {None}}
           Rounds(g, m) == g = [i \in 0..m |-> IF i = 0 THEN {v} ELSE Round(g[i - 1])]
           T == {m \in Nat : \E g : Rounds(g, m)}
<1>1. 0 \in T
  <2>1. Rounds([i \in 0..0 |-> {v}], 0) OBVIOUS
  <2> QED BY <2>1
<1>2. ASSUME NEW m \in Nat, m \in T PROVE m + 1 \in T
  <2>1. PICK g : Rounds(g, m) BY <1>2
  <2> DEFINE h == [i \in 0..(m + 1) |-> IF i <= m THEN g[i] ELSE Round(g[i - 1])]
  <2> HIDE DEF Round
  <2>2. ASSUME NEW i \in 0..(m + 1), i # 0 PROVE h[i] = Round(h[i - 1])
    <3>1. i - 1 \in 0..m /\ h[i - 1] = g[i - 1] BY <2>2
    <3>2. CASE i <= m
      <4>1. i \in 0..m /\ h[i] = g[i] BY <3>2
      <4>2. g[i] = Round(g[i - 1]) BY <2>1, <2>2, <4>1
      <4> QED BY <3>1, <4>1, <4>2
    <3>3. CASE ~(i <= m) BY <3>1, <3>3
    <3> QED BY <3>2, <3>3
  <2>3. h[0] = {v} BY <2>1
  <2>4. Rounds(h, m + 1)
    <3> DEFINE r == [i \in 0..(m + 1) |-> IF i = 0 THEN {v} ELSE Round(h[i - 1])]
    <3>1. \A i \in 0..(m + 1) : h[i] = r[i] BY <2>2, <2>3
    <3>2. h = [i \in 0..(m + 1) |-> h[i]] OBVIOUS
    <3> HIDE DEF h
    <3> QED BY <3>1, <3>2
  <2> HIDE DEF Rounds, h
  <2> QED BY <2>4
<1>3. n \in Nat BY Counts
<1>4. \E g : Rounds(g, n) /\ Enclosing(v) = g[n]
  <2>1. Nat \subseteq T
    <3> HIDE DEF T
    <3> QED BY <1>1, <1>2, Induction
  <2>2. \E g : Rounds(g, n) BY <1>3, <2>1
  <2> QED BY <2>2 DEF Enclosing
<1>5. PICK g : Rounds(g, n) /\ Enclosing(v) = g[n] BY <1>4
<1>6. PICK k \in 0..(v - 1) : \E c : Path(builder, c, k, a, v) BY DEF Around
<1>7. PICK c : Path(builder, c, k, a, v) BY <1>6
<1> DEFINE U == {m \in Nat : m <= n => \A j \in 0..k : j <= m => c[j] \in g[m]}
<1>8. 0 \in U
  <2>1. g[0] = {v} BY <1>3, <1>5
  <2>2. c[0] = v BY <1>7 DEF Path
  <2>3. \A j \in 0..k : j <= 0 => j = 0 OBVIOUS
  <2> QED BY <2>1, <2>2, <2>3
<1>9. ASSUME NEW m \in Nat, m \in U, m + 1 <= n, NEW j \in 0..k, j <= m + 1
      PROVE  c[j] \in g[m + 1]
  <2>1. m + 1 \in 0..n /\ (m + 1) - 1 = m /\ m + 1 # 0 /\ m <= n BY <1>3, <1>9
  <2>2. g[m + 1] = Round(g[m])
    <3> HIDE DEF Round
    <3> QED BY <1>5, <2>1
  <2>3. CASE j <= m
    <3>1. c[j] \in g[m] BY <1>9, <2>1, <2>3
    <3> QED BY <2>2, <3>1
  <2>4. CASE ~(j <= m)
    <3>1. j = m + 1 /\ j \in 1..k /\ j - 1 = m /\ m \in 0..k BY <1>9, <2>4
    <3>2. c[m] \in g[m] BY <1>9, <2>1, <3>1
    <3>3. c[m] # None BY <1>3, <1>7, <3>1 DEF Path, ScopesOf, None
    <3>4. c[j] = vs[c[m]] BY <1>7, <3>1 DEF Path
    <3> QED BY <2>2, <3>2, <3>3, <3>4
  <2> QED BY <2>3, <2>4
<1>10. n \in U
  <2>1. ASSUME NEW m \in Nat, m \in U PROVE m + 1 \in U
    <3> HIDE DEF Rounds, Round
    <3> QED BY <1>9, <2>1
  <2> HIDE DEF U
  <2> QED BY <1>3, <1>8, <2>1, Induction
<1>11. k \in 0..k /\ k <= n BY <1>3 DEF ScopesOf
<1>12. c[k] \in g[n] BY <1>3, <1>10, <1>11
<1> QED BY <1>5, <1>7, <1>12 DEF Path

-----------------------------------------------------------------------------
(***************************************************************************)
(* The view that the program has at each frame still to do: how many       *)
(* scopes there are (s), what is in the environment (e), and which         *)
(* visibility scope it is in (v).  `pending' are the names that a frame    *)
(* from there on will enter.                                               *)
(***************************************************************************)
Follows(u, f) ==
  [s |-> u.s - Closes(f),
   e |-> IF f.do \in {"stmts", "close"} THEN f.env
         ELSE IF f.do = "enter" THEN u.e \o Bind(f.names, f.locals)
         ELSE IF f.do = "epilogue" THEN << >> ELSE u.e,
   v |-> IF f.do \in {"stmts", "close"} THEN f.outer
         ELSE IF f.do = "enter" /\ f.scope # None THEN f.scope ELSE u.v]

Later(fs, i) == UNION {ToSet(fs[j].names) : j \in {h \in i..Len(fs) : fs[h].do = "enter"}}
Announces(f) == IF f.do = "enter" THEN ToSet(f.names) ELSE {}

\* Every entry is of a variable that is visible, and the stack of scopes
\* agrees with the environment.
EntryOK(B, u, x) ==
  /\ x.name # TempName /\ x.local \in LocalsOf(B)
  /\ Around(B, B.local_decls[x.local].scope, u.v)
Agrees(B, u, name) == Found(B, u.s, name) = MeaningIn(u.e, name)
ViewOK(B, u, pending) ==
  /\ u.s \in Nat /\ Frames(u.e) /\ u.v \in ScopesOf(B)
  /\ \A i \in 1..Len(u.e) : EntryOK(B, u, u.e[i])
  /\ \A i \in 1..Len(u.e) : u.e[i].name \notin pending => Agrees(B, u, u.e[i].name)

\* No arm binds anything.
ArmPlain(u, arm) == arm.names = << >> /\ arm.locals = << >> /\ arm.scope = u.v
ArmsPlain(u, f) ==
  f.do = "arms" => /\ f.env = u.e /\ f.outer = u.v
                   /\ \A i \in 1..Len(f.arms) : ArmPlain(u, f.arms[i])

IsViews(lv, fs, B, u) ==
  /\ lv[1] = u
  /\ \A i \in 1..(Len(fs) + 1) : ViewOK(B, lv[i], Later(fs, i))
  /\ \A i \in 1..Len(fs) : lv[i + 1] = Follows(lv[i], fs[i]) /\ ArmsPlain(lv[i], fs[i])
  /\ \A i, j \in 1..(Len(fs) + 1) : i <= j => lv[j].s <= lv[i].s
Viewed(fs, B, u) == Frames(fs) /\ \E lv : IsViews(lv, fs, B, u)

LEMMA LaterTail ==
  ASSUME NEW fs, Frames(fs), fs # << >>
  PROVE  /\ \A i \in 1..Len(fs) : Later(Tail(fs), i) = Later(fs, i + 1)
         /\ Later(fs, 1) = Announces(Head(fs)) \union Later(Tail(fs), 1)
<1>1. PICK S : fs \in Seq(S) BY DEF Frames
<1> DEFINE n == Len(fs)
           T == Tail(fs)
<1>2. n \in Nat /\ n >= 1 /\ Head(fs) = fs[1] BY <1>1
<1>3. Len(T) = n - 1 /\ \A i \in 1..(n - 1) : T[i] = fs[i + 1] BY <1>1
<1> HIDE DEF n, T
<1>4. ASSUME NEW i \in 1..n PROVE Later(T, i) = Later(fs, i + 1)
  <2> DEFINE J == {h \in i..Len(T) : T[h].do = "enter"}
             K == {h \in (i + 1)..Len(fs) : fs[h].do = "enter"}
  <2>1. ASSUME NEW x, x \in Later(T, i) PROVE x \in Later(fs, i + 1)
    <3>1. PICK j \in J : x \in ToSet(T[j].names) BY <2>1 DEF Later
    <3>2. j \in i..(n - 1) /\ T[j] = fs[j + 1] /\ fs[j + 1].do = "enter" BY <1>3, <3>1
    <3>3. j + 1 \in K BY <1>2, <3>2 DEF n
    <3>4. x \in ToSet(fs[j + 1].names) BY <3>1, <3>2
    <3> HIDE DEF K
    <3>5. \E h \in K : x \in ToSet(fs[h].names) BY <3>3, <3>4
    <3> QED BY <3>5 DEF Later, K
  <2>2. ASSUME NEW x, x \in Later(fs, i + 1) PROVE x \in Later(T, i)
    <3>1. PICK j \in K : x \in ToSet(fs[j].names) BY <2>2 DEF Later
    <3>2. j \in (i + 1)..n /\ fs[j].do = "enter" BY <3>1 DEF n
    <3>3. j - 1 \in i..(n - 1) /\ j - 1 \in 1..(n - 1) /\ (j - 1) + 1 = j BY <1>2, <3>2
    <3>4. T[j - 1] = fs[j] BY <1>3, <3>3
    <3>5. j - 1 \in J /\ x \in ToSet(T[j - 1].names) BY <1>3, <3>1, <3>2, <3>3, <3>4
    <3> HIDE DEF J
    <3>6. \E h \in J : x \in ToSet(T[h].names) BY <3>5
    <3> QED BY <3>6 DEF Later, J
  <2> QED BY <2>1, <2>2
<1>5. Later(fs, 1) = Announces(fs[1]) \union Later(fs, 2)
  <2>1. {h \in 1..Len(fs) : fs[h].do = "enter"} =
          (IF fs[1].do = "enter" THEN {1} ELSE {}) \union {h \in 2..Len(fs) : fs[h].do = "enter"}
    <3>1. 1..n = {1} \union 2..n BY <1>2
    <3> QED BY <3>1 DEF n
  <2> QED BY <2>1 DEF Later, Announces
<1>6. 1 \in 1..n /\ 1 + 1 = 2 BY <1>2
<1>7. Later(T, 1) = Later(fs, 2) BY <1>4, <1>6
<1> QED BY <1>2, <1>4, <1>5, <1>7 DEF n, T

LEMMA ViewPop ==
  ASSUME NEW fs, NEW B, NEW u, Viewed(fs, B, u), fs # << >>
  PROVE  /\ ViewOK(B, u, Later(fs, 1)) /\ ArmsPlain(u, Head(fs))
         /\ Follows(u, Head(fs)).s <= u.s
         /\ Viewed(Tail(fs), B, Follows(u, Head(fs)))
<1>1. PICK S : fs \in Seq(S) BY DEF Viewed, Frames
<1>2. PICK lv : IsViews(lv, fs, B, u) BY DEF Viewed
<1> DEFINE n == Len(fs)
           T == Tail(fs)
           mv == [i \in 1..n |-> lv[i + 1]]
<1>3. n \in Nat /\ n >= 1 /\ 1 \in 1..n /\ Head(fs) = fs[1] BY <1>1
<1>4. T \in Seq(S) /\ Len(T) = n - 1 /\ \A i \in 1..(n - 1) : T[i] = fs[i + 1] BY <1>1
<1>5. \A i \in 1..n : Later(T, i) = Later(fs, i + 1) BY <1>1, LaterTail DEF Frames
<1>6. /\ lv[1] = u
      /\ \A i \in 1..(n + 1) : ViewOK(B, lv[i], Later(fs, i))
      /\ \A i \in 1..n : lv[i + 1] = Follows(lv[i], fs[i]) /\ ArmsPlain(lv[i], fs[i])
      /\ \A i, j \in 1..(n + 1) : i <= j => lv[j].s <= lv[i].s
  BY <1>2 DEF IsViews
<1> HIDE DEF n, T
<1>7. lv[2] = Follows(u, Head(fs)) /\ ArmsPlain(u, Head(fs)) BY <1>3, <1>6
<1>8. ViewOK(B, u, Later(fs, 1)) /\ lv[2].s <= u.s
  <2>1. 1 \in 1..(n + 1) /\ 2 \in 1..(n + 1) BY <1>3
  <2> QED BY <1>6, <2>1
<1>9. mv[1] = lv[2] /\ (n - 1) + 1 = n BY <1>3
<1>10. \A i \in 1..n : ViewOK(B, mv[i], Later(T, i))
  <2>1. \A i \in 1..n : mv[i] = lv[i + 1] /\ i + 1 \in 1..(n + 1) BY <1>3
  <2> QED BY <1>5, <1>6, <2>1
<1>11. ASSUME NEW i \in 1..(n - 1)
       PROVE  mv[i + 1] = Follows(mv[i], T[i]) /\ ArmsPlain(mv[i], T[i])
  <2>1. i + 1 \in 1..n /\ i \in 1..n BY <1>3
  <2>2. mv[i] = lv[i + 1] /\ mv[i + 1] = lv[(i + 1) + 1] /\ T[i] = fs[i + 1] BY <1>4, <2>1
  <2> QED BY <1>6, <2>1, <2>2
<1>12. ASSUME NEW i \in 1..n, NEW j \in 1..n, i <= j PROVE mv[j].s <= mv[i].s
  <2>1. i + 1 \in 1..(n + 1) /\ j + 1 \in 1..(n + 1) /\ i + 1 <= j + 1 BY <1>3, <1>12
  <2>2. mv[i] = lv[i + 1] /\ mv[j] = lv[j + 1] OBVIOUS
  <2> QED BY <1>6, <2>1, <2>2
<1> HIDE DEF mv
<1>13. IsViews(mv, T, B, lv[2]) BY <1>4, <1>9, <1>10, <1>11, <1>12 DEF IsViews
<1> QED BY <1>4, <1>7, <1>8, <1>13 DEF Viewed, Frames, T

LEMMA ViewPush ==
  ASSUME NEW fs, NEW B, NEW f, NEW u, NEW w, w = Follows(u, f), w.s <= u.s,
         Viewed(fs, B, w), ViewOK(B, u, Announces(f) \union Later(fs, 1)), ArmsPlain(u, f)
  PROVE  Viewed(<<f>> \o fs, B, u)
<1>1. PICK S : fs \in Seq(S) BY DEF Viewed, Frames
<1>2. PICK lv : IsViews(lv, fs, B, w) BY DEF Viewed
<1> DEFINE n == Len(fs)
           T == <<f>> \o fs
           mv == [i \in 1..(n + 2) |-> IF i = 1 THEN u ELSE lv[i - 1]]
<1>3. n \in Nat BY <1>1
<1>4. T \in Seq(S \union {f}) /\ Len(T) = n + 1 /\ T[1] = f /\ \A i \in 2..(n + 1) : T[i] = fs[i - 1]
  <2>1. <<f>> \in Seq(S \union {f}) /\ Len(<<f>>) = 1 /\ <<f>>[1] = f OBVIOUS
  <2>2. fs \in Seq(S \union {f}) BY <1>1
  <2>3. /\ T \in Seq(S \union {f}) /\ Len(T) = 1 + n
        /\ \A i \in 1..(1 + n) : T[i] = IF i <= 1 THEN <<f>>[i] ELSE fs[i - 1]
    BY <2>1, <2>2, ConcatProperties
  <2> HIDE DEF T
  <2> QED BY <1>3, <2>1, <2>3
<1>5. /\ lv[1] = w
      /\ \A i \in 1..(n + 1) : ViewOK(B, lv[i], Later(fs, i))
      /\ \A i \in 1..n : lv[i + 1] = Follows(lv[i], fs[i]) /\ ArmsPlain(lv[i], fs[i])
      /\ \A i, j \in 1..(n + 1) : i <= j => lv[j].s <= lv[i].s
  BY <1>2 DEF IsViews
<1>6. T # << >> /\ Tail(T) = fs /\ Head(T) = f
  <2> HIDE DEF n
  <2>1. T # << >> BY <1>3, <1>4
  <2> QED BY <1>1, <2>1
<1>7. (\A i \in 1..(n + 1) : Later(fs, i) = Later(T, i + 1))
      /\ Later(T, 1) = Announces(f) \union Later(fs, 1)
  <2>1. Frames(T) BY <1>4 DEF Frames
  <2> HIDE DEF n, T
  <2> QED BY <1>4, <1>6, <2>1, LaterTail
<1> HIDE DEF n, T
<1>8. mv[1] = u /\ (\A i \in 2..(n + 2) : mv[i] = lv[i - 1] /\ i - 1 \in 1..(n + 1)) BY <1>3
<1> HIDE DEF mv
<1>9. ASSUME NEW i \in 1..(n + 2) PROVE ViewOK(B, mv[i], Later(T, i))
  <2>1. CASE i = 1 BY <1>7, <1>8, <2>1
  <2>2. CASE i # 1
    <3>1. i \in 2..(n + 2) /\ (i - 1) + 1 = i BY <2>2
    <3> QED BY <1>5, <1>7, <1>8, <3>1
  <2> QED BY <2>1, <2>2
<1>10. ASSUME NEW i \in 1..(n + 1)
       PROVE  mv[i + 1] = Follows(mv[i], T[i]) /\ ArmsPlain(mv[i], T[i])
  <2>1. CASE i = 1
    <3>1. 2 \in 2..(n + 2) /\ 2 - 1 = 1 BY <1>3
    <3> QED BY <1>4, <1>5, <1>8, <2>1, <3>1
  <2>2. CASE i # 1
    <3>1. i - 1 \in 1..n /\ i \in 2..(n + 1) /\ i \in 2..(n + 2) /\ i + 1 \in 2..(n + 2)
          /\ (i - 1) + 1 = i /\ (i + 1) - 1 = i
      BY <1>3, <2>2
    <3>2. mv[i] = lv[i - 1] /\ mv[i + 1] = lv[i] /\ T[i] = fs[i - 1] BY <1>4, <1>8, <3>1
    <3> QED BY <1>5, <3>1, <3>2
  <2> QED BY <2>1, <2>2
<1>11. ASSUME NEW i \in 1..(n + 2), NEW j \in 1..(n + 2), i <= j PROVE mv[j].s <= mv[i].s
  <2>0. u.s \in Nat /\ (\A h \in 1..(n + 1) : lv[h].s \in Nat) /\ w.s \in Nat
    <3>1. \A h \in 1..(n + 1) : lv[h].s \in Nat BY <1>5 DEF ViewOK
    <3>2. 1 \in 1..(n + 1) BY <1>3
    <3> QED BY <1>5, <3>1, <3>2 DEF ViewOK
  <2>1. CASE i = 1 /\ j = 1 BY <1>8, <2>0, <2>1
  <2>2. CASE i = 1 /\ j # 1
    <3>1. j \in 2..(n + 2) /\ j - 1 \in 1..(n + 1) /\ 1 <= j - 1 /\ 1 \in 1..(n + 1) BY <1>3, <2>2
    <3>2. lv[j - 1].s <= w.s BY <1>5, <3>1
    <3>3. mv[j] = lv[j - 1] /\ mv[i] = u BY <1>8, <2>2, <3>1
    <3> QED BY <2>0, <3>1, <3>2, <3>3
  <2>3. CASE i # 1
    <3>1. i \in 2..(n + 2) /\ j \in 2..(n + 2) /\ i - 1 \in 1..(n + 1) /\ j - 1 \in 1..(n + 1)
          /\ i - 1 <= j - 1
      BY <1>3, <1>11, <2>3
    <3> QED BY <1>5, <1>8, <3>1
  <2> QED BY <2>1, <2>2, <2>3
<1>12. IsViews(mv, T, B, u)
  <2>1. Len(T) + 1 = n + 2 BY <1>3, <1>4
  <2> QED BY <1>4, <1>8, <1>9, <1>10, <1>11, <2>1 DEF IsViews
<1> QED BY <1>4, <1>12 DEF Viewed, Frames, T

\* A view stays right while scopes up to its own keep their variables.
LEMMA ScopesKept ==
  ASSUME NEW B, BuilderOK(B), NEW B2, BuilderOK(B2), Longer(B, B2)
  PROVE  LocalsOf(B) \subseteq LocalsOf(B2) /\ ScopesOf(B) \subseteq ScopesOf(B2)
<1>1. /\ Len(B.local_decls) \in Nat /\ Len(B2.local_decls) \in Nat
      /\ Len(B.visibility_scopes) \in Nat /\ Len(B2.visibility_scopes) \in Nat
  BY Counts
<1> QED BY <1>1 DEF Longer, LocalsOf, ScopesOf

LEMMA EntryKept ==
  ASSUME NEW B, BuilderOK(B), NEW B2, BuilderOK(B2), Longer(B, B2), NEW u, NEW x, EntryOK(B, u, x)
  PROVE  EntryOK(B2, u, x)
<1>1. x.local \in LocalsOf(B2) BY ScopesKept DEF EntryOK
<1>2. B2.local_decls[x.local].scope = B.local_decls[x.local].scope BY DEF EntryOK, Longer
<1>3. Around(B2, B.local_decls[x.local].scope, u.v) BY AroundKept DEF EntryOK
<1>4. Around(B2, B2.local_decls[x.local].scope, u.v)
  <2>1. ASSUME NEW a, NEW b, a = b, Around(B2, b, u.v) PROVE Around(B2, a, u.v) BY <2>1
  <2> QED BY <1>2, <1>3, <2>1
<1> QED BY <1>1, <1>4 DEF EntryOK

LEMMA AgreesKept ==
  ASSUME NEW B, NEW B2, NEW u, u.s \in Nat, SameVariables(B, B2, u.s), NEW name, name # TempName,
         Agrees(B, u, name)
  PROVE  Agrees(B2, u, name)
BY FoundSame DEF Agrees

LEMMA ViewOKKept ==
  ASSUME NEW B, BuilderOK(B), NEW B2, BuilderOK(B2), Longer(B, B2), NEW u, NEW pending,
         ViewOK(B, u, pending), SameVariables(B, B2, u.s)
  PROVE  ViewOK(B2, u, pending)
<1>1. u.s \in Nat /\ Frames(u.e) /\ u.v \in ScopesOf(B2) BY ScopesKept DEF ViewOK
<1>2. ASSUME NEW i \in 1..Len(u.e) PROVE EntryOK(B2, u, u.e[i])
  <2>1. EntryOK(B, u, u.e[i]) BY DEF ViewOK
  <2> QED BY <2>1, EntryKept
<1>3. ASSUME NEW i \in 1..Len(u.e), u.e[i].name \notin pending PROVE Agrees(B2, u, u.e[i].name)
  <2>1. Agrees(B, u, u.e[i].name) BY <1>3 DEF ViewOK
  <2>2. u.e[i].name # TempName BY DEF ViewOK, EntryOK
  <2> QED BY <1>1, <2>1, <2>2, AgreesKept
<1> QED BY <1>1, <1>2, <1>3 DEF ViewOK

LEMMA ViewedKept ==
  ASSUME NEW B, BuilderOK(B), NEW B2, BuilderOK(B2), Longer(B, B2), NEW fs, NEW u,
         Viewed(fs, B, u), SameVariables(B, B2, u.s)
  PROVE  Viewed(fs, B2, u)
<1>1. PICK lv : IsViews(lv, fs, B, u) BY DEF Viewed
<1>2. Frames(fs) /\ Len(fs) \in Nat BY DEF Viewed, Frames
<1>3. ASSUME NEW i \in 1..(Len(fs) + 1) PROVE ViewOK(B2, lv[i], Later(fs, i))
  <2>1. ViewOK(B, lv[i], Later(fs, i)) /\ lv[i].s <= u.s
    <3>1. 1 \in 1..(Len(fs) + 1) /\ 1 <= i BY <1>2
    <3> QED BY <1>1, <3>1 DEF IsViews
  <2>2. u.s \in Nat /\ lv[i].s \in Nat
    <3>1. 1 \in 1..(Len(fs) + 1) BY <1>2
    <3>2. ViewOK(B, u, Later(fs, 1)) BY <1>1, <3>1 DEF IsViews
    <3> QED BY <2>1, <3>2 DEF ViewOK
  <2>3. \A j \in 1..lv[i].s : j \in 1..u.s BY <2>1, <2>2
  <2>4. SameVariables(B, B2, lv[i].s) BY <2>3 DEF SameVariables
  <2> QED BY <2>1, <2>4, ViewOKKept
<1>4. IsViews(lv, fs, B2, u) BY <1>1, <1>3 DEF IsViews
<1> QED BY <1>2, <1>4 DEF Viewed

LEMMA ViewedNow ==
  ASSUME NEW fs, NEW B, NEW u, Viewed(fs, B, u)
  PROVE  ViewOK(B, u, Later(fs, 1)) /\ Frames(fs)
<1>1. PICK lv : IsViews(lv, fs, B, u) BY DEF Viewed
<1>2. Frames(fs) /\ 1 \in 1..(Len(fs) + 1) BY DEF Viewed, Frames
<1> QED BY <1>1, <1>2 DEF IsViews

-----------------------------------------------------------------------------
\* The frames that have the same view before and after.
Plain(f) == f.do \notin {"pop", "stmts", "close", "enter", "arms", "epilogue"}
PlainFrames(F) == Frames(F) /\ \A i \in 1..Len(F) : Plain(F[i])

IsView(u) == u = [s |-> u.s, e |-> u.e, v |-> u.v]

LEMMA PlainFollows ==
  ASSUME NEW f, Plain(f), NEW u, IsView(u), u.s \in Nat
  PROVE  /\ Follows(u, f) = u /\ Announces(f) = {} /\ ArmsPlain(u, f)
<1>1. Closes(f) = 0 /\ u.s - Closes(f) = u.s BY DEF Closes, Plain
<1>2. Follows(u, f) = [s |-> u.s, e |-> u.e, v |-> u.v] BY <1>1 DEF Follows, Plain
<1> QED BY <1>2 DEF IsView, Announces, ArmsPlain, Plain

LEMMA PushPlain ==
  ASSUME NEW fs, NEW B, NEW u, IsView(u), Viewed(fs, B, u), NEW f, Plain(f)
  PROVE  Viewed(<<f>> \o fs, B, u)
<1>1. ViewOK(B, u, Later(fs, 1)) BY ViewedNow
<1>2. u.s \in Nat BY <1>1 DEF ViewOK
<1>3. Follows(u, f) = u /\ Announces(f) = {} /\ ArmsPlain(u, f) BY <1>2, PlainFollows
<1>4. ViewOK(B, u, Announces(f) \union Later(fs, 1)) BY <1>1, <1>3
<1>5. u = Follows(u, f) /\ u.s <= u.s BY <1>2, <1>3
<1> QED BY <1>3, <1>4, <1>5, ViewPush

LEMMA PushPlains ==
  ASSUME NEW fs, NEW B, NEW u, IsView(u), Viewed(fs, B, u), NEW F, PlainFrames(F)
  PROVE  Viewed(F \o fs, B, u)
<1> DEFINE T == {n \in Nat : \A G : PlainFrames(G) /\ Len(G) = n => Viewed(G \o fs, B, u)}
<1>1. Frames(fs) BY ViewedNow
<1>2. 0 \in T
  <2>1. ASSUME NEW G, PlainFrames(G), Len(G) = 0 PROVE Viewed(G \o fs, B, u)
    <3>1. G = << >> BY <2>1 DEF PlainFrames, Frames
    <3>2. << >> \o fs = fs BY <1>1, ConsNone
    <3> QED BY <3>1, <3>2
  <2> QED BY <2>1
<1>3. ASSUME NEW n \in Nat, n \in T PROVE n + 1 \in T
  <2> SUFFICES ASSUME NEW G, PlainFrames(G), Len(G) = n + 1 PROVE Viewed(G \o fs, B, u)
    OBVIOUS
  <2>1. PICK S : G \in Seq(S) BY DEF PlainFrames, Frames
  <2>2. PICK S2 : fs \in Seq(S2) BY <1>1 DEF Frames
  <2> DEFINE U == S \union S2
             H == Tail(G)
             f == Head(G)
  <2>3. /\ H \in Seq(S) /\ Len(H) = n /\ f \in S /\ f = G[1]
        /\ \A i \in 1..n : H[i] = G[i + 1]
    BY <2>1
  <2>4. PlainFrames(H)
    <3>1. \A i \in 1..n : i + 1 \in 1..(n + 1) OBVIOUS
    <3> QED BY <2>3, <3>1 DEF PlainFrames, Frames
  <2>5. Plain(f)
    <3>1. 1 \in 1..(n + 1) OBVIOUS
    <3> QED BY <2>3, <3>1 DEF PlainFrames
  <2>6. G = <<f>> \o H
    <3> HIDE DEF f, H
    <3>1. <<f>> \in Seq(S) /\ Len(<<f>>) = 1 BY <2>3
    <3>2. <<f>> \o H \in Seq(S) /\ Len(<<f>> \o H) = n + 1 BY <2>3, <3>1
    <3>3. \A i \in 1..(n + 1) : (<<f>> \o H)[i] = G[i]
      BY <2>3, <3>1
    <3> QED BY <2>1, <3>2, <3>3, SeqEqual
  <2> HIDE DEF H, f
  <2>7. H \in Seq(U) /\ fs \in Seq(U) /\ <<f>> \in Seq(U) BY <2>2, <2>3
  <2>8. G \o fs = <<f>> \o (H \o fs)
    <3> HIDE DEF U
    <3> QED BY <2>6, <2>7, ConcatAssociative
  <2>9. Viewed(H \o fs, B, u) BY <1>3, <2>3, <2>4
  <2> QED BY <2>5, <2>8, <2>9, PushPlain
<1>4. Nat \subseteq T
  <2> HIDE DEF T
  <2> QED BY <1>2, <1>3, Induction
<1>5. Len(F) \in Nat BY DEF PlainFrames, Frames
<1> QED BY <1>4, <1>5

LEMMA PlainNone == PlainFrames(<< >>)
<1>1. << >> \in Seq({}) OBVIOUS
<1>2. Frames(<< >>) BY <1>1 DEF Frames
<1> QED BY <1>2 DEF PlainFrames

LEMMA PlainOne ==
  ASSUME NEW a, Plain(a) PROVE PlainFrames(<<a>>)
<1> DEFINE F == <<a>>
<1>1. F \in Seq({a}) OBVIOUS
<1>2. Frames(F) BY <1>1 DEF Frames
<1>3. Len(F) = 1 /\ F[1] = a OBVIOUS
<1> HIDE DEF F
<1>4. \A i \in 1..Len(F) : i = 1 BY <1>3
<1>5. \A i \in 1..Len(F) : Plain(F[i]) BY <1>3, <1>4
<1>6. PlainFrames(F) BY <1>2, <1>5 DEF PlainFrames
<1> QED BY <1>6 DEF F

LEMMA PlainTwo ==
  ASSUME NEW a, NEW b, Plain(a), Plain(b) PROVE PlainFrames(<<a, b>>)
<1> DEFINE F == <<a, b>>
<1>1. F \in Seq({a, b}) OBVIOUS
<1>2. Frames(F) BY <1>1 DEF Frames
<1>3. Len(F) = 2 /\ F[1] = a /\ F[2] = b OBVIOUS
<1> HIDE DEF F
<1>4. \A i \in 1..Len(F) : i = 1 \/ i = 2 BY <1>3
<1>5. \A i \in 1..Len(F) : Plain(F[i]) BY <1>3, <1>4
<1>6. PlainFrames(F) BY <1>2, <1>5 DEF PlainFrames
<1> QED BY <1>6 DEF F

LEMMA PlainThree ==
  ASSUME NEW a, NEW b, NEW c, Plain(a), Plain(b), Plain(c) PROVE PlainFrames(<<a, b, c>>)
<1> DEFINE F == <<a, b, c>>
<1>1. F \in Seq({a, b, c}) OBVIOUS
<1>2. Frames(F) BY <1>1 DEF Frames
<1>3. Len(F) = 3 /\ F[1] = a /\ F[2] = b /\ F[3] = c OBVIOUS
<1> HIDE DEF F
<1>4. \A i \in 1..Len(F) : i = 1 \/ i = 2 \/ i = 3 BY <1>3
<1>5. \A i \in 1..Len(F) : Plain(F[i]) BY <1>3, <1>4
<1>6. PlainFrames(F) BY <1>2, <1>5 DEF PlainFrames
<1> QED BY <1>6 DEF F

LEMMA PlainFour ==
  ASSUME NEW a, NEW b, NEW c, NEW d, Plain(a), Plain(b), Plain(c), Plain(d) PROVE PlainFrames(<<a, b, c, d>>)
<1> DEFINE F == <<a, b, c, d>>
<1>1. F \in Seq({a, b, c, d}) OBVIOUS
<1>2. Frames(F) BY <1>1 DEF Frames
<1>3. Len(F) = 4 /\ F[1] = a /\ F[2] = b /\ F[3] = c /\ F[4] = d OBVIOUS
<1> HIDE DEF F
<1>4. \A i \in 1..Len(F) : i = 1 \/ i = 2 \/ i = 3 \/ i = 4 BY <1>3
<1>5. \A i \in 1..Len(F) : Plain(F[i]) BY <1>3, <1>4
<1>6. PlainFrames(F) BY <1>2, <1>5 DEF PlainFrames
<1> QED BY <1>6 DEF F

-----------------------------------------------------------------------------
(***************************************************************************)
(* The invariant.                                                          *)
(***************************************************************************)
View == [s |-> Len(builder.scopes), e |-> env, v |-> builder.visibility_scope]
Viewing == todo # << >> => Viewed(todo, builder, View)

\* A resolution was right, and of a variable that was visible.
UseOK(B, use) ==
  use.own \/ /\ use.got = use.want /\ use.got \in LocalsOf(B)
             /\ Around(B, B.local_decls[use.got].scope, use.scope)
UsesOK == \A use \in lookups : UseOK(builder, use)
NInv == Viewing /\ UsesOK

\* A step that keeps what is there, and the view right.
Goes == Longer(builder, builder') /\ Viewing'
\* Both builders are good, whatever the step (see Inductive).
Good == BuilderOK(builder) /\ BuilderOK(builder')

\* Plain frames take the place of a plain frame.
Gentle == SameView(builder, builder') /\ env' = env

LEMMA GentlyOn ==
  ASSUME Good, Viewing, todo # << >>, Plain(Top), Gentle,
         NEW F, PlainFrames(F), Then(F)
  PROVE  Goes
<1>1. Viewed(todo, builder, View) BY DEF Viewing
<1>2. IsView(View) /\ View.s = Len(builder.scopes) /\ View.s \in Nat BY Counts DEF View, IsView, Good
<1>3. Viewed(Tail(todo), builder, View)
  <2>1. Follows(View, Top) = View BY <1>2, PlainFollows
  <2> QED BY <1>1, <2>1, ViewPop DEF Top
<1>4. Longer(builder, builder') /\ SameVariables(builder, builder', View.s)
  BY <1>2 DEF Gentle, SameView
<1>5. Viewed(Tail(todo), builder', View) BY <1>3, <1>4, ViewedKept DEF Good
<1>6. Viewed(F \o Tail(todo), builder', View) BY <1>2, <1>5, PushPlains
<1>7. View' = View BY DEF View, Gentle, SameView
<1>8. todo' = F \o Tail(todo) BY DEF Then
<1> QED BY <1>4, <1>6, <1>7, <1>8 DEF Goes, Viewing

(***************************************************************************)
(* Steps that only work on the graph.                                      *)
(***************************************************************************)
LEMMA SameSelf == ASSUME Good PROVE SameNames(builder, builder)
BY Shape, SameReflexive DEF Good

LEMMA BlockOn ==
  ASSUME NEW A, NEW B, SameNames(A, B), NEW h PROVE SameNames(A, start_new_block(B, h))
BY BlockSame, SameTransitive DEF SameNames

LEMMA PushOn ==
  ASSUME NEW A, NEW B, SameNames(A, B), NEW b, NEW s PROVE SameNames(A, push(B, b, s))
BY PushSame, SameTransitive DEF SameNames

LEMMA UnitOn ==
  ASSUME NEW A, NEW B, SameNames(A, B), NEW b, NEW d PROVE SameNames(A, push_assign_unit(B, b, d))
BY PushOn DEF push_assign_unit

LEMMA StorageOn ==
  ASSUME NEW A, NEW B, SameNames(A, B), NEW b, NEW ls PROVE SameNames(A, storage_live(B, b, ls))
<1>1. SameNames(B, storage_live(B, b, ls)) BY PushAllSame DEF storage_live, SameNames
<1> QED BY <1>1, SameTransitive

LEMMA TerminateOn ==
  ASSUME NEW A, NEW B, SameNames(A, B), NEW b, NEW t PROVE SameNames(A, terminate(B, b, t))
BY TerminateSame, SameTransitive DEF SameNames

LEMMA ReturnOn ==
  ASSUME NEW A, NEW B, SameNames(A, B) PROVE SameNames(A, return_block(B))
BY ReturnSame, SameTransitive DEF SameNames

LEMMA AssertsOn ==
  ASSUME NEW A, NEW B, SameNames(A, B), NEW p PROVE SameNames(A, [B EXCEPT !.asserts = p])
BY AssertsSame, SameTransitive DEF SameNames

LEMMA LoopsOn ==
  ASSUME NEW A, NEW B, SameNames(A, B), NEW p PROVE SameNames(A, [B EXCEPT !.loop_scopes = p])
BY LoopsSame, SameTransitive DEF SameNames

\* The step of an action that is about no scope or name: it works on the
\* graph only, or makes a temporary, and puts plain frames in place of one.
Plainly ==
  /\ todo # << >> /\ Plain(Top) /\ env' = env
  /\ \/ SameNames(builder, builder')
     \/ builder.scopes # << >> /\ builder' = temp(builder, block)
  /\ \E F : PlainFrames(F) /\ Then(F)

LEMMA PlainlyGoes == ASSUME Good, Viewing, Plainly PROVE Goes
<1>1. PICK F : PlainFrames(F) /\ Then(F) BY DEF Plainly
<1>2. Gentle BY SameViews, TempAdds DEF Plainly, Gentle, Good
<1> QED BY <1>1, <1>2, GentlyOn DEF Plainly

LEMMA SameOn ==
  ASSUME Good, todo # << >>, Plain(Top), SameNames(builder, builder'), env' = env,
         NEW F, PlainFrames(F), Then(F)
  PROVE  Plainly
BY DEF Plainly

LEMMA StillOn ==
  ASSUME Good, todo # << >>, Plain(Top), builder' = builder, env' = env,
         NEW F, PlainFrames(F), Then(F)
  PROVE  Plainly
BY SameSelf, SameOn

LEMMA TempOn ==
  ASSUME todo # << >>, Plain(Top), builder.scopes # << >>,
         builder' = temp(builder, block), env' = env, NEW F, PlainFrames(F), Then(F)
  PROVE  Plainly
BY DEF Plainly

LEMMA PreparedSame == ASSUME Good PROVE SameNames(builder, Prepared)
BY SameSelf, UnitOn DEF Prepared

LEMMA IntoConstantPlain == ASSUME Good, IntoConstant PROVE Plainly
<1>1. todo # << >> /\ Plain(Top) BY DEF IntoConstant, At, Plain
<1>2. SameNames(builder, builder') BY SameSelf, UnitOn DEF IntoConstant
<1>3. env' = env /\ Then(<< >>) BY DEF IntoConstant, program
<1> QED BY <1>1, <1>2, <1>3, PlainNone, SameOn

LEMMA IntoPathPlain == ASSUME Good, NEW name, IntoPath(name) PROVE Plainly
<1>1. todo # << >> /\ Plain(Top) BY DEF IntoPath, At, Plain
<1>2. SameNames(builder, builder') BY SameSelf, PushOn DEF IntoPath
<1>3. env' = env /\ Then(<< >>) BY DEF IntoPath
<1> QED BY <1>1, <1>2, <1>3, PlainNone, SameOn

LEMMA OperandConstantPlain == ASSUME Good, OperandConstant PROVE Plainly
<1>1. todo # << >> /\ Plain(Top) BY DEF OperandConstant, At, Plain
<1>2. builder' = builder /\ env' = env /\ Then(<< >>) BY DEF OperandConstant, program
<1> QED BY <1>1, <1>2, PlainNone, StillOn

LEMMA OperandPathPlain == ASSUME Good, NEW name, OperandPath(name) PROVE Plainly
<1>1. todo # << >> /\ Plain(Top) BY DEF OperandPath, At, Plain
<1>2. builder' = builder /\ env' = env /\ Then(<< >>) BY DEF OperandPath
<1> QED BY <1>1, <1>2, PlainNone, StillOn

LEMMA OperandTempPlain ==
  ASSUME builder.scopes # << >>, OperandTemp PROVE Plainly
<1> DEFINE use(moved) == [do |-> "use_temp", local |-> NextLocal(builder), moved |-> moved]
<1>1. todo # << >> /\ Plain(Top) BY DEF OperandTemp, At, Plain
<1>2. builder' = temp(builder, block) /\ env' = env BY DEF OperandTemp, program
<1>3. \E but, moved : Then(<<Into(NextLocal(builder), but), use(moved)>>)
  BY DEF OperandTemp
<1>4. PICK but, moved : Then(<<Into(NextLocal(builder), but), use(moved)>>) BY <1>3
<1>5. Plain(Into(NextLocal(builder), but)) /\ Plain(use(moved)) BY DEF Plain, Into
<1> HIDE DEF use
<1>6. PlainFrames(<<Into(NextLocal(builder), but), use(moved)>>) BY <1>5, PlainTwo
<1> QED BY <1>1, <1>2, <1>4, <1>6, TempOn

LEMMA UseTempPlain == ASSUME Good, UseTemp PROVE Plainly
<1>1. todo # << >> /\ Plain(Top) BY DEF UseTemp, At, Plain
<1>2. builder' = builder /\ env' = env /\ Then(<< >>) BY DEF UseTemp, program
<1> QED BY <1>1, <1>2, PlainNone, StillOn

LEMMA RvalueMacPlain == ASSUME Good, RvalueMac PROVE Plainly
<1>1. todo # << >> /\ Plain(Top) BY DEF RvalueMac, At, Plain
<1>2. builder' = builder /\ env' = env /\ Then(<< >>) BY DEF RvalueMac
<1> QED BY <1>1, <1>2, PlainNone, StillOn

LEMMA StmtOtherPlain == ASSUME builder.scopes # << >>, StmtOther PROVE Plainly
<1> DEFINE f == Into(NextLocal(builder), Direct)
<1>1. todo # << >> /\ Plain(Top) BY DEF StmtOther, At, Plain
<1>2. builder' = temp(builder, block) /\ env' = env /\ Then(<<f>>) BY DEF StmtOther, program
<1>3. PlainFrames(<<f>>)
  <2>1. Plain(f) BY DEF Plain, Into
  <2> QED BY <2>1, PlainOne
<1> QED BY <1>1, <1>2, <1>3, TempOn

LEMMA AssignExprPlain == ASSUME Good, NEW name, AssignExpr(name) PROVE Plainly
<1> DEFINE f(op) == [do |-> "assign", name |-> name, op |-> op]
<1>1. todo # << >> /\ Plain(Top) BY DEF AssignExpr, At, Plain
<1>2. SameNames(builder, builder') BY PreparedSame DEF AssignExpr
<1>3. env' = env /\ (Then(<<Rvalue, f(FALSE)>>) \/ Then(<<Operand, f(TRUE)>>))
  BY DEF AssignExpr, program
<1>4. Plain(Rvalue) /\ Plain(Operand) /\ Plain(f(FALSE)) /\ Plain(f(TRUE))
  BY DEF Plain, Rvalue, Operand
<1> HIDE DEF f
<1>5. PlainFrames(<<Rvalue, f(FALSE)>>) /\ PlainFrames(<<Operand, f(TRUE)>>) BY <1>4, PlainTwo
<1> QED BY <1>1, <1>2, <1>3, <1>5, SameOn

LEMMA AssignPlain == ASSUME Good, Assign PROVE Plainly
<1>1. todo # << >> /\ Plain(Top) BY DEF Assign, At, Plain
<1>2. SameNames(builder, builder') BY SameSelf, PushOn DEF Assign
<1>3. env' = env /\ Then(<< >>) BY DEF Assign
<1> QED BY <1>1, <1>2, <1>3, PlainNone, SameOn

LEMMA ExitPlain == ASSUME NEW e, NEW t PROVE Plain(Exit(e, t)) /\ PlainFrames(<<Exit(e, t)>>)
<1>1. Plain(Exit(e, t)) BY DEF Plain, Exit
<1> QED BY <1>1, PlainOne

LEMMA ValuePlain ==
  ASSUME NEW d, NEW but, NEW e, NEW t PROVE PlainFrames(<<Into(d, but), Exit(e, t)>>)
<1>1. Plain(Into(d, but)) BY DEF Plain, Into
<1> QED BY <1>1, ExitPlain, PlainTwo

LEMMA BreakExprPlain == ASSUME Good, NEW i, BreakExpr(i) PROVE Plainly
<1> DEFINE loop == builder.loop_scopes[i]
           exit == Exit(loop.extent, loop.break_block)
           value == Into(loop.break_destination, {})
<1>1. todo # << >> /\ Plain(Top) BY DEF BreakExpr, At, Plain
<1>2. SameNames(builder, builder') BY PreparedSame, UnitOn DEF BreakExpr
<1>3. env' = env /\ (Then(<<exit>>) \/ Then(<<value, exit>>)) BY DEF BreakExpr, program
<1>4. PlainFrames(<<exit>>) /\ PlainFrames(<<value, exit>>) BY ExitPlain, ValuePlain
<1> HIDE DEF exit, value
<1> QED BY <1>1, <1>2, <1>3, <1>4, SameOn

LEMMA ContinueExprPlain == ASSUME Good, NEW i, ContinueExpr(i) PROVE Plainly
<1> DEFINE exit == Exit(builder.loop_scopes[i].extent, builder.loop_scopes[i].continue_block)
<1>1. todo # << >> /\ Plain(Top) BY DEF ContinueExpr, At, Plain
<1>2. SameNames(builder, builder') BY PreparedSame DEF ContinueExpr
<1>3. env' = env /\ Then(<<exit>>) BY DEF ContinueExpr, program
<1>4. PlainFrames(<<exit>>) BY ExitPlain
<1> HIDE DEF exit
<1> QED BY <1>1, <1>2, <1>3, <1>4, SameOn

LEMMA ReturnExprPlain == ASSUME Good, ReturnExpr PROVE Plainly
<1> DEFINE exit == Exit(PARAMETERS, None)
           value == Into(RETURN_POINTER, {})
<1>1. todo # << >> /\ Plain(Top) BY DEF ReturnExpr, At, Plain
<1>2. SameNames(builder, builder') BY PreparedSame, UnitOn DEF ReturnExpr
<1>3. env' = env /\ (Then(<<exit>>) \/ Then(<<value, exit>>)) BY DEF ReturnExpr, program
<1>4. PlainFrames(<<exit>>) /\ PlainFrames(<<value, exit>>) BY ExitPlain, ValuePlain
<1> HIDE DEF exit, value
<1> QED BY <1>1, <1>2, <1>3, <1>4, SameOn

\* Leaving scopes does not take them off.
LEMMA ExitOn ==
  ASSUME NEW A, NEW B, SameNames(A, B), Len(B.scopes) \in Nat, Len(B.scopes) >= 1,
         NEW extent, NEW b, NEW target, NEW after
  PROVE  SameNames(A, exit_scope(B, extent, b, target, after))
<1> DEFINE k == Len(B.scopes)
           encloses == {i \in 1..k : B.scopes[i].extent = extent}
           at == IF encloses = {} THEN 1 ELSE Latest(encloses)
           Scope(n) == B.scopes[k + 1 - n]
           Round(F, n) == build_scope_drops(F, b, Scope(n).drops \intersect initialized_decls(Scope(n)), Scope(n))
           Rounds(g, m) == g = [n \in 0..m |-> IF n = 0 THEN B ELSE Round(g[n - 1], n)]
           T == {m \in Nat : \E g : Rounds(g, m)}
           t == Jump("Break", <<target, after>>, NoOperand)
           X == exit_scope(B, extent, b, target, after)
           none == \A i \in (at + 1)..k : \A l \in B.scopes[i].drops :
                     ~ScheduledIn(SubSeq(B.scopes, 1, i - 1), l)
<1>1. 0 \in T
  <2>1. Rounds([n \in 0..0 |-> B], 0) OBVIOUS
  <2> QED BY <2>1
<1>2. ASSUME NEW m \in Nat, m \in T PROVE m + 1 \in T
  <2>1. PICK g : Rounds(g, m) BY <1>2
  <2> DEFINE h == [n \in 0..(m + 1) |-> IF n <= m THEN g[n] ELSE Round(g[n - 1], n)]
  <2> HIDE DEF Round
  <2>2. ASSUME NEW n \in 0..(m + 1), n # 0 PROVE h[n] = Round(h[n - 1], n)
    <3>1. n - 1 \in 0..m /\ h[n - 1] = g[n - 1] BY <2>2
    <3>2. CASE n <= m
      <4>1. n \in 0..m /\ h[n] = g[n] BY <3>2
      <4> QED BY <2>1, <2>2, <3>1, <4>1
    <3>3. CASE ~(n <= m) BY <3>1, <3>3
    <3> QED BY <3>2, <3>3
  <2>3. h[0] = B BY <2>1
  <2>4. Rounds(h, m + 1)
    <3> DEFINE r == [n \in 0..(m + 1) |-> IF n = 0 THEN B ELSE Round(h[n - 1], n)]
    <3>1. \A n \in 0..(m + 1) : h[n] = r[n] BY <2>2, <2>3
    <3>2. h = [n \in 0..(m + 1) |-> h[n]] OBVIOUS
    <3> HIDE DEF h
    <3> QED BY <3>1, <3>2
  <2> HIDE DEF Rounds, h
  <2> QED BY <2>4
<1>3. k \in Nat /\ k >= 1 OBVIOUS
<1>4. at \in 1..k
  <2>1. encloses \in SUBSET (0..k) OBVIOUS
  <2>2. encloses # {} => Latest(encloses) \in encloses
    <3> HIDE DEF encloses
    <3> QED BY <1>3, <2>1, LatestMember
  <2> QED BY <1>3, <2>2
<1> HIDE DEF at, none
<1>5. k - at \in Nat BY <1>3, <1>4
<1>6. SameNames(A, X)
  <2>1. Nat \subseteq T
    <3> HIDE DEF T
    <3> QED BY <1>1, <1>2, Induction
  <2>2. \E g : Rounds(g, k - at) BY <1>5, <2>1
  <2>3. \E g : /\ Rounds(g, k - at)
               /\ X = [terminate(g[k - at], b, t) EXCEPT
                         !.asserts = /\ @ /\ encloses # {} /\ at > 1 /\ none]
    BY <2>2 DEF exit_scope, at, none
  <2>4. PICK g : /\ Rounds(g, k - at)
                 /\ X = [terminate(g[k - at], b, t) EXCEPT
                           !.asserts = /\ @ /\ encloses # {} /\ at > 1 /\ none]
    BY <2>3
  <2> DEFINE U == {m \in Nat : m <= k - at => SameNames(A, g[m])}
  <2> HIDE DEF Round
  <2>5. 0 \in U
    <3>1. g[0] = B BY <1>5, <2>4
    <3> QED BY <3>1
  <2>6. ASSUME NEW m \in Nat, m \in U PROVE m + 1 \in U
    <3> SUFFICES ASSUME m + 1 <= k - at PROVE SameNames(A, g[m + 1]) OBVIOUS
    <3>1. m + 1 \in 0..(k - at) /\ (m + 1) - 1 = m /\ m + 1 # 0 /\ m <= k - at BY <1>5
    <3>2. g[m + 1] = Round(g[m], m + 1) BY <2>4, <3>1
    <3>3. SameNames(A, g[m]) BY <2>6, <3>1
    <3> HIDE DEF Scope
    <3>4. SameNames(g[m], Round(g[m], m + 1))
      BY <3>3, PushAllSame DEF Round, build_scope_drops, SameNames
    <3> QED BY <3>2, <3>3, <3>4, SameTransitive
  <2> HIDE DEF U
  <2>7. Nat \subseteq U BY <2>5, <2>6, Induction
  <2>8. SameNames(A, g[k - at]) BY <1>5, <2>7 DEF U
  <2> DEFINE E == terminate(g[k - at], b, t)
             p == E.asserts /\ encloses # {} /\ at > 1 /\ none
  <2>9. SameNames(A, E)
    <3> HIDE DEF t
    <3> QED BY <2>8, TerminateOn
  <2>10. X = [E EXCEPT !.asserts = @ /\ encloses # {} /\ at > 1 /\ none] BY <2>4
  <2> HIDE DEF E, X, encloses
  <2>11. X = [E EXCEPT !.asserts = p] BY <2>10
  <2> HIDE DEF p
  <2> QED BY <2>9, <2>11, AssertsOn
<1> QED BY <1>6

LEMMA ExitScopePlain == ASSUME Good, builder.scopes # << >>, ExitScope PROVE Plainly
<1> DEFINE S == return_block(builder)
           p == S.asserts /\ Len(builder.scopes) >= 2 /\ builder.scopes[2].extent = PARAMETERS
           R == IF Top.target # None THEN builder
                ELSE [return_block(builder) EXCEPT
                        !.asserts = @ /\ Len(builder.scopes) >= 2
                                      /\ builder.scopes[2].extent = PARAMETERS]
           target == IF Top.target # None THEN Top.target ELSE R.cached_return_block
           P == start_new_block(R, Open(R))
           X == exit_scope(P, Top.extent, block, target, NextBlock(R))
<1>1. todo # << >> /\ Plain(Top) BY DEF ExitScope, At, Plain
<1>2. builder' = X /\ env' = env /\ Then(<< >>) BY DEF ExitScope, program
<1>3. SameNames(builder, S) BY SameSelf, ReturnOn
<1> HIDE DEF S
<1>4. R = IF Top.target # None THEN builder ELSE [S EXCEPT !.asserts = p] BY DEF S
<1> HIDE DEF p, R
<1>5. SameNames(builder, R)
  <2>1. SameNames(builder, builder) BY SameSelf
  <2>2. SameNames(builder, [S EXCEPT !.asserts = p]) BY <1>3, AssertsOn
  <2> QED BY <1>4, <2>1, <2>2
<1>6. SameNames(builder, P) BY <1>5, BlockOn
<1>7. P.scopes = builder.scopes BY <1>6 DEF SameNames
<1> HIDE DEF P, target
<1>8. Len(P.scopes) \in Nat /\ Len(P.scopes) >= 1
  <2>1. builder.scopes \in Seq(ScopeRecords) BY Counts DEF Good
  <2> QED BY <1>7, <2>1
<1>9. SameNames(builder, X) BY <1>6, <1>8, ExitOn
<1> HIDE DEF X
<1> QED BY <1>1, <1>2, <1>9, PlainNone, SameOn

-----------------------------------------------------------------------------
LEMMA BlockExprPlain == ASSUME Good, BlockExpr PROVE Plainly
<1> DEFINE f == InnerBlock(Top.dest)
<1>1. todo # << >> /\ Plain(Top) BY DEF BlockExpr, At, Plain
<1>2. builder' = builder /\ env' = env /\ Then(<<f>>) BY DEF BlockExpr, program
<1>3. Plain(f) BY DEF Plain, InnerBlock
<1> HIDE DEF f
<1> QED BY <1>1, <1>2, <1>3, PlainOne, StillOn

LEMMA LetPatternPlain == ASSUME Good, LetPattern PROVE Plainly
<1> DEFINE v == Last(operands)
           s == [Write(ToSet(Top.locals), v.moved \union v.read, {}) EXCEPT !.op = "Let"]
           P == push(storage_live(builder, block, Top.locals), block, s)
           p == P.asserts /\ Top.locals # << >>
<1>1. todo # << >> /\ Plain(Top) BY DEF LetPattern, At, Plain
<1>2. builder' = [P EXCEPT !.asserts = p] /\ env' = env /\ Then(<< >>)
  BY DEF LetPattern, program
<1> HIDE DEF s
<1>3. SameNames(builder, P) BY SameSelf, StorageOn, PushOn
<1> HIDE DEF P, p
<1>4. SameNames(builder, builder') BY <1>2, <1>3, AssertsOn
<1> QED BY <1>1, <1>2, <1>4, PlainNone, SameOn

LEMMA IfExprPlain == ASSUME Good, IfExpr PROVE Plainly
<1> DEFINE f == [do |-> "then", dest |-> Top.dest]
<1>1. todo # << >> /\ Plain(Top) BY DEF IfExpr, At, Plain
<1>2. builder' = builder /\ env' = env /\ Then(<<Operand, f>>) BY DEF IfExpr, program
<1>3. Plain(f) /\ Plain(Operand) BY DEF Plain, Operand
<1> HIDE DEF f
<1> QED BY <1>1, <1>2, <1>3, PlainTwo, StillOn

LEMMA IfThenPlain == ASSUME Good, IfThen PROVE Plainly
<1> DEFINE n == NextBlock(builder)
           f == InnerBlock(Top.dest)
           g == [do |-> "else", dest |-> Top.dest, block |-> n + 1]
           t == Jump("If", <<n, n + 1>>, Last(operands))
<1>1. todo # << >> /\ Plain(Top) BY DEF IfThen, At, Plain
<1>2. /\ builder' = terminate(start_new_block(start_new_block(builder, Open(builder)), Open(builder)),
                              block, t)
      /\ env' = env /\ Then(<<f, g>>)
  BY DEF IfThen, program
<1>3. Plain(f) /\ Plain(g) BY DEF Plain, InnerBlock
<1> HIDE DEF f, g, t
<1>4. SameNames(builder, builder') BY <1>2, SameSelf, BlockOn, TerminateOn
<1> QED BY <1>1, <1>2, <1>3, <1>4, PlainTwo, SameOn

LEMMA PairOf == ASSUME NEW a, NEW b PROVE <<a>> \o <<b>> = <<a, b>>
<1> DEFINE S == {a, b}
           P == <<a>> \o <<b>>
<1>1. <<a>> \in Seq(S) /\ <<b>> \in Seq(S) /\ <<a, b>> \in Seq(S) OBVIOUS
<1>2. Len(<<a>>) = 1 /\ Len(<<b>>) = 1 /\ Len(<<a, b>>) = 2 OBVIOUS
<1>3. <<a>>[1] = a /\ <<b>>[1] = b /\ <<a, b>>[1] = a /\ <<a, b>>[2] = b OBVIOUS
<1>4. Len(P) = 2 /\ P \in Seq(S) /\ P[1] = a /\ P[2] = b
  <2> DEFINE x == <<a>>
             y == <<b>>
  <2>1. x \in Seq(S) /\ y \in Seq(S) /\ Len(x) = 1 /\ Len(y) = 1 /\ x[1] = a /\ y[1] = b BY <1>1, <1>2, <1>3
  <2> HIDE DEF x, y, S
  <2>2. /\ x \o y \in Seq(S) /\ Len(x \o y) = Len(x) + Len(y)
        /\ \A i \in 1..(Len(x) + Len(y)) : (x \o y)[i] = IF i <= Len(x) THEN x[i] ELSE y[i - Len(x)]
    BY <2>1, ConcatProperties
  <2>3. (x \o y)[1] = x[1] /\ (x \o y)[2] = y[1] BY <2>1, <2>2
  <2> QED BY <2>1, <2>2, <2>3 DEF x, y
<1> DEFINE Q == <<a, b>>
<1>5. Q \in Seq(S) /\ Len(Q) = 2 /\ Q[1] = a /\ Q[2] = b BY <1>1, <1>2, <1>3
<1> HIDE DEF P, Q
<1>6. P = Q
  <2>1. \A i \in 1..2 : P[i] = Q[i] BY <1>4, <1>5
  <2>2. P \in [1..2 -> S] /\ Q \in [1..2 -> S] BY <1>4, <1>5
  <2> QED BY <2>1, <2>2
<1> QED BY <1>6 DEF P, Q

LEMMA IfElsePlain == ASSUME Good, IfElse PROVE Plainly
<1> DEFINE g == [do |-> "join", then_end |-> block]
           f == InnerBlock(Top.dest)
           h == Into(Top.dest, Forms \ {"if"})
<1>1. todo # << >> /\ Plain(Top) BY DEF IfElse, At, Plain
<1>2. /\ env' = env
      /\ \/ builder' = push_assign_unit(builder, Top.block, Top.dest) /\ Then(<<g>>)
         \/ builder' = builder /\ Then(<<f>> \o <<g>>)
         \/ builder' = builder /\ Then(<<h>> \o <<g>>)
  BY DEF IfElse, program
<1>3. Plain(f) /\ Plain(g) /\ Plain(h) BY DEF Plain, InnerBlock, Into
<1>5. SameNames(builder, push_assign_unit(builder, Top.block, Top.dest)) BY SameSelf, UnitOn
<1> HIDE DEF f, g, h
<1>4. <<f>> \o <<g>> = <<f, g>> /\ <<h>> \o <<g>> = <<h, g>> BY PairOf
<1>6. PlainFrames(<<g>>) /\ PlainFrames(<<f, g>>) /\ PlainFrames(<<h, g>>)
  BY <1>3, PlainOne, PlainTwo
<1> QED BY <1>1, <1>2, <1>4, <1>5, <1>6, StillOn, SameOn

LEMMA IfJoinPlain == ASSUME Good, IfJoin PROVE Plainly
<1> DEFINE t == Jump("Goto", <<NextBlock(builder)>>, NoOperand)
<1>1. todo # << >> /\ Plain(Top) BY DEF IfJoin, At, Plain
<1>2. /\ builder' = terminate(terminate(start_new_block(builder, Open(builder)), Top.then_end, t), block, t)
      /\ env' = env /\ Then(<< >>)
  BY DEF IfJoin, program
<1> HIDE DEF t
<1>3. SameNames(builder, builder') BY <1>2, SameSelf, BlockOn, TerminateOn
<1> QED BY <1>1, <1>2, <1>3, PlainNone, SameOn

LEMMA LoopExprPlain == ASSUME Good, LoopExpr PROVE Plainly
<1> DEFINE n == NextBlock(builder)
           loop == [extent |-> extent_of_innermost_scope(builder), continue_block |-> n,
                    break_block |-> n + 1, break_destination |-> Top.dest]
           end == [do |-> "loop_end", loop |-> loop]
           test == [do |-> "test", loop |-> loop]
           body == [do |-> "body"]
           T == terminate(start_new_block(start_new_block(builder, Open(builder)), Open(builder)),
                          block, Jump("Goto", <<n>>, NoOperand))
           loops == Append(T.loop_scopes, loop)
<1>1. todo # << >> /\ Plain(Top) BY DEF LoopExpr, At, Plain
<1>2. /\ builder' = [T EXCEPT !.loop_scopes = loops] /\ env' = env
      /\ Then(<<Operand, test, body, end>>) \/ Then(<<body, end>>)
  BY DEF LoopExpr, program
<1>3. Plain(Operand) /\ Plain(test) /\ Plain(body) /\ Plain(end) BY DEF Plain, Operand
<1> HIDE DEF test, body, end, loop, loops, n
<1>4. SameNames(builder, T) BY SameSelf, BlockOn, TerminateOn
<1> HIDE DEF T
<1>5. SameNames(builder, builder') BY <1>2, <1>4, LoopsOn
<1>6. PlainFrames(<<Operand, test, body, end>>) /\ PlainFrames(<<body, end>>)
  BY <1>3, PlainTwo, PlainFour
<1> QED BY <1>1, <1>2, <1>5, <1>6, SameOn

LEMMA WhileTestPlain == ASSUME Good, WhileTest PROVE Plainly
<1> DEFINE t == Jump("If", <<NextBlock(builder), Top.loop.break_block>>, Last(operands))
<1>1. todo # << >> /\ Plain(Top) BY DEF WhileTest, At, Plain
<1>2. /\ builder' = push_assign_unit(terminate(start_new_block(builder, Open(builder)), block, t),
                                     Top.loop.break_block, Top.loop.break_destination)
      /\ env' = env /\ Then(<< >>)
  BY DEF WhileTest, program
<1> HIDE DEF t
<1>3. SameNames(builder, builder') BY <1>2, SameSelf, BlockOn, TerminateOn, UnitOn
<1> QED BY <1>1, <1>2, <1>3, PlainNone, SameOn

LEMMA LoopBodyPlain == ASSUME builder.scopes # << >>, LoopBody PROVE Plainly
<1> DEFINE f == InnerBlock(NextLocal(builder))
<1>1. todo # << >> /\ Plain(Top) BY DEF LoopBody, At, Plain
<1>2. builder' = temp(builder, block) /\ env' = env /\ Then(<<f>>) BY DEF LoopBody, program
<1>3. Plain(f) BY DEF Plain, InnerBlock
<1> HIDE DEF f
<1> QED BY <1>1, <1>2, <1>3, PlainOne, TempOn

LEMMA LoopEndPlain == ASSUME Good, LoopEnd PROVE Plainly
<1> DEFINE T == terminate(builder, block, Jump("Goto", <<Top.loop.continue_block>>, NoOperand))
           p == T.asserts /\ Last(builder.loop_scopes).extent = Top.loop.extent
           loops == Front(T.loop_scopes)
<1>1. todo # << >> /\ Plain(Top) BY DEF LoopEnd, At, Plain
<1>2. SameNames(builder, T) BY SameSelf, TerminateOn
<1>3. env' = env /\ Then(<< >>) BY DEF LoopEnd, program
<1>4. builder' = [T EXCEPT !.asserts = @ /\ Last(builder.loop_scopes).extent = Top.loop.extent,
                           !.loop_scopes = Front(@)]
  BY DEF LoopEnd
<1> HIDE DEF T
<1>5. builder' = [T EXCEPT !.asserts = p, !.loop_scopes = loops]
  BY <1>2, <1>4 DEF SameNames, Shaped, BuilderFieldNames
<1> HIDE DEF p, loops
<1>6. SameNames(builder, builder') BY <1>2, <1>5 DEF SameNames, Shaped, BuilderFieldNames
<1> QED BY <1>1, <1>3, <1>6, PlainNone, SameOn

LEMMA MatchExprPlain == ASSUME Good, MatchExpr PROVE Plainly
<1> DEFINE f == [do |-> "match", dest |-> Top.dest]
<1>1. todo # << >> /\ Plain(Top) BY DEF MatchExpr, At, Plain
<1>2. builder' = builder /\ env' = env /\ Then(<<Operand, f>>) BY DEF MatchExpr, program
<1>3. Plain(f) /\ Plain(Operand) BY DEF Plain, Operand
<1> HIDE DEF f
<1> QED BY <1>1, <1>2, <1>3, PlainTwo, StillOn

LEMMA ArmEndPlain == ASSUME Good, ArmEnd PROVE Plainly
<1>1. todo # << >> /\ Plain(Top) BY DEF ArmEnd, At, Plain
<1>2. SameNames(builder, builder') BY SameSelf, TerminateOn DEF ArmEnd
<1>3. env' = env /\ Then(<< >>) BY DEF ArmEnd, program
<1> QED BY <1>1, <1>2, <1>3, PlainNone, SameOn

LEMMA SuspendExprPlain == ASSUME Good, SuspendExpr PROVE Plainly
<1> DEFINE f == [do |-> "suspend", dest |-> Top.dest]
<1>1. todo # << >> /\ Plain(Top) BY DEF SuspendExpr, At, Plain
<1>2. builder' = builder /\ env' = env /\ Then(<<Operand, f>>) BY DEF SuspendExpr
<1>3. Plain(f) /\ Plain(Operand) BY DEF Plain, Operand
<1> HIDE DEF f
<1> QED BY <1>1, <1>2, <1>3, PlainTwo, StillOn

LEMMA SuspendPlain == ASSUME Good, Suspend PROVE Plainly
<1> DEFINE n == NextBlock(builder)
           v == Last(operands)
           t == [op |-> "Suspend", succ |-> <<n>>, binds |-> <<{COROUTINE_ARGS}>>,
                 moved |-> v.moved, read |-> v.read]
           s == Write({Top.dest}, {COROUTINE_ARGS}, {})
<1>1. todo # << >> /\ Plain(Top) BY DEF Suspend, At, Plain
<1>2. /\ builder' = push(terminate(start_new_block(builder, Open(builder)), block, t), n, s)
      /\ env' = env /\ Then(<< >>)
  BY DEF Suspend, program
<1> HIDE DEF t, s, n
<1>3. SameNames(builder, builder') BY <1>2, SameSelf, BlockOn, TerminateOn, PushOn
<1> QED BY <1>1, <1>2, <1>3, PlainNone, SameOn

LEMMA CallExprPlain == ASSUME Good, CallExpr PROVE Plainly
<1> DEFINE f == [do |-> "call", dest |-> Top.dest]
<1>1. todo # << >> /\ Plain(Top) BY DEF CallExpr, At, Plain
<1>2. builder' = builder /\ env' = env /\ Then(<<Operand, Rvalue, f>>) BY DEF CallExpr, program
<1>3. Plain(f) /\ Plain(Operand) /\ Plain(Rvalue) BY DEF Plain, Operand, Rvalue
<1> HIDE DEF f
<1> QED BY <1>1, <1>2, <1>3, PlainThree, StillOn

LEMMA CallPlain == ASSUME Good, Call PROVE Plainly
<1>1. todo # << >> /\ Plain(Top) BY DEF Call, At, Plain
<1>2. SameNames(builder, builder') BY SameSelf, PushOn DEF Call
<1>3. env' = env /\ Then(<< >>) BY DEF Call, program
<1> QED BY <1>1, <1>2, <1>3, PlainNone, SameOn

-----------------------------------------------------------------------------
(***************************************************************************)
(* Scopes are opened and closed.                                           *)
(***************************************************************************)
SameDecls(B, B2) ==
  Shaped(B2) /\ B2.local_decls = B.local_decls /\ B2.visibility_scopes = B.visibility_scopes
FirstScopes(B, B2, s) == \A i \in 1..s : B2.scopes[i] = B.scopes[i]

Opens(B, R) ==
  /\ SameDecls(B, R) /\ R.visibility_scope = B.visibility_scope
  /\ Len(R.scopes) = Len(B.scopes) + 1 /\ FirstScopes(B, R, Len(B.scopes))
  /\ \A name : Named(R, R.scopes[Len(B.scopes) + 1], name) = {}
Pops(B, P, n) ==
  /\ SameDecls(B, P) /\ P.visibility_scope = B.visibility_scope
  /\ P.scopes \in Seq(ScopeRecords)
  /\ Len(P.scopes) = Len(B.scopes) - n /\ FirstScopes(B, P, Len(B.scopes) - n)

LEMMA DeclsLonger ==
  ASSUME NEW B, BuilderOK(B), NEW B2, SameDecls(B, B2) PROVE Longer(B, B2)
<1>1. Len(B.local_decls) \in Nat /\ Len(B.visibility_scopes) \in Nat BY Counts
<1> QED BY <1>1 DEF SameDecls, Longer

LEMMA DeclsVariables ==
  ASSUME NEW B, NEW B2, SameDecls(B, B2), NEW s, FirstScopes(B, B2, s) PROVE SameVariables(B, B2, s)
BY DEF SameDecls, FirstScopes, SameVariables, Named

LEMMA ScopeOpens ==
  ASSUME NEW B, Shaped(B), B.scopes \in Seq(ScopeRecords), NEW extent \in Nat,
         B.visibility_scope \in Nat
  PROVE  Opens(B, push_scope(B, extent)) /\ push_scope(B, extent).scopes \in Seq(ScopeRecords)
<1> DEFINE new == [extent |-> extent, drops |-> {}, visibility_scope |-> B.visibility_scope]
           R == push_scope(B, extent)
           k == Len(B.scopes)
<1>1. /\ Shaped(R) /\ R.local_decls = B.local_decls /\ R.visibility_scopes = B.visibility_scopes
      /\ R.visibility_scope = B.visibility_scope /\ R.scopes = Append(B.scopes, new)
  BY DEF push_scope, Shaped, BuilderFieldNames
<1>2. new \in ScopeRecords /\ new.drops = {} BY DEF ScopeRecords
<1> HIDE DEF new, R
<1>3. /\ R.scopes \in Seq(ScopeRecords) /\ Len(R.scopes) = k + 1 /\ R.scopes[k + 1] = new
      /\ \A i \in 1..k : R.scopes[i] = B.scopes[i]
  BY <1>1, <1>2
<1>4. \A name : Named(R, R.scopes[k + 1], name) = {} BY <1>2, <1>3 DEF Named
<1> QED BY <1>1, <1>3, <1>4 DEF Opens, SameDecls, FirstScopes, R

LEMMA EnterOpens == ASSUME NEW B, BuilderOK(B) PROVE Opens(B, enter_scope(B))
<1> DEFINE E == start_new_extent(B)
           e == B.extents + 1
<1>1. Shaped(B) /\ B.scopes \in Seq(ScopeRecords) /\ B.visibility_scope \in Nat /\ e \in Nat
  BY Shape, Counts, BuilderFields DEF BuilderOK
<1>2. /\ Shaped(E) /\ E.local_decls = B.local_decls /\ E.visibility_scopes = B.visibility_scopes
      /\ E.visibility_scope = B.visibility_scope /\ E.scopes = B.scopes
  BY <1>1 DEF start_new_extent, Shaped, BuilderFieldNames
<1>3. enter_scope(B) = push_scope(E, e) BY DEF enter_scope
<1> HIDE DEF E, e
<1>4. Opens(E, push_scope(E, e)) BY <1>1, <1>2, ScopeOpens
<1>5. Opens(B, push_scope(E, e)) BY <1>2, <1>4 DEF Opens, SameDecls, FirstScopes
<1> QED BY <1>3, <1>5

LEMMA PopPops ==
  ASSUME NEW B, Shaped(B), B.scopes \in Seq(ScopeRecords), B.scopes # << >>, NEW b, NEW extent
  PROVE  Pops(B, pop_scope(B, b, extent), 1)
<1> DEFINE k == Len(B.scopes)
           scope == Last(B.scopes)
           rest == Front(B.scopes)
           S == build_scope_drops(B, b, scope.drops, scope)
           p == /\ S.asserts /\ scope.extent = extent
                /\ \A l \in scope.drops : ~ScheduledIn(rest, l)
           P == pop_scope(B, b, extent)
<1>1. SameNames(B, S) BY PushAllSame DEF build_scope_drops
<1>2. P = [S EXCEPT !.scopes = rest,
                    !.asserts = /\ @ /\ scope.extent = extent
                                /\ \A l \in scope.drops : ~ScheduledIn(rest, l)]
  BY DEF pop_scope
<1>3. k \in Nat /\ k >= 1 OBVIOUS
<1>4. rest \in Seq(ScopeRecords) /\ Len(rest) = k - 1 /\ \A i \in 1..(k - 1) : rest[i] = B.scopes[i]
  BY <1>3 DEF Front
<1> HIDE DEF S, rest, scope, P
<1>5. P = [S EXCEPT !.scopes = rest, !.asserts = p] BY <1>1, <1>2 DEF SameNames, Shaped, BuilderFieldNames
<1> HIDE DEF p
<1>6. /\ Shaped(P) /\ P.local_decls = S.local_decls /\ P.visibility_scopes = S.visibility_scopes
      /\ P.visibility_scope = S.visibility_scope /\ P.scopes = rest
  BY <1>1, <1>5 DEF SameNames, Shaped, BuilderFieldNames
<1>7. Pops(B, P, 1) BY <1>1, <1>4, <1>6 DEF Pops, SameDecls, FirstScopes, SameNames
<1> QED BY <1>7 DEF P

LEMMA PopsNext ==
  ASSUME NEW B, NEW P, NEW Q, NEW n \in Nat, Pops(B, P, n), Pops(P, Q, 1), Len(B.scopes) \in Nat
  PROVE  Pops(B, Q, n + 1)
<1>1. Len(P.scopes) = Len(B.scopes) - n /\ (Len(B.scopes) - n) - 1 = Len(B.scopes) - (n + 1)
  BY DEF Pops
<1>2. FirstScopes(B, Q, Len(B.scopes) - (n + 1))
  <2>1. FirstScopes(B, P, Len(B.scopes) - n) /\ FirstScopes(P, Q, Len(P.scopes) - 1) BY DEF Pops
  <2>2. \A i \in 1..(Len(B.scopes) - (n + 1)) : i \in 1..(Len(B.scopes) - n) /\ i \in 1..(Len(P.scopes) - 1)
    BY <1>1
  <2> QED BY <2>1, <2>2 DEF FirstScopes
<1> QED BY <1>1, <1>2 DEF Pops, SameDecls

\* A step that leaves a program with this view and these frames.
LEMMA Reached ==
  ASSUME NEW fs, NEW u, Longer(builder, builder'), todo' = fs,
         View' = u, Viewed(fs, builder', u)
  PROVE  Goes
BY DEF Goes, Viewing

LEMMA ViewFields ==
  /\ View.s = Len(builder.scopes) /\ View.e = env /\ View.v = builder.visibility_scope
  /\ IsView(View)
BY DEF View, IsView

\* The variables of the scope that was opened: none.
LEMMA OpenedView ==
  ASSUME NEW B, NEW R, BuilderOK(B), BuilderOK(R), Opens(B, R), NEW u, NEW p, ViewOK(B, u, p),
         u.s = Len(B.scopes),
         NEW w, w = [s |-> u.s + 1, e |-> u.e, v |-> u.v]
  PROVE  ViewOK(R, w, p) /\ ViewOK(R, u, p)
<1>1. u.s \in Nat /\ Frames(u.e) BY DEF ViewOK
<1>2. Longer(B, R) /\ SameVariables(B, R, u.s) BY DeclsLonger, DeclsVariables DEF Opens
<1>3. ViewOK(R, u, p) BY <1>2, ViewOKKept
<1>4. w.s = u.s + 1 /\ w.e = u.e /\ w.v = u.v OBVIOUS
<1>5. ASSUME NEW i \in 1..Len(w.e) PROVE EntryOK(R, w, w.e[i])
  BY <1>3, <1>4 DEF ViewOK, EntryOK
<1>6. ASSUME NEW i \in 1..Len(w.e), w.e[i].name \notin p PROVE Agrees(R, w, w.e[i].name)
  <2> DEFINE name == w.e[i].name
  <2>1. Agrees(R, u, name) BY <1>3, <1>4, <1>6 DEF ViewOK
  <2> HIDE DEF name
  <2>2. Found(R, u.s + 1, name) = Found(R, u.s, name)
    <3>1. Named(R, R.scopes[u.s + 1], name) = {} BY DEF Opens
    <3> QED BY <1>1, <3>1, FoundNext
  <2>3. Agrees(R, w, name) BY <1>4, <2>1, <2>2 DEF Agrees
  <2> QED BY <2>3 DEF name
<1>7. w.s \in Nat /\ Frames(w.e) /\ w.v \in ScopesOf(R) BY <1>1, <1>3, <1>4 DEF ViewOK
<1> QED BY <1>3, <1>5, <1>6, <1>7 DEF ViewOK

LEMMA WillView ==
  ASSUME NEW v, Now(v), Good, Viewing, todo # << >>
  PROVE  /\ Viewed(todo, builder, View) /\ ViewOK(builder, View, Later(todo, 1))
         /\ Viewed(Tail(todo), builder, Follows(View, Top)) /\ Frames(Tail(todo))
         /\ ArmsPlain(View, Top) /\ Later(todo, 1) = Announces(Top) \union Later(Tail(todo), 1)
<1>1. Viewed(todo, builder, View) BY DEF Viewing
<1>2. Viewed(Tail(todo), builder, Follows(View, Top)) BY <1>1, ViewPop DEF Top
<1>3. Frames(Tail(todo)) /\ Frames(todo) BY <1>1, <1>2, ViewedNow
<1> QED BY <1>1, <1>2, <1>3, ViewPop, LaterTail DEF Top

LEMMA OpenBlockGoes == ASSUME NEW v, Now(v), Good, Viewing, OpenBlock PROVE Goes
<1> DEFINE T == Tail(todo)
           f == [do |-> "stmts", dest |-> Top.dest, extent |-> builder'.extents, lets |-> << >>,
                 outer |-> builder.visibility_scope, env |-> env]
           k == Len(builder.scopes)
           w == [s |-> k + 1, e |-> env, v |-> builder.visibility_scope]
<1>1. todo # << >> /\ Plain(Top) BY DEF OpenBlock, At, Plain
<1>2. builder' = enter_scope(builder) /\ env' = env /\ Then(<<f>>) BY DEF OpenBlock, program
<1>3. k \in Nat BY Counts DEF Good
<1>4. Opens(builder, builder') BY <1>2, EnterOpens DEF Good
<1>5. /\ Viewed(todo, builder, View) /\ ViewOK(builder, View, Later(todo, 1))
      /\ Viewed(T, builder, Follows(View, Top)) /\ Frames(T)
      /\ Later(todo, 1) = Announces(Top) \union Later(T, 1)
  BY <1>1, WillView
<1>6. Follows(View, Top) = View /\ Announces(Top) = {} BY <1>1, <1>3, PlainFollows, ViewFields
<1>7. Longer(builder, builder') /\ SameVariables(builder, builder', View.s)
  BY <1>4, DeclsLonger, DeclsVariables, ViewFields DEF Opens, Good
<1>8. Viewed(T, builder', View) BY <1>5, <1>6, <1>7, ViewedKept DEF Good
<1>9. View = [s |-> k, e |-> env, v |-> builder.visibility_scope] BY DEF View
<1>10. /\ f.do = "stmts" /\ f.env = env /\ f.outer = builder.visibility_scope /\ f.lets = << >>
       /\ w.s = k + 1 /\ w.e = env /\ w.v = builder.visibility_scope
  OBVIOUS
<1>11. w = [s |-> View.s + 1, e |-> View.e, v |-> View.v] BY ViewFields
<1>12. View' = w BY <1>2, <1>4 DEF View, Opens
<1> HIDE DEF f, w, k
<1>13. View = Follows(w, f)
  <2>1. Closes(f) = 1 BY <1>10 DEF Closes
  <2>2. (k + 1) - 1 = k BY <1>3
  <2> QED BY <1>9, <1>10, <2>1, <2>2 DEF Follows
<1>14. ViewOK(builder', w, Later(T, 1))
  <2>1. View.s = Len(builder.scopes) BY ViewFields
  <2>2. ViewOK(builder, View, Later(T, 1)) BY <1>5, <1>6
  <2> QED BY <1>4, <1>11, <2>1, <2>2, OpenedView DEF Good
<1>15. Announces(f) = {} /\ ArmsPlain(w, f) BY <1>10 DEF Announces, ArmsPlain
<1>16. View.s <= w.s
  <2>1. View.s = k BY <1>9
  <2> QED BY <1>3, <1>10, <2>1
<1>17. Viewed(<<f>> \o T, builder', w)
  <2>1. ViewOK(builder', w, Announces(f) \union Later(T, 1)) BY <1>14, <1>15
  <2> QED BY <1>8, <1>13, <1>15, <1>16, <2>1, ViewPush
<1>18. todo' = <<f>> \o T BY <1>2 DEF Then
<1> QED BY <1>7, <1>12, <1>17, <1>18, Reached

\* A scope is opened, to be closed by a frame before what there was to do.
LEMMA ScopedOn ==
  ASSUME NEW B, NEW R, BuilderOK(B), BuilderOK(R), Opens(B, R), NEW fs, NEW u, IsView(u),
         Viewed(fs, B, u), u.s = Len(B.scopes), NEW extent,
         NEW w, w = [s |-> u.s + 1, e |-> u.e, v |-> u.v]
  PROVE  Viewed(<<Pop(extent)>> \o fs, R, w) /\ IsView(w)
<1> DEFINE f == Pop(extent)
<1>1. ViewOK(B, u, Later(fs, 1)) BY ViewedNow
<1>2. ViewOK(R, w, Later(fs, 1)) BY <1>1, OpenedView
<1>3. Longer(B, R) /\ SameVariables(B, R, u.s) BY DeclsLonger, DeclsVariables DEF Opens
<1>4. Viewed(fs, R, u) BY <1>3, ViewedKept
<1>5. u.s \in Nat /\ w.s = u.s + 1 /\ w.e = u.e /\ w.v = u.v /\ IsView(w)
  BY <1>1 DEF ViewOK, IsView
<1>6. u = [s |-> u.s, e |-> u.e, v |-> u.v] BY DEF IsView
<1>7. f.do = "pop" BY DEF Pop
<1> HIDE DEF f
<1>8. Closes(f) = 1 /\ w.s - 1 = u.s BY <1>5, <1>7 DEF Closes
<1>9. u = Follows(w, f) BY <1>5, <1>6, <1>7, <1>8 DEF Follows
<1>10. Announces(f) = {} /\ ArmsPlain(w, f) BY <1>7 DEF Announces, ArmsPlain
<1>11. u.s <= w.s BY <1>5
<1>12. ViewOK(R, w, Announces(f) \union Later(fs, 1)) BY <1>2, <1>10
<1> QED BY <1>4, <1>5, <1>9, <1>10, <1>11, <1>12, ViewPush DEF f

LEMMA ExprStmtGoes == ASSUME NEW v, Now(v), Good, Viewing, ExprStmt PROVE Goes
<1> DEFINE T == Tail(todo)
           pop == Pop(builder'.extents)
           w == [s |-> View.s + 1, e |-> View.e, v |-> View.v]
<1>1. todo # << >> BY DEF ExprStmt, At
<1>2. builder' = enter_scope(builder) /\ env' = env /\ Then(<<Stmt, pop, Top>>)
  BY DEF ExprStmt, program
<1>3. Opens(builder, builder') BY <1>2, EnterOpens DEF Good
<1>4. Viewed(todo, builder, View) /\ Frames(todo) /\ Frames(T)
  BY <1>1, WillView, ViewedNow
<1>5. Longer(builder, builder') BY <1>3, DeclsLonger DEF Opens, Good
<1>6. Viewed(<<pop>> \o todo, builder', w) /\ IsView(w)
  BY <1>3, <1>4, ScopedOn, ViewFields DEF Good
<1>7. View' = w BY <1>2, <1>3 DEF View, Opens
<1>8. Plain(Stmt) BY DEF Plain, Stmt
<1> HIDE DEF w, pop
<1>9. Viewed(<<Stmt>> \o (<<pop>> \o todo), builder', w) BY <1>6, <1>8, PushPlain
<1>10. todo' = <<Stmt>> \o (<<pop>> \o todo)
  <2>1. todo' = <<Stmt>> \o (<<pop>> \o (<<Top>> \o T)) BY <1>2, <1>4, ConsThree DEF Then, Three
  <2>2. <<Top>> \o T = todo BY <1>1, <1>4 DEF Top, Frames
  <2> QED BY <2>1, <2>2
<1> QED BY <1>5, <1>7, <1>9, <1>10, Reached

LEMMA PopScopeGoes == ASSUME NEW v, Now(v), Good, Viewing, PopScope PROVE Goes
<1> DEFINE T == Tail(todo)
           u == Follows(View, Top)
           k == Len(builder.scopes)
<1>1. todo # << >> /\ Top.do = "pop" /\ Top.do # "arms" BY DEF PopScope, At
<1>2. builder' = pop_scope(builder, block, Top.extent) /\ env' = env /\ Then(<< >>)
  BY DEF PopScope, program
<1>3. builder.scopes # << >> /\ builder.scopes \in Seq(ScopeRecords) /\ Shaped(builder) /\ k \in Nat
  BY <1>1, Started, Counts, Shape DEF Common, Good
<1>4. Pops(builder, builder', 1) BY <1>2, <1>3, PopPops
<1>5. Viewed(T, builder, u) /\ Frames(T) BY <1>1, WillView
<1>6. u = [s |-> k - 1, e |-> env, v |-> builder.visibility_scope]
  BY <1>1, ViewFields DEF Follows, Closes
<1>7. u.s = k - 1 BY <1>6
<1> HIDE DEF u
<1>8. Longer(builder, builder') /\ SameVariables(builder, builder', u.s)
  BY <1>4, <1>7, DeclsLonger, DeclsVariables DEF Pops, Good
<1>9. Viewed(T, builder', u) BY <1>5, <1>8, ViewedKept DEF Good
<1>10. View' = u BY <1>2, <1>4, <1>6 DEF View, Pops
<1>11. todo' = T BY <1>2, <1>5, ConsNone DEF Then
<1> QED BY <1>8, <1>9, <1>10, <1>11, Reached

LEMMA MacStmtGoes == ASSUME NEW v, Now(v), Good, Viewing, MacStmt PROVE Goes
<1> DEFINE S == enter_scope(builder)
           T == temp(S, block)
           W == push_assign_unit(push(T, block, MacroStmt), block, NextLocal(S))
           k == Len(builder.scopes)
<1>1. todo # << >> /\ Top.do # "arms" BY DEF MacStmt, At
<1>2. builder' = pop_scope(W, block, S.extents) /\ env' = env /\ todo' = todo
  BY DEF MacStmt, program
<1>3. Common(v) /\ k \in Nat BY <1>1, Started, Counts DEF Good
<1>4. Opens(builder, S) /\ BuilderOK(S) /\ S.scopes # << >> /\ block \in BlocksOf(S)
  <2>1. Keeps(builder, S) /\ S.scopes # << >> BY <1>3, ScopeEntered DEF Common
  <2>2. block \in BlocksOf(S) BY <1>3, <2>1, SameArms DEF Keeps, Common
  <2>3. Opens(builder, S) BY EnterOpens DEF Good
  <2>4. BuilderOK(S) BY <2>1 DEF Keeps
  <2> QED BY <2>1, <2>2, <2>3, <2>4
<1> HIDE DEF S
<1>5. SameView(S, T) BY <1>4, TempAdds
<1>6. BuilderOK(T) BY <1>4, TempGrows DEF Grows, Keeps
<1> HIDE DEF T
<1>7. SameNames(T, W) BY <1>6, Shape, SameReflexive, PushOn, UnitOn
<1>8. Len(T.scopes) = k + 1 /\ T.scopes \in Seq(ScopeRecords) BY <1>4, <1>5, <1>6, Counts DEF Opens, SameView
<1> HIDE DEF W
<1>9. Pops(W, builder', 1)
  <2>1. Shaped(W) /\ W.scopes \in Seq(ScopeRecords) /\ W.scopes # << >>
    BY <1>3, <1>7, <1>8 DEF SameNames
  <2> QED BY <1>2, <2>1, PopPops
<1>10. SameDecls(T, builder') /\ FirstScopes(T, builder', k) /\ Len(builder'.scopes) = k
  <2>1. Len(W.scopes) - 1 = k BY <1>3, <1>7, <1>8 DEF SameNames
  <2> QED BY <1>7, <1>9, <2>1 DEF Pops, SameNames, SameDecls, FirstScopes
<1>11. Longer(builder, builder')
  <2>1. Longer(builder, S) BY <1>4, DeclsLonger DEF Opens, Good
  <2>2. Longer(T, builder') BY <1>6, <1>10, DeclsLonger
  <2>3. Longer(builder, T) BY <1>4, <1>5, <1>6, <2>1, LongerTransitive DEF SameView, Good
  <2> QED BY <1>6, <2>2, <2>3, LongerTransitive DEF Good
<1>12. SameVariables(builder, builder', k)
  <2>1. SameVariables(builder, S, k) BY <1>4, DeclsVariables DEF Opens
  <2>2. SameVariables(S, T, k + 1) BY <1>4, <1>5 DEF Opens, SameView
  <2>3. SameVariables(T, builder', k) BY <1>10, DeclsVariables
  <2>4. \A i \in 1..k : i \in 1..(k + 1) BY <1>3
  <2>5. SameVariables(S, T, k) BY <2>2, <2>4 DEF SameVariables
  <2> QED BY <2>1, <2>3, <2>5, VariablesTransitive
<1>13. View' = View
  <2>1. builder'.visibility_scope = builder.visibility_scope
    BY <1>4, <1>5, <1>7, <1>9 DEF Opens, SameView, SameNames, Pops
  <2> QED BY <1>2, <1>10, <2>1 DEF View
<1>14. Viewed(todo, builder', View)
  BY <1>1, <1>11, <1>12, ViewedKept, ViewFields DEF Good, Viewing
<1> QED BY <1>2, <1>11, <1>13, <1>14, Reached

\* Only what is visible is changed.
LEMMA VisibilitySet ==
  ASSUME NEW B, BuilderOK(B), NEW x, NEW B2, B2 = [B EXCEPT !.visibility_scope = x]
  PROVE  /\ SameDecls(B, B2) /\ B2.scopes = B.scopes /\ B2.visibility_scope = x
         /\ Longer(B, B2) /\ \A s : SameVariables(B, B2, s)
<1>1. SameDecls(B, B2) /\ B2.scopes = B.scopes /\ B2.visibility_scope = x
  BY Shape DEF SameDecls, Shaped, BuilderFieldNames
<1>2. Longer(B, B2) BY <1>1, DeclsLonger
<1>3. \A s : FirstScopes(B, B2, s) BY <1>1 DEF FirstScopes
<1>4. \A s : SameVariables(B, B2, s) BY <1>1, <1>3, DeclsVariables
<1> QED BY <1>1, <1>2, <1>4

LEMMA EnterVisibilityGoes == ASSUME NEW v, Now(v), Good, Viewing, EnterVisibility PROVE Goes
<1> DEFINE T == Tail(todo)
           u == Follows(View, Top)
           k == Len(builder.scopes)
           x == IF Top.scope = None THEN builder.visibility_scope ELSE Top.scope
<1>1. todo # << >> /\ Top.do = "enter" BY DEF EnterVisibility, At
<1>2. /\ builder' = IF Top.scope = None THEN builder
                    ELSE [builder EXCEPT !.visibility_scope = Top.scope]
      /\ env' = env \o Bind(Top.names, Top.locals) /\ Then(<< >>)
  BY DEF EnterVisibility
<1>3. k \in Nat BY Counts DEF Good
<1>4. Viewed(T, builder, u) /\ Frames(T) BY <1>1, WillView
<1>5. u = [s |-> k, e |-> env \o Bind(Top.names, Top.locals), v |-> x]
  <2>1. k - 0 = k BY <1>3
  <2>2. Closes(Top) = 0 BY <1>1 DEF Closes
  <2> QED BY <1>1, <2>1, <2>2, ViewFields DEF Follows
<1> HIDE DEF u
<1>6. /\ Longer(builder, builder') /\ SameVariables(builder, builder', u.s)
      /\ builder'.scopes = builder.scopes /\ builder'.visibility_scope = x
  <2>1. CASE Top.scope = None
    <3>1. SameNames(builder, builder') BY <1>2, <2>1, SameSelf
    <3>2. SameVariables(builder, builder', u.s) BY <3>1 DEF SameNames, SameVariables, Named
    <3> QED BY <2>1, <3>1, <3>2, SameViews DEF SameNames, SameView, Good
  <2>2. CASE Top.scope # None
    <3> DEFINE y == Top.scope
    <3>1. builder' = [builder EXCEPT !.visibility_scope = y] BY <1>2, <2>2
    <3>2. x = y BY <2>2
    <3> HIDE DEF x, y
    <3>3. /\ builder'.scopes = builder.scopes /\ builder'.visibility_scope = y
          /\ Longer(builder, builder') /\ \A s : SameVariables(builder, builder', s)
      BY <3>1, VisibilitySet DEF Good
    <3> QED BY <3>2, <3>3
  <2> QED BY <2>1, <2>2
<1>7. Viewed(T, builder', u) BY <1>4, <1>6, ViewedKept DEF Good
<1>8. View' = u
  <2>1. View' = [s |-> Len(builder'.scopes), e |-> env', v |-> builder'.visibility_scope] BY DEF View
  <2> HIDE DEF x
  <2> QED BY <1>2, <1>5, <1>6, <2>1
<1>9. todo' = T BY <1>2, <1>4, ConsNone DEF Then
<1> QED BY <1>6, <1>7, <1>8, <1>9, Reached

LEMMA FinishBlockGoes == ASSUME NEW v, Now(v), Good, Viewing, FinishBlock PROVE Goes
<1> DEFINE T == Tail(todo)
           f == [Top EXCEPT !.do = "close"]
           a == Into(Top.dest, {})
           u == Follows(View, Top)
           P == push_assign_unit(builder, block, Top.dest)
<1>1. todo # << >> /\ Top.do = "stmts" /\ At({"stmts", "close"}) BY DEF FinishBlock, At
<1>2. /\ env' = env
      /\ \/ builder' = builder /\ Then(<<a>> \o <<f>>)
         \/ builder' = P /\ Then(<<f>>)
  BY DEF FinishBlock, program
<1>3. StmtsFrame(Top, v, builder) /\ Len(Top.lets) \in Nat /\ Len(Top.lets) + 3 <= Scopes
  BY <1>1, InStmts
<1>4. /\ f.do = "close" /\ f.lets = Top.lets /\ f.outer = Top.outer /\ f.env = Top.env
  BY <1>3 DEF StmtsFrame
<1>5. /\ Viewed(T, builder, u) /\ Frames(T) /\ ViewOK(builder, View, Later(todo, 1))
      /\ Later(todo, 1) = Announces(Top) \union Later(T, 1)
  BY <1>1, WillView
<1> HIDE DEF f
<1>6. u = Follows(View, f) /\ Announces(Top) = {} /\ Announces(f) = {} /\ ArmsPlain(View, f)
  BY <1>1, <1>4 DEF Follows, Closes, Announces, ArmsPlain
<1>7. u.s <= View.s
  <2>1. u.s = View.s - (1 + Len(Top.lets)) BY <1>1 DEF Follows, Closes
  <2>2. View.s \in Nat BY <1>5 DEF ViewOK
  <2> QED BY <1>3, <2>1, <2>2
<1> HIDE DEF u
<1>8. ViewOK(builder, View, Announces(f) \union Later(T, 1)) BY <1>5, <1>6
<1>9. Viewed(<<f>> \o T, builder, View) BY <1>5, <1>6, <1>7, <1>8, ViewPush
<1> DEFINE Q == <<f>> \o T
<1>10. Plain(a) BY DEF Plain, Into
<1> HIDE DEF a, P
<1>11. Viewed(<<a>> \o Q, builder, View) BY <1>9, <1>10, PushPlain, ViewFields
<1>12. SameNames(builder, builder') /\ (todo' = Q \/ todo' = <<a>> \o Q)
  <2>1. CASE builder' = builder /\ Then(<<a>> \o <<f>>)
    <3>1. todo' = <<a, f>> \o T BY <2>1, PairOf DEF Then
    <3>2. todo' = <<a>> \o Q BY <1>5, <3>1, ConsTwo
    <3> QED BY <2>1, <3>2, SameSelf
  <2>2. CASE builder' = P /\ Then(<<f>>)
    <3>1. SameNames(builder, P) BY SameSelf, UnitOn DEF P
    <3> QED BY <2>2, <3>1 DEF Then
  <2> QED BY <1>2, <2>1, <2>2
<1>13. SameView(builder, builder') BY <1>12, SameViews DEF Good
<1> HIDE DEF Q
<1>14. Longer(builder, builder') /\ SameVariables(builder, builder', View.s) /\ View' = View
  BY <1>2, <1>13, ViewFields DEF SameView, View
<1>15. Viewed(todo', builder, View) BY <1>9, <1>11, <1>12 DEF Q
<1>16. Viewed(todo', builder', View) BY <1>14, <1>15, ViewedKept DEF Good
<1> QED BY <1>14, <1>16, Reached

LEMMA LetsPop ==
  ASSUME NEW v, Common(v), StmtsFrame(Top, v, builder), CloseBlock
  PROVE  \E P : /\ Pops(builder, P, Len(Top.lets))
                /\ builder' = pop_scope([P EXCEPT !.visibility_scope = Top.outer], block, Top.extent)
<1> DEFINE k == Len(Top.lets)
           n == Len(builder.scopes)
           Round(P, m) == pop_scope(P, block, Top.lets[k + 1 - m])
           Rounds(g, m) == g = [i \in 0..m |-> IF i = 0 THEN builder ELSE Round(g[i - 1], i)]
           T == {m \in Nat : \E g : Rounds(g, m)}
<1>1. k \in Nat /\ n \in Nat /\ k + 3 <= n /\ BuilderOK(builder) BY Counts DEF StmtsFrame, Common, Scopes
<1>2. 0 \in T
  <2>1. Rounds([i \in 0..0 |-> builder], 0) OBVIOUS
  <2> QED BY <2>1
<1>3. ASSUME NEW m \in Nat, m \in T PROVE m + 1 \in T
  <2>1. PICK g : Rounds(g, m) BY <1>3
  <2> DEFINE h == [i \in 0..(m + 1) |-> IF i <= m THEN g[i] ELSE Round(g[i - 1], i)]
  <2> HIDE DEF Round
  <2>2. ASSUME NEW i \in 0..(m + 1), i # 0 PROVE h[i] = Round(h[i - 1], i)
    <3>1. i - 1 \in 0..m /\ h[i - 1] = g[i - 1] BY <2>2
    <3>2. CASE i <= m
      <4>1. i \in 0..m /\ h[i] = g[i] BY <3>2
      <4> QED BY <2>1, <2>2, <3>1, <4>1
    <3>3. CASE ~(i <= m) BY <3>1, <3>3
    <3> QED BY <3>2, <3>3
  <2>3. h[0] = builder BY <2>1
  <2>4. Rounds(h, m + 1)
    <3> DEFINE r == [i \in 0..(m + 1) |-> IF i = 0 THEN builder ELSE Round(h[i - 1], i)]
    <3>1. \A i \in 0..(m + 1) : h[i] = r[i] BY <2>2, <2>3
    <3>2. h = [i \in 0..(m + 1) |-> h[i]] OBVIOUS
    <3> HIDE DEF h
    <3> QED BY <3>1, <3>2
  <2> HIDE DEF Rounds, h
  <2> QED BY <2>4
<1>4. \E g : /\ Rounds(g, k)
             /\ builder' = pop_scope([g[k] EXCEPT !.visibility_scope = Top.outer], block, Top.extent)
  <2>1. Nat \subseteq T
    <3> HIDE DEF T
    <3> QED BY <1>2, <1>3, Induction
  <2>2. \E g : Rounds(g, k) BY <1>1, <2>1
  <2> QED BY <2>2 DEF CloseBlock
<1>5. PICK g : /\ Rounds(g, k)
               /\ builder' = pop_scope([g[k] EXCEPT !.visibility_scope = Top.outer], block, Top.extent)
  BY <1>4
<1> HIDE DEF Round, n
<1> DEFINE U == {m \in Nat : m <= k => Pops(builder, g[m], m)}
<1>6. 0 \in U
  <2>1. g[0] = builder BY <1>1, <1>5
  <2>2. Pops(builder, builder, 0)
    <3>1. Shaped(builder) /\ builder.scopes \in Seq(ScopeRecords) /\ Len(builder.scopes) - 0 = Len(builder.scopes)
      BY <1>1, Shape, Counts
    <3> QED BY <3>1 DEF Pops, SameDecls, FirstScopes
  <2> QED BY <2>1, <2>2
<1>7. ASSUME NEW m \in Nat, m \in U PROVE m + 1 \in U
  <2> SUFFICES ASSUME m + 1 <= k PROVE Pops(builder, g[m + 1], m + 1) OBVIOUS
  <2>1. m + 1 \in 0..k /\ (m + 1) - 1 = m /\ m + 1 # 0 /\ m <= k BY <1>1
  <2>2. g[m + 1] = Round(g[m], m + 1) BY <1>5, <2>1
  <2>3. Pops(builder, g[m], m) BY <1>7, <2>1
  <2> DEFINE e == Top.lets[k + 1 - (m + 1)]
             P == g[m]
  <2>4. g[m + 1] = pop_scope(P, block, e) BY <2>2 DEF Round
  <2> HIDE DEF e, P
  <2>5. Pops(builder, P, m) BY <2>3 DEF P
  <2>6. Shaped(P) /\ P.scopes \in Seq(ScopeRecords) /\ Len(P.scopes) = n - m
    BY <2>5 DEF Pops, SameDecls, n
  <2>7. P.scopes # << >> BY <1>1, <2>1, <2>6 DEF n
  <2>8. Pops(P, pop_scope(P, block, e), 1) BY <2>6, <2>7, PopPops
  <2>9. Len(builder.scopes) \in Nat BY <1>1, Counts
  <2> QED BY <2>4, <2>5, <2>8, <2>9, PopsNext
<1> HIDE DEF U
<1>8. Nat \subseteq U BY <1>6, <1>7, Induction
<1>9. Pops(builder, g[k], k) BY <1>1, <1>8 DEF U
<1> QED BY <1>5, <1>9

LEMMA CloseBlockGoes == ASSUME NEW v, Now(v), Good, Viewing, CloseBlock PROVE Goes
<1> DEFINE T == Tail(todo)
           k == Len(builder.scopes)
           n == Len(Top.lets)
           u == Follows(View, Top)
<1>1. todo # << >> /\ Top.do = "close" /\ At({"stmts", "close"}) BY DEF CloseBlock, At
<1>2. env' = Top.env /\ Then(<< >>) BY DEF CloseBlock
<1>3. /\ Common(v) /\ StmtsFrame(Top, v, builder) /\ n \in Nat /\ k \in Nat /\ n + 3 <= k
  <2>1. Common(v) /\ StmtsFrame(Top, v, builder) /\ n \in Nat /\ n + 3 <= Scopes BY <1>1, InStmts
  <2> QED BY <2>1, Counts DEF Good, Scopes
<1>4. PICK P : /\ Pops(builder, P, n)
               /\ builder' = pop_scope([P EXCEPT !.visibility_scope = Top.outer], block, Top.extent)
  BY <1>3, LetsPop
<1> DEFINE Q == [P EXCEPT !.visibility_scope = Top.outer]
<1>5. /\ Shaped(Q) /\ Q.local_decls = builder.local_decls
      /\ Q.visibility_scopes = builder.visibility_scopes /\ Q.visibility_scope = Top.outer
      /\ Q.scopes = P.scopes
  BY <1>4 DEF Pops, SameDecls, Shaped, BuilderFieldNames
<1>6. builder' = pop_scope(Q, block, Top.extent) BY <1>4
<1> HIDE DEF Q
<1>7. P.scopes \in Seq(ScopeRecords) /\ Len(P.scopes) = k - n /\ FirstScopes(builder, P, k - n)
  BY <1>4 DEF Pops
<1>8. Q.scopes # << >>
  <2> DEFINE ss == P.scopes
  <2>1. ss \in Seq(ScopeRecords) /\ Len(ss) = k - n /\ Q.scopes = ss BY <1>5, <1>7
  <2>2. Len(ss) >= 3 BY <1>3, <2>1
  <2> HIDE DEF ss
  <2> QED BY <2>1, <2>2
<1>9. Pops(Q, builder', 1) BY <1>5, <1>6, <1>7, <1>8, PopPops
<1>10. /\ SameDecls(builder, builder') /\ builder'.visibility_scope = Top.outer
       /\ Len(builder'.scopes) = k - (1 + n) /\ FirstScopes(builder, builder', k - (1 + n))
  <2>1. (k - n) - 1 = k - (1 + n) /\ \A i \in 1..(k - (1 + n)) : i \in 1..(k - n) BY <1>3
  <2>2. Len(builder'.scopes) = k - (1 + n) /\ FirstScopes(Q, builder', k - (1 + n))
    BY <1>5, <1>7, <1>9, <2>1 DEF Pops
  <2>3. FirstScopes(builder, builder', k - (1 + n)) BY <1>5, <1>7, <2>1, <2>2 DEF FirstScopes
  <2> QED BY <1>5, <1>9, <2>2, <2>3 DEF Pops, SameDecls
<1>11. Viewed(T, builder, u) /\ Frames(T) BY <1>1, WillView
<1>12. u = [s |-> k - (1 + n), e |-> Top.env, v |-> Top.outer]
  BY <1>1, ViewFields DEF Follows, Closes
<1>13. u.s = k - (1 + n) BY <1>12
<1> HIDE DEF u
<1>14. Longer(builder, builder') /\ SameVariables(builder, builder', u.s)
  BY <1>10, <1>13, DeclsLonger, DeclsVariables DEF Good
<1>15. Viewed(T, builder', u) BY <1>11, <1>14, ViewedKept DEF Good
<1>16. View' = u BY <1>2, <1>10, <1>12 DEF View
<1>17. todo' = T BY <1>2, <1>11, ConsNone DEF Then
<1> QED BY <1>14, <1>15, <1>16, <1>17, Reached

-----------------------------------------------------------------------------
(***************************************************************************)
(* Bindings: a view with them, and the view without them while they are    *)
(* pending.                                                                *)
(***************************************************************************)
LEMMA LatestIs ==
  ASSUME NEW n \in Nat, NEW S \in SUBSET (0..n), NEW x \in S, \A y \in S : y <= x
  PROVE  Latest(S) = x
<1>1. Latest(S) \in S /\ \A k \in S : k <= Latest(S) BY LatestMember
<1>2. x <= Latest(S) /\ Latest(S) <= x BY <1>1
<1>3. x \in 0..n /\ Latest(S) \in 0..n
  <2>1. S \subseteq 0..n OBVIOUS
  <2> QED BY <1>1, <2>1
<1>4. x \in Nat /\ Latest(S) \in Nat BY <1>3
<1> QED BY <1>2, <1>4

\* The environment with the bindings behind it.
Extends(f, e, names, locals) ==
  /\ Frames(f) /\ Len(e) \in Nat /\ Len(f) = Len(e) + Len(names)
  /\ \A i \in 1..Len(e) : f[i] = e[i]
  /\ \A j \in 1..Len(names) : f[Len(e) + j].name = names[j] /\ f[Len(e) + j].local = locals[j]

LEMMA BoundEnv ==
  ASSUME NEW e, Frames(e), NEW names, NEW locals, Len(names) \in Nat,
         NEW f, f = e \o Bind(names, locals)
  PROVE  Extends(f, e, names, locals)
<1> DEFINE b == Bind(names, locals)
           n == Len(names)
           X == {[name |-> names[i], local |-> locals[i]] : i \in 1..n}
<1>1. PICK S : e \in Seq(S) BY DEF Frames
<1>2. b \in Seq(X) /\ Len(b) = n
  <2>1. \A i \in 1..n : [name |-> names[i], local |-> locals[i]] \in X OBVIOUS
  <2>2. b = [i \in 1..n |-> [name |-> names[i], local |-> locals[i]]] BY DEF Bind
  <2>3. b \in [1..n -> X] BY <2>1, <2>2
  <2>4. n \in Nat OBVIOUS
  <2> HIDE DEF b, n, X
  <2> QED BY <2>3, <2>4
<1>3. \A j \in 1..n : b[j].name = names[j] /\ b[j].local = locals[j] BY DEF Bind
<1> HIDE DEF b, n, X
<1> DEFINE U == S \union X
<1>4. e \in Seq(U) /\ b \in Seq(U) /\ Len(e) \in Nat BY <1>1, <1>2
<1> HIDE DEF U
<1>5. /\ f \in Seq(U) /\ Len(f) = Len(e) + Len(b)
      /\ \A i \in 1..(Len(e) + Len(b)) : f[i] = IF i <= Len(e) THEN e[i] ELSE b[i - Len(e)]
  <2>1. f = e \o b BY DEF b
  <2> QED BY <1>4, <2>1, ConcatProperties
<1>6. n \in Nat BY DEF n
<1>7. \A i \in 1..Len(e) : f[i] = e[i] BY <1>2, <1>4, <1>5, <1>6
<1>8. ASSUME NEW j \in 1..n PROVE f[Len(e) + j].name = names[j] /\ f[Len(e) + j].local = locals[j]
  <2>1. /\ Len(e) + j \in 1..(Len(e) + Len(b)) /\ ~(Len(e) + j <= Len(e))
        /\ (Len(e) + j) - Len(e) = j
    BY <1>2, <1>4, <1>6
  <2>2. f[Len(e) + j] = b[j] BY <1>5, <2>1
  <2> QED BY <1>3, <2>2
<1>9. Frames(f) BY <1>5 DEF Frames
<1> QED BY <1>2, <1>4, <1>5, <1>7, <1>8, <1>9 DEF n, Extends

\* The latest of the bindings of a name, and a name that is not bound.
IsLatest(names, x, name) ==
  /\ x \in 1..Len(names) /\ names[x] = name
  /\ \A j \in 1..Len(names) : names[j] = name => j <= x
Unbound(names, name) == \A j \in 1..Len(names) : names[j] # name

LEMMA LastBinding ==
  ASSUME NEW names, Len(names) \in Nat, NEW name, ~Unbound(names, name)
  PROVE  \E x : IsLatest(names, x, name)
<1> DEFINE S == {j \in 1..Len(names) : names[j] = name}
<1>1. S \in SUBSET (0..Len(names)) /\ S # {} BY DEF Unbound
<1>2. Latest(S) \in S /\ \A j \in S : j <= Latest(S)
  <2> HIDE DEF S
  <2> QED BY <1>1, LatestMember
<1> QED BY <1>2 DEF IsLatest

LEMMA BoundTo ==
  ASSUME NEW e, NEW names, NEW locals, Len(names) \in Nat,
         NEW f, Extends(f, e, names, locals), NEW name, NEW x, IsLatest(names, x, name)
  PROVE  MeaningIn(f, name) = locals[x]
<1> DEFINE m == Len(e)
           n == Len(names)
           S == {i \in 1..Len(f) : f[i].name = name}
<1>1. /\ m \in Nat /\ n \in Nat /\ Len(f) = m + n
      /\ \A i \in 1..m : f[i] = e[i]
      /\ \A j \in 1..n : f[m + j].name = names[j] /\ f[m + j].local = locals[j]
  BY DEF Extends
<1> HIDE DEF m, n
<1>2. x \in 1..n /\ names[x] = name /\ \A j \in 1..n : names[j] = name => j <= x
  BY DEF n, IsLatest
<1>3. m + x \in S /\ S \in SUBSET (0..(m + n)) BY <1>1, <1>2
<1>4. ASSUME NEW y \in S PROVE y <= m + x
  <2>1. y \in 1..(m + n) /\ f[y].name = name BY <1>1
  <2>2. CASE y <= m BY <1>1, <1>2, <2>1, <2>2
  <2>3. CASE ~(y <= m)
    <3>1. y - m \in 1..n /\ m + (y - m) = y BY <1>1, <2>1, <2>3
    <3>2. names[y - m] = name BY <1>1, <2>1, <3>1
    <3> QED BY <1>1, <1>2, <3>1, <3>2
  <2> QED BY <2>2, <2>3
<1> HIDE DEF S
<1>5. Latest(S) = m + x
  <2>1. m + n \in Nat BY <1>1
  <2> QED BY <1>3, <1>4, <2>1, LatestIs
<1>6. MeaningIn(f, name) = f[Latest(S)].local BY DEF MeaningIn, S
<1> QED BY <1>1, <1>2, <1>5, <1>6

LEMMA BoundPast ==
  ASSUME NEW e, NEW names, NEW locals, Len(names) \in Nat,
         NEW f, Extends(f, e, names, locals), NEW name, Unbound(names, name),
         NEW i \in 1..Len(e), e[i].name = name
  PROVE  MeaningIn(f, name) = MeaningIn(e, name)
<1> DEFINE m == Len(e)
           n == Len(names)
           S == {j \in 1..Len(f) : f[j].name = name}
           R == {j \in 1..m : e[j].name = name}
<1>1. /\ m \in Nat /\ n \in Nat /\ Len(f) = m + n
      /\ \A j \in 1..m : f[j] = e[j]
      /\ \A j \in 1..n : f[m + j].name = names[j]
  BY DEF Extends
<1> HIDE DEF m, n
<1>2. S = R
  <2>1. ASSUME NEW y \in 1..(m + n), ~(y <= m) PROVE f[y].name # name
    <3>1. y - m \in 1..n /\ m + (y - m) = y BY <1>1, <2>1
    <3>2. names[y - m] # name BY <3>1 DEF n, Unbound
    <3> QED BY <1>1, <3>1, <3>2
  <2>2. \A y \in 1..m : y \in 1..(m + n) BY <1>1
  <2>3. \A y \in 1..(m + n) : y <= m => y \in 1..m BY <1>1
  <2> QED BY <1>1, <2>1, <2>2, <2>3
<1>3. Latest(R) \in 1..m
  <2>1. R \in SUBSET (0..m) BY <1>1
  <2>2. R # {} BY DEF m
  <2>3. R \subseteq 1..m OBVIOUS
  <2> HIDE DEF R
  <2> QED BY <1>1, <2>1, <2>2, <2>3, LatestMember
<1> HIDE DEF R, S
<1>4. MeaningIn(f, name) = f[Latest(S)].local BY DEF MeaningIn, S
<1>5. MeaningIn(e, name) = e[Latest(R)].local BY DEF MeaningIn, R, m
<1> QED BY <1>1, <1>2, <1>3, <1>4, <1>5

\* What the scopes have once the bindings are declared in the innermost one,
\* that had nothing.
BindsRight(B, D, names) ==
  /\ BuilderOK(B) /\ BuilderOK(D.b) /\ Longer(B, D.b)
  /\ Len(B.scopes) \in Nat /\ Len(B.scopes) >= 1 /\ names \in Seq(AllNames)
  /\ Len(names) \in Nat /\ \A i \in 1..Len(names) : names[i] # TempName
  /\ \A name : Named(B, B.scopes[Len(B.scopes)], name) = {}
  /\ Adding(B, D, names, Len(names))

LEMMA BoundFound ==
  ASSUME NEW B, NEW D, NEW names, BindsRight(B, D, names), NEW k, k = Len(B.scopes),
         NEW name, name # TempName
  PROVE  Found(D.b, k, name) = IF Given(D, names, Len(names), name) = {} THEN Found(B, k, name)
                               ELSE Latest(Given(D, names, Len(names), name))
<1> DEFINE G == Given(D, names, Len(names), name)
           C == D.b
           s == k - 1
<1>1. /\ k \in Nat /\ k >= 1 /\ Named(B, B.scopes[k], name) = {}
      /\ \A i \in 1..k : \A m : m # TempName =>
           Named(C, C.scopes[i], m) =
             IF i = k THEN Named(B, B.scopes[i], m) \union Given(D, names, Len(names), m)
             ELSE Named(B, B.scopes[i], m)
  BY DEF BindsRight, Adding
<1>2. s \in Nat /\ s + 1 = k /\ k \in 1..k BY <1>1
<1>3. Named(C, C.scopes[k], name) = G
  <2> HIDE DEF G
  <2>1. Named(C, C.scopes[k], name) = Named(B, B.scopes[k], name) \union G BY <1>1, <1>2 DEF G
  <2> HIDE DEF C
  <2> QED BY <1>1, <2>1
<1>4. SameVariables(B, C, s)
  <2>1. \A i \in 1..s : i \in 1..k /\ i # k BY <1>2
  <2> QED BY <1>1, <2>1 DEF SameVariables
<1> HIDE DEF G, C, s
<1>5. Found(C, s, name) = Found(B, s, name) BY <1>2, <1>4, FoundSame
<1>6. Found(B, s + 1, name) = Found(B, s, name)
  <2>1. Named(B, B.scopes[s + 1], name) = {} BY <1>1, <1>2
  <2> QED BY <1>2, <2>1, FoundNext
<1>7. Found(C, s + 1, name) = IF G = {} THEN Found(C, s, name) ELSE Latest(G)
  <2>1. Named(C, C.scopes[s + 1], name) = G BY <1>2, <1>3
  <2>2. Found(C, s + 1, name) =
          IF Named(C, C.scopes[s + 1], name) = {} THEN Found(C, s, name)
          ELSE Latest(Named(C, C.scopes[s + 1], name))
    BY <1>2, FoundNext
  <2> QED BY <2>1, <2>2
<1>8. Found(C, k, name) = IF G = {} THEN Found(B, k, name) ELSE Latest(G)
  BY <1>2, <1>5, <1>6, <1>7
<1> QED BY <1>8 DEF C, G

\* A name that is bound: the latest local that it was given.
LEMMA BoundLatest ==
  ASSUME NEW B, NEW D, NEW names, BindsRight(B, D, names), NEW k, k = Len(B.scopes),
         NEW name, NEW x, IsLatest(names, x, name)
  PROVE  Found(D.b, k, name) = D.locals[x]
<1> DEFINE n == Len(names)
           G == Given(D, names, n, name)
           L == Len(D.b.local_decls)
<1>0. x \in 1..n /\ names[x] = name /\ \A j \in 1..n : names[j] = name => j <= x BY DEF IsLatest
<1>1. n \in Nat /\ L \in Nat /\ name # TempName BY <1>0, Counts DEF BindsRight
<1>2. /\ \A j \in 1..n : D.locals[j] \in 1..L
      /\ \A i, j \in 1..n : i < j => D.locals[i] < D.locals[j]
  BY DEF BindsRight, Adding, LocalsOf
<1>3. D.locals[x] \in G BY <1>0 DEF Given
<1>4. G \in SUBSET (0..L)
  <2>1. \A j \in 1..n : D.locals[j] \in 0..L BY <1>1, <1>2
  <2> QED BY <2>1 DEF Given
<1>5. ASSUME NEW y \in G PROVE y <= D.locals[x]
  <2>1. PICK j \in 1..n : names[j] = name /\ y = D.locals[j] BY DEF Given
  <2>2. j <= x BY <1>0, <2>1
  <2>3. CASE j = x BY <1>0, <1>1, <1>2, <2>1, <2>3
  <2>4. CASE j # x
    <3>1. j < x BY <1>0, <1>1, <2>2, <2>4
    <3>2. y < D.locals[x] BY <1>0, <1>2, <2>1, <3>1
    <3>3. y \in 1..L /\ D.locals[x] \in 1..L BY <1>0, <1>2, <2>1
    <3> QED BY <1>1, <3>2, <3>3
  <2> QED BY <2>3, <2>4
<1>6. Found(D.b, k, name) = IF G = {} THEN Found(B, k, name) ELSE Latest(G)
  BY <1>1, BoundFound
<1> HIDE DEF G, L
<1>7. Latest(G) = D.locals[x] BY <1>1, <1>3, <1>4, <1>5, LatestIs
<1> QED BY <1>3, <1>6, <1>7

\* A name that is not: what it was.
LEMMA BoundOther ==
  ASSUME NEW B, NEW D, NEW names, BindsRight(B, D, names), NEW k, k = Len(B.scopes),
         NEW name, name # TempName, Unbound(names, name)
  PROVE  Found(D.b, k, name) = Found(B, k, name)
<1>1. Given(D, names, Len(names), name) = {} BY DEF Given, Unbound
<1> QED BY <1>1, BoundFound

LEMMA PendingView ==
  ASSUME NEW B, NEW D, NEW names, BindsRight(B, D, names), NEW u, NEW p, ViewOK(B, u, p),
         u.s = Len(B.scopes)
  PROVE  ViewOK(D.b, u, ToSet(names) \union p)
<1> DEFINE q == ToSet(names) \union p
<1>1. BuilderOK(B) /\ BuilderOK(D.b) /\ Longer(B, D.b) BY DEF BindsRight
<1>2. u.s \in Nat /\ Frames(u.e) /\ u.v \in ScopesOf(D.b) BY <1>1, ScopesKept DEF ViewOK
<1>3. ASSUME NEW i \in 1..Len(u.e) PROVE EntryOK(D.b, u, u.e[i])
  BY <1>1, EntryKept DEF ViewOK
<1>4. ASSUME NEW i \in 1..Len(u.e), u.e[i].name \notin q PROVE Agrees(D.b, u, u.e[i].name)
  <2> DEFINE name == u.e[i].name
  <2>1. Agrees(B, u, name) /\ name # TempName BY <1>4 DEF ViewOK, EntryOK
  <2>2. Unbound(names, name)
    <3>1. names \in Seq(AllNames) BY DEF BindsRight
    <3>2. \A j \in 1..Len(names) : names[j] \in ToSet(names) BY <3>1 DEF ToSet
    <3> QED BY <1>4, <3>2 DEF Unbound
  <2> HIDE DEF name
  <2>3. Found(D.b, u.s, name) = Found(B, u.s, name) BY <2>1, <2>2, BoundOther
  <2>4. Agrees(D.b, u, name) BY <2>1, <2>3 DEF Agrees
  <2> QED BY <2>4 DEF name
<1> HIDE DEF q
<1>5. ViewOK(D.b, u, q) BY <1>2, <1>3, <1>4 DEF ViewOK
<1> QED BY <1>5 DEF q

\* A view, once the bindings have been entered.
EnteredView(u, D, names, w) ==
  /\ w.s = u.s /\ w.e = u.e \o Bind(names, D.locals)
  /\ w.v = IF D.scope = None THEN u.v ELSE D.scope
ViewHere(B, u) == u.s = Len(B.scopes) /\ u.v = B.visibility_scope

LEMMA BoundView ==
  ASSUME NEW B, NEW D, NEW names, BindsRight(B, D, names), NEW u, NEW p, ViewOK(B, u, p),
         ViewHere(B, u), NEW w, EnteredView(u, D, names, w)
  PROVE  ViewOK(D.b, w, p)
<1>0. u.s = Len(B.scopes) /\ u.v = B.visibility_scope BY DEF ViewHere
<1> DEFINE e == w.e
           n == Len(names)
           m == Len(u.e)
           C == D.b
<1>1. /\ BuilderOK(B) /\ BuilderOK(C) /\ Longer(B, C) /\ n \in Nat
      /\ \A i \in 1..n : names[i] # TempName
  BY DEF BindsRight
<1>2. u.s \in Nat /\ Frames(u.e) /\ u.v \in ScopesOf(B) BY DEF ViewOK
<1>3. Extends(e, u.e, names, D.locals) BY <1>1, <1>2, BoundEnv DEF EnteredView
<1>4. /\ Frames(e) /\ m \in Nat /\ Len(e) = m + n
      /\ \A i \in 1..m : e[i] = u.e[i]
      /\ \A j \in 1..n : e[m + j].name = names[j] /\ e[m + j].local = D.locals[j]
  BY <1>3 DEF Extends
<1>5. w.s = u.s /\ w.e = e /\ w.v = IF D.scope = None THEN u.v ELSE D.scope BY DEF EnteredView
<1> HIDE DEF e
<1>6. /\ n = 0 => D.scope = None
      /\ n # 0 => /\ D.scope = Len(B.visibility_scopes) + 1
                  /\ C.visibility_scopes = Append(B.visibility_scopes, u.v)
      /\ \A j \in 1..n : /\ D.locals[j] \in LocalsOf(C)
                         /\ C.local_decls[D.locals[j]].scope = D.scope
  BY <1>0 DEF BindsRight, Adding
<1>7. n # 0 => /\ D.scope \in ScopesOf(C) /\ u.v < D.scope /\ u.v \in ScopesOf(C) /\ D.scope # None
               /\ C.visibility_scopes[D.scope] = u.v
  <2> SUFFICES ASSUME n # 0
               PROVE  /\ D.scope \in ScopesOf(C) /\ u.v < D.scope /\ u.v \in ScopesOf(C)
                      /\ D.scope # None /\ C.visibility_scopes[D.scope] = u.v
    OBVIOUS
  <2> DEFINE x == B.visibility_scopes
  <2>1. x \in Seq(Nat) /\ Len(x) \in Nat /\ u.v \in 1..Len(x) /\ u.v \in Nat
    BY <1>1, <1>2, Counts DEF ScopesOf
  <2>2. C.visibility_scopes = Append(x, u.v) /\ D.scope = Len(x) + 1 BY <1>6
  <2> HIDE DEF x
  <2>3. Len(Append(x, u.v)) = Len(x) + 1 /\ Append(x, u.v)[Len(x) + 1] = u.v BY <2>1
  <2>4. ScopesOf(C) = 1..(Len(x) + 1) BY <2>2, <2>3 DEF ScopesOf
  <2> QED BY <2>1, <2>2, <2>3, <2>4 DEF None
<1> HIDE DEF n, m, C
<1>8. w.v \in ScopesOf(C) /\ u.v \in ScopesOf(C)
  BY <1>1, <1>2, <1>5, <1>6, <1>7, ScopesKept
<1>9. ASSUME NEW a, Around(C, a, u.v) PROVE Around(C, a, w.v)
  <2>1. CASE n = 0 BY <1>5, <1>6, <1>9, <2>1
  <2>2. CASE n # 0
    <3> DEFINE d == D.scope
    <3>1. d \in ScopesOf(C) /\ u.v < d /\ u.v \in ScopesOf(C) /\ C.visibility_scopes[d] = u.v
      BY <1>7, <2>2
    <3>2. w.v = d BY <1>5, <1>7, <2>2
    <3> HIDE DEF d
    <3>3. Around(C, a, d) BY <1>1, <1>9, <3>1, AroundInner
    <3> QED BY <3>2, <3>3
  <2> QED BY <2>1, <2>2
<1>10. ASSUME NEW i \in 1..m PROVE EntryOK(C, w, e[i])
  <2>1. EntryOK(B, u, u.e[i]) BY DEF ViewOK, m
  <2>2. EntryOK(C, u, u.e[i]) BY <1>1, <2>1, EntryKept
  <2>3. e[i] = u.e[i] BY <1>4
  <2> QED BY <1>9, <2>2, <2>3 DEF EntryOK
<1>11. ASSUME NEW j \in 1..n PROVE EntryOK(C, w, e[m + j])
  <2>1. n # 0 BY <1>1
  <2>2. w.v = D.scope BY <1>5, <1>7, <2>1
  <2>3. Around(C, w.v, w.v) BY <1>1, <1>8, AroundItself
  <2>4. /\ e[m + j].name # TempName /\ e[m + j].local \in LocalsOf(C)
        /\ C.local_decls[e[m + j].local].scope = w.v
    BY <1>1, <1>4, <1>6, <2>2
  <2> QED BY <2>3, <2>4 DEF EntryOK
<1>12. ASSUME NEW i \in 1..(m + n) PROVE EntryOK(C, w, e[i])
  <2>1. CASE i <= m
    <3>1. i \in 1..m BY <1>1, <1>4, <2>1
    <3> QED BY <1>10, <3>1
  <2>2. CASE ~(i <= m)
    <3>1. i - m \in 1..n /\ m + (i - m) = i BY <1>1, <1>4, <2>2
    <3>2. EntryOK(C, w, e[m + (i - m)]) BY <1>11, <3>1
    <3> QED BY <3>1, <3>2
  <2> QED BY <2>1, <2>2
<1>13. ASSUME NEW i \in 1..(m + n), e[i].name \notin p PROVE Agrees(C, w, e[i].name)
  <2> DEFINE name == e[i].name
  <2>0. name # TempName BY <1>12 DEF EntryOK
  <2>1. CASE ~Unbound(names, name)
    <3> HIDE DEF name
    <3>1. PICK x : IsLatest(names, x, name) BY <1>1, <2>1, LastBinding DEF n
    <3>3. Found(C, u.s, name) = D.locals[x] BY <1>0, <3>1, BoundLatest DEF C
    <3>4. MeaningIn(e, name) = D.locals[x] BY <1>1, <1>3, <3>1, BoundTo DEF n
    <3> QED BY <1>5, <3>3, <3>4 DEF Agrees, name
  <2>2. CASE Unbound(names, name)
    <3>1. i \in 1..m
      <4> SUFFICES ASSUME ~(i <= m) PROVE FALSE BY <1>1, <1>4
      <4>1. i - m \in 1..n /\ m + (i - m) = i BY <1>1, <1>4
      <4>2. names[i - m] = name BY <1>4, <4>1
      <4> QED BY <2>2, <4>1, <4>2 DEF Unbound, n
    <3>2. u.e[i].name = name BY <1>4, <3>1
    <3>3. name \notin p BY <1>13
    <3> HIDE DEF name
    <3>4. Agrees(B, u, name) BY <3>1, <3>2, <3>3 DEF ViewOK, m
    <3>5. Found(C, u.s, name) = Found(B, u.s, name) BY <1>0, <2>0, <2>2, BoundOther DEF C
    <3>6. MeaningIn(e, name) = MeaningIn(u.e, name)
      BY <1>1, <1>3, <2>2, <3>1, <3>2, BoundPast DEF n, m
    <3>7. Agrees(C, w, name) BY <1>5, <3>4, <3>5, <3>6 DEF Agrees
    <3> QED BY <3>7 DEF name
  <2> QED BY <2>1, <2>2
<1>14. \A i \in 1..Len(w.e) : EntryOK(C, w, w.e[i]) BY <1>4, <1>5, <1>12
<1>15. \A i \in 1..Len(w.e) : w.e[i].name \notin p => Agrees(C, w, w.e[i].name)
  BY <1>4, <1>5, <1>13
<1>16. w.s \in Nat /\ Frames(w.e) BY <1>2, <1>4, <1>5
<1>17. ViewOK(C, w, p) BY <1>8, <1>14, <1>15, <1>16 DEF ViewOK
<1> QED BY <1>17 DEF C

-----------------------------------------------------------------------------
(***************************************************************************)
(* let: the rest of the block has a scope with the bindings, that the      *)
(* initializer is lowered under but does not see yet.                      *)
(***************************************************************************)
Unwritten(names) == \A i \in 1..Len(names) : names[i] # TempName

LEMMA PatternsWritten ==
  ASSUME NEW names \in LetPatterns PROVE Unwritten(names)
<1>0. TempName \notin Names BY TempAssumption
<1>1. CASE \E n \in Names : names = <<n>>
  <2>1. PICK n \in Names : names = <<n>> BY <1>1
  <2>2. Len(names) = 1 /\ names[1] = n BY <2>1
  <2>3. \A i \in 1..Len(names) : i = 1 BY <2>2
  <2> QED BY <1>0, <2>2, <2>3 DEF Unwritten
<1>2. CASE \E p \in Names \X Names : names = p
  <2>1. PICK m \in Names, n \in Names : names = <<m, n>> BY <1>2
  <2>2. Len(names) = 2 /\ names[1] = m /\ names[2] = n BY <2>1
  <2>3. \A i \in 1..Len(names) : i = 1 \/ i = 2 BY <2>2
  <2> QED BY <1>0, <2>2, <2>3 DEF Unwritten
<1>3. CASE names = << >>
  <2>1. \A i \in 1..Len(names) : FALSE BY <1>3
  <2> QED BY <2>1 DEF Unwritten
<1> QED BY <1>1, <1>2, <1>3 DEF LetPatterns

LEMMA LetBinds ==
  ASSUME NEW v, Common(v), Good, NEW names \in Seq(AllNames), Unwritten(names),
         NEW R, R = enter_scope(builder), NEW D, D = declare_bindings(R, block, names)
  PROVE  /\ BindsRight(R, D, names) /\ Opens(builder, R) /\ Longer(builder, D.b) /\ BuilderOK(R)
         /\ R.visibility_scope = builder.visibility_scope
         /\ Len(D.b.scopes) = Len(builder.scopes) + 1
         /\ D.b.visibility_scope = builder.visibility_scope
         /\ SameVariables(builder, D.b, Len(builder.scopes))
<1> DEFINE k == Len(builder.scopes)
<1>1. k \in Nat BY Counts DEF Good
<1>2. Keeps(builder, R) /\ R.scopes # << >> /\ Opens(builder, R)
  BY ScopeEntered, EnterOpens DEF Common
<1>3. BuilderOK(R) /\ block \in BlocksOf(R) BY <1>2, SameArms DEF Keeps, Common
<1>4. Declares(R, D, Len(names)) /\ Adding(R, D, names, Len(names)) BY <1>2, <1>3, BindingsAdd
<1>5. BuilderOK(D.b) /\ Longer(R, D.b) BY <1>4 DEF Declares, Grows, Keeps, Adding
<1>6. /\ Len(R.scopes) = k + 1 /\ R.visibility_scope = builder.visibility_scope
      /\ \A name : Named(R, R.scopes[k + 1], name) = {}
  BY <1>2 DEF Opens
<1>7. Unwritten(names) /\ Len(names) \in Nat OBVIOUS
<1>8. BindsRight(R, D, names)
  <2>1. Len(R.scopes) \in Nat /\ Len(R.scopes) >= 1 BY <1>1, <1>6
  <2>2. \A name : Named(R, R.scopes[Len(R.scopes)], name) = {} BY <1>6
  <2> QED BY <1>3, <1>4, <1>5, <1>7, <2>1, <2>2 DEF BindsRight, Unwritten
<1>9. Longer(builder, R) BY <1>2, DeclsLonger DEF Opens, Good
<1>10. Longer(builder, D.b) BY <1>3, <1>5, <1>9, LongerTransitive DEF Good
<1>11. Len(D.b.scopes) = k + 1 /\ D.b.visibility_scope = builder.visibility_scope
  BY <1>4, <1>6 DEF Adding
<1>12. SameVariables(builder, D.b, k)
  <2>1. SameVariables(builder, R, k) BY <1>2, DeclsVariables DEF Opens
  <2>2. \A i \in 1..k : i \in 1..Len(R.scopes) /\ i # Len(R.scopes) BY <1>1, <1>6
  <2>3. ASSUME NEW i \in 1..k PROVE \A n : n # TempName =>
          Named(D.b, D.b.scopes[i], n) = Named(R, R.scopes[i], n)
    <3>1. Adding(R, D, names, Len(names)) /\ i \in 1..Len(R.scopes) /\ i # Len(R.scopes)
      BY <1>4, <2>2
    <3> QED BY ONLY <3>1, AddingOutside
  <2>4. SameVariables(R, D.b, k) BY <2>3 DEF SameVariables
  <2> QED BY <2>1, <2>4 DEF SameVariables
<1> QED BY <1>2, <1>3, <1>6, <1>8, <1>10, <1>11, <1>12

LEMMA LetViews ==
  ASSUME NEW v, Now(v), Good, Viewing, At({"stmts"}), NEW names \in Seq(AllNames),
         Unwritten(names),
         NEW R, R = enter_scope(builder), NEW D, D = declare_bindings(R, block, names),
         NEW enter,
         enter = [do |-> "enter", scope |-> D.scope, names |-> names, locals |-> D.locals],
         NEW rest, rest = [Top EXCEPT !.lets = Append(@, R.extents)],
         NEW u, u = [s |-> Len(builder.scopes) + 1, e |-> env, v |-> builder.visibility_scope]
  PROVE  Viewed(<<enter>> \o (<<rest>> \o Tail(todo)), D.b, u)
<1> DEFINE T == Tail(todo)
           k == Len(builder.scopes)
           n == Len(Top.lets)
           p == Later(T, 1)
           e == env \o Bind(names, D.locals)
           w == [s |-> u.s, e |-> e, v |-> IF D.scope = None THEN u.v ELSE D.scope]
           z == Follows(View, Top)
<1>1. todo # << >> /\ Top.do = "stmts" /\ At({"stmts", "close"}) BY DEF At
<1>2. /\ Common(v) /\ StmtsFrame(Top, v, builder) /\ n \in Nat /\ k \in Nat /\ n + 3 <= k
  <2>1. Common(v) /\ StmtsFrame(Top, v, builder) /\ n \in Nat /\ n + 3 <= Scopes BY <1>1, InStmts
  <2> QED BY <2>1, Counts DEF Good, Scopes
<1>3. /\ BindsRight(R, D, names) /\ Opens(builder, R) /\ Longer(builder, D.b) /\ BuilderOK(R)
      /\ R.visibility_scope = builder.visibility_scope
      /\ SameVariables(builder, D.b, Len(builder.scopes))
  BY <1>2, LetBinds
<1>4. BuilderOK(D.b) BY <1>3 DEF BindsRight
<1>5. /\ ViewOK(builder, View, Later(todo, 1)) /\ Viewed(T, builder, z) /\ Frames(T)
      /\ Later(todo, 1) = Announces(Top) \union p
  BY <1>1, WillView
<1>6. ViewOK(builder, View, p) BY <1>1, <1>5 DEF Announces
<1>7. /\ u.s = k + 1 /\ u.e = env /\ u.v = builder.visibility_scope /\ IsView(u)
      /\ u = [s |-> View.s + 1, e |-> View.e, v |-> View.v]
  BY ViewFields DEF IsView
<1>8. z = [s |-> k - (1 + n), e |-> Top.env, v |-> Top.outer]
  BY <1>1, ViewFields DEF Follows, Closes
<1>9. /\ rest.do = "stmts" /\ rest.env = Top.env /\ rest.outer = Top.outer
      /\ Len(rest.lets) = n + 1
  <2>1. Top.lets \in Seq(Nat) BY <1>2 DEF StmtsFrame
  <2>2. /\ rest.do = Top.do /\ rest.env = Top.env /\ rest.outer = Top.outer
        /\ rest.lets = Append(Top.lets, R.extents)
    BY <1>2 DEF StmtsFrame
  <2> QED BY <1>1, <2>1, <2>2
<1>10. enter.do = "enter" /\ enter.scope = D.scope /\ enter.names = names /\ enter.locals = D.locals
  OBVIOUS
<1>11. w.s = u.s /\ w.e = e /\ w.v = IF D.scope = None THEN u.v ELSE D.scope OBVIOUS
<1>12. ViewOK(R, u, p) BY <1>3, <1>6, <1>7, OpenedView, ViewFields DEF Good
<1>13. u.s = Len(R.scopes) /\ u.v = R.visibility_scope BY <1>3, <1>7 DEF Opens
<1>14. ViewOK(D.b, w, p)
  <2>1. EnteredView(u, D, names, w) BY <1>7, <1>11 DEF EnteredView
  <2>2. ViewHere(R, u) BY <1>13 DEF ViewHere
  <2> HIDE DEF w, p
  <2> QED BY <1>3, <1>12, <2>1, <2>2, BoundView
<1>15. ViewOK(D.b, u, ToSet(names) \union p)
  <2> HIDE DEF p
  <2> QED BY <1>3, <1>12, <1>13, PendingView
<1> HIDE DEF p, z
<1>16. z = Follows(w, rest)
  <2>1. Closes(rest) = 1 + (n + 1) BY <1>9 DEF Closes
  <2>2. (k + 1) - (1 + (n + 1)) = k - (1 + n) BY <1>2
  <2> QED BY <1>7, <1>8, <1>9, <1>11, <2>1, <2>2 DEF Follows
<1>17. w = Follows(u, enter)
  <2>1. Closes(enter) = 0 /\ u.s - 0 = u.s BY <1>2, <1>7, <1>10 DEF Closes
  <2> QED BY <1>7, <1>10, <2>1 DEF Follows
<1>18. Announces(rest) = {} /\ ArmsPlain(w, rest) BY <1>9 DEF Announces, ArmsPlain
<1>19. Announces(enter) = ToSet(names) /\ ArmsPlain(u, enter) BY <1>10 DEF Announces, ArmsPlain
<1>20. Viewed(T, D.b, z)
  <2>1. \A i \in 1..z.s : i \in 1..k
    <3>1. z.s = k - (1 + n) BY <1>8
    <3> HIDE DEF k, n
    <3> QED BY <1>2, <3>1
  <2>2. SameVariables(builder, D.b, z.s) BY <1>3, <2>1 DEF SameVariables
  <2> QED BY <1>3, <1>4, <1>5, <2>2, ViewedKept DEF Good
<1>21. z.s <= w.s /\ w.s <= u.s
  <2>1. z.s = k - (1 + n) /\ w.s = k + 1 BY <1>7, <1>8, <1>11
  <2>2. u.s = w.s BY <1>11
  <2> HIDE DEF w, n, k
  <2> QED BY <1>2, <2>1, <2>2
<1> HIDE DEF w, T
<1>22. Viewed(<<rest>> \o T, D.b, w)
  <2>1. ViewOK(D.b, w, Announces(rest) \union Later(T, 1)) BY <1>14, <1>18 DEF p
  <2> QED BY <1>16, <1>18, <1>20, <1>21, <2>1, ViewPush
<1>23. Later(<<rest>> \o T, 1) = p
  <2> DEFINE Q == <<rest>> \o T
  <2>1. Frames(Q) BY <1>22, ViewedNow
  <2>2. Q # << >> /\ Head(Q) = rest /\ Tail(Q) = T BY <1>5 DEF Frames
  <2> HIDE DEF Q
  <2>3. Later(Q, 1) = Announces(rest) \union Later(T, 1) BY <2>1, <2>2, LaterTail
  <2>4. Later(Q, 1) = p BY <1>18, <2>3 DEF p
  <2> QED BY <2>4 DEF Q
<1>24. Viewed(<<enter>> \o (<<rest>> \o T), D.b, u)
  <2>1. ViewOK(D.b, u, Announces(enter) \union Later(<<rest>> \o T, 1)) BY <1>15, <1>19, <1>23
  <2> QED BY <1>17, <1>19, <1>21, <1>22, <2>1, ViewPush
<1> QED BY <1>24 DEF T

LEMMA LetStmtGoes ==
  ASSUME NEW v, Now(v), Good, Viewing, NEW names \in LetPatterns, LetStmt(names) PROVE Goes
<1> DEFINE T == Tail(todo)
           R == enter_scope(builder)
           D == declare_bindings(R, block, names)
           S == enter_scope(D.b)
           enter == [do |-> "enter", scope |-> D.scope, names |-> names, locals |-> D.locals]
           rest == [Top EXCEPT !.lets = Append(@, R.extents)]
           into == Into(D.locals[1], {})
           pop == Pop(S.extents)
           lvalue == [do |-> "lvalue"]
           pat == [do |-> "let_pat", locals |-> D.locals]
           P == <<enter>> \o (<<rest>> \o T)
           k == Len(builder.scopes)
           u == [s |-> k + 1, e |-> env, v |-> builder.visibility_scope]
           w == [s |-> u.s + 1, e |-> u.e, v |-> u.v]
<1>1. At({"stmts"}) /\ At({"stmts", "close"}) /\ todo # << >> BY DEF LetStmt, At
<1>2. names \in Seq(AllNames) /\ Unwritten(names) BY PatternNames, PatternsWritten
<1>3. Common(v) /\ k \in Nat BY <1>1, InStmts, Counts DEF Good
<1>4. env' = env BY DEF LetStmt, program
<1>5. \/ /\ builder' = storage_live(S, block, D.locals)
         /\ todo' = <<into, pop, enter, rest>> \o T
      \/ builder' = S /\ todo' = <<lvalue, pat, pop, enter, rest>> \o T
      \/ builder' = storage_live(D.b, block, D.locals) /\ todo' = <<enter, rest>> \o T
  BY DEF LetStmt, Then
<1>6. Plain(into) /\ Plain(lvalue) /\ Plain(pat) BY DEF Plain, Into
<1>7. pop = Pop(S.extents) OBVIOUS
<1>8. Viewed(P, D.b, u) BY <1>1, <1>2, LetViews
<1>9. Frames(T) BY <1>1, WillView
<1>10. /\ u.s = k + 1 /\ u.e = env /\ u.v = builder.visibility_scope /\ IsView(u)
       /\ w = [s |-> (k + 1) + 1, e |-> env, v |-> builder.visibility_scope]
  BY DEF IsView
<1>11. /\ BindsRight(R, D, names) /\ Longer(builder, D.b) /\ Len(D.b.scopes) = k + 1
       /\ D.b.visibility_scope = builder.visibility_scope
  BY <1>2, <1>3, LetBinds
<1> HIDE DEF R, D, enter, rest, into, pop, lvalue, pat, u
<1>12. BuilderOK(D.b) BY <1>11 DEF BindsRight
<1>13. /\ BuilderOK(S) /\ Opens(D.b, S) /\ Len(S.scopes) = (k + 1) + 1
       /\ S.visibility_scope = builder.visibility_scope
  <2>1. Keeps(D.b, S) /\ Opens(D.b, S) BY <1>12, ScopeEntered, EnterOpens
  <2> QED BY <1>11, <2>1 DEF Keeps, Opens
<1>14. Longer(builder, S)
  <2>1. Longer(D.b, S) BY <1>12, <1>13, DeclsLonger DEF Opens
  <2> QED BY <1>11, <1>12, <1>13, <2>1, LongerTransitive DEF Good
<1>15. Viewed(<<pop>> \o P, S, w) /\ IsView(w)
  <2>1. u.s = Len(D.b.scopes) BY <1>10, <1>11
  <2> HIDE DEF P, S
  <2> QED BY <1>7, <1>8, <1>10, <1>12, <1>13, <2>1, ScopedOn
<1> HIDE DEF P, S, T, w
\* The initializer has a scope of its own.
<1>16. ASSUME SameNames(S, builder'), NEW Q, PlainFrames(Q), todo' = Q \o (<<pop>> \o P) PROVE Goes
  <2>1. SameView(S, builder') BY <1>13, <1>16, SameViews
  <2>2. w.s = Len(S.scopes) BY <1>10, <1>13
  <2>3. Longer(S, builder') /\ SameVariables(S, builder', w.s) BY <2>1, <2>2 DEF SameView
  <2>4. Viewed(<<pop>> \o P, builder', w) BY <1>13, <1>15, <2>3, ViewedKept DEF Good
  <2>5. Viewed(Q \o (<<pop>> \o P), builder', w) BY <1>15, <1>16, <2>4, PushPlains
  <2>6. View' = w BY <1>4, <1>10, <1>13, <1>16 DEF View, SameNames
  <2>7. Longer(builder, builder') BY <1>13, <1>14, <2>3, LongerTransitive DEF Good
  <2> QED BY <1>16, <2>5, <2>6, <2>7, Reached
<1>17. SameNames(S, S) BY <1>13, Shape, SameReflexive
<1>18. ASSUME builder' = storage_live(S, block, D.locals), todo' = <<into, pop, enter, rest>> \o T
       PROVE  Goes
  <2>1. SameNames(S, builder') BY <1>17, <1>18, StorageOn
  <2>2. PlainFrames(<<into>>) BY <1>6, PlainOne
  <2>3. todo' = <<into>> \o (<<pop>> \o P)
    <3>1. Four(T, into, pop, enter, rest) BY <1>9, ConsFour
    <3> QED BY <1>18, <3>1 DEF P, Four
  <2> QED BY <1>16, <2>1, <2>2, <2>3
<1>19. ASSUME builder' = S, todo' = <<lvalue, pat, pop, enter, rest>> \o T PROVE Goes
  <2> DEFINE Q == <<lvalue, pat>>
  <2>1. SameNames(S, builder') BY <1>17, <1>19
  <2>2. PlainFrames(Q) BY <1>6, PlainTwo
  <2>3. todo' = Q \o (<<pop>> \o P)
    <3>1. Five(T, lvalue, pat, pop, enter, rest) BY <1>9, ConsFive
    <3>2. todo' = <<lvalue>> \o (<<pat>> \o (<<pop>> \o P)) BY <1>19, <3>1 DEF P, Five
    <3>3. Frames(<<pop>> \o P) BY <1>15, ViewedNow
    <3> DEFINE W == <<pop>> \o P
    <3>4. <<lvalue>> \o (<<pat>> \o W) = <<lvalue, pat>> \o W
      <4> HIDE DEF W
      <4>1. <<lvalue, pat>> \o W = <<lvalue>> \o (<<pat>> \o W) BY <3>3, ConsTwo DEF W
      <4> QED BY <4>1
    <3> QED BY <3>2, <3>4
  <2> HIDE DEF Q
  <2> QED BY <1>16, <2>1, <2>2, <2>3
<1>20. ASSUME builder' = storage_live(D.b, block, D.locals), todo' = <<enter, rest>> \o T PROVE Goes
  <2>1. SameNames(D.b, builder') BY <1>12, <1>20, Shape, SameReflexive, StorageOn
  <2>2. SameView(D.b, builder') BY <1>12, <2>1, SameViews
  <2>3. Longer(D.b, builder') /\ SameVariables(D.b, builder', u.s)
    BY <1>10, <1>11, <2>2 DEF SameView
  <2>4. Viewed(P, builder', u) BY <1>8, <1>12, <2>3, ViewedKept DEF Good
  <2>5. View' = u
    <3>1. /\ Len(builder'.scopes) = k + 1
          /\ builder'.visibility_scope = builder.visibility_scope
      BY <1>11, <2>1 DEF SameNames
    <3> QED BY <1>4, <3>1 DEF View, u
  <2>6. Longer(builder, builder') BY <1>11, <1>12, <2>3, LongerTransitive DEF Good
  <2>7. todo' = P BY <1>9, <1>20, ConsTwo DEF P
  <2> QED BY <2>4, <2>5, <2>6, <2>7, Reached
<1> QED BY <1>5, <1>18, <1>19, <1>20

-----------------------------------------------------------------------------
(***************************************************************************)
(* match, when no arm binds anything.                                      *)
(***************************************************************************)
LEMMA BindsNothing ==
  ASSUME NEW B, NEW b, NEW names, Len(names) = 0
  PROVE  declare_bindings(B, b, names) = [b |-> B, scope |-> None, locals |-> << >>]
<1> DEFINE none == [b |-> B, scope |-> None, locals |-> << >>]
           Rounds(g) == g = [i \in 0..0 |-> IF i = 0 THEN none ELSE DeclareNext(g[i - 1], b, names[i])]
<1>1. Rounds([i \in 0..0 |-> none]) OBVIOUS
<1>2. \E g : Rounds(g) BY <1>1
<1>3. \E g : Rounds(g) /\ declare_bindings(B, b, names) = g[0] BY <1>2 DEF declare_bindings
<1>4. PICK g : Rounds(g) /\ declare_bindings(B, b, names) = g[0] BY <1>3
<1>5. g[0] = none BY <1>4
<1> QED BY <1>4, <1>5

LEMMA ArmBindsNothing ==
  ASSUME NEW A, NEW target, NEW P, NEW C, C = BindArm(A, target, << >>), A.b = P
  PROVE  /\ C.b = P
         /\ C.arms = Append(A.arms, [block |-> target, scope |-> P.visibility_scope,
                                     names |-> << >>, locals |-> << >>])
<1> DEFINE none == << >>
           d == declare_bindings(A.b, block, none)
           s == IF d.scope = None THEN d.b.visibility_scope ELSE d.scope
<1>1. Len(none) = 0 OBVIOUS
<1>2. /\ C.b = d.b
      /\ C.arms = Append(A.arms, [block |-> target, scope |-> s, names |-> none, locals |-> d.locals])
  BY DEF BindArm
<1> HIDE DEF none
<1>3. d = [b |-> P, scope |-> None, locals |-> << >>] BY <1>1, BindsNothing
<1> HIDE DEF d
<1>4. d.b = P /\ d.scope = None /\ d.locals = << >> /\ s = P.visibility_scope BY <1>3
<1> HIDE DEF s
<1> QED BY <1>2, <1>4 DEF none

LEMMA TwoAppended ==
  ASSUME NEW a, NEW b, NEW one, one = Append(<< >>, a), NEW two, two = Append(one, b)
  PROVE  Len(two) = 2 /\ two[1] = a /\ two[2] = b
<1> DEFINE U == {a, b}
           none == << >>
<1>1. none \in Seq(U) /\ a \in U /\ b \in U /\ Len(none) = 0 OBVIOUS
<1>2. one = Append(none, a) OBVIOUS
<1> HIDE DEF none, U
<1>3. one \in Seq(U) /\ Len(one) = 1 /\ one[1] = a
  <2>1. one \in Seq(U) /\ Len(one) = Len(none) + 1 /\ one[Len(none) + 1] = a
    BY <1>1, <1>2, AppendProperties
  <2> QED BY <1>1, <2>1
<1>4. Len(two) = Len(one) + 1 /\ two[Len(one) + 1] = b BY <1>1, <1>3
<1>5. \A j \in 1..Len(one) : two[j] = one[j] BY <1>1, <1>3
<1> QED BY <1>3, <1>4, <1>5

LEMMA MatchArmsGoes ==
  ASSUME Good, Viewing, ArmNames = {}, NEW pats \in ArmPatterns \X ArmPatterns, MatchArms(pats)
  PROVE  Goes
<1> DEFINE n == NextBlock(builder)
           m == n + 1
           P == start_new_block(start_new_block(builder, Open(builder)), Open(builder))
           A == [b |-> P, arms |-> << >>]
           C == BindArm(A, n, pats[1])
           D == BindArm(C, m, pats[2])
           Q == start_new_block(D.b, Open(D.b))
           t == [op |-> "Match", succ |-> <<n, n + 1>>,
                 binds |-> <<ToSet(D.arms[1].locals), ToSet(D.arms[2].locals)>>,
                 moved |-> Last(operands).moved, read |-> Last(operands).read]
           f == [do |-> "arms", dest |-> Top.dest, arms |-> D.arms, end |-> n + 2,
                 outer |-> builder.visibility_scope, env |-> env]
           T == Tail(todo)
           Arm(b) == [block |-> b, scope |-> builder.visibility_scope, names |-> << >>,
                      locals |-> << >>]
<1>1. todo # << >> /\ Plain(Top) BY DEF MatchArms, At, Plain
<1>2. builder' = terminate(Q, block, t) /\ env' = env /\ Then(<<f>>) BY DEF MatchArms, program
<1>3. f.do = "arms" /\ f.env = env /\ f.outer = builder.visibility_scope /\ f.arms = D.arms OBVIOUS
<1>4. pats[1] = << >> /\ pats[2] = << >>
  <2>1. ArmPatterns = {<< >>} BY DEF ArmPatterns
  <2> QED BY <2>1
<1>5. SameNames(builder, P) BY SameSelf, BlockOn
<1>6. A.b = P /\ A.arms = << >> OBVIOUS
<1>7. C = BindArm(A, n, << >>) /\ D = BindArm(C, m, << >>) BY <1>4
<1> HIDE DEF P, A, C, D, n, m, t, f
<1>8. C.b = P /\ C.arms = Append(<< >>, Arm(n))
  <2>1. /\ C.b = P
        /\ C.arms = Append(A.arms, [block |-> n, scope |-> P.visibility_scope,
                                    names |-> << >>, locals |-> << >>])
    BY <1>6, <1>7, ArmBindsNothing
  <2> QED BY <1>5, <1>6, <2>1 DEF SameNames
<1>9. D.b = P /\ D.arms = Append(C.arms, Arm(m))
  <2>1. /\ D.b = P
        /\ D.arms = Append(C.arms, [block |-> m, scope |-> P.visibility_scope,
                                    names |-> << >>, locals |-> << >>])
    BY <1>7, <1>8, ArmBindsNothing
  <2> QED BY <1>5, <2>1 DEF SameNames
<1>10. ASSUME NEW i \in 1..Len(D.arms) PROVE ArmPlain(View, D.arms[i])
  <2> HIDE DEF Arm
  <2>2. Len(D.arms) = 2 /\ D.arms[1] = Arm(n) /\ D.arms[2] = Arm(m) BY <1>8, <1>9, TwoAppended
  <2>3. D.arms[i] = Arm(n) \/ D.arms[i] = Arm(m)
    <3>1. Len(D.arms) = 2 /\ D.arms[1] = Arm(n) /\ D.arms[2] = Arm(m) BY <2>2
    <3>2. i = 1 \/ i = 2 BY <3>1
    <3> QED BY <3>1, <3>2
  <2>4. \A b : ArmPlain(View, Arm(b)) BY ViewFields DEF ArmPlain, Arm
  <2> QED BY <2>3, <2>4
<1>11. ArmsPlain(View, f) BY <1>3, <1>10, ViewFields DEF ArmsPlain
<1>12. SameView(builder, builder')
  <2>1. SameNames(builder, Q) BY <1>5, <1>9, BlockOn
  <2> HIDE DEF Q
  <2>2. SameNames(builder, builder') BY <1>2, <2>1, TerminateOn
  <2> QED BY <2>2, SameViews DEF Good
<1>13. Viewed(todo, builder, View) BY <1>1 DEF Viewing
<1>14. View.s \in Nat /\ View.s = Len(builder.scopes) /\ View' = View /\ IsView(View)
  BY <1>2, <1>12, Counts, ViewFields DEF View, SameView, Good
<1>15. Viewed(T, builder, View)
  <2>1. Follows(View, Top) = View BY <1>1, <1>14, PlainFollows
  <2> QED BY <1>1, <1>13, <2>1, ViewPop DEF Top
<1>16. Viewed(T, builder', View) BY <1>12, <1>14, <1>15, ViewedKept DEF SameView, Good
<1>17. View = Follows(View, f)
  <2>1. Closes(f) = 0 /\ View.s - 0 = View.s BY <1>3, <1>14 DEF Closes
  <2>2. Follows(View, f) = [s |-> View.s, e |-> View.e, v |-> View.v]
    BY <1>3, <2>1 DEF Follows
  <2> QED BY <1>14, <2>2 DEF IsView
<1> HIDE DEF T
<1>18. Viewed(<<f>> \o T, builder', View)
  <2>1. ViewOK(builder', View, Later(T, 1)) BY <1>16, ViewedNow
  <2>2. Announces(f) = {} BY <1>3 DEF Announces
  <2>3. ViewOK(builder', View, Announces(f) \union Later(T, 1)) BY <2>1, <2>2
  <2>4. View.s <= View.s BY <1>14
  <2> QED BY <1>11, <1>16, <1>17, <2>3, <2>4, ViewPush
<1>19. todo' = <<f>> \o T BY <1>2 DEF Then, T
<1>20. Longer(builder, builder') BY <1>12 DEF SameView
<1> QED BY <1>14, <1>18, <1>19, <1>20, Reached

\* Between two arms the program sees what it did before the match.
LEMMA BetweenArms ==
  ASSUME NEW v, Now(v), Good, Viewing, At({"arms"})
  PROVE  /\ Frames(Tail(todo)) /\ Viewed(Tail(todo), builder, View) /\ IsView(View)
         /\ Top.env = env /\ Top.outer = builder.visibility_scope /\ ArmsFrame(Top, builder)
         /\ \A i \in 1..Len(Top.arms) : ArmPlain(View, Top.arms[i])
         /\ View.s \in Nat
<1>1. todo # << >> /\ Top.do = "arms" BY DEF At
<1>2. /\ Viewed(Tail(todo), builder, Follows(View, Top)) /\ Frames(Tail(todo))
      /\ ArmsPlain(View, Top)
  BY <1>1, WillView
<1>3. View.s \in Nat BY Counts, ViewFields DEF Good
<1>4. Follows(View, Top) = View
  <2>1. Closes(Top) = 0 /\ View.s - 0 = View.s BY <1>1, <1>3 DEF Closes
  <2>2. Follows(View, Top) = [s |-> View.s, e |-> View.e, v |-> View.v]
    BY <1>1, <2>1 DEF Follows
  <2> QED BY <2>2, ViewFields DEF IsView
<1>5. ArmsFrame(Top, builder) BY AtArms
<1> QED BY <1>1, <1>2, <1>3, <1>4, <1>5, ViewFields DEF ArmsPlain

\* The view stays the same from there when the visibility scope is set to it.
LEMMA ArmsOn ==
  ASSUME Good, IsView(View), NEW fs, Viewed(fs, builder, View), NEW x,
         x = builder.visibility_scope, builder' = [builder EXCEPT !.visibility_scope = x]
  PROVE  /\ Longer(builder, builder') /\ Viewed(fs, builder', View)
         /\ builder'.scopes = builder.scopes
         /\ builder'.visibility_scope = builder.visibility_scope
<1>1. /\ builder'.scopes = builder.scopes /\ builder'.visibility_scope = x
      /\ Longer(builder, builder') /\ \A s : SameVariables(builder, builder', s)
  BY VisibilitySet DEF Good
<1> QED BY <1>1, ViewedKept DEF Good

LEMMA NextArmGoes == ASSUME NEW v, Now(v), Good, Viewing, NextArm PROVE Goes
<1> DEFINE T == Tail(todo)
           arm == Head(Top.arms)
           a == Into(Top.dest, {})
           g == [do |-> "arm_end", end |-> Top.end]
           r == [Top EXCEPT !.arms = Tail(@)]
           R == Tail(Top.arms)
<1>1. At({"arms"}) /\ Top.do = "arms" /\ Top.arms # << >> BY DEF NextArm, At
<1>2. /\ builder' = [builder EXCEPT !.visibility_scope = arm.scope]
      /\ env' = Top.env \o Bind(arm.names, arm.locals) /\ todo' = <<a, g, r>> \o T
  BY DEF NextArm, Then
<1>3. /\ Frames(T) /\ Viewed(T, builder, View) /\ IsView(View) /\ View.s \in Nat
      /\ Top.env = env /\ Top.outer = builder.visibility_scope /\ ArmsFrame(Top, builder)
      /\ \A i \in 1..Len(Top.arms) : ArmPlain(View, Top.arms[i])
  BY <1>1, BetweenArms
<1>4. PICK S : Top.arms \in Seq(S) BY <1>3 DEF ArmsFrame
<1>5. /\ arm = Top.arms[1] /\ 1 \in 1..Len(Top.arms)
      /\ \A i \in 1..Len(R) : R[i] = Top.arms[i + 1] /\ i + 1 \in 1..Len(Top.arms)
  <2> DEFINE s == Top.arms
  <2>1. s \in Seq(S) /\ s # << >> BY <1>1, <1>4
  <2> HIDE DEF s
  <2>2. Head(s) = s[1] /\ Len(s) \in Nat /\ Len(s) >= 1 BY <2>1
  <2>3. Len(Tail(s)) = Len(s) - 1 /\ \A i \in 1..(Len(s) - 1) : Tail(s)[i] = s[i + 1] BY <2>1
  <2> QED BY <2>2, <2>3 DEF s
<1>6. /\ r.do = "arms" /\ r.env = Top.env /\ r.outer = Top.outer /\ r.arms = R
  BY <1>1, <1>3 DEF ArmsFrame
<1>7. Plain(a) /\ Plain(g) BY DEF Plain, Into
<1> HIDE DEF arm, a, g, r, R
<1>8. arm.scope = builder.visibility_scope /\ arm.names = << >> /\ arm.locals = << >>
  BY <1>3, <1>5, ViewFields DEF ArmPlain
<1>9. env' = env
  <2>1. ViewOK(builder, View, Later(T, 1)) BY <1>3, ViewedNow
  <2>2. PICK U : env \in Seq(U) BY <2>1, ViewFields DEF ViewOK, Frames
  <2>3. Bind(<< >>, << >>) = << >> BY DEF Bind
  <2>4. env' = env \o << >> BY <1>2, <1>3, <1>8, <2>3
  <2> QED BY <2>2, <2>4
<1>10. ArmsPlain(View, r)
  <2>1. \A i \in 1..Len(r.arms) : ArmPlain(View, r.arms[i]) BY <1>3, <1>5, <1>6
  <2> QED BY <1>3, <1>6, <2>1, ViewFields DEF ArmsPlain
<1> DEFINE x == arm.scope
<1>11. x = builder.visibility_scope /\ builder' = [builder EXCEPT !.visibility_scope = x]
  BY <1>2, <1>8
<1> HIDE DEF T, x
<1>12. /\ Longer(builder, builder') /\ Viewed(T, builder', View)
       /\ builder'.scopes = builder.scopes
       /\ builder'.visibility_scope = builder.visibility_scope
  BY <1>3, <1>11, ArmsOn
<1>13. View' = View BY <1>9, <1>12 DEF View
<1>14. View = Follows(View, r)
  <2>1. Closes(r) = 0 /\ View.s - 0 = View.s BY <1>3, <1>6 DEF Closes
  <2>2. Follows(View, r) = [s |-> View.s, e |-> View.e, v |-> View.v]
    BY <1>6, <2>1 DEF Follows
  <2> QED BY <1>3, <2>2 DEF IsView
<1>15. Viewed(<<r>> \o T, builder', View)
  <2>1. ViewOK(builder', View, Later(T, 1)) BY <1>12, ViewedNow
  <2>2. Announces(r) = {} BY <1>6 DEF Announces
  <2>3. ViewOK(builder', View, Announces(r) \union Later(T, 1)) BY <2>1, <2>2
  <2>4. View.s <= View.s BY <1>3
  <2> QED BY <1>10, <1>12, <1>14, <2>3, <2>4, ViewPush
<1>16. Viewed(<<g>> \o (<<r>> \o T), builder', View) BY <1>3, <1>7, <1>15, PushPlain
<1>17. Viewed(<<a>> \o (<<g>> \o (<<r>> \o T)), builder', View) BY <1>3, <1>7, <1>16, PushPlain
<1>18. todo' = <<a>> \o (<<g>> \o (<<r>> \o T))
  <2>1. Three(T, a, g, r) BY <1>3, ConsThree DEF T
  <2> QED BY <1>2, <2>1 DEF Three, T
<1> QED BY <1>12, <1>13, <1>17, <1>18, Reached

LEMMA MatchEndGoes == ASSUME NEW v, Now(v), Good, Viewing, MatchEnd PROVE Goes
<1> DEFINE T == Tail(todo)
           x == Top.outer
<1>1. At({"arms"}) BY DEF MatchEnd
<1>2. /\ builder' = [builder EXCEPT !.visibility_scope = x]
      /\ env' = Top.env /\ Then(<< >>)
  BY DEF MatchEnd
<1>3. /\ Frames(T) /\ Viewed(T, builder, View) /\ IsView(View)
      /\ Top.env = env /\ x = builder.visibility_scope
  BY <1>1, BetweenArms
<1>4. todo' = T BY <1>2, <1>3, ConsNone DEF Then
<1> HIDE DEF T, x
<1>5. /\ Longer(builder, builder') /\ Viewed(T, builder', View)
      /\ builder'.scopes = builder.scopes
      /\ builder'.visibility_scope = builder.visibility_scope
  BY <1>2, <1>3, ArmsOn
<1>6. View' = View BY <1>2, <1>3, <1>5 DEF View
<1> QED BY <1>4, <1>5, <1>6, Reached

-----------------------------------------------------------------------------
(***************************************************************************)
(* The epilogue, and the beginning.                                        *)
(***************************************************************************)
LEMMA DeclsNames ==
  ASSUME NEW A, NEW B, NEW C, SameDecls(A, B), SameNames(B, C) PROVE SameDecls(A, C)
BY DEF SameDecls, SameNames

LEMMA DeclsTransitive ==
  ASSUME NEW A, NEW B, NEW C, SameDecls(A, B), SameDecls(B, C) PROVE SameDecls(A, C)
BY DEF SameDecls

LEMMA EpilogueGoes == ASSUME NEW v, Now(v), Good, Viewing, Epilogue PROVE Goes
<1> DEFINE P == pop_scope(builder, block, PARAMETERS)
           R == return_block(P)
           end == R.cached_return_block
           j == Jump("Goto", <<end>>, NoOperand)
           r == Jump("Return", << >>, NoOperand)
           X == terminate(terminate(R, block, j), end, r)
           C == pop_scope(X, end, CALL_SITE)
           p == C.asserts /\ \A b \in 1..Len(C.basic_blocks) : C.basic_blocks[b].term # Unterminated
<1>1. At({"epilogue"}) /\ Tail(todo) = << >> /\ Scopes = 2 BY AtEpilogue DEF Epilogue
<1>2. builder' = [C EXCEPT !.asserts =
                    @ /\ \A b \in 1..Len(C.basic_blocks) : C.basic_blocks[b].term # Unterminated]
  BY DEF Epilogue
<1>3. todo' = << >>
  <2>1. todo' = << >> \o Tail(todo) BY DEF Epilogue, Then
  <2>2. << >> \o << >> = << >> OBVIOUS
  <2> QED BY <1>1, <2>1, <2>2
<1>4. Shaped(builder) /\ builder.scopes \in Seq(ScopeRecords) /\ Len(builder.scopes) = 2
  BY <1>1, Shape, Counts DEF Good, Scopes
<1>5. Pops(builder, P, 1) 
  <2>1. builder.scopes # << >> BY <1>4
  <2> QED BY <1>4, <2>1, PopPops
<1> HIDE DEF P
<1>6. Shaped(P) /\ P.scopes \in Seq(ScopeRecords) /\ Len(P.scopes) = 1 BY <1>4, <1>5 DEF Pops, SameDecls
<1>7. SameNames(P, X)
  <2>1. SameNames(P, R) BY <1>6, SameReflexive, ReturnOn
  <2> HIDE DEF R, j, r, end
  <2> QED BY <2>1, TerminateOn
<1> HIDE DEF X, end
<1>8. Pops(X, C, 1)
  <2>1. Shaped(X) /\ X.scopes \in Seq(ScopeRecords) /\ Len(X.scopes) = 1 BY <1>6, <1>7 DEF SameNames
  <2> DEFINE ss == X.scopes
  <2>2. ss \in Seq(ScopeRecords) /\ Len(ss) = 1 BY <2>1
  <2> HIDE DEF ss
  <2>3. ss # << >> BY <2>2
  <2> QED BY <2>1, <2>3, PopPops DEF ss
<1> HIDE DEF C
<1>9. SameNames(C, builder')
  <2>1. builder' = [C EXCEPT !.asserts = p]
    <3>1. "asserts" \in DOMAIN C BY <1>8 DEF Pops, SameDecls, Shaped, BuilderFieldNames
    <3> QED BY <1>2, <3>1
  <2>2. Shaped(C) BY <1>8 DEF Pops, SameDecls
  <2> HIDE DEF p
  <2> QED BY <2>1, <2>2, AssertsSame
<1>10. SameDecls(builder, builder')
  <2>1. SameDecls(builder, P) BY <1>5 DEF Pops
  <2>2. SameDecls(X, C) BY <1>8 DEF Pops
  <2> QED BY <1>7, <1>9, <2>1, <2>2, DeclsNames, DeclsTransitive
<1>11. Longer(builder, builder') BY <1>10, DeclsLonger DEF Good
<1> QED BY <1>3, <1>11 DEF Goes, Viewing

LEMMA StutterGoes == ASSUME Good, Viewing, UNCHANGED vars PROVE Goes
<1>1. builder' = builder /\ todo' = todo /\ env' = env BY DEF vars, program
<1>2. Longer(builder, builder') BY <1>1, Counts DEF Good, Longer
<1> QED BY <1>1, <1>2 DEF Goes, Viewing, View

LEMMA ViewedEmpty ==
  ASSUME NEW B, NEW u, ViewOK(B, u, {}) PROVE Viewed(<< >>, B, u) /\ Later(<< >>, 1) = {}
<1> DEFINE fs == << >>
           lv == [i \in 1..1 |-> u]
<1>1. fs \in Seq({}) /\ Len(fs) = 0 OBVIOUS
<1> HIDE DEF fs
<1>2. Frames(fs) BY <1>1 DEF Frames
<1>3. \A i : Later(fs, i) = {} \/ ~(i \in 1..1)
  <2> SUFFICES ASSUME NEW i \in 1..1 PROVE Later(fs, i) = {} OBVIOUS
  <2>1. i..Len(fs) = {} BY <1>1
  <2>2. {h \in i..Len(fs) : fs[h].do = "enter"} = {} BY <2>1
  <2> QED BY <2>2 DEF Later
<1>4. lv[1] = u /\ u.s \in Nat BY DEF ViewOK
<1>5. 1..(Len(fs) + 1) = 1..1 /\ 1..Len(fs) = {} BY <1>1
<1>6. \A i \in 1..1 : i = 1 OBVIOUS
<1> HIDE DEF lv
<1>7. IsViews(lv, fs, B, u)
  <2>1. \A i \in 1..(Len(fs) + 1) : ViewOK(B, lv[i], Later(fs, i)) BY <1>3, <1>4, <1>5, <1>6
  <2>2. \A i, j \in 1..(Len(fs) + 1) : i <= j => lv[j].s <= lv[i].s BY <1>4, <1>5, <1>6
  <2>3. \A i \in 1..Len(fs) : lv[i + 1] = Follows(lv[i], fs[i]) /\ ArmsPlain(lv[i], fs[i])
    BY <1>5
  <2> QED BY <1>4, <2>1, <2>2, <2>3 DEF IsViews
<1>8. Viewed(fs, B, u) BY <1>2, <1>7 DEF Viewed
<1>9. Later(fs, 1) = {} BY <1>3
<1> QED BY <1>8, <1>9 DEF fs

LEMMA ArgumentsWritten ==
  /\ Args \in Seq(AllNames) /\ Len(Args) \in Nat /\ Unwritten(Args)
<1>1. ToSet(Args) \subseteq AllNames BY DEF AllNames
<1>2. Args \in Seq(AllNames) BY <1>1, ProgramAssumption, SeqMonotonic
<1>3. \A i \in 1..Len(Args) : Args[i] \in ToSet(Args) BY ProgramAssumption DEF ToSet
<1>4. TempName \notin ToSet(Args) BY TempAssumption
<1> QED BY <1>2, <1>3, <1>4 DEF Unwritten

\* The builder with the two outer scopes, that no variable is in.
LEMMA OuterScopes ==
  ASSUME NEW P, P = push_scope(push_scope(NewBuilder, CALL_SITE), PARAMETERS)
  PROVE  /\ BuilderOK(P) /\ P.scopes # << >> /\ START_BLOCK \in BlocksOf(P) /\ Len(P.scopes) = 2
         /\ \A name : Named(P, P.scopes[2], name) = {}
<1> DEFINE N == NewBuilder
           C == push_scope(N, CALL_SITE)
           Q == push_scope(C, PARAMETERS)
<1>1. BuilderOK(N) /\ Unended(N) = {START_BLOCK} /\ Len(N.scopes) = 0
  <2>1. N.scopes = << >> BY NewBuilderOK
  <2>2. Len(<< >>) = 0 OBVIOUS
  <2>3. BuilderOK(N) /\ Unended(N) = {START_BLOCK} BY NewBuilderOK
  <2> HIDE DEF N
  <2> QED BY <2>1, <2>2, <2>3
<1>2. CALL_SITE \in Nat /\ PARAMETERS \in Nat BY DEF CALL_SITE, PARAMETERS
<1>3. Q = P OBVIOUS
<1> HIDE DEF N
<1>4. Keeps(N, C) /\ Len(C.scopes) = Len(N.scopes) + 1
  <2>1. BuilderOK(N) /\ CALL_SITE \in Nat BY <1>1, <1>2
  <2> QED BY <2>1, ScopeOpened
<1> HIDE DEF C
<1>5. BuilderOK(C) /\ Len(C.scopes) = 1 BY <1>1, <1>4 DEF Keeps
<1>6. Keeps(C, Q) /\ Q.scopes # << >> /\ Len(Q.scopes) = Len(C.scopes) + 1
  <2>1. BuilderOK(C) /\ PARAMETERS \in Nat BY <1>2, <1>5
  <2> QED BY <2>1, ScopeOpened
<1>7. Opens(C, Q)
  <2>1. Shaped(C) /\ C.scopes \in Seq(ScopeRecords) /\ C.visibility_scope \in Nat
    BY <1>5, Shape, Counts, BuilderFields DEF BuilderOK
  <2> QED BY <1>2, <2>1, ScopeOpens
<1> HIDE DEF Q
<1>8. Unended(Q) = {START_BLOCK}
  <2>1. Unended(C) = {START_BLOCK} BY <1>1, <1>4, KeptGraph
  <2> QED BY <1>5, <1>6, <2>1, KeptGraph
<1>9. START_BLOCK \in BlocksOf(Q) BY <1>8 DEF Unended
<1>10. BuilderOK(Q) BY <1>6 DEF Keeps
<1>11. Len(Q.scopes) = 2 BY <1>5, <1>6
<1>12. \A name : Named(Q, Q.scopes[2], name) = {}
  <2>1. Len(C.scopes) + 1 = 2 BY <1>5
  <2> QED BY <1>7, <2>1 DEF Opens
<1>13. /\ BuilderOK(Q) /\ Q.scopes # << >> /\ START_BLOCK \in BlocksOf(Q) /\ Len(Q.scopes) = 2
       /\ \A name : Named(Q, Q.scopes[2], name) = {}
  BY <1>6, <1>9, <1>10, <1>11, <1>12
<1> QED BY <1>3, <1>13

LEMMA InitViews == ASSUME Init, BuilderOK(builder) PROVE NInv
<1> DEFINE P == push_scope(push_scope(NewBuilder, CALL_SITE), PARAMETERS)
           D == declare_bindings(P, START_BLOCK, Args)
           a == InnerBlock(RETURN_POINTER)
           e == [do |-> "epilogue"]
           u == [s |-> 2, e |-> << >>, v |-> P.visibility_scope]
           z == Follows(View, e)
<1>1. /\ builder = IF D.scope = None THEN D.b ELSE [D.b EXCEPT !.visibility_scope = D.scope]
      /\ todo = <<a, e>> /\ env = Bind(Args, D.locals) /\ lookups = {}
  BY DEF Init
<1>2. /\ BuilderOK(P) /\ P.scopes # << >> /\ START_BLOCK \in BlocksOf(P) /\ Len(P.scopes) = 2
      /\ \A name : Named(P, P.scopes[2], name) = {}
  BY OuterScopes
<1> HIDE DEF P
<1>3. Args \in Seq(AllNames) /\ Len(Args) \in Nat /\ Unwritten(Args) BY ArgumentsWritten
<1>4. Declares(P, D, Len(Args)) /\ Adding(P, D, Args, Len(Args)) BY <1>2, <1>3, BindingsAdd
<1>5. e.do = "epilogue" /\ a.do = "block" BY DEF InnerBlock
<1>6. u.s = 2 /\ u.e = << >> /\ u.v = P.visibility_scope OBVIOUS
<1> HIDE DEF D, a, e, u
<1>7. BuilderOK(D.b) /\ Longer(P, D.b) /\ Len(D.b.scopes) = 2 /\ D.b.visibility_scope = u.v
  BY <1>2, <1>4, <1>6 DEF Declares, Grows, Keeps, Adding
<1>8. BindsRight(P, D, Args) BY <1>2, <1>3, <1>4, <1>7 DEF BindsRight, Unwritten
<1>9. ViewOK(P, u, {})
  <2>1. u.v \in ScopesOf(P) BY <1>2, <1>6 DEF BuilderOK
  <2> DEFINE s == << >>
  <2>2. s \in Seq({}) /\ Len(s) = 0 OBVIOUS
  <2>3. u.e = s BY <1>6
  <2> HIDE DEF s
  <2>4. Frames(s) /\ \A i \in 1..Len(s) : FALSE BY <2>2 DEF Frames
  <2> QED BY <1>6, <2>1, <2>3, <2>4 DEF ViewOK
<1> DEFINE w == [s |-> u.s, e |-> env, v |-> IF D.scope = None THEN u.v ELSE D.scope]
<1>10. ViewOK(D.b, w, {})
  <2>1. env = u.e \o Bind(Args, D.locals)
    <3> DEFINE b == Bind(Args, D.locals)
               X == {[name |-> Args[i], local |-> D.locals[i]] : i \in 1..Len(Args)}
    <3>1. b \in Seq(X) BY <1>3 DEF Bind
    <3>2. << >> \o b = b
      <4> HIDE DEF b, X
      <4> QED BY <3>1, ConcatEmptySeq
    <3> QED BY <1>1, <1>6, <3>2
  <2>2. ViewHere(P, u) BY <1>2, <1>6 DEF ViewHere
  <2>3. EnteredView(u, D, Args, w) BY <2>1 DEF EnteredView
  <2> HIDE DEF w
  <2> QED BY <1>8, <1>9, <2>2, <2>3, BoundView
<1>11. /\ Longer(D.b, builder) /\ SameVariables(D.b, builder, w.s)
       /\ builder.scopes = D.b.scopes
       /\ builder.visibility_scope = IF D.scope = None THEN u.v ELSE D.scope
  <2>1. CASE D.scope = None
    <3>1. builder = D.b BY <1>1, <2>1
    <3>2. SameNames(D.b, builder) BY <1>7, <3>1, Shape, SameReflexive
    <3>3. SameVariables(D.b, builder, w.s) BY <3>2 DEF SameNames, SameVariables, Named
    <3> QED BY <1>7, <2>1, <3>1, <3>2, <3>3, SameViews DEF SameView
  <2>2. CASE D.scope # None
    <3> DEFINE x == D.scope
    <3>1. builder = [D.b EXCEPT !.visibility_scope = x] BY <1>1, <2>2
    <3> HIDE DEF x
    <3>2. /\ builder.scopes = D.b.scopes /\ builder.visibility_scope = x
          /\ Longer(D.b, builder) /\ \A s : SameVariables(D.b, builder, s)
      BY <1>7, <3>1, VisibilitySet
    <3> QED BY <2>2, <3>2 DEF x
  <2> QED BY <2>1, <2>2
<1>12. View = w BY <1>6, <1>7, <1>11 DEF View
<1>13. ViewOK(builder, View, {}) BY <1>7, <1>10, <1>11, <1>12, ViewOKKept
<1>14. View.s = 2 /\ IsView(View) BY <1>6, <1>12, ViewFields
<1> HIDE DEF w
<1>15. z = [s |-> 0, e |-> << >>, v |-> View.v]
  <2>1. Closes(e) = 2 BY <1>5 DEF Closes
  <2> QED BY <1>5, <1>14, <2>1 DEF Follows
<1>16. z.s = 0 /\ z.e = << >> /\ z.v = View.v BY <1>15
<1> HIDE DEF z
<1>17. ViewOK(builder, z, {})
  <2>1. z.v \in ScopesOf(builder) BY <1>13, <1>16 DEF ViewOK
  <2> DEFINE s == << >>
  <2>2. s \in Seq({}) /\ Len(s) = 0 OBVIOUS
  <2>3. z.e = s BY <1>16
  <2> HIDE DEF s
  <2>4. Frames(s) /\ \A i \in 1..Len(s) : FALSE BY <2>2 DEF Frames
  <2> QED BY <1>16, <2>1, <2>3, <2>4 DEF ViewOK
<1> DEFINE none == << >>
<1>18. Viewed(none, builder, z) /\ Later(none, 1) = {} BY <1>17, ViewedEmpty
<1>19. <<e>> \o none = <<e>> OBVIOUS
<1> HIDE DEF none
<1>20. Viewed(<<e>> \o none, builder, View)
  <2>1. Announces(e) = {} /\ ArmsPlain(View, e) BY <1>5 DEF Announces, ArmsPlain
  <2>2. ViewOK(builder, View, Announces(e) \union Later(none, 1)) BY <1>13, <1>18, <2>1
  <2>3. z = Follows(View, e) /\ z.s <= View.s BY <1>14, <1>16 DEF z
  <2> QED BY <1>18, <2>1, <2>2, <2>3, ViewPush
<1>21. Viewed(<<e>>, builder, View) BY <1>19, <1>20
<1>22. Viewed(<<a>> \o <<e>>, builder, View)
  <2>1. Plain(a) BY <1>5 DEF Plain
  <2> QED BY <1>14, <1>21, <2>1, PushPlain
<1>23. todo = <<a>> \o <<e>> BY <1>1, PairOf
<1> QED BY <1>1, <1>22, <1>23 DEF NInv, Viewing, UsesOK

-----------------------------------------------------------------------------
(***************************************************************************)
(* Resolutions.                                                            *)
(***************************************************************************)
LEMMA UseKept ==
  ASSUME NEW B, BuilderOK(B), NEW B2, BuilderOK(B2), Longer(B, B2), NEW use, UseOK(B, use)
  PROVE  UseOK(B2, use)
<1>1. CASE use.own BY <1>1 DEF UseOK
<1>2. CASE ~use.own
  <2>1. /\ use.got = use.want /\ use.got \in LocalsOf(B)
        /\ Around(B, B.local_decls[use.got].scope, use.scope)
    BY <1>2 DEF UseOK
  <2>2. use.got \in LocalsOf(B2) BY <2>1, ScopesKept
  <2>3. B2.local_decls[use.got].scope = B.local_decls[use.got].scope BY <2>1 DEF Longer
  <2>4. Around(B2, B.local_decls[use.got].scope, use.scope) BY <2>1, AroundKept
  <2>5. Around(B2, B2.local_decls[use.got].scope, use.scope)
    <3>1. ASSUME NEW a, NEW b, a = b, Around(B2, b, use.scope) PROVE Around(B2, a, use.scope) BY <3>1
    <3> QED BY <2>3, <2>4, <3>1
  <2> QED BY <2>1, <2>2, <2>5 DEF UseOK
<1> QED BY <1>1, <1>2

\* A name that is resolved under a view that is right.
LEMMA ResolveRight ==
  ASSUME Good, ViewOK(builder, View, Later(todo, 1)), NEW name, InEnv(name),
         NEW use, use.got = find_local(builder, name), use.want = Meaning(name),
         use.scope = builder.visibility_scope, use.own = (name \in Pending)
  PROVE  UseOK(builder, use)
<1> SUFFICES ASSUME name \notin Pending PROVE UseOK(builder, use) BY DEF UseOK
<1> DEFINE S == {i \in 1..Len(env) : env[i].name = name}
           x == Latest(S)
<1>1. Pending = Later(todo, 1) BY DEF Pending, Later
<1>2. Frames(env) /\ Len(env) \in Nat /\ View.e = env BY ViewFields DEF ViewOK, Frames
<1>3. x \in 1..Len(env) /\ env[x].name = name
  <2>1. S \in SUBSET (0..Len(env)) /\ S # {} BY <1>2 DEF InEnv
  <2>2. \A i \in S : i \in 1..Len(env) /\ env[i].name = name OBVIOUS
  <2> HIDE DEF S
  <2>3. Latest(S) \in S BY <1>2, <2>1, LatestMember
  <2> QED BY <2>2, <2>3
<1>4. Meaning(name) = env[x].local /\ MeaningIn(env, name) = env[x].local
  BY DEF Meaning, MeaningIn
<1> HIDE DEF x
<1>5. EntryOK(builder, View, env[x]) BY <1>2, <1>3 DEF ViewOK
<1>6. Agrees(builder, View, name)
  <2>1. env[x].name \notin Later(todo, 1) BY <1>1, <1>3
  <2>2. Agrees(builder, View, env[x].name) BY <1>2, <1>3, <2>1 DEF ViewOK
  <2> QED BY <1>3, <2>2
<1>7. use.got = env[x].local /\ use.want = env[x].local
  <2>1. find_local(builder, name) = Found(builder, View.s, name) BY FoundAll, ViewFields
  <2>2. Found(builder, View.s, name) = MeaningIn(env, name) BY <1>2, <1>6 DEF Agrees
  <2> QED BY <1>4, <2>1, <2>2
<1>8. env[x].local \in LocalsOf(builder)
      /\ Around(builder, builder.local_decls[env[x].local].scope, use.scope)
  BY <1>5, ViewFields DEF EntryOK
<1>9. use.got \in LocalsOf(builder) /\ Around(builder, builder.local_decls[use.got].scope, use.scope)
  <2>1. ASSUME NEW a, NEW b, a = b, b \in LocalsOf(builder),
               Around(builder, builder.local_decls[b].scope, use.scope)
        PROVE  a \in LocalsOf(builder) /\ Around(builder, builder.local_decls[a].scope, use.scope)
    BY <2>1
  <2> QED BY <1>7, <1>8, <2>1
<1> QED BY <1>7, <1>9 DEF UseOK

Resolved == todo # << >> /\ \E name : Resolve(name)

LEMMA OnlyResolved == ASSUME Next PROVE UNCHANGED lookups \/ Resolved
<1> DEFINE Same == UNCHANGED lookups
<1>1. ASSUME IntoConstant \/ OperandConstant \/ OperandTemp \/ UseTemp PROVE Same
  BY <1>1 DEF IntoConstant, OperandConstant, OperandTemp, UseTemp, program
<1>2. ASSUME RvalueMac PROVE Same BY <1>2 DEF RvalueMac
<1>3. ASSUME NEW name \in Names \union ArmNames, IntoPath(name) \/ OperandPath(name) PROVE Resolved
  BY <1>3 DEF IntoPath, OperandPath, Resolved, At
<1>4. ASSUME NEW name \in Names \union ArmNames, AssignExpr(name) PROVE Same
  BY <1>4 DEF AssignExpr, program
<1>5. ASSUME StmtOther PROVE Same BY <1>5 DEF StmtOther, program
<1>16. ASSUME Assign PROVE Resolved BY <1>16 DEF Assign, Resolved, At
<1>6. ASSUME \E i \in 1..Len(builder.loop_scopes) : BreakExpr(i) \/ ContinueExpr(i) PROVE Same
  BY <1>6 DEF BreakExpr, ContinueExpr, program
<1>7. ASSUME ReturnExpr \/ BlockExpr \/ ExprStmt \/ MacStmt PROVE Same
  BY <1>7 DEF ReturnExpr, BlockExpr, ExprStmt, MacStmt, program
<1>8. ASSUME ExitScope \/ OpenBlock \/ PopScope PROVE Same
  BY <1>8 DEF ExitScope, OpenBlock, PopScope, program
<1>9. ASSUME \E names \in LetPatterns : LetStmt(names) PROVE Same BY <1>9 DEF LetStmt, program
<1>10. ASSUME LetPattern \/ EnterVisibility \/ FinishBlock \/ CloseBlock PROVE Same
  BY <1>10 DEF LetPattern, EnterVisibility, FinishBlock, CloseBlock, program
<1>11. ASSUME IfExpr \/ LoopExpr \/ MatchExpr \/ SuspendExpr \/ CallExpr PROVE Same
  BY <1>11 DEF IfExpr, LoopExpr, MatchExpr, SuspendExpr, CallExpr, program
<1>12. ASSUME IfThen \/ IfElse \/ IfJoin \/ WhileTest \/ LoopBody \/ LoopEnd PROVE Same
  BY <1>12 DEF IfThen, IfElse, IfJoin, WhileTest, LoopBody, LoopEnd, program
<1>13. ASSUME \E pats \in ArmPatterns \X ArmPatterns : MatchArms(pats) PROVE Same
  BY <1>13 DEF MatchArms, program
<1>14. ASSUME NextArm \/ ArmEnd \/ MatchEnd \/ Suspend \/ Call \/ Epilogue PROVE Same
  BY <1>14 DEF NextArm, ArmEnd, MatchEnd, Suspend, Call, Epilogue, program
<1>15. ASSUME Done PROVE Same BY <1>15 DEF Done, vars, program
<1> HIDE DEF Same, Resolved
<1>17. Same \/ Resolved
  BY <1>1, <1>2, <1>3, <1>4, <1>5, <1>6, <1>7, <1>8, <1>9, <1>10, <1>11, <1>12, <1>13, <1>14,
     <1>15, <1>16 DEF Next
<1> QED BY <1>17 DEF Same

LEMMA UsesGo == ASSUME Good, NInv, Next, Goes PROVE UsesOK'
<1> SUFFICES ASSUME NEW use \in lookups' PROVE UseOK(builder', use) BY DEF UsesOK
<1>1. ASSUME use \in lookups PROVE UseOK(builder', use)
  <2>1. UseOK(builder, use) BY <1>1 DEF NInv, UsesOK
  <2> QED BY <2>1, UseKept DEF Good, Goes
<1>2. ASSUME Resolved, use \notin lookups PROVE UseOK(builder', use)
  <2>1. PICK name : Resolve(name) BY <1>2 DEF Resolved
  <2>2. /\ InEnv(name)
        /\ use = [got |-> find_local(builder, name), want |-> Meaning(name),
                  scope |-> builder.visibility_scope, own |-> name \in Pending]
    BY <1>2, <2>1 DEF Resolve
  <2>3. /\ use.got = find_local(builder, name) /\ use.want = Meaning(name)
        /\ use.scope = builder.visibility_scope /\ use.own = (name \in Pending)
    BY <2>2
  <2>4. ViewOK(builder, View, Later(todo, 1))
    BY <1>2, ViewedNow DEF Resolved, NInv, Viewing
  <2>5. UseOK(builder, use) BY <2>2, <2>3, <2>4, ResolveRight
  <2> QED BY <2>5, UseKept DEF Good, Goes
<1> QED BY <1>1, <1>2, OnlyResolved

-----------------------------------------------------------------------------
(***************************************************************************)
(* Every step keeps the view right.                                        *)
(***************************************************************************)
\* The actions that are about scopes and names.
Scoping ==
  \/ OpenBlock \/ ExprStmt \/ MacStmt \/ PopScope
  \/ (\E names \in LetPatterns : LetStmt(names)) \/ EnterVisibility \/ FinishBlock \/ CloseBlock
  \/ (\E pats \in ArmPatterns \X ArmPatterns : MatchArms(pats)) \/ NextArm \/ MatchEnd
  \/ Epilogue \/ Done

LEMMA NextPlain ==
  ASSUME Good, todo # << >> => builder.scopes # << >>, Next PROVE Plainly \/ Scoping
<1>1. ASSUME IntoConstant PROVE Plainly BY <1>1, IntoConstantPlain
<1>2. ASSUME OperandConstant PROVE Plainly BY <1>2, OperandConstantPlain
<1>3. ASSUME OperandTemp PROVE Plainly BY <1>3, OperandTempPlain DEF OperandTemp, At
<1>4. ASSUME UseTemp PROVE Plainly BY <1>4, UseTempPlain
<1>5. ASSUME RvalueMac PROVE Plainly BY <1>5, RvalueMacPlain
<1>6. ASSUME NEW name \in Names \union ArmNames, IntoPath(name) PROVE Plainly
  BY <1>6, IntoPathPlain
<1>7. ASSUME NEW name \in Names \union ArmNames, OperandPath(name) PROVE Plainly
  BY <1>7, OperandPathPlain
<1>8. ASSUME NEW name \in Names \union ArmNames, AssignExpr(name) PROVE Plainly
  BY <1>8, AssignExprPlain
<1>9. ASSUME StmtOther PROVE Plainly BY <1>9, StmtOtherPlain DEF StmtOther, At
<1>10. ASSUME Assign PROVE Plainly BY <1>10, AssignPlain
<1>11. ASSUME NEW i \in 1..Len(builder.loop_scopes), BreakExpr(i) PROVE Plainly
  BY <1>11, BreakExprPlain
<1>12. ASSUME NEW i \in 1..Len(builder.loop_scopes), ContinueExpr(i) PROVE Plainly
  BY <1>12, ContinueExprPlain
<1>13. ASSUME ReturnExpr PROVE Plainly BY <1>13, ReturnExprPlain
<1>14. ASSUME ExitScope PROVE Plainly BY <1>14, ExitScopePlain DEF ExitScope, At
<1>15. ASSUME BlockExpr PROVE Plainly BY <1>15, BlockExprPlain
<1>16. ASSUME LetPattern PROVE Plainly BY <1>16, LetPatternPlain
<1>17. ASSUME IfExpr PROVE Plainly BY <1>17, IfExprPlain
<1>18. ASSUME IfThen PROVE Plainly BY <1>18, IfThenPlain
<1>19. ASSUME IfElse PROVE Plainly BY <1>19, IfElsePlain
<1>20. ASSUME IfJoin PROVE Plainly BY <1>20, IfJoinPlain
<1>21. ASSUME LoopExpr PROVE Plainly BY <1>21, LoopExprPlain
<1>22. ASSUME WhileTest PROVE Plainly BY <1>22, WhileTestPlain
<1>23. ASSUME LoopBody PROVE Plainly BY <1>23, LoopBodyPlain DEF LoopBody, At
<1>24. ASSUME LoopEnd PROVE Plainly BY <1>24, LoopEndPlain
<1>25. ASSUME MatchExpr PROVE Plainly BY <1>25, MatchExprPlain
<1>26. ASSUME ArmEnd PROVE Plainly BY <1>26, ArmEndPlain
<1>27. ASSUME SuspendExpr PROVE Plainly BY <1>27, SuspendExprPlain
<1>28. ASSUME Suspend PROVE Plainly BY <1>28, SuspendPlain
<1>29. ASSUME CallExpr PROVE Plainly BY <1>29, CallExprPlain
<1>30. ASSUME Call PROVE Plainly BY <1>30, CallPlain
<1> QED
  BY <1>1, <1>2, <1>3, <1>4, <1>5, <1>6, <1>7, <1>8, <1>9, <1>10, <1>11, <1>12, <1>13, <1>14,
     <1>15, <1>16, <1>17, <1>18, <1>19, <1>20, <1>21, <1>22, <1>23, <1>24, <1>25, <1>26,
     <1>27, <1>28, <1>29, <1>30 DEF Next, Scoping

LEMMA NextGoes ==
  ASSUME ArmNames = {}, NEW v, Now(v), Good, Viewing, Next PROVE Goes
<1>0. todo # << >> => builder.scopes # << >> BY TopFrame DEF Now
<1>1. ASSUME Plainly PROVE Goes BY <1>1, PlainlyGoes
<1>2. ASSUME OpenBlock PROVE Goes BY <1>2, OpenBlockGoes
<1>3. ASSUME ExprStmt PROVE Goes BY <1>3, ExprStmtGoes
<1>4. ASSUME MacStmt PROVE Goes BY <1>4, MacStmtGoes
<1>5. ASSUME PopScope PROVE Goes BY <1>5, PopScopeGoes
<1>6. ASSUME NEW names \in LetPatterns, LetStmt(names) PROVE Goes BY <1>6, LetStmtGoes
<1>7. ASSUME EnterVisibility PROVE Goes BY <1>7, EnterVisibilityGoes
<1>8. ASSUME FinishBlock PROVE Goes BY <1>8, FinishBlockGoes
<1>9. ASSUME CloseBlock PROVE Goes BY <1>9, CloseBlockGoes
<1>10. ASSUME NEW pats \in ArmPatterns \X ArmPatterns, MatchArms(pats) PROVE Goes
  BY <1>10, MatchArmsGoes
<1>11. ASSUME NextArm PROVE Goes BY <1>11, NextArmGoes
<1>12. ASSUME MatchEnd PROVE Goes BY <1>12, MatchEndGoes
<1>13. ASSUME Epilogue PROVE Goes BY <1>13, EpilogueGoes
<1>14. ASSUME Done PROVE Goes BY <1>14, StutterGoes DEF Done
<1> QED
  BY <1>0, <1>1, <1>2, <1>3, <1>4, <1>5, <1>6, <1>7, <1>8, <1>9, <1>10, <1>11, <1>12, <1>13,
     <1>14, NextPlain DEF Scoping

LEMMA InvBuilder == ASSUME IInv PROVE BuilderOK(builder) /\ \E v : Now(v)
<1>1. PICK v : StateOK(builder, block, todo, operands, yields, v) BY DEF IInv
<1>2. BuilderOK(builder) BY <1>1 DEF StateOK
<1> QED BY <1>1, <1>2 DEF Now

LEMMA NamesStep ==
  ASSUME ArmNames = {}, IInv, IInv', NInv, [Next]_vars PROVE NInv'
<1>1. BuilderOK(builder')
  <2>1. PICK w : StateOK(builder', block', todo', operands', yields', w) BY DEF IInv
  <2> QED BY <2>1 DEF StateOK
<1>2. Good BY <1>1, InvBuilder DEF Good
<1>3. PICK v : Now(v) BY InvBuilder
<1>4. CASE UNCHANGED vars
  <2>1. Goes BY <1>2, <1>4, StutterGoes DEF NInv
  <2>2. builder' = builder /\ lookups' = lookups BY <1>4 DEF vars, program
  <2> QED BY <2>1, <2>2 DEF NInv, Goes, UsesOK
<1>5. CASE Next
  <2>1. Goes BY <1>2, <1>3, <1>5, NextGoes DEF NInv
  <2>2. UsesOK' BY <1>2, <1>5, <2>1, UsesGo
  <2> QED BY <2>1, <2>2 DEF NInv, Goes
<1> QED BY <1>4, <1>5

LEMMA NamesRight == ASSUME ArmNames = {} PROVE Spec => [](IInv /\ NInv)
<1>1. Init => IInv BY InitEstablishes
<1>2. Init => NInv BY InitEstablishes, InitViews, InvBuilder
<1>3. IInv /\ IInv' /\ NInv /\ [Next]_vars => NInv' BY NamesStep
<1> QED BY <1>1, <1>2, <1>3, Inductive, PTL DEF Spec

\* In every program whose match arms bind nothing, a name is resolved to the
\* variable that it means in Rust, except in the initializer of a let that
\* binds it again.
THEOREM LexicalCorrect ==
  ASSUME ArmNames = {} PROVE Spec => []LexicalResolution
<1>1. NInv => LexicalResolution BY DEF NInv, UsesOK, UseOK, LexicalResolution
<1> QED BY <1>1, NamesRight, PTL

\* In such a program the local that the stack of scopes finds was declared in
\* a visibility scope around the use.
THEOREM VisibleCorrect ==
  ASSUME ArmNames = {} PROVE Spec => []VisibleResolution
<1>1. IInv /\ NInv => VisibleResolution
  <2> SUFFICES ASSUME IInv, NInv, NEW use \in lookups, ~use.own
               PROVE  builder.local_decls[use.got].scope \in Enclosing(use.scope)
    BY DEF VisibleResolution
  <2> DEFINE a == builder.local_decls[use.got].scope
             s == use.scope
  <2>1. Around(builder, a, s) BY DEF NInv, UsesOK, UseOK
  <2>2. BuilderOK(builder) BY InvBuilder
  <2> HIDE DEF a, s
  <2>3. s \in ScopesOf(builder)
    <3>0. PICK k \in 0..(s - 1) : \E c : Path(builder, c, k, a, s) BY <2>1 DEF Around
    <3>1. PICK c : Path(builder, c, k, a, s) BY <3>0
    <3>2. c \in [0..k -> ScopesOf(builder)] /\ c[0] = s /\ 0 \in 0..k BY <3>1 DEF Path
    <3> QED BY <3>2
  <2>4. a \in Enclosing(s) BY <2>1, <2>2, <2>3, AroundEnclosing
  <2> QED BY <2>4 DEF a, s
<1> QED BY <1>1, NamesRight, PTL
=============================================================================
