--------------------------- MODULE MovePathsProofs ---------------------------
(***************************************************************************)
(* Proofs about the move-path tables, for all bodies: the three tables     *)
(* agree, and the effects read off them are those of Mir.                  *)
(***************************************************************************)
EXTENDS MovePaths, SequenceTheorems, TLAPS

-----------------------------------------------------------------------------
(***************************************************************************)
(* The calls that are made at a location.                                  *)
(***************************************************************************)
Ops == (StmtOps \ {"Write"}) \union {"Assign", "Call"} \union TermOps
CallSet(n) == [mode : {"Create", "Consume", "Copy"}, lvalue : LvalueSet(n)]

Consume(l) == [mode |-> "Consume", lvalue |-> Local(l)]

\* Element c occurs in sequence s.
Occurs(c, s) == \E k \in DOMAIN s : s[k] = c

\* What occurs in a concatenation occurs in one of its parts.
LEMMA InConcat ==
  ASSUME NEW S, NEW s \in Seq(S), NEW t \in Seq(S), NEW c
  PROVE  Occurs(c, s \o t) <=> Occurs(c, s) \/ Occurs(c, t)
<1>1. s \o t \in Seq(S) /\ Len(s \o t) = Len(s) + Len(t)
  BY ConcatProperties
<1>2. \A k \in 1..(Len(s) + Len(t)) : (s \o t)[k] = IF k <= Len(s) THEN s[k] ELSE t[k - Len(s)]
  BY ConcatProperties
<1>3. ASSUME NEW k \in DOMAIN (s \o t), (s \o t)[k] = c
      PROVE  (\E j \in DOMAIN s : s[j] = c) \/ (\E j \in DOMAIN t : t[j] = c)
  <2>1. k \in 1..(Len(s) + Len(t)) BY <1>1
  <2>2. CASE k <= Len(s)
    BY <1>2, <1>3, <2>1, <2>2
  <2>3. CASE ~(k <= Len(s))
    <3>1. k - Len(s) \in DOMAIN t BY <2>1, <2>3
    <3> QED BY <1>2, <1>3, <2>1, <2>3, <3>1
  <2> QED BY <2>2, <2>3
<1>4. ASSUME NEW j \in DOMAIN s, s[j] = c
      PROVE  \E k \in DOMAIN (s \o t) : (s \o t)[k] = c
  <2>1. j \in 1..(Len(s) + Len(t)) /\ j <= Len(s) BY <1>1
  <2> QED BY <1>1, <1>2, <1>4, <2>1
<1>5. ASSUME NEW j \in DOMAIN t, t[j] = c
      PROVE  \E k \in DOMAIN (s \o t) : (s \o t)[k] = c
  <2>1. /\ j + Len(s) \in 1..(Len(s) + Len(t)) /\ ~(j + Len(s) <= Len(s))
        /\ (j + Len(s)) - Len(s) = j
    BY <1>1
  <2> QED BY <1>1, <1>2, <1>5, <2>1
<1> QED BY <1>3, <1>4, <1>5 DEF Occurs

\* The statement or terminator of a location.
LEMMA EffectType ==
  ASSUME NEW m, IsSource(m), NEW b \in Blocks(m), NEW i \in 1..TermIndex(m, b)
  PROVE  /\ EffectAt(m, b, i) \in EffectSet(Ops, m.nlocals)
         /\ AtTerm(m, b, i) => EffectAt(m, b, i).op \in TermOps
         /\ ~AtTerm(m, b, i) => i \in 1..Len(Stmts(m, b)) /\ EffectAt(m, b, i).op \notin TermOps \union {"Write"}
         /\ EffectAt(m, b, i).op \in {"Live", "Dead", "Stmt"} => EffectAt(m, b, i).uses = << >>
<1> DEFINE StmtSet == EffectSet((StmtOps \ {"Write"}) \union {"Assign", "Call"}, m.nlocals)
<1>1. /\ Stmts(m, b) \in Seq(StmtSet)
      /\ Term(m, b) \in EffectSet(TermOps, m.nlocals)
      /\ \A j \in 1..Len(Stmts(m, b)) :
           Stmts(m, b)[j].op \in {"Live", "Dead", "Stmt"} => Stmts(m, b)[j].uses = << >>
  BY DEF IsSource
<1>2. CASE AtTerm(m, b, i)
  BY <1>1, <1>2 DEF EffectAt, EffectSet, Ops, TermOps
<1>3. CASE ~AtTerm(m, b, i)
  <2>1. i \in 1..Len(Stmts(m, b))
    BY <1>1, <1>3 DEF AtTerm, TermIndex
  <2>2. Stmts(m, b)[i] \in StmtSet
    BY <1>1, <2>1
  <2>3. EffectAt(m, b, i) = Stmts(m, b)[i]
    BY <1>3 DEF EffectAt
  <2>4. Stmts(m, b)[i].op \in (StmtOps \ {"Write"}) \union {"Assign", "Call"}
    BY <2>2 DEF EffectSet
  <2>5. Stmts(m, b)[i] \in EffectSet(Ops, m.nlocals)
    BY <2>2 DEF EffectSet, Ops
  <2> QED BY <1>1, <1>3, <2>1, <2>3, <2>4, <2>5 DEF StmtOps, TermOps
<1> QED BY <1>2, <1>3

\* Destinations are gathered as calls that consume nothing.
LEMMA CreatesType ==
  ASSUME NEW n, NEW dests \in Seq(LvalueSet(n))
  PROVE  /\ Creates(dests) \in Seq(CallSet(n))
         /\ DOMAIN Creates(dests) = DOMAIN dests
         /\ \A k \in DOMAIN dests : Creates(dests)[k].mode = "Create"
<1>1. Len(dests) \in Nat /\ DOMAIN dests = 1..Len(dests) /\ \A k \in 1..Len(dests) : dests[k] \in LvalueSet(n)
  OBVIOUS
<1>2. \A k \in 1..Len(dests) : Creates(dests)[k] \in CallSet(n)
  BY <1>1 DEF Creates, CallSet
<1>3. Creates(dests) \in [1..Len(dests) -> CallSet(n)]
  BY <1>1, <1>2 DEF Creates
<1>4. Creates(dests) \in Seq(CallSet(n))
  BY <1>1, <1>3, IsASeq
<1> QED BY <1>1, <1>4 DEF Creates

\* What a location consumes, as a set of locals.
Consumed(e) ==
  IF e.op = "Return" THEN {RETURN_POINTER}
  ELSE IF e.op \in {"Let", "Assign", "Call", "Match", "Suspend"} THEN LocalsUsed(e.uses, "Consume")
  ELSE {}

\* The calls at a location consume what the location does.
LEMMA CallsConsume ==
  ASSUME IsSource(mir), NEW e \in EffectSet(Ops, mir.nlocals)
  PROVE  /\ Calls(e) \in Seq(CallSet(mir.nlocals))
         /\ \A l \in Locals(mir) :
              l \in Consumed(e) <=> Occurs(Consume(l), Calls(e))
<1> DEFINE n == mir.nlocals
           made == Creates(e.dests)
<1>1. n \in Nat /\ n >= 2 BY DEF IsSource
<1>2. e.dests \in Seq(LvalueSet(n)) /\ e.uses \in Seq(OperandSet(n)) BY DEF EffectSet
<1>3. /\ made \in Seq(CallSet(n))
      /\ \A l : ~Occurs(Consume(l), made)
  BY <1>2, CreatesType DEF Consume, Occurs
<1>4. e.uses \in Seq(CallSet(n))
  <2>1. OperandSet(n) \subseteq CallSet(n) BY DEF OperandSet, CallSet
  <2> QED BY <1>2, <2>1, SeqMonotonic
<1>5. \A l \in Locals(mir) :
        l \in LocalsUsed(e.uses, "Consume") <=> Occurs(Consume(l), e.uses)
  <2>1. \A k \in DOMAIN e.uses : e.uses[k] \in OperandSet(n) BY <1>2
  <2>2. \A k \in DOMAIN e.uses : \A l : e.uses[k] = Consume(l)
          <=> e.uses[k].mode = "Consume" /\ e.uses[k].lvalue = Local(l)
    BY <2>1 DEF OperandSet, Consume
  <2> QED BY <2>2 DEF LocalsUsed, Occurs
<1> HIDE DEF made
<1>6. CASE e.op \in {"Let", "Assign"}
  <2>1. Calls(e) = made \o e.uses BY <1>6 DEF Calls, made
  <2>2. Calls(e) \in Seq(CallSet(n)) BY <2>1, <1>3, <1>4, ConcatProperties
  <2>3. Consumed(e) = LocalsUsed(e.uses, "Consume") BY <1>6 DEF Consumed
  <2>4. ASSUME NEW l \in Locals(mir)
        PROVE  l \in Consumed(e) <=> Occurs(Consume(l), Calls(e))
    <3>1. Occurs(Consume(l), made \o e.uses) <=> Occurs(Consume(l), made) \/ Occurs(Consume(l), e.uses)
      BY <1>3, <1>4, InConcat
    <3> QED BY <1>3, <1>5, <2>1, <2>3, <3>1
  <2> QED BY <2>2, <2>4
<1>7. CASE e.op \in {"Call", "Match", "Suspend"}
  <2>1. Calls(e) = e.uses \o made BY <1>7 DEF Calls, made
  <2>2. Calls(e) \in Seq(CallSet(n)) BY <2>1, <1>3, <1>4, ConcatProperties
  <2>3. Consumed(e) = LocalsUsed(e.uses, "Consume") BY <1>7 DEF Consumed
  <2>4. ASSUME NEW l \in Locals(mir)
        PROVE  l \in Consumed(e) <=> Occurs(Consume(l), Calls(e))
    <3>1. Occurs(Consume(l), e.uses \o made) <=> Occurs(Consume(l), made) \/ Occurs(Consume(l), e.uses)
      BY <1>3, <1>4, InConcat
    <3> QED BY <1>3, <1>5, <2>1, <2>3, <3>1
  <2> QED BY <2>2, <2>4
<1>8. CASE e.op = "Dead"
  <2>1. Calls(e) = made BY <1>8 DEF Calls, made
  <2>2. Consumed(e) = {} BY <1>8 DEF Consumed
  <2> QED BY <1>3, <2>1, <2>2
<1>9. CASE e.op = "Return"
  <2>1. Calls(e) = <<Consume(RETURN_POINTER)>> BY <1>9 DEF Calls, Consume
  <2>2. Consumed(e) = {RETURN_POINTER} BY <1>9 DEF Consumed
  <2>3. Consume(RETURN_POINTER) \in CallSet(n)
    BY <1>1 DEF Consume, CallSet, LvalueSet, Local, RETURN_POINTER
  <2>4. \A l : Consume(l) = Consume(RETURN_POINTER) <=> l = RETURN_POINTER
    BY DEF Consume, Local
  <2>5. Calls(e) \in Seq(CallSet(n)) /\ DOMAIN Calls(e) = {1} /\ Calls(e)[1] = Consume(RETURN_POINTER)
    BY <2>1, <2>3
  <2> QED BY <2>2, <2>4, <2>5 DEF Occurs
<1>10. CASE e.op \notin {"Let", "Assign", "Call", "Match", "Suspend", "Dead", "Return"}
  <2>1. Calls(e) = << >> BY <1>10 DEF Calls
  <2>2. Consumed(e) = {} BY <1>10 DEF Consumed
  <2> QED BY <2>1, <2>2 DEF Occurs
<1> QED BY <1>6, <1>7, <1>8, <1>9, <1>10

-----------------------------------------------------------------------------
(***************************************************************************)
(* The inductive invariant.                                                *)
(***************************************************************************)

\* Where the loops are.  Nothing is recorded before they begin.
Position ==
  /\ mir \in Sources
  /\ phase \in {"paths", "gather", "done", "panicked"}
  /\ bb \in 1..(Len(mir.blocks) + 1)
  /\ statement_index \in IF bb \in Blocks(mir) THEN 1..TermIndex(mir, bb) ELSE {1}
  /\ call \in Nat \ {0}
  /\ phase = "paths" => bb = 1 /\ statement_index = 1 /\ call = 1 /\ moves = << >>
  /\ phase = "done" => bb \notin Blocks(mir)

\* The path of a local has the local's number and no relatives.
PathSet ==
  [next_sibling : {None}, first_child : {None}, parent : {None}, lvalue : LvalueSet(mir.nlocals)]
PathsAreLocals ==
  /\ move_paths \in Seq(PathSet)
  /\ locals \in Seq(Nat)
  /\ Len(locals) = Len(move_paths)
  /\ Len(locals) <= mir.nlocals
  /\ \A l \in 1..Len(locals) : locals[l] = l
  /\ phase # "paths" => Len(locals) = mir.nlocals

MovesTyped ==
  /\ moves \in Seq([path : Locals(mir), source : Nat \X Nat])
  /\ path_map \in Seq(Seq(Nat))
  /\ Len(path_map) = Len(move_paths)
  /\ DOMAIN loc_map = Blocks(mir)
  /\ \A b \in Blocks(mir) : loc_map[b] \in [1..TermIndex(mir, b) -> Seq(Nat)]

\* The calls at location <<b, i>> that have been made.
Made(b, i) ==
  {k \in DOMAIN CallsAt(b, i) :
     \/ b < bb
     \/ b = bb /\ i < statement_index
     \/ b = bb /\ i = statement_index /\ k < call}

\* The moves of a location are those that its calls have asked for.
Gathered ==
  \A b \in Blocks(mir) : \A i \in 1..TermIndex(mir, b) :
    /\ \A n \in MovesAt(b, i) : \E k \in Made(b, i) :
         CallsAt(b, i)[k] = Consume(moves[n].path)
    /\ \A k \in Made(b, i) : \A l \in Locals(mir) : CallsAt(b, i)[k] = Consume(l) =>
         \E n \in MovesAt(b, i) : moves[n].path = l

IInv == Position /\ PathsAreLocals /\ MovesTyped /\ TablesAgree /\ Gathered

-----------------------------------------------------------------------------
\* The body at hand is one of Sources.
LEMMA SourceFacts ==
  ASSUME Position
  PROVE  /\ IsSource(mir)
         /\ mir.nlocals \in Nat /\ mir.nlocals >= 2 /\ Len(mir.blocks) \in Nat
         /\ \A b \in Blocks(mir) : TermIndex(mir, b) \in Nat \ {0}
<1>1. IsSource(mir) BY SourcesAssumption DEF Position
<1>2. mir.nlocals \in Nat /\ mir.nlocals >= 2 /\ Len(mir.blocks) \in Nat
  BY <1>1 DEF IsSource
<1>3. ASSUME NEW b \in Blocks(mir) PROVE TermIndex(mir, b) \in Nat \ {0}
  <2>1. Stmts(mir, b) \in Seq(EffectSet((StmtOps \ {"Write"}) \union {"Assign", "Call"}, mir.nlocals))
    BY <1>1 DEF IsSource
  <2> QED BY <2>1 DEF TermIndex
<1> QED BY <1>1, <1>2, <1>3

\* The same of the calls of the body at hand.
LEMMA CallsTyped ==
  ASSUME Position, NEW b \in Blocks(mir), NEW i \in 1..TermIndex(mir, b)
  PROVE  /\ CallsAt(b, i) \in Seq(CallSet(mir.nlocals))
         /\ \A l \in Locals(mir) :
              l \in Consumed(EffectAt(mir, b, i)) <=> Occurs(Consume(l), CallsAt(b, i))
BY SourceFacts, EffectType, CallsConsume DEF CallsAt

\* A list with the newest of the moves appended.
LEMMA ListsAppend ==
  ASSUME NEW n \in Nat, NEW S \in SUBSET (1..n), NEW list \in Seq(Nat), Lists(list, S)
  PROVE  Lists(Append(list, n + 1), S \union {n + 1})
<1> DEFINE longer == Append(list, n + 1)
<1>1. /\ Len(list) \in Nat /\ DOMAIN list = 1..Len(list)
      /\ longer \in Seq(Nat) /\ Len(longer) = Len(list) + 1
      /\ DOMAIN longer = 1..(Len(list) + 1)
      /\ \A k \in 1..Len(list) : longer[k] = list[k]
      /\ longer[Len(list) + 1] = n + 1
  BY AppendProperties, LenProperties
<1>2. /\ {list[k] : k \in 1..Len(list)} = S
      /\ \A j, k \in 1..Len(list) : j < k => list[j] < list[k]
  BY <1>1 DEF Lists
<1> HIDE DEF longer
<1>3. \A k \in 1..Len(list) : list[k] \in 1..n
  BY <1>2
<1>4. {longer[k] : k \in 1..(Len(list) + 1)} = S \union {n + 1}
  <2>1. \A k \in 1..(Len(list) + 1) : longer[k] \in S \union {n + 1}
    BY <1>1, <1>2
  <2>2. ASSUME NEW e \in S \union {n + 1} PROVE \E k \in 1..(Len(list) + 1) : longer[k] = e
    <3>1. CASE e = n + 1 BY <1>1, <3>1
    <3>2. CASE e \in S
      <4>1. PICK k \in 1..Len(list) : list[k] = e BY <1>2, <3>2
      <4> QED BY <1>1, <4>1
    <3> QED BY <3>1, <3>2
  <2> QED BY <2>1, <2>2
<1>5. \A j, k \in 1..(Len(list) + 1) : j < k => longer[j] < longer[k]
  <2> SUFFICES ASSUME NEW j \in 1..(Len(list) + 1), NEW k \in 1..(Len(list) + 1), j < k
               PROVE  longer[j] < longer[k]
    OBVIOUS
  <2>1. j \in 1..Len(list) /\ longer[j] = list[j] /\ list[j] \in 1..n BY <1>1, <1>3
  <2>2. CASE k = Len(list) + 1 BY <1>1, <2>1, <2>2
  <2>3. CASE k \in 1..Len(list) BY <1>1, <1>2, <2>1, <2>3
  <2>4. k = Len(list) + 1 \/ k \in 1..Len(list) BY <1>1
  <2> QED BY <2>2, <2>3, <2>4
<1> QED BY <1>1, <1>4, <1>5 DEF Lists, longer

-----------------------------------------------------------------------------
\* Nothing is recorded at first.
LEMMA InvInit == Init => IInv
<1> SUFFICES ASSUME Init PROVE IInv
  OBVIOUS
<1>1. /\ mir \in Sources /\ phase = "paths" /\ bb = 1 /\ statement_index = 1 /\ call = 1
      /\ locals = << >> /\ move_paths = << >> /\ path_map = << >>
      /\ moves = << >> /\ loc_map = Unvisited(mir)
  BY DEF Init, START_BLOCK
<1>2. /\ IsSource(mir) /\ Len(mir.blocks) \in Nat /\ mir.nlocals \in Nat
      /\ \A b \in Blocks(mir) : TermIndex(mir, b) \in Nat \ {0}
  <2>1. IsSource(mir) BY <1>1, SourcesAssumption
  <2>2. ASSUME NEW b \in Blocks(mir) PROVE TermIndex(mir, b) \in Nat \ {0}
    <3>1. Stmts(mir, b) \in Seq(EffectSet((StmtOps \ {"Write"}) \union {"Assign", "Call"}, mir.nlocals))
      BY <2>1 DEF IsSource
    <3> QED BY <3>1 DEF TermIndex
  <2> QED BY <2>1, <2>2 DEF IsSource
<1>3. Position BY <1>1, <1>2 DEF Position
<1>4. PathsAreLocals BY <1>1, <1>2 DEF PathsAreLocals
<1>5. /\ DOMAIN loc_map = Blocks(mir)
      /\ \A b \in Blocks(mir) : /\ loc_map[b] \in [1..TermIndex(mir, b) -> Seq(Nat)]
                                /\ \A i \in 1..TermIndex(mir, b) : loc_map[b][i] = << >>
  BY <1>1 DEF Unvisited
<1>6. MovesTyped BY <1>1, <1>5 DEF MovesTyped
<1>7. TablesAgree BY <1>1, <1>5 DEF TablesAgree, Lists, MovesAt
<1>8. \A b \in Blocks(mir) : \A i \in 1..TermIndex(mir, b) : Made(b, i) = {}
  <2>1. ASSUME NEW b \in Nat \ {0}, NEW i \in Nat \ {0}, CallsAt(b, i) \in Seq(CallSet(mir.nlocals))
        PROVE  Made(b, i) = {}
    BY <1>1, <2>1 DEF Made
  <2> QED BY <1>2, <1>3, <2>1, CallsTyped DEF Blocks
<1>9. Gathered BY <1>1, <1>8 DEF Gathered, MovesAt
<1> QED BY <1>3, <1>4, <1>6, <1>7, <1>9 DEF IInv

-----------------------------------------------------------------------------
(***************************************************************************)
(* Steps.                                                                  *)
(***************************************************************************)
\* While the loops stand still the same calls have been made.
LEMMA MadeSame ==
  ASSUME UNCHANGED <<mir, bb, statement_index, call>>, NEW b, NEW i
  PROVE  CallsAt(b, i)' = CallsAt(b, i) /\ Made(b, i)' = Made(b, i)
BY DEF CallsAt, Made

\* A new path has no moves yet.
LEMMA NewLocalPathStep == IInv /\ NewLocalPath => IInv'
<1> SUFFICES ASSUME IInv, NewLocalPath PROVE IInv'
  OBVIOUS
<1>0. Position /\ PathsAreLocals /\ MovesTyped /\ TablesAgree /\ Gathered BY DEF IInv
<1> DEFINE new == [next_sibling |-> None, first_child |-> None, parent |-> None,
                   lvalue |-> Local(Len(locals) + 1)]
<1>1. /\ phase = "paths" /\ Len(locals) < mir.nlocals
      /\ move_paths' = Append(move_paths, new)
      /\ path_map' = Append(path_map, << >>)
      /\ locals' = Append(locals, Len(move_paths) + 1)
      /\ UNCHANGED <<mir, phase, bb, statement_index, call, moves, loc_map>>
  BY DEF NewLocalPath, new_move_path
<1>2. moves = << >> /\ Len(locals) = Len(move_paths) /\ Len(path_map) = Len(move_paths)
      /\ mir.nlocals \in Nat
  BY <1>0, <1>1, SourceFacts DEF Position, PathsAreLocals, MovesTyped
<1>3. Position' BY <1>0, <1>1 DEF Position
<1>4. PathsAreLocals'
  <2>1. new \in PathSet
    BY <1>0, <1>1, <1>2, MarksAssumption DEF PathsAreLocals, PathSet, Local, LvalueSet
  <2> HIDE DEF new
  <2>2. /\ move_paths \in Seq(PathSet) /\ locals \in Seq(Nat)
        /\ Len(locals) \in Nat /\ Len(move_paths) + 1 \in Nat
        /\ \A l \in 1..Len(locals) : locals[l] = l
    BY <1>0 DEF PathsAreLocals
  <2>3. move_paths' \in Seq(PathSet) /\ Len(move_paths') = Len(move_paths) + 1
    BY <1>1, <2>1, <2>2, AppendProperties
  <2>4. /\ locals' \in Seq(Nat) /\ Len(locals') = Len(locals) + 1
        /\ \A l \in 1..Len(locals) : locals'[l] = locals[l]
        /\ locals'[Len(locals) + 1] = Len(move_paths) + 1
    BY <1>1, <2>2, AppendProperties
  <2>5. \A l \in 1..Len(locals') : locals'[l] = l
    <3> SUFFICES ASSUME NEW l \in 1..Len(locals') PROVE locals'[l] = l
      OBVIOUS
    <3>1. l \in 1..Len(locals) \/ l = Len(locals) + 1 BY <2>2, <2>4
    <3> QED BY <1>2, <2>2, <2>4, <3>1
  <2>6. PathSet' = PathSet BY <1>1 DEF PathSet
  <2> QED BY <1>1, <1>2, <2>2, <2>3, <2>4, <2>5, <2>6 DEF PathsAreLocals
<1>5. /\ path_map \in Seq(Seq(Nat)) /\ << >> \in Seq(Nat)
      /\ path_map' \in Seq(Seq(Nat)) /\ Len(path_map') = Len(path_map) + 1
      /\ \A p \in 1..Len(path_map) : path_map'[p] = path_map[p]
      /\ path_map'[Len(path_map) + 1] = << >>
      /\ Len(path_map') = Len(move_paths')
  <2>1. path_map \in Seq(Seq(Nat)) /\ << >> \in Seq(Nat) BY <1>0 DEF MovesTyped
  <2>2. /\ path_map' \in Seq(Seq(Nat)) /\ Len(path_map') = Len(path_map) + 1
        /\ \A p \in 1..Len(path_map) : path_map'[p] = path_map[p]
        /\ path_map'[Len(path_map) + 1] = << >>
    BY <1>1, <2>1, AppendProperties
  <2>3. Len(path_map') = Len(move_paths')
    <3>1. move_paths \in Seq(PathSet) /\ move_paths' \in Seq(PathSet')
      BY <1>0, <1>4 DEF PathsAreLocals
    <3>2. Len(move_paths') = Len(move_paths) + 1
      <4> HIDE DEF new
      <4> QED BY <1>1, <3>1
    <3> QED BY <1>2, <2>2, <3>2
  <2> QED BY <2>1, <2>2, <2>3
<1>6. MovesTyped'
  BY <1>0, <1>1, <1>2, <1>5 DEF MovesTyped
<1>7. TablesAgree'
  <2>1. DOMAIN moves = {} BY <1>2
  <2>2. DOMAIN path_map' = DOMAIN move_paths'
    BY <1>4, <1>5 DEF PathsAreLocals
  <2>3. \A b \in Blocks(mir) : \A i \in 1..TermIndex(mir, b) :
          Lists(loc_map[b][i], MovesAt(b, i))
    BY <1>0 DEF TablesAgree
  <2>4. ASSUME NEW p \in DOMAIN path_map' PROVE Lists(path_map'[p], {})
    <3>0. Len(path_map) \in Nat /\ p \in 1..(Len(path_map) + 1) BY <1>5
    <3>1. CASE p \in 1..Len(path_map)
      <4>1. Lists(path_map[p], MovesOf(p))
        <5>1. p \in DOMAIN path_map BY <1>5, <3>1
        <5> QED BY <1>0, <5>1 DEF TablesAgree
      <4>2. MovesOf(p) = {} BY <2>1 DEF MovesOf
      <4> QED BY <1>5, <3>1, <4>1, <4>2
    <3>2. CASE p = Len(path_map) + 1
      BY <1>5, <3>2 DEF Lists
    <3> QED BY <3>0, <3>1, <3>2
  <2>5. \A b, i : MovesAt(b, i)' = MovesAt(b, i) BY <1>1 DEF MovesAt
  <2>6. \A p : MovesOf(p)' = {} BY <1>1, <2>1 DEF MovesOf
  <2> QED BY <1>1, <2>1, <2>2, <2>3, <2>4, <2>5, <2>6 DEF TablesAgree
<1>8. Gathered'
  <2>1. \A b, i : CallsAt(b, i)' = CallsAt(b, i) /\ Made(b, i)' = Made(b, i)
    BY <1>1, MadeSame
  <2> SUFFICES ASSUME NEW b \in Blocks(mir), NEW i \in 1..TermIndex(mir, b)
               PROVE  /\ \A n \in MovesAt(b, i) :
                           \E k \in Made(b, i) : CallsAt(b, i)[k] = Consume(moves[n].path)
                      /\ \A k \in Made(b, i) : \A l \in Locals(mir) : CallsAt(b, i)[k] = Consume(l) =>
                           \E n \in MovesAt(b, i) : moves[n].path = l
    <3>1. \A b, i : MovesAt(b, i)' = MovesAt(b, i) BY <1>1 DEF MovesAt
    <3>2. mir' = mir /\ moves' = moves BY <1>1
    <3> QED BY <2>1, <3>1, <3>2 DEF Gathered
  <2> QED BY <1>0 DEF Gathered
<1> QED BY <1>3, <1>4, <1>6, <1>7, <1>8 DEF IInv

\* A step of the loops that records nothing.
LEMMA KeepTables ==
  ASSUME IInv, UNCHANGED <<mir, paths, tables>>, Position',
         phase = "paths" /\ phase' # "paths" => Len(locals) = mir.nlocals
  PROVE  PathsAreLocals' /\ MovesTyped' /\ TablesAgree'
<1>1. PathsAreLocals /\ MovesTyped /\ TablesAgree BY DEF IInv
<1>2. PathsAreLocals'
  BY <1>1 DEF PathsAreLocals, PathSet, paths
<1>3. MovesTyped'
  BY <1>1 DEF MovesTyped, paths, tables, Locals, Blocks, TermIndex, Stmts
<1>4. TablesAgree'
  <2>1. \A b, i : MovesAt(b, i)' = MovesAt(b, i) BY DEF MovesAt, tables
  <2>2. \A p : MovesOf(p)' = MovesOf(p) BY DEF MovesOf, tables
  <2>3. UNCHANGED <<mir, move_paths, path_map, moves, loc_map>> BY DEF paths, tables
  <2> QED BY <1>1, <2>1, <2>2, <2>3 DEF TablesAgree
<1> QED BY <1>2, <1>3, <1>4

\* The same with no call made either.
LEMMA KeepGathered ==
  ASSUME IInv, UNCHANGED <<mir, moves>>,
         \A b \in Blocks(mir) : \A i \in 1..TermIndex(mir, b) :
           CallsAt(b, i)' = CallsAt(b, i) /\ Made(b, i)' = Made(b, i)
  PROVE  Gathered'
<1>1. Gathered BY DEF IInv
<1>2. \A b, i : MovesAt(b, i)' = MovesAt(b, i) BY DEF MovesAt
<1> QED BY <1>1, <1>2 DEF Gathered

\* Steps that change phase only.
LEMMA StandStill ==
  ASSUME IInv, UNCHANGED <<mir, bb, statement_index, call, paths, tables>>, Position',
         phase = "paths" /\ phase' # "paths" => Len(locals) = mir.nlocals
  PROVE  IInv'
<1>1. PathsAreLocals' /\ MovesTyped' /\ TablesAgree' BY KeepTables
<1>2. \A b, i : CallsAt(b, i)' = CallsAt(b, i) /\ Made(b, i)' = Made(b, i)
  BY MadeSame
<1>3. UNCHANGED <<mir, moves>> BY DEF tables
<1>4. Gathered' BY <1>2, <1>3, KeepGathered
<1> QED BY <1>1, <1>4 DEF IInv

\* All the calls of a location are made when it is left.
LEMMA NextLocationStep == IInv /\ NextLocation => IInv'
<1> SUFFICES ASSUME IInv, NextLocation PROVE IInv'
  OBVIOUS
<1>1. /\ phase = "gather" /\ bb \in Blocks(mir)
      /\ call \notin DOMAIN CallsAt(bb, statement_index) /\ call' = 1
      /\ IF AtTerm(mir, bb, statement_index)
         THEN bb' = bb + 1 /\ statement_index' = 1
         ELSE bb' = bb /\ statement_index' = statement_index + 1
      /\ UNCHANGED <<mir, phase, paths, tables>>
  BY DEF NextLocation
<1>2. /\ Position
      /\ bb \in 1..Len(mir.blocks) /\ Len(mir.blocks) \in Nat
      /\ statement_index \in 1..TermIndex(mir, bb)
      /\ \A b \in Blocks(mir) : TermIndex(mir, b) \in Nat \ {0}
      /\ call \in Nat \ {0}
  BY <1>1, SourceFacts DEF IInv, Position, Blocks
<1>3. Position'
  <2>1. bb' \in 1..(Len(mir.blocks) + 1) BY <1>1, <1>2
  <2>2. statement_index' \in IF bb' \in Blocks(mir) THEN 1..TermIndex(mir, bb') ELSE {1}
    <3>1. CASE AtTerm(mir, bb, statement_index) BY <1>1, <1>2, <3>1
    <3>2. CASE ~AtTerm(mir, bb, statement_index) BY <1>1, <1>2, <3>2 DEF AtTerm
    <3> QED BY <3>1, <3>2
  <2> QED BY <1>1, <1>2, <2>1, <2>2 DEF Position
<1>4. PathsAreLocals' /\ MovesTyped' /\ TablesAgree'
  BY <1>1, <1>3, KeepTables
<1>5. ASSUME NEW b \in Blocks(mir), NEW i \in 1..TermIndex(mir, b)
      PROVE  CallsAt(b, i)' = CallsAt(b, i) /\ Made(b, i)' = Made(b, i)
  <2>1. CallsAt(b, i)' = CallsAt(b, i) BY <1>1 DEF CallsAt
  <2>2. b \in Nat \ {0} /\ i \in Nat \ {0} /\ TermIndex(mir, b) \in Nat /\ i <= TermIndex(mir, b)
    BY <1>2 DEF Blocks
  <2>3. \A k \in DOMAIN CallsAt(b, i) : k \in Nat \ {0}
    <3>1. CallsAt(b, i) \in Seq(CallSet(mir.nlocals)) BY <1>2, CallsTyped
    <3> QED BY <3>1
  <2>4. b = bb /\ i = statement_index => \A k \in DOMAIN CallsAt(b, i) : k < call
    <3>1. CallsAt(b, i) \in Seq(CallSet(mir.nlocals)) BY <1>2, CallsTyped
    <3> QED BY <1>1, <1>2, <3>1
  <2>5. ASSUME NEW k \in DOMAIN CallsAt(b, i)
        PROVE  (\/ b < bb
                \/ b = bb /\ i < statement_index
                \/ b = bb /\ i = statement_index /\ k < call)
           <=> (\/ b < bb'
                \/ b = bb' /\ i < statement_index'
                \/ b = bb' /\ i = statement_index' /\ k < call')
    <3>1. CASE AtTerm(mir, bb, statement_index)
      <4>1. b = bb => i < statement_index \/ i = statement_index
        BY <1>2, <2>2, <3>1 DEF AtTerm
      <4> QED BY <1>1, <1>2, <2>2, <2>3, <2>4, <3>1, <4>1
    <3>2. CASE ~AtTerm(mir, bb, statement_index)
      BY <1>1, <1>2, <2>2, <2>3, <2>4, <3>2
    <3> QED BY <3>1, <3>2
  <2> QED BY <2>1, <2>5 DEF Made
<1>6. UNCHANGED <<mir, moves>> BY <1>1 DEF tables
<1>7. Gathered' BY <1>5, <1>6, KeepGathered
<1> QED BY <1>3, <1>4, <1>7 DEF IInv

\* A call that is made is one more of those made at its location.
LEMMA CallMade ==
  ASSUME IInv, AtCall, call' = call + 1, UNCHANGED <<mir, bb, statement_index>>
  PROVE  /\ bb \in Blocks(mir) /\ statement_index \in 1..TermIndex(mir, bb)
         /\ Call \in CallSet(mir.nlocals)
         /\ call' \in Nat \ {0}
         /\ \A b, i : CallsAt(b, i)' = CallsAt(b, i)
         /\ \A b \in Blocks(mir) : \A i \in 1..TermIndex(mir, b) :
              Made(b, i)' = IF b = bb /\ i = statement_index THEN Made(b, i) \union {call} ELSE Made(b, i)
<1>1. /\ Position /\ bb \in Blocks(mir) /\ statement_index \in 1..TermIndex(mir, bb)
      /\ call \in DOMAIN CallsAt(bb, statement_index) /\ call \in Nat \ {0}
  BY DEF IInv, Position, AtCall
<1>2. CallsAt(bb, statement_index) \in Seq(CallSet(mir.nlocals)) BY <1>1, CallsTyped
<1>3. Call \in CallSet(mir.nlocals) BY <1>1, <1>2 DEF Call
<1>4. \A b, i : CallsAt(b, i)' = CallsAt(b, i) BY DEF CallsAt
<1>5. ASSUME NEW b \in Blocks(mir), NEW i \in 1..TermIndex(mir, b)
      PROVE  Made(b, i)' = IF b = bb /\ i = statement_index THEN Made(b, i) \union {call} ELSE Made(b, i)
  <2>1. \A k \in DOMAIN CallsAt(b, i) : k \in Nat
    <3>1. CallsAt(b, i) \in Seq(CallSet(mir.nlocals)) BY <1>1, CallsTyped
    <3> QED BY <3>1
  <2>2. CASE b = bb /\ i = statement_index
    <3>1. Made(b, i)' = {k \in DOMAIN CallsAt(b, i) : b < bb \/ i < statement_index \/ k < call + 1}
      BY <1>4, <2>2 DEF Made
    <3>2. Made(b, i) = {k \in DOMAIN CallsAt(b, i) : b < bb \/ i < statement_index \/ k < call}
      BY <2>2 DEF Made
    <3>3. \A k \in DOMAIN CallsAt(b, i) : k < call + 1 <=> k < call \/ k = call
      BY <1>1, <2>1
    <3> QED BY <1>1, <2>2, <3>1, <3>2, <3>3
  <2>3. CASE ~(b = bb /\ i = statement_index)
    BY <1>4, <2>3 DEF Made
  <2> QED BY <2>2, <2>3
<1> QED BY <1>1, <1>3, <1>4, <1>5

\* A call that records nothing consumes no local.
LEMMA GatherNothingStep == IInv /\ GatherNothing => IInv'
<1> SUFFICES ASSUME IInv, GatherNothing PROVE IInv'
  OBVIOUS
<1>1. /\ AtCall /\ phase = "gather"
      /\ Call.mode = "Consume" => Call.lvalue.base = Static
      /\ call' = call + 1
      /\ UNCHANGED <<mir, phase, bb, statement_index, paths, tables>>
  BY DEF GatherNothing, AtCall
<1>2. /\ bb \in Blocks(mir) /\ statement_index \in 1..TermIndex(mir, bb)
      /\ call' \in Nat \ {0}
      /\ \A b, i : CallsAt(b, i)' = CallsAt(b, i)
      /\ \A b \in Blocks(mir) : \A i \in 1..TermIndex(mir, b) :
           Made(b, i)' = IF b = bb /\ i = statement_index THEN Made(b, i) \union {call} ELSE Made(b, i)
  BY <1>1, CallMade
<1>3. Position'
  <2>1. Position BY DEF IInv
  <2> QED BY <1>1, <1>2, <2>1 DEF Position
<1>4. PathsAreLocals' /\ MovesTyped' /\ TablesAgree'
  BY <1>1, <1>3, KeepTables
<1>5. \A l \in Locals(mir) : CallsAt(bb, statement_index)[call] # Consume(l)
  BY <1>1, MarksAssumption DEF Call, Consume, Local, Locals
<1>6. Gathered'
  <2>1. Gathered BY DEF IInv
  <2>2. \A b, i : MovesAt(b, i)' = MovesAt(b, i) BY <1>1 DEF MovesAt, tables
  <2>3. mir' = mir /\ moves' = moves BY <1>1 DEF tables
  <2> SUFFICES ASSUME NEW b \in Blocks(mir), NEW i \in 1..TermIndex(mir, b)
               PROVE  /\ \A n \in MovesAt(b, i) : \E k \in Made(b, i)' :
                           CallsAt(b, i)[k] = Consume(moves[n].path)
                      /\ \A k \in Made(b, i)' : \A l \in Locals(mir) : CallsAt(b, i)[k] = Consume(l) =>
                           \E n \in MovesAt(b, i) : moves[n].path = l
    BY <1>2, <2>2, <2>3 DEF Gathered
  <2>4. /\ \A n \in MovesAt(b, i) : \E k \in Made(b, i) : CallsAt(b, i)[k] = Consume(moves[n].path)
        /\ \A k \in Made(b, i) : \A l \in Locals(mir) : CallsAt(b, i)[k] = Consume(l) =>
             \E n \in MovesAt(b, i) : moves[n].path = l
    BY <2>1 DEF Gathered
  <2>5. Made(b, i)' = IF b = bb /\ i = statement_index THEN Made(b, i) \union {call} ELSE Made(b, i)
    BY <1>2
  <2> QED BY <1>5, <2>4, <2>5
<1> QED BY <1>3, <1>4, <1>6 DEF IInv

\* A move goes to the end of its two lists.
LEMMA GatherMoveStep == IInv /\ GatherMove => IInv'
<1> SUFFICES ASSUME IInv, GatherMove PROVE IInv'
  OBVIOUS
<1> DEFINE path == locals[Call.lvalue.base]
           move_out == Len(moves) + 1
           made == [path |-> path, source |-> <<bb, statement_index>>]
<1>0. Position /\ PathsAreLocals /\ MovesTyped /\ TablesAgree /\ Gathered BY DEF IInv
<1>1. /\ AtCall /\ phase = "gather"
      /\ Call.mode = "Consume" /\ ~IsProjection(Call.lvalue) /\ Call.lvalue.base # Static
      /\ moves' = Append(moves, made)
      /\ path_map' = [path_map EXCEPT ![path] = Append(@, move_out)]
      /\ loc_map' = [loc_map EXCEPT ![bb][statement_index] = Append(@, move_out)]
      /\ call' = call + 1
      /\ UNCHANGED <<mir, phase, bb, statement_index, paths>>
  BY DEF GatherMove, AtCall
<1>2. /\ bb \in Blocks(mir) /\ statement_index \in 1..TermIndex(mir, bb)
      /\ Call \in CallSet(mir.nlocals)
      /\ call' \in Nat \ {0}
      /\ \A b, i : CallsAt(b, i)' = CallsAt(b, i)
      /\ \A b \in Blocks(mir) : \A i \in 1..TermIndex(mir, b) :
           Made(b, i)' = IF b = bb /\ i = statement_index THEN Made(b, i) \union {call} ELSE Made(b, i)
  BY <1>1, CallMade
<1>3. /\ path \in Locals(mir) /\ Call = Consume(path)
      /\ CallsAt(bb, statement_index)[call] = Consume(path)
  <2>1. Call.lvalue.base \in 1..mir.nlocals /\ Call.lvalue.derefs = 0
    BY <1>1, <1>2 DEF CallSet, LvalueSet, IsProjection
  <2>2. path = Call.lvalue.base
    BY <1>0, <1>1, <2>1 DEF PathsAreLocals
  <2>3. Call.lvalue = Local(path)
    BY <1>2, <2>1, <2>2 DEF CallSet, LvalueSet, Local
  <2>4. Call = Consume(path)
    BY <1>1, <1>2, <2>3 DEF CallSet, Consume
  <2> QED BY <2>1, <2>2, <2>4 DEF Locals, Call
<1>4. /\ made \in [path : Locals(mir), source : Nat \X Nat]
      /\ made.path = path /\ made.source = <<bb, statement_index>>
  <2>1. bb \in Nat /\ statement_index \in Nat BY <1>0, <1>2, SourceFacts DEF Blocks
  <2> QED BY <1>3, <2>1
<1>5. Len(moves) \in Nat /\ move_out \in Nat /\ DOMAIN moves = 1..Len(moves)
  BY <1>0 DEF MovesTyped
<1> HIDE DEF path, made
<1>6. /\ moves' \in Seq([path : Locals(mir), source : Nat \X Nat])
      /\ Len(moves') = move_out /\ DOMAIN moves' = 1..move_out
      /\ \A n \in 1..Len(moves) : moves'[n] = moves[n]
      /\ moves'[move_out] = made
  BY <1>0, <1>1, <1>4, AppendProperties DEF MovesTyped
<1> HIDE DEF move_out
<1>7. Position'
  BY <1>0, <1>1, <1>2 DEF Position
<1>8. PathsAreLocals'
  BY <1>0, <1>1 DEF PathsAreLocals, PathSet, paths
<1>9. path \in DOMAIN path_map /\ path_map[path] \in Seq(Nat) /\ Append(path_map[path], move_out) \in Seq(Nat)
  <2>1. path_map \in Seq(Seq(Nat)) /\ path \in 1..Len(path_map)
    BY <1>0, <1>1, <1>3 DEF MovesTyped, PathsAreLocals, Locals
  <2>2. path_map[path] \in Seq(Nat) BY <2>1
  <2> QED BY <1>5, <2>1, <2>2, AppendProperties
<1>10. /\ loc_map[bb][statement_index] \in Seq(Nat)
       /\ Append(loc_map[bb][statement_index], move_out) \in Seq(Nat)
  <2>1. loc_map[bb][statement_index] \in Seq(Nat) BY <1>0, <1>2 DEF MovesTyped
  <2> QED BY <1>5, <2>1, AppendProperties
<1>11. /\ path_map' \in Seq(Seq(Nat)) /\ Len(path_map') = Len(path_map)
       /\ DOMAIN path_map' = DOMAIN path_map
       /\ \A p \in DOMAIN path_map :
            path_map'[p] = IF p = path THEN Append(path_map[p], move_out) ELSE path_map[p]
  <2>1. path_map \in Seq(Seq(Nat)) BY <1>0 DEF MovesTyped
  <2> QED BY <1>1, <1>9, <2>1, ExceptSeq
<1>12. /\ DOMAIN loc_map' = Blocks(mir)
       /\ \A b \in Blocks(mir) : loc_map'[b] \in [1..TermIndex(mir, b) -> Seq(Nat)]
       /\ \A b \in Blocks(mir) : \A i \in 1..TermIndex(mir, b) :
            loc_map'[b][i] = IF b = bb /\ i = statement_index THEN Append(loc_map[b][i], move_out)
                             ELSE loc_map[b][i]
  BY <1>0, <1>1, <1>2, <1>10 DEF MovesTyped
<1>13. MovesTyped'
  BY <1>0, <1>1, <1>6, <1>11, <1>12 DEF MovesTyped, paths
<1>14. \A b, i : MovesAt(b, i)' = IF b = bb /\ i = statement_index THEN MovesAt(b, i) \union {move_out}
                                  ELSE MovesAt(b, i)
  <2> SUFFICES ASSUME NEW b, NEW i
               PROVE  MovesAt(b, i)' = IF b = bb /\ i = statement_index THEN MovesAt(b, i) \union {move_out}
                                       ELSE MovesAt(b, i)
    OBVIOUS
  <2>1. MovesAt(b, i)' = {n \in 1..move_out : moves'[n].source = <<b, i>>} BY <1>6 DEF MovesAt
  <2>2. MovesAt(b, i) = {n \in 1..Len(moves) : moves[n].source = <<b, i>>} BY <1>5 DEF MovesAt
  <2>3. \A n : n \in 1..move_out <=> n \in 1..Len(moves) \/ n = move_out
    BY <1>5 DEF move_out
  <2>4. \A n \in 1..Len(moves) : moves'[n].source = moves[n].source BY <1>6
  <2>5. /\ move_out \notin 1..Len(moves)
        /\ moves'[move_out].source = <<b, i>> <=> b = bb /\ i = statement_index
    BY <1>4, <1>5, <1>6 DEF move_out
  <2> QED BY <2>1, <2>2, <2>3, <2>4, <2>5
<1>15. \A p : MovesOf(p)' = IF p = path THEN MovesOf(p) \union {move_out} ELSE MovesOf(p)
  <2> SUFFICES ASSUME NEW p
               PROVE  MovesOf(p)' = IF p = path THEN MovesOf(p) \union {move_out} ELSE MovesOf(p)
    OBVIOUS
  <2>1. MovesOf(p)' = {n \in 1..move_out : moves'[n].path = p} BY <1>6 DEF MovesOf
  <2>2. MovesOf(p) = {n \in 1..Len(moves) : moves[n].path = p} BY <1>5 DEF MovesOf
  <2>3. \A n : n \in 1..move_out <=> n \in 1..Len(moves) \/ n = move_out
    BY <1>5 DEF move_out
  <2>4. \A n \in 1..Len(moves) : moves'[n].path = moves[n].path BY <1>6
  <2>5. moves'[move_out].path = path /\ move_out \notin 1..Len(moves)
    BY <1>4, <1>5, <1>6 DEF move_out
  <2> QED BY <2>1, <2>2, <2>3, <2>4, <2>5
<1>16. TablesAgree'
  <2>1. \A n \in DOMAIN moves' : moves'[n].path \in DOMAIN move_paths'
    BY <1>0, <1>1, <1>3, <1>4, <1>5, <1>6, <1>9 DEF TablesAgree, paths, move_out
  <2>2. DOMAIN path_map' = DOMAIN move_paths'
    BY <1>0, <1>1, <1>11 DEF TablesAgree, paths
  <2>3. ASSUME NEW b \in Blocks(mir), NEW i \in 1..TermIndex(mir, b)
        PROVE  Lists(loc_map'[b][i], MovesAt(b, i)')
    <3>1. Lists(loc_map[b][i], MovesAt(b, i)) BY <1>0 DEF TablesAgree
    <3>2. CASE b = bb /\ i = statement_index
      <4>1. Lists(Append(loc_map[b][i], move_out), MovesAt(b, i) \union {move_out})
        <5>1. MovesAt(b, i) \in SUBSET (1..Len(moves)) BY <1>5 DEF MovesAt
        <5> QED BY <1>5, <1>10, <3>1, <3>2, <5>1, ListsAppend DEF move_out
      <4> QED BY <1>12, <1>14, <3>2, <4>1
    <3>3. CASE ~(b = bb /\ i = statement_index)
      BY <1>12, <1>14, <3>1, <3>3
    <3> QED BY <3>2, <3>3
  <2>4. ASSUME NEW p \in DOMAIN path_map
        PROVE  Lists(path_map'[p], MovesOf(p)')
    <3>1. Lists(path_map[p], MovesOf(p)) BY <1>0 DEF TablesAgree
    <3>2. CASE p = path
      <4>1. Lists(Append(path_map[p], move_out), MovesOf(p) \union {move_out})
        <5>1. MovesOf(p) \in SUBSET (1..Len(moves)) BY <1>5 DEF MovesOf
        <5> QED BY <1>5, <1>9, <3>1, <3>2, <5>1, ListsAppend DEF move_out
      <4> QED BY <1>11, <1>15, <3>2, <4>1
    <3>3. CASE p # path
      BY <1>11, <1>15, <3>1, <3>3
    <3> QED BY <3>2, <3>3
  <2> QED BY <1>1, <1>11, <2>1, <2>2, <2>3, <2>4 DEF TablesAgree
<1>17. Gathered'
  <2>1. ASSUME NEW b \in Blocks(mir), NEW i \in 1..TermIndex(mir, b)
        PROVE  /\ \A n \in MovesAt(b, i)' : \E k \in Made(b, i)' :
                    CallsAt(b, i)[k] = Consume(moves'[n].path)
               /\ \A k \in Made(b, i)' : \A l \in Locals(mir) : CallsAt(b, i)[k] = Consume(l) =>
                    \E n \in MovesAt(b, i)' : moves'[n].path = l
    <3>1. /\ \A n \in MovesAt(b, i) : \E k \in Made(b, i) : CallsAt(b, i)[k] = Consume(moves[n].path)
          /\ \A k \in Made(b, i) : \A l \in Locals(mir) : CallsAt(b, i)[k] = Consume(l) =>
               \E n \in MovesAt(b, i) : moves[n].path = l
      BY <1>0 DEF Gathered
    <3>2. \A n \in MovesAt(b, i) : moves'[n].path = moves[n].path
      BY <1>5, <1>6 DEF MovesAt
    <3>3. moves'[move_out].path = path BY <1>4, <1>6
    <3>4. \A l : Consume(l) = Consume(path) => l = path BY DEF Consume, Local
    <3>5. CASE b = bb /\ i = statement_index
      <4>1. Made(b, i)' = Made(b, i) \union {call} BY <1>2, <3>5
      <4>2. MovesAt(b, i)' = MovesAt(b, i) \union {move_out} BY <1>14, <3>5
      <4>3. CallsAt(b, i)[call] = Consume(path) BY <1>3, <3>5
      <4> QED BY <3>1, <3>2, <3>3, <3>4, <4>1, <4>2, <4>3
    <3>6. CASE ~(b = bb /\ i = statement_index)
      <4>1. Made(b, i)' = Made(b, i) BY <1>2, <3>6
      <4>2. MovesAt(b, i)' = MovesAt(b, i) BY <1>14, <3>6
      <4> QED BY <3>1, <3>2, <4>1, <4>2
    <3> QED BY <3>5, <3>6
  <2>2. mir' = mir /\ \A b, i : CallsAt(b, i)' = CallsAt(b, i) BY <1>1, <1>2
  <2> QED BY <2>1, <2>2 DEF Gathered
<1> QED BY <1>7, <1>8, <1>13, <1>16, <1>17 DEF IInv

\* Every step keeps the invariant.
LEMMA InvStep == IInv /\ [Next]_vars => IInv'
<1> SUFFICES ASSUME IInv, [Next]_vars PROVE IInv'
  OBVIOUS
<1>0. Position /\ PathsAreLocals BY DEF IInv
<1>1. CASE NewLocalPath BY <1>1, NewLocalPathStep
<1>2. CASE BeginGather
  <2>1. /\ UNCHANGED <<mir, bb, statement_index, call, paths, tables>>
        /\ phase' = "gather" /\ Len(locals) = mir.nlocals
    BY <1>2 DEF BeginGather
  <2>2. Position' BY <1>0, <2>1 DEF Position, tables
  <2> QED BY <2>1, <2>2, StandStill
<1>3. CASE GatherMove BY <1>3, GatherMoveStep
<1>4. CASE GatherNothing BY <1>4, GatherNothingStep
<1>5. CASE LookIntoProjection
  <2>1. /\ UNCHANGED <<mir, bb, statement_index, call, paths, tables>>
        /\ phase = "gather" /\ phase' = "panicked"
    BY <1>5 DEF LookIntoProjection, AtCall
  <2>2. Position' BY <1>0, <2>1 DEF Position, tables
  <2> QED BY <2>1, <2>2, StandStill
<1>6. CASE NextLocation BY <1>6, NextLocationStep
<1>7. CASE Finalize
  <2>1. /\ UNCHANGED <<mir, bb, statement_index, call, paths, tables>>
        /\ phase = "gather" /\ phase' = "done" /\ bb \notin Blocks(mir)
    BY <1>7 DEF Finalize
  <2>2. Position' BY <1>0, <2>1 DEF Position, tables
  <2> QED BY <2>1, <2>2, StandStill
<1>8. CASE Done \/ UNCHANGED vars
  <2>1. UNCHANGED <<mir, phase, bb, statement_index, call, paths, tables>>
    BY <1>8 DEF Done, vars
  <2>2. Position' BY <1>0, <2>1 DEF Position, tables
  <2> QED BY <2>1, <2>2, StandStill
<1> QED BY <1>1, <1>2, <1>3, <1>4, <1>5, <1>6, <1>7, <1>8 DEF Next

\* The three tables that gather_moves fills side by side agree at every step,
\* for every body.
THEOREM TablesCorrect == Spec => []TablesAgree
<1>1. IInv => TablesAgree BY DEF IInv
<1> QED BY <1>1, InvInit, InvStep, PTL DEF Spec

-----------------------------------------------------------------------------
(***************************************************************************)
(* The effects.                                                            *)
(***************************************************************************)

\* No path has relatives, so that all its children are itself.
LEMMA OnlyItself ==
  ASSUME PathsAreLocals, NEW p \in DOMAIN move_paths
  PROVE  on_all_children_bits(p) = {p}
<1>1. \A q \in DOMAIN move_paths : move_paths[q].first_child = None
  <2>1. move_paths \in Seq(PathSet) BY DEF PathsAreLocals
  <2>2. \A q \in DOMAIN move_paths : move_paths[q] \in PathSet BY <2>1
  <2> QED BY <2>2 DEF PathSet
<1>2. {p} \in SUBSET DOMAIN move_paths /\ Linked({p}, p)
  BY <1>1 DEF Linked
<1>3. \A q \in DOMAIN move_paths :
        q \in on_all_children_bits(p) <=>
          \A S \in SUBSET DOMAIN move_paths : p \in S /\ Linked(S, p) => q \in S
  BY DEF on_all_children_bits
<1>4. p \in on_all_children_bits(p) BY <1>3
<1>5. \A q \in on_all_children_bits(p) : q \in DOMAIN move_paths
  BY DEF on_all_children_bits
<1>6. \A q \in on_all_children_bits(p) : q = p
  BY <1>2, <1>3, <1>5
<1> QED BY <1>4, <1>6

\* What an lvalue of the body names: its local, if it is one.
LEMMA LookupExact ==
  ASSUME Position, PathsAreLocals, phase = "done", NEW lval \in LvalueSet(mir.nlocals)
  PROVE  on_lookup_result_bits(lval) = {l \in Locals(mir) : lval = Local(l)}
<1>1. DOMAIN move_paths = Locals(mir)
  BY DEF PathsAreLocals, Locals
<1>0. find(lval).exact <=> lval.base # Static /\ lval.derefs = 0
  <2>1. find(lval).exact = (lval.base # Static /\ ~IsProjection(lval)) BY DEF find
  <2>2. IsProjection(lval) <=> lval.derefs # 0 BY DEF IsProjection, LvalueSet
  <2> QED BY <2>1, <2>2
<1>2. CASE lval.base # Static /\ lval.derefs = 0
  <2>1. lval.base \in Locals(mir) /\ lval = Local(lval.base)
    BY <1>2 DEF LvalueSet, Local, Locals
  <2>2. locals[lval.base] = lval.base
    BY <2>1 DEF PathsAreLocals, Locals
  <2>3. on_lookup_result_bits(lval) = {lval.base}
    <3>1. find(lval).path = lval.base BY <1>2, <2>2 DEF find
    <3>2. on_all_children_bits(lval.base) = {lval.base} BY <1>1, <2>1, OnlyItself
    <3> QED BY <1>0, <1>2, <3>1, <3>2 DEF on_lookup_result_bits
  <2>4. \A l : lval = Local(l) <=> l = lval.base
    BY <2>1 DEF Local
  <2> QED BY <2>1, <2>3, <2>4
<1>3. CASE ~(lval.base # Static /\ lval.derefs = 0)
  <2>1. ~find(lval).exact
    BY <1>0, <1>3
  <2>2. \A l \in Locals(mir) : lval # Local(l)
    BY <1>3, MarksAssumption DEF Local, Locals
  <2> QED BY <2>1, <2>2 DEF on_lookup_result_bits
<1> QED BY <1>2, <1>3

\* Some callback of the sequence is for path p.
CallbackSet == [paths : SUBSET Locals(mir), state : {"Absent", "Present"}]
Hit(callbacks, p) == \E k \in DOMAIN callbacks : p \in callbacks[k].paths

\* Callbacks for the sets of one kind.
LEMMA CallbacksType ==
  ASSUME NEW n \in Nat, NEW sets \in [1..n -> SUBSET Locals(mir)], NEW state \in {"Absent", "Present"}
  PROVE  /\ Callbacks(sets, state) \in Seq(CallbackSet)
         /\ \A k \in DOMAIN Callbacks(sets, state) : Callbacks(sets, state)[k].state = state
         /\ \A p : Hit(Callbacks(sets, state), p) <=> \E k \in 1..n : p \in sets[k]
<1>1. Callbacks(sets, state) \in [1..n -> CallbackSet]
  BY DEF Callbacks, CallbackSet
<1>2. Callbacks(sets, state) \in Seq(CallbackSet)
  BY <1>1, SeqDef
<1>3. /\ DOMAIN Callbacks(sets, state) = 1..n
      /\ \A k \in 1..n : /\ Callbacks(sets, state)[k].state = state
                         /\ Callbacks(sets, state)[k].paths = sets[k]
  BY DEF Callbacks
<1> QED BY <1>2, <1>3 DEF Hit

\* Callbacks that only empty.
LEMMA AppliedEmpty ==
  ASSUME NEW c \in Seq(CallbackSet), \A k \in DOMAIN c : c[k].state = "Absent",
         DOMAIN move_paths = Locals(mir), NEW S \in SUBSET Locals(mir), NEW p \in Locals(mir)
  PROVE  p \in Applied(S, c) <=> p \in S /\ ~Hit(c, p)
<1>1. Hits(c, p, "Present") = {} BY DEF Hits
<1>2. Hits(c, p, "Absent") = {} <=> ~Hit(c, p) BY DEF Hits, Hit
<1> QED BY <1>1, <1>2 DEF Applied

\* Callbacks that empty, one kind after the other.
LEMMA AppliedKill ==
  ASSUME NEW c \in Seq(CallbackSet), \A k \in DOMAIN c : c[k].state = "Absent",
         NEW d \in Seq(CallbackSet), \A k \in DOMAIN d : d[k].state = "Absent",
         DOMAIN move_paths = Locals(mir), NEW S \in SUBSET Locals(mir), NEW p \in Locals(mir)
  PROVE  p \in Applied(S, c \o d) <=> p \in S /\ ~Hit(c, p) /\ ~Hit(d, p)
<1> DEFINE cd == c \o d
<1>1. cd \in Seq(CallbackSet) /\ Len(c) \in Nat /\ Len(d) \in Nat
  BY ConcatProperties
<1>2. /\ DOMAIN c = 1..Len(c) /\ DOMAIN d = 1..Len(d)
      /\ DOMAIN cd = 1..(Len(c) + Len(d))
      /\ \A k \in 1..(Len(c) + Len(d)) : cd[k] = IF k <= Len(c) THEN c[k] ELSE d[k - Len(c)]
  BY ConcatProperties, LenProperties
<1> HIDE DEF cd
<1>3. /\ \A k \in 1..Len(c) : k \in DOMAIN cd /\ cd[k] = c[k]
      /\ \A k \in 1..Len(d) : k + Len(c) \in DOMAIN cd /\ cd[k + Len(c)] = d[k]
  <2>1. \A k \in 1..Len(c) : k \in 1..(Len(c) + Len(d)) /\ k <= Len(c)
    BY <1>1
  <2>2. \A k \in 1..Len(d) : /\ k + Len(c) \in 1..(Len(c) + Len(d))
                              /\ ~(k + Len(c) <= Len(c))
                              /\ (k + Len(c)) - Len(c) = k
    BY <1>1
  <2> QED BY <1>2, <2>1, <2>2
<1>4. ASSUME NEW k \in DOMAIN cd
      PROVE  \/ k \in 1..Len(c) /\ cd[k] = c[k]
             \/ k - Len(c) \in 1..Len(d) /\ cd[k] = d[k - Len(c)]
  <2>1. k \in 1..(Len(c) + Len(d)) BY <1>2
  <2>2. cd[k] = IF k <= Len(c) THEN c[k] ELSE d[k - Len(c)] BY <1>2, <2>1
  <2> QED BY <1>1, <2>1, <2>2
<1>5. \A k \in DOMAIN cd : cd[k].state = "Absent" BY <1>2, <1>4
<1>6. Hit(cd, p) <=> Hit(c, p) \/ Hit(d, p) BY <1>2, <1>3, <1>4 DEF Hit
<1>7. p \in Applied(S, cd) <=> p \in S /\ ~Hit(cd, p) BY <1>1, <1>5, AppliedEmpty
<1> QED BY <1>6, <1>7 DEF cd

\* Callbacks that empty, then callbacks that fill.
LEMMA AppliedFill ==
  ASSUME NEW c \in Seq(CallbackSet), \A k \in DOMAIN c : c[k].state = "Absent",
         NEW d \in Seq(CallbackSet), \A k \in DOMAIN d : d[k].state = "Present",
         DOMAIN move_paths = Locals(mir), NEW S \in SUBSET Locals(mir), NEW p \in Locals(mir)
  PROVE  p \in Applied(S, c \o d) <=> (p \in S /\ ~Hit(c, p)) \/ Hit(d, p)
<1>1. /\ c \o d \in Seq(CallbackSet) /\ Len(c \o d) = Len(c) + Len(d)
      /\ \A k \in 1..(Len(c) + Len(d)) : (c \o d)[k] = IF k <= Len(c) THEN c[k] ELSE d[k - Len(c)]
  BY ConcatProperties
<1>2. /\ Len(c) \in Nat /\ Len(d) \in Nat /\ DOMAIN c = 1..Len(c) /\ DOMAIN d = 1..Len(d)
      /\ DOMAIN (c \o d) = 1..(Len(c) + Len(d))
  BY <1>1, LenProperties
<1> DEFINE cd == c \o d
<1>3. /\ \A k \in 1..Len(c) : cd[k] = c[k]
      /\ \A k \in 1..Len(d) : cd[k + Len(c)] = d[k]
      /\ \A k \in DOMAIN cd : k > Len(c) => k - Len(c) \in 1..Len(d) /\ cd[k] = d[k - Len(c)]
      /\ DOMAIN cd = 1..(Len(c) + Len(d))
  <2>1. \A k \in 1..Len(d) : k + Len(c) \in 1..(Len(c) + Len(d)) /\ (k + Len(c)) - Len(c) = k /\ ~(k + Len(c) <= Len(c))
    BY <1>2
  <2>2. \A k \in 1..Len(c) : k \in 1..(Len(c) + Len(d)) /\ k <= Len(c)
    BY <1>2
  <2>3. \A k \in 1..(Len(c) + Len(d)) : k > Len(c) => k - Len(c) \in 1..Len(d) /\ ~(k <= Len(c))
    BY <1>2
  <2> QED BY <1>1, <1>2, <2>1, <2>2, <2>3
<1> HIDE DEF cd
<1>4. ASSUME NEW k \in Hits(cd, p, "Absent") PROVE k \in 1..Len(c) /\ p \in c[k].paths
  BY <1>2, <1>3, <1>4 DEF Hits
<1>5. ASSUME NEW k \in Hits(cd, p, "Present") PROVE k > Len(c) /\ Hit(d, p) /\ k \in Nat
  BY <1>2, <1>3, <1>5 DEF Hits, Hit
<1>6. ASSUME Hit(c, p) PROVE Hits(cd, p, "Absent") # {}
  <2>1. PICK k \in 1..Len(c) : p \in c[k].paths BY <1>2, <1>6 DEF Hit
  <2>2. k \in DOMAIN cd /\ cd[k] = c[k] BY <1>2, <1>3
  <2> QED BY <1>2, <2>1, <2>2 DEF Hits
<1>7. ASSUME Hit(d, p) PROVE \E k \in Hits(cd, p, "Present") : k > Len(c)
  <2>1. PICK k \in 1..Len(d) : p \in d[k].paths BY <1>2, <1>7 DEF Hit
  <2>2. k + Len(c) \in DOMAIN cd /\ cd[k + Len(c)] = d[k] /\ k + Len(c) > Len(c) BY <1>2, <1>3
  <2> QED BY <1>2, <2>1, <2>2 DEF Hits
<1>8. p \in Applied(S, cd) <=>
        /\ p \in S \/ Hits(cd, p, "Present") # {}
        /\ \A j \in Hits(cd, p, "Absent") : \E k \in Hits(cd, p, "Present") : k > j
  BY DEF Applied
<1>9. CASE Hit(d, p)
  <2>1. PICK k \in Hits(cd, p, "Present") : k > Len(c) BY <1>7, <1>9
  <2>2. \A j \in Hits(cd, p, "Absent") : k > j BY <1>2, <1>4, <1>5, <2>1
  <2> QED BY <1>8, <1>9, <2>1, <2>2 DEF cd
<1>10. CASE ~Hit(d, p)
  <2>1. Hits(cd, p, "Present") = {} BY <1>5, <1>10
  <2>2. Hit(c, p) <=> Hits(cd, p, "Absent") # {}
    BY <1>2, <1>4, <1>6 DEF Hit
  <2> QED BY <1>8, <1>10, <2>1, <2>2 DEF cd
<1> QED BY <1>9, <1>10

-----------------------------------------------------------------------------
(***************************************************************************)
(* The effects of one location, on the tables that gather_moves returns.   *)
(***************************************************************************)

\* The moves of a location are of the locals that it consumes.
LEMMA MovedConsumed ==
  ASSUME IInv, phase = "done", NEW b \in Blocks(mir), NEW i \in 1..TermIndex(mir, b),
         NEW p \in Locals(mir)
  PROVE  (\E k \in DOMAIN loc_map[b][i] : moves[loc_map[b][i][k]].path = p)
           <=> p \in Consumed(EffectAt(mir, b, i))
<1>0. Position /\ MovesTyped /\ TablesAgree /\ Gathered BY DEF IInv
<1>1. {loc_map[b][i][k] : k \in DOMAIN loc_map[b][i]} = MovesAt(b, i)
  BY <1>0 DEF TablesAgree, Lists
<1>2. (\E k \in DOMAIN loc_map[b][i] : moves[loc_map[b][i][k]].path = p)
        <=> \E n \in MovesAt(b, i) : moves[n].path = p
  BY <1>1
<1>3. Made(b, i) = DOMAIN CallsAt(b, i)
  <2>1. b < bb BY <1>0, SourceFacts DEF Position, Blocks
  <2> QED BY <2>1 DEF Made
<1>4. /\ \A n \in MovesAt(b, i) : \E k \in DOMAIN CallsAt(b, i) : CallsAt(b, i)[k] = Consume(moves[n].path)
      /\ \A k \in DOMAIN CallsAt(b, i) : CallsAt(b, i)[k] = Consume(p) =>
           \E n \in MovesAt(b, i) : moves[n].path = p
  BY <1>0, <1>3 DEF Gathered
<1>5. (\E n \in MovesAt(b, i) : moves[n].path = p) <=> Occurs(Consume(p), CallsAt(b, i))
  BY <1>4 DEF Occurs
<1>6. p \in Consumed(EffectAt(mir, b, i)) <=> Occurs(Consume(p), CallsAt(b, i))
  BY <1>0, CallsTyped
<1> QED BY <1>2, <1>5, <1>6

\* The effects of Mir on the body as Mir has it.
LEMMA FlatEffects ==
  ASSUME Position, NEW b \in Blocks(mir), NEW i \in 1..TermIndex(mir, b)
  PROVE  LET e == EffectAt(mir, b, i)
             to == LocalsIn(e.dests)
         IN /\ Absent(FlatMir, b, i) = Consumed(e) \union (IF e.op = "Dead" THEN to ELSE {})
            /\ Present(FlatMir, b, i) = IF e.op \in {"Let", "Assign", "Call"} THEN to ELSE {}
<1> DEFINE e == EffectAt(mir, b, i)
<1>1. /\ Stmts(FlatMir, b) = [j \in DOMAIN Stmts(mir, b) |-> Flat(Stmts(mir, b)[j])]
      /\ Term(FlatMir, b) = Flat(Term(mir, b))
  BY DEF FlatMir, Stmts, Term
<1>2. /\ e.op \in Ops
      /\ AtTerm(mir, b, i) => e.op \in TermOps
      /\ ~AtTerm(mir, b, i) => i \in 1..Len(Stmts(mir, b)) /\ e.op \notin TermOps \union {"Write"}
      /\ e.op \in {"Live", "Dead", "Stmt"} => e.uses = << >>
  BY SourceFacts, EffectType DEF EffectSet
<1>3. TermIndex(FlatMir, b) = TermIndex(mir, b) /\ DOMAIN Stmts(mir, b) = 1..Len(Stmts(mir, b))
  <2>1. Stmts(mir, b) \in Seq(EffectSet((StmtOps \ {"Write"}) \union {"Assign", "Call"}, mir.nlocals))
    BY SourceFacts DEF IsSource
  <2>2. Len(Stmts(mir, b)) \in Nat /\ DOMAIN Stmts(mir, b) = 1..Len(Stmts(mir, b)) BY <2>1
  <2>3. Len([j \in 1..Len(Stmts(mir, b)) |-> Flat(Stmts(mir, b)[j])]) = Len(Stmts(mir, b)) BY <2>2
  <2> QED BY <1>1, <2>2, <2>3 DEF TermIndex
<1>4. /\ Flat(e).op = (IF e.op \in {"Assign", "Call"} THEN "Write" ELSE e.op)
      /\ Flat(e).to = LocalsIn(e.dests)
      /\ Flat(e).moved = LocalsUsed(e.uses, "Consume")
  BY DEF Flat
<1>5. CASE AtTerm(mir, b, i)
  <2>1. AtTerm(FlatMir, b, i) BY <1>3, <1>5 DEF AtTerm
  <2>2. Term(FlatMir, b) = Flat(e) BY <1>1, <1>5 DEF EffectAt
  <2>3. Flat(e).op = e.op BY <1>2, <1>4, <1>5 DEF TermOps
  <2>4. Absent(FlatMir, b, i) = Consumed(e)
    BY <1>2, <1>4, <1>5, <2>1, <2>2, <2>3 DEF Absent, TermMoves, Consumed, TermOps
  <2>5. Present(FlatMir, b, i) = {} BY <2>1 DEF Present
  <2>6. e.op \notin {"Dead", "Let", "Assign", "Call"} BY <1>2, <1>5 DEF TermOps
  <2> HIDE DEF e
  <2> QED BY <2>4, <2>5, <2>6 DEF e
<1>6. CASE ~AtTerm(mir, b, i)
  <2>1. ~AtTerm(FlatMir, b, i) BY <1>3, <1>6 DEF AtTerm
  <2>2. Stmts(FlatMir, b)[i] = Flat(e) BY <1>1, <1>2, <1>3, <1>6 DEF EffectAt
  <2>3. e.op \in {"Let", "Assign", "Call", "Live", "Dead", "Stmt"}
    BY <1>2, <1>6 DEF Ops, StmtOps
  <2>4. LocalsUsed(e.uses, "Consume") = Consumed(e)
    <3>1. CASE e.op \in {"Let", "Assign", "Call"} BY <3>1 DEF Consumed
    <3>2. CASE e.op \in {"Live", "Dead", "Stmt"}
      <4>1. e.uses = << >> /\ Consumed(e) = {} BY <1>2, <3>2 DEF Consumed
      <4> QED BY <4>1 DEF LocalsUsed
    <3> QED BY <2>3, <3>1, <3>2
  <2> HIDE DEF e
  <2>5. Flat(e).op = "Dead" <=> e.op = "Dead" BY <1>4, <2>3
  <2>6. Flat(e).op \in {"Write", "Let"} <=> e.op \in {"Let", "Assign", "Call"} BY <1>4, <2>3
  <2>7. Absent(FlatMir, b, i) = Consumed(e) \union (IF e.op = "Dead" THEN LocalsIn(e.dests) ELSE {})
    BY <1>4, <2>1, <2>2, <2>4, <2>5 DEF Absent, StmtMoves
  <2>8. Present(FlatMir, b, i) = IF e.op \in {"Let", "Assign", "Call"} THEN LocalsIn(e.dests) ELSE {}
    BY <1>4, <2>1, <2>2, <2>6 DEF Present
  <2> QED BY <2>7, <2>8 DEF e
<1> QED BY <1>5, <1>6

\* Together: the operands empty, then the destination fills.
LEMMA LocationExact ==
  ASSUME IInv, phase = "done", NEW b \in Blocks(mir), NEW i \in 1..TermIndex(mir, b),
         NEW S \in SUBSET Locals(mir)
  PROVE  Applied(S, drop_flag_effects(b, i))
           = (S \ Absent(FlatMir, b, i)) \union Present(FlatMir, b, i)
<1> DEFINE e == EffectAt(mir, b, i)
           to == LocalsIn(e.dests)
           sets == [k \in DOMAIN loc_map[b][i] |-> on_all_children_bits(moves[loc_map[b][i][k]].path)]
           filled == [k \in DOMAIN e.dests |-> on_lookup_result_bits(e.dests[k])]
           empties == Callbacks(sets, "Absent")
           fills == Callbacks(filled, "Present")
           kills == Callbacks(filled, "Absent")
<1>0. Position /\ PathsAreLocals /\ MovesTyped /\ TablesAgree BY DEF IInv
<1>1. DOMAIN move_paths = Locals(mir)
  BY <1>0 DEF PathsAreLocals, Locals
<1>2. e \in EffectSet(Ops, mir.nlocals) BY <1>0, SourceFacts, EffectType
<1>3. e.dests \in Seq(LvalueSet(mir.nlocals)) BY <1>2 DEF EffectSet
<1>4. /\ Len(e.dests) \in Nat
      /\ filled \in [1..Len(e.dests) -> SUBSET Locals(mir)]
      /\ \A p \in Locals(mir) : (\E k \in 1..Len(e.dests) : p \in filled[k]) <=> p \in to
  <2>1. DOMAIN e.dests = 1..Len(e.dests) /\ Len(e.dests) \in Nat
        /\ \A k \in 1..Len(e.dests) : e.dests[k] \in LvalueSet(mir.nlocals)
    BY <1>3
  <2>2. \A k \in 1..Len(e.dests) : filled[k] = {l \in Locals(mir) : e.dests[k] = Local(l)}
    BY <1>0, <2>1, LookupExact
  <2>3. DOMAIN filled = 1..Len(e.dests) /\ filled = [k \in DOMAIN filled |-> filled[k]]
    BY <2>1
  <2> HIDE DEF filled
  <2>4. filled \in [1..Len(e.dests) -> SUBSET Locals(mir)]
    BY <2>2, <2>3
  <2>5. \A p : p \in to <=> p \in Locals(mir) /\ \E k \in 1..Len(e.dests) : e.dests[k] = Local(p)
    BY <2>1 DEF LocalsIn
  <2> HIDE DEF to
  <2>6. \A p \in Locals(mir) : (\E k \in 1..Len(e.dests) : p \in filled[k]) <=> p \in to
    BY <2>2, <2>5
  <2> QED BY <2>1, <2>4, <2>6
<1>5. /\ Len(loc_map[b][i]) \in Nat
      /\ sets \in [1..Len(loc_map[b][i]) -> SUBSET Locals(mir)]
      /\ \A p \in Locals(mir) : (\E k \in 1..Len(loc_map[b][i]) : p \in sets[k]) <=> p \in Consumed(e)
  <2>1. /\ DOMAIN loc_map[b][i] = 1..Len(loc_map[b][i]) /\ Len(loc_map[b][i]) \in Nat
        /\ \A k \in 1..Len(loc_map[b][i]) : loc_map[b][i][k] \in MovesAt(b, i)
    <3>1. loc_map[b][i] \in Seq(Nat) BY <1>0 DEF MovesTyped
    <3>2. Lists(loc_map[b][i], MovesAt(b, i)) BY <1>0 DEF TablesAgree
    <3> QED BY <3>1, <3>2 DEF Lists
  <2>2. \A k \in 1..Len(loc_map[b][i]) : moves[loc_map[b][i][k]].path \in DOMAIN move_paths
    BY <1>0, <2>1 DEF TablesAgree, MovesAt
  <2>3. \A k \in 1..Len(loc_map[b][i]) : sets[k] = {moves[loc_map[b][i][k]].path}
    BY <1>0, <2>1, <2>2, OnlyItself
  <2>4. sets \in [1..Len(loc_map[b][i]) -> SUBSET Locals(mir)]
    <3>1. DOMAIN sets = 1..Len(loc_map[b][i]) /\ sets = [k \in DOMAIN sets |-> sets[k]]
      BY <2>1
    <3> HIDE DEF sets
    <3>2. \A k \in 1..Len(loc_map[b][i]) : sets[k] \in SUBSET Locals(mir)
      BY <1>1, <2>2, <2>3
    <3> QED BY <3>1, <3>2
  <2>5. ASSUME NEW p \in Locals(mir)
        PROVE  (\E k \in 1..Len(loc_map[b][i]) : p \in sets[k]) <=> p \in Consumed(e)
    <3>1. (\E k \in 1..Len(loc_map[b][i]) : p \in sets[k])
            <=> \E k \in DOMAIN loc_map[b][i] : moves[loc_map[b][i][k]].path = p
      BY <2>1, <2>3
    <3> QED BY <3>1, MovedConsumed
  <2> QED BY <2>1, <2>4, <2>5
<1> HIDE DEF sets, filled
<1>6. /\ empties \in Seq(CallbackSet)
      /\ \A k \in DOMAIN empties : empties[k].state = "Absent"
      /\ \A p \in Locals(mir) : Hit(empties, p) <=> p \in Consumed(e)
  BY <1>5, CallbacksType
<1>7. /\ fills \in Seq(CallbackSet)
      /\ \A k \in DOMAIN fills : fills[k].state = "Present"
      /\ \A p \in Locals(mir) : Hit(fills, p) <=> p \in to
  BY <1>4, CallbacksType
<1>8. /\ kills \in Seq(CallbackSet)
      /\ \A k \in DOMAIN kills : kills[k].state = "Absent"
      /\ \A p \in Locals(mir) : Hit(kills, p) <=> p \in to
  BY <1>4, CallbacksType
<1>9. drop_flag_effects(b, i) = empties \o
        (CASE e.op \in {"Let", "Assign", "Call"} -> fills
           [] e.op = "Dead"                      -> kills
           [] OTHER                              -> << >>)
  BY DEF drop_flag_effects, sets, filled
<1>10. /\ Absent(FlatMir, b, i) = Consumed(e) \union (IF e.op = "Dead" THEN to ELSE {})
      /\ Present(FlatMir, b, i) = IF e.op \in {"Let", "Assign", "Call"} THEN to ELSE {}
  BY <1>0, FlatEffects
<1>11. to \subseteq Locals(mir) BY DEF LocalsIn
<1> HIDE DEF e, to, empties, fills, kills
<1>12. Applied(S, drop_flag_effects(b, i)) \subseteq Locals(mir)
  BY <1>1 DEF Applied
<1>13. Present(FlatMir, b, i) \subseteq Locals(mir) BY <1>10, <1>11
<1>14. ASSUME NEW p \in Locals(mir)
       PROVE  p \in Applied(S, drop_flag_effects(b, i))
                <=> p \in (S \ Absent(FlatMir, b, i)) \union Present(FlatMir, b, i)
  <2>0. /\ Hit(empties, p) <=> p \in Consumed(e)
        /\ Hit(fills, p) <=> p \in to
        /\ Hit(kills, p) <=> p \in to
    BY <1>6, <1>7, <1>8
  <2>1. CASE e.op \in {"Let", "Assign", "Call"}
    <3>1. drop_flag_effects(b, i) = empties \o fills BY <1>9, <2>1
    <3>2. p \in Applied(S, empties \o fills) <=> (p \in S /\ ~Hit(empties, p)) \/ Hit(fills, p)
      BY <1>1, <1>6, <1>7, AppliedFill
    <3> QED BY <1>10, <2>1, <2>0, <3>1, <3>2
  <2>2. CASE e.op = "Dead"
    <3>1. drop_flag_effects(b, i) = empties \o kills BY <1>9, <2>2
    <3>2. p \in Applied(S, empties \o kills) <=> p \in S /\ ~Hit(empties, p) /\ ~Hit(kills, p)
      BY <1>1, <1>6, <1>8, AppliedKill
    <3> QED BY <1>10, <2>2, <2>0, <3>1, <3>2
  <2>3. CASE e.op \notin {"Let", "Assign", "Call", "Dead"}
    <3>1. drop_flag_effects(b, i) = empties
      <4>1. drop_flag_effects(b, i) = empties \o << >> BY <1>9, <2>3
      <4> QED BY <1>6, <4>1, ConcatEmptySeq
    <3>2. p \in Applied(S, empties) <=> p \in S /\ ~Hit(empties, p)
      BY <1>1, <1>6, AppliedEmpty
    <3> QED BY <1>10, <2>3, <2>0, <3>1, <3>2
  <2> QED BY <2>1, <2>2, <2>3
<1> QED BY <1>12, <1>13, <1>14

\* The inputs are filled where the function is entered.
LEMMA EntryExact ==
  ASSUME IInv, phase = "done"
  PROVE  EntryEffects = args_iter(mir)
<1>0. Position /\ PathsAreLocals BY DEF IInv
<1>1. ASSUME NEW arg \in args_iter(mir)
      PROVE  on_lookup_result_bits(Local(arg)) = {arg}
  <2>1. arg \in Locals(mir) /\ Local(arg) \in LvalueSet(mir.nlocals)
    <3>1. mir.args \in Nat /\ mir.nlocals \in Nat /\ mir.nlocals >= mir.args + 2
      BY <1>0, SourceFacts DEF IsSource
    <3>2. arg \in 1..mir.nlocals BY <3>1 DEF args_iter
    <3> QED BY <3>2 DEF Locals, Local, LvalueSet
  <2>2. \A l : Local(arg) = Local(l) <=> l = arg BY DEF Local
  <2> QED BY <1>0, <2>1, <2>2, LookupExact
<1> QED BY <1>1 DEF EntryEffects

\* For every body, the drop-flag effects read off the tables are those that
\* Mir says, so that what is proved of the analysis on sets of locals holds
\* of the analysis on move paths.
THEOREM EffectsCorrect == Spec => []EffectsExact
<1>1. IInv => EffectsExact
  BY EntryExact, LocationExact DEF EffectsExact
<1> QED BY <1>1, InvInit, InvStep, PTL DEF Spec
=============================================================================
