------------------------------ MODULE Builder ------------------------------
(***************************************************************************)
(* The lowering of a function body to basic blocks (src/src/build).        *)
(*                                                                         *)
(* The code is a recursive descent over the syntax tree.  Here the calls   *)
(* still to be made are the frames of `todo', and the tree is chosen while *)
(* it is walked: a frame that lowers an expression picks any expression    *)
(* that may stand there.  So the behaviours of the module are the runs of  *)
(* construct_fn over all the programs with at most Fuel statements and     *)
(* compound expressions.                                                   *)
(*                                                                         *)
(* This part has the state of a Builder and its operations; the frames are *)
(* in Lowering.                                                            *)
(***************************************************************************)
EXTENDS Paths, FiniteSets

\* The extents that construct_fn makes before the body's.
CALL_SITE == 1
PARAMETERS == 2

None == 0
Unterminated == [op |-> "None", succ |-> << >>, binds |-> << >>, moved |-> {}, read |-> {}]

Write(to, moved, read) == [op |-> "Write", to |-> to, moved |-> moved, read |-> read]
StorageLive(l) == [op |-> "Live", to |-> {l}, moved |-> {}, read |-> {}]
StorageDead(l) == [op |-> "Dead", to |-> {l}, moved |-> {}, read |-> {}]
MacroStmt == [op |-> "Stmt", to |-> {}, moved |-> {}, read |-> {}]

Jump(op, succ, v) ==
  [op |-> op, succ |-> succ, binds |-> [k \in 1..Len(succ) |-> {}],
   moved |-> v.moved, read |-> v.read]
NoOperand == [moved |-> {}, read |-> {}]

-----------------------------------------------------------------------------
\* Mutant: off by one.
NextBlock_Off(B) == Len(B.basic_blocks)

(***************************************************************************)
(* The control-flow graph.  `asserts' is TRUE as long as every assert! and *)
(* span_bug! that was reached held.                                        *)
(***************************************************************************)
NextBlock(B) == Len(B.basic_blocks) + 1
NextLocal(B) == Len(B.local_decls) + 1

\* `scopes' has the visibility scope of each statement.  `home' is not in the
\* code: the extents that are open where the block belongs in the source.
EmptyBlock(home) ==
  [stmts |-> << >>, scopes |-> << >>, term |-> Unterminated, home |-> home]

start_new_block(B, home) == [B EXCEPT !.basic_blocks = Append(@, EmptyBlock(home))]

push_at(B, b, s, scope) ==
  [B EXCEPT !.basic_blocks[b].stmts = Append(@, s),
            !.basic_blocks[b].scopes = Append(@, scope)]

push_all(B, b, stmts, scope) ==
  [B EXCEPT !.basic_blocks[b].stmts = @ \o stmts,
            !.basic_blocks[b].scopes = @ \o [i \in 1..Len(stmts) |-> scope]]

push(B, b, s) == push_at(B, b, s, B.visibility_scope)

push_assign_unit(B, b, dest) == push(B, b, Write({dest}, {}, {}))

terminate(B, b, t) ==
  [B EXCEPT !.basic_blocks[b].term = t,
            !.asserts = @ /\ B.basic_blocks[b].term = Unterminated]

-----------------------------------------------------------------------------
(***************************************************************************)
(* Scopes and names.                                                       *)
(***************************************************************************)
Open(B) == {B.scopes[i].extent : i \in 1..Len(B.scopes)}
ScheduledIn(scopes, l) == \E i \in 1..Len(scopes) : l \in scopes[i].drops
extent_of_innermost_scope(B) == Last(B.scopes).extent

start_new_extent(B) == [B EXCEPT !.extents = @ + 1]

push_scope(B, extent) ==
  [B EXCEPT !.scopes = Append(@, [extent |-> extent, drops |-> {},
                                  visibility_scope |-> B.visibility_scope])]

\* A new extent and its scope, as in_scope's callers make them.
enter_scope(B) == push_scope(start_new_extent(B), B.extents + 1)

\* The members of a set of numbers up to n, in the order of a BTreeSet.
Ascending(S, n) ==
  LET upto[i \in 0..n] ==
        IF i = 0 THEN << >> ELSE IF i \in S THEN Append(upto[i - 1], i) ELSE upto[i - 1]
  IN upto[n]

\* A StorageDead in block b for each of the locals, the latest first.
build_scope_drops(B, b, locals, scope) ==
  LET dropped == Reverse(Ascending(locals, Len(B.local_decls)))
  IN push_all(B, b, [i \in 1..Len(dropped) |-> StorageDead(dropped[i])], scope.visibility_scope)

\* Mutant: the drops are forgotten.
pop_scope_NoDrops(B, b, extent) ==
  [B EXCEPT !.scopes = Front(@), !.asserts = @ /\ Last(B.scopes).extent = extent]

\* Every drop scheduled in the scope, the latest local first, goes to the end
\* of block b.
pop_scope(B, b, extent) ==
  LET scope == Last(B.scopes)
      rest  == Front(B.scopes)
  IN [build_scope_drops(B, b, scope.drops, scope) EXCEPT
               !.scopes = rest,
               !.asserts = /\ @
                           /\ scope.extent = extent
                           /\ \A l \in scope.drops : ~ScheduledIn(rest, l)]

\* Every caller passes the extent of the innermost scope.
schedule_drop(B, l) ==
  [B EXCEPT !.scopes[Len(B.scopes)].drops = @ \union {l},
            !.asserts = @ /\ ~ScheduledIn(B.scopes, l)]

Declare(B, name, scope) ==
  [B EXCEPT !.local_decls =
     Append(@, [name |-> name, scope |-> scope, extent |-> extent_of_innermost_scope(B)])]

\* A temporary's name is unique; no path in the source resolves to it.
TempName == "temp"
\* Mutant: the local is numbered after it was declared.
temp_Off(B, b) ==
  LET D == Declare(B, TempName, B.visibility_scope)
  IN schedule_drop(push(D, b, StorageLive(NextLocal(D))), NextLocal(B))

\* Mutant: temporaries are made in the scope of the coroutine's argument.
temp_Outermost(B, b) ==
  schedule_drop(push(Declare(B, TempName, 3), b, StorageLive(NextLocal(B))), NextLocal(B))

temp(B, b) ==
  schedule_drop(push(Declare(B, TempName, B.visibility_scope), b, StorageLive(NextLocal(B))),
                NextLocal(B))

new_visibility_scope(B) ==
  [B EXCEPT !.visibility_scopes = Append(@, B.visibility_scope)]

Named(B, scope, name) == {l \in scope.drops : B.local_decls[l].name = name}
Latest(S) == CHOOSE l \in S : \A k \in S : k <= l

\* Mutant: the scopes are searched from the outermost.
find_local_Outermost(B, name) ==
  LET found == UNION {Named(B, B.scopes[i], name) : i \in 1..Len(B.scopes)}
  IN IF found = {} THEN None ELSE CHOOSE l \in found : \A k \in found : l <= k

\* The innermost scope that has a local of that name, and there the latest.
find_local(B, name) ==
  LET in == {i \in 1..Len(B.scopes) : Named(B, B.scopes[i], name) # {}}
  IN IF in = {} THEN None ELSE Latest(Named(B, B.scopes[Latest(in)], name))

find_local_in_current_scope(B, name) ==
  LET found == Named(B, Last(B.scopes), name)
  IN IF found = {} THEN None ELSE Latest(found)

\* A local of the same name in the same scope is moved to a temporary.
declare_binding(B, b, name, scope) ==
  LET shadowed == find_local_in_current_scope(B, name)
      kept == IF shadowed = None THEN B
              ELSE push_at(temp(B, b), b, Write({NextLocal(B)}, {shadowed}, {}), scope)
  IN schedule_drop(Declare(kept, name, scope), NextLocal(kept))

\* The bindings of a pattern share one visibility scope, made for the first.
\* D is [b, scope, locals]: the builder, that scope and the locals so far.
DeclareNext(D, b, name) ==
  LET V == IF D.scope = None THEN new_visibility_scope(D.b) ELSE D.b
      s == IF D.scope = None THEN Len(V.visibility_scopes) ELSE D.scope
      N == declare_binding(V, b, name, s)
  IN [b |-> N, scope |-> s, locals |-> Append(D.locals, Len(N.local_decls))]

declare_bindings(B, b, names) ==
  LET D[n \in 0..Len(names)] ==
        IF n = 0 THEN [b |-> B, scope |-> None, locals |-> << >>]
        ELSE DeclareNext(D[n - 1], b, names[n])
  IN D[Len(names)]

storage_live(B, b, locals) ==
  push_all(B, b, [i \in 1..Len(locals) |-> StorageLive(locals[i])], B.visibility_scope)

\* Mutant: every return gets a block of its own.
return_block_Uncached(B) ==
  [start_new_block(B, {CALL_SITE}) EXCEPT !.cached_return_block = NextBlock(B)]

\* The block of the Return; it belongs to the call-site scope.
return_block(B) ==
  IF B.cached_return_block # None THEN B
  ELSE [start_new_block(B, {CALL_SITE}) EXCEPT !.cached_return_block = NextBlock(B)]

(***************************************************************************)
(* exit_scope drops the locals of the scopes it leaves that are recorded   *)
(* as initialized.  initialized_decls is made empty in push_scope and      *)
(* nothing else writes it.                                                 *)
(***************************************************************************)
initialized_decls(scope) == {}

exit_scope(B, extent, b, target, after_target) ==
  LET encloses == {i \in 1..Len(B.scopes) : B.scopes[i].extent = extent}
      at    == IF encloses = {} THEN 1 ELSE Latest(encloses)
      left  == (at + 1)..Len(B.scopes)
      dropped[n \in 0..(Len(B.scopes) - at)] ==
        IF n = 0 THEN B
        ELSE LET scope == B.scopes[Len(B.scopes) + 1 - n]
             IN build_scope_drops(dropped[n - 1], b,
                                  scope.drops \intersect initialized_decls(scope), scope)
  IN [terminate(dropped[Len(B.scopes) - at], b,
                Jump("Break", <<target, after_target>>, NoOperand)) EXCEPT
        !.asserts = /\ @
                    /\ encloses # {}
                    /\ at > 1
                    /\ \A i \in left : \A l \in B.scopes[i].drops :
                         ~ScheduledIn(SubSeq(B.scopes, 1, i - 1), l)]

\* Builder::new: the start block, the return pointer and the coroutine
\* argument, each in a visibility scope of its own.
NewBuilder ==
  [basic_blocks |-> <<EmptyBlock({CALL_SITE, PARAMETERS})>>,
   scopes |-> << >>, extents |-> 2,
   visibility_scope |-> 3, visibility_scopes |-> <<None, 1, 2>>,
   loop_scopes |-> << >>,
   local_decls |-> <<[name |-> "return_pointer", scope |-> 2, extent |-> CALL_SITE],
                     [name |-> "coroutine_args", scope |-> 3, extent |-> CALL_SITE]>>,
   cached_return_block |-> None,
   asserts |-> TRUE]
=============================================================================
