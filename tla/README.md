# stateful: a verification development

`stateful` is a compiler plugin. It rewrites a Rust function marked
`#[generator]` or `#[async]`, whose body suspends itself with `yield_!` or
`await!`, into a value that implements `Iterator` or `Future`. It does so in one
sequential pipeline:

    syntax tree --desugar--> syntax tree --build--> MIR --validate-->
      MIR --gather moves, dataflow, elaborate--> definite assignment
        --translate--> syntax tree of the state machine

Nothing in the plugin is concurrent and nothing is persisted. What makes it hard
is that each stage relies on what the stages before it built: a lowering that
forgets to assign a temporary on one path, or an analysis that keeps a variable
that was moved on one path, shows as generated code that does not compile, or
that means something else. Such an error takes a program of a particular shape,
and there are more shapes than tests. The generated code itself is a state
machine that is left and entered again: the values that survive a suspension are
exactly those the analysis says.

## Inventory

| component | source | state | operations | what makes it correct |
|---|---|---|---|---|
| front end | `lib.rs` | none | `expand_state_machine` | calls the stages in order |
| desugaring | `build/desugar.rs`, `transition.rs`, `mac.rs` | next node id | fold every expression, statement and macro | no transition is left unexpanded; nothing is evaluated more or less often, or in another order, than written |
| MIR | `mir/mod.rs`, `transform/validate.rs` | blocks, locals, visibility scopes | accessors, `successors`, `Validate` | successors exist, every input has a local |
| lowering | `build/*` | a `Builder`: blocks, scopes with drops, loop scopes, locals, visibility scope, cached return block | one function per kind of expression or statement | its assertions hold, blocks end once, operands hold values, names mean what they mean in Rust, locals die with their scope, every suspension becomes a state |
| CFG simplification | `transform/simplify.rs`, `traversal.rs` (switched off) | reference counts, the blocks, which terminator is out, the map of the kept blocks | count, collapse chains of jumps, branches to one place, remove dead blocks | what an execution does is kept; the counts stay exact; it ends |
| move paths | `analysis/gather_moves.rs`, `analysis/mod.rs` | path table, moves, moves per location and per path | gather, `drop_flag_effects_for_location` | the three tables agree; each location empties and fills the right locals, in that order |
| dataflow | `analysis/dataflow/*` | gen, kill and entry sets, changed flag | `build_sets`, `propagate` | ends, and with the meet over all paths |
| bit sets | `data_structures/indexed_set.rs`, `bitslice.rs`, `AllSets` in `dataflow/mod.rs` | three vectors of words | the range of a block, word-wise operations, iterator | no block reads or writes another's bits, none is lost to rounding; the iterator returns the elements |
| elaboration | `analysis/elaborate_assignments.rs` | two maps block -> locals | `elaborate` | what a block unpacks and declares covers what it uses |
| translation | `translate/*` | scope stack of names (`LocalStack`) | one arm per block, one state per arm | what is packed holds a value and is unpacked under the same name |
| generated driver | quoted code in `translate/builder.rs`, `resume_state.rs` | the resume state | `next`, `poll` | resumes where it left off; `Illegal` only after the end |

The components interact by calls and by shared data only: `build` makes the
`Mir`; the analysis reads it; `elaborate_assignments` reads the analysis's sets
through `IdxSet::iter`; `translate` reads `Mir` and `DefiniteAssignment`. The
generated machine calls back nothing but the user's code, and is called by
`Iterator::next` or `Future::poll`.

The hard behaviours are: early exits (`break`, `continue`, `return`) that leave
scopes and leave dead code behind; shadowing; match arms, whose bindings are made
on an edge; expressions that suspend in the middle of other expressions; loops
without an exit, that leave blocks nothing reaches; sets of bits stored in whole
words; and the fixpoint of the analysis. `PROJECT.json` lists each hazard at its
line with the properties that cover it.

## Modules

    Mir ─┬─ Paths ─┬─ Dataflow ── Machine ── Driver ── MCMachine   (with MCBodies)
         │         │                            └───── DriverProofs
         │         └─ Builder ── Lowering ─┬─ MCLowering
         │                                 ├─ LoweringProofs ───┐
         │                                 └─ Translate ─┬─ NamesProofs ── MovesProofs
         │                                               └─ MCTranslate
         ├─ PackedSets ─┬─ MCPacked   (with MCBodies; implements Dataflow)
         │              └─ PackedProofs
         ├─ MovePaths ── MCMovePaths, MovePathsProofs
         ├─ Simplify ── MCSimplify, SimplifyProofs
         └─ MirProofs   (used by all the proof modules)
    Desugar ── MCDesugar     IdxSet

A line to the right or down is EXTENDS; each proof module also extends the one
before it, whose theorems it uses.

* **Mir** has the data that all stages share: a body is a sequence of blocks
  over numbered locals. A statement keeps what the analysis tells apart: the
  locals it fills, those it moves, those it only reads. `IsBody` is what `Mir::new`
  and the validation pass assert, and what construction guarantees of
  terminators; the other modules assume it of their bodies, and the run `control`
  checks that `Lowering` makes only such bodies. `Absent` and `Present` are the
  drop-flag effects of one location.
* **Paths** is the reference: which locals hold a value where a block is entered,
  read off the paths of a body (`MaybeUnset`, `SetOnEntry`), and the net effect of
  the locations of a block (`NetGen`, `NetKill`). It knows nothing of gen and
  kill sets or of passes.
* **Dataflow** is one `DataflowAnalysis`. `build_sets` goes one location per
  step (`LocationEffect`), `propagate` one block per step (`WalkBlock`). The entry
  sets have the padding bits of whole words that the code has.
* **PackedSets** is the same analysis as the code stores it: three vectors of words
  for all the blocks, a range of words for each block (`offset`, `SliceOf`,
  `Store`), a bit for each path (`bit_lookup`). `propagate` goes edge by edge
  (`LoadBlock`, `PropagateEdge`, `NextBlock`) with one scratch set `in_out`, which
  keeps for the next edge what one edge added. Its abstract specification is
  `Dataflow`: `Sets == INSTANCE Dataflow WITH ...`. While the edges of a block are
  propagated, the mapping takes the block as done: `Settled` intersects the entry
  sets with what the pending edges carry, and the flag counts that as a change.
* **MovePaths** is `MoveDataBuilder`, a call per step, over bodies whose operands and
  destinations are in order and may be statics or dereferences, which `Mir` does not
  have. Reading the effects of a location back off the tables
  (`drop_flag_effects`) must give `Absent` and `Present` of `Mir`.
* **Simplify** is `SimplifyCfg`. The recursion of `collapse_goto_chain`, which takes a
  terminator out, follows its jump and puts it back, is the stack `chain`; what is
  on the stack has no terminator, which is how a cycle of jumps ends. The pass is switched off: its module (`transform/mod.rs:17`), the line that pushes it
  (`lib.rs:94`), the iterator of the bit vector that it needs and its call of
  `merge_successor` are comments. The module is of the pass as its text says it would run.
* **Desugar** is the folder of `desugar.rs` over syntax trees of nested constructs:
  an expression goes through `fold`, the operand of a macro through `noop_fold`
  only, and the body of a `while` through `fold` twice, as in the code.
* **Machine** continues with the result: `elaborate_assignments` as the operators
  `assigned_on_entry` and `initialized`, and the generated code as a machine that
  unpacks a state, executes the statements of a block (`Execute`) and packs the
  next state (`TakeEdge`). `PathOutOfBounds` is the panic of `get_path_local`.
* **Driver** is the generated `StateMachine` around that machine: `new`, `next`
  (or `poll`), the `Illegal` state that a call leaves in the struct while it runs,
  `Yield` with the resume state it returns, `resume_arm` that lifts the argument of
  the next call into it, `Done`, and `Fail` for a call that ends without a state.
  Its abstract specification is `MachineSpec`, one run without interruption.
* **Builder** has the state of the lowering and its operations: blocks, scopes,
  drops, loop scopes, declared bindings, early exits. Every `assert!`,
  `span_bug!` and `span_err!` of these operations is a conjunct of `asserts`.
* **Lowering** is `construct_fn`. The recursive descent is a stack of frames,
  `todo`: a frame is a call still to be made, and each kind of expression,
  statement or continuation is an action. The program is not given: the frame of
  an expression picks any form that may stand there, so that the behaviours of the
  specification are the compilations of all programs with at most `Fuel`
  statements and compound expressions. `env` is what the names mean by Rust's
  rules; it is not in the code and no code action reads it.
* **Translate** continues a finished lowering: `AnalyzeAssignments` is the result of
  the analysis, and `internal_state` prints the arms. `build_scope_block` gives a
  block its nested scopes back, `LocalStack` (`push_local`, `get_name`) says how
  each local is called. The text is not kept: it is evaluated by Rust's scoping
  rules while it is printed (`env`), so that every operand, destination and
  packed local can be compared with the local that was meant (`lost`).
* **IdxSet** is the iterator over a set of machine words, with the width of a word
  as a parameter.
* **MCBodies** is a family of bodies for `Dataflow`, `Machine` and `Driver`: the control
  flow that branches, loops, early exits, suspensions and matches lower to, each
  with every choice of a statement in three of its blocks.

Operators called `X_Something` right before `X` are deliberate mistakes in `X`, one
for each property, used to see that the property can be violated.

## Runs

| run | what it shows | bounds |
|---|---|---|
| `machine` | the analysis ends (`Termination`), its gen and kill sets are exact at every step and its result is the meet over all paths; in the generated code what is packed holds a value, and what holds a value is unpacked or declared; the compiler panics exactly when a block is unreachable; any sequence of calls is one run of that code, and none goes on after the end or a failure | 1750 bodies: 7 control-flow shapes, 5 statement choices in three blocks of each, with and without an input; words of 6 bits, so that 4 locals leave 2 padding bits; calls without a bound |
| `control` | assertions, well-formed bodies, one state per suspension | all programs of up to 3 control-flow expressions, nested any way, with two-armed matches whose arms bind or not |
| `lifetimes` | every operand holds a value where it is used; nothing outlives its scope | all programs of up to 3 statements and compound expressions with a variable, branches, loops, matches, suspensions, calls and assignments, without early exits |
| `names` | names mean what they mean in Rust; the two scope structures agree; `moved!` operands are moved | all programs of up to 3 statements over an input and two variables, all shadowings |
| `translate` | the translation asserts nothing wrong; every printed name stands for the local that was meant, with its value, unless shadowing goes wrong in one of the ways named in `spoilt` | all programs of up to 3 constructs over an input `x` and variables and arm bindings of that one name, with blocks, branches, matches, assignments and suspensions |
| `packed` | the analysis on words, edge by edge, takes the steps of the analysis on sets (`ImplementsDataflow`) and ends; no index or range is beyond the vectors (`LookupsInBounds`) | the same 1750 bodies; words of 3 bits, so that 4 locals take two words and leave 2 padding bits |
| `move_paths` | the tables of moves agree at every step; the effects read off them are those of `Mir` | bodies of two blocks: any statement with up to two operands out of locals, a static and a dereference, then a second location that moves, fills or kills the same local |
| `simplify` | counts exact at every step, behaviour kept, ends; a second run would find nothing to do (`FullySimplified`: no reachable block branches to one place or jumps to an empty jump, self-loops aside, and every block left is one that the start or a block with statements leads to) | 7200 graphs of four blocks with cycles, cycles of empty jumps, dead blocks that jump into live ones, branches to one place |
| `desugar` | transitions expanded, no own `suspend!` reported, expressions evaluated in order and as often as written | all programs up to three constructs deep, for both kinds of state machines |
| `iter_word` | the iterator is right for a set of one word | all sets of 8 bits |

`Fuel` is what bounds a lowering run. Three is enough for each pair of
constructs to be nested in either order with a third before, after or inside; the
interesting cases (a shadowed variable used after an inner block, an early exit
in a loop in a branch, a suspension between the evaluation of an operand and
its use) take two or three. Seven shapes of control flow are enough for the
analysis: each has a feature the others lack (a join, a back edge, a `continue` whose back edge is not the last block visited, dead code after
an early exit, an unreachable exit, an unreachable exit that feeds a join, a match
that binds), and the theorems below do not depend on the family.

`DriverTypeOK` contains the type invariants of `Machine` and `Dataflow`.

Two runs show a disagreement between the code and what its comments say, and are
listed in `PROJECT.json` as findings:

| run | what the code does | what is said of it |
|---|---|---|
| `assigned_again` | a local that is alive on entry and assigned in the block is declared again and renamed because of itself; the alias with the old value is packed | `local_stack.rs:79` "If this local is shadowing another local" |
| `await_once` | the operand of `await!` is polled where it stands, in the loop, so that a future made by a call is made anew for every poll | `desugar.rs:461` "let future = $expr;" before the loop |

The passing runs leave out, by `Forms` and by their families, what else is known to
be wrong. Each of these has a configuration of its own, that TLC finds violated:

| configuration | module | property | what the code does | what is said of it |
|---|---|---|---|---|
| `ExitDrops.cfg` | `MCLowering` | `ScopedLifetimes` | `exit_scope` drops only locals in `initialized_decls`, that nothing fills | `scope.rs:7` "record the exit point and also add all drops" |
| `LetInitializer.cfg` | `MCLowering` | `InitializerSeesOuter` | `let x = x` reads the new `x` | `block.rs:97` "Enter the visibility scope, after evaluating the initializer" |
| `YieldRvalue.cfg` | `MCLowering` | `SuspensionsLowered` | `x = yield_!(e)` stays a macro call | `desugar.rs:426` "Compile `yield_!($expr)` into" a suspension |
| `ArmHeld.cfg` | `MCLowering` | `VariablesHeld` | the binding of an arm is forgotten in the arm's second block | `elaborate_assignments.rs:34` "all the locals that were alive on entry" |
| `IterWords.cfg` | `IdxSet` | `IterSorted` | with two words the iterator returns wrong elements | `indexed_set.rs:159` "indexes of set bits in a sorted order" |
| `DerefAssigned.cfg` | `MCMovePaths` | `AssignmentsAccepted` | an assignment to `*x` panics in `move_path_for`, that is called before the result is ignored | `gather_moves.rs:270` "this not being a valid move path is OK" |
| `DeadBlocks.cfg` | `MCSimplify` | `DeadBlocksRemoved` | the dead code after a `break` is a successor, so the traversal reaches it and it is kept | `simplify.rs:20` "it removes dead blocks" |

`assigned_again` has no shadowing in it at all (`SingleNames`): `let x = c; if c { x = c }`
is enough. `translate` therefore says less: an arm where a renaming went wrong is
left out by `spoilt`, and each way it can go wrong is a point where `LocalStack`
itself shows it. They are

* `itself`: the case of `assigned_again`;
* `hidden`: an operand or a destination is printed by its declared name
  (`stmt.rs:17`) while another variable has that name;
* `inner`: the renamings back are emitted inside the block that ends
  (`local_stack.rs:50`), so that they end with it;
* `arm`: `push` in the arm of a match drops the renaming statement
  (`block.rs:256`);
* `empty`: a variable is renamed before it has a value. It takes a `let` without an
  initializer (`let_decl`), which `translate` leaves out.

The other forms and inputs that `translate` leaves out are known to break it:
`let_pat` is declared twice, and without an input the temporaries of a function
live in the scope of the coroutine's argument, whose tuple `resume_arm` replaces
(`ArgumentsLifted` fails then). In a match whose arms both bind `x`, a use in the first
arm resolves to the second arm's local (`find_local`, `scope.rs:313`, searches the
drop scopes, where both are declared), so `names` has no matches and `Printable`
leaves such programs out of `translate`. In the futures variant
`StateMachine::new` takes `next` but stores `resume` (`builder.rs:120`), a name that
is not in scope there; `Driver` models what the generator variant does.

`let y = moved!(x)` (form `moved_into`) is left out of `names` as well:
`expr_mac` takes the macro off and copies `x`. So is `let _ = e` (`let_wild`),
that stops the compiler with a `span_bug!`.

Fairness: `Termination`, `PackedTermination` and `SimplifyEnds` need it. Each is about one
call of the compiler that runs on as long as it can, so that weak fairness of
that call is justified: `WF_driverVars(Compile)`, `WF_vars(Next)`. Nothing is assumed of the
program that calls the state machine, which may drop it after any call, nor of
the user's code in it, which may loop forever. The refinements are safety
properties and need none.

Deadlock: `machine`, `packed`, `simplify`, `desugar` and `iter_word` stop when the call they
model returns or panics (a compilation that panicked in `get_path_local`, an exhausted
iterator), so their configurations do not check it. `Lowering` and `MovePaths` have
the action `Done` for a finished call, so that in their runs, `translate` included, a deadlock
is a frame or a location no action takes, and there is none.

## Proofs

The theorems hold for all bodies, graphs or programs and, where words matter, every word width:
`LoweringProofs` proves every property of `control`, for programs of any size, and
`NamesProofs` and `MovesProofs` those of `names`, and `MovesProofs` also `ArgumentsLifted` of `translate`;
`DriverProofs` proves every safety property that
`machine` checks on its family, `PackedProofs` and
`MovePathsProofs` that the code's storage, the words and the tables of moves, is what the other modules take
it for, and `SimplifyProofs` every safety property of `simplify`. `MirProofs` has the lemmas on bodies that they share, and
induction: the library's induction theorems take an operator, which the provers cannot
instantiate, so `Induction` is stated for a set of numbers and proved from the
well-foundedness of strict inclusion among finite sets. `Iterates` and `Saturates` then say
that a recursive function has the values its equation gives, and that iterating a
function that only adds elements reaches a fixpoint within as many rounds as there are elements.

* `TypeCorrect`, `DriverTypeCorrect`, `PackedTypeInvariant`: the indices and sets stay in
  range. The lemmas on `IsBody` and the ranges of `Absent` and `Present` come first.
  `LookupsCorrect` is what the ranges are for: the words of a block lie in the
  vectors (`Ranges`), and have a bit for each local that a location or an edge
  touches (`InSlice`), so the guards `InBounds` stop no step. In the code each is an
  index that could panic.
* `TransferCorrect`, `GenKillCorrect`: the inductive invariant `IBuild` says that
  the sets of each block are the net effect of the locations visited so far, and
  that blocks not visited have empty sets. `TransferExact` itself is inductive only
  together with the position of the loop; the step is a lemma that adds one
  location to `NetGen` and `NetKill`.
* `SolvedCorrect`: `IWalk` is the fixpoint argument. While a pass is under way
  without a change, the equations hold for the edges of all blocks before `bb`; a
  pass that ends without a change has checked every edge against the sets as they
  are. This is where a flag that says less would break it.
* `LargestCorrect`: every solution of the equations is contained in the entry sets
  at every step (`ILargest`), so that with `SolvedCorrect` the result is the largest
  solution, whatever the order of the blocks.
* `MeetCorrect`: the result is the meet over all paths. `Paths` collects by rounds the bits that
  some path leaves without a value; `UnsetRounds` shows that its last round is a fixpoint
  (`Saturates`, bit by bit), and its complement solves the equations, so `LargestCorrect` puts
  it below the entry sets. `SolvingAgrees` is the other half, by induction over the
  rounds: a bit that is unset along a path of n edges is in no solution.
* `PackedImplements`: every step on words maps to a step of `Dataflow` or a stutter.
  Two facts carry it. The ranges of two blocks are disjoint (`offset` is a
  multiple of the words of a block, and a bit of a path stays inside them by
  `RoundUp`), so `Store` for one block leaves the bits of the others. And the scratch
  set carries to each pending edge what `Dataflow` intersects at once: that it keeps
  what an edge added makes no difference, since only a `Suspend` adds anything
  and it has one edge. The flag of the code is
  set edge by edge; that of the mapping is set as soon as a pending edge will.
* `TablesCorrect`, `EffectsCorrect`: the inductive invariant `IInv` adds three things to
  `TablesAgree`. `PathsAreLocals`: a path has its local's number and no relatives,
  so that `on_all_children_bits` ends at the path itself. `Position`: nothing is recorded before the loops begin. `Gathered`:
  the moves of a location are those asked for by the calls made there so far
  (`Made`), which at the end are all of them. The callbacks of a location then are
  some that empty followed by some that fill (`AppliedFill`, `AppliedEmpty`).
* `LiveCorrect`, `PackedCorrect`, `DeclaredCorrect`: `AnalysisInside` first shows
  that a behaviour of the machine is one of the analysis followed by stutters, so
  the theorems about the analysis hold in it. `IMachine` is `LiveExact` with the
  facts about the finished analysis that it needs; `PackedLive` follows with
  `SolvedWhenDone` at the edge taken, and `ArmsAssumption` for the arms of a match.
* `PanicsCorrect`: a padding bit stays in exactly the blocks that no path reaches. One
  direction is the meet over paths for a bit that no location touches (`OtherBitsPass`,
  `PaddingAgrees`), the other induction over the rounds of `ReachableBlocks`.
* `DriverImplements`: every step of the driver is a step of the uninterrupted run or
  a stutter. The step that needs an argument is the call after a suspension: what
  `resume_arm` makes of the stored locals has to be what `TakeEdge` leaves alive on
  the edge. The inductive invariant `IDriver` says where a stored state
  comes from: the machine still stands at the `Suspend` to its block
  (`Suspended`), or it is the state that `new` was given and the machine has not
  run (`Unstarted`). Only with the lifted argument are
  the locals those of the internal state (mutant `resume_arm_NoLift`).
* `ResumableCorrect`, `NeverRevivedCorrect`: from `IDriver` as well. `DriverPacks` is
  `PackedCorrect` carried over by the refinement.
* `SimplifyTypes`, `CountsExact`, `FlowIsKept`, `SimplifiesFully`: one inductive invariant, `IInv`,
  that TLC checked on the instance of `simplify` first. Its parts: `Called` says what is on the
  stack of `collapse_goto_chain`: each entry is the target of the jump in the one before it,
  all but the last have lost their terminator, no block is there twice. Without it a
  reference that is under way could be counted wrong. `Counted` is `PredCountExact` for the
  blocks that are alive; a count can only be decremented while another reference exists
  (`TwoReferences`), so it never wraps around. `Quiet` says that a pass without a change
  has left the blocks so far nothing to simplify, and is why the last pass proves
  `FullySimplified`; a block that was skipped is one no reference leads to
  (`ReachableCounts`). The second half of `FullySimplified` says which dead blocks stay:
  those with statements and what they lead to, which `DeadBlocks.cfg` shows against the
  comment of the code. No other is left once the blocks without a count are gone (`NoneDead`),
  and the renumbering keeps it so (`RenamedPreorder`). `Keeping` relates the blocks that were already swapped to the front
  with the graph as it was before. That behaviour is kept is three lemmas on
  reachability: a jump may skip a silent block (`SkipFlow`, infinite silent loops
  included), a branch to one place is a jump (`SameFlow`), and blocks may be renamed by an
  injective map that covers what is reachable (`RenamedFlow`).
* `LoweringTypes`, `AssertionsCorrect`, `BuiltCorrect`, `SuspensionsCorrect`: for any set of
  names and forms and any `Fuel`, so for all programs, whatever their size and nesting. The
  inductive invariant `IInv` has two halves. `BuilderOK` is about the builder alone: its
  statements and terminators use what exists, no local is scheduled to be dropped in two
  scopes (`Scheduled`), and the block of an arm is the target of its match and of nothing else
  (`ArmsOwned`). What the builder still lacks depends on the calls still to be made, so the
  other half is about `todo`: the frames are a *plan* (`IsPlan`), which gives every frame the
  numbers of scopes, loops, operands and unlowered suspensions there are when its turn comes.
  `After` is what a frame changes of them, and `FrameOK` what it needs of them: `pop` finds
  its own scope innermost, `loop_end` its own loop, an `exit` the scope it leaves.
  `Parts` says who ends each block that has no terminator yet: each is the current
  one, the block of the Return, or *owned* by exactly one frame (the else block by `else`, the blocks of the
  arms and the end by `arms`, ...). So no block is terminated twice (`terminate` asserts that)
  and when there are no frames left none is without a terminator, dead code after a
  `break`, a `continue` or a `return` included. There is a lemma for each action
  (`...Keeps`); those for actions that lay down new frames build the new plan on the old with
  `PlanPush`. The sets are small but the records wide, so what an operation of
  `Builder` does to the state is stated first (`Fills`, `Grows`, `Keeps`, `Advances`) and the
  actions use that only.
  `AssertionsCorrect` assumes that there is no `let_wild`, and `SuspensionsCorrect` that there is
  no `yield_rvalue`: with those forms the properties are false, see above.
* `LexicalCorrect`, `VisibleCorrect`: for programs of any size, with any names and shadowing,
  whose match arms bind nothing. The inductive invariant `NInv` gives each frame of `todo` a
  *view*: how many scopes there are, what Rust's environment is and which visibility scope
  is entered when its turn comes (`Follows` is what a frame changes of them). In each view every
  variable of the environment was declared in a visibility scope around it (`Around`, by a path
  of parents), and `find_local` over so many scopes finds what the environment means
  (`Agrees`), except for the names that a `let` still to be finished will enter: those are
  declared before the initializer and mean something only after it (`Later`). A view
  says nothing of the scopes above its own, which is why what a nested expression declares
  there does it no harm. So the views after a block are right when it ends, although nothing
  about names is restored there except by popping.
  `LexicalResolution` is then the agreement of the first view, at each use. The hypothesis
  `ArmNames = {}` is necessary: the bindings of all arms are in the scope around the match,
  so that in the first arm `find_local` finds the second arm's `x`, see above.
* `MovedCorrect`: for programs of any size, with matches, early exits and suspensions. The
  inductive invariant `MInv` says that what was given to `moved!` so far is moved by a statement or
  a terminator of some block (`Gone`) or by an operand that waits for its expression
  (`OnTheWay`). Every operation of the builder keeps what is in the blocks (`Onward`:
  only `terminate` overwrites something, and its assertion says that nothing was there), and
  every action that takes operands off puts their moves into the block it ends or appends to.
  That a frame finds its operands waiting is `IInv` again, and at the end none waits. The hypothesis
  leaves out the forms for which the claim is none: a condition is only read by the `If`
  (`Calm`: no frame is about one), `let y = moved!(x)` is lowered as a copy,
  see above, and with `let _ = e` the assertions fail.
* `LiftedCorrect`: for programs of any size over a function with an input. The visibility scope
  the builder is in is set and reset by frames far apart, so the inductive invariant `AInv`
  has a half for each: no local but the argument was declared in the argument's scope and the
  builder is in another (`Apart`), and no frame that is still to be done brings it back there
  (`AllOutside`), neither the scope that a `let` enters, nor those of the arms of a match,
  nor the one a block returns to. It starts with the declaration of the inputs, which is the one
  moment the builder *is* in that scope; there a temporary would only be made for an input that
  shadows another, and Rust has no two of one name (`DistinctArgs`). Both hypotheses are necessary:
  without an input the builder stays where it is. `Known` says
  that the assignments are about locals of the body, which does not change after the analysis.

Assumed of the constants: `IsBody` or `IsSource` and
that an arm has a block of its own (`BuiltCorrect` proves both of every body that the lowering
makes), that the names of the arguments are a sequence and `Fuel` a number (`ProgramAssumption`), that
no variable has the name of the temporaries (`TempAssumption`; in the code they are called `temp_expr5` and the like (`misc.rs:16`), and a variable of that very
name would be taken for the temporary), that the marks `Static` and `None` are no
numbers, a positive word width, and, in `Machine`,
that the locals fit one word, without which the iterator is wrong (`IterWords.cfg`).

`GraphsAssumption` says of the graphs of `Simplify` that successors are blocks of the graph and that a
Goto has one.

Only model-checked: `Termination`, `PackedTermination` and `SimplifyEnds` (liveness is out of
the prover's reach), `Desugar` (recursive operators) and `IdxSet`
(powers of two, that the provers have no arithmetic for). Of `Lowering`: `OperandsHeld` and
`ScopedLifetimes`, which are about the paths of the finished body. Of `Translate`:
`TranslationAsserts` and `PrintedRight`, which are about what is printed of a whole block,
a fold over its items.

## Not modelled

The front end, printing and the index vectors keep no state that a
property could be about. `moved.rs` is one comment, `visit.rs` is commented out
in `mir/mod.rs`, `bar.rs` and `baz.rs` are sketches of generated code outside the crate, and
the analyses that are comments in `impls.rs` are not there. The graph output of
the analysis (`graphviz.rs`) only formats. In the lowering, an assignment whose place is a field
or an index, assignments in rvalue position, closures, items and inner functions
are left out; a pattern is the sequence of the names it binds. `Desugar` has no
names, labels or types: which loop a `break` in the desugared loop of an `await!` leaves is not asked.
`merge_successor` of `simplify.rs` has no caller.

## Plan

1. Core: `Mir`, `Paths`, `Dataflow`, `Machine`, `Builder`, `Lowering`, `IdxSet`
   with their runs; theorems about the analysis and the generated machine. Done.
2. `Driver` with its refinement and proofs; `Translate` over one name. Done.
3. The storage under the analysis: `PackedSets` with its refinement to `Dataflow`,
   `MovePaths` against `Mir`, both with proofs; `Simplify`; `Desugar`. Done.
4. `Translate` with more: drops at the ends of the printed scopes against those of
   the source, `let` without an initializer, patterns.
5. The bodies that `Lowering` makes as the bodies of `Machine`: that the
   `DefiniteAssignment` of `Translate` is what the analysis computes for them.
6. Theorems about `Builder` and `Lowering`: scopes nest, blocks end once, bodies are
   well-formed, suspensions become states, names mean what they mean in Rust. Done.
7. Theorems about the meet over all paths, the bounds panic and `Simplify`. Done.
