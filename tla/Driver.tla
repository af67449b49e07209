------------------------------- MODULE Driver -------------------------------
(***************************************************************************)
(* The generated StateMachine and its driver, Iterator::next or            *)
(* Future::poll (src/src/translate/builder.rs, resume_state.rs).           *)
(*                                                                         *)
(* The struct holds a ResumeState.  A call takes it out, leaves Illegal    *)
(* (the Default) in its place, runs the closure `resume' on it and stores  *)
(* the state that comes back.  While a call runs the generated code takes  *)
(* the steps of Machine; a suspension ends the call, and the next call     *)
(* takes up the edge where it was left.                                    *)
(***************************************************************************)
EXTENDS Machine

VARIABLES
  state,    \* StateMachine::state
  call,     \* "none" (not yet made), "idle", "running"
  answer    \* what the last call came to

driverVars == <<machineVars, state, call, answer>>

\* A variant has the locals its block has on entry, that of the start block
\* without the coroutine's argument.
ResumeState(b) ==
  [block |-> b,
   locals |-> IF b = START_BLOCK THEN assigned_on_entry(b) \ {COROUTINE_ARGS}
              ELSE assigned_on_entry(b)]
Illegal == [block |-> 0, locals |-> {}]

\* Mutant: the locals are taken as they are.
resume_arm_NoLift(b, locals) == assigned_on_entry(b) \intersect locals

\* The arm of resume for block b: the locals of the state and the argument of
\* this call, as far as the internal state of b has them.
resume_arm(b, locals) == assigned_on_entry(b) \intersect (locals \union {COROUTINE_ARGS})

-----------------------------------------------------------------------------
DriverInit ==
  /\ MachineInit
  /\ state = Illegal
  /\ call = "none"
  /\ answer = "none"

Compile ==
  /\ call = "none"
  /\ Analyse \/ PathOutOfBounds
  /\ UNCHANGED <<state, call, answer>>

\* StateMachine::new on the start state.
new ==
  /\ call = "none"
  /\ run = "compile"
  /\ phase = "done"
  /\ \A b \in Blocks(mir) : on_entry[b] \subseteq Locals(mir)
  /\ state' = ResumeState(START_BLOCK)
  /\ call' = "idle"
  /\ UNCHANGED <<machineVars, answer>>

\* Mutant: the state is copied out, not replaced.
next_Copy ==
  /\ call = "idle"
  /\ state # Illegal
  /\ run' = "run"
  /\ block' = state.block
  /\ location' = 1
  /\ live' = resume_arm(state.block, state.locals)
  /\ call' = "running"
  /\ UNCHANGED <<vars, state, answer>>

\* next and poll, up to the start of the arm the state names.
next ==
  /\ call = "idle"
  /\ state # Illegal
  /\ state' = Illegal
  /\ run' = "run"
  /\ block' = state.block
  /\ location' = 1
  /\ live' = resume_arm(state.block, state.locals)
  /\ call' = "running"
  /\ UNCHANGED <<vars, answer>>

\* The arm of resume for Illegal.
IllegalState ==
  /\ call = "idle"
  /\ state = Illegal
  /\ answer' = "illegal state"
  /\ UNCHANGED <<machineVars, state, call>>

\* The loop around the internal states.
Internal ==
  /\ call = "running"
  /\ Execute \/ (Term(mir, block).op # "Suspend" /\ \E k \in Edges(block) : TakeEdge(k))
  /\ UNCHANGED <<state, call, answer>>

\* Mutant: a suspension packs what is alive here, not what its target has.
Yield_Live ==
  /\ call = "running"
  /\ AtTerm(mir, block, location)
  /\ Term(mir, block).op = "Suspend"
  /\ state' = [block |-> successors(Term(mir, block))[1], locals |-> live]
  /\ call' = "idle"
  /\ answer' = "value"
  /\ UNCHANGED machineVars

\* A suspension returns its value with the state to go on from.
Yield ==
  /\ call = "running"
  /\ AtTerm(mir, block, location)
  /\ Term(mir, block).op = "Suspend"
  /\ state' = ResumeState(successors(Term(mir, block))[1])
  /\ call' = "idle"
  /\ answer' = "value"
  /\ UNCHANGED machineVars

\* Mutant: the end leads back to the start.
Done_Restart ==
  /\ call = "running"
  /\ Return
  /\ state' = ResumeState(START_BLOCK)
  /\ call' = "idle"
  /\ answer' = "end"

\* Return comes with Illegal as the next state.
Done ==
  /\ call = "running"
  /\ Return
  /\ state' = Illegal
  /\ call' = "idle"
  /\ answer' = "end"

\* A statement of the program panics, or try! in it returns an Err from the
\* closure: the call ends without a state to store.
Fail ==
  /\ call = "running"
  /\ ~AtTerm(mir, block, location)
  /\ call' = "idle"
  /\ answer' = "failed"
  /\ UNCHANGED <<machineVars, state>>

DriverNext ==
  \/ Compile
  \/ new
  \/ next
  \/ IllegalState
  \/ Internal
  \/ Yield
  \/ Done
  \/ Fail

DriverSpec == DriverInit /\ [][DriverNext]_driverVars

\* The analysis is a loop of the compiler and runs on by itself.  Nothing
\* promises that the program calls the state machine again.
FairDriver == DriverSpec /\ WF_driverVars(Compile)

-----------------------------------------------------------------------------
(***************************************************************************)
(* Properties.                                                             *)
(***************************************************************************)

DriverTypeOK ==
  /\ MachineTypeOK
  /\ state \in {Illegal} \union {ResumeState(b) : b \in Blocks(mir)}
  /\ call \in {"none", "idle", "running"}
  /\ answer \in {"none", "value", "end", "failed", "illegal state"}

\* Over any number of calls the generated code does what one uninterrupted
\* run of it does: what a suspension packed and the next call unpacked, with
\* the argument lifted, is what the edge carries.  A call that fails only
\* stops the run.
RunsUninterrupted == MachineSpec

\* The state machine can be resumed exactly between a call that yielded (or
\* its creation) and the next one: not while a call runs, not after its end,
\* and not after a failure, where the locals are gone.
ResumableOnlyAfterYield ==
  state # Illegal <=> call = "idle" /\ answer \in {"none", "value"}

\* Once a call ended the run, by its end or a failure, every further call
\* panics and none runs code of the program again.
Over == answer \in {"end", "failed", "illegal state"}
NeverRevived ==
  [][Over => answer' \in {answer, "illegal state"} /\ call' = "idle" /\ UNCHANGED machineVars]_driverVars
=============================================================================
