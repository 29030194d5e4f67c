----------------------------- MODULE Workflow -----------------------------
(***************************************************************************)
(* One run of the pipeline, from `agentic-test run` through crashes and    *)
(* `agentic-test resume` to its end: the command line (cli/app.py), the    *)
(* engine (workflow/engine.py), recovery (workflow/recovery.py) and the    *)
(* SQLite tables they share (storage/).                                    *)
(*                                                                         *)
(* A process is one invocation of the program.  The process First creates  *)
(* the run; every other process resumes it.  Each call of the repository   *)
(* or the event store commits a transaction of its own, so each is a step  *)
(* of its own; what a process computes between two commits belongs to the  *)
(* step before.  A process may crash between any two commits, and any call *)
(* may raise.                                                              *)
(***************************************************************************)
EXTENDS WorkflowData, Sequences, FiniteSets

CONSTANTS First,       \* the process that creates the run
          MaxCrashes,  \* bound: how many processes may crash
          MaxFaults    \* bound: how many calls may raise or reject

ASSUME WorkflowAssumption ==
    /\ First \in Proc
    /\ MaxCrashes \in Nat
    /\ MaxFaults \in Nat

VARIABLES
    \* The database, shared by all processes.
    run,          \* the row of table runs: final_status and route_selected
    checkpoints,  \* table checkpoints; `by` stands for the row's uuid
    events,       \* table events, in commit order
    candTable,    \* table test_candidates
    evTable,      \* table execution_evidence
    diagTable,    \* table failure_diagnoses
    \* The memory of each process.
    pc,           \* the call it makes next
    node,         \* current_node
    mem,          \* state, the WorkflowState
    executed,     \* executed_nodes
    todo,         \* rows _persist_node_artifacts (or resume) has still to save
    cur,          \* engine._current_run
    \* Bounds.
    crashes, faults

db   == <<run, checkpoints, events, candTable, evTable, diagTable>>
proc == <<pc, node, mem, executed, todo, cur>>
vars == <<db, proc, crashes, faults>>

-----------------------------------------------------------------------------
(* Types *)

Terminal == {"COMPLETED", "FAILED"}

RunRow == [status: {"ABSENT", "INITIALIZED", "RUNNING"} \cup Terminal,
           route: Route \cup {NoRoute}]

NoRow == [status |-> "ABSENT", route |-> NoRoute]

Checkpoint == [by: Proc, node: Node \cup {Start}, state: WorkflowState]

EventType == {"CONFIG_MODE", "RUN_RESUMED", "NODE_STARTED", "NODE_COMPLETED",
              "RUN_FAILED"}

Event == [by: Proc, type: EventType, node: Node \cup {Start}]

Rows == Candidate \cup Evidence \cup Diagnosis

\* Calls outside any try block: an exception there ends the process.
Unguarded == {"cli_save", "cli_event", "cli_load", "cli_guard", "load", "guard", "seen"}

\* Calls inside the try block of run() or resume().
Guarded == {"init_save", "init_checkpoint", "init_running",
            "resumed", "running", "restore", "enter", "dispatch",
            "persist_run", "persist", "checkpoint", "finish"}

\* Calls of the except block.
Handler == {"save_failed", "emit_failed"}

\* Exit codes 0, 1 and 2, and a process that was killed.
Stopped == {"returned", "raised", "rejected", "dead"}

Active == Unguarded \cup Guarded \cup Handler

PC == {"idle"} \cup Active \cup Stopped

TypeOK ==
    /\ run \in RunRow
    /\ checkpoints \subseteq Checkpoint
    /\ events \in Seq(Event)
    /\ candTable \subseteq Candidate
    /\ evTable \subseteq Evidence
    /\ diagTable \subseteq Diagnosis
    /\ pc \in [Proc -> PC]
    /\ node \in [Proc -> Node \cup {Start}]
    /\ mem \in [Proc -> WorkflowState]
    /\ executed \in [Proc -> SUBSET Node]
    /\ todo \in [Proc -> SUBSET Rows]
    /\ cur \in [Proc -> RunRow]
    /\ crashes \in 0..MaxCrashes
    /\ faults \in 0..MaxFaults

-----------------------------------------------------------------------------
(* Helpers *)

Live(p) == pc[p] \in Active

Goto(p, next) == pc' = [pc EXCEPT ![p] = next]

\* The process ends and its memory is gone.
Exit(p, how) ==
    /\ Goto(p, how)
    /\ node' = [node EXCEPT ![p] = Start]
    /\ mem' = [mem EXCEPT ![p] = InitialState]
    /\ executed' = [executed EXCEPT ![p] = {}]
    /\ todo' = [todo EXCEPT ![p] = {}]
    /\ cur' = [cur EXCEPT ![p] = NoRow]

\* repository.save_run: an upsert of the row, which the engine also remembers.
SaveRun(p, status, route) ==
    /\ run' = [status |-> status, route |-> route]
    /\ cur' = [cur EXCEPT ![p] = [status |-> status, route |-> route]]

\* `state.plan.route.value if state.plan else self._current_run.route_selected`
RouteOf(p) == IF mem[p].plan # NoPlan THEN mem[p].plan.route ELSE cur[p].route

Emit(p, type, n) == events' = Append(events, [by |-> p, type |-> type, node |-> n])

\* repository.save_candidate
Upsert(table, row) == {r \in table : r.id # row.id} \cup {row}

\* A mutant: ORDER BY step_index ASC.
LatestOldest ==
    {c \in checkpoints : \A d \in checkpoints : StepIndex(c.node) =< StepIndex(d.node)}

\* get_latest_checkpoint.  created_at is the writer's clock before the insert,
\* so among rows of the same step any may come first.
Latest ==
    {c \in checkpoints : \A d \in checkpoints : StepIndex(d.node) =< StepIndex(c.node)}

\* A mutant: a failed run may be resumed.
TerminalRowOnlyCompleted(row) == row.status = "COMPLETED"

TerminalRow(row) == row.status \in Terminal

TerminalCheckpoint(n, st) == StepIndex(n) >= 7 \/ st.final \in Terminal

-----------------------------------------------------------------------------
(* agentic-test run: _execute_new_run and the first steps of WorkflowEngine.run *)

CliSaveRun(p) ==
    /\ pc[p] = "cli_save"
    /\ run' = [status |-> "INITIALIZED", route |-> NoRoute]
    /\ Goto(p, "cli_event")
    /\ UNCHANGED <<checkpoints, events, candTable, evTable, diagTable,
                   node, mem, executed, todo, cur, crashes, faults>>

CliEmitConfigMode(p) ==
    /\ pc[p] = "cli_event"
    /\ Emit(p, "CONFIG_MODE", Start)
    /\ Goto(p, "init_save")
    /\ UNCHANGED <<run, checkpoints, candTable, evTable, diagTable,
                   node, mem, executed, todo, cur, crashes, faults>>

InitSaveRun(p) ==
    /\ pc[p] = "init_save"
    /\ SaveRun(p, "INITIALIZED", NoRoute)
    /\ Goto(p, "init_checkpoint")
    /\ UNCHANGED <<checkpoints, events, candTable, evTable, diagTable,
                   node, mem, executed, todo, crashes, faults>>

InitCheckpoint(p) ==
    /\ pc[p] = "init_checkpoint"
    /\ checkpoints' = checkpoints \cup {[by |-> p, node |-> Start, state |-> mem[p]]}
    /\ Goto(p, "init_running")
    /\ UNCHANGED <<run, events, candTable, evTable, diagTable,
                   node, mem, executed, todo, cur, crashes, faults>>

InitRunning(p) ==
    /\ pc[p] = "init_running"
    /\ SaveRun(p, "RUNNING", NoRoute)
    /\ node' = [node EXCEPT ![p] = Ingest]
    /\ Goto(p, "enter")
    /\ UNCHANGED <<checkpoints, events, candTable, evTable, diagTable,
                   mem, executed, todo, crashes, faults>>

-----------------------------------------------------------------------------
(* agentic-test resume: _execute_resume and WorkflowRecoveryService.resume *)

StartResume(p) ==
    /\ p # First
    /\ pc[p] = "idle"
    /\ Goto(p, "cli_load")
    /\ UNCHANGED <<db, node, mem, executed, todo, cur, crashes, faults>>

\* Both loads read the latest checkpoint and reconstruct its state.
LoadCheckpoint(p, next) ==
    /\ \E c \in Latest :
         /\ node' = [node EXCEPT ![p] = c.node]
         /\ mem' = [mem EXCEPT ![p] = c.state]
    /\ Goto(p, next)
    /\ UNCHANGED <<db, executed, todo, cur, crashes, faults>>

Reject(p) ==
    /\ Exit(p, "rejected")
    /\ UNCHANGED <<db, crashes, faults>>

CliLoad(p) ==
    /\ pc[p] = "cli_load"
    /\ LoadCheckpoint(p, "cli_guard")

RejectNoCheckpoint(p) ==
    /\ pc[p] \in {"cli_load", "load"}
    /\ Latest = {}
    /\ Reject(p)

CliGuard(p) ==
    /\ pc[p] = "cli_guard"
    /\ ~TerminalRow(run) /\ ~TerminalCheckpoint(node[p], mem[p])
    /\ Goto(p, "load")
    /\ UNCHANGED <<db, node, mem, executed, todo, cur, crashes, faults>>

\* The mode of the CONFIG_MODE event differs, or the services cannot be created.
CliRejectMode(p) ==
    /\ pc[p] = "cli_guard"
    /\ faults < MaxFaults
    /\ faults' = faults + 1
    /\ Exit(p, "rejected")
    /\ UNCHANGED <<db, crashes>>

Load(p) ==
    /\ pc[p] = "load"
    /\ LoadCheckpoint(p, "guard")

Guard(p) ==
    /\ pc[p] = "guard"
    /\ ~TerminalRow(run) /\ ~TerminalCheckpoint(node[p], mem[p])
    /\ cur' = [cur EXCEPT ![p] = run]
    /\ Goto(p, "seen")
    /\ UNCHANGED <<db, node, mem, executed, todo, crashes, faults>>

\* The same check stands in the command line and in the service.
RejectTerminal(p) ==
    /\ pc[p] \in {"cli_guard", "guard"}
    /\ TerminalRow(run) \/ TerminalCheckpoint(node[p], mem[p])
    /\ Reject(p)

Seen(p) ==
    /\ pc[p] = "seen"
    /\ executed' = [executed EXCEPT ![p] = {c.node : c \in checkpoints} \ {Start}]
    /\ Goto(p, "resumed")
    /\ UNCHANGED <<db, node, mem, todo, cur, crashes, faults>>

EmitRunResumed(p) ==
    /\ pc[p] = "resumed"
    /\ Emit(p, "RUN_RESUMED", node[p])
    /\ Goto(p, "running")
    /\ UNCHANGED <<run, checkpoints, candTable, evTable, diagTable,
                   node, mem, executed, todo, cur, crashes, faults>>

SaveRunning(p) ==
    /\ pc[p] = "running"
    /\ SaveRun(p, "RUNNING", RouteOf(p))
    /\ todo' = [todo EXCEPT ![p] = mem[p].candidates]
    /\ Goto(p, "restore")
    /\ UNCHANGED <<checkpoints, events, candTable, evTable, diagTable,
                   node, mem, executed, crashes, faults>>

RestoreCandidate(p) ==
    /\ pc[p] = "restore"
    /\ \E row \in todo[p] :
         /\ candTable' = Upsert(candTable, row)
         /\ todo' = [todo EXCEPT ![p] = @ \ {row}]
    /\ UNCHANGED <<run, checkpoints, events, evTable, diagTable,
                   pc, node, mem, executed, cur, crashes, faults>>

ResolveResumeNode(p) ==
    /\ pc[p] = "restore"
    /\ todo[p] = {}
    /\ node' = [node EXCEPT ![p] = ResumeNode(StepIndex(node[p]), mem[p])]
    /\ Goto(p, "enter")
    /\ UNCHANGED <<db, mem, executed, todo, cur, crashes, faults>>

-----------------------------------------------------------------------------
(* The dispatch loop, the same in run() and resume() *)

\* The cycle check, and NODE_STARTED.
EnterNode(p) ==
    /\ pc[p] = "enter"
    /\ node[p] \notin executed[p]
    /\ executed' = [executed EXCEPT ![p] = @ \cup {node[p]}]
    /\ Emit(p, "NODE_STARTED", node[p])
    /\ Goto(p, "dispatch")
    /\ UNCHANGED <<run, checkpoints, candTable, evTable, diagTable,
                   node, mem, todo, cur, crashes, faults>>

CycleDetected(p) ==
    /\ pc[p] = "enter"
    /\ node[p] \in executed[p]
    /\ Goto(p, "save_failed")
    /\ UNCHANGED <<db, node, mem, executed, todo, cur, crashes, faults>>

\* The node adapter returns a new state, whose rows are then to be persisted.
Dispatch(p, n, st, next) ==
    /\ pc[p] = "dispatch"
    /\ node[p] = n
    /\ mem' = [mem EXCEPT ![p] = st]
    /\ todo' = [todo EXCEPT ![p] = ArtifactRows(n, st)]
    /\ Goto(p, next)
    /\ UNCHANGED <<db, node, executed, cur, crashes, faults>>

DispatchIngest(p) == Dispatch(p, Ingest, AfterIngest(mem[p]), "persist_run")

DispatchPlan(p) ==
    \E pl \in Plannable : Dispatch(p, Plan, AfterPlan(mem[p], pl), "persist_run")

DispatchGenerate(p) ==
    \E quarantined \in SUBSET mem[p].plan.targets :
        Dispatch(p, Generate, AfterGenerate(mem[p], p, quarantined), "persist")

DispatchValidate(p) ==
    \E sound \in SUBSET {c.id : c \in {d \in mem[p].candidates : d.status = "PENDING"}} :
        Dispatch(p, Validate, AfterValidate(mem[p], sound), "persist")

DispatchExecute(p) ==
    \E failing \in SUBSET ({{}} \cup {{c.id} : c \in PassedCandidates(mem[p])}) :
        Dispatch(p, Execute, AfterExecute(mem[p], p, failing), "persist")

DispatchDiagnose(p) == Dispatch(p, Diagnose, AfterDiagnose(mem[p], p), "persist")

DispatchReport(p) == Dispatch(p, Report, AfterReport(mem[p]), "persist")

\* After ingestion the row keeps its route; after planning it takes the plan's.
PersistRun(p) ==
    /\ pc[p] = "persist_run"
    /\ SaveRun(p, cur[p].status,
               IF node[p] = Plan THEN mem[p].plan.route ELSE cur[p].route)
    /\ Goto(p, "persist")
    /\ UNCHANGED <<checkpoints, events, candTable, evTable, diagTable,
                   node, mem, executed, todo, crashes, faults>>

PersistCandidate(p) ==
    /\ pc[p] = "persist"
    /\ node[p] \in {Generate, Validate}
    /\ \E row \in todo[p] :
         /\ candTable' = Upsert(candTable, row)
         /\ todo' = [todo EXCEPT ![p] = @ \ {row}]
    /\ UNCHANGED <<run, checkpoints, events, evTable, diagTable,
                   pc, node, mem, executed, cur, crashes, faults>>

\* Baseline evidence first.
PersistEvidence(p) ==
    /\ pc[p] = "persist"
    /\ node[p] = Execute
    /\ \E row \in todo[p] :
         /\ row.of = {} \/ \A r \in todo[p] : r.of # {}
         /\ evTable' = evTable \cup {row}
         /\ todo' = [todo EXCEPT ![p] = @ \ {row}]
    /\ UNCHANGED <<run, checkpoints, events, candTable, diagTable,
                   pc, node, mem, executed, cur, crashes, faults>>

PersistDiagnosis(p) ==
    /\ pc[p] = "persist"
    /\ node[p] = Diagnose
    /\ \E row \in todo[p] :
         /\ diagTable' = diagTable \cup {row}
         /\ todo' = [todo EXCEPT ![p] = @ \ {row}]
    /\ UNCHANGED <<run, checkpoints, events, candTable, evTable,
                   pc, node, mem, executed, cur, crashes, faults>>

\* A mutant: the node is complete before its rows are saved.
EmitNodeCompletedEarly(p) ==
    /\ pc[p] = "persist"
    /\ Emit(p, "NODE_COMPLETED", node[p])
    /\ Goto(p, "checkpoint")
    /\ UNCHANGED <<run, checkpoints, candTable, evTable, diagTable,
                   node, mem, executed, todo, cur, crashes, faults>>

EmitNodeCompleted(p) ==
    /\ pc[p] = "persist"
    /\ todo[p] = {}
    /\ Emit(p, "NODE_COMPLETED", node[p])
    /\ Goto(p, "checkpoint")
    /\ UNCHANGED <<run, checkpoints, candTable, evTable, diagTable,
                   node, mem, executed, todo, cur, crashes, faults>>

\* A mutant: no checkpoint after validation.
SaveCheckpointSparse(p) ==
    /\ pc[p] = "checkpoint"
    /\ checkpoints' = checkpoints \cup
           (IF node[p] = Validate THEN {}
            ELSE {[by |-> p, node |-> node[p], state |-> mem[p]]})
    /\ IF node[p] = Report
       THEN Goto(p, "finish") /\ UNCHANGED node
       ELSE /\ node' = [node EXCEPT ![p] = NextNode(node[p], mem[p])]
            /\ Goto(p, "enter")
    /\ UNCHANGED <<run, events, candTable, evTable, diagTable,
                   mem, executed, todo, cur, crashes, faults>>

\* The next node is resolved in memory; the report node has the row to finish.
SaveCheckpoint(p) ==
    /\ pc[p] = "checkpoint"
    /\ checkpoints' = checkpoints \cup {[by |-> p, node |-> node[p], state |-> mem[p]]}
    /\ IF node[p] = Report
       THEN Goto(p, "finish") /\ UNCHANGED node
       ELSE /\ node' = [node EXCEPT ![p] = NextNode(node[p], mem[p])]
            /\ Goto(p, "enter")
    /\ UNCHANGED <<run, events, candTable, evTable, diagTable,
                   mem, executed, todo, cur, crashes, faults>>

\* A mutant: the process returns and its run stays RUNNING.
FinishUnsaved(p) ==
    /\ pc[p] = "finish"
    /\ Exit(p, "returned")
    /\ UNCHANGED <<db, crashes, faults>>

Finish(p) ==
    /\ pc[p] = "finish"
    /\ run' = [status |-> "COMPLETED", route |-> RouteOf(p)]
    /\ Exit(p, "returned")
    /\ UNCHANGED <<checkpoints, events, candTable, evTable, diagTable, crashes, faults>>

-----------------------------------------------------------------------------
(* Exceptions and crashes *)

\* A mutant: the test of _current_run is inverted.
HandlerEntryInverted(p) == IF cur[p] # NoRow THEN "emit_failed" ELSE "save_failed"

\* Before the engine's first save_run has returned there is no _current_run to
\* mark as failed.
HandlerEntry(p) == IF cur[p] = NoRow THEN "emit_failed" ELSE "save_failed"

\* A call of the try block raises before its commit.
Raise(p) ==
    /\ pc[p] \in Guarded
    /\ faults < MaxFaults
    /\ faults' = faults + 1
    /\ Goto(p, HandlerEntry(p))
    /\ todo' = [todo EXCEPT ![p] = {}]
    /\ UNCHANGED <<db, node, mem, executed, cur, crashes>>

\* A call outside the try block, or of the except block itself, raises.
RaiseUncaught(p) ==
    /\ pc[p] \in Unguarded \cup Handler
    /\ faults < MaxFaults
    /\ faults' = faults + 1
    /\ Exit(p, "raised")
    /\ UNCHANGED <<db, crashes>>

SaveFailed(p) ==
    /\ pc[p] = "save_failed"
    /\ SaveRun(p, "FAILED", RouteOf(p))
    /\ Goto(p, "emit_failed")
    /\ UNCHANGED <<checkpoints, events, candTable, evTable, diagTable,
                   node, mem, executed, todo, crashes, faults>>

EmitRunFailed(p) ==
    /\ pc[p] = "emit_failed"
    /\ Emit(p, "RUN_FAILED", node[p])
    /\ Exit(p, "raised")
    /\ UNCHANGED <<run, checkpoints, candTable, evTable, diagTable, crashes, faults>>

\* The process is killed (or interrupted: the except blocks catch Exception only).
Crash(p) ==
    /\ Live(p)
    /\ crashes < MaxCrashes
    /\ crashes' = crashes + 1
    /\ Exit(p, "dead")
    /\ UNCHANGED <<db, faults>>

-----------------------------------------------------------------------------
(* Specifications *)

Init ==
    /\ run = NoRow
    /\ checkpoints = {}
    /\ events = <<>>
    /\ candTable = {} /\ evTable = {} /\ diagTable = {}
    /\ pc = [p \in Proc |-> IF p = First THEN "cli_save" ELSE "idle"]
    /\ node = [p \in Proc |-> Start]
    /\ mem = [p \in Proc |-> InitialState]
    /\ executed = [p \in Proc |-> {}]
    /\ todo = [p \in Proc |-> {}]
    /\ cur = [p \in Proc |-> NoRow]
    /\ crashes = 0 /\ faults = 0

NewRun(p) ==
    \/ CliSaveRun(p) \/ CliEmitConfigMode(p)
    \/ InitSaveRun(p) \/ InitCheckpoint(p) \/ InitRunning(p)

Recover(p) ==
    \/ CliLoad(p) \/ RejectNoCheckpoint(p) \/ CliGuard(p) \/ Load(p) \/ Guard(p)
    \/ RejectTerminal(p) \/ Seen(p) \/ EmitRunResumed(p) \/ SaveRunning(p)
    \/ RestoreCandidate(p) \/ ResolveResumeNode(p)

RunNode(p) ==
    \/ DispatchIngest(p) \/ DispatchPlan(p) \/ DispatchGenerate(p) \/ DispatchValidate(p)
    \/ DispatchExecute(p) \/ DispatchDiagnose(p) \/ DispatchReport(p)

Loop(p) ==
    \/ EnterNode(p) \/ CycleDetected(p) \/ RunNode(p) \/ PersistRun(p)
    \/ PersistCandidate(p) \/ PersistEvidence(p) \/ PersistDiagnosis(p)
    \/ EmitNodeCompleted(p) \/ SaveCheckpoint(p) \/ Finish(p)

\* What the program does by itself.
Step(p) == NewRun(p) \/ Recover(p) \/ Loop(p) \/ SaveFailed(p) \/ EmitRunFailed(p)

\* What befalls it.
Interrupt(p) == CliRejectMode(p) \/ Raise(p) \/ RaiseUncaught(p) \/ Crash(p)

\* Nothing is running.  A process that has started never waits for another.
Quiet ==
    /\ \A p \in Proc : ~Live(p)
    /\ UNCHANGED vars

\* Nothing in the code keeps an operator from resuming a run that is still being
\* executed: there is no lock, and no check of the process that holds the run.
Next ==
    \/ \E p \in Proc : StartResume(p) \/ Step(p) \/ Interrupt(p)
    \/ Quiet

Spec == Init /\ [][Next]_vars

\* Resumption as the command is meant: of a run whose process has ended.
SerialResume == (\A q \in Proc : ~Live(q)) /\ \E p \in Proc : StartResume(p)

SerialNext ==
    \/ SerialResume
    \/ \E p \in Proc : Step(p) \/ Interrupt(p)
    \/ Quiet

SerialSpec == Init /\ [][SerialNext]_vars

\* The same, with the processes that resume taken in one order: which of those that
\* have not started comes next makes no difference, since nothing but First tells
\* processes apart.
Unstarted == {p \in Proc : p # First /\ pc[p] = "idle"}

ResumeInOrder ==
    /\ \A q \in Proc : ~Live(q)
    /\ \E p \in Unstarted :
        /\ p = CHOOSE q \in Unstarted : TRUE
        /\ StartResume(p)

OrderedNext ==
    \/ ResumeInOrder
    \/ \E p \in Proc : Step(p) \/ Interrupt(p)
    \/ Quiet

OrderedSpec == Init /\ [][OrderedNext]_vars

\* A process that is not interrupted goes on: it is one thread, and the calls it
\* makes return (model calls and containers have timeouts).  The operator goes on
\* resuming.
FairSpec ==
    /\ OrderedSpec
    /\ \A p \in Proc : WF_vars(Step(p))
    /\ WF_vars(ResumeInOrder)

=============================================================================
