# Verification of agentic-test

TLA+ models of the agentic test system in `src/agentic_test`, the TLC runs that
check them and the TLAPS proofs about them. Paths below are relative to
`src/agentic_test` in the repository unless they start with `docs/` or `tests/`.

## 1. The system

`agentic-test run` takes a git repository, analyses the change, plans which
tests to run or to generate, generates them with a language model, validates
them, executes them in a container, diagnoses the failures and reports. Every
step is recorded in a SQLite file, from which `agentic-test resume` continues a
run that was interrupted. One process executes one command and is
single-threaded, except for the worker thread of a container command; what is
concurrent is processes over the same database, a crash at any point, the
container, and the model provider.

| Component | State it keeps | Operations | Talks to |
|---|---|---|---|
| Workflow engine (`workflow/engine.py`) | `_current_run`, current node, executed nodes, `WorkflowState` | `run`, `_dispatch_node`, `_persist_node_artifacts`, `_resolve_next_node` | node adapters, repository, event store |
| Node adapters, routers (`workflow/nodes.py`, `edges.py`) | none: they map a state to a state | seven adapters, three routers | the services |
| Recovery (`workflow/recovery.py`) | as the engine, rebuilt from a checkpoint | `resume`, `_resolve_resume_node` | repository, engine |
| Storage (`storage/`) | tables `runs`, `checkpoints`, `events` and the artifacts | one transaction per call: `save_*`, `get_*`, `emit_event` | SQLite |
| Command line (`cli/app.py`) | none | `run`, `resume` | factory, storage, engine, recovery |
| Workflow state (`core/state.py`, `core/models.py`) | immutable records | construction, legacy migration | all |
| Planner (`planning/`) | none | `plan`, `evaluate_precedence_rules` | analysis snapshot, test discovery |
| Generation (`generation/service.py`) | repair count of the symbol at hand | `generate` | LLM gateway |
| LLM gateway (`generation/litellm_service.py`) | requests counted against the run's budget | `generate_structured` | provider |
| Validation (`validation/`) | none; a directory and a container per candidate | syntax, security and collection gates | sandbox, staging |
| Execution (`execution/service.py`) | settings of the evidence it produced | `execute`, `execute_candidates`, `execute_regression_baseline` | staging, sandbox, source tree |
| Sandbox (`execution/docker_sandbox.py`, `mock_sandbox.py`) | active containers and their timeouts | create, execute, clean up | Docker daemon, worker thread |
| Staging (`execution/staging.py`) | staged files by candidate and by path | stage, clean up | host file system |
| Diagnosis (`diagnosis/`) | none | rule engine, then LLM engine | LLM gateway |
| Analysis (`analysis/`) | none | `analyze`, `compute_diff`, `resolve_affected_symbols`, `analyze_associations` | git, files |
| Service factory (`cli/service_factory.py`) | none | wiring of the services, live or offline | all |

What makes each part hard, and what would make it correct:

* **Engine, recovery, storage.** Every repository call commits by itself, so a
  crash can fall between any two: after some of a node's rows, between
  NODE_COMPLETED and the checkpoint, between the last checkpoint and the row's
  COMPLETED. Any call may raise, also inside the `except` block. Nothing keeps
  an operator from resuming a run that is still being executed. Correct means:
  the tables never contradict a checkpoint, checkpoints follow the graph's
  order and lose nothing, a finished run stays finished, a failure that is
  announced is recorded, an interruption costs little, and the run ends.
* **Generation and LLM gateway.** Two nested retry loops (repairs, transport
  attempts) share one request budget with diagnosis. Correct means: the budget
  is never exceeded, repairs are bounded, each symbol gets exactly one
  candidate, an exhausted one is quarantined.
* **Execution, sandbox, staging.** Cleanup on every path, integrity of the
  source tree on every path, a timeout that races the worker thread. Correct
  means: no container and no staged file survives an execution, no evidence
  exists of a tree that changed, only candidates that passed are executed.
* **Validation.** Cascading gates, of which the last one writes code to disk and
  starts a container for each candidate. Correct means: a status is that of the
  first gate that refuses; nothing a static gate refuses is written or run; no
  failure of Docker or of the disk costs the other candidates their verdicts, and
  nothing outlives the node but what a failed cleanup call leaves.
* **Analysis, planner.** The line numbers of git, of Python's parser and of a run
  of deleted lines meet; files are read again after the diff; associations of tests
  with functions are guessed from imports. Correct means: what was changed reaches
  the plan, exactly once and under its name, and the model is asked only for what no
  test covers.
* **Diagnosis.** The deterministic engine has the last word on its categories.

`PROJECT.json` lists every hazard at its line.

## 2. Plan

1. **Run lifecycle** (done): `WorkflowData`, `Workflow`, `WorkflowProperties`,
   the abstract `RunLifecycle`, `MCWorkflow`, `WorkflowProofs`.
2. **Cognition** (done): the repair loop of generation and the diagnosis
   cascade over one gateway, its attempts and its budget: `Cognition`,
   `CognitionProofs`.
3. **Execution** (done): the sessions of the execution node with container,
   worker thread, source tree, directories and settings registry: `Execution`,
   `ExecutionProofs`.
4. **Analysis and planning** (done): the diff, its intersection with the symbols,
   the reconciliation with the base version and the precedence rules: `Analysis`,
   `PlanningRules`, `AnalysisProofs`; which tests exercise a symbol: `Discovery`,
   `DiscoveryProofs`.
5. **Validation** (done): the gates, with the area and the container of the third:
   `Validation`, `ValidationProofs`.
6. **Proofs** (done): every safety and action property that a run checks, and the
   refinement of `RunLifecycle`, are theorems: `WorkflowProofs` and `ReportProofs` for
   any overlap of processes, `SerialProofs` for processes that follow one another, and
   one module for each of the other components. Liveness stays with TLC.

How the modules are composed: `Analysis` takes `PlanningRules` and shows that its
plans are those `WorkflowData` assumes (`PlanIsPlannable`); `Discovery` decides what
`Analysis` takes as `TestContents`, by the same `StaticallyAssociated`; `Validation` shows
that the node does to the candidates what `WorkflowData!AfterValidate` does
(`NodeIsAfterValidate`); `Workflow` implements `RunLifecycle` (`ImplementsLifecycle`).

## 3. The modules of the run lifecycle

`WorkflowData` holds what is immutable: the node names and step indices, the
`WorkflowState`, the adapters (`AfterIngest` ... `AfterReport`), the routers and
the two tables that use them (`NextNode` while running, `ResumeNode` after a
restart), and the rows each node adds to the tables (`ArtifactRows`).

`Workflow` is the state machine. A *process* is one invocation of the program:
`First` runs `agentic-test run`, every other process `agentic-test resume`. The
database variables are shared; `pc`, `node`, `mem`, `executed`, `todo` and `cur`
are a process's memory and vanish with it. The rule for atomicity is the code's:
one repository or event-store call is one transaction and one action; what the
process computes between two of them belongs to the action before.

| Action | Code |
|---|---|
| `CliSaveRun`, `CliEmitConfigMode` | `_execute_new_run` up to the engine |
| `InitSaveRun`, `InitCheckpoint`, `InitRunning` | first steps of `WorkflowEngine.run` |
| `StartResume`, `CliLoad`, `CliGuard`, `CliRejectMode` | `_execute_resume` |
| `Load`, `Guard`, `RejectNoCheckpoint`, `RejectTerminal`, `Seen` | reads and checks of `resume` |
| `EmitRunResumed`, `SaveRunning`, `RestoreCandidate`, `ResolveResumeNode` | its writes before the loop |
| `EnterNode`, `CycleDetected` | head of the loop, NODE_STARTED |
| `DispatchIngest` ... `DispatchReport` | `_dispatch_node` |
| `PersistRun`, `PersistCandidate`, `PersistEvidence`, `PersistDiagnosis` | `_persist_node_artifacts`, row by row |
| `EmitNodeCompleted`, `SaveCheckpoint`, `Finish` | rest of the loop body |
| `Raise`, `RaiseUncaught` | a call that raises inside, or outside, the `try` |
| `SaveFailed`, `EmitRunFailed` | the `except` block |
| `Crash` | the process is killed, or interrupted with Ctrl-C |

Abstractions: symbols, plans, candidates, evidence and diagnoses keep only what
routing, persistence and the properties tell apart; the outcome of a service is
chosen freely; the three rejected statuses are one; a uuid is the process that
drew it, since within a process every node runs at most once (the cycle check
and `executed` make it so); rows of one node are saved in any order; columns no
property is about are dropped. A foreign-key failure is not an action: that the
keys are never violated is `ReferentialIntegrity`.

`RunLifecycle` is the abstract specification: a row status and the set of steps
reached, as an uninterrupted run moves them. `WorkflowProperties` states the
properties and the refinement mapping. `MCWorkflow` adds a view for
TLC.

### The modules of generation and diagnosis

`Cognition` models the two stages of a run that call the model. The gateway is
one object, as the live mode wires it: generation and diagnosis spend the same
`total`. A subject (a symbol, or the evidence of a failure) takes its turn:
`BeginSymbol` or `DiagnoseByModel` makes the call, `Dispatch` counts an attempt
against the budget and sends it, the provider answers with one of
`TransportError`, `Rejected`, `BrokenSyntax`, `Synthesized` or `Classified`, and
`CallFails` is what a call that raises means to its caller: a repair or
quarantine in generation, the LLM_FAILURE fallback in diagnosis. `Restart` is a
crash and a resumption: new services, hence a new budget, and the stage over
again.

Abstractions: prompts and answers keep only what the code branches on; which of
the deterministic verdicts, if any, the rules' regular expressions reach is
chosen when the stage begins; the order of a stage's subjects is free; whether
the privacy gate lets a process ask (`permitted`) is chosen per process, closed
being the gateway's default and open what the live mode configures. `asked`,
`sent` and `earlier` are history: what the provider received. A diagnosis or
candidate also keeps how many requests it took.

### The module of the execution node

`Execution` models `execute_sandbox_node` down to the calls of Docker. A session
is one call of `execute`: `RecordHash`, `Stage`, `CreateContainer`,
`StartContainer`, `StartWorker`, `JoinReturns`, then `Completed`, `WorkerRaised`
or `TimedOut` with `Kill`, then `Cleanup`, `Parse`, the verdict
(`SourceModified`, `OperationFailed` or `PackageEvidence`) and `Teardown`. `pc`
names the place in the code; each call that can fail or be overtaken by another
actor is a step. The other actors are the worker thread (`WorkerEnds`, at any
time or never), somebody who edits the sources (`Edit`) and the user who presses
Ctrl-C (`Interrupt`), which skips every `except Exception` and runs only the
`finally` clauses.

Abstractions: the sources are two contents, that of the files the tree hash covers and
that of those it skips (excluded paths, unreadable files), and the hash is the first of
them; an edit changes either or both, and may restore what was there before. The hash is
taken in one step. A `containers.create` that raises may have made the container
(`CreateUnanswered`). A result keeps its exit code, a coverage report whether it is valid; the order of candidates is
free; the exit code is all that is kept of pytest's report. `seen`, `undone`, `left` and
`stopped` are history: which versions the running container could read, whether an edit
was undone, what outlived its session, where Ctrl-C fell. `cleanup` raises nothing after a
container was created, so the branch of `execute` for that is absent. A killed
process, which leaves everything behind, is not modelled here; `Workflow` has it.

### The modules of analysis and planning

`Analysis` follows one changed file from the diff to the plan. The file and its
change are one sequence, the edit script: each line is kept, deleted or added and is a
function's header, an indented line, an indented line that starts a nested definition
(`def`, `class` or `@`, which `_extract_hunk_changes` treats differently), a blank line or
anything else. The two versions
are the lines that are not added and those that are not deleted.

| Action | Code |
|---|---|
| `ComputeDiff` | `AnalysisService.analyze` up to the hunks; git may fail |
| `ContextLine`, `AddedLine`, `DeletedLine`, `EndOfHunks` | the loop of `_extract_hunk_changes`, line by line |
| `Parse` | the files are read and parsed, `resolve_affected_symbols` |
| `ReconcileDeleted` | the base version is read, symbols that are gone |
| `PlanExecution` | `ExecutionPlanner.plan` with `evaluate_precedence_rules` |
| `Edit` | somebody inserts a line after the diff was taken |

`Twin` is a function of another file whose path is a suffix of the changed one's,
which `_paths_match` takes for the same. Abstractions: symbols are top-level functions
(a class is a line like others, a nested definition one line of a body); the hunks of the file are read as one, since a line
between two hunks and a line of context do the same to `curr_new_line`; an edit in
between adds a line at the top, the edit that shifts everything; test files hold any of
the sets of references in `TestContents`.

`PlanningRules` holds `evaluate_precedence_rules` and what counts as association as
pure operators, used by both `Analysis` and `Discovery`.

`Discovery` models `analyze_associations` for one test file, which the model writes
line by line (`Write`): imports, rebindings, calls and patches, at the top of the file or
in one of two tests. `BuildImportMap`, `DetectMocks`, `InspectCallsAndReferences` and
`Associate` are the four stages of the code. What Python would do (`Meant`) is stated
separately, by its scopes, and compared for the files (`Plain`) in which each name has one
meaning and a module is reached by the path it was imported by, or through its one part or
its alias: the code does not resolve `import src.ops` with `src.other.f()`, nor the argument
`a.ops` of `setattr` after `import src as a`. Abstractions: targets are functions; a file's
line has one call; `with`, decorator and `mocker` patches are one.

### The module of candidate validation

`Validation` is `validate_candidates_node`, candidate by candidate: `Begin`,
`Quarantined`, `SyntaxGate`, `SecurityGate`, then, if the pipeline has a collection gate
(`gate3`), the calls of `CollectionValidator.validate`: `CreateDirectory`, `MarkArea`,
`StageForCollection`, `CreateContainer`, `StartContainer`, `Collect`, the `finally` clause
(`CleanupContainer`, `RemoveDirectory`) and the verdict (`CollectionGate`). A call may raise
at each of them; `Interrupt` is Ctrl-C anywhere, which runs the `finally` clause only.
Abstractions: a candidate's code has defects or not, among them nesting that exceeds the
recursion of `ast.NodeVisitor`, which the security gate does not catch (all verdicts are
lost then, see `Abort`); a call that creates a container may fail after the daemon made it; a result keeps its
exit code and whether its output names a test. `collected`, `left` and `stopped` are history.
The offline mode's pipeline has a collection gate over the in-memory sandbox, the live
mode's has none (`cli/service_factory.py:105` and `131`); both are initial states.

## 4. The runs

| Run | Specification and bounds | Shows |
|---|---|---|
| `serial` | `FairSpec`, three processes, two symbols, one crash, one raising call | types, `CompletedIsReported`, `FailureRecorded`, `NoSpuriousCycle`, `ExecutedWerePassed`, `BoundedRework`, `CheckpointPersisted`, `TerminalIsFinal`, `ImplementsLifecycle`, `EventuallySettled` |
| `overlap` | `Spec`, two processes, one symbol, one crash, one raising call | `ReferentialIntegrity`, `CheckpointPath`, `ReportComplete` with a resume that overlaps the run |
| `completed_once` (violation) | `SerialSpec`, two processes, one crash | a completed step is executed again |
| `recovery` (violation) | `FairSpec`, two processes, one crash | a run stays RUNNING for ever |
| `cognition` | `Cognition!FairSpec`, two symbols, five requests, one retry, one repair, one restart | types, `BudgetRespected`, `CostBounded`, `QuarantineHasCause`, `DiagnosisSound`, `EventuallyAnswered` |
| `refusal` (violation) | `Spec`, one symbol, one repair | a symbol the model refused is asked for again |
| `execution` | `Execution!FairSpec`, one candidate and the existing tests (or either of them), two edits, one raising call, one call that leaves something behind, one Ctrl-C | types, `IntegrityDecides`, `NothingLeaks`, `DeltasConsistent`, `EventuallyEnds` |
| `uncollected` (violation) | one candidate, no fault | PASSED without a collection gate |
| `validation` | two candidates, with and without a collection gate, two raising calls, one failed cleanup, one Ctrl-C | types, `VerdictsFollowGates`, `OnlyScreenedStaged`, `NothingLeaks`, `AbortLeavesNothing`, `NodeIsAfterValidate` |
| `analysis` | edit scripts of up to four lines over two functions and a twin, one line of context, one edit in between, two test files | types, `HunksExact`, `AffectedExact`, `DeletedExact`, `ChangeIsPlanned`, `PlanJustified`, `PlanIsPlannable` |
| `modified` (violation) | scripts of up to three lines, three lines of context, as in the code | a function that lost its end is not affected |
| `discovery` | test files of up to three lines, one or two target functions of one name | `AssociationsExact`, `NeverByNameAlone`, `Independent` |

*Bounds.* `MaxCrashes` and `MaxFaults` cap how often a process is killed and how
often a call raises or a resume is rejected. Two interruptions, each at any
commit, reach every pair of a place where the first process stops and a place
where its successor stops; three processes leave one to finish. Two symbols let
candidates of one run differ in fate (one quarantined, one passed; one passing
its test, one failing) and make a node's rows be saved in part. Overlap needs
one symbol: the states multiply, and what it is about, two processes at
different nodes, does not depend on the number of candidates. The view of
`overlap` drops the event log, which no action reads and no
property of that run mentions. Which process resumes next makes no difference, so
`FairSpec` takes them in one order (`OrderedSpec`) instead of a symmetry set, which would
not be sound where a liveness property is checked; `OrderedIsSerial` proves that this only
leaves runs of `SerialSpec` out. 377 084 distinct states.

In `cognition` five requests, the cap the code sets, are more than one symbol's
worst case (two rounds of two attempts) and fewer than that of the whole run (two
symbols and three diagnoses), so the budget runs out in either stage, in the
first and in a later attempt. The two repairs of the code are not needed there:
a first, a last and no repair occur. The proofs hold for all values.

In `execution` the existing tests and a candidate are the two sessions that can inherit
something from one another; two edits let one be undone, within a session or across both;
two contents are enough for a file to be the same or not; one error and one failed cleanup,
with Ctrl-C, meet at any two places of one or of both sessions (2.0 million distinct
states). The proofs hold for any number of candidates.

In `validation` two candidates let the second one inherit what the first one left; two
errors and a failed cleanup meet in one candidate (a container that does not start and
cannot be removed) or in both. The run has 82 002 distinct states.

In `analysis` four lines are the shortest scripts in which a run of deleted lines ends
one function and is followed by another, a function is replaced by another one, or a
change touches two functions; with one line of context, hunks and functions differ.
2.2 million distinct states. The shortest counterexample to `ModifiedAreAffected` is a
header that stays and its nested definition deleted; one with three lines loses a body and
the next function's header.

In `discovery` three lines are an import, something that rebinds, shadows or patches, and
a call; two modules with the same last name make suffixes ambiguous. 2.6 million distinct
states.

*Deadlock* is checked in all passing runs but `analysis`, whose runs end when there is a
plan (a script of the sequential node has nothing to wait for). `Quiet` lets a run in which nothing executes
stutter; whenever a process is live some action of it must be enabled, which is
what the deadlock check then says.

*Fairness.* `FairSpec` assumes weak fairness of each process's own steps: a
process is one thread, its database calls return, model calls and containers
have timeouts. It assumes nothing of crashes and faults. It assumes that the
operator goes on resuming a run when no process executes it (`ResumeInOrder`),
which is the procedure the recovery contract is written for.

`Cognition!FairSpec` assumes that the one thread goes on and that a request ends,
at the latest by the timeout the gateway passes; which answer it gets is never
assumed.

`Execution!FairSpec` assumes that the program's thread goes on: Docker's calls
return or raise (the client has its own timeout), and `join` returns at the latest
by its timeout. It assumes nothing of the worker thread.

`SerialSpec` is used where the property needs the processes of a run to follow
one another. That they do is an assumption on the operator, not something the
code enforces: nothing keeps a resume from overlapping the run it resumes, and both then
save checkpoints for the same steps. Under overlap, and already without a crash or an
error, TLC finds counterexamples to `CompletedIsReported`, `FailureRecorded`,
`NoSpuriousCycle`, `ExecutedWerePassed`, `CheckpointPersisted`, `TerminalIsFinal` and
`ImplementsLifecycle`; none of them is claimed there. `TypeOK` is proved of `Spec`; whether
`BoundedRework` holds under overlap is open (no counterexample among the first 17 million
states). In particular the two queries of `resume` (workflow/recovery.py:122) are harmless
only because processes follow one another.

### Disagreements found

The first two, the refusal, the collection and the modified function are violation runs; the
others show in what the properties named with them exclude.

* *Completed steps run again.* Contract item 6 of `resume` (recovery.py:95) says
  completed steps are not executed again. NODE_COMPLETED is committed before the
  checkpoint; a crash between the two repeats the node. `BoundedRework` says how
  much is repeated: one node per interruption.
* *A snapshot at every node boundary does not guarantee recovery.* After the
  report's checkpoint and before COMPLETED, a crash strands the run: the row says
  RUNNING and every resume is rejected because the checkpoint is terminal
  (recovery.py:113). `EventuallySettled` holds of every other place, except the
  moment before the first checkpoint: a run ends COMPLETED or FAILED for good, or all its
  processes were cut off or turned away, the row unfinished, at one of these two places
  (`Stranded`). A process that returns with the row unfinished violates it.
* *The budget is the process's.* `RunBudgetTracker` calls itself run-scoped
  (generation/litellm_service.py:31); a resumed run starts with a full budget.
  `BudgetRespected` says what a run may cost: one budget for each process.
* *A refusal is retried.* "Refusal is a non-repairable terminal abort"
  (generation/litellm_service.py:268), but the repair loop catches it with the repairable
  errors (generation/service.py:135) and asks again. `QuarantineHasCause` therefore says
  nothing of a symbol that was refused.
* *An edit that is undone goes unnoticed.* `_verify_source_integrity` "Verifies that
  source_root files were not modified during execution" (execution/service.py:683); it
  compares two hashes, and neither an edit that is undone between them nor one of a file
  the hash skips shows. `IntegrityDecides` says what the two hashes do guarantee: unless an
  edit was undone, the container read nothing but sources with the recorded hash.
* *PASSED does not mean collected.* ValidationPipeline's docstring says it does
  (validation/pipeline.py:27-30); in the live wiring, without a collection gate
  (cli/service_factory.py:131), the static gates alone pass a candidate.
  `VerdictsFollowGates` is about the gates the pipeline has.
* *Two paths that match are not one file.* `_paths_match` (analysis/ast_analyzer.py:346)
  takes a path for every other that ends with it, so that functions of unchanged files
  are affected. `Twin` is one in the model; `AffectedExact` is about the others.
* *A snapshot is not of one moment.* `docs/specifications/draft_stage2.md:495` calls it an
  immutable point-in-time capture; the files are read after the diff (analysis/service.py:100),
  and an edit in between (`Edit`) leaves symbols that do not fit the hunks: a function that
  gained a line need not be affected. `AffectedExact` and `ChangeIsPlanned` are about runs
  without such an edit.
* *Modified but not affected.* A run of deleted lines is judged as a whole, by
  indentation and first words (analysis/ast_analyzer.py:236). If it starts a nested
  definition, or holds the end of one function and the header of the next, the function
  that lost its end is neither affected nor deleted, and no test is generated or run for
  it. `AffectedExact` says what the code does find.

## 5. The proofs

All theorems hold for every value of the constants that satisfies the module's named
assumption, which TLC evaluates in every run. `PROJECT.json` lists them with the
property each of them states.

### The run lifecycle, however processes overlap

`WorkflowProofs` proves, for every set of processes and symbols and every bound:

* `TypeCorrect`: `Spec => []TypeOK`;
* `ForeignKeysHold`: `Spec => []ReferentialIntegrity`;
* `CheckpointsContinue`: `Spec => []CheckpointPath`;
* `SerialIsSpec`: `SerialSpec => Spec`, so all three hold of serial runs too;
* `OrderedIsSerial`: `OrderedSpec => SerialSpec`, the runs TLC explores in `serial`.

The only assumption is `WorkflowAssumption` (the first process is a process, the
bounds are naturals), which TLC evaluates in every run.

None of the three is inductive. `CheckpointPath` speaks of checkpoints only,
but a checkpoint is written from a process's memory, several commits after that
memory was loaded. The inductive invariant `IInv` adds, for each process and by
its program counter, how its memory relates to the tables: `Fresh` (before its
first checkpoint the state is the initial one), `Loaded` (a resuming process
holds a checkpoint's state and node), `Entering` (the node about to start
succeeds a checkpoint whose state it holds), `Dispatched` (the state is that
checkpoint's with one node's work added) and `Persisting` (the rows not yet in the
tables are exactly `todo`). `CheckpointsSound` says the same of the states in
the checkpoints: their artifacts are closed under the foreign keys. The
argument has three parts: lemmas on the adapters (`AfterIngestOK` ...), which
say what one node adds to a state; a frame lemma, which says that the steps of
other processes only add to tables and checkpoints and so keep `Local`; and one
step per action. `IInv` was checked with TLC on the instance of `overlap` before
it was proved.

`ReportProofs` proves, for the same specification:

* `ReportsComplete`: `Spec => []ReportComplete`.

A report is complete only because each node before it was: `RInv` says of every
checkpoint, by its node, what its state must be made of (`WellMade`: ids of candidates
are unique; after execution each passed candidate has one evidence and evidence is only of
those; after diagnosis each failed evidence has one diagnosis), and the same of the memory
of a process that has dispatched a node (`StateMade`). What makes it inductive is that a
node is dispatched on the state of a checkpoint of its predecessor (`Entering`, from
`IInv`), so that however processes interleave, each state is made by one sequence of
adapters. `ExecutedOnce` is stated by sets (`= {e}`); cardinalities come in at the end.

### The run lifecycle, when processes follow one another

`SerialProofs` proves the properties of the run `serial`, for any number of processes,
symbols, crashes and errors:

* `FinishedStays`: `SerialSpec => TerminalIsFinal`;
* `FailuresRecorded`: `SerialSpec => []FailureRecorded`;
* `CycleCheckSilent`: `SerialSpec => []NoSpuriousCycle`;
* `ImplementsRunLifecycle`: `SerialSpec => ImplementsLifecycle`;
* `ReworkBounded`: `SerialSpec => []BoundedRework`;
* `NeverAheadOfTables`: `SerialSpec => CheckpointPersisted`;
* `CompletionReported`: `SerialSpec => []CompletedIsReported`;
* `ExecutedHavePassed`: `SerialSpec => []ExecutedWerePassed`.

Each of them relates what one process left in the row, the log or the tables to what
the next one finds. The inductive invariant has three layers on top of `IInv` and `RInv`:

* `SInv`: at most one process is live (`Alone`), and for it, by its program counter
  (`Place`), what the row says (`RowAt`), that the row it remembers is the one in the
  table (`Remembered`), that its memory is tied to the *latest* checkpoint, where `IInv` only
  knows some checkpoint (`AtLatest`), and which nodes it may have executed
  (`ExecutedAt`). `RowSound` says what holds when no process is live: a row INITIALIZED has
  no step behind it, a failure is announced only with the row FAILED, and a step index
  has one checkpoint, so that *latest* means one.
* `ReworkInv`: the number of NODE_STARTED events is at most that of checkpoints,
  crashes and errors, plus one if a node is in progress. The property counts live
  processes; what is inductive counts a node from NODE_STARTED to its checkpoint.
* `TInv`: what the tables hold of the memory at each place (`PersistedAt`), the
  diagnoses of every checkpoint, and that evidence is of candidates the latest
  checkpoint knows as passed (`EvidenceAtLatest`). The last is needed because a resume
  writes the candidates of a checkpoint again (`RestoreCandidate`): it could take back a
  status, were the checkpoint not at least as recent as the evidence.

The refinement is proved step by step: the initial states map to `RunLifecycle`'s, and
each action of a process maps to one of its actions or leaves the mapped row and steps
alone. Which it is depends on `Place`: `SaveCheckpoint` is the next step of the
abstract run only because the node at hand succeeds the latest checkpoint. `SInv`,
`ReworkInv` and `TInv` were checked with TLC on instances of three processes, one and two
symbols, one crash and one error before they were proved.

### Generation and diagnosis, execution, analysis, discovery, validation

`CognitionProofs` proves all five invariants of the run `cognition` for every
set of symbols and all bounds, from `CognitionAssumption` (the bounds are
naturals, the budget at least one). Types are a lemma of their own. The rest
rests on an invariant of the process's counters: the requests of the process
never exceed those counted against its budget; those of the task at hand are
bounded by the rounds finished times the attempts of a round, plus the attempts of
this one; in a round of generation that failed before, every round so far has
taken a request unless the budget is used up or the gate is closed. Each is what makes the
next property inductive: an answer copies `asked` and `repairs` into its record. What the
processes before sent is a second invariant (`Earlier`): only a restart adds to it.

`ExecutionProofs` proves the four invariants of the run `execution` for any
candidates, any contents of the sources and any number of edits, exceptions and failed
calls, from `ExecutionAssumption` (the session of the existing tests is no candidate; the
original content is a content; the bounds are naturals). `Shape` holds the types and what is known at each place of
`execute`: a container is known exactly while a cleanup of it is due, an outcome
is decided only on the way out. On it rest three parts that do not need each
other:

* for `IntegrityDecides`, `Readable`: as long as no edit was undone, sources that hash as
  recorded are sources the container has always found so. An edit that leaves the recorded
  hash makes the premise false, and only one that `undone` remembers makes it true again;
* for `DeltasConsistent`, `Ordered` (no candidate has evidence while the existing
  tests are still to come) and `Registered` (their settings stay registered as long as
  the node runs);
* for `NothingLeaks`, `Paid`: what was left behind, plus the container the session at
  hand could not remove (`Owed`), is at most the number of failed calls. Leaving the
  session turns what it owes into what is left, by the cardinality theorems of the library.

The conjunction is `IInv` (`ExecutionSafe`).

`AnalysisProofs` proves, for any functions, test files and lengths of the script and any
number of edits, from `AnalysisAssumption` (the twin is no function of the file, a name is no other kind of
line, evidence consists of references, the bounds are naturals):

* `HunksAreExact`: `ReadOK` is the loop invariant of `_extract_hunk_changes`. With the
  lines before `pos` read, `curr` is the number of the next new line, `added` and
  `boundaries` are what they should be of the lines read, except for the run of deleted
  lines that has not ended, and `run` is that run. The property does not speak of
  indentation but of where deleted lines were in the base version (`LostBody`);
  `IndentationTells` shows that in a file that parses the code's `Indented` tells
  just that. Cardinalities of initial segments, from
  the library's theorems on finite sets, count the lines.
* `DeletedAreExact`: a function that is gone has a header that was deleted, hence a line
  that a hunk holds, however few lines of context there are; a function that survives is
  among the symbols. This needs `NamesOK`: the symbols are the new version's functions
  and the twin.
* `AffectedAreExact`: where the hunks are exact and the file was read as it was diffed
  (`ParsedOK`), the numbers of a function's first and last line are those of its `Extent`
  (`ExtentLines`; the last line exists by a pigeonhole argument, `LastOf`), and line
  numbers are strictly monotonic over the new lines (`Numbers`). So an added line lies
  between the two numbers exactly if it is in the extent, and the number after a run of
  deleted lines tells whether the run was within, right behind, or outside
  (`IntersectedExactly`).
* `ChangesArePlanned`: `PlanMade` ties the plan to the rules applied to what was found;
  `RulesComplete` says that the rules drop nothing; the rest is `AffectedExact` and
  `DeletedExact`.
* `PlansAreJustified` and `PlansArePlannable`: whatever `Parse` and `ReconcileDeleted`
  found, or failed to find, a plan is what the rules make of it; `FoundOK` and `PlannedOK`
  keep affected and deleted functions apart.

`ValidationProofs` proves all six invariants of the run `validation` for any candidates and
any number of errors, from `ValidationAssumption` (the bounds are naturals). The invariant
says what is known at each place: behind the static gates the candidate is screened, before
`CreateDirectory` there is no area, a container is known exactly while its cleanup is due, a
result that tells of collected tests is the candidate's own. `NothingLeaks` rests, as
in `ExecutionProofs`, on a count: what is left, plus the container that could not be removed
yet, is at most the number of failed calls. The conjunction is `IInv` (`ValidationSafe`).

`DiscoveryProofs` proves the three invariants of the run `discovery` for files of any
length and any names, paths and targets, from `DiscoveryAssumption` (finitely many modules and
functions; paths are nonempty sequences of strings; an alias is no function's name). Its
invariant, `DiscoveryInv`, says what each stage has left, as an expression over the file.
From it:

* `AssociationsAreExact`: in a plain file a used name has one line that binds it, so the
  last binding in the map for the whole file, which `SymbolAt` and `ModulesOf` find, is the
  one Python finds by its scopes. `CallMeant`, `QualifiedMeant` and `PatchMeant` compare the
  two for each form of a line. The proof failed for an earlier `Plain`, which let a module
  be reached by any path that begins with the imported name; TLC then found a
  counterexample in modules and paths the run does not have (`import src.src`, then `src.f()`
  with a target `lib.src.f`). `Plain` now says how a module may be reached.
* `NoneByNameAlone`: whatever the map holds under a name is the path of an import that
  is in the file; suffixes of dotted names are compared part by part (`Suffix`,
  `SuffixOfSuffix`).
* `TargetsAreIndependent`: calls and patches resolve to paths and names before they are
  compared with targets (`CalledAre`, `PatchedAre`); only that a patch is taken for the
  first target it fits depends on the other targets, and where one fits it does not.

Model-checked only: `EventuallySettled`, `EventuallyAnswered` and `EventuallyEnds`, since
liveness is beyond the prover, and the five properties that are violated.

## 6. Not modelled

* Of the analysis: classes and methods, several files in one diff, untracked, renamed and
  binary files, hunks without content (the coarse fallback, which git's output never needs),
  dependencies. Decorated functions start at their `def`, decorators are lines like others.
* Of discovery: fixtures, local helpers, `getattr`, `patch.object` and methods of local
  instances; the first three yield only UNKNOWN evidence, which the planner ignores.
* Of planning: the order of targets, the rationale's wording and the decision hash.
* Prompt assembly, parsing of pytest and coverage output, console rendering: sequential
  text processing without state of its own, whose correctness is about the text.
* The security gate's AST rules and the diagnosis engine's regular expressions: they are
  about the text of programs and tracebacks; what they may answer is free.
* A killed process in `Execution` and `Validation`, which leaves everything behind; what a
  crash means to a run is `Workflow`'s subject.
* Exceptions of `ast.parse` other than SyntaxError in generation (nesting, null bytes), and
  Ctrl-C within `containers.create`.
* What the security gate's uncaught RecursionError costs (validation/security.py:233) is
  modelled, but no document promises anything else, so no property opposes it. The same is
  true of the evidence of earlier candidates when a later execution raises
  (execution/service.py:359) and of the plan of a snapshot that is not valid
  (analysis/service.py:134).
* SQLite is taken at its word: a transaction commits or does not, and survives a crash.
  Row locks are not modelled; a locked database shows as a call that raises.
