--------------------------- MODULE WorkflowData ---------------------------
(***************************************************************************)
(* The immutable data of a run: the graph's nodes and their step indices,  *)
(* the WorkflowState that nodes transform and checkpoints carry, the rows  *)
(* of the artifact tables, the routers, and what each node does to a state *)
(* (core/state.py, workflow/nodes.py, workflow/edges.py and the tables of  *)
(* workflow/engine.py and workflow/recovery.py).                           *)
(*                                                                         *)
(* What the services compute (which symbols to target, which candidates    *)
(* survive, which tests fail) is a parameter here; Workflow.tla leaves it  *)
(* to a nondeterministic choice.  A uuid is modelled by the process that   *)
(* drew it: within a process every node runs at most once.                 *)
(***************************************************************************)
EXTENDS Naturals

CONSTANTS Proc,    \* processes that execute or resume the run
          Symbol   \* callables the plan may target for generation

-----------------------------------------------------------------------------
(* Nodes and step indices *)

Start    == "initialized"
Ingest   == "ingest_and_analyze_node"
Plan     == "plan_execution_node"
Generate == "generate_tests_node"
Validate == "validate_candidates_node"
Execute  == "execute_sandbox_node"
Diagnose == "diagnose_failure_node"
Report   == "report_node"

Node == {Ingest, Plan, Generate, Validate, Execute, Diagnose, Report}

StepIndex(n) ==
    CASE n = Start    -> 0
      [] n = Ingest   -> 1
      [] n = Plan     -> 2
      [] n = Generate -> 3
      [] n = Validate -> 4
      [] n = Execute  -> 5
      [] n = Diagnose -> 6
      [] n = Report   -> 7

-----------------------------------------------------------------------------
(* WorkflowState and the artifact rows *)

NoOp       == "ROUTE_NO_OP"
Docker     == "ROUTE_TO_DOCKER_EXECUTION"
Generation == "ROUTE_TO_TEST_GENERATION"
NoRoute    == "NULL"
Route      == {NoOp, Docker, Generation}

\* An ExecutionPlan: its route, whether existing_tests_to_run is nonempty, and
\* its target_symbols.  NoPlan stands for state.plan = None.
ExecutionPlan ==
    [route: Route, tests: BOOLEAN, targets: SUBSET Symbol]

NoPlan == [route |-> NoRoute, tests |-> FALSE, targets |-> {}]

\* The plans evaluate_precedence_rules can return.
Plannable ==
    {pl \in ExecutionPlan :
        \/ pl.route = NoOp       /\ ~pl.tests /\ pl.targets = {}
        \/ pl.route = Docker     /\ pl.tests  /\ pl.targets = {}
        \/ pl.route = Generation /\ pl.targets # {}}

CandidateId == [by: Proc, symbol: Symbol]

\* The three REJECTED_* statuses are one: nothing in the workflow tells them apart.
Candidate ==
    [id: CandidateId, status: {"PENDING", "QUARANTINED", "PASSED", "REJECTED"}]

\* candidate_id is nullable: {} for baseline evidence, else the one candidate's id.
Evidence == [by: Proc, of: SUBSET CandidateId, failed: BOOLEAN]

Diagnosis == [by: Proc, of: Evidence]

WorkflowState ==
    [snapshot: BOOLEAN,
     plan: ExecutionPlan \cup {NoPlan},
     candidates: SUBSET Candidate,
     baseline: SUBSET Evidence,
     evidences: SUBSET Evidence,
     diagnoses: SUBSET Diagnosis,
     final: {"INITIALIZED", "COMPLETED"}]

InitialState ==
    [snapshot |-> FALSE, plan |-> NoPlan, candidates |-> {}, baseline |-> {},
     evidences |-> {}, diagnoses |-> {}, final |-> "INITIALIZED"]

AllEvidence(st) == st.baseline \cup st.evidences

FailedEvidence(st) == {e \in AllEvidence(st) : e.failed}

PassedCandidates(st) == {c \in st.candidates : c.status = "PASSED"}

-----------------------------------------------------------------------------
(* The node adapters of workflow/nodes.py *)

AfterIngest(st) == [st EXCEPT !.snapshot = TRUE]

AfterPlan(st, pl) == [st EXCEPT !.plan = pl]

\* One candidate per target symbol; those of `quarantined` exhausted their repairs.
AfterGenerate(st, p, quarantined) ==
    [st EXCEPT !.candidates =
        {[id |-> [by |-> p, symbol |-> s],
          status |-> IF s \in quarantined THEN "QUARANTINED" ELSE "PENDING"] :
            s \in st.plan.targets}]

\* Quarantined candidates pass through the pipeline untouched.
AfterValidate(st, sound) ==
    [st EXCEPT !.candidates =
        {[c EXCEPT !.status = IF c.status = "QUARANTINED" THEN "QUARANTINED"
                              ELSE IF c.id \in sound THEN "PASSED" ELSE "REJECTED"] :
            c \in st.candidates}]

\* A mutant: candidates of a rejected gate are executed as well.
AfterExecuteAnyStatus(st, p, failing) ==
    [st EXCEPT
        !.baseline = IF st.baseline = {} /\ st.plan.tests
                     THEN {[by |-> p, of |-> {}, failed |-> {} \in failing]}
                     ELSE @,
        !.evidences = {[by |-> p, of |-> {c.id}, failed |-> {c.id} \in failing] :
                          c \in st.candidates}]

\* The baseline runs at most once per state, and only for a plan with existing
\* tests; `failing` holds the `of` fields of the evidence whose exit code is not 0.
AfterExecute(st, p, failing) ==
    [st EXCEPT
        !.baseline = IF st.baseline = {} /\ st.plan.tests
                     THEN {[by |-> p, of |-> {}, failed |-> {} \in failing]}
                     ELSE @,
        !.evidences = IF PassedCandidates(st) # {}
                      THEN {[by |-> p, of |-> {c.id}, failed |-> {c.id} \in failing] :
                               c \in PassedCandidates(st)}
                      ELSE @]

\* A mutant: the failed evidence itself is appended to the state's diagnoses.
AfterDiagnoseUnclassified(st, p) == [st EXCEPT !.diagnoses = @ \cup FailedEvidence(st)]

AfterDiagnose(st, p) ==
    [st EXCEPT !.diagnoses = @ \cup {[by |-> p, of |-> e] : e \in FailedEvidence(st)}]

AfterReport(st) == [st EXCEPT !.final = "COMPLETED"]

-----------------------------------------------------------------------------
(* The routers of workflow/edges.py and the two tables that use them *)

RouteAfterPlanning(st) ==
    CASE st.plan.route = NoOp       -> Report
      [] st.plan.route = Docker     -> Execute
      [] st.plan.route = Generation -> Generate

RouteAfterValidation(st) ==
    IF PassedCandidates(st) # {} THEN Execute ELSE Report

\* A mutant: the router looks at candidate evidence only.
RouteAfterExecutionNoBaseline(st) ==
    IF \E e \in st.evidences : e.failed THEN Diagnose ELSE Report

RouteAfterExecution(st) ==
    IF FailedEvidence(st) # {} THEN Diagnose ELSE Report

\* _resolve_next_node; Report has no successor.
NextNode(n, st) ==
    CASE n = Ingest   -> Plan
      [] n = Plan     -> RouteAfterPlanning(st)
      [] n = Generate -> Validate
      [] n = Validate -> RouteAfterValidation(st)
      [] n = Execute  -> RouteAfterExecution(st)
      [] n = Diagnose -> Report

\* A mutant: a resumed run skips validation after generation.
ResumeNodeSkip(step, st) ==
    CASE step = 0 -> Ingest
      [] step = 1 -> Plan
      [] step = 2 -> RouteAfterPlanning(st)
      [] step = 3 -> Execute
      [] step = 4 -> RouteAfterValidation(st)
      [] step = 5 -> RouteAfterExecution(st)
      [] step = 6 -> Report

\* _resolve_resume_node, by the checkpoint's step index.
ResumeNode(step, st) ==
    CASE step = 0 -> Ingest
      [] step = 1 -> Plan
      [] step = 2 -> RouteAfterPlanning(st)
      [] step = 3 -> Validate
      [] step = 4 -> RouteAfterValidation(st)
      [] step = 5 -> RouteAfterExecution(st)
      [] step = 6 -> Report

-----------------------------------------------------------------------------
(* _persist_node_artifacts: the rows a node's state adds to the artifact tables *)

\* A mutant: a validated candidate's new status is not written back.
ArtifactRowsNoStatus(n, st) ==
    CASE n = Generate -> st.candidates
      [] n = Execute  -> AllEvidence(st)
      [] n = Diagnose -> st.diagnoses
      [] OTHER        -> {}

\* A mutant: the baseline's evidence is not saved.
ArtifactRowsNoBaseline(n, st) ==
    CASE n \in {Generate, Validate} -> st.candidates
      [] n = Execute                -> st.evidences
      [] n = Diagnose               -> st.diagnoses
      [] OTHER                      -> {}

ArtifactRows(n, st) ==
    CASE n \in {Generate, Validate} -> st.candidates
      [] n = Execute                -> AllEvidence(st)
      [] n = Diagnose               -> st.diagnoses
      [] OTHER                      -> {}

=============================================================================
