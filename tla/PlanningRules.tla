--------------------------- MODULE PlanningRules ---------------------------
(***************************************************************************)
(* The rules of the planner (planning/rules.py) and the evidence they      *)
(* weigh (analysis/discovery.py): which symbols the existing tests cover,  *)
(* what is left to generate, which tests to run again.                     *)
(***************************************************************************)
EXTENDS FiniteSets

NoOp       == "ROUTE_NO_OP"
Docker     == "ROUTE_TO_DOCKER_EXECUTION"
Generation == "ROUTE_TO_TEST_GENERATION"

\* What a test file can hold about a symbol: a patch of it, a call that resolves to
\* it (imported, aliased, awaited, qualified by its module, or a method of a local
\* instance), a mention that does not resolve (a fixture, a helper, getattr, a
\* reassigned name, a chained receiver).
Reference == {"mock", "call", "mention"}

\* A mutant: patches are not looked at.
AssociatedByCall(references) == "call" \in references

\* analyze_associations: a patch anywhere in the file disqualifies all its evidence.
StaticallyAssociated(references) ==
    "mock" \notin references /\ "call" \in references

-----------------------------------------------------------------------------
(* evaluate_precedence_rules: tests[s] is symbol_to_test_files.            *)

Covered(symbols, tests) == {s \in symbols : tests[s] # {}}

TestsOf(symbols, tests) == UNION {tests[s] : s \in symbols}

ExecutionPlan(route, targets, existing) ==
    [route |-> route, targets |-> targets, existing |-> existing]

\* Hunks are told apart by whether is_non_code_hunk holds of their file.
Hunk == {"code", "other"}

\* A mutant: what must be generated leaves the existing tests out.
RulesWithoutRegression(hunks, affected, deleted, tests) ==
    LET covered    == Covered(affected, tests)
        regression == TestsOf(covered \cup Covered(deleted, tests), tests)
    IN  IF \/ "code" \notin hunks
           \/ affected = {} /\ Covered(deleted, tests) = {}
        THEN ExecutionPlan(NoOp, {}, {})
        ELSE IF affected = covered
        THEN ExecutionPlan(Docker, {}, regression)
        ELSE ExecutionPlan(Generation, affected \ covered, {})

\* A mutant: whatever was deleted, tests are run.
RulesWithoutDeadCode(hunks, affected, deleted, tests) ==
    LET covered    == Covered(affected, tests)
        regression == TestsOf(covered \cup Covered(deleted, tests), tests)
    IN  IF \/ "code" \notin hunks
           \/ affected = {} /\ deleted = {}
        THEN ExecutionPlan(NoOp, {}, {})
        ELSE IF affected = covered
        THEN ExecutionPlan(Docker, {}, regression)
        ELSE ExecutionPlan(Generation, affected \ covered, regression)

EvaluatePrecedenceRules(hunks, affected, deleted, tests) ==
    LET covered    == Covered(affected, tests)
        regression == TestsOf(covered \cup Covered(deleted, tests), tests)
    IN  IF \/ "code" \notin hunks                                \* P1, P2
           \/ affected = {} /\ Covered(deleted, tests) = {}      \* Decision 1, A and C
        THEN ExecutionPlan(NoOp, {}, {})
        ELSE IF affected = covered                               \* Decision 1 B, P3
        THEN ExecutionPlan(Docker, {}, regression)
        ELSE ExecutionPlan(Generation, affected \ covered, regression)   \* P4
=============================================================================
