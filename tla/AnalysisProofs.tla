--------------------------- MODULE AnalysisProofs ---------------------------
(***************************************************************************)
(* For files and edit scripts of any length, any number of functions and   *)
(* of test files: that the diff is read exactly, that deleted functions    *)
(* are found, and that the plan follows from what was found.               *)
(***************************************************************************)
EXTENDS Analysis, FiniteSetTheorems, TLAPS

-----------------------------------------------------------------------------
(* Types *)

LEMMA ScriptLines ==
    ASSUME script \in Seq(Line)
    PROVE  /\ Len(script) \in Nat
           /\ DOMAIN script = 1..Len(script)
           /\ \A i \in DOMAIN script : script[i] \in Line
           /\ \A S \in SUBSET DOMAIN script : IsFiniteSet(S) /\ Cardinality(S) \in Nat
<1>1. /\ Len(script) \in Nat /\ DOMAIN script = 1..Len(script)
      /\ \A i \in DOMAIN script : script[i] \in Line
  OBVIOUS
<1>2. IsFiniteSet(1..Len(script))
  BY <1>1, FS_Interval
<1>3. QED
  BY <1>1, <1>2, FS_Subset, FS_CardinalityType

LEMMA NewNumberType ==
    ASSUME script \in Seq(Line), NEW i
    PROVE  NewNumber(i) \in Nat
<1>1. {j \in New : j =< i} \in SUBSET DOMAIN script
  BY DEF New
<1>2. QED
  BY <1>1, ScriptLines DEF NewNumber

LEMMA ContractsType ==
    ASSUME RepositoryOK, AnalysisAssumption
    PROVE  Contracts \subseteq SymbolContract /\ TwinContracts \subseteq SymbolContract
<1>1. script \in Seq(Line) /\ edits \in Int
  BY DEF RepositoryOK, AnalysisAssumption
<1>2. ASSUME NEW h \in Headers(New)
      PROVE  /\ script[h].text \in Symbol
             /\ NewNumber(h) \in Int /\ Cardinality(Extent(h, New)) \in Int
  <2>1. Extent(h, New) \in SUBSET DOMAIN script
    BY DEF Extent, New
  <2>2. script[h].text \in Symbol
    BY <1>2 DEF Headers, Symbol
  <2>3. QED
    BY <1>1, <2>1, <2>2, ScriptLines, NewNumberType
<1>3. ASSUME NEW h \in Headers(New)
      PROVE  [name |-> script[h].text, first |-> NewNumber(h) + edits,
              last |-> NewNumber(h) + Cardinality(Extent(h, New)) - 1 + edits] \in SymbolContract
  BY <1>1, <1>2 DEF SymbolContract
<1>4. QED
  BY <1>3 DEF Contracts, TwinContracts, SymbolContract, Symbol

\* The rules return a plan over what they are given.
LEMMA RulesType ==
    ASSUME NEW S, NEW T, NEW all \in SUBSET S, NEW del \in SUBSET S, NEW hs,
           NEW tests \in [S -> SUBSET T]
    PROVE  EvaluatePrecedenceRules(hs, all, del, tests) \in
              [route: {NoOp, Docker, Generation}, targets: SUBSET S, existing: SUBSET T]
<1> DEFINE covered == Covered(all, tests)
           regression == TestsOf(covered \cup Covered(del, tests), tests)
<1>1. covered \subseteq S /\ Covered(del, tests) \subseteq S
  BY DEF Covered
<1>2. regression \subseteq T
  BY <1>1 DEF TestsOf
<1>3. QED
  BY <1>1, <1>2 DEF EvaluatePrecedenceRules, ExecutionPlan

LEMMA TestsType ==
    ASSUME PlanOK PROVE SymbolToTestFiles \in [Symbol -> SUBSET TestFile]
BY DEF SymbolToTestFiles

LEMMA CloseRunType ==
    ASSUME HunksOK, CloseRun
    PROVE  run' = {} /\ boundaries' \subseteq Boundary
<1>1. curr \in Int /\ boundaries \subseteq Boundary
  BY DEF HunksOK
<1>2. Indented(run) \in BOOLEAN
  BY DEF Indented
<1>3. [next |-> curr, indented |-> Indented(run)] \in Boundary
  BY <1>1, <1>2 DEF Boundary
<1>4. QED
  BY <1>1, <1>3 DEF CloseRun

LEMMA TypeInit == Init => TypeOK
<1> SUFFICES ASSUME Init PROVE TypeOK
  OBVIOUS
<1>1. RepositoryOK
  <2>1. PICK n \in 0..MaxLines : script \in [1..n -> Line]
    BY DEF Init
  <2>2. script \in Seq(Line)
    BY <2>1
  <2>3. QED
    BY <2>2, AnalysisAssumption DEF Init, RepositoryOK
<1>2. HunksOK
  BY DEF Init, HunksOK, Start
<1>3. SnapshotOK
  BY DEF Init, SnapshotOK
<1>4. PlanOK
  BY DEF Init, PlanOK
<1>5. QED
  BY <1>1, <1>2, <1>3, <1>4 DEF TypeOK

LEMMA TypeStep == TypeOK /\ [Next]_vars => TypeOK'
<1> SUFFICES ASSUME TypeOK, [Next]_vars PROVE TypeOK'
  OBVIOUS
<1>1. RepositoryOK'
  <2>1. CASE Edit
    BY <2>1, AnalysisAssumption DEF Edit, TypeOK, RepositoryOK, repo
  <2>2. CASE ~Edit
    BY <2>2 DEF Next, ComputeDiff, Read, ContextLine, AddedLine, DeletedLine, EndOfHunks, Parse,
       ReconcileDeleted, PlanExecution, vars, TypeOK, RepositoryOK, repo
  <2>3. QED
    BY <2>1, <2>2
<1>2. HunksOK'
  <2> USE DEF TypeOK, HunksOK, hunks, repo
  <2>1. CASE ComputeDiff
    BY <2>1 DEF ComputeDiff
  <2>2. CASE ContextLine
    <3>1. run' = {} /\ boundaries' \subseteq Boundary
      BY <2>2, CloseRunType DEF ContextLine
    <3>2. pos' = pos + 1 /\ curr' = curr + 1 /\ UNCHANGED <<script, pc, added>>
      BY <2>2 DEF ContextLine
    <3>3. QED
      BY <3>1, <3>2
  <2>3. CASE AddedLine
    BY <2>3, CloseRunType DEF AddedLine, RepositoryOK
  <2>4. CASE DeletedLine
    <3>1. pos \in DOMAIN script
      BY <2>4, ScriptLines DEF DeletedLine, RepositoryOK
    <3>2. QED
      BY <2>4, <3>1 DEF DeletedLine
  <2>9. CASE EndOfHunks
    BY <2>9, CloseRunType DEF EndOfHunks, RepositoryOK
  <2>5. CASE Parse \/ ReconcileDeleted
    BY <2>5 DEF Parse, ReconcileDeleted
  <2>6. CASE PlanExecution \/ Edit
    BY <2>6 DEF PlanExecution, Edit
  <2>7. CASE UNCHANGED vars
    BY <2>7 DEF vars
  <2> HIDE DEF TypeOK, HunksOK, hunks, repo
  <2>8. QED
    BY <2>1, <2>2, <2>3, <2>4, <2>5, <2>6, <2>7, <2>9 DEF Next, Read
<1>3. SnapshotOK'
  <2>1. CASE Parse
    <3>1. symbols' \subseteq SymbolContract
      BY <2>1, ContractsType, AnalysisAssumption DEF Parse, TypeOK
    <3>2. affected' \subseteq Symbol
      BY <2>1, <3>1 DEF Parse, ResolveAffectedSymbols, SymbolContract
    <3>3. valid' \in BOOLEAN /\ baseRead' \in BOOLEAN /\ deleted' \subseteq Name
      BY <2>1 DEF Parse, TypeOK, SnapshotOK
    <3>4. QED
      BY <3>1, <3>2, <3>3 DEF SnapshotOK
  <2>2. CASE ReconcileDeleted
    <3>1. DeletedSymbols \subseteq Name
      BY DEF DeletedSymbols, Headers
    <3>2. QED
      BY <2>2, <3>1 DEF ReconcileDeleted, TypeOK, SnapshotOK
  <2>3. CASE ~(Parse \/ ReconcileDeleted)
    BY <2>3 DEF Next, ComputeDiff, Read, ContextLine, AddedLine, DeletedLine, EndOfHunks,
       PlanExecution, Edit, vars, TypeOK, SnapshotOK, parsed
  <2>4. QED
    BY <2>1, <2>2, <2>3
<1>4. PlanOK'
  <2>1. CASE PlanExecution
    <3>1. PICK found \in [TestFile -> [affected \cup deleted -> TestContents]] :
             evidence' = [t \in TestFile |->
                [s \in Symbol |-> IF s \in affected \cup deleted THEN found[t][s] ELSE {}]]
      BY <2>1 DEF PlanExecution
    <3>2. evidence' \in [TestFile -> [Symbol -> SUBSET Reference]]
      BY <3>1, AnalysisAssumption DEF AnalysisAssumption
    <3>3. affected \in SUBSET Symbol /\ deleted \in SUBSET Symbol
      BY DEF TypeOK, SnapshotOK, Symbol
    <3>4. SymbolToTestFiles' \in [Symbol -> SUBSET TestFile]
      BY DEF SymbolToTestFiles
    <3>5. plan' \in [route: {NoOp, Docker, Generation}, targets: SUBSET Symbol,
                     existing: SUBSET TestFile]
      BY <2>1, <3>3, <3>4, RulesType DEF PlanExecution
    <3>6. QED
      BY <3>2, <3>5 DEF PlanOK
  <2>2. CASE ~PlanExecution
    BY <2>2 DEF Next, ComputeDiff, Read, ContextLine, AddedLine, DeletedLine, EndOfHunks, Parse,
       ReconcileDeleted, Edit, vars, TypeOK, PlanOK, asked
  <2>3. QED
    BY <2>1, <2>2
<1>5. QED
  BY <1>1, <1>2, <1>3, <1>4 DEF TypeOK

\* Every variable keeps its type.
THEOREM AnalysisTypes == Spec => []TypeOK
BY TypeInit, TypeStep, PTL DEF Spec

-----------------------------------------------------------------------------
(* The plan                                                                *)
(*                                                                         *)
(* The rules only know what was found; what was found is consistent: an    *)
(* affected symbol is one the analysis read, a deleted one is not.         *)

FoundOK ==
    /\ pc \notin {"plan", "planned"} => deleted = {}
    /\ affected \subseteq {s.name : s \in symbols}
    /\ deleted \cap {s.name : s \in symbols} = {}

PlannedOK ==
    /\ plan # NoPlan => pc = "planned"
    /\ PlanJustified /\ PlanIsPlannable

\* The route agrees with what there is to do.
RouteAgrees(p) ==
    \/ p.route = NoOp /\ p.existing = {} /\ p.targets = {}
    \/ p.route = Docker /\ p.existing # {} /\ p.targets = {}
    \/ p.route = Generation /\ p.targets # {}

\* Targets lack tests; the tests that run belong to the change.
Follows(p, all, del, tests) ==
    /\ \A s \in p.targets : s \in all /\ tests[s] = {}
    /\ \A t \in p.existing : \E s \in all \cup del : t \in tests[s]

LEMMA RulesRoute ==
    ASSUME NEW S, NEW T, NEW all \in SUBSET S, NEW del \in SUBSET S, NEW hs,
           NEW tests \in [S -> SUBSET T]
    PROVE  RouteAgrees(EvaluatePrecedenceRules(hs, all, del, tests))
<1> DEFINE covered == Covered(all, tests)
           regression == TestsOf(covered \cup Covered(del, tests), tests)
<1>1. ASSUME all # {} \/ Covered(del, tests) # {}, all = covered
      PROVE  regression # {}
  <2>1. PICK s \in covered \cup Covered(del, tests) : TRUE
    BY <1>1
  <2>2. tests[s] # {} /\ tests[s] \subseteq regression
    BY DEF Covered, TestsOf
  <2>3. QED
    BY <2>2
<1>2. covered \subseteq all
  BY DEF Covered
<1>3. QED
  BY <1>1, <1>2 DEF EvaluatePrecedenceRules, ExecutionPlan, RouteAgrees, NoOp, Docker,
     Generation

LEMMA RulesJustified ==
    ASSUME NEW S, NEW T, NEW all \in SUBSET S, NEW del \in SUBSET S, NEW hs,
           NEW tests \in [S -> SUBSET T]
    PROVE  Follows(EvaluatePrecedenceRules(hs, all, del, tests), all, del, tests)
<1> DEFINE covered == Covered(all, tests)
           regression == TestsOf(covered \cup Covered(del, tests), tests)
<1>1. \A s \in all \ covered : tests[s] = {}
  BY DEF Covered
<1>2. \A t \in regression : \E s \in all \cup del : t \in tests[s]
  BY DEF Covered, TestsOf
<1> DEFINE p == EvaluatePrecedenceRules(hs, all, del, tests)
<1>3. p.targets \subseteq all \ covered /\ p.existing \subseteq regression
  BY DEF EvaluatePrecedenceRules, ExecutionPlan
<1> HIDE DEF p, covered, regression
<1>4. QED
  BY <1>1, <1>2, <1>3 DEF Follows, p

LEMMA ExercisingTests ==
    ASSUME PlanOK, NEW s \in Symbol PROVE SymbolToTestFiles[s] = Exercising(s)
<1>1. SymbolToTestFiles[s] = {t \in TestFile : StaticallyAssociated(evidence[t][s])}
  BY DEF SymbolToTestFiles
<1>2. ASSUME NEW t \in TestFile
      PROVE  StaticallyAssociated(evidence[t][s]) <=> evidence[t][s] \cap {"call", "mock"} = {"call"}
  BY DEF StaticallyAssociated
<1>3. QED
  BY <1>1, <1>2 DEF Exercising

LEMMA FoundStep == TypeOK /\ FoundOK /\ [Next]_vars => FoundOK'
<1> SUFFICES ASSUME TypeOK, FoundOK, [Next]_vars PROVE FoundOK'
  OBVIOUS
<1>1. CASE Parse
  <2>1. affected' \subseteq {s.name : s \in symbols'}
    BY <1>1 DEF Parse, ResolveAffectedSymbols
  <2>2. deleted' = {} /\ pc' = "base"
    BY <1>1 DEF Parse, FoundOK
  <2>3. QED
    BY <2>1, <2>2 DEF FoundOK
<1>2. CASE ReconcileDeleted
  <2>1. deleted' \cap {s.name : s \in symbols} = {}
    BY <1>2 DEF ReconcileDeleted, DeletedSymbols
  <2>2. QED
    BY <1>2, <2>1 DEF ReconcileDeleted, FoundOK
<1>3. CASE ComputeDiff \/ EndOfHunks
  BY <1>3 DEF ComputeDiff, EndOfHunks, parsed, FoundOK
<1>4. CASE ContextLine \/ AddedLine \/ DeletedLine \/ Edit \/ UNCHANGED vars
  BY <1>4 DEF ContextLine, AddedLine, DeletedLine, Edit, vars, parsed, FoundOK
<1>5. CASE PlanExecution
  BY <1>5 DEF PlanExecution, parsed, FoundOK
<1>6. QED
  BY <1>1, <1>2, <1>3, <1>4, <1>5 DEF Next, Read

LEMMA PlannedStep == TypeOK /\ FoundOK /\ PlannedOK /\ [Next]_vars => PlannedOK'
<1> SUFFICES ASSUME TypeOK, FoundOK, PlannedOK, [Next]_vars PROVE PlannedOK'
  OBVIOUS
<1>1. CASE PlanExecution
  <2> DEFINE tests == SymbolToTestFiles'
  <2>1. affected \in SUBSET Symbol /\ deleted \in SUBSET Symbol
        /\ affected \cap deleted = {}
    BY DEF TypeOK, SnapshotOK, Symbol, FoundOK
  <2>2. PlanOK'
    BY TypeStep DEF TypeOK
  <2>3. tests \in [Symbol -> SUBSET TestFile]
    BY DEF SymbolToTestFiles
  <2>4. plan' = EvaluatePrecedenceRules(DiffHunks, affected, deleted, tests)
    BY <1>1 DEF PlanExecution
  <2> HIDE DEF tests
  <2>5. RouteAgrees(plan')
    <3>1. RouteAgrees(EvaluatePrecedenceRules(DiffHunks, affected, deleted, tests))
      BY <2>1, <2>3, RulesRoute
    <3>2. QED
      BY <2>4, <3>1
  <2>6. Follows(plan', affected, deleted, tests)
    <3>1. Follows(EvaluatePrecedenceRules(DiffHunks, affected, deleted, tests),
                  affected, deleted, tests)
      BY <2>1, <2>3, RulesJustified
    <3>2. QED
      BY <2>4, <3>1
  <2>7. \A s \in Symbol : tests[s] = Exercising(s)'
    BY <2>2, ExercisingTests DEF tests, SymbolToTestFiles, Exercising, PlanOK, StaticallyAssociated
  <2>8. UNCHANGED <<affected, deleted>> /\ pc' = "planned"
    BY <1>1 DEF PlanExecution, parsed
  <2>9. PlanJustified'
    <3>1. plan'.route = Generation <=> plan'.targets # {}
      BY <2>5 DEF RouteAgrees, NoOp, Docker, Generation
    <3>2. \A s \in plan'.targets : s \in affected \ deleted /\ Exercising(s)' = {}
      BY <2>1, <2>6, <2>7 DEF Follows
    <3>3. \A t \in plan'.existing : \E s \in affected \cup deleted : t \in Exercising(s)'
      BY <2>1, <2>6, <2>7 DEF Follows
    <3>4. QED
      BY <2>8, <3>1, <3>2, <3>3 DEF PlanJustified
  <2>10. PlanIsPlannable'
    <3>1. plan'.targets \in SUBSET Symbol
      BY <2>1, <2>6 DEF Follows
    <3>2. QED
      BY <2>5, <3>1 DEF RouteAgrees, PlanIsPlannable, WorkflowPlans!Plannable, WorkflowPlans!ExecutionPlan,
         WorkflowPlans!Route, WorkflowPlans!NoOp, WorkflowPlans!Docker, WorkflowPlans!Generation,
         NoOp, Docker, Generation
  <2>11. QED
    BY <2>8, <2>9, <2>10 DEF PlannedOK
<1>2. CASE ~PlanExecution /\ plan = NoPlan
  <2>1. plan' = NoPlan
    BY <1>2 DEF Next, ComputeDiff, Read, ContextLine, AddedLine, DeletedLine, EndOfHunks, Parse,
       ReconcileDeleted, Edit, vars, asked
  <2>2. QED
    BY <2>1 DEF PlannedOK, PlanJustified, PlanIsPlannable, NoPlan
<1>3. CASE plan # NoPlan
  <2>1. pc = "planned"
    BY <1>3 DEF PlannedOK
  <2>2. UNCHANGED vars
    BY <2>1 DEF Next, ComputeDiff, Read, ContextLine, AddedLine, DeletedLine, EndOfHunks, Parse,
       ReconcileDeleted, PlanExecution, Edit
  <2>3. QED
    BY <2>2 DEF vars, parsed, asked, PlannedOK, PlanJustified, PlanIsPlannable, Exercising, NoPlan
<1>4. QED
  BY <1>1, <1>2, <1>3

LEMMA PlanInit == Init => FoundOK /\ PlannedOK
BY DEF Init, FoundOK, PlannedOK, PlanJustified, PlanIsPlannable, NoPlan

LEMMA PlanSafe == Spec => [](TypeOK /\ FoundOK /\ PlannedOK)
<1>1. Init => TypeOK /\ FoundOK /\ PlannedOK
  BY TypeInit, PlanInit
<1>2. TypeOK /\ FoundOK /\ PlannedOK /\ [Next]_vars => (TypeOK /\ FoundOK /\ PlannedOK)'
  BY TypeStep, FoundStep, PlannedStep
<1>3. QED
  BY <1>1, <1>2, PTL DEF Spec

\* Whatever is edited and whatever cannot be read, no test is generated for a symbol
\* that is gone, unaffected or exercised by an existing test, and no unrelated test runs.
THEOREM PlansAreJustified == Spec => []PlanJustified
BY PlanSafe, PTL DEF PlannedOK

\* Every plan is one the workflow's routers know what to do with.
THEOREM PlansArePlannable == Spec => []PlanIsPlannable
BY PlanSafe, PTL DEF PlannedOK

-----------------------------------------------------------------------------
(* The diff                                                                *)
(*                                                                         *)
(* A loop invariant: when line p of the script is next, curr is the number *)
(* line p would have in the new file, the open run is the deleted lines    *)
(* right before p, and what was found is what the lines before p hold.     *)

Before(p) == Cardinality({j \in New : j < p})

RunBefore(p) ==
    {j \in DOMAIN script :
        j < p /\ \A k \in DOMAIN script : j =< k /\ k < p => script[k].op = "-"}

AddedBefore(p) ==
    {NewNumber(i) + Start - 1 : i \in {j \in New : j < p /\ script[j].op = "+"}}

GoneBefore(p) == {j \in Old : j < p /\ script[j].op = "-"}

BoundaryAt(i) == [next |-> NewNumber(i) + Start, indented |-> Indented(RunAt(i))]

ReadTo(p, c, r, a, b) ==
    /\ p =< Len(script) + 1
    /\ c = Start + Before(p)
    /\ r = RunBefore(p)
    /\ a = AddedBefore(p)
    /\ b = {BoundaryAt(i) : i \in GoneBefore(p) \ r}

ReadOK ==
    /\ pc \in {"diff", "hunks"} => ReadTo(pos, curr, run, added, boundaries)
    /\ pc = "parse" \/ Resolved =>
          /\ added = AddedBefore(Len(script) + 1)
          /\ boundaries = {BoundaryAt(i) : i \in GoneBefore(Len(script) + 1)}

\* None of this depends on anything but the script.
LEMMA SameScript ==
    ASSUME UNCHANGED script
    PROVE  /\ UNCHANGED <<New, Old, Start>>
           /\ \A i : UNCHANGED <<NewNumber(i), Before(i), RunBefore(i), RunAt(i), GoneBefore(i)>>
           /\ \A r : UNCHANGED Indented(r)
<1>1. UNCHANGED <<New, Old>>
  BY DEF New, Old
<1>2. \A i : UNCHANGED <<NewNumber(i), Before(i), RunBefore(i), RunAt(i), GoneBefore(i)>>
  BY <1>1 DEF NewNumber, Before, RunBefore, RunAt, GoneBefore
<1>3. QED
  BY <1>1, <1>2 DEF Start, Indented

LEMMA Counts ==
    ASSUME script \in Seq(Line), NEW p \in Nat
    PROVE  /\ Before(p) \in Nat
           /\ p \in New => Before(p + 1) = Before(p) + 1 /\ NewNumber(p) = Before(p) + 1
           /\ p \notin New => Before(p + 1) = Before(p)
<1> DEFINE below(q) == {j \in New : j < q}
<1>1. New \subseteq Nat /\ New \subseteq DOMAIN script
  BY ScriptLines DEF New
<1>2. IsFiniteSet(below(p)) /\ Before(p) \in Nat
  BY <1>1, ScriptLines DEF Before
<1> DEFINE upTo(q) == {j \in New : j =< q}
<1>3. \A j \in New : (j < p + 1 <=> j =< p) /\ (j =< p <=> j < p \/ j = p)
  BY <1>1
<1>4. below(p + 1) = upTo(p)
  BY <1>3
<1>5. ASSUME p \in New PROVE Before(p + 1) = Before(p) + 1 /\ NewNumber(p) = Before(p) + 1
  <2>1. upTo(p) = below(p) \cup {p}
    BY <1>5, <1>3
  <2>2. p \notin below(p)
    OBVIOUS
  <2>3. Cardinality(below(p) \cup {p}) = Cardinality(below(p)) + 1
    BY <1>2, <2>2, FS_AddElement
  <2>4. QED
    BY <1>4, <2>1, <2>3 DEF Before, NewNumber
<1>6. ASSUME p \notin New PROVE Before(p + 1) = Before(p)
  <2>1. upTo(p) = below(p)
    BY <1>6, <1>3
  <2>2. QED
    BY <1>4, <2>1 DEF Before
<1>7. QED
  BY <1>2, <1>5, <1>6

\* Every line of a run that ends before p gives the one boundary of the run.
LEMMA OneBoundary ==
    ASSUME script \in Seq(Line), NEW p \in Nat, p \notin GoneBefore(p + 1),
           NEW i \in RunBefore(p)
    PROVE  NewNumber(i) = Before(p) /\ RunAt(i) = RunBefore(p)
<1>1. DOMAIN script \subseteq Nat /\ i \in DOMAIN script /\ i < p
  BY ScriptLines DEF RunBefore
<1>2. {j \in New : j =< i} = {j \in New : j < p}
  BY <1>1 DEF New, RunBefore
<1>3. p \in DOMAIN script => script[p].op # "-"
  BY DEF GoneBefore, Old
<1>4. RunAt(i) \subseteq RunBefore(p)
  <2> SUFFICES ASSUME NEW j \in RunAt(i) PROVE j \in RunBefore(p)
    OBVIOUS
  <2>1. j \in DOMAIN script /\ j \in Nat
    BY <1>1 DEF RunAt
  <2>2. j < p
    <3>1. SUFFICES ASSUME p =< j PROVE FALSE
      BY <2>1
    <3>2. p \in DOMAIN script
      BY <1>1, <2>1, <3>1, ScriptLines
    <3>3. script[p].op = "-"
      BY <1>1, <3>1, <3>2 DEF RunAt
    <3>4. QED
      BY <1>3, <3>2, <3>3
  <2>3. ASSUME NEW k \in DOMAIN script, j =< k, k < p PROVE script[k].op = "-"
    <3>1. CASE k =< i
      BY <2>3, <3>1 DEF RunAt
    <3>2. CASE i =< k
      BY <2>3, <3>2 DEF RunBefore
    <3>3. QED
      BY <1>1, <3>1, <3>2
  <2>4. QED
    BY <2>1, <2>2, <2>3 DEF RunBefore
<1>5. RunBefore(p) \subseteq RunAt(i)
  <2> SUFFICES ASSUME NEW j \in RunBefore(p) PROVE j \in RunAt(i)
    OBVIOUS
  <2>1. j \in DOMAIN script /\ j \in Nat /\ j < p
    BY <1>1 DEF RunBefore
  <2>2. ASSUME NEW k \in DOMAIN script, (i =< k /\ k =< j) \/ (j =< k /\ k =< i)
        PROVE  script[k].op = "-"
    <3>1. k < p
      BY <1>1, <2>1, <2>2
    <3>2. QED
      BY <2>2, <3>1 DEF RunBefore
  <2>3. QED
    BY <2>1, <2>2 DEF RunAt
<1>6. QED
  BY <1>2, <1>4, <1>5 DEF NewNumber, Before

LEMMA RunClosed ==
    ASSUME TypeOK, ReadTo(pos, curr, run, added, boundaries), CloseRun,
           pos \notin GoneBefore(pos + 1)
    PROVE  run' = {} /\ boundaries' = {BoundaryAt(i) : i \in GoneBefore(pos)}
<1>1. script \in Seq(Line) /\ pos \in Nat /\ curr \in Nat
  BY DEF TypeOK, RepositoryOK, HunksOK
<1>2. run = RunBefore(pos) /\ boundaries = {BoundaryAt(i) : i \in GoneBefore(pos) \ run}
      /\ curr = Start + Before(pos)
  BY DEF ReadTo
<1>3. run \subseteq GoneBefore(pos)
  BY <1>1, <1>2, ScriptLines DEF RunBefore, GoneBefore, Old
<1>4. Start \in Int /\ Before(pos) \in Int
  BY <1>1, Counts DEF Start
<1>5. ASSUME NEW i \in run
      PROVE  BoundaryAt(i) = [next |-> curr, indented |-> Indented(run)]
  <2>1. NewNumber(i) = Before(pos) /\ RunAt(i) = run
    BY <1>1, <1>2, OneBoundary
  <2>2. QED
    BY <1>2, <1>4, <2>1 DEF BoundaryAt
<1>6. CASE run = {}
  BY <1>2, <1>6 DEF CloseRun
<1>7. CASE run # {}
  <2>1. boundaries' = boundaries \cup {[next |-> curr, indented |-> Indented(run)]}
    BY <1>7 DEF CloseRun
  <2>2. PICK r \in run : TRUE
    BY <1>7
  <2>3. \A i \in run : BoundaryAt(i) \in boundaries'
    BY <1>5, <2>1
  <2>4. boundaries' \subseteq {BoundaryAt(i) : i \in GoneBefore(pos)}
    BY <1>2, <1>3, <1>5, <2>1, <2>2
  <2>5. {BoundaryAt(i) : i \in GoneBefore(pos)} \subseteq boundaries'
    BY <1>2, <2>1, <2>3
  <2>6. QED
    BY <2>4, <2>5 DEF CloseRun
<1>8. QED
  BY <1>6, <1>7

LEMMA ReadInit == Init => ReadOK
<1> SUFFICES ASSUME Init PROVE ReadOK
  OBVIOUS
<1>1. script \in Seq(Line)
  BY TypeInit DEF TypeOK, RepositoryOK
<1>2. DOMAIN script = 1..Len(script) /\ Len(script) \in Nat
  BY <1>1, ScriptLines
<1>3. {j \in New : j < 1} = {} /\ RunBefore(1) = {} /\ GoneBefore(1) = {} /\ AddedBefore(1) = {}
  BY <1>2 DEF New, Old, RunBefore, GoneBefore, AddedBefore
<1>4. Before(1) = 0
  BY <1>3, FS_EmptySet DEF Before
<1>5. ReadTo(1, Start, {}, {}, {})
  BY <1>2, <1>3, <1>4 DEF ReadTo, Start
<1>6. /\ pc = "diff"
      /\ pos = 1 /\ curr = Start /\ run = {} /\ added = {} /\ boundaries = {}
  BY DEF Init
<1>7. QED
  BY <1>5, <1>6 DEF ReadOK, Resolved

\* One more line read.
LEMMA ReadOn ==
    ASSUME TypeOK, ReadTo(pos, curr, run, added, boundaries),
           ContextLine \/ AddedLine \/ DeletedLine
    PROVE  ReadTo(pos', curr', run', added', boundaries')
<1>1. script \in Seq(Line) /\ pos \in Nat \ {0} /\ curr \in Nat
  BY DEF TypeOK, RepositoryOK, HunksOK
<1>2. pos \in DOMAIN script /\ pos' = pos + 1 /\ pos' =< Len(script) + 1
  <2>1. Len(script) \in Nat /\ DOMAIN script = 1..Len(script)
    BY <1>1, ScriptLines
  <2>2. pos' = pos + 1 /\ pos =< Len(script)
    BY DEF ContextLine, AddedLine, DeletedLine
  <2>3. QED
    BY <1>1, <2>1, <2>2
<1>3. DOMAIN script \subseteq Nat
  BY <1>1, ScriptLines
<1>4. \A j \in DOMAIN script : j < pos + 1 <=> j < pos \/ j = pos
  BY <1>1, <1>3
<1>5. Start \in Int /\ Before(pos) \in Nat
  BY <1>1, Counts DEF Start
<1>6. curr = Start + Before(pos) /\ added = AddedBefore(pos) /\ run = RunBefore(pos)
  BY DEF ReadTo
<1>7. ASSUME script[pos].op # "-"
      PROVE  /\ pos \notin GoneBefore(pos + 1) /\ GoneBefore(pos + 1) = GoneBefore(pos)
             /\ RunBefore(pos + 1) = {}
             /\ Before(pos + 1) = Before(pos) + 1 /\ NewNumber(pos) = Before(pos) + 1
  <2>1. pos \notin GoneBefore(pos + 1)
    BY <1>7 DEF GoneBefore
  <2>2. GoneBefore(pos + 1) = GoneBefore(pos)
    BY <1>4, <1>7 DEF GoneBefore, Old
  <2>3. RunBefore(pos + 1) = {}
    BY <1>1, <1>2, <1>3, <1>7 DEF RunBefore
  <2>4. pos \in New
    BY <1>2, <1>7 DEF New
  <2>5. QED
    BY <1>1, <2>1, <2>2, <2>3, <2>4, Counts
<1>8. ASSUME script[pos].op # "+" PROVE AddedBefore(pos + 1) = AddedBefore(pos)
  <2>1. {j \in New : j < pos + 1 /\ script[j].op = "+"} = {j \in New : j < pos /\ script[j].op = "+"}
    BY <1>4, <1>8 DEF New
  <2>2. QED
    BY <2>1 DEF AddedBefore
<1>9. CASE ContextLine
  <2>1. script[pos].op # "-" /\ script[pos].op # "+" /\ curr' = curr + 1 /\ added' = added
    BY <1>9 DEF ContextLine
  <2>2. run' = {} /\ boundaries' = {BoundaryAt(i) : i \in GoneBefore(pos)}
    BY <1>7, <1>9, <2>1, RunClosed DEF ContextLine
  <2>3. QED
    BY <1>2, <1>5, <1>6, <1>7, <1>8, <2>1, <2>2 DEF ReadTo
<1>10. CASE AddedLine
  <2>1. script[pos].op = "+" /\ curr' = curr + 1 /\ added' = added \cup {curr}
    BY <1>10 DEF AddedLine
  <2>2. run' = {} /\ boundaries' = {BoundaryAt(i) : i \in GoneBefore(pos)}
    BY <1>7, <1>10, <2>1, RunClosed DEF AddedLine
  <2>3. AddedBefore(pos + 1) = AddedBefore(pos) \cup {curr}
    <3>1. {j \in New : j < pos + 1 /\ script[j].op = "+"} =
             {j \in New : j < pos /\ script[j].op = "+"} \cup {pos}
      BY <1>2, <1>4, <2>1 DEF New
    <3>2. NewNumber(pos) + Start - 1 = curr
      BY <1>5, <1>6, <1>7, <2>1
    <3>3. QED
      BY <3>1, <3>2 DEF AddedBefore
  <2>4. QED
    BY <1>2, <1>5, <1>6, <1>7, <2>1, <2>2, <2>3 DEF ReadTo
<1>11. CASE DeletedLine
  <2>1. script[pos].op = "-" /\ run' = run \cup {pos} /\ UNCHANGED <<curr, added, boundaries>>
    BY <1>11 DEF DeletedLine
  <2>2. pos \notin New
    BY <2>1 DEF New
  <2>3. Before(pos + 1) = Before(pos)
    BY <1>1, <2>2, Counts
  <2>4. RunBefore(pos + 1) = RunBefore(pos) \cup {pos}
    BY <1>1, <1>2, <1>3, <1>4, <2>1 DEF RunBefore
  <2>5. GoneBefore(pos + 1) \ run' = GoneBefore(pos) \ run
    BY <1>1, <1>2, <1>3, <1>4, <1>6, <2>1 DEF GoneBefore, RunBefore, Old
  <2>6. QED
    BY <1>2, <1>6, <1>8, <2>1, <2>3, <2>4, <2>5 DEF ReadTo
<1>12. QED
  BY <1>9, <1>10, <1>11

LEMMA ReadEnd ==
    ASSUME TypeOK, ReadTo(pos, curr, run, added, boundaries), EndOfHunks
    PROVE  /\ added = AddedBefore(Len(script) + 1)
           /\ boundaries' = {BoundaryAt(i) : i \in GoneBefore(Len(script) + 1)}
<1>1. script \in Seq(Line) /\ pos \in Nat /\ Len(script) \in Nat
      /\ DOMAIN script = 1..Len(script)
  BY ScriptLines DEF TypeOK, RepositoryOK, HunksOK
<1>2. pos = Len(script) + 1
  BY <1>1 DEF ReadTo, EndOfHunks
<1>3. pos \notin GoneBefore(pos + 1)
  BY <1>1, <1>2 DEF GoneBefore, Old
<1>4. QED
  BY <1>2, <1>3, RunClosed DEF ReadTo, EndOfHunks

LEMMA ReadStep == TypeOK /\ ReadOK /\ [Next]_vars => ReadOK'
<1> SUFFICES ASSUME TypeOK, ReadOK, [Next]_vars PROVE ReadOK'
  OBVIOUS
<1>1. CASE script' = script
  <2>1. /\ Len(script)' = Len(script)
        /\ UNCHANGED AddedBefore(Len(script) + 1)
        /\ UNCHANGED {BoundaryAt(i) : i \in GoneBefore(Len(script) + 1)}
    BY <1>1, SameScript DEF AddedBefore, BoundaryAt
  <2>2. ASSUME ReadTo(pos', curr', run', added', boundaries')
        PROVE  ReadTo(pos, curr, run, added, boundaries)'
    BY <1>1, <2>2, SameScript DEF ReadTo, AddedBefore, BoundaryAt
  <2>3. CASE ContextLine \/ AddedLine \/ DeletedLine
    <3>1. pc = "hunks" /\ pc' = "hunks"
      BY <2>3 DEF ContextLine, AddedLine, DeletedLine
    <3>2. ReadTo(pos', curr', run', added', boundaries')
      BY <2>3, <3>1, ReadOn DEF ReadOK
    <3>3. QED
      BY <2>2, <3>1, <3>2 DEF ReadOK, Resolved
  <2>4. CASE EndOfHunks
    <3>1. ReadTo(pos, curr, run, added, boundaries)
      BY <2>4 DEF EndOfHunks, ReadOK
    <3>2. /\ added' = AddedBefore(Len(script) + 1)
          /\ boundaries' = {BoundaryAt(i) : i \in GoneBefore(Len(script) + 1)}
      BY <2>4, <3>1, ReadEnd DEF EndOfHunks
    <3>3. QED
      BY <2>1, <2>4, <3>2 DEF EndOfHunks, ReadOK, Resolved
  <2>5. CASE ComputeDiff
    <3>1. ReadTo(pos, curr, run, added, boundaries)
      BY <2>5 DEF ComputeDiff, ReadOK
    <3>2. QED
      BY <2>2, <2>5, <3>1 DEF ComputeDiff, hunks, ReadOK, Resolved
  <2>6. CASE Parse \/ ReconcileDeleted \/ PlanExecution \/ Edit
    <3>1. (pc = "parse" \/ Resolved) /\ pc' \in {"parse", "base", "plan", "planned"}
          /\ UNCHANGED <<added, boundaries>>
      BY <2>6 DEF Parse, ReconcileDeleted, PlanExecution, Edit, hunks, Resolved
    <3>2. QED
      BY <2>1, <3>1 DEF ReadOK
  <2>7. CASE UNCHANGED vars
    <3>1. UNCHANGED <<pc, pos, curr, run, added, boundaries>>
      BY <2>7 DEF vars, hunks
    <3>2. QED
      BY <2>1, <2>2, <3>1 DEF ReadOK, Resolved
  <2>8. QED
    BY <2>3, <2>4, <2>5, <2>6, <2>7 DEF Next, Read
<1>2. script' = script
  BY DEF Next, ComputeDiff, Read, ContextLine, AddedLine, DeletedLine, EndOfHunks, Parse,
     ReconcileDeleted, PlanExecution, Edit, vars, repo
<1>3. QED
  BY <1>1, <1>2

\* What the indentation of deleted lines tells, and what they were.
LEMMA IndentationTells ==
    ASSUME TypeOK, IsPython(Old), NEW i \in Old, script[i].op = "-"
    PROVE  Indented(RunAt(i)) <=> LostBody(i)
<1>1. script \in Seq(Line) /\ DOMAIN script \subseteq Nat /\ i \in DOMAIN script
  BY ScriptLines DEF TypeOK, RepositoryOK, Old
<1>2. RunAt(i) \subseteq Old
  <2>1. ASSUME NEW j \in RunAt(i) PROVE script[j].op = "-" /\ j \in DOMAIN script
    <3>1. j \in DOMAIN script /\ j \in Nat /\ i \in Nat
      BY <1>1 DEF RunAt
    <3>2. (i =< j /\ j =< j) \/ (j =< j /\ j =< i)
      BY <3>1
    <3>3. QED
      BY <3>1, <3>2 DEF RunAt
  <2>2. QED
    BY <2>1 DEF Old
<1>3. ASSUME NEW j \in Old
      PROVE  /\ script[j].text = "body" =>
                    \E h \in Headers(Old) : h < j /\ j \in Extent(h, Old)
             /\ \A h \in Headers(Old) : h < j /\ j \in Extent(h, Old) =>
                    script[j].text \in {"body", "nested", "blank"}
  <2>1. ASSUME script[j].text = "body"
        PROVE  \E h \in Headers(Old) : h < j /\ j \in Extent(h, Old)
    <3>1. PICK h \in Headers(Old) : j \in Extent(h, Old)
      BY <2>1 DEF IsPython
    <3>2. h # j
      BY <2>1, <3>1, AnalysisAssumption DEF Headers, AnalysisAssumption
    <3>3. h \in Nat /\ j \in Nat /\ h =< j
      BY <1>1, <3>1 DEF Extent, Headers, Old
    <3>4. QED
      BY <3>1, <3>2, <3>3
  <2>2. ASSUME NEW h \in Headers(Old), h < j, j \in Extent(h, Old)
        PROVE  script[j].text \in {"body", "nested", "blank"}
    BY <2>2 DEF Extent
  <2>3. QED
    BY <2>1, <2>2
<1>4. \A j \in RunAt(i) : j \in Old
  BY <1>2
<1>5. QED
  BY <1>3, <1>4 DEF Indented, LostBody

LEMMA HunksFollow == TypeOK /\ ReadOK /\ IsPython(Old) => HunksExact
<1> SUFFICES ASSUME TypeOK, ReadOK, IsPython(Old), Resolved
             PROVE  /\ added = {NewNumber(i) + Start - 1 : i \in {j \in New : script[j].op = "+"}}
                    /\ boundaries =
                          {[next |-> NewNumber(i) + Start, indented |-> LostBody(i)] :
                              i \in {j \in Old : script[j].op = "-"}}
  BY DEF HunksExact
<1>1. /\ added = AddedBefore(Len(script) + 1)
      /\ boundaries = {BoundaryAt(i) : i \in GoneBefore(Len(script) + 1)}
  BY DEF ReadOK
<1>2. \A j \in DOMAIN script : j < Len(script) + 1
  BY ScriptLines DEF TypeOK, RepositoryOK
<1>3. {j \in New : j < Len(script) + 1 /\ script[j].op = "+"} = {j \in New : script[j].op = "+"}
  BY <1>2 DEF New
<1>4. GoneBefore(Len(script) + 1) = {j \in Old : script[j].op = "-"}
  BY <1>2 DEF GoneBefore, Old
<1>5. ASSUME NEW i \in {j \in Old : script[j].op = "-"}
      PROVE  BoundaryAt(i) = [next |-> NewNumber(i) + Start, indented |-> LostBody(i)]
  <2>1. Indented(RunAt(i)) = LostBody(i)
    BY IndentationTells DEF Indented, LostBody
  <2>2. QED
    BY <2>1 DEF BoundaryAt
<1>6. QED
  BY <1>1, <1>3, <1>4, <1>5 DEF AddedBefore

LEMMA BaseIsPython == IsPython(Old) /\ [Next]_vars => IsPython(Old)'
<1> SUFFICES ASSUME IsPython(Old), [Next]_vars PROVE IsPython(Old)'
  OBVIOUS
<1>1. script' = script
  BY DEF Next, ComputeDiff, Read, ContextLine, AddedLine, DeletedLine, EndOfHunks, Parse,
     ReconcileDeleted, PlanExecution, Edit, vars, repo
<1>2. QED
  BY <1>1 DEF IsPython, Headers, Extent, Old

\* Lines added and places of deleted lines are what they are in the two files, for
\* edit scripts of any length.
THEOREM HunksAreExact == Spec => []HunksExact
<1>1. Init => TypeOK /\ ReadOK /\ IsPython(Old)
  BY TypeInit, ReadInit DEF Init
<1>2. TypeOK /\ ReadOK /\ IsPython(Old) /\ [Next]_vars => (TypeOK /\ ReadOK)' /\ IsPython(Old)'
  BY TypeStep, ReadStep, BaseIsPython
<1>3. QED
  BY <1>1, <1>2, HunksFollow, PTL DEF Spec

-----------------------------------------------------------------------------
(* Deleted functions                                                       *)
(*                                                                         *)
(* After a file was read, or found to be the same, the names the analysis  *)
(* knows are those of its new version and of the other files.              *)

NamesOK ==
    /\ removed => New = {}
    /\ Resolved /\ valid =>
          \/ {s.name : s \in symbols} = NamesIn(New) \cup {Twin}
          \/ {s.name : s \in symbols} = {Twin} /\ Changed = {} /\ ~removed

\* A function of the old version whose name is gone lost its header to a hunk.
LEMMA LostHeaders ==
    ASSUME TypeOK, NEW h \in Headers(Old), script[h].text \notin NamesIn(New)
    PROVE  h \in Changed /\ h \in Extent(h, Old) /\ InHunk(h)
<1>1. /\ DOMAIN script \subseteq Nat /\ h \in DOMAIN script
      /\ script[h].text \in Name /\ h \in Old
  BY ScriptLines DEF TypeOK, RepositoryOK, Headers, Old
<1>2. h \notin New
  BY <1>1 DEF NamesIn, Headers
<1>3. h \in Changed
  BY <1>1, <1>2 DEF Changed, New
<1>4. h \in Extent(h, Old)
  <2>1. \A k \in Old : h < k /\ k =< h => script[k].text \in {"body", "nested", "blank"}
    BY <1>1 DEF Old
  <2>2. QED
    BY <1>1, <2>1 DEF Extent
<1>5. InHunk(h)
  BY <1>1, <1>3, AnalysisAssumption DEF InHunk, AnalysisAssumption
<1>6. QED
  BY <1>3, <1>4, <1>5

LEMMA ContractNames ==
    {s.name : s \in Contracts \cup TwinContracts} = NamesIn(New) \cup {Twin}
<1> DEFINE names == {s.name : s \in Contracts \cup TwinContracts}
           first(h) == NewNumber(h) + edits
           last(h)  == NewNumber(h) + Cardinality(Extent(h, New)) - 1 + edits
           contract(h) == [name |-> script[h].text, first |-> first(h), last |-> last(h)]
<1>1. Contracts = {contract(h) : h \in Headers(New)}
  BY DEF Contracts
<1>2. \A h \in Headers(New) : contract(h) \in Contracts /\ contract(h).name = script[h].text
  <2> HIDE DEF first, last
  <2> QED
    BY <1>1
<1>3. \A s \in Contracts : s.name \in NamesIn(New)
  <2> HIDE DEF first, last
  <2> QED
    BY <1>1 DEF NamesIn
<1>4. names \subseteq NamesIn(New) \cup {Twin}
  BY <1>3 DEF TwinContracts
<1>5. NamesIn(New) \subseteq names
  <2> HIDE DEF contract
  <2> QED
    BY <1>2 DEF NamesIn
<1>6. Twin \in names
  <2>1. PICK s \in TwinContracts : s.name = Twin
    BY DEF TwinContracts
  <2>2. QED
    BY <2>1
<1>7. QED
  BY <1>4, <1>5, <1>6

LEMMA DeletedNames ==
    ASSUME TypeOK, NamesOK, Resolved, valid
    PROVE  DeletedSymbols = NamesIn(Old) \ NamesIn(New)
<1>1. Twin \notin Name
  BY AnalysisAssumption DEF AnalysisAssumption
<1>2. CASE {s.name : s \in symbols} = NamesIn(New) \cup {Twin}
  <2>1. DeletedSymbols \subseteq NamesIn(Old) \ NamesIn(New)
    BY <1>2 DEF DeletedSymbols, NamesIn
  <2>2. ASSUME NEW n \in NamesIn(Old) \ NamesIn(New) PROVE n \in DeletedSymbols
    <3>1. PICK h \in Headers(Old) : script[h].text = n
      BY DEF NamesIn
    <3>2. h \in Extent(h, Old) /\ InHunk(h)
      BY <3>1, LostHeaders
    <3>3. n \notin {s.name : s \in symbols}
      BY <1>1, <1>2, <3>1 DEF Headers
    <3>4. QED
      BY <3>1, <3>2, <3>3 DEF DeletedSymbols
  <2>3. QED
    BY <2>1, <2>2
<1>3. CASE Changed = {} /\ ~removed
  <2>1. DeletedSymbols = {}
    BY <1>3 DEF DeletedSymbols, InHunk
  <2>2. NamesIn(Old) \ NamesIn(New) = {}
    BY <1>3, LostHeaders DEF NamesIn
  <2>3. QED
    BY <2>1, <2>2
<1>4. QED
  BY <1>2, <1>3 DEF NamesOK

LEMMA NamesStep == TypeOK /\ NamesOK /\ [Next]_vars => NamesOK'
<1> SUFFICES ASSUME TypeOK, NamesOK, [Next]_vars PROVE NamesOK'
  OBVIOUS
<1>1. UNCHANGED <<script, removed>>
  BY DEF Next, ComputeDiff, Read, ContextLine, AddedLine, DeletedLine, EndOfHunks, Parse,
     ReconcileDeleted, PlanExecution, Edit, vars, repo
<1>2. UNCHANGED <<New, Changed, NamesIn(New)>>
  BY <1>1 DEF New, Changed, NamesIn, Headers
<1>3. CASE Parse
  <2> DEFINE names == {s.name : s \in symbols'}
  <2>1. CASE removed /\ symbols' = TwinContracts
    <3>1. names = {Twin} /\ NamesIn(New) = {}
      BY <2>1 DEF TwinContracts, NamesIn, Headers, NamesOK
    <3>2. QED
      BY <1>1, <1>2, <2>1, <3>1 DEF NamesOK
  <2>2. CASE symbols' = Contracts \cup TwinContracts
    <3>1. names = NamesIn(New) \cup {Twin}
      BY <2>2, ContractNames
    <3>2. QED
      BY <1>1, <1>2, <3>1 DEF NamesOK
  <2>3. CASE ~removed /\ symbols' = TwinContracts /\ valid' = (Changed = {})
    <3>1. names = {Twin}
      BY <2>3 DEF TwinContracts
    <3>2. QED
      BY <1>1, <1>2, <2>3, <3>1 DEF NamesOK
  <2>4. QED
    BY <1>3, <2>1, <2>2, <2>3 DEF Parse
<1>4. CASE Resolved /\ UNCHANGED <<symbols, valid>>
  BY <1>1, <1>2, <1>4 DEF NamesOK
<1>5. CASE pc' \notin {"base", "plan", "planned"}
  BY <1>1, <1>2, <1>5 DEF NamesOK, Resolved
<1>6. QED
  BY <1>3, <1>4, <1>5 DEF Next, ComputeDiff, Read, ContextLine, AddedLine, DeletedLine,
     EndOfHunks, ReconcileDeleted, PlanExecution, Edit, vars, parsed, Resolved

LEMMA DeletedStep == TypeOK /\ NamesOK /\ DeletedExact /\ [Next]_vars => DeletedExact'
<1> SUFFICES ASSUME TypeOK, NamesOK, DeletedExact, [Next]_vars PROVE DeletedExact'
  OBVIOUS
<1>1. UNCHANGED script
  BY DEF Next, ComputeDiff, Read, ContextLine, AddedLine, DeletedLine, EndOfHunks, Parse,
     ReconcileDeleted, PlanExecution, Edit, vars, repo
<1>2. UNCHANGED <<NamesIn(Old), NamesIn(New)>>
  BY <1>1 DEF New, Old, NamesIn, Headers
<1>3. CASE ReconcileDeleted
  <2>1. Resolved /\ UNCHANGED valid /\ (baseRead' => deleted' = DeletedSymbols)
    BY <1>3 DEF ReconcileDeleted, Resolved
  <2>2. QED
    BY <1>2, <2>1, DeletedNames DEF DeletedExact
<1>4. CASE Resolved /\ pc # "base" /\ UNCHANGED <<valid, baseRead, deleted>>
  BY <1>2, <1>4 DEF DeletedExact
<1>5. CASE pc' \notin {"plan", "planned"}
  BY <1>5 DEF DeletedExact, Resolved
<1>6. QED
  BY <1>3, <1>4, <1>5 DEF Next, ComputeDiff, Read, ContextLine, AddedLine, DeletedLine,
     EndOfHunks, Parse, PlanExecution, Edit, vars, parsed, Resolved

LEMMA DeletedInit == Init => NamesOK /\ DeletedExact
BY DEF Init, NamesOK, DeletedExact, Resolved

\* When the file and its base version were read, the deleted functions are those whose
\* name is gone, for edit scripts of any length and any number of context lines.
THEOREM DeletedAreExact == Spec => []DeletedExact
<1>1. Init => TypeOK /\ NamesOK /\ DeletedExact
  BY TypeInit, DeletedInit
<1>2. TypeOK /\ NamesOK /\ DeletedExact /\ [Next]_vars => (TypeOK /\ NamesOK /\ DeletedExact)'
  BY TypeStep, NamesStep, DeletedStep
<1>3. QED
  BY <1>1, <1>2, PTL DEF Spec

-----------------------------------------------------------------------------
(* Affected functions                                                      *)
(*                                                                         *)
(* The lines of a function are an interval of the new file, whose numbers  *)
(* the parser gives; a line of the script has a number that lies in it     *)
(* exactly if the line lies between the function's first and last one.     *)

\* A finite set of numbers has a last one: with fewer ranks than members two members
\* would have the same rank.
LEMMA LastOf ==
    ASSUME NEW E, IsFiniteSet(E), E \subseteq Int, E # {}
    PROVE  \E m \in E : \A j \in E : j =< m
<1> DEFINE upTo(i) == {j \in E : j =< i}
           rank == [i \in E |-> Cardinality(upTo(i))]
           n == Cardinality(E)
<1>1. n \in Nat /\ n # 0
  BY FS_CardinalityType, FS_EmptySet
<1>2. ASSUME NEW i \in E
      PROVE  /\ IsFiniteSet(upTo(i)) /\ rank[i] \in 1..n
             /\ rank[i] = n => upTo(i) = E
  <2>1. upTo(i) \in SUBSET E /\ upTo(i) # {}
    OBVIOUS
  <2>2. rank[i] = Cardinality(upTo(i))
    OBVIOUS
  <2> HIDE DEF upTo, rank
  <2>3. IsFiniteSet(upTo(i)) /\ Cardinality(upTo(i)) =< n /\ (n = Cardinality(upTo(i)) => E = upTo(i))
    BY <2>1, FS_Subset
  <2>4. Cardinality(upTo(i)) \in Nat /\ Cardinality(upTo(i)) # 0
    BY <2>1, <2>3, FS_CardinalityType, FS_EmptySet
  <2>5. QED
    BY <1>1, <2>2, <2>3, <2>4
<1>3. ASSUME NEW i \in E, NEW j \in E, i < j PROVE rank[i] # rank[j]
  <2>1. upTo(i) \in SUBSET upTo(j) /\ upTo(i) # upTo(j)
    <3>1. \A k \in E : k =< i => k =< j
      BY <1>3
    <3>2. j \in upTo(j) /\ j \notin upTo(i)
      BY <1>3
    <3>3. QED
      BY <3>1, <3>2
  <2>2. IsFiniteSet(upTo(j))
    BY <1>2
  <2>3. rank[i] = Cardinality(upTo(i)) /\ rank[j] = Cardinality(upTo(j))
    OBVIOUS
  <2> HIDE DEF upTo, rank
  <2>4. QED
    BY <2>1, <2>2, <2>3, FS_Subset
<1>4. ASSUME \A i \in E : rank[i] # n PROVE FALSE
  <2>1. rank \in [E -> 1..(n - 1)]
    <3>1. ASSUME NEW i \in E PROVE rank[i] \in 1..(n - 1)
      <4>1. rank[i] \in 1..n /\ rank[i] # n
        BY <1>2, <1>4
      <4> HIDE DEF rank, n
      <4>2. QED
        BY <1>1, <4>1
    <3>2. QED
      BY <3>1
  <2>2. IsFiniteSet(1..(n - 1)) /\ Cardinality(1..(n - 1)) = n - 1
    <3> HIDE DEF n
    <3> DEFINE k == n - 1
    <3>1. 1 \in Int /\ k \in Nat
      BY <1>1
    <3> HIDE DEF k
    <3>2. IsFiniteSet(1..k) /\ Cardinality(1..k) = IF 1 > k THEN 0 ELSE k - 1 + 1
      BY <3>1, FS_Interval
    <3>3. Cardinality(1..k) = k
      BY <3>1, <3>2
    <3>4. QED
      BY <3>2, <3>3 DEF k
  <2>3. Cardinality(1..(n - 1)) < Cardinality(E)
    BY <1>1, <2>2
  <2> HIDE DEF rank, n
  <2>4. \E x, y \in E : x # y /\ rank[x] = rank[y]
    BY <2>1, <2>2, <2>3, FS_PigeonHole
  <2>5. QED
    BY <1>3, <2>4
<1>5. PICK m \in E : rank[m] = n
  BY <1>4
<1>6. upTo(m) = E
  BY <1>2, <1>5
<1>7. QED
  BY <1>6

LEMMA Numbers ==
    ASSUME script \in Seq(Line), NEW i \in Nat, NEW j \in Nat
    PROVE  /\ NewNumber(i) \in Nat /\ NewNumber(j) \in Nat
           /\ i =< j => NewNumber(i) =< NewNumber(j)
           /\ i < j /\ j \in New => NewNumber(i) < NewNumber(j)
<1> DEFINE upTo(k) == {l \in New : l =< k}
<1>1. NewNumber(i) \in Nat /\ NewNumber(j) \in Nat
  BY NewNumberType
<1>2. New \subseteq Nat /\ upTo(i) \subseteq DOMAIN script /\ upTo(j) \subseteq DOMAIN script
  BY ScriptLines DEF New
<1>3. IsFiniteSet(upTo(j)) /\ NewNumber(i) = Cardinality(upTo(i)) /\ NewNumber(j) = Cardinality(upTo(j))
  BY <1>2, ScriptLines DEF NewNumber
<1>4. i =< j => upTo(i) \in SUBSET upTo(j)
  BY <1>2
<1>5. i < j /\ j \in New => j \in upTo(j) /\ j \notin upTo(i)
  OBVIOUS
<1> HIDE DEF upTo
<1>6. i =< j => /\ NewNumber(i) =< NewNumber(j)
                /\ (NewNumber(i) = NewNumber(j) => upTo(i) = upTo(j))
  BY <1>3, <1>4, FS_Subset
<1>7. QED
  BY <1>1, <1>5, <1>6

\* The lines of a function, and the numbers of its first and last one.
LEMMA ExtentLines ==
    ASSUME script \in Seq(Line), NEW h \in Headers(New)
    PROVE  \E m \in New :
             /\ h =< m
             /\ Extent(h, New) = {j \in New : h =< j /\ j =< m}
             /\ NewNumber(h) + Cardinality(Extent(h, New)) - 1 = NewNumber(m)
<1> DEFINE E == Extent(h, New)
<1>1. New \subseteq Nat /\ New \subseteq DOMAIN script /\ h \in New
  BY ScriptLines DEF New, Headers
<1>2. h \in E /\ E \subseteq New
  <2>1. \A k \in New : ~(h < k /\ k =< h)
    BY <1>1
  <2>2. QED
    BY <1>1, <2>1 DEF Extent
<1>3. IsFiniteSet(E)
  BY <1>1, <1>2, ScriptLines
<1>4. PICK m \in E : \A j \in E : j =< m
  <2> HIDE DEF E
  <2>1. E # {} /\ E \subseteq Int
    BY <1>1, <1>2
  <2>2. QED
    BY <1>3, <2>1, LastOf
<1>5. m \in New /\ h =< m
  BY <1>2, <1>4
<1>6. E = {j \in New : h =< j /\ j =< m}
  <2>1. PICK last \in New :
          /\ m =< last
          /\ last = h \/ script[last].text \in {"body", "nested"}
          /\ \A k \in New : h < k /\ k =< last => script[k].text \in {"body", "nested", "blank"}
    BY <1>4 DEF Extent
  <2>2. ASSUME NEW j \in New, h =< j, j =< m PROVE j \in E
    <3>1. j =< last
      BY <1>1, <1>5, <2>1, <2>2
    <3>2. QED
      BY <2>1, <2>2, <3>1 DEF Extent
  <2>3. \A j \in E : h =< j
    BY DEF Extent
  <2> HIDE DEF E
  <2>4. QED
    BY <1>2, <1>4, <2>2, <2>3
<1>7. NewNumber(h) + Cardinality(E) - 1 = NewNumber(m)
  <2> DEFINE below == {j \in New : j < h}
             upTo == {j \in New : j =< m}
  <2>1. upTo = below \cup E /\ below \cap E = {}
    <3>1. \A j \in New : /\ j =< m <=> j < h \/ (h =< j /\ j =< m)
                         /\ ~(j < h /\ h =< j)
      BY <1>1, <1>5
    <3> HIDE DEF E
    <3>2. QED
      BY <1>6, <3>1
  <2>2. IsFiniteSet(below) /\ Cardinality(below) \in Nat /\ Cardinality(E) \in Nat
    <3>1. below \subseteq DOMAIN script /\ E \subseteq DOMAIN script
      BY <1>1, <1>2
    <3> HIDE DEF below, E
    <3>2. QED
      BY <3>1, ScriptLines
  <2>3. Cardinality(upTo) = Cardinality(below) + Cardinality(E)
    <3> HIDE DEF below, E, upTo
    <3>1. Cardinality(below \cup E) = Cardinality(below) + Cardinality(E) - Cardinality(below \cap E)
      BY <1>3, <2>2, FS_Union
    <3>2. Cardinality(below \cap E) = 0
      BY <2>1, FS_EmptySet
    <3>3. QED
      BY <2>1, <2>2, <3>1, <3>2
  <2>4. NewNumber(m) = Cardinality(upTo) /\ NewNumber(h) = Cardinality(below) + 1
    BY <1>1, Counts DEF NewNumber, Before
  <2> HIDE DEF below, E, upTo
  <2>5. QED
    BY <2>2, <2>3, <2>4
<1>8. QED
  BY <1>5, <1>6, <1>7

\* What the property calls a change of the function whose header is line h.
Changes(h) ==
    \E i \in Changed :
        \/ script[i].op = "+" /\ i \in Extent(h, New)
        \/ script[i].op = "-" /\ h < i /\ \E j \in Extent(h, New) : i < j
        \/ /\ script[i].op = "-" /\ LostBody(i)
           /\ \E j \in Extent(h, New) : j < i /\ ~\E k \in New : j < k /\ k < i

LEMMA IntersectedExactly ==
    ASSUME TypeOK, HunksExact, Resolved, NEW h \in Headers(New), NEW s,
           s.first = NewNumber(h), s.last = NewNumber(h) + Cardinality(Extent(h, New)) - 1
    PROVE  Intersected(s) <=> Changes(h)
<1>1. script \in Seq(Line) /\ DOMAIN script \subseteq Nat /\ h \in New
  BY ScriptLines DEF TypeOK, RepositoryOK, Headers
<1>2. PICK m \in New :
        /\ h =< m
        /\ Extent(h, New) = {j \in New : h =< j /\ j =< m}
        /\ s.last = NewNumber(m)
  BY <1>1, ExtentLines
<1>3. Start = 1
  BY <1>1 DEF Start
<1>4. New \subseteq Nat /\ Old \subseteq Nat /\ Changed \subseteq Nat
  BY <1>1 DEF New, Old, Changed
<1>5. \A i \in Nat : NewNumber(i) \in Nat
  BY <1>1, NewNumberType
<1>6. added = {NewNumber(i) : i \in {j \in New : script[j].op = "+"}}
  <2>1. \A i \in New : NewNumber(i) + Start - 1 = NewNumber(i)
    BY <1>3, <1>4, <1>5
  <2>2. QED
    BY <2>1 DEF HunksExact
<1>7. boundaries = {[next |-> NewNumber(i) + 1, indented |-> LostBody(i)] :
                        i \in {j \in Old : script[j].op = "-"}}
  BY <1>3 DEF HunksExact
<1>8. \A i \in Nat :
        /\ h =< i => NewNumber(h) =< NewNumber(i)
        /\ i =< m => NewNumber(i) =< NewNumber(m)
        /\ i < h => NewNumber(i) < NewNumber(h)
        /\ i < m => NewNumber(i) < NewNumber(m)
        /\ m =< i => NewNumber(m) =< NewNumber(i)
        /\ \A k \in New : k =< i => NewNumber(k) =< NewNumber(i)
        /\ \A k \in New : m < k => NewNumber(m) < NewNumber(k)
  BY <1>1, <1>2, <1>4, Numbers
<1>9. \A i \in Changed :
        /\ script[i].op = "+" => i \in New
        /\ script[i].op = "-" => i \in Old /\ i \notin New
  BY DEF Changed, New, Old
<1>10. \A i \in New \cup Old : script[i].op # " " => i \in Changed
  BY DEF Changed, New, Old
<1>11. \A i \in New : NewNumber(h) =< NewNumber(i) /\ NewNumber(i) =< NewNumber(m)
                       <=> i \in Extent(h, New)
  <2> TAKE i \in New
  <2>1. i \in Nat /\ m \in Nat /\ h \in Nat
    BY <1>1, <1>2, <1>4
  <2>2. m < i => NewNumber(m) < NewNumber(i)
    BY <1>8, <2>1
  <2>3. QED
    BY <1>2, <1>5, <1>8, <2>1, <2>2
<1>12. (\E line \in added : s.first =< line /\ line =< s.last)
       <=> \E i \in Changed : script[i].op = "+" /\ i \in Extent(h, New)
  BY <1>2, <1>6, <1>9, <1>10, <1>11
\* A line deleted between two lines of the function.
<1>13. ASSUME NEW i \in Old, script[i].op = "-"
       PROVE  (NewNumber(h) =< NewNumber(i) /\ NewNumber(i) + 1 =< NewNumber(m))
              <=> (h < i /\ \E j \in Extent(h, New) : i < j)
  <2>1. i \in Nat /\ m \in Nat /\ h \in Nat /\ i # h /\ i # m
    BY <1>1, <1>2, <1>4, <1>13 DEF New
  <2>2. (\E j \in Extent(h, New) : i < j) <=> i < m
    <3>1. m \in Extent(h, New)
      BY <1>2, <2>1
    <3>2. \A j \in Extent(h, New) : j =< m /\ j \in Nat
      BY <1>2, <1>4
    <3>3. QED
      BY <2>1, <3>1, <3>2
  <2>3. NewNumber(h) =< NewNumber(i) <=> h < i
    BY <1>5, <1>8, <2>1
  <2>4. NewNumber(i) + 1 =< NewNumber(m) <=> i < m
    BY <1>5, <1>8, <2>1
  <2>5. QED
    BY <2>2, <2>3, <2>4
\* A line deleted right behind the last one.
<1>14. ASSUME NEW i \in Old, script[i].op = "-", NewNumber(i) = NewNumber(m)
       PROVE  \E j \in Extent(h, New) : j < i /\ ~\E k \in New : j < k /\ k < i
  <2>1. i \in Nat /\ m \in Nat /\ i # m /\ m \in Extent(h, New)
    BY <1>1, <1>2, <1>4, <1>14 DEF New
  <2>2. m < i
    BY <1>5, <1>8, <1>14, <2>1
  <2>3. ASSUME NEW k \in New, m < k, k < i PROVE FALSE
    BY <1>4, <1>5, <1>8, <1>14, <2>1, <2>3
  <2>4. QED
    BY <2>1, <2>2, <2>3
<1>15. ASSUME NEW i \in Old, script[i].op = "-",
              NEW j \in Extent(h, New), j < i, ~\E k \in New : j < k /\ k < i
       PROVE  \/ NewNumber(i) = NewNumber(m)
              \/ h < i /\ \E l \in Extent(h, New) : i < l
  <2>1. /\ i \in Nat /\ m \in Nat /\ h \in Nat /\ i # m /\ i \notin New
        /\ j \in Nat /\ h =< j /\ j =< m /\ m \in Extent(h, New)
    BY <1>1, <1>2, <1>4, <1>15 DEF New
  <2>2. CASE i < m
    BY <1>15, <2>1, <2>2
  <2>3. CASE m < i
    <3>1. j = m
      BY <1>15, <2>1, <2>3
    <3>2. \A k \in New : k =< i <=> k =< m
      BY <1>4, <1>15, <2>1, <2>3, <3>1
    <3>3. {k \in New : k =< i} = {k \in New : k =< m}
      BY <3>2
    <3>4. QED
      BY <3>3 DEF NewNumber
  <2>4. QED
    BY <2>1, <2>2, <2>3
<1> DEFINE gone == {i \in Old : script[i].op = "-"}
           boundary(i) == [next |-> NewNumber(i) + 1, indented |-> LostBody(i)]
<1>16. boundaries = {boundary(i) : i \in gone}
  BY <1>7
<1>17. \A i \in gone : /\ boundary(i).next = NewNumber(i) + 1
                       /\ boundary(i).next - 1 = NewNumber(i)
                       /\ boundary(i).indented = LostBody(i)
  BY <1>4, <1>5
<1>18. Intersected(s) <=>
         \/ \E i \in Changed : script[i].op = "+" /\ i \in Extent(h, New)
         \/ \E i \in gone : NewNumber(h) =< NewNumber(i) /\ NewNumber(i) + 1 =< NewNumber(m)
         \/ \E i \in gone : NewNumber(i) = NewNumber(m) /\ LostBody(i)
  <2> HIDE DEF boundary, gone
  <2>1. QED
    BY <1>2, <1>12, <1>16, <1>17 DEF Intersected
<1>19. gone = {i \in Changed : script[i].op = "-"}
  BY <1>9, <1>10
<1>20. ASSUME Intersected(s) PROVE Changes(h)
  <2>1. CASE \E i \in Changed : script[i].op = "+" /\ i \in Extent(h, New)
    BY <2>1 DEF Changes
  <2>2. CASE \E i \in gone : NewNumber(h) =< NewNumber(i) /\ NewNumber(i) + 1 =< NewNumber(m)
    BY <1>10, <1>13, <2>2 DEF Changes
  <2>3. CASE \E i \in gone : NewNumber(i) = NewNumber(m) /\ LostBody(i)
    BY <1>10, <1>14, <2>3 DEF Changes
  <2>4. QED
    BY <1>18, <1>20, <2>1, <2>2, <2>3
<1>21. ASSUME Changes(h) PROVE Intersected(s)
  <2>1. PICK i \in Changed :
        \/ script[i].op = "+" /\ i \in Extent(h, New)
        \/ script[i].op = "-" /\ h < i /\ \E j \in Extent(h, New) : i < j
        \/ /\ script[i].op = "-" /\ LostBody(i)
           /\ \E j \in Extent(h, New) : j < i /\ ~\E k \in New : j < k /\ k < i
    BY <1>21 DEF Changes
  <2>2. CASE script[i].op = "+" /\ i \in Extent(h, New)
    BY <1>18, <2>2
  <2>3. CASE script[i].op = "-" /\ h < i /\ \E j \in Extent(h, New) : i < j
    BY <1>9, <1>13, <1>18, <2>3
  <2>4. CASE /\ script[i].op = "-" /\ LostBody(i)
             /\ \E j \in Extent(h, New) : j < i /\ ~\E k \in New : j < k /\ k < i
    <3>1. i \in Old
      BY <1>9, <2>4
    <3>2. \/ NewNumber(i) = NewNumber(m)
          \/ h < i /\ \E l \in Extent(h, New) : i < l
      BY <1>15, <2>4, <3>1
    <3>3. QED
      BY <1>13, <1>18, <2>4, <3>1, <3>2
  <2>5. QED
    BY <2>1, <2>2, <2>3, <2>4
<1>22. QED
  BY <1>20, <1>21

\* A function is known by its name, and what is affected follows from what was read.
ParsedOK ==
    /\ \A h, k \in Headers(New) : script[h].text = script[k].text => h = k
    /\ Resolved =>
          /\ affected = ResolveAffectedSymbols(symbols)
          /\ symbols \in {TwinContracts, Contracts \cup TwinContracts}

LEMMA ParsedInit == Init => ParsedOK
BY DEF Init, ParsedOK, IsPython, Resolved

LEMMA ParsedStep == TypeOK /\ ParsedOK /\ [Next]_vars => ParsedOK'
<1> SUFFICES ASSUME TypeOK, ParsedOK, [Next]_vars PROVE ParsedOK'
  OBVIOUS
<1>1. UNCHANGED script
  BY DEF Next, ComputeDiff, Read, ContextLine, AddedLine, DeletedLine, EndOfHunks, Parse,
     ReconcileDeleted, PlanExecution, Edit, vars, repo
<1>2. UNCHANGED <<Headers(New), Start>>
  BY <1>1 DEF New, Headers, Start
<1>3. \A h, k \in Headers(New)' : script'[h].text = script'[k].text => h = k
  BY <1>1, <1>2 DEF ParsedOK
<1>4. UNCHANGED edits => UNCHANGED Contracts
  BY <1>1 DEF Contracts, Headers, New, NewNumber, Extent
<1>5. UNCHANGED <<added, boundaries>> => \A all : UNCHANGED ResolveAffectedSymbols(all)
  BY DEF ResolveAffectedSymbols, Intersected
<1>6. UNCHANGED TwinContracts
  BY DEF TwinContracts
<1>7. CASE Parse
  <2>1. UNCHANGED <<added, boundaries, edits>>
    BY <1>7 DEF Parse, hunks
  <2>2. affected' = ResolveAffectedSymbols(symbols')
        /\ symbols' \in {TwinContracts, Contracts \cup TwinContracts}
    BY <1>7 DEF Parse
  <2>3. ResolveAffectedSymbols(symbols)' = ResolveAffectedSymbols(symbols')
    BY <2>1 DEF ResolveAffectedSymbols, Intersected
  <2>4. QED
    BY <1>3, <1>4, <1>6, <2>1, <2>2, <2>3 DEF ParsedOK
<1>8. CASE Resolved /\ UNCHANGED <<symbols, affected, added, boundaries, edits>>
  <2>1. UNCHANGED ResolveAffectedSymbols(symbols)
    BY <1>8 DEF ResolveAffectedSymbols, Intersected
  <2>2. QED
    BY <1>3, <1>4, <1>6, <1>8, <2>1 DEF ParsedOK
<1>9. CASE pc' \notin {"base", "plan", "planned"}
  BY <1>3, <1>9 DEF ParsedOK, Resolved
<1>10. QED
  BY <1>7, <1>8, <1>9 DEF Next, ComputeDiff, Read, ContextLine, AddedLine, DeletedLine,
     EndOfHunks, ReconcileDeleted, PlanExecution, Edit, vars, hunks, parsed, Resolved

LEMMA AffectedFollow == TypeOK /\ HunksExact /\ ParsedOK => AffectedExact
<1> SUFFICES ASSUME TypeOK, HunksExact, ParsedOK, Resolved, edits = 0,
                    NEW h \in Headers(New), script[h].text \in {s.name : s \in symbols}
             PROVE  script[h].text \in affected <=> Changes(h)
  BY DEF AffectedExact, Changes
<1> DEFINE n == script[h].text
           contract(k) == [name  |-> script[k].text,
                           first |-> NewNumber(k) + edits,
                           last  |-> NewNumber(k) + Cardinality(Extent(k, New)) - 1 + edits]
<1>1. n \in Name /\ n # Twin
  BY AnalysisAssumption DEF Headers, AnalysisAssumption
<1>2. Contracts = {contract(k) : k \in Headers(New)}
  BY DEF Contracts
<1>3. \A s \in TwinContracts : s.name = Twin
  BY DEF TwinContracts
<1>4. symbols = Contracts \cup TwinContracts
  BY <1>1, <1>3 DEF ParsedOK
<1>5. \A k \in Headers(New) : contract(k).name = script[k].text
  OBVIOUS
<1>6. contract(h) \in symbols /\ contract(h).name = n
  <2> HIDE DEF contract
  <2>1. QED
    BY <1>2, <1>4, <1>5
<1>7. \A s \in symbols : s.name = n => s = contract(h)
  <2> HIDE DEF contract
  <2>1. QED
    BY <1>1, <1>2, <1>3, <1>4, <1>5 DEF ParsedOK
<1>8. n \in affected <=> Intersected(contract(h))
  <2> HIDE DEF contract
  <2>1. affected = {s.name : s \in {r \in symbols : Intersected(r)}}
    BY DEF ParsedOK, ResolveAffectedSymbols
  <2>2. QED
    BY <1>6, <1>7, <2>1
<1>9. /\ contract(h).first = NewNumber(h)
      /\ contract(h).last = NewNumber(h) + Cardinality(Extent(h, New)) - 1
  <2>1. script \in Seq(Line) /\ Extent(h, New) \subseteq DOMAIN script
    BY DEF TypeOK, RepositoryOK, Extent, New
  <2>2. NewNumber(h) \in Nat /\ Cardinality(Extent(h, New)) \in Nat
    BY <2>1, ScriptLines, NewNumberType
  <2>3. QED
    BY <2>2
<1> HIDE DEF contract
<1>10. QED
  BY <1>8, <1>9, IntersectedExactly

\* What the analysis finds affected is what was changed in the new file: the lines of
\* the diff meet the lines of the functions where they do in the script, for edit
\* scripts of any length and any number of functions.
THEOREM AffectedAreExact == Spec => []AffectedExact
<1>1. Init => TypeOK /\ ParsedOK
  BY TypeInit, ParsedInit
<1>2. TypeOK /\ ParsedOK /\ [Next]_vars => (TypeOK /\ ParsedOK)'
  BY TypeStep, ParsedStep
<1>3. QED
  BY <1>1, <1>2, AffectedFollow, HunksAreExact, PTL DEF Spec

-----------------------------------------------------------------------------
(* The change and the plan *)

\* The plan is what the rules make of what was found.
PlanMade ==
    plan # NoPlan =>
        /\ pc = "planned"
        /\ plan = EvaluatePrecedenceRules(DiffHunks, affected, deleted, SymbolToTestFiles)

LEMMA PlanMadeStep == TypeOK /\ PlanMade /\ [Next]_vars => PlanMade'
<1> SUFFICES ASSUME TypeOK, PlanMade, [Next]_vars PROVE PlanMade'
  OBVIOUS
<1>1. CASE PlanExecution
  <2>1. UNCHANGED DiffHunks
    BY <1>1 DEF PlanExecution, repo, DiffHunks, Changed
  <2>2. QED
    BY <1>1, <2>1 DEF PlanExecution, parsed, PlanMade
<1>2. CASE plan = NoPlan /\ ~PlanExecution
  BY <1>2 DEF PlanMade, NoPlan, Next, ComputeDiff, Read, ContextLine, AddedLine, DeletedLine,
     EndOfHunks, Parse, ReconcileDeleted, Edit, vars, asked
<1>3. CASE plan # NoPlan
  <2>1. UNCHANGED vars
    BY <1>3 DEF PlanMade, Next, ComputeDiff, Read, ContextLine, AddedLine, DeletedLine,
       EndOfHunks, Parse, ReconcileDeleted, PlanExecution, Edit
  <2>2. QED
    BY <2>1 DEF PlanMade, vars, repo, parsed, asked, DiffHunks, Changed, SymbolToTestFiles, NoPlan
<1>4. QED
  BY <1>1, <1>2, <1>3

\* The rules forget neither a symbol that is affected nor the tests of one that is gone.
LEMMA RulesComplete ==
    ASSUME NEW hs, "code" \in hs, NEW all, NEW del, NEW tests
    PROVE  LET p == EvaluatePrecedenceRules(hs, all, del, tests) IN
           /\ \A s \in all : IF tests[s] = {} THEN s \in p.targets
                                             ELSE tests[s] \subseteq p.existing
           /\ \A s \in del : tests[s] \subseteq p.existing
<1> DEFINE covered == Covered(all, tests)
           regression == TestsOf(covered \cup Covered(del, tests), tests)
           p == EvaluatePrecedenceRules(hs, all, del, tests)
<1>1. \A s \in all : s \in covered <=> tests[s] # {}
  BY DEF Covered
<1>2. \A s \in del : tests[s] # {} => s \in Covered(del, tests)
  BY DEF Covered
<1>3. \A s \in covered \cup Covered(del, tests) : tests[s] \subseteq regression
  BY DEF TestsOf
<1>4. all # {} \/ Covered(del, tests) # {} =>
        p.targets = all \ covered /\ p.existing = regression
  <2>1. covered \subseteq all
    BY DEF Covered
  <2>2. QED
    BY <2>1 DEF EvaluatePrecedenceRules, ExecutionPlan
<1> HIDE DEF covered, regression, p
<1>5. ASSUME NEW s \in all
      PROVE  IF tests[s] = {} THEN s \in p.targets ELSE tests[s] \subseteq p.existing
  BY <1>1, <1>3, <1>4
<1>6. ASSUME NEW s \in del PROVE tests[s] \subseteq p.existing
  <2>1. CASE tests[s] = {}
    BY <2>1
  <2>2. CASE tests[s] # {}
    BY <1>2, <1>3, <1>4, <2>2
  <2>3. QED
    BY <2>1, <2>2
<1>7. QED
  BY <1>5, <1>6 DEF p

LEMMA ChangeFollows ==
    TypeOK /\ NamesOK /\ PlanMade /\ AffectedExact /\ DeletedExact => ChangeIsPlanned
<1> SUFFICES ASSUME TypeOK, NamesOK, PlanMade, AffectedExact, DeletedExact,
                    plan # NoPlan, valid, baseRead, edits = 0
             PROVE  /\ \A h \in Headers(New) :
                          (\E i \in Extent(h, New) : script[i].op = "+") =>
                             LET n == script[h].text
                             IN  IF Exercising(n) = {} THEN n \in plan.targets
                                 ELSE Exercising(n) \subseteq plan.existing
                    /\ \A n \in NamesIn(Old) \ NamesIn(New) : Exercising(n) \subseteq plan.existing
  BY DEF ChangeIsPlanned
<1>1. /\ pc = "planned" /\ Resolved /\ PlanOK
      /\ plan = EvaluatePrecedenceRules(DiffHunks, affected, deleted, SymbolToTestFiles)
  BY DEF PlanMade, Resolved, TypeOK
<1>2. ASSUME NEW h \in Headers(New), NEW i \in Extent(h, New), script[i].op = "+"
      PROVE  LET n == script[h].text
             IN  IF Exercising(n) = {} THEN n \in plan.targets
                 ELSE Exercising(n) \subseteq plan.existing
  <2> DEFINE n == script[h].text
  <2>1. i \in Changed
    BY <1>2 DEF Extent, New, Changed
  <2>2. n \in {s.name : s \in symbols}
    BY <1>1, <2>1 DEF NamesOK, NamesIn
  <2>3. n \in affected
    BY <1>1, <1>2, <2>1, <2>2 DEF AffectedExact
  <2>4. SymbolToTestFiles[n] = Exercising(n)
    BY <1>1, ExercisingTests DEF Headers, Symbol
  <2>5. "code" \in DiffHunks
    BY <2>1 DEF DiffHunks
  <2>6. QED
    BY <1>1, <2>3, <2>4, <2>5, RulesComplete
<1>3. ASSUME NEW n \in NamesIn(Old) \ NamesIn(New)
      PROVE  Exercising(n) \subseteq plan.existing
  <2>1. PICK h \in Headers(Old) : script[h].text = n
    BY DEF NamesIn
  <2>2. h \in Changed
    BY <2>1, LostHeaders
  <2>3. n \in deleted
    BY <1>1 DEF DeletedExact
  <2>4. SymbolToTestFiles[n] = Exercising(n)
    BY <1>1, <2>1, ExercisingTests DEF Headers, Symbol
  <2>5. "code" \in DiffHunks
    BY <2>2 DEF DiffHunks
  <2>6. QED
    BY <1>1, <2>3, <2>4, <2>5, RulesComplete
<1>4. QED
  BY <1>2, <1>3

\* Nothing that could be read is forgotten between git and the plan: a function with an
\* added line is tested by the tests that call it or is a target, and the tests of a
\* function that is gone run.
THEOREM ChangesArePlanned == Spec => []ChangeIsPlanned
<1>1. Init => TypeOK /\ NamesOK /\ PlanMade
  BY TypeInit, DeletedInit DEF Init, PlanMade
<1>2. TypeOK /\ NamesOK /\ PlanMade /\ [Next]_vars => (TypeOK /\ NamesOK /\ PlanMade)'
  BY TypeStep, NamesStep, PlanMadeStep
<1>3. QED
  BY <1>1, <1>2, ChangeFollows, AffectedAreExact, DeletedAreExact, PTL DEF Spec

=============================================================================
