-------------------------- MODULE WorkflowProofs --------------------------
(***************************************************************************)
(* For any number of processes, symbols, crashes and faults, and however   *)
(* the processes overlap: the tables keep their types and their foreign    *)
(* keys, and every checkpoint continues another.                           *)
(***************************************************************************)
EXTENDS WorkflowProperties, TLAPS

-----------------------------------------------------------------------------
(* The data of a run *)

USE DEF Start, Ingest, Plan, Generate, Validate, Execute, Diagnose, Report

\* What a node leaves behind: the fields of the later nodes are still empty.
Done(n, st) ==
    /\ st.plan = NoPlan <=> n \in {Start, Ingest}
    /\ n \in {Start, Ingest, Plan} => st.candidates = {}
    /\ n \notin {Execute, Diagnose, Report} => st.baseline = {} /\ st.evidences = {}
    /\ n \notin {Diagnose, Report} => st.diagnoses = {}

\* What a node is given.
Ready(n, st) ==
    /\ st.plan = NoPlan <=> n \in {Ingest, Plan}
    /\ n \in {Ingest, Plan, Generate} => st.candidates = {}
    /\ n \notin {Diagnose, Report} => st.baseline = {} /\ st.evidences = {}
    /\ n # Report => st.diagnoses = {}

\* Evidence and diagnoses refer to what the state holds.
Grounded(st) ==
    /\ \A e \in AllEvidence(st) : \A id \in e.of : \E c \in st.candidates : c.id = id
    /\ \A d \in st.diagnoses : d.of \in AllEvidence(st)

\* The successor of a checkpoint is ready to be executed on its state.
LEMMA SuccessorReady ==
    ASSUME NEW c \in Checkpoint, Done(c.node, c.state), c.node # Report
    PROVE  Successor(c) \in Node /\ Ready(Successor(c), c.state)
<1>1. c.state.plan = NoPlan \/ c.state.plan.route \in Route
  BY DEF Checkpoint, WorkflowState, ExecutionPlan
<1>2. QED
  BY <1>1 DEF Checkpoint, Node, Done, Ready, Successor, NextNode, RouteAfterPlanning,
     RouteAfterValidation, RouteAfterExecution, Route, NoOp, Docker, Generation

\* Resumption after a checkpoint goes where the engine would have gone.
LEMMA ResumeIsSuccessor ==
    ASSUME NEW c \in Checkpoint, c.node # Report
    PROVE  ResumeNode(StepIndex(c.node), c.state) = Successor(c)
BY DEF Checkpoint, Node, StepIndex, ResumeNode, Successor, NextNode

LEMMA AfterIngestOK ==
    ASSUME NEW st \in WorkflowState, Ready(Ingest, st), Grounded(st)
    PROVE  LET t == AfterIngest(st) IN
           t \in WorkflowState /\ Done(Ingest, t) /\ Grounded(t) /\ Extends(st, t)
BY DEF AfterIngest, WorkflowState, Ready, Done, Grounded, Extends, AllEvidence

LEMMA AfterPlanOK ==
    ASSUME NEW st \in WorkflowState, Ready(Plan, st), Grounded(st),
           NEW pl \in Plannable
    PROVE  LET t == AfterPlan(st, pl) IN
           t \in WorkflowState /\ Done(Plan, t) /\ Grounded(t) /\ Extends(st, t)
<1>1. pl \in ExecutionPlan /\ pl # NoPlan
  BY DEF Plannable, ExecutionPlan, NoPlan, Route, NoOp, Docker, Generation, NoRoute
<1>2. QED
  BY <1>1 DEF AfterPlan, WorkflowState, Ready, Done, Grounded, Extends, AllEvidence

LEMMA AfterGenerateOK ==
    ASSUME NEW st \in WorkflowState, Ready(Generate, st), Grounded(st),
           NEW p \in Proc, NEW quarantined
    PROVE  LET t == AfterGenerate(st, p, quarantined) IN
           t \in WorkflowState /\ Done(Generate, t) /\ Grounded(t) /\ Extends(st, t)
<1>1. st.plan.targets \subseteq Symbol
  BY DEF WorkflowState, ExecutionPlan, NoPlan
<1> DEFINE t == AfterGenerate(st, p, quarantined)
<1>2. t.candidates \subseteq Candidate
  BY <1>1 DEF AfterGenerate, WorkflowState, Candidate, CandidateId
<1>3. t \in WorkflowState
  BY <1>2 DEF AfterGenerate, WorkflowState
<1>4. QED
  BY <1>3 DEF AfterGenerate, WorkflowState, Ready, Done, Grounded, Extends, AllEvidence

LEMMA AfterValidateOK ==
    ASSUME NEW st \in WorkflowState, Ready(Validate, st), Grounded(st), NEW sound
    PROVE  LET t == AfterValidate(st, sound) IN
           /\ t \in WorkflowState /\ Done(Validate, t) /\ Grounded(t) /\ Extends(st, t)
           /\ \A c \in t.candidates : \E d \in st.candidates : d.id = c.id
<1> DEFINE t == AfterValidate(st, sound)
           u(c) == [c EXCEPT !.status = IF c.status = "QUARANTINED" THEN "QUARANTINED"
                              ELSE IF c.id \in sound THEN "PASSED" ELSE "REJECTED"]
<1>1. \A c \in st.candidates : u(c) \in Candidate /\ u(c).id = c.id
  BY DEF WorkflowState, Candidate
<1>2. t.candidates = {u(c) : c \in st.candidates}
  BY DEF AfterValidate, WorkflowState
<1>3. t \in WorkflowState
  BY <1>1, <1>2 DEF AfterValidate, WorkflowState
<1>4. /\ t.plan = st.plan /\ t.baseline = st.baseline /\ t.evidences = st.evidences
      /\ t.diagnoses = st.diagnoses /\ t.snapshot = st.snapshot
  BY DEF AfterValidate, WorkflowState
<1>5. \A c \in t.candidates : \E d \in st.candidates : d.id = c.id
  BY <1>1, <1>2
<1>6. \A d \in st.candidates : \E c \in t.candidates : d.id = c.id
  BY <1>1, <1>2
<1>. HIDE DEF t
<1>7. Done(Validate, t) /\ Grounded(t)
  BY <1>4, <1>6 DEF Ready, Done, Grounded, AllEvidence
<1>8. Extends(st, t)
  BY <1>4, <1>6 DEF Extends, AllEvidence
<1>9. QED
  BY <1>3, <1>5, <1>7, <1>8 DEF t

LEMMA AfterExecuteOK ==
    ASSUME NEW st \in WorkflowState, Ready(Execute, st), Grounded(st),
           NEW p \in Proc, NEW failing
    PROVE  LET t == AfterExecute(st, p, failing) IN
           t \in WorkflowState /\ Done(Execute, t) /\ Grounded(t) /\ Extends(st, t)
<1> DEFINE t == AfterExecute(st, p, failing)
           row(c) == [by |-> p, of |-> {c.id}, failed |-> {c.id} \in failing]
           base == {[by |-> p, of |-> {}, failed |-> {} \in failing]}
           each == {row(c) : c \in PassedCandidates(st)}
           B == IF st.baseline = {} /\ st.plan.tests THEN base ELSE st.baseline
           E == IF PassedCandidates(st) # {} THEN each ELSE st.evidences
<1>1. t = [st EXCEPT !.baseline = B, !.evidences = E]
  BY DEF AfterExecute
<1>2. base \subseteq Evidence /\ \A e \in base : e.of = {}
  BY DEF Evidence
<1>3. each \subseteq Evidence /\ \A e \in each : \A id \in e.of :
          \E c \in st.candidates : c.id = id
  <2>1. \A c \in PassedCandidates(st) :
            c \in st.candidates /\ c.id \in CandidateId
    BY DEF PassedCandidates, WorkflowState, Candidate
  <2>2. \A c \in PassedCandidates(st) : row(c) \in Evidence /\ row(c).of = {c.id}
    BY <2>1 DEF Evidence
  <2> HIDE DEF row
  <2>3. QED
    BY <2>1, <2>2
<1>4. st.baseline = {} /\ st.evidences = {} /\ st.diagnoses = {} /\ st.plan # NoPlan
  BY DEF Ready, Node
<1>5. B \in {{}, base} /\ E \in {{}, each}
  BY <1>4
<1> HIDE DEF t, base, each, B, E
<1>6. /\ t.baseline = B /\ t.evidences = E
      /\ t.plan = st.plan /\ t.candidates = st.candidates /\ t.snapshot = st.snapshot
      /\ t.diagnoses = st.diagnoses
  BY <1>1 DEF WorkflowState
<1>7. B \subseteq Evidence /\ E \subseteq Evidence
  BY <1>2, <1>3, <1>5
<1>8. t \in WorkflowState
  BY <1>1, <1>7 DEF WorkflowState
<1>9. Done(Execute, t)
  BY <1>4, <1>6 DEF Done
<1>10. Grounded(t)
  BY <1>2, <1>3, <1>4, <1>5, <1>6 DEF Grounded, AllEvidence
<1>11. Extends(st, t)
  BY <1>4, <1>6 DEF Extends, AllEvidence
<1>12. QED
  BY <1>8, <1>9, <1>10, <1>11 DEF t

LEMMA AfterDiagnoseOK ==
    ASSUME NEW st \in WorkflowState, Ready(Diagnose, st), Grounded(st), NEW p \in Proc
    PROVE  LET t == AfterDiagnose(st, p) IN
           /\ t \in WorkflowState /\ Done(Diagnose, t) /\ Grounded(t) /\ Extends(st, t)
           /\ AllEvidence(t) = AllEvidence(st)
<1> DEFINE t == AfterDiagnose(st, p)
           new == {[by |-> p, of |-> e] : e \in FailedEvidence(st)}
<1>1. /\ t.diagnoses = st.diagnoses \cup new
      /\ t.plan = st.plan /\ t.candidates = st.candidates /\ t.snapshot = st.snapshot
      /\ t.baseline = st.baseline /\ t.evidences = st.evidences /\ t.final = st.final
      /\ t = [snapshot |-> t.snapshot, plan |-> t.plan, candidates |-> t.candidates,
              baseline |-> t.baseline, evidences |-> t.evidences,
              diagnoses |-> t.diagnoses, final |-> t.final]
  BY DEF AfterDiagnose, WorkflowState
<1>2. new \subseteq Diagnosis /\ \A d \in new : d.of \in AllEvidence(st)
  BY DEF Diagnosis, FailedEvidence, AllEvidence, WorkflowState
<1>3. st.plan # NoPlan
  BY DEF Ready
<1> HIDE DEF t, new
<1>4. t \in WorkflowState
  BY <1>1, <1>2 DEF WorkflowState
<1>5. Done(Diagnose, t)
  BY <1>1, <1>3 DEF Done
<1>6. Grounded(t) /\ AllEvidence(t) = AllEvidence(st)
  BY <1>1, <1>2 DEF Grounded, AllEvidence
<1>7. Extends(st, t)
  BY <1>1, <1>6 DEF Extends
<1>8. QED
  BY <1>4, <1>5, <1>6, <1>7 DEF t

LEMMA AfterReportOK ==
    ASSUME NEW st \in WorkflowState, Ready(Report, st), Grounded(st)
    PROVE  LET t == AfterReport(st) IN
           /\ t \in WorkflowState /\ Done(Report, t) /\ Grounded(t) /\ Extends(st, t)
           /\ AllEvidence(t) = AllEvidence(st)
BY DEF AfterReport, WorkflowState, Ready, Done, Grounded, Extends, AllEvidence

-----------------------------------------------------------------------------
(* The inductive invariant *)

KnownId(id) == \E r \in candTable : r.id = id

Recorded(st) ==
    /\ \A c \in st.candidates : KnownId(c.id)
    /\ AllEvidence(st) \subseteq evTable

CheckpointsSound ==
    \A c \in checkpoints : Done(c.node, c.state) /\ Grounded(c.state) /\ Recorded(c.state)

\* Where a process is, its memory is tied to a checkpoint.
Fresh(p) ==
    pc[p] \in {"cli_save", "cli_event", "init_save", "init_checkpoint"} =>
        node[p] = Start /\ mem[p] = InitialState

Loaded(p) ==
    /\ pc[p] \in {"guard", "seen", "resumed", "running", "restore", "init_running"} =>
         \E d \in checkpoints : d.node = node[p] /\ d.state = mem[p]
    /\ pc[p] \in {"seen", "resumed", "running", "restore"} => node[p] # Report
    /\ pc[p] = "restore" => todo[p] \subseteq mem[p].candidates
    /\ pc[p] = "init_running" => node[p] = Start

Entering(p) ==
    pc[p] \in {"enter", "dispatch"} =>
        \E d \in checkpoints :
            d.node # Report /\ Successor(d) = node[p] /\ d.state = mem[p]

Dispatched(p) ==
    pc[p] \in {"persist_run", "persist", "checkpoint"} =>
        /\ node[p] \in Node
        /\ Done(node[p], mem[p]) /\ Grounded(mem[p])
        /\ \E d \in checkpoints :
             d.node # Report /\ Successor(d) = node[p] /\ Extends(d.state, mem[p])

\* What is not recorded yet is still to be persisted.
Persisting(p) ==
    /\ pc[p] = "persist_run" => node[p] \in {Ingest, Plan} /\ todo[p] = {}
    /\ pc[p] \in {"persist", "checkpoint"} =>
         /\ \A c \in mem[p].candidates :
              \/ KnownId(c.id)
              \/ pc[p] = "persist" /\ node[p] \in {Generate, Validate} /\ c \in todo[p]
         /\ \A e \in AllEvidence(mem[p]) :
              \/ e \in evTable
              \/ pc[p] = "persist" /\ node[p] = Execute /\ e \in todo[p]
    /\ pc[p] = "persist" => todo[p] \subseteq ArtifactRows(node[p], mem[p])

Local(p) == Fresh(p) /\ Loaded(p) /\ Entering(p) /\ Dispatched(p) /\ Persisting(p)

IInv ==
    /\ TypeOK
    /\ CheckpointsSound
    /\ ReferentialIntegrity
    /\ CheckpointPath
    /\ \A p \in Proc : Local(p)

-----------------------------------------------------------------------------
(* Types *)

LEMMA InitialValues ==
    InitialState \in WorkflowState /\ NoRow \in RunRow /\ NoPlan.route \in Route \cup {NoRoute}
BY DEF InitialState, WorkflowState, NoRow, RunRow, NoPlan

LEMMA RowsOK ==
    ASSUME NEW st \in WorkflowState, NEW n \in Node
    PROVE  ArtifactRows(n, st) \subseteq Rows
BY DEF ArtifactRows, Rows, AllEvidence, WorkflowState

Act(p) == StartResume(p) \/ Step(p) \/ Interrupt(p)

\* A process that ends keeps the types of its memory.
LEMMA ExitOK ==
    ASSUME TypeOK, NEW p \in Proc, NEW how \in PC, Exit(p, how)
    PROVE  /\ pc' \in [Proc -> PC]
           /\ node' \in [Proc -> Node \cup {Start}]
           /\ mem' \in [Proc -> WorkflowState]
           /\ executed' \in [Proc -> SUBSET Node]
           /\ todo' \in [Proc -> SUBSET Rows]
           /\ cur' \in [Proc -> RunRow]
BY InitialValues DEF TypeOK, Exit, Goto

LEMMA SaveRunOK ==
    ASSUME TypeOK, NEW p \in Proc, NEW status \in {"INITIALIZED", "RUNNING"} \cup Terminal,
           NEW route \in Route \cup {NoRoute}, SaveRun(p, status, route)
    PROVE  run' \in RunRow /\ cur' \in [Proc -> RunRow]
BY DEF TypeOK, SaveRun, RunRow

LEMMA RouteOfOK ==
    ASSUME TypeOK, NEW p \in Proc
    PROVE  RouteOf(p) \in Route \cup {NoRoute}
<1>1. mem[p] \in WorkflowState /\ cur[p] \in RunRow
  BY DEF TypeOK
<1>2. QED
  BY <1>1 DEF RouteOf, WorkflowState, ExecutionPlan, RunRow

LEMMA EmitOK ==
    ASSUME TypeOK, NEW p \in Proc, NEW type \in EventType, NEW n \in Node \cup {Start},
           Emit(p, type, n)
    PROVE  events' \in Seq(Event)
<1>1. [by |-> p, type |-> type, node |-> n] \in Event
  BY DEF Event
<1>2. QED
  BY <1>1 DEF TypeOK, Emit

\* A node adapter returns a WorkflowState.
LEMMA DispatchOK ==
    ASSUME TypeOK, NEW p \in Proc, NEW n \in Node, NEW st \in WorkflowState,
           NEW next \in PC, Dispatch(p, n, st, next)
    PROVE  TypeOK'
BY RowsOK DEF TypeOK, Dispatch, Goto, db

-----------------------------------------------------------------------------
(* Each action leaves the other processes alone, and the tables only grow *)

Own(p) ==
    \A q \in Proc \ {p} :
        /\ pc'[q] = pc[q] /\ node'[q] = node[q]
        /\ mem'[q] = mem[q] /\ todo'[q] = todo[q]

Grows ==
    /\ checkpoints \subseteq checkpoints' /\ evTable \subseteq evTable'
    /\ \A r \in candTable : \E s \in candTable' : s.id = r.id

LEMMA Frame ==
    ASSUME NEW p \in Proc, NEW q \in Proc \ {p}, Own(p), Grows, Local(q)
    PROVE  Local(q)'
<1>1. /\ pc'[q] = pc[q] /\ node'[q] = node[q]
      /\ mem'[q] = mem[q] /\ todo'[q] = todo[q]
  BY DEF Own
<1>2. Fresh(q)'
  BY <1>1 DEF Local, Fresh
<1>3. Loaded(q)'
  BY <1>1 DEF Local, Loaded, Grows
<1>4. Entering(q)'
  BY <1>1 DEF Local, Entering, Grows, Successor
<1>5. Dispatched(q)'
  BY <1>1 DEF Local, Dispatched, Grows
<1>6. Persisting(q)'
  BY <1>1 DEF Local, Persisting, Grows, KnownId
<1>7. QED
  BY <1>2, <1>3, <1>4, <1>5, <1>6 DEF Local

LEMMA UpsertGrows ==
    ASSUME NEW table, NEW row
    PROVE  /\ \E s \in Upsert(table, row) : s.id = row.id
           /\ \A r \in table : \E s \in Upsert(table, row) : s.id = r.id
BY DEF Upsert

-----------------------------------------------------------------------------
(* What a node adapter produces *)

\* A process about to dispatch a node has the state that node needs.
LEMMA DispatchReady ==
    ASSUME TypeOK, CheckpointsSound, NEW p \in Proc, Entering(p), pc[p] = "dispatch"
    PROVE  /\ mem[p] \in WorkflowState /\ node[p] \in Node
           /\ Ready(node[p], mem[p]) /\ Grounded(mem[p]) /\ Recorded(mem[p])
           /\ \E d \in checkpoints :
                d.node # Report /\ Successor(d) = node[p] /\ d.state = mem[p]
<1>1. PICK d \in checkpoints :
          d.node # Report /\ Successor(d) = node[p] /\ d.state = mem[p]
  BY DEF Entering
<1>2. d \in Checkpoint
  BY DEF TypeOK
<1>3. Done(d.node, d.state) /\ Grounded(d.state) /\ Recorded(d.state)
  BY DEF CheckpointsSound
<1>4. Successor(d) \in Node /\ Ready(Successor(d), d.state)
  BY <1>1, <1>2, <1>3, SuccessorReady
<1>5. QED
  BY <1>1, <1>3, <1>4 DEF TypeOK

\* The result of executing node n on mem[p].
Worked(p, n, st, next) ==
    /\ Dispatch(p, n, st, next)
    /\ Done(n, st) /\ Grounded(st) /\ Extends(mem[p], st)
    /\ next = "persist_run" => n \in {Ingest, Plan}
    /\ n \notin {Generate, Validate} => \A c \in st.candidates : KnownId(c.id)
    /\ n # Execute => AllEvidence(st) \subseteq evTable

LEMMA RunNodeOK ==
    ASSUME TypeOK, CheckpointsSound, NEW p \in Proc, Entering(p), RunNode(p)
    PROVE  \E n \in Node, st \in WorkflowState, next \in {"persist_run", "persist"} :
               Worked(p, n, st, next)
<1>1. pc[p] = "dispatch"
  BY DEF RunNode, DispatchIngest, DispatchPlan, DispatchGenerate, DispatchValidate,
     DispatchExecute, DispatchDiagnose, DispatchReport, Dispatch
<1>2. /\ mem[p] \in WorkflowState
      /\ Ready(node[p], mem[p]) /\ Grounded(mem[p]) /\ Recorded(mem[p])
  BY <1>1, DispatchReady
<1> DEFINE m == mem[p]
<1>3. CASE DispatchIngest(p)
  <2> DEFINE t == AfterIngest(m)
  <2>1. Dispatch(p, Ingest, t, "persist_run") /\ node[p] = Ingest
    BY <1>3 DEF DispatchIngest, Dispatch
  <2>2. t \in WorkflowState /\ Done(Ingest, t) /\ Grounded(t) /\ Extends(m, t)
    BY <1>2, <2>1, AfterIngestOK
  <2>3. t.candidates = {} /\ AllEvidence(t) = {}
    BY <2>2 DEF Done, AllEvidence
  <2> HIDE DEF t
  <2>4. Worked(p, Ingest, t, "persist_run")
    BY <2>1, <2>2, <2>3 DEF Worked
  <2>5. QED
    BY <2>2, <2>4 DEF Node
<1>4. CASE DispatchPlan(p)
  <2>1. PICK pl \in Plannable : Dispatch(p, Plan, AfterPlan(m, pl), "persist_run")
    BY <1>4 DEF DispatchPlan
  <2> DEFINE t == AfterPlan(m, pl)
  <2>2. node[p] = Plan
    BY <2>1 DEF Dispatch
  <2>3. t \in WorkflowState /\ Done(Plan, t) /\ Grounded(t) /\ Extends(m, t)
    BY <1>2, <2>2, AfterPlanOK
  <2>4. t.candidates = {} /\ AllEvidence(t) = {}
    BY <2>3 DEF Done, AllEvidence
  <2>5. Dispatch(p, Plan, t, "persist_run")
    BY <2>1
  <2> HIDE DEF t
  <2>6. Worked(p, Plan, t, "persist_run")
    BY <2>3, <2>4, <2>5 DEF Worked
  <2>7. QED
    BY <2>3, <2>6 DEF Node
<1>5. CASE DispatchGenerate(p)
  <2>1. PICK quarantined \in SUBSET m.plan.targets :
            Dispatch(p, Generate, AfterGenerate(m, p, quarantined), "persist")
    BY <1>5 DEF DispatchGenerate
  <2> DEFINE t == AfterGenerate(m, p, quarantined)
  <2>2. node[p] = Generate
    BY <2>1 DEF Dispatch
  <2>3. t \in WorkflowState /\ Done(Generate, t) /\ Grounded(t) /\ Extends(m, t)
    BY <1>2, <2>2, AfterGenerateOK
  <2>4. AllEvidence(t) = {}
    BY <2>3 DEF Done, AllEvidence
  <2>5. Dispatch(p, Generate, t, "persist")
    BY <2>1
  <2> HIDE DEF t
  <2>6. Worked(p, Generate, t, "persist")
    BY <2>3, <2>4, <2>5 DEF Worked
  <2>7. QED
    BY <2>3, <2>6 DEF Node
<1>6. CASE DispatchValidate(p)
  <2>1. PICK sound \in SUBSET {c.id : c \in {d \in m.candidates : d.status = "PENDING"}} :
            Dispatch(p, Validate, AfterValidate(m, sound), "persist")
    BY <1>6 DEF DispatchValidate
  <2> DEFINE t == AfterValidate(m, sound)
  <2>2. node[p] = Validate
    BY <2>1 DEF Dispatch
  <2>3. t \in WorkflowState /\ Done(Validate, t) /\ Grounded(t) /\ Extends(m, t)
    BY <1>2, <2>2, AfterValidateOK
  <2>4. AllEvidence(t) = {}
    BY <2>3 DEF Done, AllEvidence
  <2>5. Dispatch(p, Validate, t, "persist")
    BY <2>1
  <2> HIDE DEF t
  <2>6. Worked(p, Validate, t, "persist")
    BY <2>3, <2>4, <2>5 DEF Worked
  <2>7. QED
    BY <2>3, <2>6 DEF Node
<1>7. CASE DispatchExecute(p)
  <2>1. PICK failing \in SUBSET ({{}} \cup {{c.id} : c \in PassedCandidates(m)}) :
            Dispatch(p, Execute, AfterExecute(m, p, failing), "persist")
    BY <1>7 DEF DispatchExecute
  <2> DEFINE t == AfterExecute(m, p, failing)
  <2>2. node[p] = Execute
    BY <2>1 DEF Dispatch
  <2>3. t \in WorkflowState /\ Done(Execute, t) /\ Grounded(t) /\ Extends(m, t)
    BY <1>2, <2>2, AfterExecuteOK
  <2>4. t.candidates = m.candidates
    BY <1>2 DEF AfterExecute, WorkflowState
  <2>5. Dispatch(p, Execute, t, "persist")
    BY <2>1
  <2> HIDE DEF t
  <2>6. Worked(p, Execute, t, "persist")
    BY <1>2, <2>3, <2>4, <2>5 DEF Worked, Recorded
  <2>7. QED
    BY <2>3, <2>6 DEF Node
<1>8. CASE DispatchDiagnose(p)
  <2> DEFINE t == AfterDiagnose(m, p)
  <2>1. Dispatch(p, Diagnose, t, "persist") /\ node[p] = Diagnose
    BY <1>8 DEF DispatchDiagnose, Dispatch
  <2>2. /\ t \in WorkflowState /\ Done(Diagnose, t) /\ Grounded(t) /\ Extends(m, t)
        /\ AllEvidence(t) = AllEvidence(m)
    BY <1>2, <2>1, AfterDiagnoseOK
  <2>3. t.candidates = m.candidates
    BY <1>2 DEF AfterDiagnose, WorkflowState
  <2> HIDE DEF t
  <2>4. Worked(p, Diagnose, t, "persist")
    BY <1>2, <2>1, <2>2, <2>3 DEF Worked, Recorded
  <2>5. QED
    BY <2>2, <2>4 DEF Node
<1>9. CASE DispatchReport(p)
  <2> DEFINE t == AfterReport(m)
  <2>1. Dispatch(p, Report, t, "persist") /\ node[p] = Report
    BY <1>9 DEF DispatchReport, Dispatch
  <2>2. /\ t \in WorkflowState /\ Done(Report, t) /\ Grounded(t) /\ Extends(m, t)
        /\ AllEvidence(t) = AllEvidence(m)
    BY <1>2, <2>1, AfterReportOK
  <2>3. t.candidates = m.candidates
    BY <1>2 DEF AfterReport, WorkflowState
  <2> HIDE DEF t
  <2>4. Worked(p, Report, t, "persist")
    BY <1>2, <2>1, <2>2, <2>3 DEF Worked, Recorded
  <2>5. QED
    BY <2>2, <2>4 DEF Node
<1>10. QED
  BY <1>3, <1>4, <1>5, <1>6, <1>7, <1>8, <1>9 DEF RunNode

-----------------------------------------------------------------------------
(* Every step keeps the types *)

LEMMA EnteringNode ==
    ASSUME TypeOK, CheckpointsSound, NEW p \in Proc, Entering(p),
           pc[p] \in {"enter", "dispatch"}
    PROVE  node[p] \in Node
<1>1. PICK d \in checkpoints :
          d.node # Report /\ Successor(d) = node[p] /\ d.state = mem[p]
  BY DEF Entering
<1>2. d \in Checkpoint /\ Done(d.node, d.state)
  BY DEF TypeOK, CheckpointsSound
<1>3. QED
  BY <1>1, <1>2, SuccessorReady

\* A resumed process continues behind the checkpoint it loaded.
LEMMA ResumedNode ==
    ASSUME TypeOK, CheckpointsSound, NEW p \in Proc, Loaded(p), ResolveResumeNode(p)
    PROVE  /\ node'[p] \in Node
           /\ \E d \in checkpoints :
                d.node # Report /\ Successor(d) = node'[p] /\ d.state = mem[p]
<1>1. pc[p] = "restore" /\ node'[p] = ResumeNode(StepIndex(node[p]), mem[p])
  BY DEF ResolveResumeNode, TypeOK
<1>2. PICK d \in checkpoints : d.node = node[p] /\ d.state = mem[p]
  BY <1>1 DEF Loaded
<1>3. node[p] # Report
  BY <1>1 DEF Loaded
<1>4. d \in Checkpoint /\ Done(d.node, d.state)
  BY DEF TypeOK, CheckpointsSound
<1>5. node'[p] = Successor(d)
  BY <1>1, <1>2, <1>3, <1>4, ResumeIsSuccessor
<1>6. QED
  BY <1>2, <1>3, <1>4, <1>5, SuccessorReady

\* The node behind the one just checkpointed.
LEMMA CheckpointedNext ==
    ASSUME TypeOK, NEW p \in Proc, Dispatched(p), pc[p] = "checkpoint", node[p] # Report
    PROVE  NextNode(node[p], mem[p]) \in Node
<1> DEFINE c == [by |-> p, node |-> node[p], state |-> mem[p]]
<1>1. c \in Checkpoint
  BY DEF TypeOK, Checkpoint
<1>2. node[p] \in Node /\ Done(c.node, c.state)
  BY DEF Dispatched
<1>3. Successor(c) \in Node
  BY <1>1, <1>2, SuccessorReady
<1>4. QED
  BY <1>2, <1>3 DEF Successor, Node

LEMMA ActTypes ==
    ASSUME TypeOK, CheckpointsSound, NEW p \in Proc, Local(p), Act(p)
    PROVE  TypeOK'
<1> USE DEF Local
<1>1. CASE StartResume(p)
  BY <1>1 DEF StartResume, Goto, db, TypeOK, PC, Active, Unguarded, Guarded, Handler, Stopped
<1>2. CASE CliSaveRun(p)
  <2>1. run' \in RunRow
    BY <1>2 DEF CliSaveRun, RunRow
  <2>2. QED
    BY <1>2, <2>1 DEF CliSaveRun, Goto, TypeOK, PC, Active, Unguarded, Guarded, Handler, Stopped
<1>3. CASE CliEmitConfigMode(p)
  <2>1. Start \in Node \cup {Start} /\ "CONFIG_MODE" \in EventType
    BY DEF TypeOK, EventType
  <2>2. events' \in Seq(Event)
    BY <1>3, <2>1, EmitOK DEF CliEmitConfigMode
  <2>3. QED
    BY <1>3, <2>2 DEF CliEmitConfigMode, Goto, TypeOK, PC, Active, Unguarded, Guarded, Handler, Stopped
<1>4. CASE InitSaveRun(p)
  <2>1. NoRoute \in Route \cup {NoRoute} /\ "INITIALIZED" \in {"INITIALIZED", "RUNNING"} \cup Terminal
    BY RouteOfOK DEF Terminal
  <2>2. run' \in RunRow /\ cur' \in [Proc -> RunRow]
    BY <1>4, <2>1, SaveRunOK DEF InitSaveRun
  <2>3. QED
    BY <1>4, <2>2 DEF InitSaveRun, Goto, TypeOK, Node, PC, Active, Unguarded, Guarded, Handler, Stopped
<1>5. CASE InitCheckpoint(p)
  <2>1. [by |-> p, node |-> Start, state |-> mem[p]] \in Checkpoint
    BY DEF Checkpoint, TypeOK
  <2>2. QED
    BY <1>5, <2>1 DEF InitCheckpoint, Goto, TypeOK, PC, Active, Unguarded, Guarded, Handler, Stopped
<1>6. CASE InitRunning(p)
  <2>1. NoRoute \in Route \cup {NoRoute} /\ "RUNNING" \in {"INITIALIZED", "RUNNING"} \cup Terminal
    BY RouteOfOK DEF Terminal
  <2>2. run' \in RunRow /\ cur' \in [Proc -> RunRow]
    BY <1>6, <2>1, SaveRunOK DEF InitRunning
  <2>3. QED
    BY <1>6, <2>2 DEF InitRunning, Goto, TypeOK, Node, PC, Active, Unguarded, Guarded, Handler, Stopped
<1>7. CASE CliLoad(p)
  BY <1>7 DEF CliLoad, LoadCheckpoint, Latest, Checkpoint, Goto, db, TypeOK, PC, Active, Unguarded, Guarded, Handler, Stopped
<1>8. CASE RejectNoCheckpoint(p)
  <2>1. Exit(p, "rejected")
    BY <1>8 DEF RejectNoCheckpoint, Reject
  <2>2. "rejected" \in PC
    BY DEF PC, Stopped
  <2>3. QED
    BY <1>8, <2>1, <2>2, ExitOK, WorkflowAssumption DEF RejectNoCheckpoint, Reject, db, TypeOK
<1>9. CASE CliGuard(p)
  BY <1>9 DEF CliGuard, Goto, db, TypeOK, PC, Active, Unguarded, Guarded, Handler, Stopped
<1>10. CASE Load(p)
  BY <1>10 DEF Load, LoadCheckpoint, Latest, Checkpoint, Goto, db, TypeOK, PC, Active, Unguarded, Guarded, Handler, Stopped
<1>11. CASE Guard(p)
  BY <1>11 DEF Guard, Goto, db, TypeOK, PC, Active, Unguarded, Guarded, Handler, Stopped
<1>12. CASE RejectTerminal(p)
  <2>1. Exit(p, "rejected")
    BY <1>12 DEF RejectTerminal, Reject
  <2>2. "rejected" \in PC
    BY DEF PC, Stopped
  <2>3. QED
    BY <1>12, <2>1, <2>2, ExitOK, WorkflowAssumption DEF RejectTerminal, Reject, db, TypeOK
<1>13. CASE Seen(p)
  <2>1. {c.node : c \in checkpoints} \ {Start} \subseteq Node
    BY DEF TypeOK, Checkpoint
  <2>2. QED
    BY <1>13, <2>1 DEF Seen, Goto, db, TypeOK, PC, Active, Unguarded, Guarded, Handler, Stopped
<1>14. CASE EmitRunResumed(p)
  <2>1. node[p] \in Node \cup {Start} /\ "RUN_RESUMED" \in EventType
    BY DEF TypeOK, EventType
  <2>2. events' \in Seq(Event)
    BY <1>14, <2>1, EmitOK DEF EmitRunResumed
  <2>3. QED
    BY <1>14, <2>2 DEF EmitRunResumed, Goto, TypeOK, PC, Active, Unguarded, Guarded, Handler, Stopped
<1>15. CASE SaveRunning(p)
  <2>1. RouteOf(p) \in Route \cup {NoRoute} /\ "RUNNING" \in {"INITIALIZED", "RUNNING"} \cup Terminal
    BY RouteOfOK DEF Terminal
  <2>2. run' \in RunRow /\ cur' \in [Proc -> RunRow]
    BY <1>15, <2>1, SaveRunOK DEF SaveRunning
  <2>3. mem[p].candidates \subseteq Rows
    BY DEF TypeOK, WorkflowState, Rows
  <2>4. QED
    BY <1>15, <2>2, <2>3 DEF SaveRunning, Goto, TypeOK, PC, Active, Unguarded, Guarded, Handler, Stopped
<1>16. CASE RestoreCandidate(p)
  <2>1. todo[p] \subseteq Candidate
    BY <1>16 DEF RestoreCandidate, Local, Loaded, WorkflowState, TypeOK
  <2>2. candTable' \subseteq Candidate
    BY <1>16, <2>1 DEF RestoreCandidate, Upsert, TypeOK
  <2>3. todo' \in [Proc -> SUBSET Rows]
    BY <1>16 DEF RestoreCandidate, TypeOK
  <2>4. QED
    BY <1>16, <2>2, <2>3 DEF RestoreCandidate, TypeOK
<1>17. CASE ResolveResumeNode(p)
  <2>1. node'[p] \in Node
    BY <1>17, ResumedNode
  <2>2. QED
    BY <1>17, <2>1 DEF ResolveResumeNode, Goto, db, TypeOK, PC, Active, Unguarded, Guarded, Handler, Stopped
<1>18. CASE EnterNode(p)
  <2>1. node[p] \in Node \cup {Start} /\ "NODE_STARTED" \in EventType
    BY DEF TypeOK, EventType
  <2>2. events' \in Seq(Event)
    BY <1>18, <2>1, EmitOK DEF EnterNode
  <2>3. node[p] \in Node
    BY <1>18, EnteringNode DEF EnterNode
  <2>4. QED
    BY <1>18, <2>2, <2>3 DEF EnterNode, Goto, TypeOK, PC, Active, Unguarded, Guarded, Handler, Stopped
<1>19. CASE CycleDetected(p)
  BY <1>19 DEF CycleDetected, Goto, db, TypeOK, PC, Active, Unguarded, Guarded, Handler, Stopped
<1>20. CASE PersistRun(p)
  <2>1. cur[p] \in RunRow /\ cur[p].status \in {"ABSENT", "INITIALIZED", "RUNNING"} \cup Terminal
    BY DEF TypeOK, RunRow
  <2>2. mem[p].plan.route \in Route \cup {NoRoute}
    BY InitialValues DEF TypeOK, WorkflowState, ExecutionPlan
  <2>3. run' \in RunRow /\ cur' \in [Proc -> RunRow]
    BY <1>20, <2>1, <2>2 DEF PersistRun, SaveRun, RunRow, TypeOK
  <2>4. QED
    BY <1>20, <2>3 DEF PersistRun, Goto, TypeOK, PC, Active, Unguarded, Guarded, Handler, Stopped
<1>21. CASE PersistCandidate(p)
  <2>1. todo[p] \subseteq Candidate
    BY <1>21 DEF PersistCandidate, Local, Persisting, ArtifactRows, WorkflowState, TypeOK
  <2>2. candTable' \subseteq Candidate
    BY <1>21, <2>1 DEF PersistCandidate, Upsert, TypeOK
  <2>3. todo' \in [Proc -> SUBSET Rows]
    BY <1>21 DEF PersistCandidate, TypeOK
  <2>4. QED
    BY <1>21, <2>2, <2>3 DEF PersistCandidate, TypeOK
<1>22. CASE PersistEvidence(p)
  <2>1. todo[p] \subseteq Evidence
    BY <1>22 DEF PersistEvidence, Local, Persisting, ArtifactRows, AllEvidence, WorkflowState, TypeOK
  <2>2. evTable' \subseteq Evidence
    BY <1>22, <2>1 DEF PersistEvidence, Upsert, TypeOK
  <2>3. todo' \in [Proc -> SUBSET Rows]
    BY <1>22 DEF PersistEvidence, TypeOK
  <2>4. QED
    BY <1>22, <2>2, <2>3 DEF PersistEvidence, TypeOK
<1>23. CASE PersistDiagnosis(p)
  <2>1. todo[p] \subseteq Diagnosis
    BY <1>23 DEF PersistDiagnosis, Local, Persisting, ArtifactRows, WorkflowState, TypeOK
  <2>2. diagTable' \subseteq Diagnosis
    BY <1>23, <2>1 DEF PersistDiagnosis, Upsert, TypeOK
  <2>3. todo' \in [Proc -> SUBSET Rows]
    BY <1>23 DEF PersistDiagnosis, TypeOK
  <2>4. QED
    BY <1>23, <2>2, <2>3 DEF PersistDiagnosis, TypeOK
<1>24. CASE EmitNodeCompleted(p)
  <2>1. node[p] \in Node \cup {Start} /\ "NODE_COMPLETED" \in EventType
    BY DEF TypeOK, EventType
  <2>2. events' \in Seq(Event)
    BY <1>24, <2>1, EmitOK DEF EmitNodeCompleted
  <2>3. QED
    BY <1>24, <2>2 DEF EmitNodeCompleted, Goto, TypeOK, PC, Active, Unguarded, Guarded, Handler, Stopped
<1>25. CASE SaveCheckpoint(p)
  <2>1. [by |-> p, node |-> node[p], state |-> mem[p]] \in Checkpoint
    BY DEF Checkpoint, TypeOK
  <2>2. node[p] # Report => NextNode(node[p], mem[p]) \in Node
    BY <1>25, CheckpointedNext DEF SaveCheckpoint
  <2>3. node' \in [Proc -> Node \cup {Start}] /\ pc' \in [Proc -> PC]
    BY <1>25, <2>2 DEF SaveCheckpoint, Goto, TypeOK, PC, Active, Unguarded, Guarded, Handler, Stopped
  <2>4. QED
    BY <1>25, <2>1, <2>3 DEF SaveCheckpoint, TypeOK
<1>26. CASE Finish(p)
  <2>1. Exit(p, "returned")
    BY <1>26 DEF Finish
  <2>2. "returned" \in PC
    BY DEF PC, Stopped
  <2>3. run' \in RunRow
    BY <1>26, RouteOfOK DEF Finish, RunRow, Terminal
  <2>4. QED
    BY <1>26, <2>1, <2>2, ExitOK, <2>3 DEF Finish, TypeOK
<1>27. CASE SaveFailed(p)
  <2>1. RouteOf(p) \in Route \cup {NoRoute} /\ "FAILED" \in {"INITIALIZED", "RUNNING"} \cup Terminal
    BY RouteOfOK DEF Terminal
  <2>2. run' \in RunRow /\ cur' \in [Proc -> RunRow]
    BY <1>27, <2>1, SaveRunOK DEF SaveFailed
  <2>3. QED
    BY <1>27, <2>2 DEF SaveFailed, Goto, TypeOK, Node, PC, Active, Unguarded, Guarded, Handler, Stopped
<1>28. CASE EmitRunFailed(p)
  <2>1. Exit(p, "raised")
    BY <1>28 DEF EmitRunFailed
  <2>2. "raised" \in PC
    BY DEF PC, Stopped
  <2>3. events' \in Seq(Event)
    <3>1. node[p] \in Node \cup {Start} /\ "RUN_FAILED" \in EventType
      BY DEF TypeOK, EventType
    <3>2. QED
      BY <1>28, <3>1, EmitOK DEF EmitRunFailed
  <2>4. QED
    BY <1>28, <2>1, <2>2, ExitOK, <2>3 DEF EmitRunFailed, TypeOK
<1>29. CASE CliRejectMode(p)
  <2>1. Exit(p, "rejected")
    BY <1>29 DEF CliRejectMode
  <2>2. "rejected" \in PC
    BY DEF PC, Stopped
  <2>3. QED
    BY <1>29, <2>1, <2>2, ExitOK, WorkflowAssumption DEF CliRejectMode, db, TypeOK
<1>30. CASE Raise(p)
  <2>1. HandlerEntry(p) \in PC
    BY DEF HandlerEntry, PC, Active, Unguarded, Guarded, Handler, Stopped
  <2>2. QED
    BY <1>30, <2>1, WorkflowAssumption DEF Raise, Goto, db, TypeOK
<1>31. CASE RaiseUncaught(p)
  <2>1. Exit(p, "raised")
    BY <1>31 DEF RaiseUncaught
  <2>2. "raised" \in PC
    BY DEF PC, Stopped
  <2>3. QED
    BY <1>31, <2>1, <2>2, ExitOK, WorkflowAssumption DEF RaiseUncaught, db, TypeOK
<1>32. CASE Crash(p)
  <2>1. Exit(p, "dead")
    BY <1>32 DEF Crash
  <2>2. "dead" \in PC
    BY DEF PC, Stopped
  <2>3. QED
    BY <1>32, <2>1, <2>2, ExitOK, WorkflowAssumption DEF Crash, db, TypeOK
<1>33. CASE RunNode(p)
  <2>1. PICK n \in Node, st \in WorkflowState, next \in {"persist_run", "persist"} :
            Dispatch(p, n, st, next)
    BY <1>33, RunNodeOK DEF Local, Worked
  <2>2. next \in PC
    BY DEF PC, Active, Unguarded, Guarded, Handler, Stopped
  <2>3. QED
    BY <2>1, <2>2, DispatchOK
<1>34. QED
  BY <1>1, <1>2, <1>3, <1>4, <1>5, <1>6, <1>7, <1>8, <1>9, <1>10, <1>11, <1>12,
     <1>13, <1>14, <1>15, <1>16, <1>17, <1>18, <1>19, <1>20, <1>21, <1>22, <1>23,
     <1>24, <1>25, <1>26, <1>27, <1>28, <1>29, <1>30, <1>31, <1>32, <1>33 DEF Act,
     Step, Interrupt, NewRun, Recover, Loop

-----------------------------------------------------------------------------
(* Every step keeps what ties a process to the checkpoints *)

LEMMA ActOwn ==
    ASSUME TypeOK, CheckpointsSound, NEW p \in Proc, Local(p), Act(p)
    PROVE  Own(p) /\ Grows
<1>1. CASE StartResume(p)
  BY <1>1 DEF StartResume, Goto, db, Own, Grows, TypeOK
<1>2. CASE CliSaveRun(p)
  BY <1>2 DEF CliSaveRun, Goto, db, Own, Grows, TypeOK
<1>3. CASE CliEmitConfigMode(p)
  BY <1>3 DEF CliEmitConfigMode, Goto, db, Own, Grows, TypeOK
<1>4. CASE InitSaveRun(p)
  BY <1>4 DEF InitSaveRun, Goto, db, Own, Grows, TypeOK
<1>5. CASE InitCheckpoint(p)
  BY <1>5 DEF InitCheckpoint, Goto, db, Own, Grows, TypeOK
<1>6. CASE InitRunning(p)
  BY <1>6 DEF InitRunning, Goto, db, Own, Grows, TypeOK
<1>7. CASE CliLoad(p)
  BY <1>7 DEF CliLoad, LoadCheckpoint, Goto, db, Own, Grows, TypeOK
<1>8. CASE RejectNoCheckpoint(p)
  BY <1>8 DEF RejectNoCheckpoint, Reject, Exit, Goto, db, Own, Grows, TypeOK
<1>9. CASE CliGuard(p)
  BY <1>9 DEF CliGuard, Goto, db, Own, Grows, TypeOK
<1>10. CASE Load(p)
  BY <1>10 DEF Load, LoadCheckpoint, Goto, db, Own, Grows, TypeOK
<1>11. CASE Guard(p)
  BY <1>11 DEF Guard, Goto, db, Own, Grows, TypeOK
<1>12. CASE RejectTerminal(p)
  BY <1>12 DEF RejectTerminal, Reject, Exit, Goto, db, Own, Grows, TypeOK
<1>13. CASE Seen(p)
  BY <1>13 DEF Seen, Goto, db, Own, Grows, TypeOK
<1>14. CASE EmitRunResumed(p)
  BY <1>14 DEF EmitRunResumed, Goto, db, Own, Grows, TypeOK
<1>15. CASE SaveRunning(p)
  BY <1>15 DEF SaveRunning, Goto, db, Own, Grows, TypeOK
<1>16. CASE RestoreCandidate(p)
  <2>1. PICK row \in todo[p] : candTable' = Upsert(candTable, row)
    BY <1>16 DEF RestoreCandidate
  <2>2. \A r \in candTable : \E s \in candTable' : s.id = r.id
    BY <2>1, UpsertGrows
  <2>3. QED
    BY <1>16, <2>2 DEF RestoreCandidate, Own, Grows, TypeOK
<1>17. CASE ResolveResumeNode(p)
  BY <1>17 DEF ResolveResumeNode, Goto, db, Own, Grows, TypeOK
<1>18. CASE EnterNode(p)
  BY <1>18 DEF EnterNode, Goto, db, Own, Grows, TypeOK
<1>19. CASE CycleDetected(p)
  BY <1>19 DEF CycleDetected, Goto, db, Own, Grows, TypeOK
<1>20. CASE PersistRun(p)
  BY <1>20 DEF PersistRun, Goto, db, Own, Grows, TypeOK
<1>21. CASE PersistCandidate(p)
  <2>1. PICK row \in todo[p] : candTable' = Upsert(candTable, row)
    BY <1>21 DEF PersistCandidate
  <2>2. \A r \in candTable : \E s \in candTable' : s.id = r.id
    BY <2>1, UpsertGrows
  <2>3. QED
    BY <1>21, <2>2 DEF PersistCandidate, Own, Grows, TypeOK
<1>22. CASE PersistEvidence(p)
  BY <1>22 DEF PersistEvidence, Goto, db, Own, Grows, TypeOK
<1>23. CASE PersistDiagnosis(p)
  BY <1>23 DEF PersistDiagnosis, Goto, db, Own, Grows, TypeOK
<1>24. CASE EmitNodeCompleted(p)
  BY <1>24 DEF EmitNodeCompleted, Goto, db, Own, Grows, TypeOK
<1>25. CASE SaveCheckpoint(p)
  BY <1>25 DEF SaveCheckpoint, Goto, db, Own, Grows, TypeOK
<1>26. CASE Finish(p)
  BY <1>26 DEF Finish, Exit, Goto, db, Own, Grows, TypeOK
<1>27. CASE SaveFailed(p)
  BY <1>27 DEF SaveFailed, Goto, db, Own, Grows, TypeOK
<1>28. CASE EmitRunFailed(p)
  BY <1>28 DEF EmitRunFailed, Exit, Goto, db, Own, Grows, TypeOK
<1>29. CASE CliRejectMode(p)
  BY <1>29 DEF CliRejectMode, Exit, Goto, db, Own, Grows, TypeOK
<1>30. CASE Raise(p)
  BY <1>30 DEF Raise, Goto, db, Own, Grows, TypeOK
<1>31. CASE RaiseUncaught(p)
  BY <1>31 DEF RaiseUncaught, Exit, Goto, db, Own, Grows, TypeOK
<1>32. CASE Crash(p)
  BY <1>32 DEF Crash, Exit, Goto, db, Own, Grows, TypeOK
<1>33. CASE RunNode(p)
  <2>1. PICK n \in Node, st \in WorkflowState, next \in {"persist_run", "persist"} :
            Dispatch(p, n, st, next)
    BY <1>33, RunNodeOK DEF Local, Worked
  <2>2. QED
    BY <2>1 DEF Dispatch, Goto, db, Own, Grows, TypeOK
<1>34. QED
  BY <1>1, <1>2, <1>3, <1>4, <1>5, <1>6, <1>7, <1>8, <1>9, <1>10, <1>11, <1>12,
     <1>13, <1>14, <1>15, <1>16, <1>17, <1>18, <1>19, <1>20, <1>21, <1>22, <1>23,
     <1>24, <1>25, <1>26, <1>27, <1>28, <1>29, <1>30, <1>31, <1>32, <1>33 DEF Act,
     Step, Interrupt, NewRun, Recover, Loop

\* A process elsewhere in the program promises nothing.
LEMMA Untied ==
    ASSUME NEW p \in Proc,
           pc'[p] \notin {"cli_save", "cli_event", "init_save", "init_checkpoint",
                         "init_running", "guard", "seen", "resumed", "running", "restore",
                         "enter", "dispatch", "persist_run", "persist", "checkpoint"}
    PROVE  Local(p)'
BY DEF Local, Fresh, Loaded, Entering, Dispatched, Persisting

LEMMA ActLocal ==
    ASSUME TypeOK, CheckpointsSound, NEW p \in Proc, Local(p), Act(p)
    PROVE  Local(p)'
<1>1. CASE StartResume(p)
  BY <1>1, Untied DEF StartResume, Goto, TypeOK
<1>2. CASE CliSaveRun(p)
  BY <1>2 DEF CliSaveRun, Goto, db, TypeOK, Local, Fresh, Loaded, Entering, Dispatched, Persisting
<1>3. CASE CliEmitConfigMode(p)
  BY <1>3 DEF CliEmitConfigMode, Goto, db, TypeOK, Local, Fresh, Loaded, Entering, Dispatched, Persisting
<1>4. CASE InitSaveRun(p)
  BY <1>4 DEF InitSaveRun, SaveRun, Goto, db, TypeOK, Local, Fresh, Loaded, Entering, Dispatched, Persisting
<1>5. CASE InitCheckpoint(p)
  <2>1. /\ pc[p] = "init_checkpoint" /\ pc'[p] = "init_running" /\ node' = node
        /\ mem' = mem /\ [by |-> p, node |-> Start, state |-> mem[p]] \in checkpoints'
    BY <1>5 DEF InitCheckpoint, Goto, TypeOK
  <2>2. QED
    BY <2>1 DEF Local, Fresh, Loaded, Entering, Dispatched, Persisting
<1>6. CASE InitRunning(p)
  <2>1. PICK d \in checkpoints : d.node = node[p] /\ d.state = mem[p]
    BY <1>6 DEF InitRunning, Local, Loaded
  <2>2. node[p] = Start
    BY <1>6 DEF InitRunning, Local, Loaded
  <2>3. /\ pc'[p] = "enter" /\ node'[p] = Ingest /\ mem' = mem
        /\ checkpoints' = checkpoints
    BY <1>6 DEF InitRunning, Goto, TypeOK
  <2>4. QED
    BY <2>1, <2>2, <2>3 DEF Local, Fresh, Loaded, Entering, Dispatched, Persisting, Successor
<1>7. CASE CliLoad(p)
  BY <1>7, Untied DEF CliLoad, LoadCheckpoint, Goto, TypeOK
<1>8. CASE RejectNoCheckpoint(p)
  BY <1>8, Untied DEF RejectNoCheckpoint, Reject, Exit, Goto, TypeOK
<1>9. CASE CliGuard(p)
  BY <1>9, Untied DEF CliGuard, Goto, TypeOK
<1>10. CASE Load(p)
  BY <1>10 DEF Load, LoadCheckpoint, Latest, Goto, db, TypeOK, Local, Fresh, Loaded, Entering, Dispatched, Persisting
<1>11. CASE Guard(p)
  <2>1. node[p] # Report
    BY <1>11 DEF Guard, TerminalCheckpoint, StepIndex
  <2>2. /\ pc[p] = "guard" /\ pc'[p] = "seen" /\ node' = node /\ mem' = mem
        /\ checkpoints' = checkpoints
    BY <1>11 DEF Guard, Goto, db, TypeOK
  <2>3. QED
    BY <2>1, <2>2 DEF Local, Fresh, Loaded, Entering, Dispatched, Persisting
<1>12. CASE RejectTerminal(p)
  BY <1>12, Untied DEF RejectTerminal, Reject, Exit, Goto, TypeOK
<1>13. CASE Seen(p)
  BY <1>13 DEF Seen, Goto, db, TypeOK, Local, Fresh, Loaded, Entering, Dispatched, Persisting
<1>14. CASE EmitRunResumed(p)
  BY <1>14 DEF EmitRunResumed, Goto, db, TypeOK, Local, Fresh, Loaded, Entering, Dispatched, Persisting
<1>15. CASE SaveRunning(p)
  BY <1>15 DEF SaveRunning, SaveRun, Goto, db, TypeOK, Local, Fresh, Loaded, Entering, Dispatched, Persisting
<1>16. CASE RestoreCandidate(p)
  <2>1. /\ pc[p] = "restore" /\ pc' = pc /\ node' = node /\ mem' = mem
        /\ checkpoints' = checkpoints /\ todo'[p] \subseteq todo[p]
    BY <1>16 DEF RestoreCandidate, TypeOK
  <2>2. QED
    BY <2>1 DEF Local, Fresh, Loaded, Entering, Dispatched, Persisting
<1>17. CASE ResolveResumeNode(p)
  <2>1. PICK d \in checkpoints :
            d.node # Report /\ Successor(d) = node'[p] /\ d.state = mem[p]
    BY <1>17, ResumedNode DEF Local
  <2>2. pc'[p] = "enter" /\ mem'[p] = mem[p] /\ checkpoints' = checkpoints
    BY <1>17 DEF ResolveResumeNode, Goto, db, TypeOK
  <2>3. QED
    BY <2>1, <2>2 DEF Local, Fresh, Loaded, Entering, Dispatched, Persisting
<1>18. CASE EnterNode(p)
  BY <1>18 DEF EnterNode, Goto, db, TypeOK, Local, Fresh, Loaded, Entering, Dispatched, Persisting
<1>19. CASE CycleDetected(p)
  BY <1>19, Untied DEF CycleDetected, Goto, TypeOK
<1>20. CASE PersistRun(p)
  <2>1. /\ pc[p] = "persist_run" /\ pc'[p] = "persist" /\ node' = node /\ mem' = mem
        /\ todo' = todo /\ UNCHANGED <<checkpoints, candTable, evTable>>
    BY <1>20 DEF PersistRun, Goto, TypeOK
  <2>2. Dispatched(p)'
    BY <2>1 DEF Local, Dispatched
  <2>3. node[p] \in {Ingest, Plan} /\ todo[p] = {}
    BY <2>1 DEF Local, Persisting
  <2>4. mem[p].candidates = {} /\ AllEvidence(mem[p]) = {}
    BY <2>1, <2>3 DEF Local, Dispatched, Done, AllEvidence
  <2>5. Persisting(p)'
    BY <2>1, <2>3, <2>4 DEF Persisting
  <2>6. QED
    BY <2>1, <2>2, <2>5 DEF Local, Fresh, Loaded, Entering
<1>21. CASE PersistCandidate(p)
  <2>1. PICK row \in todo[p] :
            candTable' = Upsert(candTable, row) /\ todo' = [todo EXCEPT ![p] = @ \ {row}]
    BY <1>21 DEF PersistCandidate
  <2>2. /\ pc[p] = "persist" /\ pc' = pc /\ node' = node /\ mem' = mem
        /\ checkpoints' = checkpoints /\ todo'[p] = todo[p] \ {row}
    BY <1>21, <2>1 DEF PersistCandidate, TypeOK
  <2>3. Dispatched(p)'
    BY <2>2 DEF Local, Dispatched
  <2>4. KnownId(row.id)' /\ \A id : KnownId(id) => KnownId(id)'
    BY <2>1, UpsertGrows DEF KnownId
  <2>5. node[p] \in {Generate, Validate} /\ evTable' = evTable
    BY <1>21 DEF PersistCandidate
  <2>6. Persisting(p)'
    BY <2>2, <2>4, <2>5 DEF Local, Persisting
  <2>7. QED
    BY <2>2, <2>3, <2>6 DEF Local, Fresh, Loaded, Entering
<1>22. CASE PersistEvidence(p)
  <2>1. PICK row \in todo[p] :
            evTable' = evTable \cup {row} /\ todo' = [todo EXCEPT ![p] = @ \ {row}]
    BY <1>22 DEF PersistEvidence
  <2>2. /\ pc[p] = "persist" /\ pc' = pc /\ node' = node /\ mem' = mem
        /\ checkpoints' = checkpoints /\ todo'[p] = todo[p] \ {row}
    BY <1>22, <2>1 DEF PersistEvidence, TypeOK
  <2>3. Dispatched(p)'
    BY <2>2 DEF Local, Dispatched
  <2>4. node[p] = Execute /\ candTable' = candTable
    BY <1>22 DEF PersistEvidence
  <2>5. Persisting(p)'
    BY <2>1, <2>2, <2>4 DEF Local, Persisting, KnownId
  <2>6. QED
    BY <2>2, <2>3, <2>5 DEF Local, Fresh, Loaded, Entering
<1>23. CASE PersistDiagnosis(p)
  <2>1. PICK row \in todo[p] :
            diagTable' = diagTable \cup {row} /\ todo' = [todo EXCEPT ![p] = @ \ {row}]
    BY <1>23 DEF PersistDiagnosis
  <2>2. /\ pc[p] = "persist" /\ pc' = pc /\ node' = node /\ mem' = mem
        /\ checkpoints' = checkpoints /\ todo'[p] = todo[p] \ {row}
    BY <1>23, <2>1 DEF PersistDiagnosis, TypeOK
  <2>3. Dispatched(p)'
    BY <2>2 DEF Local, Dispatched
  <2>4. node[p] = Diagnose /\ candTable' = candTable /\ evTable' = evTable
    BY <1>23 DEF PersistDiagnosis
  <2>5. Persisting(p)'
    BY <2>2, <2>4 DEF Local, Persisting, KnownId
  <2>6. QED
    BY <2>2, <2>3, <2>5 DEF Local, Fresh, Loaded, Entering
<1>24. CASE EmitNodeCompleted(p)
  <2>1. /\ pc[p] = "persist" /\ pc'[p] = "checkpoint" /\ node' = node /\ mem' = mem
        /\ todo[p] = {} /\ UNCHANGED <<checkpoints, candTable, evTable>>
    BY <1>24 DEF EmitNodeCompleted, Goto, TypeOK
  <2>2. Dispatched(p)'
    BY <2>1 DEF Local, Dispatched
  <2>3. Persisting(p)'
    BY <2>1 DEF Local, Persisting, KnownId
  <2>4. QED
    BY <2>1, <2>2, <2>3 DEF Local, Fresh, Loaded, Entering
<1>25. CASE SaveCheckpoint(p)
  <2> DEFINE c == [by |-> p, node |-> node[p], state |-> mem[p]]
  <2>1. c \in checkpoints' /\ mem'[p] = mem[p] /\ node[p] \in Node
    BY <1>25 DEF SaveCheckpoint, Local, Dispatched
  <2>2. CASE node[p] = Report
    BY <1>25, <2>2, Untied DEF SaveCheckpoint, Goto, TypeOK
  <2>3. CASE node[p] # Report
    <3>1. pc'[p] = "enter" /\ node'[p] = Successor(c)
      BY <1>25, <2>1, <2>3 DEF SaveCheckpoint, Goto, TypeOK, Successor, Node
    <3>2. Entering(p)'
      BY <2>1, <2>3, <3>1 DEF Entering, Successor
    <3>3. QED
      BY <3>1, <3>2 DEF Local, Fresh, Loaded, Dispatched, Persisting
  <2>4. QED
    BY <2>2, <2>3
<1>26. CASE Finish(p)
  BY <1>26, Untied DEF Finish, Exit, Goto, TypeOK
<1>27. CASE SaveFailed(p)
  BY <1>27, Untied DEF SaveFailed, Goto, TypeOK
<1>28. CASE EmitRunFailed(p)
  BY <1>28, Untied DEF EmitRunFailed, Exit, Goto, TypeOK
<1>29. CASE CliRejectMode(p)
  BY <1>29, Untied DEF CliRejectMode, Exit, Goto, TypeOK
<1>30. CASE Raise(p)
  <2>1. pc'[p] \in {"save_failed", "emit_failed"}
    BY <1>30 DEF Raise, Goto, HandlerEntry, TypeOK
  <2>2. QED
    BY <2>1, Untied
<1>31. CASE RaiseUncaught(p)
  BY <1>31, Untied DEF RaiseUncaught, Exit, Goto, TypeOK
<1>32. CASE Crash(p)
  BY <1>32, Untied DEF Crash, Exit, Goto, TypeOK
<1>33. CASE RunNode(p)
  <2>1. PICK n \in Node, st \in WorkflowState, next \in {"persist_run", "persist"} :
            Worked(p, n, st, next)
    BY <1>33, RunNodeOK DEF Local
  <2>2. /\ pc[p] = "dispatch" /\ pc'[p] = next
        /\ node[p] = n /\ node'[p] = n /\ mem'[p] = st
        /\ todo'[p] = ArtifactRows(n, st)
        /\ UNCHANGED <<checkpoints, candTable, evTable>>
    BY <2>1 DEF Worked, Dispatch, Goto, db, TypeOK
  <2>3. PICK d \in checkpoints :
            d.node # Report /\ Successor(d) = n /\ d.state = mem[p]
    BY <2>2 DEF Local, Entering
  <2>4. Dispatched(p)'
    BY <2>1, <2>2, <2>3 DEF Dispatched, Worked
  <2>5. next = "persist_run" => n \in {Ingest, Plan} /\ todo'[p] = {}
    BY <2>1, <2>2 DEF Worked, ArtifactRows
  <2>6. n \in {Generate, Validate} => todo'[p] = st.candidates
    BY <2>2 DEF ArtifactRows
  <2>7. n = Execute => todo'[p] = AllEvidence(st)
    BY <2>2 DEF ArtifactRows
  <2>8. Persisting(p)'
    BY <2>1, <2>2, <2>5, <2>6, <2>7 DEF Persisting, Worked, KnownId
  <2>9. QED
    BY <2>2, <2>4, <2>8 DEF Local, Fresh, Loaded, Entering
<1>34. QED
  BY <1>1, <1>2, <1>3, <1>4, <1>5, <1>6, <1>7, <1>8, <1>9, <1>10, <1>11, <1>12,
     <1>13, <1>14, <1>15, <1>16, <1>17, <1>18, <1>19, <1>20, <1>21, <1>22, <1>23,
     <1>24, <1>25, <1>26, <1>27, <1>28, <1>29, <1>30, <1>31, <1>32, <1>33 DEF Act,
     Step, Interrupt, NewRun, Recover, Loop

-----------------------------------------------------------------------------
(* Every step keeps the tables sound *)

TablesSound == CheckpointsSound /\ ReferentialIntegrity /\ CheckpointPath

SameTables == UNCHANGED <<checkpoints, candTable, evTable, diagTable>>

LEMMA SameTablesSound ==
    ASSUME TablesSound, SameTables
    PROVE  TablesSound'
BY DEF TablesSound, SameTables, CheckpointsSound, Recorded, KnownId, ReferentialIntegrity,
   CheckpointPath, Successor

\* Saving a candidate disturbs no foreign key.
LEMMA UpsertSound ==
    ASSUME TablesSound, NEW row, candTable' = Upsert(candTable, row),
           UNCHANGED <<checkpoints, evTable, diagTable>>
    PROVE  TablesSound'
<1>1. \A id : KnownId(id) => KnownId(id)'
  BY UpsertGrows DEF KnownId
<1>2. CheckpointsSound'
  BY <1>1 DEF TablesSound, CheckpointsSound, Recorded
<1>3. ReferentialIntegrity'
  BY <1>1 DEF TablesSound, ReferentialIntegrity, KnownId
<1>4. CheckpointPath'
  BY DEF TablesSound, CheckpointPath, Successor
<1>5. QED
  BY <1>2, <1>3, <1>4 DEF TablesSound

\* A new checkpoint that is sound and continues another, or is the first.
LEMMA CheckpointAdded ==
    ASSUME TablesSound, NEW c, checkpoints' = checkpoints \cup {c},
           UNCHANGED <<candTable, evTable, diagTable>>,
           Done(c.node, c.state), Grounded(c.state), Recorded(c.state),
           \/ c.node = Start
           \/ \E d \in checkpoints : Successor(d) = c.node /\ Extends(d.state, c.state)
    PROVE  TablesSound'
<1>1. CheckpointsSound'
  BY DEF TablesSound, CheckpointsSound, Recorded, KnownId
<1>2. ReferentialIntegrity'
  BY DEF TablesSound, ReferentialIntegrity
<1>3. CheckpointPath'
  BY DEF TablesSound, CheckpointPath, Successor
<1>4. QED
  BY <1>1, <1>2, <1>3 DEF TablesSound

LEMMA ActTables ==
    ASSUME TypeOK, TablesSound, NEW p \in Proc, Local(p), Act(p)
    PROVE  TablesSound'
<1>1. CASE StartResume(p)
  BY <1>1, SameTablesSound DEF StartResume, db, SameTables
<1>2. CASE CliSaveRun(p)
  BY <1>2, SameTablesSound DEF CliSaveRun, db, SameTables
<1>3. CASE CliEmitConfigMode(p)
  BY <1>3, SameTablesSound DEF CliEmitConfigMode, db, SameTables
<1>4. CASE InitSaveRun(p)
  BY <1>4, SameTablesSound DEF InitSaveRun, db, SameTables
<1>5. CASE InitCheckpoint(p)
  <2> DEFINE c == [by |-> p, node |-> Start, state |-> mem[p]]
  <2>1. mem[p] = InitialState
    BY <1>5 DEF InitCheckpoint, Local, Fresh
  <2>2. Done(c.node, c.state) /\ Grounded(c.state) /\ Recorded(c.state)
    BY <2>1 DEF InitialState, Done, Grounded, Recorded, AllEvidence
  <2>3. checkpoints' = checkpoints \cup {c} /\ UNCHANGED <<candTable, evTable, diagTable>>
    BY <1>5 DEF InitCheckpoint
  <2>4. c.node = Start
    OBVIOUS
  <2> HIDE DEF c
  <2>5. QED
    BY <2>2, <2>3, <2>4, CheckpointAdded
<1>6. CASE InitRunning(p)
  BY <1>6, SameTablesSound DEF InitRunning, db, SameTables
<1>7. CASE CliLoad(p)
  BY <1>7, SameTablesSound DEF CliLoad, LoadCheckpoint, db, SameTables
<1>8. CASE RejectNoCheckpoint(p)
  BY <1>8, SameTablesSound DEF RejectNoCheckpoint, Reject, db, SameTables
<1>9. CASE CliGuard(p)
  BY <1>9, SameTablesSound DEF CliGuard, db, SameTables
<1>10. CASE Load(p)
  BY <1>10, SameTablesSound DEF Load, LoadCheckpoint, db, SameTables
<1>11. CASE Guard(p)
  BY <1>11, SameTablesSound DEF Guard, db, SameTables
<1>12. CASE RejectTerminal(p)
  BY <1>12, SameTablesSound DEF RejectTerminal, Reject, db, SameTables
<1>13. CASE Seen(p)
  BY <1>13, SameTablesSound DEF Seen, db, SameTables
<1>14. CASE EmitRunResumed(p)
  BY <1>14, SameTablesSound DEF EmitRunResumed, db, SameTables
<1>15. CASE SaveRunning(p)
  BY <1>15, SameTablesSound DEF SaveRunning, db, SameTables
<1>16. CASE RestoreCandidate(p)
  BY <1>16, UpsertSound DEF RestoreCandidate
<1>17. CASE ResolveResumeNode(p)
  BY <1>17, SameTablesSound DEF ResolveResumeNode, db, SameTables
<1>18. CASE EnterNode(p)
  BY <1>18, SameTablesSound DEF EnterNode, db, SameTables
<1>19. CASE CycleDetected(p)
  BY <1>19, SameTablesSound DEF CycleDetected, db, SameTables
<1>20. CASE PersistRun(p)
  BY <1>20, SameTablesSound DEF PersistRun, db, SameTables
<1>21. CASE PersistCandidate(p)
  BY <1>21, UpsertSound DEF PersistCandidate
<1>22. CASE PersistEvidence(p)
  <2>1. PICK row \in todo[p] : evTable' = evTable \cup {row}
    BY <1>22 DEF PersistEvidence
  <2>2. /\ row \in AllEvidence(mem[p]) /\ Grounded(mem[p])
        /\ \A c \in mem[p].candidates : KnownId(c.id)
    BY <1>22 DEF PersistEvidence, Local, Dispatched, Persisting, ArtifactRows
  <2>3. \A id \in row.of : KnownId(id)
    BY <2>2 DEF Grounded
  <2>4. UNCHANGED <<checkpoints, candTable, diagTable>>
    BY <1>22 DEF PersistEvidence
  <2>5. CheckpointsSound'
    BY <2>1, <2>4 DEF TablesSound, CheckpointsSound, Recorded, KnownId
  <2>6. ReferentialIntegrity'
    BY <2>1, <2>3, <2>4 DEF TablesSound, ReferentialIntegrity, KnownId
  <2>7. CheckpointPath'
    BY <2>4 DEF TablesSound, CheckpointPath, Successor
  <2>8. QED
    BY <2>5, <2>6, <2>7 DEF TablesSound
<1>23. CASE PersistDiagnosis(p)
  <2>1. PICK row \in todo[p] : diagTable' = diagTable \cup {row}
    BY <1>23 DEF PersistDiagnosis
  <2>2. /\ row \in mem[p].diagnoses /\ Grounded(mem[p])
        /\ AllEvidence(mem[p]) \subseteq evTable
    BY <1>23 DEF PersistDiagnosis, Local, Dispatched, Persisting, ArtifactRows
  <2>3. row.of \in evTable
    BY <2>2 DEF Grounded
  <2>4. UNCHANGED <<checkpoints, candTable, evTable>>
    BY <1>23 DEF PersistDiagnosis
  <2>5. CheckpointsSound'
    BY <2>4 DEF TablesSound, CheckpointsSound, Recorded, KnownId
  <2>6. ReferentialIntegrity'
    BY <2>1, <2>3, <2>4 DEF TablesSound, ReferentialIntegrity
  <2>7. CheckpointPath'
    BY <2>4 DEF TablesSound, CheckpointPath, Successor
  <2>8. QED
    BY <2>5, <2>6, <2>7 DEF TablesSound
<1>24. CASE EmitNodeCompleted(p)
  BY <1>24, SameTablesSound DEF EmitNodeCompleted, db, SameTables
<1>25. CASE SaveCheckpoint(p)
  <2> DEFINE c == [by |-> p, node |-> node[p], state |-> mem[p]]
  <2>1. Done(c.node, c.state) /\ Grounded(c.state)
    BY <1>25 DEF SaveCheckpoint, Local, Dispatched
  <2>2. Recorded(c.state)
    BY <1>25 DEF SaveCheckpoint, Local, Persisting, Recorded
  <2>3. \E d \in checkpoints : Successor(d) = c.node /\ Extends(d.state, c.state)
    BY <1>25 DEF SaveCheckpoint, Local, Dispatched
  <2>4. checkpoints' = checkpoints \cup {c} /\ UNCHANGED <<candTable, evTable, diagTable>>
    BY <1>25 DEF SaveCheckpoint
  <2> HIDE DEF c
  <2>5. QED
    BY <2>1, <2>2, <2>3, <2>4, CheckpointAdded
<1>26. CASE Finish(p)
  BY <1>26, SameTablesSound DEF Finish, db, SameTables
<1>27. CASE SaveFailed(p)
  BY <1>27, SameTablesSound DEF SaveFailed, db, SameTables
<1>28. CASE EmitRunFailed(p)
  BY <1>28, SameTablesSound DEF EmitRunFailed, db, SameTables
<1>29. CASE CliRejectMode(p)
  BY <1>29, SameTablesSound DEF CliRejectMode, db, SameTables
<1>30. CASE Raise(p)
  BY <1>30, SameTablesSound DEF Raise, db, SameTables
<1>31. CASE RaiseUncaught(p)
  BY <1>31, SameTablesSound DEF RaiseUncaught, db, SameTables
<1>32. CASE Crash(p)
  BY <1>32, SameTablesSound DEF Crash, db, SameTables
<1>33. CASE RunNode(p)
  <2>1. PICK n \in Node, st \in WorkflowState, next \in {"persist_run", "persist"} :
            Dispatch(p, n, st, next)
    BY <1>33, RunNodeOK DEF Local, TablesSound, Worked
  <2>2. QED
    BY <2>1, SameTablesSound DEF Dispatch, db, SameTables
<1>34. QED
  BY <1>1, <1>2, <1>3, <1>4, <1>5, <1>6, <1>7, <1>8, <1>9, <1>10, <1>11, <1>12,
     <1>13, <1>14, <1>15, <1>16, <1>17, <1>18, <1>19, <1>20, <1>21, <1>22, <1>23,
     <1>24, <1>25, <1>26, <1>27, <1>28, <1>29, <1>30, <1>31, <1>32, <1>33 DEF Act,
     Step, Interrupt, NewRun, Recover, Loop

-----------------------------------------------------------------------------
(* The theorems *)

LEMMA InitIInv == Init => IInv
<1> SUFFICES ASSUME Init PROVE IInv
  OBVIOUS
<1>1. TypeOK
  BY InitialValues, WorkflowAssumption
     DEF Init, TypeOK, PC, Active, Unguarded, Guarded, Handler, Stopped
<1>2. CheckpointsSound /\ ReferentialIntegrity /\ CheckpointPath
  BY DEF Init, CheckpointsSound, ReferentialIntegrity, CheckpointPath
<1>3. \A p \in Proc : Local(p)
  BY DEF Init, Local, Fresh, Loaded, Entering, Dispatched, Persisting
<1>4. QED
  BY <1>1, <1>2, <1>3 DEF IInv

LEMMA NextIInv == IInv /\ [Next]_vars => IInv'
<1> SUFFICES ASSUME IInv, [Next]_vars PROVE IInv'
  OBVIOUS
<1>1. TypeOK /\ TablesSound /\ \A p \in Proc : Local(p)
  BY DEF IInv, TablesSound
<1>2. CASE \E p \in Proc : Act(p)
  <2>1. PICK p \in Proc : Act(p)
    BY <1>2
  <2>2. TypeOK'
    BY <1>1, <2>1, ActTypes DEF TablesSound
  <2>3. TablesSound'
    BY <1>1, <2>1, ActTables
  <2>4. Own(p) /\ Grows /\ Local(p)'
    BY <1>1, <2>1, ActOwn, ActLocal DEF TablesSound
  <2>5. \A q \in Proc \ {p} : Local(q)'
    BY <1>1, <2>4, Frame
  <2>6. QED
    BY <2>2, <2>3, <2>4, <2>5 DEF IInv, TablesSound
<1>3. CASE UNCHANGED vars
  <2>1. SameTables /\ pc' = pc /\ node' = node /\ mem' = mem /\ todo' = todo
    BY <1>3 DEF vars, db, proc, SameTables
  <2>2. TablesSound'
    BY <1>1, <2>1, SameTablesSound
  <2>3. TypeOK'
    BY <1>1, <1>3 DEF vars, db, proc, TypeOK
  <2>4. ASSUME NEW q \in Proc PROVE Local(q)'
    BY <1>1, <2>1 DEF SameTables, Local, Fresh, Loaded, Entering, Dispatched, Persisting,
       KnownId, Successor
  <2>5. QED
    BY <2>2, <2>3, <2>4 DEF IInv, TablesSound
<1>4. QED
  BY <1>2, <1>3 DEF Next, Quiet, Act

LEMMA SpecIInv == Spec => []IInv
BY InitIInv, NextIInv, PTL DEF Spec

\* The runs that resume one process at a time are among those of Spec, so what
\* follows holds of them too.
THEOREM SerialIsSpec == SerialSpec => Spec
<1>1. SerialNext => Next
  BY DEF SerialNext, SerialResume, Next
<1>2. QED
  BY <1>1, PTL DEF SerialSpec, Spec

\* Taking the resuming processes in one order only leaves runs out, so what follows
\* of SerialSpec holds of the runs that are model-checked for progress.
THEOREM OrderedIsSerial == OrderedSpec => SerialSpec
<1>1. OrderedNext => SerialNext
  BY DEF OrderedNext, ResumeInOrder, Unstarted, SerialNext, SerialResume
<1>2. QED
  BY <1>1, PTL DEF OrderedSpec, SerialSpec

\* The tables, the event log and the memory of every process keep their types.
THEOREM TypeCorrect == Spec => []TypeOK
<1>1. IInv => TypeOK
  BY DEF IInv
<1>2. QED
  BY <1>1, SpecIInv, PTL

\* No foreign key of the schema is ever violated, so none ever stops a run: however
\* many processes resume it, overlap, fail and crash (_persist_node_artifacts).
THEOREM ForeignKeysHold == Spec => []ReferentialIntegrity
<1>1. IInv => ReferentialIntegrity
  BY DEF IInv
<1>2. QED
  BY <1>1, SpecIInv, PTL

\* Every checkpoint continues another one: no execution or resumption skips a node
\* of the graph or drops what was checkpointed (_resolve_next_node,
\* _resolve_resume_node).
THEOREM CheckpointsContinue == Spec => []CheckpointPath
<1>1. IInv => CheckpointPath
  BY DEF IInv
<1>2. QED
  BY <1>1, SpecIInv, PTL

=============================================================================
