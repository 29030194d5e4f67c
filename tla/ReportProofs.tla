--------------------------- MODULE ReportProofs ---------------------------
(***************************************************************************)
(* What the states of a run's checkpoints say of its candidates, their     *)
(* evidence and their diagnoses, however processes overlap; in particular, *)
(* that a report accounts for everything.                                  *)
(***************************************************************************)
EXTENDS WorkflowProofs, FiniteSetTheorems

-----------------------------------------------------------------------------
(* What a node leaves behind *)

USE DEF Start, Ingest, Plan, Generate, Validate, Execute, Diagnose, Report

\* A candidate is known by its id.
UniqueIds(st) == \A c, d \in st.candidates : c.id = d.id => c = d

\* Only candidates that passed were executed.
EvidenceOfPassed(st) ==
    \A e \in AllEvidence(st) : \A id \in e.of : \E c \in PassedCandidates(st) : c.id = id

ExecutedOnce(st) ==
    \A x \in PassedCandidates(st) : \E e \in st.evidences : {f \in st.evidences : f.of = {x.id}} = {e}

DiagnosedOnce(st) ==
    /\ \A e \in FailedEvidence(st) : \E d \in st.diagnoses : {x \in st.diagnoses : x.of = e} = {d}
    /\ \A d \in st.diagnoses : d.of \in FailedEvidence(st)

WellMade(n, st) ==
    /\ UniqueIds(st)
    /\ EvidenceOfPassed(st)
    /\ n = Generate => PassedCandidates(st) = {}
    /\ n \in {Execute, Diagnose, Report} => ExecutedOnce(st)
    /\ n \in {Diagnose, Report} => DiagnosedOnce(st)

\* What node n is given by the node before it.
WellGiven(n, st) ==
    /\ UniqueIds(st)
    /\ EvidenceOfPassed(st)
    /\ n \in {Diagnose, Report} => ExecutedOnce(st)
    /\ n = Report => DiagnosedOnce(st)

LEMMA SuccessorWellGiven ==
    ASSUME NEW c \in Checkpoint, Done(c.node, c.state), c.node # Report,
           WellMade(c.node, c.state)
    PROVE  WellGiven(Successor(c), c.state)
<1> DEFINE st == c.state
<1>1. c.node \in Node \cup {Start}
  BY DEF Checkpoint
<1>2. CASE c.node \in {Start, Ingest, Generate}
  BY <1>2 DEF WellMade, WellGiven, Successor, NextNode
<1>3. CASE c.node = Plan
  <2>1. st.candidates = {} /\ AllEvidence(st) = {} /\ st.diagnoses = {}
    BY <1>3 DEF Done, AllEvidence
  <2>2. ExecutedOnce(st) /\ DiagnosedOnce(st)
    BY <2>1 DEF ExecutedOnce, DiagnosedOnce, PassedCandidates, FailedEvidence
  <2>3. QED
    BY <2>2 DEF WellMade, WellGiven
<1>4. CASE c.node = Validate
  <2>1. AllEvidence(st) = {} /\ st.diagnoses = {}
    BY <1>4 DEF Done, AllEvidence
  <2>2. DiagnosedOnce(st)
    BY <2>1 DEF DiagnosedOnce, FailedEvidence
  <2>3. CASE PassedCandidates(st) = {}
    <3>1. ExecutedOnce(st)
      BY <2>3 DEF ExecutedOnce
    <3>2. QED
      BY <2>2, <3>1 DEF WellMade, WellGiven
  <2>4. CASE PassedCandidates(st) # {}
    <3>1. Successor(c) = Execute
      BY <1>4, <2>4 DEF Successor, NextNode, RouteAfterValidation
    <3>2. QED
      BY <3>1 DEF WellMade, WellGiven
  <2>5. QED
    BY <2>3, <2>4
<1>5. CASE c.node = Execute
  <2>1. ExecutedOnce(st)
    BY <1>5 DEF WellMade
  <2>2. CASE FailedEvidence(st) = {}
    <3>1. st.diagnoses = {}
      BY <1>5 DEF Done
    <3>2. DiagnosedOnce(st)
      BY <2>2, <3>1 DEF DiagnosedOnce
    <3>3. QED
      BY <2>1, <3>2 DEF WellMade, WellGiven
  <2>3. CASE FailedEvidence(st) # {}
    <3>1. Successor(c) = Diagnose
      BY <1>5, <2>3 DEF Successor, NextNode, RouteAfterExecution
    <3>2. QED
      BY <2>1, <3>1 DEF WellMade, WellGiven
  <2>4. QED
    BY <2>2, <2>3
<1>6. CASE c.node = Diagnose
  BY <1>6 DEF WellMade, WellGiven
<1>7. QED
  BY <1>1, <1>2, <1>3, <1>4, <1>5, <1>6 DEF Node

LEMMA AfterGenerateWellMade ==
    ASSUME NEW st \in WorkflowState, Ready(Generate, st), NEW p \in Proc, NEW quarantined
    PROVE  WellMade(Generate, AfterGenerate(st, p, quarantined))
<1> DEFINE t == AfterGenerate(st, p, quarantined)
           new(s) == [id |-> [by |-> p, symbol |-> s],
                      status |-> IF s \in quarantined THEN "QUARANTINED" ELSE "PENDING"]
<1>1. t.candidates = {new(s) : s \in st.plan.targets}
  BY DEF AfterGenerate, WorkflowState
<1>2. AllEvidence(t) = {}
  BY DEF AfterGenerate, WorkflowState, Ready, AllEvidence
<1>3. \A s : new(s).id.symbol = s /\ new(s).status # "PASSED"
  OBVIOUS
<1> HIDE DEF t, new
<1>4. UniqueIds(t)
  BY <1>1, <1>3 DEF UniqueIds
<1>5. PassedCandidates(t) = {}
  BY <1>1, <1>3 DEF PassedCandidates
<1>6. QED
  BY <1>2, <1>4, <1>5 DEF WellMade, EvidenceOfPassed, t

LEMMA AfterValidateWellMade ==
    ASSUME NEW st \in WorkflowState, Ready(Validate, st), UniqueIds(st), NEW sound
    PROVE  WellMade(Validate, AfterValidate(st, sound))
<1> DEFINE t == AfterValidate(st, sound)
           judged(c) == [c EXCEPT !.status = IF c.status = "QUARANTINED" THEN "QUARANTINED"
                              ELSE IF c.id \in sound THEN "PASSED" ELSE "REJECTED"]
<1>1. t.candidates = {judged(c) : c \in st.candidates}
  BY DEF AfterValidate, WorkflowState
<1>2. \A c \in st.candidates : judged(c).id = c.id
  BY DEF WorkflowState, Candidate
<1>3. AllEvidence(t) = {}
  BY DEF AfterValidate, WorkflowState, Ready, AllEvidence
<1> HIDE DEF t, judged
<1>4. UniqueIds(t)
  BY <1>1, <1>2 DEF UniqueIds
<1>5. QED
  BY <1>3, <1>4 DEF WellMade, EvidenceOfPassed, t

LEMMA AfterExecuteWellMade ==
    ASSUME NEW st \in WorkflowState, Ready(Execute, st), UniqueIds(st),
           NEW p \in Proc, NEW failing
    PROVE  WellMade(Execute, AfterExecute(st, p, failing))
<1> DEFINE t == AfterExecute(st, p, failing)
           row(c) == [by |-> p, of |-> {c.id}, failed |-> {c.id} \in failing]
           base == {[by |-> p, of |-> {}, failed |-> {} \in failing]}
<1>1. st.baseline = {} /\ st.evidences = {}
  BY DEF Ready
<1>2. t.candidates = st.candidates /\ t.baseline \in {{}, base}
  BY <1>1 DEF AfterExecute, WorkflowState
<1>3. t.evidences = {row(c) : c \in PassedCandidates(st)}
  <2>1. CASE PassedCandidates(st) = {}
    BY <1>1, <2>1 DEF AfterExecute, WorkflowState
  <2>2. CASE PassedCandidates(st) # {}
    BY <2>2 DEF AfterExecute, WorkflowState
  <2>3. QED
    BY <2>1, <2>2
<1>4. \A c : row(c).of = {c.id}
  OBVIOUS
<1>5. \A c, d : c.id = d.id => row(c) = row(d)
  OBVIOUS
<1>6. \A e \in base : e.of = {}
  OBVIOUS
<1> HIDE DEF t, row, base
<1>7. UniqueIds(t) /\ PassedCandidates(t) = PassedCandidates(st)
  BY <1>2 DEF UniqueIds, PassedCandidates
<1>8. EvidenceOfPassed(t)
  BY <1>2, <1>3, <1>4, <1>6, <1>7 DEF EvidenceOfPassed, AllEvidence
<1>9. ExecutedOnce(t)
  <2> SUFFICES ASSUME NEW x \in PassedCandidates(st)
               PROVE  {f \in t.evidences : f.of = {x.id}} = {row(x)}
    BY <1>7 DEF ExecutedOnce
  <2>1. row(x) \in t.evidences /\ row(x).of = {x.id}
    BY <1>3, <1>4
  <2>2. ASSUME NEW f \in t.evidences, f.of = {x.id} PROVE f = row(x)
    BY <1>3, <1>4, <1>5, <2>2
  <2>3. QED
    BY <2>1, <2>2
<1>10. QED
  BY <1>7, <1>8, <1>9 DEF WellMade, t

LEMMA SameExecuted ==
    ASSUME NEW st, NEW t, t.evidences = st.evidences,
           PassedCandidates(t) = PassedCandidates(st), ExecutedOnce(st)
    PROVE  ExecutedOnce(t)
<1> SUFFICES ASSUME NEW x \in PassedCandidates(st)
             PROVE  \E e \in t.evidences : {f \in t.evidences : f.of = {x.id}} = {e}
  BY DEF ExecutedOnce
<1>1. PICK e \in st.evidences : {f \in st.evidences : f.of = {x.id}} = {e}
  BY DEF ExecutedOnce
<1>2. {f \in t.evidences : f.of = {x.id}} = {f \in st.evidences : f.of = {x.id}}
  OBVIOUS
<1>3. QED
  BY <1>1, <1>2

LEMMA SameDiagnosed ==
    ASSUME NEW st, NEW t, t.diagnoses = st.diagnoses,
           FailedEvidence(t) = FailedEvidence(st), DiagnosedOnce(st)
    PROVE  DiagnosedOnce(t)
<1>1. ASSUME NEW e \in FailedEvidence(st)
      PROVE  \E d \in t.diagnoses : {x \in t.diagnoses : x.of = e} = {d}
  <2>1. PICK d \in st.diagnoses : {x \in st.diagnoses : x.of = e} = {d}
    BY DEF DiagnosedOnce
  <2>2. {x \in t.diagnoses : x.of = e} = {x \in st.diagnoses : x.of = e}
    OBVIOUS
  <2>3. QED
    BY <2>1, <2>2
<1>2. \A d \in t.diagnoses : d.of \in FailedEvidence(t)
  BY DEF DiagnosedOnce
<1>3. QED
  BY <1>1, <1>2 DEF DiagnosedOnce

LEMMA AfterDiagnoseWellMade ==
    ASSUME NEW st \in WorkflowState, Ready(Diagnose, st), WellGiven(Diagnose, st),
           NEW p \in Proc
    PROVE  WellMade(Diagnose, AfterDiagnose(st, p))
<1> DEFINE t == AfterDiagnose(st, p)
           row(e) == [by |-> p, of |-> e]
<1>1. st.diagnoses = {}
  BY DEF Ready
<1>2. /\ t.candidates = st.candidates /\ t.evidences = st.evidences
      /\ t.baseline = st.baseline
      /\ t.diagnoses = {row(e) : e \in FailedEvidence(st)}
  BY <1>1 DEF AfterDiagnose, WorkflowState
<1>3. \A e : row(e).of = e
  OBVIOUS
<1> HIDE DEF t, row
<1>4. /\ PassedCandidates(t) = PassedCandidates(st) /\ AllEvidence(t) = AllEvidence(st)
      /\ FailedEvidence(t) = FailedEvidence(st)
  BY <1>2 DEF PassedCandidates, AllEvidence, FailedEvidence
<1>5. UniqueIds(t) /\ EvidenceOfPassed(t)
  BY <1>2, <1>4 DEF WellGiven, UniqueIds, EvidenceOfPassed
<1>6. ExecutedOnce(t)
  BY <1>2, <1>4, SameExecuted DEF WellGiven
<1>7. DiagnosedOnce(t)
  <2>1. ASSUME NEW e \in FailedEvidence(st)
        PROVE  {x \in t.diagnoses : x.of = e} = {row(e)}
    BY <1>2, <1>3
  <2>2. \A d \in t.diagnoses : d.of \in FailedEvidence(st)
    BY <1>2, <1>3
  <2>3. QED
    BY <1>4, <2>1, <2>2 DEF DiagnosedOnce
<1>8. QED
  BY <1>5, <1>6, <1>7 DEF WellMade, t

\* The other nodes touch neither candidates nor evidence nor diagnoses.
LEMMA SameWorkWellMade ==
    ASSUME NEW n \in {Ingest, Plan, Report}, NEW st, NEW t, WellGiven(n, st),
           t.candidates = st.candidates, t.evidences = st.evidences,
           t.baseline = st.baseline, t.diagnoses = st.diagnoses
    PROVE  WellMade(n, t)
<1>1. /\ PassedCandidates(t) = PassedCandidates(st) /\ AllEvidence(t) = AllEvidence(st)
      /\ FailedEvidence(t) = FailedEvidence(st)
  BY DEF PassedCandidates, AllEvidence, FailedEvidence
<1>2. UniqueIds(t) /\ EvidenceOfPassed(t)
  BY <1>1 DEF WellGiven, UniqueIds, EvidenceOfPassed
<1>3. n = Report => ExecutedOnce(t) /\ DiagnosedOnce(t)
  BY <1>1, SameExecuted, SameDiagnosed DEF WellGiven
<1>4. QED
  BY <1>2, <1>3 DEF WellMade

-----------------------------------------------------------------------------
(* The invariant *)

StateMade(p) ==
    pc[p] \in {"persist_run", "persist", "checkpoint"} => WellMade(node[p], mem[p])

RInv ==
    /\ \A c \in checkpoints : WellMade(c.node, c.state)
    /\ \A p \in Proc : StateMade(p)

\* What a node is given, and that it touches the candidates in two places only.
LEMMA DispatchGiven ==
    ASSUME TypeOK, CheckpointsSound, NEW p \in Proc, Entering(p), pc[p] = "dispatch",
           \A c \in checkpoints : WellMade(c.node, c.state)
    PROVE  WellGiven(node[p], mem[p])
<1>1. PICK d \in checkpoints :
          d.node # Report /\ Successor(d) = node[p] /\ d.state = mem[p]
  BY DEF Entering
<1>2. d \in Checkpoint /\ Done(d.node, d.state)
  BY DEF TypeOK, CheckpointsSound
<1>3. QED
  BY <1>1, <1>2, SuccessorWellGiven

\* The candidates are those of before, but for the two nodes that make and judge them.
Kept(n, st, t) == n \notin {Generate, Validate} => t.candidates = st.candidates

LEMMA RunNodeWellMade ==
    ASSUME TypeOK, CheckpointsSound, NEW p \in Proc, Entering(p), RunNode(p),
           \A c \in checkpoints : WellMade(c.node, c.state)
    PROVE  /\ pc[p] = "dispatch" /\ pc'[p] \in {"persist_run", "persist"}
           /\ node' = node /\ checkpoints' = checkpoints
           /\ \A q \in Proc \ {p} : pc'[q] = pc[q] /\ mem'[q] = mem[q]
           /\ WellMade(node[p], mem'[p])
           /\ Kept(node[p], mem[p], mem'[p])
<1> DEFINE m == mem[p]
<1>1. pc[p] = "dispatch"
  BY DEF RunNode, DispatchIngest, DispatchPlan, DispatchGenerate, DispatchValidate,
     DispatchExecute, DispatchDiagnose, DispatchReport, Dispatch
<1>2. m \in WorkflowState /\ Ready(node[p], m) /\ WellGiven(node[p], m)
  BY <1>1, DispatchReady, DispatchGiven
<1>3. UniqueIds(m)
  BY <1>2 DEF WellGiven
<1> DEFINE To(n, st, next) == node[p] = n /\ Dispatch(p, n, st, next)
<1>4. ASSUME NEW n, NEW st, NEW next \in {"persist_run", "persist"}, To(n, st, next),
             WellMade(n, st), Kept(n, m, st)
      PROVE  /\ pc'[p] \in {"persist_run", "persist"}
             /\ node' = node /\ checkpoints' = checkpoints
             /\ \A q \in Proc \ {p} : pc'[q] = pc[q] /\ mem'[q] = mem[q]
             /\ WellMade(node[p], mem'[p])
             /\ Kept(node[p], mem[p], mem'[p])
  BY <1>4 DEF Dispatch, Goto, db, TypeOK
<1>5. CASE DispatchIngest(p)
  <2>1. To(Ingest, AfterIngest(m), "persist_run")
    BY <1>5 DEF DispatchIngest, Dispatch
  <2>2. /\ AfterIngest(m).candidates = m.candidates /\ AfterIngest(m).evidences = m.evidences
        /\ AfterIngest(m).baseline = m.baseline /\ AfterIngest(m).diagnoses = m.diagnoses
    BY <1>2 DEF AfterIngest, WorkflowState
  <2>3. WellMade(Ingest, AfterIngest(m)) /\ Kept(Ingest, m, AfterIngest(m))
    BY <1>2, <2>1, <2>2, SameWorkWellMade DEF Kept
  <2>4. QED
    BY <1>1, <1>4, <2>1, <2>3
<1>6. CASE DispatchPlan(p)
  <2>1. PICK pl \in Plannable : Dispatch(p, Plan, AfterPlan(m, pl), "persist_run")
    BY <1>6 DEF DispatchPlan
  <2>2. To(Plan, AfterPlan(m, pl), "persist_run")
    BY <2>1 DEF Dispatch
  <2>3. /\ AfterPlan(m, pl).candidates = m.candidates
        /\ AfterPlan(m, pl).evidences = m.evidences
        /\ AfterPlan(m, pl).baseline = m.baseline
        /\ AfterPlan(m, pl).diagnoses = m.diagnoses
    BY <1>2 DEF AfterPlan, WorkflowState
  <2>4. WellMade(Plan, AfterPlan(m, pl)) /\ Kept(Plan, m, AfterPlan(m, pl))
    BY <1>2, <2>2, <2>3, SameWorkWellMade DEF Kept
  <2>5. QED
    BY <1>1, <1>4, <2>2, <2>4
<1>7. CASE DispatchGenerate(p)
  <2>1. PICK quarantined \in SUBSET m.plan.targets :
            Dispatch(p, Generate, AfterGenerate(m, p, quarantined), "persist")
    BY <1>7 DEF DispatchGenerate
  <2>2. To(Generate, AfterGenerate(m, p, quarantined), "persist")
    BY <2>1 DEF Dispatch
  <2>3. /\ WellMade(Generate, AfterGenerate(m, p, quarantined))
        /\ Kept(Generate, m, AfterGenerate(m, p, quarantined))
    BY <1>2, <2>2, AfterGenerateWellMade DEF Kept
  <2>4. QED
    BY <1>1, <1>4, <2>2, <2>3
<1>8. CASE DispatchValidate(p)
  <2>1. PICK sound \in SUBSET {c.id : c \in {d \in m.candidates : d.status = "PENDING"}} :
            Dispatch(p, Validate, AfterValidate(m, sound), "persist")
    BY <1>8 DEF DispatchValidate
  <2>2. To(Validate, AfterValidate(m, sound), "persist")
    BY <2>1 DEF Dispatch
  <2>3. /\ WellMade(Validate, AfterValidate(m, sound))
        /\ Kept(Validate, m, AfterValidate(m, sound))
    BY <1>2, <1>3, <2>2, AfterValidateWellMade DEF Kept
  <2>4. QED
    BY <1>1, <1>4, <2>2, <2>3
<1>9. CASE DispatchExecute(p)
  <2>1. PICK failing \in SUBSET ({{}} \cup {{c.id} : c \in PassedCandidates(m)}) :
            Dispatch(p, Execute, AfterExecute(m, p, failing), "persist")
    BY <1>9 DEF DispatchExecute
  <2>2. To(Execute, AfterExecute(m, p, failing), "persist")
    BY <2>1 DEF Dispatch
  <2>3. AfterExecute(m, p, failing).candidates = m.candidates
    BY <1>2 DEF AfterExecute, WorkflowState
  <2>4. /\ WellMade(Execute, AfterExecute(m, p, failing))
        /\ Kept(Execute, m, AfterExecute(m, p, failing))
    BY <1>2, <1>3, <2>2, <2>3, AfterExecuteWellMade DEF Kept
  <2>5. QED
    BY <1>1, <1>4, <2>2, <2>4
<1>10. CASE DispatchDiagnose(p)
  <2>1. To(Diagnose, AfterDiagnose(m, p), "persist")
    BY <1>10 DEF DispatchDiagnose, Dispatch
  <2>2. AfterDiagnose(m, p).candidates = m.candidates
    BY <1>2 DEF AfterDiagnose, WorkflowState
  <2>3. WellMade(Diagnose, AfterDiagnose(m, p)) /\ Kept(Diagnose, m, AfterDiagnose(m, p))
    BY <1>2, <2>1, <2>2, AfterDiagnoseWellMade DEF Kept
  <2>4. QED
    BY <1>1, <1>4, <2>1, <2>3
<1>11. CASE DispatchReport(p)
  <2>1. To(Report, AfterReport(m), "persist")
    BY <1>11 DEF DispatchReport, Dispatch
  <2>2. /\ AfterReport(m).candidates = m.candidates /\ AfterReport(m).evidences = m.evidences
        /\ AfterReport(m).baseline = m.baseline /\ AfterReport(m).diagnoses = m.diagnoses
    BY <1>2 DEF AfterReport, WorkflowState
  <2>3. WellMade(Report, AfterReport(m)) /\ Kept(Report, m, AfterReport(m))
    BY <1>2, <2>1, <2>2, SameWorkWellMade DEF Kept
  <2>4. QED
    BY <1>1, <1>4, <2>1, <2>3
<1>12. QED
  BY <1>5, <1>6, <1>7, <1>8, <1>9, <1>10, <1>11 DEF RunNode
LEMMA CheckpointActions ==
    ASSUME NEW p \in Proc, Act(p)
    PROVE  InitCheckpoint(p) \/ SaveCheckpoint(p) \/ checkpoints' = checkpoints
BY DEF Act, Step, Interrupt, NewRun, Recover, RunNode, Loop, StartResume, CliSaveRun,
   CliEmitConfigMode, InitSaveRun, InitRunning, CliLoad, LoadCheckpoint,
   RejectNoCheckpoint, Reject, CliGuard, Load, Guard, RejectTerminal, Seen, EmitRunResumed,
   SaveRunning, RestoreCandidate, ResolveResumeNode, EnterNode, CycleDetected,
   DispatchIngest, DispatchPlan, DispatchGenerate, DispatchValidate, DispatchExecute,
   DispatchDiagnose, DispatchReport, Dispatch, PersistRun, PersistCandidate,
   PersistEvidence, PersistDiagnosis, EmitNodeCompleted, Finish, SaveFailed,
   EmitRunFailed, CliRejectMode, Raise, RaiseUncaught, Crash, db

\* Only the node adapters and the loads of a checkpoint change a process's state.
Worker == {"persist_run", "persist", "checkpoint"}

LEMMA WorkerActions ==
    ASSUME TypeOK, NEW p \in Proc, Act(p), ~RunNode(p), pc'[p] \in Worker
    PROVE  pc[p] \in Worker /\ node'[p] = node[p] /\ mem'[p] = mem[p]
BY DEF Act, Step, Interrupt, NewRun, Recover, Loop, StartResume, CliSaveRun,
   CliEmitConfigMode, InitSaveRun, InitCheckpoint, InitRunning, CliLoad, LoadCheckpoint,
   RejectNoCheckpoint, Reject, CliGuard, Load, Guard, RejectTerminal, Seen, EmitRunResumed,
   SaveRunning, RestoreCandidate, ResolveResumeNode, EnterNode, CycleDetected,
   PersistRun, PersistCandidate,
   PersistEvidence, PersistDiagnosis, EmitNodeCompleted, SaveCheckpoint, Finish, SaveFailed,
   EmitRunFailed, CliRejectMode, Raise, RaiseUncaught, Crash, Exit, Goto, HandlerEntry,
   Worker, TypeOK

LEMMA ActRInv ==
    ASSUME IInv, RInv, NEW p \in Proc, Act(p)
    PROVE  RInv'
<1>1. TypeOK /\ CheckpointsSound /\ Local(p) /\ Entering(p)
  BY DEF IInv, Local
<1>2. Own(p)
  BY <1>1, ActOwn
<1>3. \A c \in checkpoints' : WellMade(c.node, c.state)
  <2>1. CASE InitCheckpoint(p)
    <3>1. mem[p] = InitialState
      BY <1>1, <2>1 DEF InitCheckpoint, Local, Fresh
    <3>2. WellMade(Start, InitialState)
      BY DEF WellMade, UniqueIds, EvidenceOfPassed, InitialState, AllEvidence
    <3>3. QED
      BY <2>1, <3>1, <3>2 DEF InitCheckpoint, RInv
  <2>2. CASE SaveCheckpoint(p)
    <3>1. WellMade(node[p], mem[p])
      BY <2>2 DEF SaveCheckpoint, RInv, StateMade
    <3>2. QED
      BY <2>2, <3>1 DEF SaveCheckpoint, RInv
  <2>3. CASE checkpoints' = checkpoints
    BY <2>3 DEF RInv
  <2>4. QED
    BY <2>1, <2>2, <2>3, CheckpointActions
<1>4. StateMade(p)'
  <2>1. CASE RunNode(p)
    <3>1. node' = node /\ WellMade(node[p], mem'[p])
      BY <1>1, <2>1, RunNodeWellMade DEF RInv
    <3>2. QED
      BY <3>1 DEF StateMade
  <2>2. CASE ~RunNode(p)
    BY <1>1, <2>2, WorkerActions DEF RInv, StateMade, Worker
  <2>3. QED
    BY <2>1, <2>2
<1>5. \A q \in Proc \ {p} : StateMade(q)'
  BY <1>2 DEF Own, RInv, StateMade
<1>6. QED
  BY <1>3, <1>4, <1>5 DEF RInv

LEMMA InitRInv == Init => RInv
BY DEF Init, RInv, StateMade

LEMMA NextRInv == IInv /\ RInv /\ [Next]_vars => RInv'
<1> SUFFICES ASSUME IInv, RInv, [Next]_vars PROVE RInv'
  OBVIOUS
<1>1. CASE \E p \in Proc : Act(p)
  BY <1>1, ActRInv
<1>2. CASE UNCHANGED vars
  BY <1>2 DEF vars, db, proc, RInv, StateMade
<1>3. QED
  BY <1>1, <1>2 DEF Next, Quiet, Act

LEMMA SpecRInv == Spec => []RInv
BY InitRInv, NextRInv, SpecIInv, PTL DEF Spec

\* A report accounts for everything, in every run: a candidate that passed has one
\* piece of evidence, a failed execution one diagnosis, and nothing else is diagnosed
\* (execute_sandbox_node, diagnose_failure_node, the routers of workflow/edges.py).
THEOREM ReportsComplete == Spec => []ReportComplete
<1>1. \A c : WellMade(Report, c.state) =>
        /\ \A x \in PassedCandidates(c.state) :
             Cardinality({e \in c.state.evidences : e.of = {x.id}}) = 1
        /\ \A e \in FailedEvidence(c.state) :
             Cardinality({d \in c.state.diagnoses : d.of = e}) = 1
        /\ \A d \in c.state.diagnoses : d.of \in FailedEvidence(c.state)
  BY FS_Singleton DEF WellMade, ExecutedOnce, DiagnosedOnce
<1>2. RInv => ReportComplete
  BY <1>1 DEF RInv, ReportComplete
<1>3. QED
  BY <1>2, SpecRInv, PTL

=============================================================================
