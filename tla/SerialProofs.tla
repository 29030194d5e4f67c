--------------------------- MODULE SerialProofs ---------------------------
(***************************************************************************)
(* When resumption waits for the process to end, a run through crashes and *)
(* resumes is a run that was never interrupted: its row and checkpoints    *)
(* implement RunLifecycle, a finished run stays as it is, a failure that   *)
(* is announced is recorded, the cycle check never trips, an interruption  *)
(* costs one node, and no checkpoint is ahead of the artifact tables.      *)
(***************************************************************************)
EXTENDS ReportProofs

-----------------------------------------------------------------------------
(* The inductive invariant *)

USE DEF Start, Ingest, Plan, Generate, Validate, Execute, Diagnose, Report

\* One process at a time.
Alone == \A p, q \in Proc : Live(p) /\ Live(q) => p = q

\* Before the first checkpoint.
Early == {"cli_save", "cli_event", "init_save", "init_checkpoint"}

\* A node has been started and is not checkpointed.
Working == {"dispatch", "persist_run", "persist", "checkpoint"}

\* What the row says while the process is where it is.
RowAt(p) ==
    /\ pc[p] \in Early => checkpoints = {}
    /\ pc[p] = "cli_save" => run = NoRow
    /\ pc[p] \in {"cli_event", "init_save", "init_checkpoint", "init_running"} =>
         run.status = "INITIALIZED"
    /\ pc[p] \in {"seen", "resumed", "running", "save_failed"} =>
         run.status \in {"INITIALIZED", "RUNNING"}
    /\ pc[p] \in {"restore", "enter", "finish"} \cup Working => run.status = "RUNNING"
    /\ pc[p] = "emit_failed" => run.status = "FAILED" \/ checkpoints = {}

\* _current_run is the row, once there is one.
Remembered(p) ==
    /\ pc[p] \in {"cli_save", "cli_event", "init_save"} => cur[p] = NoRow
    /\ pc[p] \in (Guarded \cup {"seen"}) \ {"init_save"} => cur[p] = run

\* The memory is tied to the latest checkpoint, not to any.
AtLatest(p) ==
    /\ pc[p] \in {"guard", "seen", "resumed", "running", "restore"} =>
         \E c \in Latest : c.node = node[p] /\ c.state = mem[p]
    /\ pc[p] \in {"enter", "dispatch"} =>
         \E c \in Latest :
             c.node # Report /\ Successor(c) = node[p] /\ c.state = mem[p]
    /\ pc[p] \in Worker =>
         \E c \in Latest :
             c.node # Report /\ Successor(c) = node[p] /\ Kept(node[p], c.state, mem[p])
    /\ pc[p] = "finish" =>
         \E c \in checkpoints : c.node = Report /\ node[p] = Report /\ c.state = mem[p]

Reached == {c.node : c \in checkpoints}

\* executed_nodes holds what is checkpointed, and the node being executed.
ExecutedAt(p) ==
    /\ pc[p] \in Early \cup {"init_running"} => executed[p] = {}
    /\ pc[p] \in {"resumed", "running", "restore", "enter"} => executed[p] \subseteq Reached
    /\ pc[p] \in Working => executed[p] \subseteq Reached \cup {node[p]}

Place(p) == RowAt(p) /\ Remembered(p) /\ AtLatest(p) /\ ExecutedAt(p)

Announced == \E i \in DOMAIN events : events[i].type = "RUN_FAILED"

\* The row, the checkpoints and the log.
RowSound ==
    /\ checkpoints # {} => run.status # "ABSENT"
    /\ run.status = "INITIALIZED" => Reached \subseteq {Start}
    /\ Announced => run.status = "FAILED" \/ checkpoints = {}
    /\ \A p \in Proc : pc[p] \in Early => ~Announced
    /\ \A c, d \in checkpoints : StepIndex(c.node) = StepIndex(d.node) => c = d

SInv == Alone /\ RowSound /\ \A p \in Proc : Place(p)

\* Bounded rework, with the started node counted where it stands.
InProgress == IF \E p \in Proc : pc[p] \in Working THEN 1 ELSE 0

Steps == {c \in checkpoints : c.node # Start}

ReworkInv ==
    /\ IsFiniteSet(checkpoints)
    /\ Count("NODE_STARTED") =< Cardinality(Steps) + crashes + faults + InProgress

\* Tables.
PersistedAt(p) ==
    /\ pc[p] = "restore" => \A c \in mem[p].candidates : c \in candTable \/ c \in todo[p]
    /\ pc[p] \in {"enter", "dispatch", "persist_run"} => mem[p].candidates \subseteq candTable
    /\ pc[p] \in {"persist", "checkpoint"} =>
         /\ \A c \in mem[p].candidates :
              \/ c \in candTable
              \/ pc[p] = "persist" /\ node[p] \in {Generate, Validate} /\ c \in todo[p]
         /\ \A d \in mem[p].diagnoses :
              \/ d \in diagTable
              \/ pc[p] = "persist" /\ node[p] = Diagnose /\ d \in todo[p]
    /\ pc[p] = "finish" => Persisted(mem[p])

\* Evidence of a candidate is that of the latest checkpoint.
EvidenceAtLatest ==
    \A e \in evTable : \A id \in e.of : \E c \in Latest :
        \E x \in PassedCandidates(c.state) : x.id = id

TInv ==
    /\ \A p \in Proc : PersistedAt(p)
    /\ \A c \in checkpoints : c.state.diagnoses \subseteq diagTable
    /\ EvidenceAtLatest
    /\ ExecutedWerePassed
    /\ CompletedIsReported
-----------------------------------------------------------------------------
(* Who acts, and on what *)

\* A step of SerialNext by process p.
Move(p) ==
    \/ StartResume(p) /\ \A q \in Proc : ~Live(q)
    \/ Step(p)
    \/ Interrupt(p)

LEMMA MoveIsAct == ASSUME NEW p \in Proc, Move(p) PROVE Act(p)
BY DEF Move, Act

LEMMA ActorLive ==
    ASSUME NEW p \in Proc, Step(p) \/ Interrupt(p)
    PROVE  Live(p)
BY DEF Live, Active, Unguarded, Guarded, Handler, Step, Interrupt, NewRun, Recover, RunNode, Loop, CliSaveRun,
   CliEmitConfigMode, InitSaveRun, InitCheckpoint, InitRunning, CliLoad, LoadCheckpoint,
   RejectNoCheckpoint, Reject, CliGuard, Load, Guard, RejectTerminal, Seen, EmitRunResumed,
   SaveRunning, RestoreCandidate, ResolveResumeNode, EnterNode, CycleDetected,
   DispatchIngest, DispatchPlan, DispatchGenerate, DispatchValidate, DispatchExecute,
   DispatchDiagnose, DispatchReport, Dispatch, PersistRun, PersistCandidate,
   PersistEvidence, PersistDiagnosis, EmitNodeCompleted, SaveCheckpoint, Finish, SaveFailed,
   EmitRunFailed, CliRejectMode, Raise, RaiseUncaught, Crash

\* While a process acts the others are not running.
LEMMA OthersIdle ==
    ASSUME IInv, Alone, NEW p \in Proc, Move(p)
    PROVE  /\ Own(p)
           /\ \A q \in Proc \ {p} : ~Live(q) /\ ~Live(q)'
<1>1. Own(p)
  BY MoveIsAct, ActOwn DEF IInv
<1>2. \A q \in Proc \ {p} : ~Live(q)
  BY ActorLive DEF Move, Alone
<1>3. QED
  BY <1>1, <1>2 DEF Own, Live

LEMMA MoveAlone ==
    ASSUME IInv, Alone, NEW p \in Proc, Move(p)
    PROVE  Alone'
BY OthersIdle DEF Alone

LEMMA RowActions ==
    ASSUME NEW p \in Proc, Act(p)
    PROVE  \/ CliSaveRun(p) \/ InitSaveRun(p) \/ InitRunning(p) \/ SaveRunning(p)
           \/ PersistRun(p) \/ Finish(p) \/ SaveFailed(p) \/ run' = run
BY DEF Act, StartResume, db, Step, Interrupt, NewRun, Recover, RunNode, Loop, CliEmitConfigMode, InitCheckpoint, CliLoad, LoadCheckpoint,
   RejectNoCheckpoint, Reject, CliGuard, Load, Guard, RejectTerminal, Seen, EmitRunResumed,
   RestoreCandidate, ResolveResumeNode, EnterNode, CycleDetected,
   DispatchIngest, DispatchPlan, DispatchGenerate, DispatchValidate, DispatchExecute,
   DispatchDiagnose, DispatchReport, Dispatch, PersistCandidate,
   PersistEvidence, PersistDiagnosis, EmitNodeCompleted, SaveCheckpoint, EmitRunFailed, CliRejectMode, Raise, RaiseUncaught, Crash

LEMMA EventActions ==
    ASSUME NEW p \in Proc, Act(p)
    PROVE  \/ CliEmitConfigMode(p) \/ EmitRunResumed(p) \/ EnterNode(p)
           \/ EmitNodeCompleted(p) \/ EmitRunFailed(p) \/ events' = events
BY DEF Act, StartResume, db, Step, Interrupt, NewRun, Recover, RunNode, Loop, CliSaveRun,
   InitSaveRun, InitCheckpoint, InitRunning, CliLoad, LoadCheckpoint,
   RejectNoCheckpoint, Reject, CliGuard, Load, Guard, RejectTerminal, Seen, SaveRunning, RestoreCandidate, ResolveResumeNode, CycleDetected,
   DispatchIngest, DispatchPlan, DispatchGenerate, DispatchValidate, DispatchExecute,
   DispatchDiagnose, DispatchReport, Dispatch, PersistRun, PersistCandidate,
   PersistEvidence, PersistDiagnosis, SaveCheckpoint, Finish, SaveFailed,
   CliRejectMode, Raise, RaiseUncaught, Crash

-----------------------------------------------------------------------------
(* The order of the checkpoints *)

LEMMA StepIndices ==
    /\ StepIndex(Start) = 0 /\ StepIndex(Ingest) = 1 /\ StepIndex(Plan) = 2
    /\ StepIndex(Generate) = 3 /\ StepIndex(Validate) = 4 /\ StepIndex(Execute) = 5
    /\ StepIndex(Diagnose) = 6 /\ StepIndex(Report) = 7
BY DEF StepIndex

LEMMA StepIndexNat ==
    ASSUME NEW n \in Node \cup {Start}
    PROVE  StepIndex(n) \in 0..7
BY StepIndices DEF Node

\* The routers follow the edges of the graph.
LEMMA GraphEdge ==
    ASSUME NEW c \in Checkpoint, Done(c.node, c.state), c.node # Report
    PROVE  /\ <<StepIndex(c.node), StepIndex(Successor(c))>> \in Lifecycle!Edge
           /\ StepIndex(c.node) < StepIndex(Successor(c))
           /\ Successor(c) \in Node
<1>1. c.node \in (Node \cup {Start}) \ {Report}
  BY DEF Checkpoint
<1>2. CASE c.node = Plan
  <2>1. c.state.plan.route \in Route
    BY <1>2 DEF Checkpoint, WorkflowState, ExecutionPlan, Done
  <2>2. Successor(c) \in {Generate, Execute, Report}
    BY <1>2, <2>1 DEF Successor, NextNode, RouteAfterPlanning, Route, NoOp, Docker, Generation
  <2>3. QED
    BY <1>2, <2>2, StepIndices DEF Lifecycle!Edge, Node
<1>3. CASE c.node \in {Start, Ingest, Generate, Diagnose}
  BY <1>3, StepIndices DEF Successor, NextNode, Lifecycle!Edge, Node
<1>4. CASE c.node = Validate
  <2>1. Successor(c) \in {Execute, Report}
    BY <1>4 DEF Successor, NextNode, RouteAfterValidation
  <2>2. QED
    BY <1>4, <2>1, StepIndices DEF Lifecycle!Edge, Node
<1>5. CASE c.node = Execute
  <2>1. Successor(c) \in {Diagnose, Report}
    BY <1>5 DEF Successor, NextNode, RouteAfterExecution
  <2>2. QED
    BY <1>5, <2>1, StepIndices DEF Lifecycle!Edge, Node
<1>6. QED
  BY <1>1, <1>2, <1>3, <1>4, <1>5 DEF Node

\* The successor of a latest checkpoint lies behind all checkpoints.
LEMMA BehindAll ==
    ASSUME IInv, NEW c \in Latest, c.node # Report
    PROVE  /\ \A d \in checkpoints : StepIndex(d.node) < StepIndex(Successor(c))
           /\ Successor(c) \notin Reached
           /\ Successor(c) \in Node
           /\ <<StepIndex(c.node), StepIndex(Successor(c))>> \in Lifecycle!Edge
<1>1. c \in checkpoints /\ c \in Checkpoint /\ Done(c.node, c.state)
  BY DEF Latest, IInv, TypeOK, CheckpointsSound
<1>2. /\ StepIndex(c.node) < StepIndex(Successor(c)) /\ Successor(c) \in Node
      /\ <<StepIndex(c.node), StepIndex(Successor(c))>> \in Lifecycle!Edge
  BY <1>1, GraphEdge
<1>3. ASSUME NEW d \in checkpoints
      PROVE  StepIndex(d.node) < StepIndex(Successor(c))
  <2>1. d.node \in Node \cup {Start} /\ c.node \in Node \cup {Start}
    BY <1>1 DEF IInv, TypeOK, Checkpoint
  <2>2. StepIndex(d.node) =< StepIndex(c.node)
    BY DEF Latest
  <2>3. StepIndex(d.node) \in Nat /\ StepIndex(c.node) \in Nat
        /\ StepIndex(Successor(c)) \in Nat
    BY <1>2, <2>1, StepIndexNat
  <2>4. QED
    BY <1>2, <2>2, <2>3
<1>4. Successor(c) \notin Reached
  <2>1. SUFFICES ASSUME NEW d \in checkpoints, d.node = Successor(c) PROVE FALSE
    BY DEF Reached
  <2>2. StepIndex(Successor(c)) \in Nat
    BY <1>2, StepIndexNat
  <2>3. QED
    BY <1>3, <2>1, <2>2
<1>5. QED
  BY <1>2, <1>3, <1>4

-----------------------------------------------------------------------------
(* A process's own place *)

USE DEF Early, Working, Worker

LEMMA MoveRowAt ==
    ASSUME IInv, SInv, NEW p \in Proc, Move(p)
    PROVE  RowAt(p)'
<1>1. /\ TypeOK /\ RowAt(p) /\ Remembered(p)
      /\ checkpoints # {} => run.status # "ABSENT"
  BY DEF IInv, SInv, Place, RowSound
<1>2. run.status \in {"ABSENT", "INITIALIZED", "RUNNING", "COMPLETED", "FAILED"}
  BY <1>1 DEF TypeOK, RunRow, Terminal
<1>3. CASE StartResume(p)
  BY <1>1, <1>3 DEF StartResume, Goto, db, RowAt, TypeOK
<1>4. CASE NewRun(p)
  BY <1>1, <1>4 DEF NewRun, CliSaveRun, CliEmitConfigMode, InitSaveRun, InitCheckpoint, InitRunning, SaveRun, Goto, RowAt, TypeOK
<1>5. CASE Guard(p)
  <2>1. checkpoints # {}
    BY <1>5 DEF Guard, IInv, Local, Loaded
  <2>2. QED
    BY <1>1, <1>2, <1>5, <2>1 DEF Guard, TerminalRow, Terminal, Goto, db, RowAt, TypeOK
<1>6. CASE Recover(p) /\ ~Guard(p)
  BY <1>1, <1>6 DEF Recover, CliLoad, LoadCheckpoint, RejectNoCheckpoint, Reject, CliGuard,
     Load, RejectTerminal, Seen, EmitRunResumed, SaveRunning, RestoreCandidate,
     ResolveResumeNode,
     Exit, SaveRun, Goto, db, RowAt, TypeOK
<1>7. CASE RunNode(p)
  BY <1>1, <1>7 DEF RunNode, DispatchIngest, DispatchPlan, DispatchGenerate, DispatchValidate,
     DispatchExecute, DispatchDiagnose, DispatchReport, Dispatch, Goto, db, RowAt, TypeOK
<1>8. CASE Loop(p) /\ ~RunNode(p)
  BY <1>1, <1>8 DEF Loop, EnterNode, CycleDetected, PersistRun, PersistCandidate, PersistEvidence,
     PersistDiagnosis, EmitNodeCompleted, SaveCheckpoint, Finish,
     Exit, SaveRun, Goto, db, RowAt, Remembered, Guarded, TypeOK
<1>9. CASE SaveFailed(p) \/ EmitRunFailed(p)
  BY <1>1, <1>9 DEF SaveFailed, EmitRunFailed, Exit, SaveRun, Goto, RowAt, TypeOK
<1>10. CASE Raise(p)
  <2>1. pc[p] = "init_save" \/ cur[p] = run
    BY <1>1, <1>10 DEF Raise, Remembered
  <2>2. pc[p] # "init_save" => run.status \in {"INITIALIZED", "RUNNING"}
    BY <1>1, <1>10 DEF Raise, Guarded, RowAt
  <2>3. \/ pc'[p] = "emit_failed" /\ checkpoints = {}
        \/ pc'[p] = "save_failed" /\ run.status \in {"INITIALIZED", "RUNNING"}
    BY <1>1, <1>10, <2>1, <2>2 DEF Raise, HandlerEntry, Goto, NoRow, RowAt, Remembered, TypeOK
  <2>4. UNCHANGED <<run, checkpoints>>
    BY <1>10 DEF Raise, db
  <2>5. QED
    BY <2>3, <2>4 DEF RowAt
<1>11. CASE Interrupt(p) /\ ~Raise(p)
  BY <1>1, <1>11 DEF Interrupt, CliRejectMode, RaiseUncaught, Crash, Exit, Goto, db, RowAt, TypeOK
<1>12. QED
  BY <1>3, <1>4, <1>5, <1>6, <1>7, <1>8, <1>9, <1>10, <1>11 DEF Move, Step, Interrupt

LEMMA MoveRemembered ==
    ASSUME IInv, SInv, NEW p \in Proc, Move(p)
    PROVE  Remembered(p)'
<1>1. TypeOK /\ Remembered(p)
  BY DEF IInv, SInv, Place
<1>2. CASE StartResume(p)
  BY <1>1, <1>2 DEF StartResume, Goto, db, Remembered, Guarded, TypeOK
<1>3. CASE NewRun(p)
  BY <1>1, <1>3 DEF NewRun, CliSaveRun, CliEmitConfigMode, InitSaveRun, InitCheckpoint, InitRunning, SaveRun, Goto, Remembered, Guarded, TypeOK
<1>4. CASE Recover(p)
  <2>1. CASE SaveRunning(p)
    BY <1>1, <2>1 DEF SaveRunning, SaveRun, Goto, Remembered, Guarded, TypeOK
  <2>2. CASE RestoreCandidate(p)
    BY <1>1, <2>2 DEF RestoreCandidate, Remembered, Guarded, TypeOK
  <2>3. CASE Recover(p) /\ ~SaveRunning(p) /\ ~RestoreCandidate(p)
    BY <1>1, <2>3 DEF Recover, CliLoad, LoadCheckpoint, RejectNoCheckpoint, Reject, CliGuard,
     Load, Guard, RejectTerminal, Seen, EmitRunResumed, 
     ResolveResumeNode,
       Exit, Goto, db, Remembered, Guarded, TypeOK
  <2>4. QED
    BY <1>4, <2>1, <2>2, <2>3
<1>5. CASE RunNode(p)
  BY <1>1, <1>5 DEF RunNode, DispatchIngest, DispatchPlan, DispatchGenerate, DispatchValidate,
     DispatchExecute, DispatchDiagnose, DispatchReport, Dispatch, Goto, db, Remembered, Guarded, TypeOK
<1>6. CASE Loop(p) /\ ~RunNode(p)
  BY <1>1, <1>6 DEF Loop, EnterNode, CycleDetected, PersistRun, PersistCandidate, PersistEvidence,
     PersistDiagnosis, EmitNodeCompleted, SaveCheckpoint, Finish,
     Exit, SaveRun, Goto, db, Remembered, Guarded, TypeOK
<1>7. CASE SaveFailed(p) \/ EmitRunFailed(p)
  BY <1>1, <1>7 DEF SaveFailed, EmitRunFailed, Exit, SaveRun, Goto, Remembered, Guarded, TypeOK
<1>8. CASE Interrupt(p)
  BY <1>1, <1>8 DEF Interrupt, CliRejectMode, Raise, RaiseUncaught, Crash, Exit, Goto, HandlerEntry, db,
     Remembered, Guarded, TypeOK
<1>9. QED
  BY <1>2, <1>3, <1>4, <1>5, <1>6, <1>7, <1>8 DEF Move, Step

LEMMA ReachedAdded ==
    ASSUME NEW p, NEW n, NEW st,
           checkpoints' = checkpoints \cup {[by |-> p, node |-> n, state |-> st]}
    PROVE  Reached' = Reached \cup {n}
<1> DEFINE new == [by |-> p, node |-> n, state |-> st]
<1>1. new.node = n /\ checkpoints' = checkpoints \cup {new}
  OBVIOUS
<1> HIDE DEF new
<1>2. QED
  BY <1>1 DEF Reached

LEMMA MoveExecutedAt ==
    ASSUME IInv, SInv, NEW p \in Proc, Move(p)
    PROVE  ExecutedAt(p)'
<1>1. TypeOK /\ ExecutedAt(p)
  BY DEF IInv, SInv, Place
<1>2. CASE StartResume(p)
  BY <1>1, <1>2 DEF StartResume, Goto, db, ExecutedAt, Reached, TypeOK
<1>3. CASE NewRun(p)
  BY <1>1, <1>3 DEF NewRun, CliSaveRun, CliEmitConfigMode, InitSaveRun, InitCheckpoint, InitRunning, SaveRun, Goto, ExecutedAt, Reached, TypeOK
<1>4. CASE Seen(p)
  BY <1>1, <1>4 DEF Seen, Goto, db, ExecutedAt, Reached, TypeOK
<1>5. CASE Recover(p) /\ ~Seen(p)
  BY <1>1, <1>5 DEF Recover, CliLoad, LoadCheckpoint, RejectNoCheckpoint, Reject, CliGuard,
     Load, Guard, RejectTerminal, EmitRunResumed, SaveRunning, RestoreCandidate,
     ResolveResumeNode,
     Exit, SaveRun, Goto, db, ExecutedAt, Reached, TypeOK
<1>6. CASE RunNode(p)
  BY <1>1, <1>6 DEF RunNode, DispatchIngest, DispatchPlan, DispatchGenerate, DispatchValidate,
     DispatchExecute, DispatchDiagnose, DispatchReport, Dispatch, Goto, db, ExecutedAt, Reached, TypeOK
<1>7. CASE SaveCheckpoint(p)
  <2>1. Reached' = Reached \cup {node[p]}
    BY <1>7, ReachedAdded DEF SaveCheckpoint
  <2>2. pc[p] = "checkpoint" /\ pc'[p] \in {"enter", "finish"} /\ executed' = executed
    BY <1>1, <1>7 DEF SaveCheckpoint, Goto, TypeOK
  <2>3. QED
    BY <1>1, <2>1, <2>2 DEF ExecutedAt
<1>8. CASE Loop(p) /\ ~RunNode(p) /\ ~SaveCheckpoint(p)
  BY <1>1, <1>8 DEF Loop, EnterNode, CycleDetected, PersistRun, PersistCandidate, PersistEvidence,
     PersistDiagnosis, EmitNodeCompleted, Finish,
     Exit, SaveRun, Goto, db, ExecutedAt, Reached, TypeOK
<1>9. CASE SaveFailed(p) \/ EmitRunFailed(p)
  BY <1>1, <1>9 DEF SaveFailed, EmitRunFailed, Exit, SaveRun, Goto, ExecutedAt, Reached, TypeOK
<1>10. CASE Interrupt(p)
  BY <1>1, <1>10 DEF Interrupt, CliRejectMode, Raise, RaiseUncaught, Crash, Exit, Goto, HandlerEntry, db,
     ExecutedAt, Reached, TypeOK
<1>11. QED
  BY <1>2, <1>3, <1>4, <1>5, <1>6, <1>7, <1>8, <1>9, <1>10 DEF Move, Step

\* A checkpoint that is saved lies behind all others, so it is the latest.
LEMMA Saved ==
    ASSUME IInv, NEW p \in Proc, AtLatest(p), SaveCheckpoint(p)
    PROVE  LET new == [by |-> p, node |-> node[p], state |-> mem[p]] IN
           /\ checkpoints' = checkpoints \cup {new} /\ new \notin checkpoints
           /\ new \in Checkpoint
           /\ node[p] \in Node /\ node[p] \notin Reached
           /\ \A d \in checkpoints : StepIndex(d.node) < StepIndex(node[p])
           /\ Latest' = {new}
<1> DEFINE new == [by |-> p, node |-> node[p], state |-> mem[p]]
<1>1. PICK c \in Latest : c.node # Report /\ Successor(c) = node[p]
  BY DEF SaveCheckpoint, AtLatest
<1>2. /\ \A d \in checkpoints : StepIndex(d.node) < StepIndex(node[p])
      /\ node[p] \in Node /\ node[p] \notin Reached
  BY <1>1, BehindAll
<1>3. checkpoints' = checkpoints \cup {new}
  BY DEF SaveCheckpoint
<1>4. new \in Checkpoint /\ new.node = node[p]
  BY <1>2 DEF IInv, TypeOK, Checkpoint
<1> HIDE DEF new
<1>5. new \notin checkpoints
  BY <1>2, <1>4 DEF Reached
<1>6. /\ StepIndex(node[p]) \in Nat
      /\ \A d \in checkpoints : StepIndex(d.node) \in Nat
  BY <1>2, StepIndexNat DEF IInv, TypeOK, Checkpoint
<1>7. \A d \in checkpoints' : StepIndex(d.node) =< StepIndex(new.node)
  BY <1>2, <1>3, <1>4, <1>6
<1>8. \A d \in checkpoints : ~(StepIndex(new.node) =< StepIndex(d.node))
  BY <1>2, <1>4, <1>6
<1>9. Latest' = {new}
  BY <1>3, <1>7, <1>8 DEF Latest
<1>10. QED
  BY <1>2, <1>3, <1>4, <1>5, <1>9 DEF new

LEMMA MoveAtLatest ==
    ASSUME IInv, RInv, SInv, NEW p \in Proc, Move(p)
    PROVE  AtLatest(p)'
<1>1. TypeOK /\ AtLatest(p) /\ RowAt(p) /\ Local(p)
  BY DEF IInv, SInv, Place
<1>2. CASE StartResume(p)
  BY <1>1, <1>2 DEF StartResume, Goto, db, AtLatest, TypeOK
<1>3. CASE NewRun(p) /\ ~InitRunning(p)
  BY <1>1, <1>3 DEF NewRun, CliSaveRun, CliEmitConfigMode, InitSaveRun, InitCheckpoint,
     Goto, AtLatest, TypeOK
<1>4. CASE InitRunning(p)
  <2>1. PICK d \in checkpoints : d.node = Start /\ d.state = mem[p]
    BY <1>1, <1>4 DEF InitRunning, Local, Loaded
  <2>2. run.status = "INITIALIZED"
    BY <1>1, <1>4 DEF InitRunning, RowAt
  <2>3. \A c \in checkpoints : c.node = Start
    BY <2>2 DEF SInv, RowSound, Reached
  <2>4. d \in Latest
    BY <2>3, StepIndices DEF Latest
  <2>5. /\ checkpoints' = checkpoints /\ Latest' = Latest /\ pc'[p] = "enter"
        /\ node'[p] = Ingest /\ mem'[p] = mem[p]
    BY <1>1, <1>4 DEF InitRunning, Goto, Latest, TypeOK
  <2>6. Successor(d) = Ingest
    BY <2>1 DEF Successor
  <2>7. QED
    BY <2>1, <2>4, <2>5, <2>6 DEF AtLatest, Successor
<1>5. CASE CliLoad(p)
  BY <1>1, <1>5 DEF CliLoad, LoadCheckpoint, Goto, AtLatest, TypeOK
<1>6. CASE Load(p)
  <2>1. PICK c \in Latest : node'[p] = c.node /\ mem'[p] = c.state
    BY <1>1, <1>6 DEF Load, LoadCheckpoint, TypeOK
  <2>2. pc'[p] = "guard" /\ Latest' = Latest
    BY <1>1, <1>6 DEF Load, LoadCheckpoint, Goto, db, Latest, TypeOK
  <2>3. QED
    BY <2>1, <2>2 DEF AtLatest
<1>7. CASE ResolveResumeNode(p)
  <2>1. PICK c \in Latest : c.node = node[p] /\ c.state = mem[p]
    BY <1>1, <1>7 DEF ResolveResumeNode, AtLatest
  <2>2. c.node # Report /\ c \in Checkpoint
    BY <1>1, <1>7, <2>1 DEF ResolveResumeNode, Local, Loaded, Latest, TypeOK
  <2>3. node'[p] = Successor(c)
    BY <1>1, <1>7, <2>1, <2>2, ResumeIsSuccessor DEF ResolveResumeNode, TypeOK
  <2>4. /\ pc'[p] = "enter" /\ mem'[p] = mem[p] /\ Latest' = Latest
    BY <1>1, <1>7 DEF ResolveResumeNode, Goto, db, Latest, TypeOK
  <2>5. QED
    BY <2>1, <2>2, <2>3, <2>4 DEF AtLatest, Successor
<1>8. CASE RestoreCandidate(p)
  BY <1>1, <1>8 DEF RestoreCandidate, AtLatest, Latest, TypeOK
<1>9. CASE \/ RejectNoCheckpoint(p) \/ CliGuard(p) \/ Guard(p) \/ RejectTerminal(p)
           \/ Seen(p) \/ EmitRunResumed(p) \/ SaveRunning(p)
  BY <1>1, <1>9 DEF RejectNoCheckpoint, Reject, CliGuard, Guard, RejectTerminal, Seen,
     EmitRunResumed, SaveRunning, Exit, Goto, db, AtLatest, Latest, TypeOK
<1>10. CASE RunNode(p)
  <2>1. /\ pc[p] = "dispatch" /\ pc'[p] \in {"persist_run", "persist"}
        /\ node' = node /\ checkpoints' = checkpoints
        /\ Kept(node[p], mem[p], mem'[p])
    BY <1>1, <1>10, RunNodeWellMade DEF IInv, RInv, Local
  <2>2. PICK c \in Latest :
            c.node # Report /\ Successor(c) = node[p] /\ c.state = mem[p]
    BY <1>1, <2>1 DEF AtLatest
  <2>3. Latest' = Latest
    BY <2>1 DEF Latest
  <2>4. QED
    BY <2>1, <2>2, <2>3 DEF AtLatest, Successor
<1>11. CASE SaveCheckpoint(p)
  <2> DEFINE new == [by |-> p, node |-> node[p], state |-> mem[p]]
  <2>1. new \in checkpoints' /\ new \in Latest' /\ node[p] \in Node
    BY <1>1, <1>11, Saved
  <2>2. mem'[p] = mem[p] /\ new.node = node[p] /\ new.state = mem[p]
    BY <1>11 DEF SaveCheckpoint
  <2> HIDE DEF new
  <2>3. CASE node[p] = Report
    <3>1. pc'[p] = "finish" /\ node'[p] = Report
      BY <1>1, <1>11, <2>3 DEF SaveCheckpoint, Goto, TypeOK
    <3>2. QED
      BY <2>1, <2>2, <2>3, <3>1 DEF AtLatest
  <2>4. CASE node[p] # Report
    <3>1. pc'[p] = "enter" /\ node'[p] = Successor(new)
      BY <1>1, <1>11, <2>1, <2>2, <2>4 DEF SaveCheckpoint, Goto, TypeOK, Successor, Node
    <3>2. QED
      BY <2>1, <2>2, <2>4, <3>1 DEF AtLatest, Successor
  <2>5. QED
    BY <2>3, <2>4
<1>12. CASE \/ PersistCandidate(p) \/ PersistEvidence(p) \/ PersistDiagnosis(p)
  BY <1>1, <1>12 DEF PersistCandidate, PersistEvidence, PersistDiagnosis, AtLatest, Latest
<1>13. CASE \/ EnterNode(p) \/ CycleDetected(p) \/ PersistRun(p) \/ EmitNodeCompleted(p)
            \/ Finish(p)
  BY <1>1, <1>13 DEF EnterNode, CycleDetected, PersistRun, EmitNodeCompleted, Finish,
     Exit, Goto, db, AtLatest, Latest, TypeOK
<1>14. CASE SaveFailed(p) \/ EmitRunFailed(p)
  BY <1>1, <1>14 DEF SaveFailed, EmitRunFailed, Exit, Goto, AtLatest, TypeOK
<1>15. CASE Interrupt(p)
  BY <1>1, <1>15 DEF Interrupt, CliRejectMode, Raise, RaiseUncaught, Crash, Exit, Goto,
     HandlerEntry, AtLatest, TypeOK
<1>16. QED
  BY <1>2, <1>3, <1>4, <1>5, <1>6, <1>7, <1>8, <1>9, <1>10, <1>11, <1>12, <1>13, <1>14,
     <1>15 DEF Move, Step, Recover, Loop

-----------------------------------------------------------------------------
(* The row, the checkpoints and the log *)

\* The row is written where RowAt knows it, and never once the run has ended.
LEMMA RowMoves ==
    ASSUME IInv, SInv, NEW p \in Proc, Move(p), run' # run
    PROVE  /\ checkpoints' = checkpoints
           /\ \/ run.status = "ABSENT" /\ run'.status = "INITIALIZED" /\ checkpoints = {}
              \/ /\ run.status = "INITIALIZED" /\ run'.status = "INITIALIZED"
                 /\ checkpoints = {}
              \/ /\ run.status \in {"INITIALIZED", "RUNNING"} /\ run'.status = "RUNNING"
                 /\ checkpoints # {}
              \/ /\ run.status = "RUNNING" /\ run'.status = "COMPLETED"
                 /\ Finish(p)
              \/ run.status \in {"INITIALIZED", "RUNNING"} /\ run'.status = "FAILED"
<1>1. TypeOK /\ RowAt(p) /\ Remembered(p) /\ AtLatest(p) /\ Local(p)
  BY DEF IInv, SInv, Place
<1>2. CASE CliSaveRun(p)
  BY <1>1, <1>2 DEF CliSaveRun, RowAt, NoRow
<1>3. CASE InitSaveRun(p)
  BY <1>1, <1>3 DEF InitSaveRun, SaveRun, RowAt
<1>4. CASE InitRunning(p)
  <2>1. checkpoints # {}
    BY <1>1, <1>4 DEF InitRunning, Local, Loaded
  <2>2. QED
    BY <1>1, <1>4, <2>1 DEF InitRunning, SaveRun, RowAt
<1>5. CASE SaveRunning(p)
  <2>1. checkpoints # {}
    BY <1>1, <1>5 DEF SaveRunning, Local, Loaded
  <2>2. QED
    BY <1>1, <1>5, <2>1 DEF SaveRunning, SaveRun, RowAt
<1>6. CASE PersistRun(p)
  <2>1. checkpoints # {}
    BY <1>1, <1>6 DEF PersistRun, Local, Dispatched
  <2>2. cur[p].status = "RUNNING"
    BY <1>1, <1>6 DEF PersistRun, RowAt, Remembered, Guarded
  <2>3. QED
    BY <1>1, <1>6, <2>1, <2>2 DEF PersistRun, SaveRun, RowAt
<1>7. CASE Finish(p)
  BY <1>1, <1>7 DEF Finish, RowAt
<1>8. CASE SaveFailed(p)
  BY <1>1, <1>8 DEF SaveFailed, SaveRun, RowAt
<1>9. QED
  BY <1>2, <1>3, <1>4, <1>5, <1>6, <1>7, <1>8, RowActions, MoveIsAct

\* A checkpoint is written while the run goes on.
LEMMA CheckpointMoves ==
    ASSUME IInv, SInv, NEW p \in Proc, Move(p), checkpoints' # checkpoints
    PROVE  /\ run' = run /\ events' = events
           /\ \/ /\ InitCheckpoint(p) /\ run.status = "INITIALIZED" /\ checkpoints = {}
                 /\ ~Announced
              \/ SaveCheckpoint(p) /\ run.status = "RUNNING" /\ checkpoints # {}
<1>1. RowAt(p) /\ Local(p)
  BY DEF IInv, SInv, Place
<1>2. CASE InitCheckpoint(p)
  <2>1. ~Announced
    BY <1>2 DEF InitCheckpoint, SInv, RowSound
  <2>2. QED
    BY <1>1, <1>2, <2>1 DEF InitCheckpoint, RowAt
<1>3. CASE SaveCheckpoint(p)
  <2>1. checkpoints # {}
    BY <1>1, <1>3 DEF SaveCheckpoint, Local, Dispatched
  <2>2. QED
    BY <1>1, <1>3, <2>1 DEF SaveCheckpoint, RowAt
<1>4. QED
  BY <1>2, <1>3, CheckpointActions, MoveIsAct

\* RUN_FAILED is announced behind the row that says so.
LEMMA AnnouncedMoves ==
    ASSUME IInv, SInv, NEW p \in Proc, Move(p), Announced', ~Announced
    PROVE  EmitRunFailed(p) /\ (run.status = "FAILED" \/ checkpoints = {})
<1>1. events \in Seq(Event) /\ RowAt(p)
  BY DEF IInv, TypeOK, SInv, Place
<1>2. ASSUME NEW type, NEW n, Emit(p, type, n)
      PROVE  type = "RUN_FAILED"
  BY <1>1, <1>2 DEF Emit, Announced
<1>3. CASE EmitRunFailed(p)
  BY <1>1, <1>3 DEF EmitRunFailed, RowAt
<1>4. CASE CliEmitConfigMode(p) \/ EmitRunResumed(p) \/ EnterNode(p) \/ EmitNodeCompleted(p)
  <2>1. \E type \in {"CONFIG_MODE", "RUN_RESUMED", "NODE_STARTED", "NODE_COMPLETED"} :
            \E n : Emit(p, type, n)
    BY <1>4 DEF CliEmitConfigMode, EmitRunResumed, EnterNode, EmitNodeCompleted
  <2>2. QED
    BY <1>2, <2>1
<1>5. events' # events
  BY DEF Announced
<1>6. QED
  BY <1>3, <1>4, <1>5, EventActions, MoveIsAct

LEMMA MoveRowSound ==
    ASSUME IInv, SInv, NEW p \in Proc, Move(p)
    PROVE  RowSound'
<1>1. RowSound /\ AtLatest(p) /\ TypeOK
  BY DEF SInv, Place, IInv
<1>2. checkpoints' # {} => run'.status # "ABSENT"
  BY <1>1, RowMoves, CheckpointMoves DEF RowSound
<1>3. run'.status = "INITIALIZED" => Reached' \subseteq {Start}
  <2> SUFFICES ASSUME run'.status = "INITIALIZED" PROVE Reached' \subseteq {Start}
    OBVIOUS
  <2>1. CASE run' # run
    BY <2>1, RowMoves DEF Reached
  <2>2. CASE run' = run /\ checkpoints' # checkpoints
    <3>1. InitCheckpoint(p) /\ checkpoints = {}
      BY <2>2, CheckpointMoves
    <3>2. QED
      BY <3>1, ReachedAdded DEF InitCheckpoint, Reached
  <2>3. CASE run' = run /\ checkpoints' = checkpoints
    BY <1>1, <2>3 DEF RowSound, Reached
  <2>4. QED
    BY <2>1, <2>2, <2>3
<1>4. Announced' => run'.status = "FAILED" \/ checkpoints' = {}
  <2> SUFFICES ASSUME Announced' PROVE run'.status = "FAILED" \/ checkpoints' = {}
    OBVIOUS
  <2>1. CASE ~Announced
    <3>1. EmitRunFailed(p) /\ (run.status = "FAILED" \/ checkpoints = {})
      BY <2>1, AnnouncedMoves
    <3>2. QED
      BY <3>1 DEF EmitRunFailed
  <2>2. CASE Announced
    <3>1. run.status = "FAILED" \/ checkpoints = {}
      BY <1>1, <2>2 DEF RowSound
    <3>2. CASE checkpoints' # checkpoints
      BY <2>2, <3>1, <3>2, CheckpointMoves
    <3>3. CASE checkpoints' = checkpoints /\ run' # run
      BY <3>1, <3>3, RowMoves
    <3>4. QED
      BY <3>1, <3>2, <3>3
  <2>3. QED
    BY <2>1, <2>2
<1>5. \A q \in Proc : pc'[q] \in Early => ~Announced'
  <2>1. \A q \in Proc \ {p} : pc'[q] \notin Early
    BY OthersIdle DEF SInv, Live, Active, Unguarded, Guarded
  <2>2. pc'[p] \in Early => pc[p] \in Early /\ ~EmitRunFailed(p)
    BY <1>1, MoveIsAct DEF Act, StartResume, Step, Interrupt, NewRun, Recover, Loop, RunNode,
     CliSaveRun, CliEmitConfigMode, InitSaveRun, InitCheckpoint, InitRunning, CliLoad,
     LoadCheckpoint, RejectNoCheckpoint, Reject, CliGuard, Load, Guard, RejectTerminal,
     Seen, EmitRunResumed, SaveRunning, RestoreCandidate, ResolveResumeNode, EnterNode,
     CycleDetected, DispatchIngest, DispatchPlan, DispatchGenerate, DispatchValidate,
     DispatchExecute, DispatchDiagnose, DispatchReport, Dispatch, PersistRun,
     PersistCandidate, PersistEvidence, PersistDiagnosis, EmitNodeCompleted, SaveCheckpoint,
     Finish, SaveFailed, EmitRunFailed, CliRejectMode, Raise, RaiseUncaught, Crash, Exit,
     Goto, HandlerEntry, TypeOK
  <2>3. pc'[p] \in Early => ~Announced'
    BY <1>1, <2>2, AnnouncedMoves DEF RowSound
  <2>4. QED
    BY <2>1, <2>3
<1>6. \A c, d \in checkpoints' : StepIndex(c.node) = StepIndex(d.node) => c = d
  <2>1. CASE checkpoints' = checkpoints
    BY <1>1, <2>1 DEF RowSound
  <2>2. CASE InitCheckpoint(p) /\ checkpoints = {}
    BY <2>2 DEF InitCheckpoint
  <2>3. CASE SaveCheckpoint(p)
    <3> DEFINE new == [by |-> p, node |-> node[p], state |-> mem[p]]
    <3>1. /\ checkpoints' = checkpoints \cup {new} /\ new.node = node[p] /\ node[p] \in Node
          /\ \A d \in checkpoints : StepIndex(d.node) < StepIndex(node[p])
      BY <1>1, <2>3, Saved
    <3>2. /\ StepIndex(node[p]) \in Nat
          /\ \A d \in checkpoints : StepIndex(d.node) \in Nat
      BY <1>1, <3>1, StepIndexNat DEF TypeOK, Checkpoint
    <3> HIDE DEF new
    <3>3. \A d \in checkpoints : StepIndex(d.node) # StepIndex(new.node)
      BY <3>1, <3>2
    <3>4. QED
      BY <1>1, <3>1, <3>3 DEF RowSound
  <2>4. QED
    BY <2>1, <2>2, <2>3, CheckpointMoves
<1>7. QED
  BY <1>2, <1>3, <1>4, <1>5, <1>6 DEF RowSound

\* A process that is not running promises nothing.
LEMMA MoveSInv ==
    ASSUME IInv, RInv, SInv, NEW p \in Proc, Move(p)
    PROVE  SInv'
<1>1. Alone' /\ RowSound'
  BY MoveAlone, MoveRowSound DEF SInv
<1>2. Place(p)'
  BY MoveRowAt, MoveRemembered, MoveAtLatest, MoveExecutedAt DEF Place
<1>3. \A q \in Proc \ {p} : ~Live(q)'
  BY OthersIdle DEF SInv
<1>4. \A q \in Proc \ {p} : Place(q)'
  BY <1>3 DEF Place, RowAt, Remembered, AtLatest, ExecutedAt, Live, Active, Unguarded,
     Guarded, Handler
<1>5. QED
  BY <1>1, <1>2, <1>4 DEF SInv

LEMMA InitSInv == Init => SInv
<1> SUFFICES ASSUME Init PROVE SInv
  OBVIOUS
<1>1. \A p \in Proc : (pc[p] = "cli_save" /\ p = First) \/ pc[p] = "idle"
  BY DEF Init
<1>2. Alone
  BY <1>1 DEF Alone, Live, Active, Unguarded, Guarded, Handler
<1>3. RowSound
  <2>1. run.status = "ABSENT" /\ checkpoints = {} /\ DOMAIN events = {}
    BY DEF Init, NoRow
  <2>2. ~Announced
    BY <2>1 DEF Announced
  <2>3. QED
    BY <2>1, <2>2 DEF RowSound
<1>4. ASSUME NEW p \in Proc PROVE Place(p)
  <2>1. /\ run = NoRow /\ checkpoints = {} /\ executed[p] = {} /\ cur[p] = NoRow
        /\ pc[p] \in {"cli_save", "idle"}
    BY <1>1 DEF Init
  <2>2. QED
    BY <2>1 DEF Place, RowAt, Remembered, AtLatest, ExecutedAt, Guarded
<1>5. QED
  BY <1>2, <1>3, <1>4 DEF SInv

LEMMA SameSInv == SInv /\ UNCHANGED vars => SInv'
BY DEF vars, db, proc, SInv, Alone, Live, RowSound, Announced, Reached, Place, RowAt,
   Remembered, AtLatest, Latest, ExecutedAt

\* A step of the serial specification is a move of one process, or none.
LEMMA SerialMoves ==
    ASSUME [SerialNext]_vars
    PROVE  (\E p \in Proc : Move(p)) \/ UNCHANGED vars
BY DEF SerialNext, SerialResume, Quiet, Move

LEMMA SerialInvariant == SerialSpec => [](IInv /\ RInv /\ SInv)
<1>1. IInv /\ RInv /\ SInv /\ [SerialNext]_vars => SInv'
  BY MoveSInv, SameSInv, SerialMoves
<1>2. QED
  BY <1>1, InitSInv, SerialIsSpec, SpecIInv, SpecRInv, PTL DEF SerialSpec

-----------------------------------------------------------------------------
(* The life of a run *)

\* A run that is COMPLETED or FAILED keeps its row: no resume gets past the terminal
\* checks, and no process is behind them when the run ends (resume, contract item 2).
THEOREM FinishedStays == SerialSpec => TerminalIsFinal
<1>1. ASSUME IInv, RInv, SInv, [SerialNext]_vars
      PROVE  [Ended => run' = run]_run
  <2>1. CASE UNCHANGED vars
    BY <2>1 DEF vars, db
  <2>2. CASE \E p \in Proc : Move(p)
    BY <1>1, <2>2, RowMoves DEF Ended
  <2>3. QED
    BY <1>1, <2>1, <2>2, SerialMoves
<1>2. QED
  BY <1>1, SerialInvariant, PTL DEF SerialSpec, TerminalIsFinal

\* A RUN_FAILED event means a row marked FAILED, in a run that has a checkpoint: the
\* except block saves the row before it announces (the except blocks of run and resume).
THEOREM FailuresRecorded == SerialSpec => []FailureRecorded
<1>1. SInv => FailureRecorded
  BY DEF SInv, RowSound, Announced, FailureRecorded
<1>2. QED
  BY <1>1, SerialInvariant, PTL

\* The cycle check never trips: a process is at the head of the loop with a node that
\* lies behind all checkpoints, and executed_nodes holds nodes of checkpoints only.
THEOREM CycleCheckSilent == SerialSpec => []NoSpuriousCycle
<1>1. ASSUME IInv, SInv PROVE NoSpuriousCycle
  <2> SUFFICES ASSUME NEW p \in Proc, pc[p] = "enter" PROVE node[p] \notin executed[p]
    BY DEF NoSpuriousCycle
  <2>1. executed[p] \subseteq Reached
    BY <1>1 DEF SInv, Place, ExecutedAt
  <2>2. PICK c \in Latest : c.node # Report /\ Successor(c) = node[p]
    BY <1>1 DEF SInv, Place, AtLatest
  <2>3. node[p] \notin Reached
    BY <1>1, <2>2, BehindAll
  <2>4. QED
    BY <2>1, <2>3
<1>2. QED
  BY <1>1, SerialInvariant, PTL

LEMMA MoveImplements ==
    ASSUME IInv, SInv, NEW p \in Proc, Move(p)
    PROVE  [Lifecycle!Next]_(Lifecycle!vars)
<1> DEFINE reached == {StepIndex(c.node) : c \in checkpoints}
<1>1. CASE run' # run
  <2>1. reached' = reached
    BY <1>1, RowMoves
  <2>2. CASE run.status = "ABSENT" /\ run'.status = "INITIALIZED"
    BY <2>1, <2>2 DEF Lifecycle!Next, Lifecycle!Create
  <2>3. CASE run.status = run'.status
    BY <2>1, <2>3 DEF Lifecycle!vars
  <2>4. CASE run.status = "INITIALIZED" /\ run'.status = "RUNNING" /\ checkpoints # {}
    <3>1. \A c \in checkpoints : c.node = Start
      BY <2>4 DEF SInv, RowSound, Reached
    <3>2. reached = {0}
      BY <2>4, <3>1, StepIndices
    <3>3. QED
      BY <2>1, <2>4, <3>2 DEF Lifecycle!Next, Lifecycle!Begin
  <2>5. CASE run.status = "RUNNING" /\ run'.status = "COMPLETED" /\ Finish(p)
    <3>1. \E c \in checkpoints : c.node = Report
      BY <2>5 DEF Finish, SInv, Place, AtLatest
    <3>2. 7 \in reached
      BY <3>1, StepIndices
    <3>3. QED
      BY <2>1, <2>5, <3>2 DEF Lifecycle!Next, Lifecycle!Complete
  <2>6. CASE run.status \in {"INITIALIZED", "RUNNING"} /\ run'.status = "FAILED"
    BY <2>1, <2>6 DEF Lifecycle!Next, Lifecycle!Fail
  <2>7. QED
    BY <1>1, <2>2, <2>3, <2>4, <2>5, <2>6, RowMoves
<1>2. CASE run' = run /\ checkpoints' # checkpoints
  <2>1. CASE InitCheckpoint(p) /\ run.status = "INITIALIZED" /\ checkpoints = {}
    <3>1. PICK new : new.node = Start /\ checkpoints' = {new}
      BY <2>1 DEF InitCheckpoint
    <3>2. reached = {} /\ reached' = {0}
      BY <2>1, <3>1, StepIndices
    <3>3. QED
      BY <1>2, <2>1, <3>2 DEF Lifecycle!Next, Lifecycle!Snapshot
  <2>2. CASE SaveCheckpoint(p) /\ run.status = "RUNNING"
    <3>1. PICK new : new.node = node[p] /\ checkpoints' = checkpoints \cup {new}
      BY <2>2 DEF SaveCheckpoint
    <3>2. PICK c \in Latest : c.node # Report /\ Successor(c) = node[p]
      BY <2>2 DEF SaveCheckpoint, SInv, Place, AtLatest
    <3> DEFINE e == <<StepIndex(c.node), StepIndex(node[p])>>
    <3>3. e \in Lifecycle!Edge
      BY <3>2, BehindAll
    <3>4. e[1] \in reached /\ \A s \in reached : s =< e[1]
      BY DEF Latest
    <3>5. reached' = reached \cup {e[2]}
      BY <3>1
    <3>6. QED
      BY <1>2, <2>2, <3>3, <3>4, <3>5 DEF Lifecycle!Next, Lifecycle!Advance
  <2>3. QED
    BY <1>2, <2>1, <2>2, CheckpointMoves
<1>3. CASE run' = run /\ checkpoints' = checkpoints
  BY <1>3 DEF Lifecycle!vars
<1>4. QED
  BY <1>1, <1>2, <1>3

\* Through crashes and resumes, the row and the checkpoints move as those of a run that
\* was never interrupted: every move of a process is a step of RunLifecycle, or leaves
\* its variables alone (the refinement the run resume checks on a small instance).
THEOREM ImplementsRunLifecycle == SerialSpec => ImplementsLifecycle
<1>1. Init => Lifecycle!Init
  BY DEF Init, NoRow, Lifecycle!Init
<1>2. ASSUME IInv, SInv, [SerialNext]_vars
      PROVE  [Lifecycle!Next]_(Lifecycle!vars)
  <2>1. CASE UNCHANGED vars
    BY <2>1 DEF vars, db, Lifecycle!vars
  <2>2. QED
    BY <1>2, <2>1, MoveImplements, SerialMoves
<1>3. QED
  BY <1>1, <1>2, SerialInvariant, PTL DEF SerialSpec, ImplementsLifecycle, Lifecycle!Spec

-----------------------------------------------------------------------------
(* The checkpoints and the tables *)

LEMMA LatestOne ==
    ASSUME IInv, SInv, NEW c \in Latest, NEW d \in Latest
    PROVE  c = d
<1>1. c \in checkpoints /\ d \in checkpoints
  BY DEF Latest
<1>2. StepIndex(c.node) \in Nat /\ StepIndex(d.node) \in Nat
  <2>1. c.node \in Node \cup {Start} /\ d.node \in Node \cup {Start}
    BY <1>1 DEF IInv, TypeOK, Checkpoint
  <2>2. QED
    BY <2>1, StepIndexNat
<1>3. StepIndex(c.node) =< StepIndex(d.node) /\ StepIndex(d.node) =< StepIndex(c.node)
  BY <1>1 DEF Latest
<1>4. QED
  BY <1>1, <1>2, <1>3 DEF SInv, RowSound

LEMMA TableActions ==
    ASSUME NEW p \in Proc, Act(p)
    PROVE  \/ RestoreCandidate(p) \/ PersistCandidate(p) \/ PersistEvidence(p)
           \/ PersistDiagnosis(p) \/ UNCHANGED <<candTable, evTable, diagTable>>
BY DEF Act, StartResume, db, Step, Interrupt, NewRun, Recover, RunNode, Loop, CliSaveRun,
   CliEmitConfigMode, InitSaveRun, InitCheckpoint, InitRunning, CliLoad, LoadCheckpoint,
   RejectNoCheckpoint, Reject, CliGuard, Load, Guard, RejectTerminal, Seen, EmitRunResumed,
   SaveRunning, ResolveResumeNode, EnterNode, CycleDetected,
   DispatchIngest, DispatchPlan, DispatchGenerate, DispatchValidate, DispatchExecute,
   DispatchDiagnose, DispatchReport, Dispatch, PersistRun, EmitNodeCompleted,
   SaveCheckpoint, Finish, SaveFailed, EmitRunFailed, CliRejectMode, Raise, RaiseUncaught,
   Crash

\* A candidate's row is replaced by itself when the candidates of a state are saved.
LEMMA UpsertKeeps ==
    ASSUME NEW st, UniqueIds(st), NEW row \in st.candidates, NEW table
    PROVE  /\ row \in Upsert(table, row)
           /\ \A c \in st.candidates : c \in table => c \in Upsert(table, row)
BY DEF UniqueIds, Upsert

\* The state a process resumes from, or has made, names its candidates uniquely.
LEMMA MemUnique ==
    ASSUME IInv, RInv, SInv, NEW p \in Proc, pc[p] \in {"restore", "persist"}
    PROVE  UniqueIds(mem[p])
<1>1. CASE pc[p] = "restore"
  <2>1. PICK c \in Latest : c.state = mem[p]
    BY <1>1 DEF SInv, Place, AtLatest
  <2>2. QED
    BY <2>1 DEF RInv, WellMade, Latest
<1>2. CASE pc[p] = "persist"
  BY <1>2 DEF RInv, StateMade, WellMade
<1>3. QED
  BY <1>1, <1>2

\* No evidence of a candidate is there while candidates are made and judged.
LEMMA NotYetExecuted ==
    ASSUME IInv, RInv, SInv, EvidenceAtLatest, NEW p \in Proc,
           pc[p] \in Worker, node[p] \in {Generate, Validate}
    PROVE  \A e \in evTable : e.of = {}
<1>1. PICK c \in Latest : c.node # Report /\ Successor(c) = node[p]
  BY DEF SInv, Place, AtLatest
<1>2. c \in checkpoints /\ c \in Checkpoint /\ Done(c.node, c.state) /\ WellMade(c.node, c.state)
  BY DEF Latest, IInv, TypeOK, CheckpointsSound, RInv
<1>3. c.node \in {Plan, Generate}
  <2>1. c.node \in (Node \cup {Start}) \ {Report}
    BY <1>1, <1>2 DEF Checkpoint
  <2>2. c.node # Validate
    BY <1>1 DEF Successor, NextNode, RouteAfterValidation
  <2>3. c.node # Execute
    BY <1>1 DEF Successor, NextNode, RouteAfterExecution
  <2>4. c.node \notin {Start, Ingest, Diagnose}
    BY <1>1 DEF Successor, NextNode
  <2>5. QED
    BY <2>1, <2>2, <2>3, <2>4 DEF Node
<1>4. PassedCandidates(c.state) = {}
  BY <1>2, <1>3 DEF Done, WellMade, PassedCandidates
<1>5. \A e \in evTable : \A id \in e.of : FALSE
  BY <1>4, LatestOne DEF EvidenceAtLatest
<1>6. QED
  BY <1>5 DEF IInv, TypeOK, Evidence

\* A saved candidate is in the table, and those that were there stay there.
LEMMA CandidateSaved ==
    ASSUME IInv, RInv, SInv, NEW p \in Proc, RestoreCandidate(p) \/ PersistCandidate(p)
    PROVE  /\ mem' = mem /\ node' = node /\ pc' = pc /\ UNCHANGED <<evTable, diagTable>>
           /\ \A c \in mem[p].candidates :
                c \in candTable \/ c \in todo[p] => c \in candTable' \/ c \in todo'[p]
<1>1. PICK row \in todo[p] :
        candTable' = Upsert(candTable, row) /\ todo' = [todo EXCEPT ![p] = @ \ {row}]
  BY DEF RestoreCandidate, PersistCandidate
<1>2. row \in mem[p].candidates
  BY <1>1 DEF RestoreCandidate, PersistCandidate, IInv, Local, Loaded, Persisting, ArtifactRows
<1>3. UniqueIds(mem[p])
  BY MemUnique DEF RestoreCandidate, PersistCandidate
<1>4. \A c \in mem[p].candidates : c \in candTable => c \in candTable'
  BY <1>1, <1>2, <1>3, UpsertKeeps
<1>5. row \in candTable' /\ todo'[p] = todo[p] \ {row}
  BY <1>1, <1>2, <1>3, UpsertKeeps DEF IInv, TypeOK
<1>6. QED
  BY <1>4, <1>5 DEF RestoreCandidate, PersistCandidate

LEMMA MovePersistedAt ==
    ASSUME IInv, RInv, SInv, TInv, NEW p \in Proc, Move(p)
    PROVE  PersistedAt(p)'
<1>1. TypeOK /\ PersistedAt(p) /\ Local(p) /\ Local(p)' /\ AtLatest(p) /\ RowAt(p)
  BY MoveIsAct, ActLocal DEF IInv, TInv, SInv, Place
<1>2. CASE RestoreCandidate(p) \/ PersistCandidate(p)
  BY <1>1, <1>2, CandidateSaved DEF PersistedAt, RestoreCandidate, PersistCandidate
<1>3. CASE PersistEvidence(p)
  BY <1>1, <1>3 DEF PersistEvidence, PersistedAt
<1>4. CASE PersistDiagnosis(p)
  <2>1. PICK row \in todo[p] :
          diagTable' = diagTable \cup {row} /\ todo' = [todo EXCEPT ![p] = @ \ {row}]
    BY <1>4 DEF PersistDiagnosis
  <2>2. QED
    BY <1>1, <1>4, <2>1 DEF PersistDiagnosis, PersistedAt, TypeOK
<1>5. CASE UNCHANGED <<candTable, evTable, diagTable>>
  <2>1. CASE StartResume(p)
    BY <1>1, <2>1 DEF StartResume, Goto, PersistedAt, TypeOK
  <2>2. CASE NewRun(p)
    <3>1. CASE InitRunning(p)
      <4>1. PICK d \in checkpoints : d.node = Start /\ d.state = mem[p]
        BY <1>1, <3>1 DEF InitRunning, Local, Loaded
      <4>2. mem[p].candidates = {}
        BY <4>1 DEF IInv, CheckpointsSound, Done
      <4>3. QED
        BY <1>1, <3>1, <4>2 DEF InitRunning, Goto, PersistedAt, TypeOK
    <3>2. QED
      BY <1>1, <2>2, <3>1 DEF NewRun, CliSaveRun, CliEmitConfigMode, InitSaveRun, InitCheckpoint, Goto, PersistedAt, TypeOK
  <2>3. CASE Recover(p) /\ ~RestoreCandidate(p)
    BY <1>1, <1>5, <2>3 DEF Recover, CliLoad, LoadCheckpoint, RejectNoCheckpoint, Reject, CliGuard,
       Load, Guard, RejectTerminal, Seen, EmitRunResumed, SaveRunning,
       ResolveResumeNode, Exit, SaveRun, Goto, db, PersistedAt, TypeOK
  <2>4. CASE RunNode(p)
    <3>1. /\ pc[p] = "dispatch" /\ pc'[p] \in {"persist_run", "persist"}
          /\ node' = node /\ Kept(node[p], mem[p], mem'[p])
      BY <1>1, <2>4, RunNodeWellMade DEF IInv, RInv, Local
    <3>2. todo'[p] = ArtifactRows(node[p], mem'[p])
      BY <1>1, <2>4 DEF RunNode, DispatchIngest, DispatchPlan, DispatchGenerate, DispatchValidate,
         DispatchExecute, DispatchDiagnose, DispatchReport, Dispatch, TypeOK
    <3>3. node[p] \in Node /\ Done(node[p], mem'[p])
      BY <1>1, <3>1 DEF Local, Dispatched
    <3>4. \A c \in mem'[p].candidates :
            \/ c \in candTable
            \/ node[p] \in {Generate, Validate} /\ c \in todo'[p]
      <4>1. CASE node[p] \in {Generate, Validate}
        BY <3>2, <4>1 DEF ArtifactRows
      <4>2. CASE node[p] \notin {Generate, Validate}
        BY <1>1, <3>1, <4>2 DEF Kept, PersistedAt
      <4>3. QED
        BY <4>1, <4>2
    <3>5. \A d \in mem'[p].diagnoses :
            d \in diagTable \/ (node[p] = Diagnose /\ d \in todo'[p])
      <4>1. CASE node[p] = Diagnose
        BY <3>2, <4>1 DEF ArtifactRows
      <4>2. CASE node[p] = Report
        <5>1. mem'[p] = AfterReport(mem[p])
          BY <1>1, <2>4, <4>2 DEF RunNode, DispatchIngest, DispatchPlan, DispatchGenerate, DispatchValidate,
             DispatchExecute, DispatchDiagnose, DispatchReport, Dispatch, TypeOK
        <5>2. mem'[p].diagnoses = mem[p].diagnoses
          BY <1>1, <5>1 DEF AfterReport, TypeOK, WorkflowState
        <5>3. mem[p].diagnoses \subseteq diagTable
          BY <1>1, <3>1 DEF AtLatest, Latest, TInv
        <5>4. QED
          BY <5>2, <5>3
      <4>3. CASE node[p] \notin {Diagnose, Report}
        BY <3>3, <4>3 DEF Done
      <4>4. QED
        BY <4>1, <4>2, <4>3
    <3>6. pc'[p] = "persist_run" => node[p] \notin {Generate, Validate}
      BY <1>1, <3>1 DEF Local, Persisting
    <3>7. QED
      BY <1>5, <3>1, <3>4, <3>5, <3>6 DEF PersistedAt
  <2>5. CASE PersistRun(p)
    <3>1. mem[p].diagnoses = {}
      BY <1>1, <2>5 DEF PersistRun, Local, Dispatched, Persisting, Done
    <3>2. QED
      BY <1>1, <1>5, <2>5, <3>1 DEF PersistRun, SaveRun, Goto, PersistedAt, TypeOK
  <2>6. CASE EmitNodeCompleted(p)
    BY <1>1, <1>5, <2>6 DEF EmitNodeCompleted, Goto, PersistedAt, TypeOK
  <2>7. CASE SaveCheckpoint(p)
    <3>1. AllEvidence(mem[p]) \subseteq evTable
      BY <1>1, <2>7 DEF SaveCheckpoint, Local, Persisting
    <3>2. mem[p].candidates \subseteq candTable /\ mem[p].diagnoses \subseteq diagTable
      BY <1>1, <2>7 DEF SaveCheckpoint, PersistedAt
    <3>3. mem' = mem /\ pc'[p] \in {"enter", "finish"}
      BY <1>1, <2>7 DEF SaveCheckpoint, Goto, TypeOK
    <3>4. QED
      BY <1>5, <3>1, <3>2, <3>3 DEF PersistedAt, Persisted
  <2>8. CASE EnterNode(p) \/ CycleDetected(p) \/ Finish(p)
    BY <1>1, <1>5, <2>8 DEF EnterNode, CycleDetected, Finish, Exit, Goto, db, PersistedAt, TypeOK
  <2>9. CASE SaveFailed(p) \/ EmitRunFailed(p)
    BY <1>1, <2>9 DEF SaveFailed, EmitRunFailed, Exit, Goto, PersistedAt, TypeOK
  <2>10. CASE Interrupt(p)
    BY <1>1, <2>10 DEF Interrupt, CliRejectMode, Raise, RaiseUncaught, Crash, Exit, Goto,
       HandlerEntry, PersistedAt, TypeOK
  <2>11. QED
    BY <1>2, <1>3, <1>4, <2>1, <2>2, <2>3, <2>4, <2>5, <2>6, <2>7, <2>8, <2>9, <2>10
    DEF Move, Step, Recover, Loop
<1>6. QED
  BY <1>2, <1>3, <1>4, <1>5, TableActions, MoveIsAct

\* What is checkpointed is in the tables.
LEMMA SavedPersisted ==
    ASSUME IInv, TInv, NEW p \in Proc, Act(p), NEW c \in checkpoints' \ checkpoints
    PROVE  Persisted(c.state)'
<1>1. Local(p) /\ PersistedAt(p)
  BY DEF IInv, TInv
<1>2. CASE InitCheckpoint(p)
  <2>1. c.state = InitialState
    BY <1>1, <1>2 DEF InitCheckpoint, Local, Fresh
  <2>2. QED
    BY <2>1 DEF Persisted, InitialState, AllEvidence
<1>3. CASE SaveCheckpoint(p)
  <2>1. c.state = mem[p] /\ pc[p] = "checkpoint" /\ UNCHANGED <<candTable, evTable, diagTable>>
    BY <1>3 DEF SaveCheckpoint
  <2>2. AllEvidence(mem[p]) \subseteq evTable
    BY <1>1, <2>1 DEF Local, Persisting
  <2>3. mem[p].candidates \subseteq candTable /\ mem[p].diagnoses \subseteq diagTable
    BY <1>1, <2>1 DEF PersistedAt
  <2>4. QED
    BY <2>1, <2>2, <2>3 DEF Persisted
<1>4. QED
  BY <1>2, <1>3, CheckpointActions

\* Evidence is added, of a candidate of the latest checkpoint that passed.
LEMMA EvidenceSaved ==
    ASSUME IInv, RInv, SInv, TInv, NEW p \in Proc, PersistEvidence(p),
           NEW e \in evTable', NEW id \in e.of
    PROVE  \/ e \in evTable
           \/ \E c \in Latest : \E x \in PassedCandidates(c.state) :
                x.id = id /\ x \in candTable
<1>1. PICK row \in todo[p] : evTable' = evTable \cup {row}
  BY DEF PersistEvidence
<1>2. row \in AllEvidence(mem[p])
  BY <1>1 DEF PersistEvidence, IInv, Local, Persisting, ArtifactRows
<1>3. PICK c \in Latest : Kept(node[p], c.state, mem[p])
  BY DEF PersistEvidence, SInv, Place, AtLatest
<1>4. c.state.candidates = mem[p].candidates
  BY <1>3 DEF PersistEvidence, Kept
<1>5. mem[p].candidates \subseteq candTable
  BY DEF PersistEvidence, TInv, PersistedAt
<1>6. ASSUME e = row
      PROVE  \E x \in PassedCandidates(mem[p]) : x.id = id
  BY <1>2, <1>6 DEF PersistEvidence, RInv, StateMade, WellMade, EvidenceOfPassed
<1>7. PassedCandidates(c.state) = PassedCandidates(mem[p])
      /\ PassedCandidates(mem[p]) \subseteq mem[p].candidates
  BY <1>4 DEF PassedCandidates
<1>8. QED
  BY <1>1, <1>5, <1>6, <1>7

LEMMA MoveEvidenceAtLatest ==
    ASSUME IInv, RInv, SInv, TInv, NEW p \in Proc, Move(p)
    PROVE  EvidenceAtLatest'
<1>1. EvidenceAtLatest /\ AtLatest(p) /\ TypeOK
  BY DEF TInv, SInv, Place, IInv
<1>2. CASE checkpoints' = checkpoints
  <2>1. Latest' = Latest
    BY <1>2 DEF Latest
  <2>2. CASE evTable' = evTable
    BY <1>1, <2>1, <2>2 DEF EvidenceAtLatest
  <2>3. CASE PersistEvidence(p)
    BY <1>1, <2>1, <2>3, EvidenceSaved DEF EvidenceAtLatest
  <2>4. QED
    BY <2>2, <2>3, TableActions, MoveIsAct DEF RestoreCandidate, PersistCandidate, PersistDiagnosis
<1>3. CASE InitCheckpoint(p) /\ checkpoints = {}
  BY <1>1, <1>3 DEF InitCheckpoint, EvidenceAtLatest, Latest
<1>4. CASE SaveCheckpoint(p)
  <2> DEFINE new == [by |-> p, node |-> node[p], state |-> mem[p]]
  <2>1. Latest' = {new}
    BY <1>1, <1>4, Saved
  <2>2. new.state = mem[p]
    OBVIOUS
  <2> HIDE DEF new
  <2>3. evTable' = evTable
    BY <1>4 DEF SaveCheckpoint
  <2>4. CASE node[p] \in {Generate, Validate}
    <3>1. \A e \in evTable : e.of = {}
      BY <1>1, <1>4, <2>4, NotYetExecuted DEF SaveCheckpoint
    <3>2. QED
      BY <2>3, <3>1 DEF EvidenceAtLatest
  <2>5. CASE node[p] \notin {Generate, Validate}
    <3>1. PICK c \in Latest : Kept(node[p], c.state, mem[p])
      BY <1>1, <1>4 DEF SaveCheckpoint, AtLatest
    <3>2. PassedCandidates(new.state) = PassedCandidates(c.state)
      BY <2>2, <2>5, <3>1 DEF Kept, PassedCandidates
    <3>3. \A d \in Latest : d = c
      BY LatestOne
    <3>4. \A e \in evTable : \A id \in e.of : \E x \in PassedCandidates(new.state) : x.id = id
      BY <1>1, <3>2, <3>3 DEF EvidenceAtLatest
    <3>5. QED
      BY <2>1, <2>3, <3>4 DEF EvidenceAtLatest
  <2>6. QED
    BY <2>4, <2>5
<1>5. QED
  BY <1>2, <1>3, <1>4, CheckpointMoves

LEMMA MoveExecutedWerePassed ==
    ASSUME IInv, RInv, SInv, TInv, NEW p \in Proc, Move(p)
    PROVE  ExecutedWerePassed'
<1>1. EvidenceAtLatest /\ AtLatest(p) /\ TypeOK /\ ExecutedWerePassed
  BY DEF TInv, SInv, Place, IInv
<1>2. CASE UNCHANGED <<candTable, evTable>>
  BY <1>1, <1>2 DEF ExecutedWerePassed
<1>3. CASE PersistEvidence(p)
  <2>1. candTable' = candTable
    BY <1>3 DEF PersistEvidence
  <2>2. QED
    BY <1>1, <1>3, <2>1, EvidenceSaved DEF ExecutedWerePassed, PassedCandidates
<1>4. CASE PersistCandidate(p)
  <2>1. \A e \in evTable : e.of = {}
    BY <1>1, <1>4, NotYetExecuted DEF PersistCandidate
  <2>2. QED
    BY <1>4, <2>1 DEF PersistCandidate, ExecutedWerePassed
<1>5. CASE RestoreCandidate(p)
  <2>1. PICK row \in todo[p] : candTable' = Upsert(candTable, row)
    BY <1>5 DEF RestoreCandidate
  <2>2. row \in mem[p].candidates /\ UniqueIds(mem[p])
    BY <1>5, <2>1, MemUnique DEF RestoreCandidate, IInv, Local, Loaded
  <2>3. \A d \in Latest : d.state = mem[p]
    BY <1>1, <1>5, LatestOne DEF RestoreCandidate, AtLatest
  <2>4. ASSUME NEW e \in evTable, NEW id \in e.of
        PROVE  \E c \in Upsert(candTable, row) : c.id = id /\ c.status = "PASSED"
    <3>1. PICK x \in PassedCandidates(mem[p]) : x.id = id
      BY <1>1, <2>3 DEF EvidenceAtLatest
    <3>2. x \in mem[p].candidates /\ x.status = "PASSED"
      BY DEF PassedCandidates
    <3>3. CASE row.id = id
      BY <2>2, <3>1, <3>2, <3>3 DEF UniqueIds, Upsert
    <3>4. CASE row.id # id
      BY <1>1, <3>4 DEF ExecutedWerePassed, Upsert
    <3>5. QED
      BY <3>3, <3>4
  <2>5. evTable' = evTable
    BY <1>5 DEF RestoreCandidate
  <2>6. QED
    BY <2>1, <2>4, <2>5 DEF ExecutedWerePassed
<1>6. QED
  BY <1>2, <1>3, <1>4, <1>5, TableActions, MoveIsAct DEF PersistDiagnosis

\* A run ends COMPLETED behind its report, and no candidate is saved from then on.
LEMMA MoveCompletedIsReported ==
    ASSUME IInv, SInv, TInv, NEW p \in Proc, Move(p)
    PROVE  CompletedIsReported'
<1> SUFFICES ASSUME run'.status = "COMPLETED"
             PROVE  \E c \in checkpoints' :
                        /\ c.node = Report /\ c.state.plan.route = run'.route
                        /\ Persisted(c.state)'
  BY DEF CompletedIsReported, Persisted
<1>1. RowAt(p) /\ AtLatest(p) /\ PersistedAt(p) /\ TypeOK
  BY DEF SInv, Place, TInv, IInv
<1>2. CASE Finish(p)
  <2>1. PICK c \in checkpoints : c.node = Report /\ c.state = mem[p]
    BY <1>1, <1>2 DEF Finish, AtLatest
  <2>2. mem[p].plan # NoPlan
    BY <2>1 DEF IInv, CheckpointsSound, Done
  <2>3. run'.route = mem[p].plan.route
    BY <1>2, <2>2 DEF Finish, RouteOf
  <2>4. Persisted(mem[p]) /\ UNCHANGED <<checkpoints, candTable, evTable, diagTable>>
    BY <1>1, <1>2 DEF Finish, PersistedAt
  <2>5. QED
    BY <2>1, <2>3, <2>4 DEF Persisted
<1>3. CASE ~Finish(p)
  <2>1. run' = run
    BY <1>3, RowMoves
  <2>2. PICK c \in checkpoints :
          c.node = Report /\ c.state.plan.route = run.route /\ Persisted(c.state)
    BY <2>1 DEF TInv, CompletedIsReported
  <2>3. checkpoints' = checkpoints
    BY <2>1, CheckpointMoves
  <2>4. candTable' = candTable /\ evTable \subseteq evTable' /\ diagTable \subseteq diagTable'
    BY <1>1, <2>1, TableActions, MoveIsAct DEF RestoreCandidate, PersistCandidate,
       PersistEvidence, PersistDiagnosis, RowAt
  <2>5. QED
    BY <2>1, <2>2, <2>3, <2>4 DEF Persisted
<1>4. QED
  BY <1>2, <1>3

LEMMA MoveTInv ==
    ASSUME IInv, RInv, SInv, TInv, NEW p \in Proc, Move(p)
    PROVE  TInv'
<1>1. \A q \in Proc : PersistedAt(q)'
  <2>1. \A q \in Proc \ {p} : ~Live(q)'
    BY OthersIdle DEF SInv
  <2>2. \A q \in Proc \ {p} : PersistedAt(q)'
    BY <2>1 DEF PersistedAt, Live, Active, Guarded
  <2>3. QED
    BY <2>2, MovePersistedAt
<1>2. \A c \in checkpoints' : c.state.diagnoses \subseteq diagTable'
  <2>1. diagTable \subseteq diagTable'
    BY TableActions, MoveIsAct DEF RestoreCandidate, PersistCandidate, PersistEvidence,
       PersistDiagnosis
  <2>2. \A c \in checkpoints' \ checkpoints : c.state.diagnoses \subseteq diagTable'
    BY SavedPersisted, MoveIsAct DEF Persisted
  <2>3. QED
    BY <2>1, <2>2 DEF TInv
<1>3. QED
  BY <1>1, <1>2, MoveEvidenceAtLatest, MoveExecutedWerePassed, MoveCompletedIsReported
  DEF TInv

LEMMA TablesInvariant == SerialSpec => []TInv
<1>1. Init => TInv
  <2> SUFFICES ASSUME Init PROVE TInv
    OBVIOUS
  <2>1. \A p \in Proc : pc[p] \in {"cli_save", "idle"}
    BY DEF Init
  <2>2. checkpoints = {} /\ evTable = {} /\ run.status = "ABSENT"
    BY DEF Init, NoRow
  <2>3. QED
    BY <2>1, <2>2 DEF TInv, PersistedAt, EvidenceAtLatest, ExecutedWerePassed,
       CompletedIsReported
<1>2. TInv /\ UNCHANGED vars => TInv'
  BY DEF vars, db, proc, TInv, PersistedAt, EvidenceAtLatest, Latest, ExecutedWerePassed,
     CompletedIsReported, Persisted
<1>3. IInv /\ RInv /\ SInv /\ TInv /\ [SerialNext]_vars => TInv'
  BY <1>2, MoveTInv, SerialMoves
<1>4. QED
  BY <1>1, <1>3, SerialInvariant, PTL DEF SerialSpec

\* A checkpoint is written when every artifact of its state is in the tables, with the
\* status it has in the state: the order persist, NODE_COMPLETED, save_checkpoint, with
\* the candidates restored before a resumed run goes on.
THEOREM NeverAheadOfTables == SerialSpec => CheckpointPersisted
<1>1. ASSUME IInv, TInv, [SerialNext]_vars
      PROVE  [\A c \in checkpoints' \ checkpoints : Persisted(c.state)']_vars
  BY <1>1, SavedPersisted, SerialMoves, MoveIsAct
<1>2. QED
  BY <1>1, SerialInvariant, TablesInvariant, PTL DEF SerialSpec, CheckpointPersisted

\* A completed run has a report whose artifacts are in the tables, and its row carries
\* the planned route (the terminal handling on report_node).
THEOREM CompletionReported == SerialSpec => []CompletedIsReported
BY TablesInvariant, PTL DEF TInv

\* Evidence of a candidate exists only while its row says PASSED: what resume restores
\* is the latest checkpoint's, and what was executed passed there.
THEOREM ExecutedHavePassed == SerialSpec => []ExecutedWerePassed
BY TablesInvariant, PTL DEF TInv

-----------------------------------------------------------------------------
(* The cost of an interruption *)

LEMMA CountNat ==
    ASSUME events \in Seq(Event), NEW type
    PROVE  Count(type) \in Nat
<1>1. IsFiniteSet(DOMAIN events)
  BY FS_Interval DEF Event
<1>2. QED
  BY <1>1, FS_Subset, FS_CardinalityType DEF Count

\* An event counts once, and for its own type.
LEMMA CountEmitted ==
    ASSUME events \in Seq(Event), NEW p, NEW kind, NEW n, Emit(p, kind, n), NEW type
    PROVE  /\ kind = type => Count(type)' = Count(type) + 1
           /\ kind # type => Count(type)' = Count(type)
<1> DEFINE S == {i \in DOMAIN events : events[i].type = type}
           T == {i \in DOMAIN events' : events'[i].type = type}
           new == [by |-> p, type |-> kind, node |-> n]
<1>1. /\ Len(events) \in Nat /\ DOMAIN events = 1..Len(events)
      /\ DOMAIN events' = 1..(Len(events) + 1)
      /\ \A i \in 1..Len(events) : events'[i] = events[i]
      /\ events'[Len(events) + 1] = new
  <2> HIDE DEF new
  <2>1. events' = Append(events, new)
    BY DEF Emit, new
  <2>2. QED
    BY <2>1
<1>2. IsFiniteSet(S) /\ Len(events) + 1 \notin S
  <2>1. IsFiniteSet(1..Len(events))
    BY <1>1, FS_Interval
  <2>2. S \in SUBSET (1..Len(events))
    BY <1>1
  <2>3. Len(events) + 1 \notin 1..Len(events)
    BY <1>1
  <2> HIDE DEF S
  <2>4. QED
    BY <2>1, <2>2, <2>3, FS_Subset
<1>3. CASE kind = type
  <2>1. T = S \cup {Len(events) + 1}
    BY <1>1, <1>3
  <2>2. Cardinality(T) = Cardinality(S) + 1
    BY <1>2, <2>1, FS_AddElement
  <2>3. QED
    BY <1>3, <2>2 DEF Count
<1>4. CASE kind # type
  <2>1. T = S
    BY <1>1, <1>4
  <2>2. QED
    BY <1>4, <2>1 DEF Count
<1>5. QED
  BY <1>3, <1>4

\* A started node is checkpointed, or it is interrupted.
LEMMA WorkEnds ==
    ASSUME TypeOK, NEW p \in Proc, Move(p), pc[p] \in Working, pc'[p] \notin Working
    PROVE  \/ SaveCheckpoint(p)
           \/ crashes' = crashes + 1 /\ faults' = faults
           \/ crashes' = crashes /\ faults' = faults + 1
BY DEF Move, StartResume, Step, Interrupt, NewRun, Recover, RunNode, Loop, CliSaveRun,
   CliEmitConfigMode, InitSaveRun, InitCheckpoint, InitRunning, CliLoad, LoadCheckpoint,
   RejectNoCheckpoint, Reject, CliGuard, Load, Guard, RejectTerminal, Seen, EmitRunResumed,
   SaveRunning, RestoreCandidate, ResolveResumeNode, EnterNode, CycleDetected,
   DispatchIngest, DispatchPlan, DispatchGenerate, DispatchValidate, DispatchExecute,
   DispatchDiagnose, DispatchReport, Dispatch, PersistRun, PersistCandidate,
   PersistEvidence, PersistDiagnosis, EmitNodeCompleted, Finish, SaveFailed,
   EmitRunFailed, CliRejectMode, Raise, RaiseUncaught, Crash, Goto, TypeOK

LEMMA Interruptions ==
    ASSUME TypeOK, NEW p \in Proc, Move(p)
    PROVE  /\ crashes \in Nat /\ faults \in Nat /\ crashes' \in Nat /\ faults' \in Nat
           /\ crashes =< crashes' /\ faults =< faults'
<1>1. crashes \in Nat /\ faults \in Nat
  BY WorkflowAssumption DEF TypeOK
<1>2. crashes' \in {crashes, crashes + 1} /\ faults' \in {faults, faults + 1}
  BY DEF Move, StartResume, Step, Interrupt, NewRun, Recover, RunNode, Loop, CliSaveRun,
   CliEmitConfigMode, InitSaveRun, InitCheckpoint, InitRunning, CliLoad, LoadCheckpoint,
   RejectNoCheckpoint, Reject, CliGuard, Load, Guard, RejectTerminal, Seen, EmitRunResumed,
   SaveRunning, RestoreCandidate, ResolveResumeNode, EnterNode, CycleDetected,
   DispatchIngest, DispatchPlan, DispatchGenerate, DispatchValidate, DispatchExecute,
   DispatchDiagnose, DispatchReport, Dispatch, PersistRun, PersistCandidate,
   PersistEvidence, PersistDiagnosis, EmitNodeCompleted, SaveCheckpoint, Finish, SaveFailed,
   EmitRunFailed, CliRejectMode, Raise, RaiseUncaught, Crash
<1>3. QED
  BY <1>1, <1>2

\* While a process acts, what is in progress is its own node.
LEMMA InProgressIsOwn ==
    ASSUME IInv, SInv, NEW p \in Proc, Move(p)
    PROVE  /\ InProgress = IF pc[p] \in Working THEN 1 ELSE 0
           /\ InProgress' = IF pc'[p] \in Working THEN 1 ELSE 0
<1>1. \A q \in Proc \ {p} : pc[q] \notin Working /\ pc'[q] \notin Working
  BY OthersIdle DEF SInv, Live, Active, Guarded
<1>2. QED
  BY <1>1 DEF InProgress

LEMMA MoveReworkInv ==
    ASSUME IInv, SInv, ReworkInv, NEW p \in Proc, Move(p)
    PROVE  ReworkInv'
<1>1. /\ TypeOK /\ events \in Seq(Event) /\ events' \in Seq(Event)
      /\ AtLatest(p)
  BY MoveIsAct, ActTypes DEF IInv, TypeOK, SInv, Place
<1>2. /\ crashes \in Nat /\ faults \in Nat /\ crashes' \in Nat /\ faults' \in Nat
      /\ crashes =< crashes' /\ faults =< faults'
  BY <1>1, Interruptions
<1>3. Count("NODE_STARTED") \in Nat
  BY <1>1, CountNat
<1>4. IsFiniteSet(Steps) /\ Cardinality(Steps) \in Nat
  BY FS_Subset, FS_CardinalityType DEF Steps, ReworkInv
<1> DEFINE bound == Cardinality(Steps) + crashes + faults + InProgress
<1>5. CASE SaveCheckpoint(p)
  <2> DEFINE new == [by |-> p, node |-> node[p], state |-> mem[p]]
  <2>1. /\ checkpoints' = checkpoints \cup {new} /\ new \notin checkpoints
        /\ new.node \in Node
    BY <1>1, <1>5, Saved
  <2> HIDE DEF new
  <2>2. IsFiniteSet(checkpoints')
    BY <2>1, FS_AddElement DEF ReworkInv
  <2>3. Steps' = Steps \cup {new} /\ new \notin Steps
    BY <2>1 DEF Steps, Node
  <2>4. Cardinality(Steps') = Cardinality(Steps) + 1
    BY <1>4, <2>3, FS_AddElement
  <2>5. InProgress = 1 /\ InProgress' = 0
    BY <1>1, <1>5, InProgressIsOwn DEF SaveCheckpoint, Goto, TypeOK
  <2>6. Count("NODE_STARTED")' = Count("NODE_STARTED") /\ UNCHANGED <<crashes, faults>>
    BY <1>5 DEF SaveCheckpoint, Count
  <2>7. bound' = bound
    BY <1>2, <1>4, <2>4, <2>5, <2>6
  <2>8. QED
    BY <2>2, <2>6, <2>7 DEF ReworkInv
<1>6. CASE InitCheckpoint(p) \/ checkpoints' = checkpoints
  <2>1. Steps' = Steps
    BY <1>6 DEF Steps, InitCheckpoint, IInv, Local, Fresh
  <2>2. IsFiniteSet(checkpoints')
    BY <1>6, FS_AddElement DEF InitCheckpoint, ReworkInv
  <2>3. InProgress \in {0, 1} /\ InProgress' \in {0, 1}
    BY InProgressIsOwn
  <2>4. CASE EnterNode(p)
    <3>1. InProgress = 0 /\ InProgress' = 1
      BY <1>1, <2>4, InProgressIsOwn DEF EnterNode, Goto, TypeOK
    <3>2. Count("NODE_STARTED")' = Count("NODE_STARTED") + 1
      BY <1>1, <2>4, CountEmitted DEF EnterNode
    <3>3. QED
      BY <1>2, <1>3, <1>4, <2>1, <2>2, <3>1, <3>2 DEF ReworkInv
  <2>5. CASE ~EnterNode(p)
    <3>1. Count("NODE_STARTED")' = Count("NODE_STARTED")
      <4>1. CASE events' = events
        BY <4>1 DEF Count
      <4>2. CASE events' # events
        BY <1>1, <2>5, <4>2, EventActions, MoveIsAct, CountEmitted
        DEF CliEmitConfigMode, EmitRunResumed, EmitNodeCompleted, EmitRunFailed
      <4>3. QED
        BY <4>1, <4>2
    <3>2. CASE InProgress =< InProgress'
      BY <1>2, <1>3, <1>4, <2>1, <2>2, <2>3, <3>1, <3>2 DEF ReworkInv
    <3>3. CASE InProgress = 1 /\ InProgress' = 0
      <4>1. pc[p] \in Working /\ pc'[p] \notin Working
        BY <3>3, InProgressIsOwn
      <4>2. ~SaveCheckpoint(p)
        BY <1>1, <1>6, Saved DEF SaveCheckpoint, InitCheckpoint
      <4>3. \/ crashes' = crashes + 1 /\ faults' = faults
            \/ crashes' = crashes /\ faults' = faults + 1
        BY <1>1, <4>1, <4>2, WorkEnds
      <4>4. bound' = bound
        BY <1>2, <1>4, <2>1, <3>3, <4>3
      <4>5. QED
        BY <2>2, <3>1, <4>4 DEF ReworkInv
    <3>4. QED
      BY <2>3, <3>2, <3>3
  <2>6. QED
    BY <2>4, <2>5
<1>7. QED
  BY <1>5, <1>6, CheckpointMoves

LEMMA ReworkInvariant == SerialSpec => []ReworkInv
<1>1. Init => ReworkInv
  <2> SUFFICES ASSUME Init PROVE ReworkInv
    OBVIOUS
  <2>1. /\ Steps = {} /\ checkpoints = {} /\ crashes = 0 /\ faults = 0
        /\ {i \in DOMAIN events : events[i].type = "NODE_STARTED"} = {}
    BY DEF Init, Steps
  <2>2. InProgress \in {0, 1}
    BY DEF InProgress
  <2>3. QED
    BY <2>1, <2>2, FS_EmptySet DEF ReworkInv, Count
<1>2. ReworkInv /\ UNCHANGED vars => ReworkInv'
  BY DEF vars, db, proc, ReworkInv, Count, Steps, InProgress
<1>3. IInv /\ SInv /\ ReworkInv /\ [SerialNext]_vars => ReworkInv'
  BY <1>2, MoveReworkInv, SerialMoves
<1>4. QED
  BY <1>1, <1>3, SerialInvariant, PTL DEF SerialSpec

\* An interruption costs one node: what was started is checkpointed, in progress, or
\* counted by the crash or the fault that stopped it, and no node is checkpointed twice
\* (one save_checkpoint per pass of the loop, the resume node behind all checkpoints).
THEOREM ReworkBounded == SerialSpec => []BoundedRework
<1>1. ASSUME IInv, SInv, ReworkInv PROVE BoundedRework
  <2> DEFINE live == {p \in Proc : Live(p)}
  <2>1. CASE \E p \in Proc : Live(p)
    <3>1. PICK p \in Proc : Live(p)
      BY <2>1
    <3>2. live = {p}
      BY <1>1, <3>1 DEF SInv, Alone
    <3>3. Cardinality(live) = 1
      BY <3>2, FS_Singleton
    <3>4. InProgress \in {0, 1}
      BY DEF InProgress
    <3>5. Count("NODE_STARTED") \in Nat
      BY <1>1, CountNat DEF IInv, TypeOK
    <3>6. Cardinality(Steps) \in Nat
      BY <1>1, FS_Subset, FS_CardinalityType DEF Steps, ReworkInv
    <3>7. crashes \in Nat /\ faults \in Nat
      BY <1>1, WorkflowAssumption DEF IInv, TypeOK
    <3>8. Count("NODE_STARTED") =< Cardinality(Steps) + crashes + faults + 1
      BY <1>1, <3>4, <3>5, <3>6, <3>7 DEF ReworkInv
    <3>9. QED
      BY <3>3, <3>8 DEF BoundedRework, Steps
  <2>2. CASE ~\E p \in Proc : Live(p)
    <3>1. live = {}
      BY <2>2
    <3>2. Cardinality(live) = 0 /\ InProgress = 0
      BY <2>2, <3>1, FS_EmptySet DEF InProgress, Live, Active, Guarded
    <3>3. QED
      BY <1>1, <3>2 DEF ReworkInv, BoundedRework, Steps
  <2>3. QED
    BY <2>1, <2>2
<1>2. QED
  BY <1>1, SerialInvariant, ReworkInvariant, PTL

=============================================================================
