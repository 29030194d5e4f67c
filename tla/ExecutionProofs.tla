-------------------------- MODULE ExecutionProofs --------------------------
(***************************************************************************)
(* For any number of candidates, edits and faults: what an execution's     *)
(* evidence speaks of, what a session may leave behind, and which          *)
(* candidates get a coverage delta.                                        *)
(***************************************************************************)
EXTENDS Execution, FiniteSetTheorems, TLAPS

-----------------------------------------------------------------------------
(* The inductive invariant *)

\* What holds at each place of execute.
Places ==
    /\ pc \notin {"next", "ended"} => session \in Session
    /\ pc \notin {"cleanup", "teardown", "ended"} => outcome = "running"
    /\ pc = "cleanup" => outcome \in {"running", "interrupted"}
    /\ failed => pc \in {"cleanup", "verify", "teardown", "ended"}
    /\ pc \in {"kill", "parse"} => result \in ExitCode
    /\ pc = "cleanup" /\ outcome = "running" /\ ~failed => result \in ExitCode
    /\ pc = "verify" /\ ~failed => result \in ExitCode
    /\ pc = "teardown" /\ outcome = "running" => ~failed

\* The container before it is up, and how long it is known.
Provisioned ==
    /\ pc \in {"hash", "stage", "create"} => container = "absent"
    /\ pc = "start" => container = "created"
    /\ pc \in {"exec", "join", "alive", "kill", "cleanup"} => known
    /\ known => pc \in {"exec", "join", "alive", "kill", "cleanup"} \/ outcome = "interrupted"

\* As long as no edit was undone, sources that hash as recorded were so all along.
Readable ==
    /\ ~undone /\ Hash(tree) = pre => Faithful(seen, pre)
    /\ pc \in {"hash", "stage", "create", "start"} => seen = {}

\* The baseline comes first, and is registered as long as a candidate may come.
Ordered ==
    /\ Baseline \in waiting \/ (session = Baseline /\ pc \notin {"next", "ended"}) =>
           \A c \in Candidate : evidence[c] = NoEvidence
    /\ session \in Candidate /\ pc \notin {"next", "ended"} => Baseline \notin waiting

Registered ==
    outcome = "running" /\ evidence[Baseline] # NoEvidence /\ evidence[Baseline].covered =>
        Baseline \in settings

\* The container a session could not remove is paid for before the session is left.
Owed ==
    IF pc \in {"parse", "verify", "teardown"} /\ container # "absent" THEN 1 ELSE 0

Paid ==
    /\ IsFiniteSet(left)
    /\ stopped \notin {"start", "cleanup", "teardown"} => Cardinality(left) + Owed =< lost

Shape == TypeOK /\ Places /\ Provisioned

ReadsOK == Readable /\ IntegrityDecides

DeltasOK == Ordered /\ Registered /\ DeltasConsistent

\* The inductive invariant; the last three parts need Shape only, and not each other.
IInv == Shape /\ ReadsOK /\ DeltasOK /\ Paid

-----------------------------------------------------------------------------
(* Types and places *)

LEMMA ShapeInit == Init => Shape
<1>1. Init => NodeOK
  BY ExecutionAssumption DEF Init, NodeOK, Version
<1>2. Init => SessionOK
  <2>1. Init => session \in Session \cup {NoSession} /\ dirs \subseteq Directory /\ pre \in Content
    BY ExecutionAssumption DEF Init
  <2>2. QED
    BY <2>1 DEF Init, SessionOK, Line
<1>3. Init => HistoryOK
  <2>1. Init => undone \in BOOLEAN
    BY DEF Init
  <2>2. Init => edits \in 0..MaxEdits /\ errors \in 0..MaxErrors /\ lost \in 0..MaxLost
    BY ExecutionAssumption DEF Init
  <2>3. QED
    BY <2>1, <2>2 DEF Init, HistoryOK
<1>4. Init => Places /\ Provisioned
  BY DEF Init, Places, Provisioned
<1>5. QED
  BY <1>1, <1>2, <1>3, <1>4 DEF Shape, TypeOK

LEMMA NodeStep == Shape /\ [Next]_vars => NodeOK'
<1> SUFFICES ASSUME Shape, [Next]_vars PROVE NodeOK'
  OBVIOUS
<1> USE DEF Shape, TypeOK, NodeOK, node
<1>1. ASSUME NEW s \in Session, Begin(s) PROVE NodeOK'
  BY <1>1 DEF Begin
<1>2. CASE RecordHash \/ Stage
  BY <1>2 DEF RecordHash, Stage
<1>3. CASE CreateEnvironment
  BY <1>3 DEF CreateEnvironment, CreateContainer, StartContainer
<1>4. CASE ExecuteCommand
  BY <1>4 DEF ExecuteCommand, StartWorker, JoinReturns, TimedOut, Kill, Completed, WorkerRaised
<1>5. CASE Cleanup \/ Parse \/ WorkerEnds
  BY <1>5 DEF Cleanup, Parse, WorkerEnds
<1>6. CASE SourceModified \/ OperationFailed
  BY <1>6 DEF SourceModified, OperationFailed
<1>7. CASE PackageEvidence
  <2>1. result \in ExitCode /\ Comparable \in BOOLEAN /\ session \in Session
    BY <1>7 DEF PackageEvidence, Comparable, Places
  <2>2. [exit |-> result, covered |-> coverage, delta |-> Comparable,
         hash |-> pre, sources |-> seen, undone |-> undone] \in ExecutionEvidence
    BY <2>1 DEF ExecutionEvidence, SessionOK, HistoryOK
  <2>3. evidence' \in [Session -> ExecutionEvidence \cup {NoEvidence}]
    BY <1>7, <2>1, <2>2 DEF PackageEvidence
  <2>4. settings' \subseteq {Baseline}
    BY <1>7 DEF PackageEvidence, Register
  <2>5. QED
    BY <1>7, <2>3, <2>4 DEF PackageEvidence
<1>8. CASE Teardown \/ Return
  BY <1>8 DEF Teardown, Return, Release
<1>9. CASE Interrupt
  BY <1>9 DEF Interrupt, Release
<1>10. CASE Edit
  BY <1>10 DEF Edit
<1>11. CASE UNCHANGED vars
  BY <1>11 DEF vars
<1> HIDE DEF Shape, TypeOK, NodeOK, node
<1>12. QED
  BY <1>1, <1>2, <1>3, <1>4, <1>5, <1>6, <1>7, <1>8, <1>9, <1>10, <1>11
     DEF Next, Step, Execute, Done

LEMMA SessionStep == Shape /\ [Next]_vars => SessionOK'
<1> SUFFICES ASSUME Shape, [Next]_vars PROVE SessionOK'
  OBVIOUS
<1> USE DEF Shape, TypeOK, SessionOK, Line, box
<1>1. ASSUME NEW s \in Session, Begin(s) PROVE SessionOK'
  BY <1>1 DEF Begin
<1>2. CASE RecordHash
  BY <1>2 DEF RecordHash, NodeOK, Version, Hash
<1>3. CASE Stage
  <2>1. dirs' \subseteq Directory
    BY <1>3 DEF Stage, Directory
  <2>2. QED
    BY <1>3, <2>1 DEF Stage
<1>4. CASE CreateEnvironment
  BY <1>4
     DEF CreateEnvironment, CreateContainer, CreateUnanswered, StartContainer, RemovePartial
<1>5. CASE ExecuteCommand
  <2>1. CASE StartWorker \/ JoinReturns
    BY <2>1 DEF StartWorker, JoinReturns
  <2>2. CASE TimedOut \/ Completed
    BY <2>2 DEF TimedOut, Completed, ExitCode
  <2>3. CASE Kill \/ WorkerRaised
    BY <2>3 DEF Kill, WorkerRaised
  <2>4. QED
    BY <1>5, <2>1, <2>2, <2>3 DEF ExecuteCommand
<1>6. CASE Cleanup
  BY <1>6 DEF Cleanup
<1>7. CASE Parse \/ WorkerEnds
  BY <1>7 DEF Parse, WorkerEnds
<1>8. CASE SourceModified \/ OperationFailed \/ PackageEvidence
  BY <1>8 DEF SourceModified, OperationFailed, PackageEvidence
<1>9. CASE Teardown \/ Return
  BY <1>9 DEF Teardown, Return
<1>10. CASE Interrupt
  BY <1>10 DEF Interrupt
<1>11. CASE Edit
  BY <1>11 DEF Edit
<1>12. CASE UNCHANGED vars
  BY <1>12 DEF vars
<1>13. QED
  BY <1>1, <1>2, <1>3, <1>4, <1>5, <1>6, <1>7, <1>8, <1>9, <1>10, <1>11, <1>12
     DEF Next, Step, Execute, Done

LEMMA KeptFinite ==
    ASSUME NEW kept \in SUBSET Directory
    PROVE  IsFiniteSet(kept) /\ Cardinality(kept) \in Nat
<1>1. IsFiniteSet(Directory)
  <2>1. IsFiniteSet({} \cup {"staging"})
    BY FS_EmptySet, FS_AddElement
  <2>2. IsFiniteSet(({} \cup {"staging"}) \cup {"scratch"})
    BY <2>1, FS_AddElement
  <2>3. ({} \cup {"staging"}) \cup {"scratch"} = Directory
    BY DEF Directory
  <2>4. QED
    BY <2>2, <2>3
<1>2. QED
  BY <1>1, FS_Subset, FS_CardinalityType

LEMMA HistoryStep == Shape /\ [Next]_vars => HistoryOK'
<1> SUFFICES ASSUME Shape, [Next]_vars PROVE HistoryOK'
  OBVIOUS
<1> USE ExecutionAssumption DEF Shape, TypeOK, HistoryOK, history, counts, Raises
<1>1. ASSUME NEW s \in Session, Begin(s) PROVE HistoryOK'
  BY <1>1 DEF Begin
<1>2. CASE RecordHash \/ Stage
  <2>1. undone' \in BOOLEAN
    BY <1>2 DEF RecordHash, Stage
  <2>2. errors' \in 0..MaxErrors
    BY <1>2 DEF RecordHash, Stage
  <2>3. QED
    BY <1>2, <2>1, <2>2 DEF RecordHash, Stage
<1>3. CASE CreateContainer
  BY <1>3 DEF CreateContainer, CreateUnanswered, Loses
<1>4. CASE StartContainer
  <2>1. seen' \subseteq Version
    BY <1>4 DEF StartContainer, NodeOK
  <2>2. errors' \in 0..MaxErrors /\ lost' \in 0..MaxLost
    BY <1>4 DEF StartContainer, RemovePartial, Loses
  <2>3. QED
    BY <1>4, <2>1, <2>2 DEF StartContainer
<1>5. CASE ExecuteCommand
  BY <1>5 DEF ExecuteCommand, StartWorker, JoinReturns, TimedOut, Kill, Completed, WorkerRaised
<1>6. CASE Cleanup
  BY <1>6 DEF Cleanup, Loses
<1>7. CASE Parse \/ WorkerEnds
  BY <1>7 DEF Parse, WorkerEnds
<1>8. CASE SourceModified \/ OperationFailed \/ PackageEvidence
  BY <1>8 DEF SourceModified, OperationFailed, PackageEvidence
<1>9. CASE Teardown
  <2>1. PICK kept \in SUBSET dirs : Loses(Cardinality(kept)) /\ Leave(kept)
    BY <1>9 DEF Teardown
  <2>2. lost' \in 0..MaxLost
    BY <2>1, KeptFinite DEF Loses, SessionOK
  <2>3. left' \subseteq Session \X (Directory \cup {"container"})
    BY <1>9, <2>1 DEF Teardown, Leave, SessionOK, Places
  <2>4. QED
    BY <1>9, <2>2, <2>3 DEF Teardown
<1>10. CASE Return
  BY <1>10 DEF Return
<1>11. CASE Interrupt
  <2>1. left' \subseteq Session \X (Directory \cup {"container"})
    BY <1>11 DEF Interrupt, Leave, SessionOK, Places
  <2>2. stopped' \in Line \cup {"nowhere"}
    BY <1>11 DEF Interrupt, SessionOK
  <2>3. QED
    BY <1>11, <2>1, <2>2 DEF Interrupt
<1>12. CASE Edit
  <2>1. tree' \in Version /\ edits' \in 0..MaxEdits
    BY <1>12 DEF Edit
  <2>2. undone' \in BOOLEAN
    BY <1>12 DEF Edit
  <2>3. QED
    BY <1>12, <2>1, <2>2 DEF Edit
<1>13. CASE UNCHANGED vars
  BY <1>13 DEF vars
<1>14. QED
  BY <1>1, <1>2, <1>3, <1>4, <1>5, <1>6, <1>7, <1>8, <1>9, <1>10, <1>11, <1>12, <1>13
     DEF Next, Step, Execute, CreateEnvironment, Done

LEMMA PlacesStep == Shape /\ [Next]_vars => Places' /\ Provisioned'
<1> SUFFICES ASSUME Shape, [Next]_vars PROVE Places' /\ Provisioned'
  OBVIOUS
<1> USE DEF Shape, Places, Provisioned, node, box
<1>1. ASSUME NEW s \in Session, Begin(s) PROVE Places' /\ Provisioned'
  BY <1>1 DEF Begin
<1>2. CASE RecordHash \/ Stage
  BY <1>2 DEF RecordHash, Stage
<1>3. CASE CreateContainer
  BY <1>3 DEF CreateContainer, CreateUnanswered
<1>4. CASE StartContainer
  BY <1>4 DEF StartContainer
<1>5. CASE StartWorker \/ JoinReturns
  BY <1>5 DEF StartWorker, JoinReturns, Join
<1>6. CASE TimedOut \/ Completed
  BY <1>6 DEF TimedOut, Completed, ExitCode
<1>7. CASE Kill \/ WorkerRaised
  BY <1>7 DEF Kill, WorkerRaised
<1>8. CASE Cleanup
  <2>1. CASE outcome = "interrupted"
    BY <1>8, <2>1 DEF Cleanup
  <2>2. CASE outcome = "running" /\ failed
    BY <1>8, <2>2 DEF Cleanup
  <2>3. CASE outcome = "running" /\ ~failed
    BY <1>8, <2>3 DEF Cleanup
  <2>4. QED
    BY <1>8, <2>1, <2>2, <2>3 DEF Cleanup
<1>9. CASE Parse
  BY <1>9 DEF Parse
<1>10. CASE SourceModified \/ OperationFailed \/ PackageEvidence
  BY <1>10 DEF SourceModified, OperationFailed, PackageEvidence
<1>11. CASE Teardown
  <2>1. CASE outcome = "running"
    BY <1>11, <2>1 DEF Teardown
  <2>2. CASE outcome # "running"
    BY <1>11, <2>2 DEF Teardown
  <2>3. QED
    BY <2>1, <2>2
<1>12. CASE Return \/ WorkerEnds
  <2>1. CASE Return
    BY <2>1 DEF Return
  <2>2. CASE WorkerEnds
    BY <2>2 DEF WorkerEnds
  <2>3. QED
    BY <1>12, <2>1, <2>2
<1>13. CASE Interrupt
  <2>1. outcome' = "interrupted" /\ UNCHANGED <<session, failed, container>>
    BY <1>13 DEF Interrupt
  <2>2. pc' \in {"cleanup", "teardown", "ended"} /\ (pc \in {"next", "hash"} => pc' = "ended")
    BY <1>13 DEF Interrupt
  <2>3. pc # "ended" /\ known' = known /\ (pc' = "cleanup" => known)
    BY <1>13 DEF Interrupt
  <2>4. QED
    BY <2>1, <2>2, <2>3
<1>14. CASE Edit
  BY <1>14 DEF Edit
<1>15. CASE UNCHANGED vars
  BY <1>15 DEF vars
<1>16. QED
  BY <1>1, <1>2, <1>3, <1>4, <1>5, <1>6, <1>7, <1>8, <1>9, <1>10, <1>11, <1>12, <1>13, <1>14,
     <1>15 DEF Next, Step, Execute, CreateEnvironment, ExecuteCommand, Done

LEMMA ShapeStep == Shape /\ [Next]_vars => Shape'
BY NodeStep, SessionStep, HistoryStep, PlacesStep DEF Shape, TypeOK

\* Type correctness of the execution node.
THEOREM ExecutionTypes == Spec => []TypeOK
<1>1. Shape => TypeOK
  BY DEF Shape
<1>2. QED
  BY <1>1, ShapeInit, ShapeStep, PTL DEF Spec

-----------------------------------------------------------------------------
(* What the container can read *)

LEMMA ReadsInit == Init => ReadsOK
BY DEF Init, ReadsOK, Readable, IntegrityDecides, Faithful

\* A step that reads and writes nothing of this keeps it.
LEMMA ReadsKept ==
    ASSUME ReadsOK, UNCHANGED <<tree, pre, seen, undone, evidence>>,
           pc' \in {"hash", "stage", "create", "start"} => pc \in {"hash", "stage", "create", "start"},
           outcome' = "raised" => outcome = "raised" \/ undone \/ Faithful(seen, pre)
    PROVE  ReadsOK'
BY DEF ReadsOK, Readable, IntegrityDecides, Faithful

LEMMA ReadsStep == Shape /\ ReadsOK /\ [Next]_vars => ReadsOK'
<1> SUFFICES ASSUME Shape, ReadsOK, [Next]_vars PROVE ReadsOK'
  OBVIOUS
<1> USE DEF node, box, history, counts
<1>1. pc \notin {"cleanup", "teardown", "ended"} => outcome # "raised"
  BY DEF Shape, Places
<1>2. ASSUME NEW s \in Session, Begin(s) PROVE ReadsOK'
  BY <1>1, <1>2 DEF Begin, ReadsOK, Readable, IntegrityDecides, Faithful
<1>3. CASE RecordHash
  <2>1. pc = "hash" /\ seen = {} /\ seen' = {} /\ evidence' = evidence /\ outcome' # "raised"
    BY <1>1, <1>3 DEF RecordHash, ReadsOK, Readable
  <2>2. QED
    BY <2>1 DEF ReadsOK, Readable, IntegrityDecides, Faithful
<1>4. CASE Stage
  BY <1>1, <1>4, ReadsKept DEF Stage
<1>5. CASE CreateContainer
  BY <1>1, <1>5, ReadsKept DEF CreateContainer
<1>6. CASE StartContainer
  <2>1. pc = "start" /\ seen = {} /\ outcome' # "raised" /\ pc' \in {"exec", "verify"}
        /\ UNCHANGED <<tree, pre, undone, evidence>>
    BY <1>1, <1>6 DEF StartContainer, ReadsOK, Readable
  <2>2. seen' = {} \/ seen' = {tree}
    BY <1>6, <2>1 DEF StartContainer
  <2>3. QED
    BY <2>1, <2>2 DEF ReadsOK, Readable, IntegrityDecides, Faithful
<1>7. CASE StartWorker \/ JoinReturns
  BY <1>1, <1>7, ReadsKept DEF StartWorker, JoinReturns, Join
<1>8. CASE TimedOut \/ Kill \/ Completed \/ WorkerRaised
  BY <1>1, <1>8, ReadsKept DEF TimedOut, Kill, Completed, WorkerRaised
<1>9. CASE Cleanup
  <2>1. pc' \in {"teardown", "verify", "parse"}
        /\ UNCHANGED <<tree, pre, seen, undone, evidence, outcome>>
    BY <1>9 DEF Cleanup
  <2>2. QED
    BY <2>1, ReadsKept
<1>10. CASE Parse \/ WorkerEnds \/ SourceModified
  BY <1>10, ReadsKept DEF Parse, WorkerEnds, SourceModified
<1>11. CASE OperationFailed
  <2>1. undone \/ Faithful(seen, pre)
    BY <1>11 DEF OperationFailed, Intact, Shape, TypeOK, HistoryOK, ReadsOK, Readable
  <2>2. QED
    BY <1>11, <2>1, ReadsKept DEF OperationFailed
<1>12. CASE PackageEvidence
  <2>1. undone \/ Faithful(seen, pre)
    BY <1>12 DEF PackageEvidence, Intact, Shape, TypeOK, HistoryOK, ReadsOK, Readable
  <2>2. pc' = "teardown" /\ UNCHANGED <<tree, pre, seen, undone, outcome>>
    BY <1>12 DEF PackageEvidence
  <2>3. Readable'
    BY <2>2 DEF ReadsOK, Readable, Faithful
  <2>4. ASSUME NEW s \in Session, evidence'[s] # NoEvidence
        PROVE  evidence'[s].undone \/ Faithful(evidence'[s].sources, evidence'[s].hash)
    <3>1. CASE s = session
      <4>1. evidence'[s] = [exit |-> result, covered |-> coverage, delta |-> Comparable,
                            hash |-> pre, sources |-> seen, undone |-> undone]
        BY <1>12, <3>1 DEF PackageEvidence, Shape, TypeOK, NodeOK
      <4>2. QED
        BY <2>1, <4>1
    <3>2. CASE s # session
      <4>1. evidence'[s] = evidence[s]
        BY <1>12, <3>2 DEF PackageEvidence, Shape, TypeOK, NodeOK
      <4>2. QED
        BY <2>4, <4>1 DEF ReadsOK, IntegrityDecides
    <3>3. QED
      BY <3>1, <3>2
  <2>5. IntegrityDecides'
    BY <2>2, <2>4 DEF ReadsOK, IntegrityDecides, Faithful
  <2>6. QED
    BY <2>3, <2>5 DEF ReadsOK
<1>13. CASE Teardown
  <2>1. pc' \in {"next", "ended"} /\ UNCHANGED <<tree, pre, seen, undone, evidence, outcome>>
    BY <1>13 DEF Teardown
  <2>2. QED
    BY <2>1, ReadsKept
<1>14. CASE Return
  BY <1>14, ReadsKept DEF Return
<1>15. CASE Interrupt
  <2>1. UNCHANGED <<tree, pre, seen, undone, evidence>> /\ outcome' = "interrupted"
        /\ pc' \in {"cleanup", "teardown", "ended"}
    BY <1>15 DEF Interrupt
  <2>2. QED
    BY <2>1, ReadsKept
<1>16. CASE Edit
  <2>1. UNCHANGED <<pc, pre, outcome, evidence>>
    BY <1>16 DEF Edit
  <2>2. \/ seen' = seen
        \/ seen' = seen \cup {tree'} /\ container = "up" /\ pc \notin {"next", "teardown", "ended"}
    BY <1>16 DEF Edit
  <2>3. undone => undone'
    BY <1>16 DEF Edit
  <2>4. ASSUME ~undone', Hash(tree') = pre
        PROVE  Faithful(seen', pre)
    <3>1. ~undone /\ Hash(tree) = pre
      BY <1>16, <2>4 DEF Edit, Shape, TypeOK, HistoryOK
    <3>2. Faithful(seen, pre)
      BY <3>1 DEF ReadsOK, Readable
    <3>3. QED
      BY <2>2, <2>4, <3>2 DEF Faithful
  <2>5. pc' \in {"hash", "stage", "create", "start"} => seen' = {}
    BY <2>1, <2>2 DEF Shape, Provisioned, ReadsOK, Readable
  <2>6. Readable'
    BY <2>1, <2>4, <2>5 DEF Readable
  <2>7. outcome' = "raised" => seen' = seen
    BY <1>1, <2>1, <2>2 DEF Shape, Provisioned, Places
  <2>8. IntegrityDecides'
    BY <2>1, <2>3, <2>7 DEF ReadsOK, IntegrityDecides
  <2>9. QED
    BY <2>6, <2>8 DEF ReadsOK
<1>17. CASE UNCHANGED vars
  BY <1>17, ReadsKept DEF vars
<1>18. QED
  BY <1>2, <1>3, <1>4, <1>5, <1>6, <1>7, <1>8, <1>9, <1>10, <1>11, <1>12, <1>13, <1>14, <1>15,
     <1>16, <1>17
     DEF Next, Step, Execute, CreateEnvironment, ExecuteCommand, Done

\* Unless an edit was undone before the second hash, evidence speaks of sources that
\* hash as recorded, and so does an error that is not blamed on the sources.
THEOREM IntegrityHolds == Spec => []IntegrityDecides
<1>1. Shape /\ ReadsOK => IntegrityDecides
  BY DEF ReadsOK
<1>2. QED
  BY <1>1, ShapeInit, ShapeStep, ReadsInit, ReadsStep, PTL DEF Spec

-----------------------------------------------------------------------------
(* Coverage deltas *)

LEMMA DeltasInit == Init => DeltasOK
<1> SUFFICES ASSUME Init PROVE DeltasOK
  OBVIOUS
<1>1. \A s \in Session : evidence[s] = NoEvidence
  BY DEF Init
<1>2. pc = "next"
  BY DEF Init
<1>3. QED
  BY <1>1, <1>2 DEF DeltasOK, Ordered, Registered, DeltasConsistent, Session

\* The evidence of a session is packaged.
LEMMA DeltasPackaged == Shape /\ DeltasOK /\ PackageEvidence => DeltasOK'
<1> SUFFICES ASSUME Shape, DeltasOK, PackageEvidence PROVE DeltasOK'
  OBVIOUS
<1> DEFINE ev == [exit |-> result, covered |-> coverage, delta |-> Comparable,
                  hash |-> pre, sources |-> seen, undone |-> undone]
<1>1. /\ pc = "verify" /\ pc' = "teardown" /\ session \in Session /\ outcome = "running"
      /\ result \in ExitCode
      /\ UNCHANGED <<session, waiting, outcome>>
  BY DEF PackageEvidence, Shape, Places
<1>2. evidence' = [evidence EXCEPT ![session] = ev] /\ evidence \in [Session -> ExecutionEvidence \cup {NoEvidence}]
  BY DEF PackageEvidence, Shape, TypeOK, NodeOK
<1>3. /\ evidence'[session] = ev
      /\ \A s \in Session \ {session} : evidence'[s] = evidence[s]
  BY <1>1, <1>2
<1>4. ev.exit = result /\ ev.covered = coverage /\ ev.delta = Comparable
  OBVIOUS
<1>5. ev # NoEvidence
  <2>1. ev.exit # NoResult /\ NoEvidence.exit = NoResult
    BY <1>1 DEF ExitCode, NoResult, NoEvidence
  <2>2. QED
    BY <2>1
<1> HIDE DEF ev
<1>6. Baseline \in Session /\ Candidate \subseteq Session /\ Baseline \notin Candidate
  BY ExecutionAssumption DEF Session
<1>7. settings' = IF coverage /\ session = Baseline THEN settings \cup {session} ELSE settings
  BY DEF PackageEvidence, Register
<1>8. session \in Candidate => Baseline \notin waiting /\ evidence'[Baseline] = evidence[Baseline]
  BY <1>1, <1>3, <1>6 DEF DeltasOK, Ordered
<1>9. session = Baseline => \A c \in Candidate : evidence'[c] = NoEvidence
  BY <1>1, <1>3, <1>6 DEF DeltasOK, Ordered
<1>10. Ordered'
  <2>1. CASE session = Baseline
    BY <1>1, <1>6, <1>9, <2>1 DEF Ordered
  <2>2. CASE session # Baseline
    <3>1. session \in Candidate
      BY <1>1, <2>2 DEF Session
    <3>2. QED
      BY <1>1, <1>8, <2>2, <3>1 DEF Ordered
  <2>3. QED
    BY <2>1, <2>2
<1>11. Registered'
  <2>1. CASE session = Baseline
    BY <1>1, <1>3, <1>4, <1>7, <2>1 DEF Registered
  <2>2. CASE session # Baseline
    BY <1>1, <1>3, <1>6, <1>7, <2>2 DEF DeltasOK, Registered
  <2>3. QED
    BY <2>1, <2>2
<1>12. DeltasConsistent'
  <2>1. SUFFICES ASSUME NEW c \in Candidate, evidence'[c] # NoEvidence
                 PROVE  evidence'[c].delta <=>
                            /\ evidence'[Baseline] # NoEvidence
                            /\ \A s \in {c, Baseline} : evidence'[s].exit = 0 /\ evidence'[s].covered
    BY DEF DeltasConsistent
  <2>2. session # Baseline /\ session \in Candidate
    BY <1>1, <1>9, <2>1 DEF Session
  <2>3. CASE c = session
    <3>1. Comparable <=>
             /\ evidence[Baseline] # NoEvidence
             /\ evidence[Baseline].exit = 0 /\ result = 0
             /\ coverage /\ evidence[Baseline].covered
      BY <1>1, <2>2 DEF Comparable, DeltasOK, Registered
    <3>2. evidence'[Baseline] = evidence[Baseline]
      BY <1>8, <2>2
    <3>3. QED
      BY <1>3, <1>4, <2>3, <3>1, <3>2
  <2>4. CASE c # session
    <3>1. evidence'[c] = evidence[c] /\ evidence'[Baseline] = evidence[Baseline]
      BY <1>3, <1>6, <1>8, <2>2, <2>4
    <3>2. QED
      BY <2>1, <3>1 DEF DeltasOK, DeltasConsistent
  <2>5. QED
    BY <2>3, <2>4
<1>13. QED
  BY <1>10, <1>11, <1>12 DEF DeltasOK

\* A step that stays in its session, or leaves it, keeps the order and the settings.
LEMMA DeltasKept ==
    ASSUME DeltasOK, UNCHANGED <<waiting, evidence, session>>,
           pc' \in {"next", "ended"} \/ pc \notin {"next", "ended"},
           outcome' = "running" => outcome = "running" /\ settings' = settings
    PROVE  DeltasOK'
<1>1. Ordered'
  BY DEF DeltasOK, Ordered
<1>2. Registered'
  BY DEF DeltasOK, Registered
<1>3. DeltasConsistent'
  BY DEF DeltasOK, DeltasConsistent
<1>4. QED
  BY <1>1, <1>2, <1>3 DEF DeltasOK

LEMMA DeltasStep == Shape /\ DeltasOK /\ [Next]_vars => DeltasOK'
<1> SUFFICES ASSUME Shape, DeltasOK, [Next]_vars PROVE DeltasOK'
  OBVIOUS
<1> USE DEF node, box
<1>1. ASSUME NEW s \in Session, Begin(s) PROVE DeltasOK'
  <2>1. /\ pc = "next" /\ s \in waiting /\ waiting' = waiting \ {s} /\ session' = s /\ pc' = "hash"
        /\ (Baseline \in waiting => s = Baseline)
        /\ UNCHANGED <<evidence, settings, outcome>>
    BY <1>1 DEF Begin
  <2>2. Ordered'
    BY <2>1, ExecutionAssumption DEF DeltasOK, Ordered
  <2>3. Registered' /\ DeltasConsistent'
    BY <2>1 DEF DeltasOK, Registered, DeltasConsistent
  <2>4. QED
    BY <2>2, <2>3 DEF DeltasOK
<1>2. CASE RecordHash \/ Stage
  BY <1>2, DeltasKept DEF RecordHash, Stage
<1>3. CASE CreateEnvironment
  BY <1>3, DeltasKept DEF CreateEnvironment, CreateContainer, StartContainer
<1>4. CASE ExecuteCommand
  BY <1>4, DeltasKept
     DEF ExecuteCommand, StartWorker, JoinReturns, Join, TimedOut, Kill, Completed, WorkerRaised
<1>5. CASE Cleanup
  BY <1>5, DeltasKept DEF Cleanup
<1>6. CASE Parse
  BY <1>6, DeltasKept DEF Parse
<1>7. CASE WorkerEnds
  BY <1>7, DeltasKept DEF WorkerEnds
<1>8. CASE SourceModified \/ OperationFailed
  BY <1>8, DeltasKept DEF SourceModified, OperationFailed
<1>9. CASE PackageEvidence
  BY <1>9, DeltasPackaged
<1>10. CASE Teardown
  <2>1. UNCHANGED <<waiting, evidence, session, outcome>> /\ pc' \in {"next", "ended"}
    BY <1>10 DEF Teardown
  <2>2. outcome' = "running" => settings' = settings
    BY <1>10 DEF Teardown, Release
  <2>3. QED
    BY <2>1, <2>2, DeltasKept
<1>11. CASE Return
  BY <1>11, DeltasKept DEF Return
<1>12. CASE Interrupt
  BY <1>12, DeltasKept DEF Interrupt
<1>13. CASE Edit
  BY <1>13, DeltasKept DEF Edit
<1>14. CASE UNCHANGED vars
  BY <1>14, DeltasKept DEF vars
<1>15. QED
  BY <1>1, <1>2, <1>3, <1>4, <1>5, <1>6, <1>7, <1>8, <1>9, <1>10, <1>11, <1>12, <1>13, <1>14
     DEF Next, Step, Execute, Done

\* Which candidates get a coverage delta.
THEOREM DeltasHold == Spec => []DeltasConsistent
<1>1. Shape /\ DeltasOK => DeltasConsistent
  BY DEF DeltasOK
<1>2. QED
  BY <1>1, ShapeInit, ShapeStep, DeltasInit, DeltasStep, PTL DEF Spec

-----------------------------------------------------------------------------
(* What is left behind *)

LEMMA PaidInit == Init => Paid
BY FS_EmptySet DEF Init, Paid, Owed

\* Leaving a session adds what was kept, and the container if it is still there.
LEMMA LeaveBounded ==
    ASSUME Shape, IsFiniteSet(left), NEW kept \in SUBSET Directory, Leave(kept), pc = "teardown"
    PROVE  /\ IsFiniteSet(left')
           /\ Cardinality(left') \in Nat /\ Cardinality(left) \in Nat /\ Cardinality(kept) \in Nat
           /\ Cardinality(left') =< Cardinality(left) + Cardinality(kept) + Owed
<1> DEFINE box1 == IF container = "absent" THEN {} ELSE {"container"}
           all  == kept \cup box1
           here == {session} \X all
<1>1. IsFiniteSet(kept) /\ Cardinality(kept) \in Nat
  BY KeptFinite
<1>2. IsFiniteSet(box1) /\ Cardinality(box1) = Owed /\ Owed \in Nat
  BY FS_EmptySet, FS_Singleton DEF Owed
<1>3. IsFiniteSet(all) /\ Cardinality(all) \in Nat /\ Cardinality(all) =< Cardinality(kept) + Owed
  <2>1. IsFiniteSet(all) /\ Cardinality(all) = Cardinality(kept) + Cardinality(box1) - Cardinality(kept \cap box1)
    BY <1>1, <1>2, FS_Union
  <2>2. IsFiniteSet(kept \cap box1) /\ Cardinality(kept \cap box1) \in Nat
    BY <1>1, FS_Subset, FS_CardinalityType
  <2>3. QED
    BY <1>1, <1>2, <2>1, <2>2, FS_CardinalityType
<1>4. IsFiniteSet(here) /\ Cardinality(here) = Cardinality(all)
  <2>1. IsFiniteSet({session}) /\ Cardinality({session}) = 1
    BY FS_Singleton
  <2>2. IsFiniteSet(here) /\ Cardinality(here) = Cardinality({session}) * Cardinality(all)
    BY <1>3, <2>1, FS_Product
  <2>3. QED
    BY <1>3, <2>1, <2>2
<1>5. left' = left \cup here
  BY DEF Leave
<1>6. Cardinality(left) \in Nat /\ IsFiniteSet(left \cap here) /\ Cardinality(left \cap here) \in Nat
  BY FS_Subset, FS_CardinalityType
<1>7. /\ IsFiniteSet(left \cup here)
      /\ Cardinality(left \cup here) = Cardinality(left) + Cardinality(here) - Cardinality(left \cap here)
  BY <1>4, FS_Union
<1>8. Cardinality(left \cup here) \in Nat
  BY <1>7, FS_CardinalityType
<1> HIDE DEF box1, all, here
<1>9. QED
  BY <1>1, <1>2, <1>3, <1>4, <1>5, <1>6, <1>7, <1>8

\* A step that leaves no session pays for what it owes.
LEMMA PaidKept ==
    ASSUME Shape, Shape', Paid, left' = left,
           stopped' \in {stopped, pc}, stopped' # stopped => stopped = "nowhere",
           stopped' \notin {"start", "cleanup", "teardown"} =>
               \/ lost' = lost /\ (Owed' = 0 \/ Owed' = Owed)
               \/ lost' = lost + 1
    PROVE  Paid'
<1>1. lost \in Nat /\ lost' \in Nat
  BY ExecutionAssumption DEF Shape, TypeOK, HistoryOK
<1>2. Owed \in {0, 1} /\ Owed' \in {0, 1}
  BY DEF Owed
<1>3. Cardinality(left) \in Nat
  BY FS_CardinalityType DEF Paid
<1>4. QED
  BY <1>1, <1>2, <1>3 DEF Paid

LEMMA PaidStep == Shape /\ Shape' /\ Paid /\ [Next]_vars => Paid'
<1> SUFFICES ASSUME Shape, Shape', Paid, [Next]_vars PROVE Paid'
  OBVIOUS
<1> USE DEF box, history, counts
<1>1. lost \in Nat /\ lost' \in Nat
  BY ExecutionAssumption DEF Shape, TypeOK, HistoryOK
<1>2. ASSUME NEW s \in Session, Begin(s) PROVE Paid'
  BY <1>1, <1>2, PaidKept DEF Begin, Owed
<1>3. CASE RecordHash
  BY <1>1, <1>3, PaidKept DEF RecordHash, Owed, Shape, Provisioned
<1>4. CASE Stage
  BY <1>1, <1>4, PaidKept DEF Stage, Owed, Shape, Provisioned
<1>5. CASE CreateContainer
  BY <1>1, <1>5, PaidKept DEF CreateContainer, CreateUnanswered, Loses, Owed, Shape, Provisioned
<1>6. CASE StartContainer
  BY <1>1, <1>6, PaidKept DEF StartContainer, RemovePartial, Loses, Owed
<1>7. CASE StartWorker \/ JoinReturns
  BY <1>1, <1>7, PaidKept DEF StartWorker, JoinReturns, Join, Owed
<1>8. CASE TimedOut \/ Kill \/ Completed \/ WorkerRaised
  BY <1>1, <1>8, PaidKept DEF TimedOut, Kill, Completed, WorkerRaised, Owed
<1>9. CASE Cleanup
  BY <1>1, <1>9, PaidKept DEF Cleanup, Loses, Owed
<1>10. CASE Parse
  BY <1>1, <1>10, PaidKept DEF Parse, Owed
<1>11. CASE WorkerEnds
  BY <1>1, <1>11, PaidKept DEF WorkerEnds, Owed
<1>12. CASE SourceModified \/ OperationFailed \/ PackageEvidence
  BY <1>1, <1>12, PaidKept DEF SourceModified, OperationFailed, PackageEvidence, Owed
<1>13. CASE Teardown
  <2>1. PICK kept \in SUBSET dirs : Loses(Cardinality(kept)) /\ Leave(kept)
    BY <1>13 DEF Teardown
  <2>2. kept \in SUBSET Directory
    BY DEF Shape, TypeOK, SessionOK
  <2>3. pc = "teardown" /\ pc' \in {"next", "ended"} /\ stopped' = stopped
    BY <1>13 DEF Teardown
  <2>4. /\ IsFiniteSet(left')
        /\ Cardinality(left') \in Nat /\ Cardinality(left) \in Nat /\ Cardinality(kept) \in Nat
        /\ Cardinality(left') =< Cardinality(left) + Cardinality(kept) + Owed
    BY <2>1, <2>2, <2>3, LeaveBounded DEF Paid
  <2>5. lost' = lost + Cardinality(kept)
    BY <2>1 DEF Loses
  <2>6. Owed' = 0 /\ Owed \in Nat
    BY <2>3 DEF Owed
  <2>7. QED
    BY <1>1, <2>3, <2>4, <2>5, <2>6 DEF Paid
<1>14. CASE Return
  BY <1>1, <1>14, PaidKept DEF Return, Owed
<1>15. CASE Interrupt
  <2>1. stopped = "nowhere" /\ stopped' = pc /\ UNCHANGED <<container, lost>>
    BY <1>15 DEF Interrupt
  <2>2. CASE pc \in {"start", "cleanup", "teardown"}
    <3>1. IsFiniteSet(left')
      <4>1. CASE pc = "teardown"
        <5>1. PICK kept \in SUBSET dirs : Leave(kept)
          BY <1>15, <4>1 DEF Interrupt
        <5>2. kept \in SUBSET Directory
          BY DEF Shape, TypeOK, SessionOK
        <5>3. QED
          BY <4>1, <5>1, <5>2, LeaveBounded DEF Paid
      <4>2. CASE pc # "teardown"
        BY <1>15, <4>2 DEF Interrupt, Paid
      <4>3. QED
        BY <4>1, <4>2
    <3>2. QED
      BY <2>1, <2>2, <3>1 DEF Paid
  <2>3. CASE pc \notin {"start", "cleanup", "teardown"}
    <3>1. left' = left
      BY <1>15, <2>3 DEF Interrupt
    <3>2. pc' \in {"ended", "cleanup", "teardown"}
      BY <1>15, <2>3 DEF Interrupt
    <3>3. pc' = "teardown" => container = "absent" \/ pc \in {"parse", "verify"}
      <4>1. pc' = "teardown" => ~known /\ pc \notin {"next", "hash", "ended"}
        BY <1>15, <2>3 DEF Interrupt
      <4>2. pc \in Line
        BY DEF Shape, TypeOK, SessionOK
      <4>3. QED
        BY <2>3, <4>1, <4>2 DEF Line, Shape, Provisioned
    <3>4. Owed' = 0 \/ Owed' = Owed
      BY <2>1, <3>2, <3>3 DEF Owed
    <3>5. QED
      BY <2>1, <3>1, <3>4, PaidKept
  <2>4. QED
    BY <2>2, <2>3
<1>16. CASE Edit
  BY <1>1, <1>16, PaidKept DEF Edit, Owed
<1>17. CASE UNCHANGED vars
  BY <1>1, <1>17, PaidKept DEF vars, Owed
<1>18. QED
  BY <1>2, <1>3, <1>4, <1>5, <1>6, <1>7, <1>8, <1>9, <1>10, <1>11, <1>12, <1>13, <1>14, <1>15,
     <1>16, <1>17
     DEF Next, Step, Execute, CreateEnvironment, ExecuteCommand, Done

\* What outlives its session is due to as many failed calls of a cleanup.
THEOREM NothingLeaksHolds == Spec => []NothingLeaks
<1>1. Paid /\ Shape => NothingLeaks
  <2>1. SUFFICES ASSUME Paid, Shape, stopped \notin {"start", "cleanup", "teardown"}
                 PROVE  Cardinality(left) =< lost
    BY DEF NothingLeaks
  <2>2. lost \in Nat
    BY <2>1, ExecutionAssumption DEF Shape, TypeOK, HistoryOK
  <2>3. Cardinality(left) \in Nat
    BY <2>1, FS_CardinalityType DEF Paid
  <2>4. Owed \in {0, 1}
    BY DEF Owed
  <2>5. QED
    BY <2>1, <2>2, <2>3, <2>4 DEF Paid
<1>2. QED
  BY <1>1, ShapeInit, ShapeStep, PaidInit, PaidStep, PTL DEF Spec

\* The three together, from one inductive invariant.
THEOREM ExecutionSafe == Spec => []IInv
<1>1. Init => IInv
  BY ShapeInit, ReadsInit, DeltasInit, PaidInit DEF IInv
<1>2. IInv /\ [Next]_vars => IInv'
  BY ShapeStep, ReadsStep, DeltasStep, PaidStep DEF IInv
<1>3. QED
  BY <1>1, <1>2, PTL DEF Spec

=============================================================================
