----------------------------- MODULE Execution -----------------------------
(***************************************************************************)
(* execute_sandbox_node (workflow/nodes.py): ExecutionService              *)
(* (execution/service.py) executes the existing tests and then every       *)
(* candidate in a session of its own, each in a container of               *)
(* DockerSandboxManager (execution/docker_sandbox.py) whose command a       *)
(* worker thread waits for.                                                *)
(*                                                                         *)
(* While it does, somebody may edit the sources, the command may hang, the *)
(* calls to Docker and to the file system may fail, and the user may press *)
(* Ctrl-C.                                                                 *)
(***************************************************************************)
EXTENDS Integers, FiniteSets

CONSTANTS Candidate,  \* the candidates that passed validation
          Baseline,   \* stands for the session of the existing tests
          Content,    \* what a set of source files may contain
          Original,   \* what it contains at first
          MaxEdits,   \* bound: edits of the sources
          MaxErrors,  \* bound: calls that raise
          MaxLost     \* bound: calls that leave something behind

ASSUME ExecutionAssumption ==
    /\ Baseline \notin Candidate
    /\ Original \in Content
    /\ MaxEdits \in Nat /\ MaxErrors \in Nat /\ MaxLost \in Nat

VARIABLES
    tree,       \* the content of source_root
    \* The node.
    waiting,    \* sessions not begun
    evidence,   \* by session
    settings,   \* _evidence_settings: whose settings are registered
    outcome,    \* how the node ends
    \* The session at hand: locals of execute.
    session, pc,
    pre,        \* pre_source_hash
    failed,     \* op_error, or an exception on its way
    dirs,       \* of the staging and the scratch directory, those that exist
    container,  \* state of its container
    known,      \* container_id is not None
    worker,     \* the thread in exec_run
    result,     \* raw_result, by its exit code
    coverage,   \* coverage_metrics.is_valid
    \* History and bounds.
    seen,       \* versions of the sources the running container could read
    undone,     \* an edit since pre was hashed has been undone
    left,       \* what sessions left behind
    stopped,    \* where Ctrl-C was pressed
    edits, errors, lost

node    == <<waiting, evidence, settings>>
box     == <<container, known, worker, result>>
history == <<seen, undone, left, stopped>>
counts  == <<errors, lost>>
vars    == <<tree, edits, node, outcome, session, pc, pre, failed, dirs, box, coverage,
             history, counts>>

-----------------------------------------------------------------------------
(* Data *)

Session == Candidate \cup {Baseline}

NoSession == "none"

\* Of the files under source_root, compute_tree_hash skips those whose path is
\* excluded and those it cannot read.
Version == [hashed: Content, skipped: Content]

Hash(v) == v.hashed

Directory == {"staging", "scratch"}

\* Exit codes: tests passed, tests failed, killed at the time limit.
ExitCode == {0, 1, 124}

NoResult == -1

NoEvidence == [exit |-> NoResult]

ExecutionEvidence ==
    [exit: ExitCode, covered: BOOLEAN, delta: BOOLEAN,
     hash: Content,              \* pre_source_hash
     sources: SUBSET Version,    \* what the container could read
     undone: BOOLEAN]

\* Where the session stands in execute and in the calls it makes.
Line == {"next", "hash", "stage", "create", "start", "exec", "join", "alive", "kill",
         "cleanup", "parse", "verify", "teardown", "ended"}

NodeOK ==
    /\ tree \in Version
    /\ waiting \subseteq Session
    /\ evidence \in [Session -> ExecutionEvidence \cup {NoEvidence}]
    /\ settings \subseteq {Baseline}
    /\ outcome \in {"running", "returned", "raised", "integrity", "interrupted"}

SessionOK ==
    /\ session \in Session \cup {NoSession}
    /\ pc \in Line
    /\ pre \in Content
    /\ failed \in BOOLEAN
    /\ dirs \subseteq Directory
    /\ container \in {"absent", "created", "up", "down"}
    /\ known \in BOOLEAN
    /\ worker \in {"none", "running", "finished", "raised"}
    /\ result \in ExitCode \cup {NoResult}
    /\ coverage \in BOOLEAN

HistoryOK ==
    /\ seen \subseteq Version /\ undone \in BOOLEAN
    /\ left \subseteq Session \X (Directory \cup {"container"})
    /\ stopped \in Line \cup {"nowhere"}
    /\ edits \in 0..MaxEdits /\ errors \in 0..MaxErrors /\ lost \in 0..MaxLost

TypeOK == NodeOK /\ SessionOK /\ HistoryOK

-----------------------------------------------------------------------------
(* Faults *)

\* A call raises.
Raises == errors < MaxErrors /\ errors' = errors + 1

\* n calls fail and leave something behind that nobody goes after.
Loses(n) == lost + n =< MaxLost /\ lost' = lost + n

-----------------------------------------------------------------------------
(* execute: before the container *)

\* The existing tests first, then the candidates.
Begin(s) ==
    /\ pc = "next" /\ s \in waiting
    /\ Baseline \in waiting => s = Baseline
    /\ waiting' = waiting \ {s}
    /\ session' = s
    /\ failed' = FALSE /\ coverage' = FALSE
    /\ container' = "absent" /\ known' = FALSE /\ worker' = "none" /\ result' = NoResult
    /\ seen' = {}
    /\ pc' = "hash"
    /\ UNCHANGED <<tree, edits, evidence, settings, outcome, pre, dirs, undone, left,
                   stopped, counts>>

\* compute_tree_hash, before anything is set up.
RecordHash ==
    /\ pc = "hash"
    /\ \/ /\ pre' = Hash(tree) /\ undone' = FALSE /\ pc' = "stage"
          /\ UNCHANGED <<outcome, errors>>
       \/ /\ Raises
          /\ outcome' = "integrity" /\ pc' = "teardown"
          /\ UNCHANGED <<pre, undone>>
    /\ UNCHANGED <<tree, edits, node, session, failed, dirs, box, coverage, seen, left,
                   stopped, lost>>

\* The staging directory with the candidate in it, then the scratch directory.
Stage ==
    /\ pc = "stage"
    /\ \/ /\ dirs' = Directory /\ pc' = "create"
          /\ UNCHANGED <<failed, errors>>
       \/ /\ Raises
          /\ dirs' \in {{}, {"staging"}}
          /\ failed' = TRUE /\ pc' = "verify"
    /\ UNCHANGED <<tree, edits, node, outcome, session, pre, box, coverage, history,
                   lost>>

-----------------------------------------------------------------------------
(* DockerSandboxManager *)

\* containers.create raises: the daemon may have made the container all the same.
CreateUnanswered ==
    \/ UNCHANGED <<container, lost>>
    \/ container' = "created" /\ Loses(1)

CreateContainer ==
    /\ pc = "create"
    /\ \/ /\ container' = "created" /\ pc' = "start"
          /\ UNCHANGED <<failed, counts>>
       \/ /\ Raises
          /\ CreateUnanswered
          /\ failed' = TRUE /\ pc' = "verify"
    /\ UNCHANGED <<tree, edits, node, outcome, session, pre, dirs, known, worker, result,
                   coverage, history>>

\* A mutant: a container that does not start is not removed.
RemovePartialNever == UNCHANGED <<container, lost>>

\* create_environment removes a container it cannot hand out.
RemovePartial ==
    \/ container' = "absent" /\ UNCHANGED lost
    \/ Loses(1) /\ UNCHANGED container

StartContainer ==
    /\ pc = "start"
    /\ \/ /\ container' = "up" /\ known' = TRUE /\ pc' = "exec"
          /\ seen' = {tree}
          /\ UNCHANGED <<failed, counts>>
       \/ /\ Raises
          /\ RemovePartial
          /\ failed' = TRUE /\ pc' = "verify"
          /\ UNCHANGED <<known, seen>>
    /\ UNCHANGED <<tree, edits, node, outcome, session, pre, dirs, worker, result,
                   coverage, undone, left, stopped>>

\* execute_command finds the container and starts its thread.
StartWorker ==
    /\ pc = "exec"
    /\ \/ /\ worker' = "running" /\ pc' = "join"
          /\ UNCHANGED <<failed, errors>>
       \/ /\ Raises
          /\ failed' = TRUE /\ pc' = "cleanup"
          /\ UNCHANGED worker
    /\ UNCHANGED <<tree, edits, node, outcome, session, pre, dirs, container, known,
                   result, coverage, history, lost>>

\* exec_run returns in the thread, at any time, or raises.
WorkerEnds ==
    /\ worker = "running"
    /\ \/ worker' = "finished" /\ UNCHANGED errors
       \/ worker' = "raised" /\ Raises
    /\ UNCHANGED <<tree, edits, node, outcome, session, pc, pre, failed, dirs, container,
                   known, result, coverage, history, lost>>

\* A mutant: join has no timeout.
JoinForever == pc = "join" /\ worker # "running"

\* worker.join returns: the thread has ended, or the limit is over.
Join == pc = "join"

JoinReturns ==
    /\ Join
    /\ pc' = "alive"
    /\ UNCHANGED <<tree, edits, node, outcome, session, pre, failed, dirs, box, coverage,
                   history, counts>>

\* worker.is_alive, read after join returned.
TimedOut ==
    /\ pc = "alive" /\ worker = "running"
    /\ result' = 124 /\ pc' = "kill"
    /\ UNCHANGED <<tree, edits, node, outcome, session, pre, failed, dirs, container,
                   known, worker, coverage, history, counts>>

\* The container is killed, if that succeeds.
Kill ==
    /\ pc = "kill"
    /\ container' \in {container, "down"}
    /\ pc' = "cleanup"
    /\ UNCHANGED <<tree, edits, node, outcome, session, pre, failed, dirs, known, worker,
                   result, coverage, history, counts>>

Completed ==
    /\ pc = "alive" /\ worker = "finished"
    /\ result' \in ExitCode /\ pc' = "cleanup"
    /\ UNCHANGED <<tree, edits, node, outcome, session, pre, failed, dirs, container,
                   known, worker, coverage, history, counts>>

WorkerRaised ==
    /\ pc = "alive" /\ worker = "raised"
    /\ failed' = TRUE /\ pc' = "cleanup"
    /\ UNCHANGED <<tree, edits, node, outcome, session, pre, dirs, box, coverage,
                   history, counts>>

\* cleanup forgets the container whether or not it could remove it.
Cleanup ==
    /\ pc = "cleanup"
    /\ \/ container' = "absent" /\ UNCHANGED lost
       \/ container' \in {container, "down"} /\ Loses(1)
    /\ known' = FALSE
    /\ pc' = IF outcome = "interrupted" THEN "teardown" ELSE IF failed THEN "verify" ELSE "parse"
    /\ UNCHANGED <<tree, edits, node, outcome, session, pre, failed, dirs, worker,
                   result, coverage, history, errors>>

-----------------------------------------------------------------------------
(* execute: after the container *)

\* The report of pytest and the coverage file, if there is a readable one.
Parse ==
    /\ pc = "parse"
    /\ \/ coverage' \in BOOLEAN /\ UNCHANGED <<failed, errors>>
       \/ Raises /\ failed' = TRUE /\ UNCHANGED coverage
    /\ pc' = "verify"
    /\ UNCHANGED <<tree, edits, node, outcome, session, pre, dirs, box, history, lost>>

\* A mutant: sources are compared only after a command that ended in time.
IntactUnlessTimeout == result = 124 \/ Hash(tree) = pre

\* _verify_source_integrity compares the hashes.
Intact == Hash(tree) = pre

SourceModified ==
    /\ pc = "verify"
    /\ \/ ~Intact /\ UNCHANGED errors
       \/ Raises
    /\ outcome' = "integrity" /\ pc' = "teardown"
    /\ UNCHANGED <<tree, edits, node, session, pre, failed, dirs, box, coverage, history,
                   lost>>

\* The exception of before is raised again.
OperationFailed ==
    /\ pc = "verify" /\ Intact /\ failed
    /\ outcome' = "raised" /\ pc' = "teardown"
    /\ UNCHANGED <<tree, edits, node, session, pre, failed, dirs, box, coverage, history,
                   counts>>

\* The conditions for a coverage delta.
Comparable ==
    /\ session # Baseline /\ evidence[Baseline] # NoEvidence
    /\ evidence[Baseline].exit = 0 /\ result = 0
    /\ coverage /\ evidence[Baseline].covered
    /\ Baseline \in settings

\* A mutant: candidates register their settings, too.
RegisterAny == coverage

\* The settings of a valid execution of the existing tests are registered.
Register == coverage /\ session = Baseline

PackageEvidence ==
    /\ pc = "verify" /\ Intact /\ ~failed
    /\ evidence' = [evidence EXCEPT ![session] =
          [exit |-> result, covered |-> coverage, delta |-> Comparable,
           hash |-> pre, sources |-> seen, undone |-> undone]]
    /\ settings' = IF Register THEN settings \cup {session} ELSE settings
    /\ pc' = "teardown"
    /\ UNCHANGED <<tree, edits, waiting, outcome, session, pre, failed, dirs, box,
                   coverage, history, counts>>

\* What is still there when execute is left.
Leave(kept) ==
    left' = left \cup ({session} \X (kept \cup
                         IF container = "absent" THEN {} ELSE {"container"}))

\* A mutant: execute releases the baseline itself, as it does by default.
ReleaseAlways(ends) == settings' = settings \ {Baseline}

\* execute is called with release_baseline=False: the settings are released when
\* execute_candidates is left.
Release(ends) ==
    settings' = IF ends /\ session # Baseline THEN settings \ {Baseline} ELSE settings

\* The directories go, unless rmtree fails, which it does not tell.
Teardown ==
    /\ pc = "teardown"
    /\ \E kept \in SUBSET dirs : Loses(Cardinality(kept)) /\ Leave(kept)
    /\ dirs' = {}
    /\ Release(outcome # "running")
    /\ pc' = IF outcome = "running" THEN "next" ELSE "ended"
    /\ UNCHANGED <<tree, edits, waiting, evidence, outcome, session, pre, failed, box,
                   coverage, seen, undone, stopped, errors>>

\* Every session has its evidence.
Return ==
    /\ pc = "next" /\ waiting = {}
    /\ outcome' = "returned" /\ pc' = "ended"
    /\ Release(TRUE)
    /\ UNCHANGED <<tree, edits, waiting, evidence, session, pre, failed, dirs, box,
                   coverage, history, counts>>

-----------------------------------------------------------------------------
(* The world around *)

\* Ctrl-C: KeyboardInterrupt is no Exception, so that only the finally clauses run.
\* One that interrupts a finally clause ends it.
Interrupt ==
    /\ pc # "ended" /\ stopped = "nowhere"
    /\ stopped' = pc
    /\ outcome' = "interrupted"
    /\ \/ /\ pc \in {"next", "hash"}
          /\ pc' = "ended"
          /\ UNCHANGED <<dirs, left>>
       \/ /\ pc = "teardown"
          /\ \E kept \in SUBSET dirs : Leave(kept)
          /\ pc' = "ended" /\ dirs' = {}
       \/ /\ pc \notin {"next", "hash", "teardown"}
          /\ pc' = IF known /\ pc # "cleanup" THEN "cleanup" ELSE "teardown"
          /\ UNCHANGED <<dirs, left>>
    /\ Release(pc \in {"next", "hash", "teardown"})
    /\ UNCHANGED <<tree, edits, waiting, evidence, session, pre, failed, box, coverage,
                   seen, undone, counts>>

\* Somebody edits the sources, perhaps while a container can read them, and perhaps
\* back to what was hashed.
Edit ==
    /\ edits < MaxEdits /\ pc # "ended"
    /\ edits' = edits + 1
    /\ tree' \in Version \ {tree}
    /\ seen' = IF container = "up" /\ pc \notin {"next", "teardown"}
               THEN seen \cup {tree'} ELSE seen
    /\ undone' = (undone \/ (Hash(tree) # pre /\ Hash(tree') = pre))
    /\ UNCHANGED <<node, outcome, session, pc, pre, failed, dirs, box, coverage, left,
                   stopped, counts>>

Done == pc = "ended" /\ UNCHANGED vars

Init ==
    /\ tree = [hashed |-> Original, skipped |-> Original]
    /\ waiting \in SUBSET Session
    /\ evidence = [s \in Session |-> NoEvidence]
    /\ settings = {} /\ outcome = "running"
    /\ session = NoSession /\ pc = "next" /\ pre = Original /\ failed = FALSE
    /\ dirs = {} /\ container = "absent" /\ known = FALSE
    /\ worker = "none" /\ result = NoResult /\ coverage = FALSE
    /\ seen = {} /\ undone = FALSE /\ left = {} /\ stopped = "nowhere"
    /\ edits = 0 /\ errors = 0 /\ lost = 0

CreateEnvironment == CreateContainer \/ StartContainer

ExecuteCommand ==
    StartWorker \/ JoinReturns \/ TimedOut \/ Kill \/ Completed \/ WorkerRaised

Execute ==
    \/ RecordHash \/ Stage \/ CreateEnvironment \/ ExecuteCommand \/ Cleanup
    \/ Parse \/ SourceModified \/ OperationFailed \/ PackageEvidence \/ Teardown

\* The thread of the program.
Step == (\E s \in Session : Begin(s)) \/ Execute \/ Return

Next == Step \/ WorkerEnds \/ Interrupt \/ Edit \/ Done

Spec == Init /\ [][Next]_vars

\* The program's thread goes on: calls to Docker but exec_run return, join in the end
\* by its timeout.  The worker's thread may hang for ever.
FairSpec == Spec /\ WF_vars(Step)

-----------------------------------------------------------------------------
(* Properties *)

\* The container read nothing but what hashes as recorded.
Faithful(sources, hash) == \A v \in sources : Hash(v) = hash

\* An execution counts only for sources that stayed as they were hashed: evidence
\* speaks of sources with the hash that was recorded, and an error of the sandbox is
\* reported as such only if the sources are not to blame.  Only an edit that was
\* undone in time escapes the two hashes (INV-02, _verify_source_integrity).
IntegrityDecides ==
    /\ \A s \in Session : evidence[s] # NoEvidence =>
           evidence[s].undone \/ Faithful(evidence[s].sources, evidence[s].hash)
    /\ outcome = "raised" => undone \/ Faithful(seen, pre)

\* Every container and directory that outlives its session is due to one failed call,
\* of a cleanup or of the container's creation, whatever raised before, also when
\* Ctrl-C interrupts the command; only one pressed during provisioning or a cleanup
\* may leave more.
NothingLeaks ==
    stopped \notin {"start", "cleanup", "teardown"} => Cardinality(left) =< lost

\* A candidate has a coverage delta exactly if it and the existing tests passed with
\* valid coverage: the last candidate as the first, because the settings of the
\* baseline stay registered until all are executed (execute_candidates).
DeltasConsistent ==
    \A c \in Candidate : evidence[c] # NoEvidence =>
        (evidence[c].delta <=>
            /\ evidence[Baseline] # NoEvidence
            /\ \A s \in {c, Baseline} : evidence[s].exit = 0 /\ evidence[s].covered)

\* A command that hangs does not hang the run: the node ends, although the thread that
\* waits for the command need not (execute_command).
EventuallyEnds == <>(pc = "ended")

=============================================================================
