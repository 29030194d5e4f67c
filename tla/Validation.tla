----------------------------- MODULE Validation -----------------------------
(***************************************************************************)
(* validate_candidates_node (workflow/nodes.py): ValidationPipeline        *)
(* (validation/pipeline.py) sends every candidate through the syntax, the  *)
(* security and, where one is configured, the collection gate              *)
(* (validation/syntax.py, security.py, collection.py).  The last one       *)
(* writes the candidate to a staging area (execution/staging.py) and lets  *)
(* pytest collect it in a container.                                       *)
(*                                                                         *)
(* Calls to Docker and to the file system may fail, and the user may press *)
(* Ctrl-C.  How a command ends in its container is Execution's subject.    *)
(***************************************************************************)
EXTENDS Integers, FiniteSets

CONSTANTS Generated,  \* the candidates of the state
          MaxErrors,  \* bound: calls that raise
          MaxLost     \* bound: calls that leave something behind

ASSUME ValidationAssumption == MaxErrors \in Nat /\ MaxLost \in Nat

VARIABLES
    \* How the pipeline was built, and what it is given.
    gate3,        \* there is a _collection_validator
    defects,      \* of each candidate's code
    quarantined,  \* candidates that generation has given up
    \* validate_candidates.
    waiting,      \* candidates not begun
    results,      \* statuses of the results list, by candidate
    outcome,      \* how the node ends
    \* The candidate at hand: locals of validate.
    candidate, pc,
    failed,       \* exec_error, or a StagingValidationError on its way
    area,         \* the directory created_staging_dir
    container,    \* state of its container
    known,        \* container_id is not None
    rawResult,    \* raw_result
    \* History and bounds.
    collected,    \* candidates a container of theirs collected a test of
    left,         \* what candidates left behind
    stopped,      \* where Ctrl-C was pressed
    errors, lost

given   == <<gate3, defects, quarantined>>
node    == <<waiting, results, outcome>>
box     == <<area, container, known, rawResult>>
history == <<collected, left, stopped>>
counts  == <<errors, lost>>
vars    == <<given, node, candidate, pc, failed, box, history, counts>>

-----------------------------------------------------------------------------
(* Data *)

NoCandidate == "none"

\* Code that does not parse, that does what the policy forbids, that parses but nests
\* too deeply for an ast.NodeVisitor (as a sum of some hundred terms does), that is
\* empty.
Defect == {"syntax", "policy", "nesting", "empty"}

NoStatus == "none"

ValidationStatus ==
    {"QUARANTINED", "REJECTED_SYNTAX", "REJECTED_SECURITY", "REJECTED_COLLECTION", "PASSED"}

NoResult == [exit |-> -1, items |-> FALSE]

\* Tests collected, pytest failed, timeout, out of memory; whether the output names
\* an item.
ExecutionRawResult == [exit: {0, 2, 124, 137}, items: BOOLEAN]

\* Where the candidate stands in validate_candidate and in the calls it makes.
Line == {"next", "quarantine", "syntax", "security", "directory", "area", "stage", "create",
         "start", "exec", "cleanup", "remove", "verdict", "ended"}

NodeOK ==
    /\ gate3 \in BOOLEAN
    /\ defects \in [Generated -> SUBSET Defect]
    /\ quarantined \subseteq Generated /\ waiting \subseteq Generated
    /\ results \in [Generated -> ValidationStatus \cup {NoStatus}]
    /\ outcome \in {"running", "returned", "raised", "interrupted"}

CandidateOK ==
    /\ candidate \in Generated \cup {NoCandidate}
    /\ pc \in Line
    /\ failed \in BOOLEAN
    /\ area \in {"absent", "empty", "staged"}
    /\ container \in {"absent", "created", "up"}
    /\ known \in BOOLEAN
    /\ rawResult \in ExecutionRawResult \cup {NoResult}

HistoryOK ==
    /\ collected \subseteq Generated
    /\ left \subseteq Generated \X {"directory", "code", "container"}
    /\ stopped \in Line \cup {"nowhere"}
    /\ errors \in 0..MaxErrors /\ lost \in 0..MaxLost

TypeOK == NodeOK /\ CandidateOK /\ HistoryOK

-----------------------------------------------------------------------------
(* Faults *)

\* A call raises.
Raises == errors < MaxErrors /\ errors' = errors + 1

\* A call fails and leaves something behind that nobody goes after.
Loses == lost < MaxLost /\ lost' = lost + 1

-----------------------------------------------------------------------------
(* validate_candidate *)

\* A mutant: quarantined candidates are validated like the others.
BeginWithGates(c) ==
    /\ pc = "next" /\ c \in waiting
    /\ waiting' = waiting \ {c}
    /\ candidate' = c
    /\ failed' = FALSE /\ area' = "absent"
    /\ container' = "absent" /\ known' = FALSE /\ rawResult' = NoResult
    /\ pc' = "syntax"
    /\ UNCHANGED <<given, results, outcome, history, counts>>

Begin(c) ==
    /\ pc = "next" /\ c \in waiting
    /\ waiting' = waiting \ {c}
    /\ candidate' = c
    /\ failed' = FALSE /\ area' = "absent"
    /\ container' = "absent" /\ known' = FALSE /\ rawResult' = NoResult
    /\ pc' = IF c \in quarantined THEN "quarantine" ELSE "syntax"
    /\ UNCHANGED <<given, results, outcome, history, counts>>

\* A mutant: the candidate is listed as it was.
VerdictForgotten(status) ==
    /\ results' = [results EXCEPT ![candidate] = "PENDING"]
    /\ pc' = "next"

\* The candidate's place in the list is taken.
Verdict(status) ==
    /\ results' = [results EXCEPT ![candidate] = status]
    /\ pc' = "next"

Quarantined ==
    /\ pc = "quarantine"
    /\ Verdict("QUARANTINED")
    /\ UNCHANGED <<given, waiting, outcome, candidate, failed, box, history, counts>>

\* Gate 1: whatever ast.parse raises, the candidate is rejected.
SyntaxGate ==
    /\ pc = "syntax"
    /\ IF "syntax" \in defects[candidate]
       THEN Verdict("REJECTED_SYNTAX")
       ELSE pc' = "security" /\ UNCHANGED results
    /\ UNCHANGED <<given, waiting, outcome, candidate, failed, box, history, counts>>

\* An exception leaves the node: the list is lost.
Abort ==
    /\ outcome' = "raised" /\ pc' = "ended"
    /\ UNCHANGED results

\* Gate 2, the last one of a pipeline without sandbox.  Only a SyntaxError is caught:
\* the visitor's RecursionError is not.
SecurityGate ==
    /\ pc = "security"
    /\ \/ /\ "nesting" \in defects[candidate]
          /\ Abort
       \/ /\ "nesting" \notin defects[candidate]
          /\ "policy" \in defects[candidate]
          /\ Verdict("REJECTED_SECURITY") /\ UNCHANGED outcome
       \/ /\ defects[candidate] \cap {"nesting", "policy"} = {}
          /\ IF gate3 THEN pc' = "directory" /\ UNCHANGED results ELSE Verdict("PASSED")
          /\ UNCHANGED outcome
    /\ UNCHANGED <<given, waiting, candidate, failed, box, history, counts>>

-----------------------------------------------------------------------------
(* CollectionValidator.validate *)

\* mkdtemp, outside the try block.
CreateDirectory ==
    /\ pc = "directory"
    /\ \/ /\ area' = "empty" /\ pc' = "area"
          /\ UNCHANGED <<results, outcome, errors>>
       \/ /\ Raises
          /\ Abort
          /\ UNCHANGED area
    /\ UNCHANGED <<given, waiting, candidate, failed, container, known, rawResult, history,
                   lost>>

\* A mutant: the area is constructed before the try block.
MarkAreaOutside ==
    /\ pc = "area"
    /\ \/ pc' = "stage" /\ UNCHANGED <<results, outcome, errors>>
       \/ Raises /\ Abort
    /\ UNCHANGED <<given, waiting, candidate, failed, box, history, lost>>

\* CandidateStagingArea marks the directory as its own.
MarkArea ==
    /\ pc = "area"
    /\ \/ pc' = "stage" /\ UNCHANGED <<failed, errors>>
       \/ Raises /\ failed' = TRUE /\ pc' = "remove"
    /\ UNCHANGED <<given, node, candidate, box, history, lost>>

\* A mutant: empty code is staged as well.
StageAny ==
    /\ pc = "stage"
    /\ \/ /\ area' = "staged" /\ pc' = "create"
          /\ UNCHANGED <<failed, errors>>
       \/ /\ Raises /\ area' \in {"empty", "staged"}
          /\ failed' = TRUE /\ pc' = "remove"
    /\ UNCHANGED <<given, node, candidate, container, known, rawResult, history, lost>>

\* stage_candidate_for_collection accepts no code without text.
StageForCollection ==
    /\ pc = "stage"
    /\ \/ /\ "empty" \notin defects[candidate]
          /\ area' = "staged" /\ pc' = "create"
          /\ UNCHANGED <<failed, errors>>
       \/ /\ \/ "empty" \in defects[candidate] /\ UNCHANGED <<area, errors>>
             \/ "empty" \notin defects[candidate] /\ Raises /\ area' \in {"empty", "staged"}
          /\ failed' = TRUE /\ pc' = "remove"
    /\ UNCHANGED <<given, node, candidate, container, known, rawResult, history, lost>>

\* containers.create raises: the daemon may have made the container all the same.
CreateUnanswered ==
    \/ UNCHANGED <<container, lost>>
    \/ container' = "created" /\ Loses

CreateContainer ==
    /\ pc = "create"
    /\ \/ /\ container' = "created" /\ pc' = "start"
          /\ UNCHANGED <<failed, counts>>
       \/ /\ Raises
          /\ CreateUnanswered
          /\ failed' = TRUE /\ pc' = "remove"
    /\ UNCHANGED <<given, node, candidate, area, known, rawResult, history>>

\* A mutant: a container that does not start stays.
StartContainerOnly ==
    /\ pc = "start"
    /\ \/ /\ container' = "up" /\ known' = TRUE /\ pc' = "exec"
          /\ UNCHANGED <<failed, counts>>
       \/ /\ Raises
          /\ failed' = TRUE /\ pc' = "remove"
          /\ UNCHANGED <<container, known, lost>>
    /\ UNCHANGED <<given, node, candidate, area, rawResult, history>>

\* create_environment removes a container it cannot hand out.
StartContainer ==
    /\ pc = "start"
    /\ \/ /\ container' = "up" /\ known' = TRUE /\ pc' = "exec"
          /\ UNCHANGED <<failed, counts>>
       \/ /\ Raises
          /\ \/ container' = "absent" /\ UNCHANGED lost
             \/ Loses /\ UNCHANGED container
          /\ failed' = TRUE /\ pc' = "remove"
          /\ UNCHANGED known
    /\ UNCHANGED <<given, node, candidate, area, rawResult, history>>

\* pytest --collect-only.
Collect ==
    /\ pc = "exec"
    /\ \/ /\ rawResult' \in ExecutionRawResult
          /\ collected' = IF rawResult' = [exit |-> 0, items |-> TRUE]
                          THEN collected \cup {candidate} ELSE collected
          /\ UNCHANGED <<failed, errors>>
       \/ /\ Raises
          /\ failed' = TRUE
          /\ UNCHANGED <<rawResult, collected>>
    /\ pc' = "cleanup"
    /\ UNCHANGED <<given, node, candidate, area, container, known, left, stopped, lost>>

\* The finally clause: the container first.
CleanupContainer ==
    /\ pc = "cleanup"
    /\ \/ container' = "absent" /\ UNCHANGED lost
       \/ Loses /\ UNCHANGED container
    /\ known' = FALSE
    /\ pc' = "remove"
    /\ UNCHANGED <<given, node, candidate, failed, area, rawResult, history, errors>>

\* What is still there when validate is left.
Leave(directory) ==
    left' = left \cup ({candidate} \X
        ((IF directory = "absent" THEN {}
          ELSE IF directory = "empty" THEN {"directory"} ELSE {"code"})
         \cup IF container = "absent" THEN {} ELSE {"container"}))

\* Then the directory, by the area's cleanup or, without an area, by rmtree.
RemoveDirectory ==
    /\ pc = "remove"
    /\ \/ Leave("absent") /\ UNCHANGED lost
       \/ Loses /\ Leave(area)
    /\ area' = "absent"
    /\ IF outcome = "running" THEN pc' = "verdict" ELSE pc' = "ended"
    /\ UNCHANGED <<given, node, candidate, failed, container, known, rawResult, collected,
                   stopped, errors>>

\* A mutant: the exit code alone decides.
CollectionGateByExit ==
    /\ pc = "verdict"
    /\ Verdict(IF ~failed /\ rawResult.exit = 0 THEN "PASSED" ELSE "REJECTED_COLLECTION")
    /\ UNCHANGED <<given, waiting, outcome, candidate, failed, box, history, counts>>

\* An error, a timeout, lack of memory, a failing pytest and an empty collection are
\* all told apart in the message only.
CollectionGate ==
    /\ pc = "verdict"
    /\ Verdict(IF ~failed /\ rawResult = [exit |-> 0, items |-> TRUE]
               THEN "PASSED" ELSE "REJECTED_COLLECTION")
    /\ UNCHANGED <<given, waiting, outcome, candidate, failed, box, history, counts>>

-----------------------------------------------------------------------------
(* Specification *)

Return ==
    /\ pc = "next" /\ waiting = {}
    /\ outcome' = "returned" /\ pc' = "ended"
    /\ UNCHANGED <<given, waiting, results, candidate, failed, box, history, counts>>

\* Ctrl-C: KeyboardInterrupt is no Exception, so that only the finally clause runs.
\* One that interrupts the finally clause ends it; one in mkdtemp may come after the
\* directory is there and before anybody knows of it.
Interrupt ==
    /\ pc # "ended" /\ stopped = "nowhere"
    /\ stopped' = pc
    /\ outcome' = "interrupted"
    /\ \/ /\ pc = "directory"
          /\ Leave("absent") \/ Leave("empty")
          /\ pc' = "ended"
       \/ /\ pc \in {"next", "quarantine", "syntax", "security", "verdict"}
          /\ pc' = "ended" /\ UNCHANGED left
       \/ /\ pc \in {"cleanup", "remove"}
          /\ Leave("absent") \/ Leave(area)
          /\ pc' = "ended"
       \/ /\ pc \in {"area", "stage", "create", "start", "exec"}
          /\ pc' = IF known THEN "cleanup" ELSE "remove"
          /\ UNCHANGED left
    /\ UNCHANGED <<given, waiting, results, candidate, failed, box, collected, counts>>

Done == pc = "ended" /\ UNCHANGED vars

Init ==
    /\ gate3 \in BOOLEAN
    /\ defects \in [Generated -> SUBSET Defect]
    /\ quarantined \in SUBSET Generated
    /\ waiting = Generated
    /\ results = [c \in Generated |-> NoStatus]
    /\ outcome = "running"
    /\ candidate = NoCandidate /\ pc = "next" /\ failed = FALSE
    /\ area = "absent" /\ container = "absent" /\ known = FALSE /\ rawResult = NoResult
    /\ collected = {} /\ left = {} /\ stopped = "nowhere"
    /\ errors = 0 /\ lost = 0

StaticGates == Quarantined \/ SyntaxGate \/ SecurityGate

ValidateCollection ==
    \/ CreateDirectory \/ MarkArea \/ StageForCollection
    \/ CreateContainer \/ StartContainer \/ Collect
    \/ CleanupContainer \/ RemoveDirectory \/ CollectionGate

Next ==
    \/ \E c \in Generated : Begin(c)
    \/ StaticGates \/ ValidateCollection
    \/ Return \/ Interrupt \/ Done

Spec == Init /\ [][Next]_vars
-----------------------------------------------------------------------------
(* Properties *)

\* The first gate of those configured that refuses a candidate, after the two static
\* ones, of which one may raise instead.
StatusOf(c) ==
    IF c \in quarantined THEN "QUARANTINED"
    ELSE IF "syntax" \in defects[c] THEN "REJECTED_SYNTAX"
    ELSE IF "policy" \in defects[c] THEN "REJECTED_SECURITY"
    ELSE IF gate3 /\ c \notin collected THEN "REJECTED_COLLECTION"
    ELSE "PASSED"

\* The list has the status of the first gate that refuses a candidate.  Where there is
\* a collection gate, and only there, PASSED means that a container of the candidate's
\* own collected a test of it, whatever failed before or after, for this candidate or
\* an earlier one (validate_candidate, CollectionValidator.validate).
VerdictsFollowGates ==
    \A c \in Generated : results[c] # NoStatus => results[c] = StatusOf(c)

Screened(c) == c \notin quarantined /\ defects[c] = {}

\* Code that a static gate refuses, that generation gave up or that is empty is never
\* written to disk and never gets a container, nor does it stay there (INV-01,
\* stage_candidate_for_collection).
OnlyScreenedStaged ==
    /\ area = "staged" \/ container # "absent" => Screened(candidate)
    /\ \A item \in left : item[2] # "directory" => Screened(item[1])

\* "Clean teardown: container and staging directories destroyed on all termination
\* paths": what outlives its candidate is due to one failed call each, of a cleanup or
\* of the container's creation, whatever raised before; only Ctrl-C during mkdtemp, provisioning or the cleanup
\* itself leaves more.
NothingLeaks ==
    stopped \notin {"directory", "start", "cleanup", "remove"} =>
        /\ Cardinality(left) =< lost
        /\ pc \in {"next", "ended"} => area = "absent"

\* A node that raises, which costs every candidate its verdict, has not got as far as
\* the disk or Docker with the candidate it raises for: their failures are verdicts.
AbortLeavesNothing ==
    outcome = "raised" =>
        /\ area = "absent" /\ container = "absent"
        /\ \A item \in left : item[1] # candidate

Workflow == INSTANCE WorkflowData WITH Proc <- {}, Symbol <- Generated

\* The candidates of a WorkflowState, whose model knows one status for the rejected.
Candidates(status) ==
    [candidates |-> {[id |-> c, status |-> status[c]] : c \in Generated}]

Given == [c \in Generated |-> IF c \in quarantined THEN "QUARANTINED" ELSE "PENDING"]

Returned ==
    [c \in Generated |->
        IF results[c] \in {"QUARANTINED", "PASSED", NoStatus} THEN results[c] ELSE "REJECTED"]

\* The node does to the candidates what the workflow's model of it does, for those that
\* are sound by the gates: none is lost, none that was quarantined is revived.
NodeIsAfterValidate ==
    outcome = "returned" =>
        Candidates(Returned) =
            Workflow!AfterValidate(Candidates(Given),
                                   {c \in Generated : StatusOf(c) = "PASSED"})

-----------------------------------------------------------------------------
(* What documentation says, and the code does not do *)

\* validation/pipeline.py, ValidationPipeline: "A candidate with ValidationStatus.PASSED
\* indicates that both static syntax/security checks and containerized collection
\* screening have passed."
PassedMeansCollected ==
    \A c \in Generated : results[c] = "PASSED" => c \in collected
=============================================================================
