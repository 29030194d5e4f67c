-------------------------- MODULE ValidationProofs --------------------------
(***************************************************************************)
(* For any number of candidates and faults, with and without the           *)
(* collection gate: what a verdict means, what is written to disk, what    *)
(* may stay there, and that the node is the one the workflow is modelled   *)
(* with.                                                                   *)
(***************************************************************************)
EXTENDS Validation, FiniteSetTheorems, TLAPS

-----------------------------------------------------------------------------
(* The inductive invariant *)

\* Places of validate_candidate before the sandbox is touched, in the collection gate,
\* and there before a command was executed.
Untouched == {"quarantine", "syntax", "security", "directory"}

Boxed == {"directory", "area", "stage", "create", "start", "exec", "cleanup", "remove", "verdict"}

Unanswered == {"directory", "area", "stage", "create", "start", "exec"}

\* What the gates passed so far have made sure of.
Gated ==
    /\ pc = "quarantine" => candidate \in quarantined
    /\ pc \in Boxed \cup {"syntax", "security"} => candidate \notin quarantined
    /\ pc \in Boxed \cup {"security"} => "syntax" \notin defects[candidate]
    /\ pc \in Boxed => gate3 /\ defects[candidate] \cap {"nesting", "policy"} = {}

\* Where the directory and the container can be.
Provisioned ==
    /\ pc \in Untouched \cup {"next", "verdict"} => area = "absent"
    /\ pc \in Untouched \cup {"area", "stage", "create"} => container = "absent"
    /\ pc = "exec" => known
    /\ pc \in {"create", "start", "exec"} => area = "staged"

Shape ==
    /\ TypeOK
    /\ pc \notin {"next", "ended"} => candidate \in Generated
    /\ outcome = "raised" \/ outcome = "returned" => pc = "ended"

\* Every candidate begun but the one at hand has its verdict, and it alone.
Listed ==
    /\ \A c \in waiting : results[c] = NoStatus
    /\ pc \notin {"next", "ended"} => candidate \notin waiting /\ results[candidate] = NoStatus
    /\ pc \notin {"ended"} =>
          \A c \in Generated \ waiting : pc = "next" \/ c # candidate => results[c] # NoStatus
    /\ outcome = "returned" => \A c \in Generated : results[c] # NoStatus

\* The candidate at hand is collected exactly if its result says so.
Answered ==
    /\ collected \cap waiting = {}
    /\ pc \in Unanswered \cup Untouched =>
          candidate \notin collected /\ ~failed /\ rawResult = NoResult
    /\ pc \in {"cleanup", "remove", "verdict"} =>
          (candidate \in collected <=> ~failed /\ rawResult = [exit |-> 0, items |-> TRUE])

Verdicts == Listed /\ Answered /\ VerdictsFollowGates

\* Only what was begun leaves something behind, and late.
LeftLate ==
    /\ \A item \in left : item[1] \notin waiting
    /\ pc \in Untouched \cup {"area"} => \A item \in left : item[1] # candidate

\* The container that is still there when the directory goes is paid for.
Paid ==
    /\ IsFiniteSet(left)
    /\ stopped \notin {"directory", "start", "cleanup", "remove"} =>
          /\ Cardinality(left) =< lost
          /\ pc = "remove" /\ container # "absent" => Cardinality(left) + 1 =< lost
          /\ pc = "ended" => area = "absent"

Sound == Shape /\ Gated /\ Provisioned

IInv ==
    Sound /\ Verdicts /\ OnlyScreenedStaged /\ LeftLate /\ AbortLeavesNothing /\ Paid
-----------------------------------------------------------------------------
(* Types *)

LEMMA SoundInit == Init => Sound
<1>1. Init => TypeOK
  <2>1. Init => NodeOK
    BY DEF Init, NodeOK
  <2>2. Init => CandidateOK
    BY DEF Init, CandidateOK, Line
  <2>3. Init => HistoryOK
    BY ValidationAssumption DEF Init, HistoryOK
  <2>4. QED
    BY <2>1, <2>2, <2>3 DEF TypeOK
<1>2. Init => Gated /\ Provisioned
  BY DEF Init, Gated, Provisioned, Boxed, Untouched
<1>3. QED
  BY <1>1, <1>2 DEF Init, Sound, Shape

LEMMA NodeStep == Shape /\ [Next]_vars => NodeOK'
<1> SUFFICES ASSUME Shape, [Next]_vars PROVE NodeOK'
  OBVIOUS
<1> USE DEF Shape, TypeOK, NodeOK, ValidationStatus, given, node, box, history, counts
<1>1. ASSUME NEW c \in Generated, Begin(c) PROVE NodeOK'
  BY <1>1 DEF Begin
<1>2. CASE Quarantined
  BY <1>2 DEF Quarantined, Verdict
<1>3. CASE SyntaxGate
  BY <1>3 DEF SyntaxGate, Verdict
<1>4. CASE SecurityGate
  BY <1>4 DEF SecurityGate, Verdict, Abort
<1>5. CASE CreateDirectory
  BY <1>5 DEF CreateDirectory, Abort, Raises
<1>6. CASE MarkArea
  BY <1>6 DEF MarkArea, Raises
<1>7. CASE StageForCollection
  BY <1>7 DEF StageForCollection, Raises
<1>8. CASE CreateContainer
  BY <1>8 DEF CreateContainer, CreateUnanswered, Loses, Raises
<1>9. CASE StartContainer
  BY <1>9 DEF StartContainer, Raises, Loses
<1>10. CASE Collect
  BY <1>10 DEF Collect, Raises
<1>11. CASE CleanupContainer
  BY <1>11 DEF CleanupContainer, Loses
<1>12. CASE RemoveDirectory
  BY <1>12 DEF RemoveDirectory, Leave, Loses
<1>13. CASE CollectionGate
  BY <1>13 DEF CollectionGate, Verdict
<1>14. CASE Return
  BY <1>14 DEF Return
<1>15. CASE Interrupt
  BY <1>15 DEF Interrupt, Leave
<1>16. CASE UNCHANGED vars
  BY <1>16 DEF vars
<1> HIDE DEF Shape, TypeOK, NodeOK, ValidationStatus, given, node, box, history, counts
<1>17. QED
  BY <1>1, <1>2, <1>3, <1>4, <1>5, <1>6, <1>7, <1>8, <1>9, <1>10, <1>11, <1>12, <1>13, <1>14, <1>15, <1>16
     DEF Next, StaticGates, ValidateCollection, Done

LEMMA CandidateStep == Shape /\ [Next]_vars => CandidateOK'
<1> SUFFICES ASSUME Shape, [Next]_vars PROVE CandidateOK'
  OBVIOUS
<1> USE DEF Shape, TypeOK, CandidateOK, Line, given, node, box, history, counts
<1>1. ASSUME NEW c \in Generated, Begin(c) PROVE CandidateOK'
  BY <1>1 DEF Begin
<1>2. CASE Quarantined
  BY <1>2 DEF Quarantined, Verdict
<1>3. CASE SyntaxGate
  BY <1>3 DEF SyntaxGate, Verdict
<1>4. CASE SecurityGate
  BY <1>4 DEF SecurityGate, Verdict, Abort
<1>5. CASE CreateDirectory
  BY <1>5 DEF CreateDirectory, Abort, Raises
<1>6. CASE MarkArea
  BY <1>6 DEF MarkArea, Raises
<1>7. CASE StageForCollection
  BY <1>7 DEF StageForCollection, Raises
<1>8. CASE CreateContainer
  BY <1>8 DEF CreateContainer, CreateUnanswered, Loses, Raises
<1>9. CASE StartContainer
  BY <1>9 DEF StartContainer, Raises, Loses
<1>10. CASE Collect
  BY <1>10 DEF Collect, Raises
<1>11. CASE CleanupContainer
  BY <1>11 DEF CleanupContainer, Loses
<1>12. CASE RemoveDirectory
  BY <1>12 DEF RemoveDirectory, Leave, Loses
<1>13. CASE CollectionGate
  BY <1>13 DEF CollectionGate, Verdict
<1>14. CASE Return
  BY <1>14 DEF Return
<1>15. CASE Interrupt
  BY <1>15 DEF Interrupt, Leave
<1>16. CASE UNCHANGED vars
  BY <1>16 DEF vars
<1> HIDE DEF Shape, TypeOK, CandidateOK, Line, given, node, box, history, counts
<1>17. QED
  BY <1>1, <1>2, <1>3, <1>4, <1>5, <1>6, <1>7, <1>8, <1>9, <1>10, <1>11, <1>12, <1>13, <1>14, <1>15, <1>16
     DEF Next, StaticGates, ValidateCollection, Done

PastOK ==
    /\ collected \subseteq Generated
    /\ left \subseteq Generated \X {"directory", "code", "container"}
    /\ stopped \in Line \cup {"nowhere"}

\* Faults are counted up to their bounds.
LEMMA CountsStep == HistoryOK /\ [Next]_vars => errors' \in 0..MaxErrors /\ lost' \in 0..MaxLost
<1> SUFFICES ASSUME HistoryOK, [Next]_vars PROVE errors' \in 0..MaxErrors /\ lost' \in 0..MaxLost
  OBVIOUS
<1>1. errors \in 0..MaxErrors /\ lost \in 0..MaxLost
  BY DEF HistoryOK
<1>2. Raises => errors' \in 0..MaxErrors
  BY <1>1, ValidationAssumption DEF Raises
<1>3. Loses => lost' \in 0..MaxLost
  BY <1>1, ValidationAssumption DEF Loses
<1>4. (Raises \/ errors' = errors) /\ (Loses \/ lost' = lost)
  <2>1. CASE \E c \in Generated : Begin(c)
    BY <2>1 DEF Begin, counts
  <2>2. CASE StaticGates
    BY <2>2 DEF StaticGates, Quarantined, SyntaxGate, SecurityGate, counts
  <2>3. CASE CreateDirectory \/ MarkArea \/ StageForCollection
    BY <2>3 DEF CreateDirectory, MarkArea, StageForCollection
  <2>4. CASE CreateContainer \/ StartContainer \/ Collect
    BY <2>4 DEF CreateContainer, CreateUnanswered, StartContainer, Collect, counts
  <2>5. CASE CleanupContainer \/ RemoveDirectory \/ CollectionGate
    BY <2>5 DEF CleanupContainer, RemoveDirectory, CollectionGate, counts
  <2>6. CASE Return \/ Interrupt \/ UNCHANGED vars
    BY <2>6 DEF Return, Interrupt, counts, vars
  <2>7. QED
    BY <2>1, <2>2, <2>3, <2>4, <2>5, <2>6 DEF Next, ValidateCollection, Done
<1>5. QED
  BY <1>1, <1>2, <1>3, <1>4

LEMMA HistoryStep == Shape /\ [Next]_vars => PastOK'
<1> SUFFICES ASSUME Shape, [Next]_vars PROVE PastOK'
  OBVIOUS
<1> USE DEF Shape, TypeOK, CandidateOK, HistoryOK, PastOK, Line, given, node, box, history, counts
<1>1. ASSUME NEW c \in Generated, Begin(c) PROVE PastOK'
  BY <1>1 DEF Begin
<1>2. CASE Quarantined
  BY <1>2 DEF Quarantined, Verdict
<1>3. CASE SyntaxGate
  BY <1>3 DEF SyntaxGate, Verdict
<1>4. CASE SecurityGate
  BY <1>4 DEF SecurityGate, Verdict, Abort
<1>5. CASE CreateDirectory
  BY <1>5 DEF CreateDirectory, Abort, Raises
<1>6. CASE MarkArea
  BY <1>6 DEF MarkArea, Raises
<1>7. CASE StageForCollection
  BY <1>7 DEF StageForCollection, Raises
<1>8. CASE CreateContainer
  BY <1>8 DEF CreateContainer, CreateUnanswered, Loses, Raises
<1>9. CASE StartContainer
  BY <1>9 DEF StartContainer, Raises, Loses
<1>10. CASE Collect
  BY <1>10 DEF Collect, Raises
<1>11. CASE CleanupContainer
  BY <1>11 DEF CleanupContainer, Loses
<1>12. CASE RemoveDirectory
  BY <1>12 DEF RemoveDirectory, Leave, Loses
<1>13. CASE CollectionGate
  BY <1>13 DEF CollectionGate, Verdict
<1>14. CASE Return
  BY <1>14 DEF Return
<1>15. CASE Interrupt
  BY <1>15 DEF Interrupt, Leave
<1>16. CASE UNCHANGED vars
  BY <1>16 DEF vars
<1> HIDE DEF Shape, TypeOK, CandidateOK, HistoryOK, PastOK, Line, given, node, box, history, counts
<1>17. QED
  BY <1>1, <1>2, <1>3, <1>4, <1>5, <1>6, <1>7, <1>8, <1>9, <1>10, <1>11, <1>12, <1>13, <1>14, <1>15, <1>16
     DEF Next, StaticGates, ValidateCollection, Done

LEMMA ShapeStep == Shape /\ [Next]_vars => Shape'
<1> SUFFICES ASSUME Shape, [Next]_vars PROVE Shape'
  OBVIOUS
<1>1. TypeOK'
  <2>1. HistoryOK'
    BY CountsStep, HistoryStep DEF Shape, TypeOK, HistoryOK, PastOK
  <2>2. QED
    BY <2>1, NodeStep, CandidateStep DEF TypeOK
<1>2. (pc \notin {"next", "ended"})' => candidate' \in Generated
  <2>1. CASE \E c \in Generated : Begin(c)
    BY <2>1 DEF Begin
  <2>2. CASE ~\E c \in Generated : Begin(c)
    <3>1. candidate' = candidate
      BY <2>2 DEF Next, StaticGates, Quarantined, SyntaxGate, SecurityGate, ValidateCollection,
         CreateDirectory, MarkArea, StageForCollection, CreateContainer, StartContainer, Collect,
         CleanupContainer, RemoveDirectory, CollectionGate, Return, Interrupt, Done, vars
    <3>2. pc \in {"next", "ended"} => pc' \in {"next", "ended"}
      BY <2>2 DEF Next, StaticGates, Quarantined, SyntaxGate, SecurityGate, ValidateCollection,
         CreateDirectory, MarkArea, StageForCollection, CreateContainer, StartContainer, Collect,
         CleanupContainer, RemoveDirectory, CollectionGate, Return, Interrupt, Done, vars
    <3>3. QED
      BY <3>1, <3>2 DEF Shape
  <2>3. QED
    BY <2>1, <2>2
<1>3. outcome' \in {"raised", "returned"} => pc' = "ended"
  BY DEF Shape, Next, Begin, StaticGates, Quarantined, SyntaxGate, SecurityGate, Abort,
     ValidateCollection, CreateDirectory, MarkArea, StageForCollection, CreateContainer,
     StartContainer, Collect, CleanupContainer, RemoveDirectory, CollectionGate, Return,
     Interrupt, Done, vars, node
<1>4. QED
  BY <1>1, <1>2, <1>3 DEF Shape

\* Every variable keeps its type.
THEOREM ValidationTypes == Spec => []TypeOK
<1>1. Init => Shape
  BY SoundInit DEF Sound
<1>2. Shape => TypeOK
  BY DEF Shape
<1>3. QED
  BY <1>1, <1>2, ShapeStep, PTL DEF Spec

-----------------------------------------------------------------------------
(* Places *)

LEMMA GatedStep == Shape /\ Gated /\ [Next]_vars => Gated'
<1> SUFFICES ASSUME Shape, Gated, [Next]_vars PROVE Gated'
  OBVIOUS
<1> USE DEF Gated, Boxed, given, node, box, history, counts
<1>1. ASSUME NEW c \in Generated, Begin(c) PROVE Gated'
  BY <1>1 DEF Begin
<1>2. CASE Quarantined
  BY <1>2 DEF Quarantined, Verdict
<1>3. CASE SyntaxGate
  BY <1>3 DEF SyntaxGate, Verdict
<1>4. CASE SecurityGate
  BY <1>4 DEF SecurityGate, Verdict, Abort
<1>5. CASE CreateDirectory
  BY <1>5 DEF CreateDirectory, Abort, Raises
<1>6. CASE MarkArea
  BY <1>6 DEF MarkArea, Raises
<1>7. CASE StageForCollection
  BY <1>7 DEF StageForCollection, Raises
<1>8. CASE CreateContainer
  BY <1>8 DEF CreateContainer, CreateUnanswered, Loses, Raises
<1>9. CASE StartContainer
  BY <1>9 DEF StartContainer, Raises, Loses
<1>10. CASE Collect
  BY <1>10 DEF Collect, Raises
<1>11. CASE CleanupContainer
  BY <1>11 DEF CleanupContainer, Loses
<1>12. CASE RemoveDirectory
  BY <1>12 DEF RemoveDirectory, Leave, Loses
<1>13. CASE CollectionGate
  BY <1>13 DEF CollectionGate, Verdict
<1>14. CASE Return
  BY <1>14 DEF Return
<1>15. CASE Interrupt
  BY <1>15 DEF Interrupt, Leave
<1>16. CASE UNCHANGED vars
  BY <1>16 DEF vars
<1> HIDE DEF Gated, Boxed, given, node, box, history, counts
<1>17. QED
  BY <1>1, <1>2, <1>3, <1>4, <1>5, <1>6, <1>7, <1>8, <1>9, <1>10, <1>11, <1>12, <1>13, <1>14, <1>15, <1>16
     DEF Next, StaticGates, ValidateCollection, Done

LEMMA ProvisionedStep == Shape /\ Provisioned /\ [Next]_vars => Provisioned'
<1> SUFFICES ASSUME Shape, Provisioned, [Next]_vars PROVE Provisioned'
  OBVIOUS
<1> USE DEF Provisioned, Untouched, given, node, box, history, counts
<1>1. ASSUME NEW c \in Generated, Begin(c) PROVE Provisioned'
  BY <1>1 DEF Begin
<1>2. CASE Quarantined
  BY <1>2 DEF Quarantined, Verdict
<1>3. CASE SyntaxGate
  BY <1>3 DEF SyntaxGate, Verdict
<1>4. CASE SecurityGate
  BY <1>4 DEF SecurityGate, Verdict, Abort
<1>5. CASE CreateDirectory
  BY <1>5 DEF CreateDirectory, Abort, Raises
<1>6. CASE MarkArea
  BY <1>6 DEF MarkArea, Raises
<1>7. CASE StageForCollection
  BY <1>7 DEF StageForCollection, Raises
<1>8. CASE CreateContainer
  BY <1>8 DEF CreateContainer, CreateUnanswered, Loses, Raises
<1>9. CASE StartContainer
  BY <1>9 DEF StartContainer, Raises, Loses
<1>10. CASE Collect
  BY <1>10 DEF Collect, Raises
<1>11. CASE CleanupContainer
  BY <1>11 DEF CleanupContainer, Loses
<1>12. CASE RemoveDirectory
  BY <1>12 DEF RemoveDirectory, Leave, Loses
<1>13. CASE CollectionGate
  BY <1>13 DEF CollectionGate, Verdict
<1>14. CASE Return
  BY <1>14 DEF Return
<1>15. CASE Interrupt
  BY <1>15 DEF Interrupt, Leave
<1>16. CASE UNCHANGED vars
  BY <1>16 DEF vars
<1> HIDE DEF Provisioned, Untouched, given, node, box, history, counts
<1>17. QED
  BY <1>1, <1>2, <1>3, <1>4, <1>5, <1>6, <1>7, <1>8, <1>9, <1>10, <1>11, <1>12, <1>13, <1>14, <1>15, <1>16
     DEF Next, StaticGates, ValidateCollection, Done

LEMMA SoundStep == Sound /\ [Next]_vars => Sound'
BY ShapeStep, GatedStep, ProvisionedStep DEF Sound

-----------------------------------------------------------------------------
(* Verdicts *)

LEMMA VerdictsInit == Init => Verdicts
BY DEF Init, Verdicts, Listed, Answered, VerdictsFollowGates, Untouched, Unanswered

LEMMA ListedStep == Shape /\ Listed /\ [Next]_vars => Listed'
<1> SUFFICES ASSUME Shape, Listed, [Next]_vars PROVE Listed'
  OBVIOUS
<1> USE DEF Shape, TypeOK, NodeOK, Listed, ValidationStatus, NoStatus, given, node, box, history, counts
<1>1. ASSUME NEW c \in Generated, Begin(c) PROVE Listed'
  BY <1>1 DEF Begin
<1>2. CASE Quarantined
  BY <1>2 DEF Quarantined, Verdict
<1>3. CASE SyntaxGate
  BY <1>3 DEF SyntaxGate, Verdict
<1>4. CASE SecurityGate
  BY <1>4 DEF SecurityGate, Verdict, Abort
<1>5. CASE CreateDirectory
  BY <1>5 DEF CreateDirectory, Abort, Raises
<1>6. CASE MarkArea
  BY <1>6 DEF MarkArea, Raises
<1>7. CASE StageForCollection
  BY <1>7 DEF StageForCollection, Raises
<1>8. CASE CreateContainer
  BY <1>8 DEF CreateContainer, CreateUnanswered, Loses, Raises
<1>9. CASE StartContainer
  BY <1>9 DEF StartContainer, Raises, Loses
<1>10. CASE Collect
  BY <1>10 DEF Collect, Raises
<1>11. CASE CleanupContainer
  BY <1>11 DEF CleanupContainer, Loses
<1>12. CASE RemoveDirectory
  BY <1>12 DEF RemoveDirectory, Leave, Loses
<1>13. CASE CollectionGate
  BY <1>13 DEF CollectionGate, Verdict
<1>14. CASE Return
  BY <1>14 DEF Return
<1>15. CASE Interrupt
  BY <1>15 DEF Interrupt, Leave
<1>16. CASE UNCHANGED vars
  BY <1>16 DEF vars
<1> HIDE DEF Shape, TypeOK, NodeOK, Listed, ValidationStatus, NoStatus, given, node, box, history, counts
<1>17. QED
  BY <1>1, <1>2, <1>3, <1>4, <1>5, <1>6, <1>7, <1>8, <1>9, <1>10, <1>11, <1>12, <1>13, <1>14, <1>15, <1>16
     DEF Next, StaticGates, ValidateCollection, Done

LEMMA AnsweredStep == Shape /\ Listed /\ Answered /\ [Next]_vars => Answered'
<1> SUFFICES ASSUME Shape, Listed, Answered, [Next]_vars PROVE Answered'
  OBVIOUS
<1> USE DEF Shape, TypeOK, CandidateOK, Answered, Untouched, Unanswered, NoResult, given, node, box, history, counts
<1>1. ASSUME NEW c \in Generated, Begin(c) PROVE Answered'
  BY <1>1 DEF Begin
<1>2. CASE Quarantined
  BY <1>2 DEF Quarantined, Verdict
<1>3. CASE SyntaxGate
  BY <1>3 DEF SyntaxGate, Verdict
<1>4. CASE SecurityGate
  BY <1>4 DEF SecurityGate, Verdict, Abort
<1>5. CASE CreateDirectory
  BY <1>5 DEF CreateDirectory, Abort, Raises
<1>6. CASE MarkArea
  BY <1>6 DEF MarkArea, Raises
<1>7. CASE StageForCollection
  BY <1>7 DEF StageForCollection, Raises
<1>8. CASE CreateContainer
  BY <1>8 DEF CreateContainer, CreateUnanswered, Loses, Raises
<1>9. CASE StartContainer
  BY <1>9 DEF StartContainer, Raises, Loses
<1>10. CASE Collect
  BY <1>10 DEF Collect, Raises, Listed
<1>11. CASE CleanupContainer
  BY <1>11 DEF CleanupContainer, Loses
<1>12. CASE RemoveDirectory
  BY <1>12 DEF RemoveDirectory, Leave, Loses
<1>13. CASE CollectionGate
  BY <1>13 DEF CollectionGate, Verdict
<1>14. CASE Return
  BY <1>14 DEF Return
<1>15. CASE Interrupt
  BY <1>15 DEF Interrupt, Leave
<1>16. CASE UNCHANGED vars
  BY <1>16 DEF vars
<1> HIDE DEF Shape, TypeOK, CandidateOK, Answered, Untouched, Unanswered, NoResult, given, node, box, history, counts
<1>17. QED
  BY <1>1, <1>2, <1>3, <1>4, <1>5, <1>6, <1>7, <1>8, <1>9, <1>10, <1>11, <1>12, <1>13, <1>14, <1>15, <1>16
     DEF Next, StaticGates, ValidateCollection, Done

\* A verdict stands as long as neither the list nor what it was based on changes.
LEMMA VerdictsKept ==
    ASSUME VerdictsFollowGates, UNCHANGED <<gate3, defects, quarantined, collected, results>>
    PROVE  VerdictsFollowGates'
BY DEF VerdictsFollowGates, StatusOf

\* A new verdict is the one StatusOf has for the candidate.
LEMMA VerdictGiven ==
    ASSUME Shape, VerdictsFollowGates, pc \notin {"next", "ended"},
           UNCHANGED <<gate3, defects, quarantined, collected>>,
           NEW status, status = StatusOf(candidate), Verdict(status)
    PROVE  VerdictsFollowGates'
<1>1. results \in [Generated -> ValidationStatus \cup {NoStatus}] /\ candidate \in Generated
  BY DEF Shape, TypeOK, NodeOK
<1>2. SUFFICES ASSUME NEW c \in Generated, results'[c] # NoStatus
               PROVE  results'[c] = StatusOf(c)'
  BY DEF VerdictsFollowGates
<1>3. StatusOf(c)' = StatusOf(c)
  BY DEF StatusOf
<1>4. CASE c = candidate
  BY <1>1, <1>3, <1>4 DEF Verdict
<1>5. CASE c # candidate
  BY <1>1, <1>2, <1>3, <1>5 DEF Verdict, VerdictsFollowGates
<1>6. QED
  BY <1>4, <1>5

LEMMA VerdictsFollowStep ==
    ASSUME Sound, Listed, Answered, VerdictsFollowGates, [Next]_vars
    PROVE  VerdictsFollowGates'
<1>1. Shape /\ Gated
  BY DEF Sound
<1>2. CASE \E c \in Generated : Begin(c)
  BY <1>2, VerdictsKept DEF Begin, given, history
<1>3. CASE Quarantined
  <2>1. StatusOf(candidate) = "QUARANTINED"
    BY <1>1, <1>3 DEF Quarantined, Gated, StatusOf
  <2>2. QED
    BY <1>1, <1>3, <2>1, VerdictGiven DEF Quarantined, given, history
<1>4. CASE SyntaxGate
  <2>1. CASE "syntax" \in defects[candidate]
    <3>1. StatusOf(candidate) = "REJECTED_SYNTAX"
      BY <1>1, <1>4, <2>1 DEF SyntaxGate, Gated, StatusOf
    <3>2. QED
      BY <1>1, <1>4, <2>1, <3>1, VerdictGiven DEF SyntaxGate, given, history
  <2>2. CASE "syntax" \notin defects[candidate]
    BY <1>4, <2>2, VerdictsKept DEF SyntaxGate, given, history
  <2>3. QED
    BY <2>1, <2>2
<1>5. CASE SecurityGate
  <2>1. UNCHANGED <<gate3, defects, quarantined, collected>> /\ pc = "security"
    BY <1>5 DEF SecurityGate, given, history
  <2>2. "syntax" \notin defects[candidate] /\ candidate \notin quarantined
    BY <1>1, <2>1 DEF Gated
  <2>3. CASE results' = results
    BY <2>1, <2>3, VerdictsKept
  <2>4. CASE "policy" \in defects[candidate] /\ Verdict("REJECTED_SECURITY")
    <3>1. StatusOf(candidate) = "REJECTED_SECURITY"
      BY <2>2, <2>4 DEF StatusOf
    <3>2. QED
      BY <1>1, <2>1, <2>4, <3>1, VerdictGiven
  <2>5. CASE /\ defects[candidate] \cap {"nesting", "policy"} = {}
             /\ ~gate3 /\ Verdict("PASSED")
    <3>1. StatusOf(candidate) = "PASSED"
      BY <2>2, <2>5 DEF StatusOf
    <3>2. QED
      BY <1>1, <2>1, <2>5, <3>1, VerdictGiven
  <2>6. QED
    BY <1>5, <2>3, <2>4, <2>5 DEF SecurityGate, Abort
<1>6. CASE CreateDirectory \/ MarkArea \/ StageForCollection
  BY <1>6, VerdictsKept
     DEF CreateDirectory, Abort, MarkArea, StageForCollection, given, node, history
<1>7. CASE CreateContainer \/ StartContainer
  BY <1>7, VerdictsKept DEF CreateContainer, CreateUnanswered, StartContainer, given, node, history
<1>8. CASE Collect
  <2>1. candidate \in Generated /\ results[candidate] = NoStatus
    BY <1>1, <1>8 DEF Collect, Shape, Listed
  <2>2. UNCHANGED <<gate3, defects, quarantined, results>>
    BY <1>8 DEF Collect, given, node
  <2>3. \A c \in Generated : c # candidate => (c \in collected' <=> c \in collected)
    BY <1>8 DEF Collect
  <2>4. \A c \in Generated : c # candidate => StatusOf(c)' = StatusOf(c)
    BY <2>2, <2>3 DEF StatusOf
  <2>5. QED
    BY <2>1, <2>2, <2>4 DEF VerdictsFollowGates
<1>9. CASE CleanupContainer \/ RemoveDirectory
  BY <1>9, VerdictsKept DEF CleanupContainer, RemoveDirectory, given, node, history
<1>10. CASE CollectionGate
  <2>1. StatusOf(candidate) =
          IF ~failed /\ rawResult = [exit |-> 0, items |-> TRUE]
          THEN "PASSED" ELSE "REJECTED_COLLECTION"
    BY <1>1, <1>10 DEF CollectionGate, Gated, Boxed, Answered, StatusOf
  <2>2. QED
    BY <1>1, <1>10, <2>1, VerdictGiven DEF CollectionGate, given, history
<1>11. CASE Return \/ Interrupt
  BY <1>11, VerdictsKept DEF Return, Interrupt, given, history
<1>12. CASE UNCHANGED vars
  BY <1>12, VerdictsKept DEF vars, given, node, history
<1>13. QED
  BY <1>2, <1>3, <1>4, <1>5, <1>6, <1>7, <1>8, <1>9, <1>10, <1>11, <1>12
     DEF Next, StaticGates, ValidateCollection, Done

LEMMA VerdictsStep == Sound /\ Verdicts /\ [Next]_vars => Verdicts'
BY ListedStep, AnsweredStep, VerdictsFollowStep DEF Sound, Verdicts

\* A verdict is that of the first gate that refuses the candidate, and with a collection
\* gate PASSED is said of collected candidates only: for any number of them.
THEOREM VerdictsHold == Spec => []VerdictsFollowGates
<1>1. Verdicts => VerdictsFollowGates
  BY DEF Verdicts
<1>2. QED
  BY <1>1, SoundInit, SoundStep, VerdictsInit, VerdictsStep, PTL DEF Spec

-----------------------------------------------------------------------------
(* What is on disk *)

\* What a candidate leaves is code only if code was staged.
LEMMA LeftBehind ==
    ASSUME NEW directory, Leave(directory), NEW item \in left', item \notin left
    PROVE  /\ item[1] = candidate
           /\ item[2] = "code" => directory \notin {"absent", "empty"}
           /\ item[2] \notin {"directory", "code"} => container # "absent"
BY DEF Leave

LEMMA OnDiskStep == Sound /\ OnlyScreenedStaged /\ [Next]_vars => OnlyScreenedStaged'
<1> SUFFICES ASSUME Sound, OnlyScreenedStaged, [Next]_vars PROVE OnlyScreenedStaged'
  OBVIOUS
<1> USE DEF OnlyScreenedStaged, Screened, given, node, box, history, counts
<1>1. ASSUME NEW c \in Generated, Begin(c) PROVE OnlyScreenedStaged'
  BY <1>1 DEF Begin
<1>2. CASE Quarantined
  BY <1>2 DEF Quarantined, Verdict
<1>3. CASE SyntaxGate
  BY <1>3 DEF SyntaxGate, Verdict
<1>4. CASE SecurityGate
  BY <1>4 DEF SecurityGate, Verdict, Abort
<1>5. CASE CreateDirectory
  BY <1>5 DEF CreateDirectory, Abort, Raises
<1>6. CASE MarkArea
  BY <1>6 DEF MarkArea, Raises
<1>7. CASE StageForCollection
  <2>1. candidate \in Generated /\ pc = "stage"
    BY <1>7 DEF StageForCollection, Sound, Shape
  <2>2. defects[candidate] \subseteq Defect
    BY <2>1 DEF Sound, Shape, TypeOK, NodeOK
  <2>3. "empty" \notin defects[candidate] => Screened(candidate)
    BY <2>1, <2>2 DEF Sound, Gated, Boxed, Defect
  <2>4. QED
    BY <1>7, <2>3 DEF StageForCollection, Raises, Sound, Provisioned
<1>8. CASE CreateContainer
  BY <1>8 DEF CreateContainer, CreateUnanswered, Loses, Sound, Provisioned
<1>9. CASE StartContainer
  BY <1>9 DEF StartContainer, Raises, Loses, Sound, Provisioned
<1>10. CASE Collect
  BY <1>10 DEF Collect, Raises
<1>11. CASE CleanupContainer
  BY <1>11 DEF CleanupContainer, Loses
<1>12. CASE RemoveDirectory
  <2>1. \E d \in {"absent", area} : Leave(d)
    BY <1>12 DEF RemoveDirectory
  <2>2. area \in {"absent", "empty", "staged"}
    BY DEF Sound, Shape, TypeOK, CandidateOK
  <2>3. \A item \in left' : item[2] # "directory" => item \in left \/ (item[1] = candidate /\ Screened(candidate))
    BY <2>1, <2>2, LeftBehind
  <2>4. QED
    BY <1>12, <2>3 DEF RemoveDirectory
<1>13. CASE CollectionGate
  BY <1>13 DEF CollectionGate, Verdict
<1>14. CASE Return
  BY <1>14 DEF Return
<1>15. CASE Interrupt
  <2>1. left' = left \/ \E d \in {"absent", "empty", area} : Leave(d)
    BY <1>15 DEF Interrupt
  <2>2. area \in {"absent", "empty", "staged"}
    BY DEF Sound, Shape, TypeOK, CandidateOK
  <2>3. \A item \in left' : item[2] # "directory" => item \in left \/ (item[1] = candidate /\ Screened(candidate))
    BY <2>1, <2>2, LeftBehind
  <2>4. QED
    BY <1>15, <2>3 DEF Interrupt
<1>16. CASE UNCHANGED vars
  BY <1>16 DEF vars
<1> HIDE DEF OnlyScreenedStaged, Screened, given, node, box, history, counts
<1>17. QED
  BY <1>1, <1>2, <1>3, <1>4, <1>5, <1>6, <1>7, <1>8, <1>9, <1>10, <1>11, <1>12, <1>13, <1>14, <1>15, <1>16
     DEF Next, StaticGates, ValidateCollection, Done

\* Nothing of a refused candidate is ever on disk or in a container.
THEOREM OnlyScreenedHolds == Spec => []OnlyScreenedStaged
<1>1. Init => OnlyScreenedStaged
  BY DEF Init, OnlyScreenedStaged
<1>2. QED
  BY <1>1, SoundInit, SoundStep, OnDiskStep, PTL DEF Spec

LEMMA LeftLateStep == Sound /\ Listed /\ LeftLate /\ [Next]_vars => LeftLate'
<1> SUFFICES ASSUME Sound, Listed, LeftLate, [Next]_vars PROVE LeftLate'
  OBVIOUS
<1> USE DEF LeftLate, Untouched, given, node, box, history, counts
<1>1. ASSUME NEW c \in Generated, Begin(c) PROVE LeftLate'
  BY <1>1 DEF Begin
<1>2. CASE Quarantined
  BY <1>2 DEF Quarantined, Verdict
<1>3. CASE SyntaxGate
  BY <1>3 DEF SyntaxGate, Verdict
<1>4. CASE SecurityGate
  BY <1>4 DEF SecurityGate, Verdict, Abort
<1>5. CASE CreateDirectory
  BY <1>5 DEF CreateDirectory, Abort, Raises
<1>6. CASE MarkArea
  BY <1>6 DEF MarkArea, Raises
<1>7. CASE StageForCollection
  BY <1>7 DEF StageForCollection, Raises
<1>8. CASE CreateContainer
  BY <1>8 DEF CreateContainer, CreateUnanswered, Loses, Raises
<1>9. CASE StartContainer
  BY <1>9 DEF StartContainer, Raises, Loses
<1>10. CASE Collect
  BY <1>10 DEF Collect, Raises
<1>11. CASE CleanupContainer
  BY <1>11 DEF CleanupContainer, Loses
<1>12. CASE RemoveDirectory
  <2>1. \E d \in {"absent", area} : Leave(d)
    BY <1>12 DEF RemoveDirectory
  <2>2. \A item \in left' : item \in left \/ item[1] = candidate
    BY <2>1, LeftBehind
  <2>3. QED
    BY <1>12, <2>2 DEF RemoveDirectory, Listed
<1>13. CASE CollectionGate
  BY <1>13 DEF CollectionGate, Verdict
<1>14. CASE Return
  BY <1>14 DEF Return
<1>15. CASE Interrupt
  <2>1. left' = left \/ \E d \in {"absent", "empty", area} : Leave(d)
    BY <1>15 DEF Interrupt
  <2>2. \A item \in left' : item \in left \/ (item[1] = candidate /\ pc \notin {"next", "ended"})
    BY <2>1, <1>15, LeftBehind DEF Interrupt
  <2>3. QED
    BY <1>15, <2>2 DEF Interrupt, Listed
<1>16. CASE UNCHANGED vars
  BY <1>16 DEF vars
<1> HIDE DEF LeftLate, Untouched, given, node, box, history, counts
<1>17. QED
  BY <1>1, <1>2, <1>3, <1>4, <1>5, <1>6, <1>7, <1>8, <1>9, <1>10, <1>11, <1>12, <1>13, <1>14, <1>15, <1>16
     DEF Next, StaticGates, ValidateCollection, Done

\* A node that raises does so before its candidate got as far as the disk.
LEMMA AbortStep ==
    ASSUME Sound, LeftLate, AbortLeavesNothing, [Next]_vars
    PROVE  AbortLeavesNothing'
<1>1. CASE outcome = "raised"
  <2>1. pc = "ended"
    BY <1>1 DEF Sound, Shape
  <2>2. UNCHANGED vars
    BY <2>1 DEF Next, Begin, StaticGates, Quarantined, SyntaxGate, SecurityGate,
       ValidateCollection, CreateDirectory, MarkArea, StageForCollection, CreateContainer,
       StartContainer, Collect, CleanupContainer, RemoveDirectory, CollectionGate, Return,
       Interrupt, Done
  <2>3. QED
    BY <2>2 DEF AbortLeavesNothing, vars, node, box, history
<1>2. CASE outcome # "raised" /\ (SecurityGate \/ CreateDirectory)
  <2>1. pc \in {"security", "directory"}
    BY <1>2 DEF SecurityGate, CreateDirectory
  <2>2. area = "absent" /\ container = "absent" /\ \A item \in left : item[1] # candidate
    BY <2>1 DEF Sound, Provisioned, LeftLate, Untouched
  <2>3. UNCHANGED <<candidate, container, left>>
    BY <1>2 DEF SecurityGate, CreateDirectory, box, history
  <2>4. outcome' = "raised" => area' = area
    BY <1>2 DEF SecurityGate, CreateDirectory, box
  <2>5. QED
    BY <2>2, <2>3, <2>4 DEF AbortLeavesNothing
<1>3. CASE outcome # "raised" /\ ~(SecurityGate \/ CreateDirectory)
  <2>1. outcome' # "raised"
    BY <1>3 DEF Next, Begin, StaticGates, Quarantined, SyntaxGate,
       ValidateCollection, MarkArea, StageForCollection, CreateContainer,
       StartContainer, Collect, CleanupContainer, RemoveDirectory, CollectionGate, Return,
       Interrupt, Done, vars, node
  <2>2. QED
    BY <2>1 DEF AbortLeavesNothing
<1>4. QED
  BY <1>1, <1>2, <1>3

\* The failures of the disk and of Docker never cost another candidate its verdict.
THEOREM AbortHolds == Spec => []AbortLeavesNothing
<1>1. Init => AbortLeavesNothing /\ LeftLate
  BY DEF Init, AbortLeavesNothing, LeftLate
<1>2. Sound /\ Verdicts /\ LeftLate /\ [Next]_vars => LeftLate'
  BY LeftLateStep DEF Verdicts
<1>3. QED
  BY <1>1, <1>2, SoundInit, SoundStep, VerdictsInit, VerdictsStep, AbortStep, PTL DEF Spec

-----------------------------------------------------------------------------
(* Cleanup *)

LEMMA PaidInit == Init => Paid
BY FS_EmptySet DEF Init, Paid

LEMMA OneMore ==
    ASSUME NEW S, NEW T, IsFiniteSet(S), NEW x, T = S \/ T = S \cup {x}
    PROVE  /\ IsFiniteSet(T)
           /\ Cardinality(S) \in Nat /\ Cardinality(T) \in Nat
           /\ Cardinality(T) =< Cardinality(S) + 1
<1>1. Cardinality(S) \in Nat
  BY FS_CardinalityType
<1>2. CASE T = S
  BY <1>1, <1>2
<1>3. CASE T = S \cup {x}
  BY <1>1, <1>3, FS_AddElement
<1>4. QED
  BY <1>2, <1>3

\* Nothing but the directory and the container can be left behind, each once.
LEMMA LeaveBounded ==
    ASSUME IsFiniteSet(left), NEW directory, Leave(directory)
    PROVE  /\ IsFiniteSet(left')
           /\ Cardinality(left') =< Cardinality(left) + 2
           /\ directory = "absent" \/ container = "absent" =>
                 Cardinality(left') =< Cardinality(left) + 1
           /\ directory = "absent" /\ container = "absent" => left' = left
<1> DEFINE part == IF directory = "empty" THEN "directory" ELSE "code"
           S == IF directory = "absent" THEN left ELSE left \cup {<<candidate, part>>}
<1>1. IsFiniteSet(S) /\ Cardinality(S) =< Cardinality(left) + 1
  BY OneMore
<1>2. container = "absent" => left' = S
  BY DEF Leave
<1>3. container # "absent" => left' = S \cup {<<candidate, "container">>}
  BY DEF Leave
<1>4. IsFiniteSet(left') /\ Cardinality(left') =< Cardinality(S) + 1
  BY <1>1, <1>2, <1>3, OneMore
<1>5. Cardinality(left) \in Nat /\ Cardinality(S) \in Nat /\ Cardinality(left') \in Nat
  BY <1>1, <1>4, FS_CardinalityType
<1>6. directory = "absent" => S = left
  OBVIOUS
<1> HIDE DEF S
<1>7. QED
  BY <1>1, <1>2, <1>4, <1>5, <1>6

\* A step that neither leaves nor loses anything keeps the account.
LEMMA PaidKept ==
    ASSUME Paid, UNCHANGED <<left, stopped, lost>>,
           pc' = "remove" => container' = "absent",
           pc' = "ended" => area' = "absent"
    PROVE  Paid'
BY DEF Paid

LEMMA PaidStep == Sound /\ Paid /\ [Next]_vars => Paid'
<1> SUFFICES ASSUME Sound, Paid, [Next]_vars PROVE Paid'
  OBVIOUS
<1>1. lost \in Nat /\ IsFiniteSet(left) /\ Cardinality(left) \in Nat
  BY FS_CardinalityType, ValidationAssumption DEF Sound, Shape, TypeOK, HistoryOK, Paid
<1>2. ASSUME NEW c \in Generated, Begin(c) PROVE Paid'
  BY <1>2, PaidKept DEF Begin, history, counts
<1>3. CASE StaticGates
  BY <1>3, PaidKept
     DEF StaticGates, Quarantined, SyntaxGate, SecurityGate, Verdict, Abort, Sound, Provisioned,
         Untouched, box, history, counts
<1>4. CASE CreateDirectory
  BY <1>4, PaidKept DEF CreateDirectory, Abort, Sound, Provisioned, Untouched, history
<1>5. CASE MarkArea \/ StageForCollection
  BY <1>5, PaidKept DEF MarkArea, StageForCollection, Sound, Provisioned, box, history
<1>6. CASE CreateContainer \/ StartContainer
  <2>1. UNCHANGED <<left, stopped, area>> /\ pc' \in {"start", "exec", "remove"}
        /\ (UNCHANGED lost \/ Loses)
    BY <1>6
       DEF CreateContainer, CreateUnanswered, StartContainer, history, counts
  <2>2. CASE UNCHANGED lost
    <3>1. pc' = "remove" => container' = "absent"
      BY <1>1, <1>6, <2>2
         DEF CreateContainer, CreateUnanswered, StartContainer, Loses, Sound, Provisioned
    <3>2. QED
      BY <2>1, <2>2, <3>1, PaidKept
  <2>3. CASE Loses
    BY <1>1, <2>1, <2>3 DEF Loses, Paid
  <2>4. QED
    BY <2>1, <2>2, <2>3
<1>7. CASE Collect
  BY <1>7, PaidKept DEF Collect
<1>8. CASE CleanupContainer
  <2>1. CASE UNCHANGED lost
    BY <1>8, <2>1, <1>1, PaidKept DEF CleanupContainer, Loses, history
  <2>2. CASE Loses
    BY <1>8, <2>2, <1>1 DEF CleanupContainer, Loses, Paid, history
  <2>3. QED
    BY <1>8, <2>1, <2>2 DEF CleanupContainer
<1>9. CASE RemoveDirectory
  <2>1. pc = "remove" /\ pc' # "remove" /\ area' = "absent" /\ stopped' = stopped
    BY <1>9 DEF RemoveDirectory
  <2>2. CASE Leave("absent") /\ UNCHANGED lost
    <3>1. IsFiniteSet(left') /\ Cardinality(left') =< Cardinality(left) + 1
      BY <1>1, <2>2, LeaveBounded
    <3>2. container = "absent" => left' = left
      BY <1>1, <2>2, LeaveBounded
    <3>3. Cardinality(left') \in Nat
      BY <3>1, FS_CardinalityType
    <3>4. QED
      BY <1>1, <2>1, <2>2, <3>1, <3>2, <3>3 DEF Paid
  <2>3. CASE Loses /\ Leave(area)
    <3>1. IsFiniteSet(left') /\ Cardinality(left') =< Cardinality(left) + 2
      BY <1>1, <2>3, LeaveBounded
    <3>2. container = "absent" => Cardinality(left') =< Cardinality(left) + 1
      BY <1>1, <2>3, LeaveBounded
    <3>3. Cardinality(left') \in Nat
      BY <3>1, FS_CardinalityType
    <3>4. QED
      BY <1>1, <2>1, <2>3, <3>1, <3>2, <3>3 DEF Paid, Loses
  <2>4. QED
    BY <1>9, <2>2, <2>3 DEF RemoveDirectory
<1>10. CASE CollectionGate \/ Return
  BY <1>10, PaidKept
     DEF CollectionGate, Verdict, Return, Sound, Provisioned, box, history, counts
<1>11. CASE Interrupt
  <2>1. lost' = lost /\ stopped' = pc /\ stopped = "nowhere" /\ UNCHANGED <<area, container>>
    BY <1>11 DEF Interrupt, box, counts
  <2>2. CASE pc \in {"directory", "start", "cleanup", "remove"}
    <3>1. IsFiniteSet(left')
      <4>1. CASE \E directory \in {"absent", "empty", area} : Leave(directory)
        BY <1>1, <4>1, LeaveBounded
      <4>2. CASE left' = left
        BY <1>1, <4>2
      <4>3. QED
        BY <1>11, <4>1, <4>2 DEF Interrupt
    <3>2. QED
      BY <2>1, <2>2, <3>1 DEF Paid
  <2>3. CASE pc \notin {"directory", "start", "cleanup", "remove"}
    <3>1. left' = left
      BY <1>11, <2>3 DEF Interrupt
    <3>2. pc' = "remove" => container = "absent"
      BY <1>11, <2>3 DEF Interrupt, Sound, Provisioned
    <3>3. pc' = "ended" => area = "absent"
      BY <1>11, <2>3 DEF Interrupt, Sound, Provisioned, Untouched
    <3>4. QED
      BY <2>1, <3>1, <3>2, <3>3 DEF Paid
  <2>4. QED
    BY <2>2, <2>3
<1>12. CASE UNCHANGED vars
  BY <1>12 DEF vars, Paid, box, history, counts
<1>13. QED
  BY <1>2, <1>3, <1>4, <1>5, <1>6, <1>7, <1>8, <1>9, <1>10, <1>11, <1>12
     DEF Next, ValidateCollection, Done

\* What outlives its candidate is due to as many failed calls of a cleanup.
THEOREM NoLeaksHolds == Spec => []NothingLeaks
<1>1. Paid /\ Sound => NothingLeaks
  BY DEF Paid, Sound, Provisioned, NothingLeaks
<1>2. QED
  BY <1>1, SoundInit, SoundStep, PaidInit, PaidStep, PTL DEF Spec

-----------------------------------------------------------------------------
(* The node of the workflow *)

\* A list without gaps, whose verdicts follow the gates, is what AfterValidate says.
LEMMA ListIsAfterValidate ==
    ASSUME VerdictsFollowGates, \A c \in Generated : results[c] # NoStatus
    PROVE  Candidates(Returned) =
             Workflow!AfterValidate(Candidates(Given),
                                    {c \in Generated : StatusOf(c) = "PASSED"})
<1> DEFINE sound == {c \in Generated : StatusOf(c) = "PASSED"}
           after(e) == [e EXCEPT !.status =
                          IF e.status = "QUARANTINED" THEN "QUARANTINED"
                          ELSE IF e.id \in sound THEN "PASSED" ELSE "REJECTED"]
           before(c) == [id |-> c, status |-> Given[c]]
<1>1. ASSUME NEW c \in Generated PROVE after(before(c)) = [id |-> c, status |-> Returned[c]]
  <2>1. results[c] = StatusOf(c)
    BY DEF VerdictsFollowGates
  <2>2. Given[c] = "QUARANTINED" <=> c \in quarantined
    BY DEF Given
  <2>3. Returned[c] = IF c \in quarantined THEN "QUARANTINED"
                      ELSE IF c \in sound THEN "PASSED" ELSE "REJECTED"
    BY <2>1 DEF Returned, StatusOf, NoStatus
  <2>4. QED
    BY <2>2, <2>3
<1>2. Candidates(Given) = [candidates |-> {before(c) : c \in Generated}]
  BY DEF Candidates
<1>3. Workflow!AfterValidate(Candidates(Given), sound) =
        [candidates |-> {after(e) : e \in {before(c) : c \in Generated}}]
  BY <1>2 DEF Workflow!AfterValidate
<1>4. {after(e) : e \in {before(c) : c \in Generated}} =
        {[id |-> c, status |-> Returned[c]] : c \in Generated}
  <2> HIDE DEF after, before
  <2>1. QED
    BY <1>1
<1>5. QED
  BY <1>3, <1>4 DEF Candidates

\* The node is the one the workflow is modelled with.
THEOREM NodeImplements == Spec => []NodeIsAfterValidate
<1>1. Verdicts => NodeIsAfterValidate
  BY ListIsAfterValidate DEF Verdicts, Listed, NodeIsAfterValidate
<1>2. QED
  BY <1>1, SoundInit, SoundStep, VerdictsInit, VerdictsStep, PTL DEF Spec

\* All of it, from one inductive invariant.
THEOREM ValidationSafe == Spec => []IInv
<1>1. Init => IInv
  BY SoundInit, VerdictsInit, PaidInit
     DEF Init, IInv, OnlyScreenedStaged, LeftLate, AbortLeavesNothing
<1>2. IInv /\ [Next]_vars => IInv'
  BY SoundStep, VerdictsStep, OnDiskStep, LeftLateStep, AbortStep, PaidStep DEF IInv, Verdicts
<1>3. QED
  BY <1>1, <1>2, PTL DEF Spec

=============================================================================
