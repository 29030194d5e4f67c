-------------------------- MODULE CognitionProofs --------------------------
(***************************************************************************)
(* For any number of symbols and any budget, retries, repairs and          *)
(* restarts: what requests a run may cost, why a symbol may be given up,   *)
(* and which engine may blame whom.                                        *)
(***************************************************************************)
EXTENDS Cognition, TLAPS

-----------------------------------------------------------------------------
(* Arithmetic of the nested loops *)

\* Requests that r whole calls of generate_structured may cost.
Cap(r) == r * (MaxRetries + 1)

LEMMA CapStep ==
    ASSUME NEW r \in Nat
    PROVE  Cap(r) \in Nat /\ Cap(0) = 0 /\ Cap(r + 1) = Cap(r) + MaxRetries + 1
BY CognitionAssumption DEF Cap

LEMMA CapMonotone ==
    ASSUME NEW r \in Nat, NEW q \in Nat, r =< q
    PROVE  Cap(r) =< Cap(q)
<1>1. PICK d \in Nat : q = r + d
  <2>1. q - r \in Nat /\ q = r + (q - r)
    OBVIOUS
  <2>2. QED
    BY <2>1
<1>2. d * (MaxRetries + 1) \in Nat
  BY CognitionAssumption
<1>3. Cap(q) = Cap(r) + d * (MaxRetries + 1)
  BY <1>1, CognitionAssumption DEF Cap
<1>4. QED
  BY <1>2, <1>3, CognitionAssumption DEF Cap

-----------------------------------------------------------------------------
(* The inductive invariant *)

\* The tracker counts what the provider receives.
Counted ==
    /\ sent = total
    /\ total =< MaxRequests
    /\ ~permitted => sent = 0 /\ pc # "sent"

\* The turn of a symbol, or of an ambiguous failure.
Turns ==
    /\ pc = "next" => repairs = 0 /\ attempts = 0 /\ asked = 0
    /\ pc = "call" => attempts =< MaxRetries
    /\ stage = "generate" => waiting \subseteq Symbol /\ (pc # "next" => task \in Symbol)
    /\ stage = "diagnose" =>
         /\ repairs = 0
         /\ pc # "next" => task \in Subject /\ verdicts[task] = Ambiguous
    /\ stage = "done" => pc = "next"

\* Every round of the repair loop but the last has cost a request, unless none was
\* left, and none has cost more than its attempts.
Rounds ==
    /\ asked =< Cap(repairs) + attempts
    /\ pc = "sent" => asked >= repairs + 1
    /\ stage = "generate" => asked >= repairs \/ total = MaxRequests \/ ~permitted

\* Generation comes before diagnosis.
Staged == stage = "generate" => \A e \in Subject : diagnoses[e] = Undiagnosed

Safe == CostBounded /\ QuarantineHasCause /\ DiagnosisSound

IInv == TypeOK /\ Counted /\ Turns /\ Rounds /\ Staged /\ Safe

-----------------------------------------------------------------------------
(* A subject's turn ends *)

\* What a candidate must say to be appended.
LEMMA PackageOK ==
    ASSUME IInv, stage = "generate", pc # "next", stage' = stage,
           NEW status \in {"PENDING", "EXHAUSTED_GENERATION_REPAIRS"},
           NEW refused \in BOOLEAN, Package(task, status, repairs, refused), EndTurn,
           UNCHANGED <<verdicts, diagnoses, permitted, waiting, total, sent, earlier, restarts>>,
           status = "EXHAUSTED_GENERATION_REPAIRS" =>
               /\ repairs = MaxRepairs
               /\ asked >= MaxRepairs + 1 \/ total = MaxRequests \/ ~permitted
    PROVE  IInv'
<1> DEFINE c == [status |-> status, retry |-> repairs, asked |-> asked, refused |-> refused]
<1>1. task \in Symbol /\ candidates' = [candidates EXCEPT ![task] = c]
  BY DEF IInv, Turns, Package
<1>2. asked =< Cap(MaxRepairs + 1)
  <2>1. repairs \in Nat /\ repairs =< MaxRepairs /\ attempts =< MaxRetries + 1 /\ asked \in Nat
        /\ attempts \in Nat
    BY CognitionAssumption DEF IInv, TypeOK
  <2>2. Cap(repairs) =< Cap(MaxRepairs) /\ Cap(MaxRepairs) \in Nat /\ Cap(repairs) \in Nat
        /\ Cap(MaxRepairs + 1) = Cap(MaxRepairs) + MaxRetries + 1
    BY <2>1, CapStep, CapMonotone, CognitionAssumption
  <2>3. asked =< Cap(repairs) + attempts
    BY DEF IInv, Rounds
  <2>4. QED
    BY <2>1, <2>2, <2>3, CognitionAssumption
<1>3. TypeOK'
  <2>1. c \in TestCandidate
    BY CognitionAssumption DEF IInv, TypeOK, TestCandidate
  <2>2. QED
    BY <1>1, <2>1, CognitionAssumption DEF IInv, TypeOK, EndTurn
<1>4. Counted' /\ Turns'
  BY DEF IInv, Counted, Turns, EndTurn
<1>5. Rounds'
  BY CapStep, CognitionAssumption DEF IInv, Rounds, EndTurn
<1>6. Staged' /\ DiagnosisSound'
  BY DEF IInv, Staged, Safe, DiagnosisSound
<1>7. CostBounded'
  <2>1. \A s \in Symbol : candidates'[s] = c \/ candidates'[s] = candidates[s]
    BY <1>1 DEF IInv, TypeOK
  <2>2. \A s \in Symbol : candidates'[s].asked =< (MaxRepairs + 1) * (MaxRetries + 1)
    BY <1>2, <2>1 DEF IInv, Safe, CostBounded, Cap
  <2>3. QED
    BY <2>2 DEF IInv, Safe, CostBounded
<1>8. QuarantineHasCause'
  <2>1. \A s \in Symbol : candidates'[s] = c \/ candidates'[s] = candidates[s]
    BY <1>1 DEF IInv, TypeOK
  <2>2. repairs =< MaxRepairs
    BY CognitionAssumption DEF IInv, TypeOK
  <2>3. QED
    BY <2>1, <2>2 DEF IInv, Safe, QuarantineHasCause
<1>9. QED
  BY <1>3, <1>4, <1>5, <1>6, <1>7, <1>8 DEF IInv, Safe

\* What a diagnosis must say to be appended; `waiting` is free to shrink, since the
\* rules' diagnoses begin and end in one step.
LEMMA DiagnoseOK ==
    ASSUME IInv, stage = "diagnose", stage' = stage,
           NEW e \in Subject, NEW category \in Category,
           NEW engine \in {"DETERMINISTIC_RULE", "COGNITIVE_LLM"},
           Diagnose(e, category, engine),
           pc' = "next", task' \in Subject \cup {NoTask},
           repairs' = 0, lastError' = "NONE", attempts' = 0, asked' = 0,
           waiting' \subseteq Subject,
           UNCHANGED <<candidates, verdicts, permitted, total, sent, earlier, restarts>>,
           engine = "DETERMINISTIC_RULE" =>
               verdicts[e] \in Deterministic /\ category = verdicts[e],
           engine = "COGNITIVE_LLM" =>
               verdicts[e] = Ambiguous /\ category \notin Reserved
    PROVE  IInv'
<1> DEFINE d == [category |-> category, engine |-> engine,
                 bug |-> engine = "COGNITIVE_LLM" /\ category = "APPLICATION_BUG",
                 asked |-> IF engine = "COGNITIVE_LLM" THEN asked ELSE 0]
<1>1. diagnoses' = [diagnoses EXCEPT ![e] = d]
  BY DEF Diagnose
<1>2. d \in FailureDiagnosis
  <2>1. (engine = "COGNITIVE_LLM" /\ category = "APPLICATION_BUG") \in BOOLEAN
    OBVIOUS
  <2>2. (IF engine = "COGNITIVE_LLM" THEN asked ELSE 0) \in Nat
    BY DEF IInv, TypeOK
  <2>3. QED
    BY <2>1, <2>2 DEF FailureDiagnosis
<1>3. \A f \in Subject : diagnoses'[f] = diagnoses[f] \/ (f = e /\ diagnoses'[f] = d)
  BY <1>1 DEF IInv, TypeOK
<1>4. TypeOK'
  BY <1>1, <1>2, CognitionAssumption DEF IInv, TypeOK
<1>5. Counted' /\ Turns' /\ Staged' /\ QuarantineHasCause'
  BY DEF IInv, Counted, Turns, Staged, Safe, QuarantineHasCause
<1>6. Rounds'
  BY CapStep, CognitionAssumption DEF IInv, Rounds
<1>7. CostBounded'
  <2>1. asked =< MaxRetries + 1
    BY CapStep, CognitionAssumption DEF IInv, TypeOK, Turns, Rounds
  <2>2. d.asked =< IF d.engine = "COGNITIVE_LLM" THEN MaxRetries + 1 ELSE 0
    BY <2>1
  <2>3. QED
    BY <1>3, <2>2 DEF IInv, Safe, CostBounded
<1>8. DiagnosisSound'
  <2>1. /\ d.category \in Reserved => verdicts[e] = d.category
        /\ d.bug <=> d.category = "APPLICATION_BUG"
        /\ d.bug => verdicts[e] = Ambiguous
        /\ verdicts[e] \in Deterministic => d.category \in {"NOT_YET", verdicts[e]}
    BY DEF Deterministic, Ambiguous
  <2>2. QED
    BY <1>3, <2>1 DEF IInv, Safe, DiagnosisSound
<1>9. QED
  BY <1>4, <1>5, <1>6, <1>7, <1>8 DEF IInv, Safe

-----------------------------------------------------------------------------
(* A call raises *)

LEMMA SynthesisFailedOK ==
    ASSUME IInv, stage = "generate", stage' = stage, pc # "next",
           NEW error \in Failure, SynthesisFailed(error),
           pc = "sent" \/ total = MaxRequests \/ ~permitted,
           UNCHANGED <<verdicts, diagnoses, permitted, waiting, total, sent, earlier, restarts>>
    PROVE  IInv'
<1>1. asked >= repairs + 1 \/ total = MaxRequests \/ ~permitted
  BY DEF IInv, Rounds
<1>2. repairs \in Nat /\ MaxRepairs \in Nat /\ repairs =< MaxRepairs /\ asked \in Nat
      /\ attempts \in Nat /\ attempts =< MaxRetries + 1 /\ MaxRetries \in Nat
  BY CognitionAssumption DEF IInv, TypeOK
<1>3. CASE repairs + 1 > MaxRepairs
  <2>1. Package(task, "EXHAUSTED_GENERATION_REPAIRS", repairs, error = "Refusal") /\ EndTurn
    BY <1>3 DEF SynthesisFailed
  <2>2. repairs = MaxRepairs
    BY <1>2, <1>3
  <2>3. (error = "Refusal") \in BOOLEAN
    OBVIOUS
  <2>4. QED
    BY <1>1, <2>1, <2>2, <2>3, PackageOK
<1>4. CASE ~(repairs + 1 > MaxRepairs)
  <2>1. /\ repairs' = repairs + 1 /\ lastError' = error /\ attempts' = 0 /\ pc' = "call"
        /\ UNCHANGED <<candidates, task, asked>>
    BY <1>4 DEF SynthesisFailed
  <2>2. TypeOK'
    BY <1>2, <1>4, <2>1 DEF IInv, TypeOK, Failure
  <2>3. Counted' /\ Turns' /\ Staged' /\ Safe'
    BY <1>2, <2>1 DEF IInv, Counted, Turns, Staged, Safe, CostBounded, QuarantineHasCause,
       DiagnosisSound
  <2>4. Rounds'
    <3>1. asked =< Cap(repairs + 1)
      BY <1>2, CapStep DEF IInv, Rounds
    <3>2. asked' =< Cap(repairs') + attempts'
      BY <1>2, <2>1, <3>1, CapStep
    <3>3. QED
      BY <1>1, <1>2, <2>1, <3>2 DEF IInv, Rounds
  <2>5. QED
    BY <2>2, <2>3, <2>4 DEF IInv
<1>5. QED
  BY <1>3, <1>4

LEMMA CallFailsOK ==
    ASSUME IInv, stage' = stage, pc # "next", NEW error \in Failure, CallFails(error),
           pc = "sent" \/ total = MaxRequests \/ ~permitted,
           UNCHANGED <<verdicts, permitted, waiting, total, sent, earlier, restarts>>
    PROVE  IInv'
<1>1. CASE stage = "generate" /\ SynthesisFailed(error) /\ UNCHANGED diagnoses
  BY <1>1, SynthesisFailedOK
<1>2. CASE /\ stage = "diagnose"
           /\ Diagnose(task, "LLM_FAILURE", "COGNITIVE_LLM")
           /\ EndTurn
           /\ UNCHANGED candidates
  <2>1. task \in Subject /\ verdicts[task] = Ambiguous /\ waiting \subseteq Subject
    BY <1>2 DEF IInv, TypeOK, Turns
  <2>2. "LLM_FAILURE" \in Category \ Reserved
    BY DEF Category, Reserved, Deterministic
  <2>3. QED
    BY <1>2, <2>1, <2>2, DiagnoseOK DEF EndTurn
<1>3. QED
  BY <1>1, <1>2 DEF CallFails

-----------------------------------------------------------------------------
(* The invariant *)

LEMMA InitIInv == Init => IInv
<1> SUFFICES ASSUME Init PROVE IInv
  OBVIOUS
<1>1. TypeOK
  BY CognitionAssumption DEF Init, TypeOK, Subject
<1>2. Counted /\ Turns /\ Staged
  BY CognitionAssumption DEF Init, Counted, Turns, Staged
<1>3. Rounds
  BY CapStep DEF Init, Rounds
<1>4. CostBounded /\ QuarantineHasCause /\ DiagnosisSound
  <2>1. 0 =< (MaxRepairs + 1) * (MaxRetries + 1)
    BY CapStep, CognitionAssumption DEF Cap
  <2>2. QED
    BY <2>1, CognitionAssumption DEF Init, CostBounded, QuarantineHasCause, DiagnosisSound, NotYet,
       Undiagnosed, Reserved, Deterministic, NotFailed
<1>5. QED
  BY <1>1, <1>2, <1>3, <1>4 DEF IInv, Safe

LEMMA NextIInv == IInv /\ [Next]_vars => IInv'
<1> SUFFICES ASSUME IInv, [Next]_vars PROVE IInv'
  OBVIOUS
<1> USE CognitionAssumption
<1>1. ASSUME NEW s \in Symbol, BeginSymbol(s) PROVE IInv'
  <2>1. TypeOK' /\ Counted' /\ Turns' /\ Staged' /\ Safe'
    BY <1>1 DEF IInv, BeginSymbol, Begin, Ask, TypeOK, Counted, Turns, Staged, Safe,
       CostBounded, QuarantineHasCause, DiagnosisSound, run, Subject
  <2>2. Rounds'
    BY <1>1, CapStep DEF IInv, BeginSymbol, Begin, Ask, Rounds
  <2>3. QED
    BY <2>1, <2>2 DEF IInv
<1>2. ASSUME NEW s \in Symbol, ContextTooLarge(s) PROVE IInv'
  <2> DEFINE c == [status |-> "CONTEXT_BUDGET_EXCEEDED", retry |-> 0, asked |-> 0,
                   refused |-> FALSE]
  <2>1. c \in TestCandidate /\ 0 =< (MaxRepairs + 1) * (MaxRetries + 1)
    BY CapStep DEF TestCandidate, Cap
  <2>2. candidates' = [candidates EXCEPT ![s] = c]
    BY <1>2 DEF ContextTooLarge
  <2>3. TypeOK'
    BY <1>2, <2>1, <2>2 DEF IInv, ContextTooLarge, Begin, TypeOK
  <2>4. Counted' /\ Turns' /\ Staged' /\ DiagnosisSound'
    BY <1>2 DEF IInv, ContextTooLarge, Begin, Counted, Turns, Staged, Safe, DiagnosisSound
  <2>5. Rounds'
    BY <1>2, CapStep DEF IInv, ContextTooLarge, Begin, Rounds
  <2>6. \A x \in Symbol : candidates'[x] = c \/ candidates'[x] = candidates[x]
    BY <2>2 DEF IInv, TypeOK
  <2>7. CostBounded' /\ QuarantineHasCause'
    BY <1>2, <2>1, <2>6 DEF IInv, Safe, ContextTooLarge, CostBounded, QuarantineHasCause
  <2>8. QED
    BY <2>3, <2>4, <2>5, <2>7 DEF IInv, Safe
<1>3. ASSUME NEW e \in Subject, DiagnoseByRule(e) PROVE IInv'
  <2>1. pc' = "next" /\ task' \in Subject \cup {NoTask} /\ waiting' \subseteq Subject
    BY <1>3 DEF DiagnoseByRule, Begin, IInv, TypeOK
  <2>2. verdicts[e] \in Category
    BY <1>3 DEF DiagnoseByRule, Category
  <2>3. QED
    BY <1>3, <2>1, <2>2, DiagnoseOK DEF DiagnoseByRule, Begin
<1>4. ASSUME NEW e \in Subject, DiagnoseByModel(e) PROVE IInv'
  <2>1. TypeOK' /\ Counted' /\ Turns' /\ Staged' /\ Safe'
    BY <1>4 DEF IInv, DiagnoseByModel, Begin, Ask, TypeOK, Counted, Turns, Staged, Safe,
       CostBounded, QuarantineHasCause, DiagnosisSound, run
  <2>2. Rounds'
    BY <1>4, CapStep DEF IInv, DiagnoseByModel, Begin, Ask, Rounds
  <2>3. QED
    BY <2>1, <2>2 DEF IInv
<1>5. CASE GateClosed
  BY <1>5, CallFailsOK DEF GateClosed, Failure
<1>6. CASE BudgetExceeded
  <2>1. total = MaxRequests
    BY <1>6 DEF BudgetExceeded, OverBudget, IInv, TypeOK, Counted
  <2>2. QED
    BY <1>6, <2>1, CallFailsOK DEF BudgetExceeded, Failure
<1>7. CASE Dispatch
  <2>1. total \in Nat /\ sent \in Nat /\ asked \in Nat /\ attempts \in Nat /\ repairs \in Nat
        /\ attempts =< MaxRetries /\ total < MaxRequests
    BY <1>7 DEF IInv, TypeOK, Turns, Dispatch, OverBudget
  <2>2. TypeOK'
    BY <1>7, <2>1 DEF Dispatch, IInv, TypeOK, run
  <2>3. Counted' /\ Turns' /\ Staged' /\ CostBounded' /\ DiagnosisSound'
    BY <1>7, <2>1 DEF Dispatch, IInv, Counted, Turns, Staged, Safe, CostBounded,
       DiagnosisSound, run
  <2>4. Rounds'
    <3>1. /\ asked' = asked + 1 /\ attempts' = attempts + 1 /\ total' = total + 1
          /\ repairs' = repairs /\ permitted /\ permitted' = permitted /\ stage' = stage
      BY <1>7 DEF Dispatch, run
    <3>2. Cap(repairs) \in Nat /\ Cap(repairs') = Cap(repairs)
      BY <2>1, <3>1, CapStep
    <3>3. asked' =< Cap(repairs') + attempts'
      BY <2>1, <3>1, <3>2 DEF IInv, Rounds
    <3>4. stage \in {"generate", "diagnose"} /\ (stage = "diagnose" => repairs = 0)
      BY <1>7 DEF Dispatch, IInv, TypeOK, Turns
    <3>5. asked >= repairs
      BY <2>1, <3>1, <3>4 DEF IInv, Rounds
    <3>6. QED
      BY <2>1, <3>1, <3>3, <3>5 DEF Rounds
  <2>5. QuarantineHasCause'
    BY <1>7, <2>1 DEF Dispatch, IInv, Safe, QuarantineHasCause, run
  <2>6. QED
    BY <2>2, <2>3, <2>4, <2>5 DEF IInv, Safe
<1>8. CASE TransportError
  <2>1. CASE AttemptsLeft
    <3>1. /\ pc' = "call" /\ pc = "sent"
          /\ UNCHANGED <<run, task, repairs, lastError, attempts, asked, permitted, waiting,
                         total, sent, earlier, restarts>>
      BY <1>8, <2>1 DEF TransportError
    <3>2. attempts =< MaxRetries
      BY <2>1 DEF AttemptsLeft, IInv, TypeOK
    <3>3. TypeOK' /\ Counted' /\ Turns' /\ Rounds' /\ Staged' /\ Safe'
      BY <3>1, <3>2 DEF IInv, TypeOK, Counted, Turns, Rounds, Staged, Safe, CostBounded,
         QuarantineHasCause, DiagnosisSound, run
    <3>4. QED
      BY <3>3 DEF IInv
  <2>2. CASE ~AttemptsLeft
    <3>1. CallFails("LLMCommunicationError") /\ pc = "sent"
          /\ UNCHANGED <<stage, verdicts, permitted, waiting, total, sent, earlier, restarts>>
      BY <1>8, <2>2 DEF TransportError
    <3>2. QED
      BY <3>1, CallFailsOK DEF Failure
  <2>3. QED
    BY <2>1, <2>2
<1>9. ASSUME NEW error \in Failure \ {"SyntaxError"}, Rejected(error)
      PROVE  IInv'
  BY <1>9, CallFailsOK DEF Rejected
<1>10. CASE BrokenSyntax
  BY <1>10, SynthesisFailedOK DEF BrokenSyntax, Failure
<1>11. CASE Synthesized
  BY <1>11, PackageOK DEF Synthesized
<1>12. ASSUME NEW category \in Category, NEW confident \in BOOLEAN,
              Classified(category, confident)
       PROVE  IInv'
  <2>1. task \in Subject /\ verdicts[task] = Ambiguous /\ waiting \subseteq Subject
    BY <1>12 DEF IInv, TypeOK, Turns, Classified
  <2>2. Judge(category, confident) \in Category \ Reserved
    BY DEF Judge, Category, Reserved, Deterministic
  <2>3. QED
    BY <1>12, <2>1, <2>2, DiagnoseOK DEF Classified, EndTurn
<1>13. CASE Checkpointed
  <2>1. PICK v \in [Subject -> Deterministic \cup {Ambiguous, NotFailed}] :
            verdicts' = v /\ waiting' = {e \in Subject : v[e] # NotFailed}
    BY <1>13 DEF Checkpointed
  <2>2. TypeOK'
    BY <1>13, <2>1 DEF Checkpointed, IInv, TypeOK, traffic
  <2>3. Counted' /\ Turns' /\ Rounds' /\ Staged'
    BY <1>13 DEF Checkpointed, IInv, Counted, Turns, Rounds, Staged, traffic
  <2>4. CostBounded' /\ QuarantineHasCause'
    BY <1>13 DEF Checkpointed, IInv, Safe, CostBounded, QuarantineHasCause
  <2>5. DiagnosisSound'
    BY <1>13 DEF Checkpointed, IInv, Staged, DiagnosisSound, Undiagnosed, Reserved
  <2>6. QED
    BY <2>2, <2>3, <2>4, <2>5 DEF IInv, Safe
<1>14. CASE Reported
  BY <1>14 DEF Reported, IInv, TypeOK, Counted, Turns, Rounds, Staged, Safe, CostBounded,
     QuarantineHasCause, DiagnosisSound, memory, traffic
<1>15. CASE Restart
  <2>1. TypeOK'
    <3>1. Failed \subseteq Subject /\ Symbol \subseteq Subject
      BY DEF Failed, Subject
    <3>2. QED
      BY <1>15, <3>1 DEF Restart, EndTurn, IInv, TypeOK
  <2>2. Counted' /\ Staged'
    BY <1>15 DEF Restart, EndTurn, IInv, Counted, Staged, TypeOK
  <2>3. Turns'
    BY <1>15 DEF Restart, EndTurn, IInv, Turns
  <2>4. Rounds'
    BY <1>15, CapStep DEF Restart, EndTurn, IInv, Rounds
  <2>5. CASE stage = "generate"
    <3>1. candidates' = [s \in Symbol |-> NotYet] /\ UNCHANGED <<stage, verdicts, diagnoses>>
      BY <1>15, <2>5 DEF Restart
    <3>2. 0 =< (MaxRepairs + 1) * (MaxRetries + 1)
      BY CapStep DEF Cap
    <3>3. QED
      BY <2>1, <2>2, <2>3, <2>4, <3>1, <3>2 DEF IInv, Safe, CostBounded, QuarantineHasCause,
         DiagnosisSound, NotYet
  <2>6. CASE stage # "generate"
    <3>1. diagnoses' = [e \in Subject |-> Undiagnosed]
          /\ UNCHANGED <<stage, verdicts, candidates>>
      BY <1>15, <2>6 DEF Restart
    <3>2. QED
      BY <2>1, <2>2, <2>3, <2>4, <2>6, <3>1 DEF IInv, Safe, CostBounded, QuarantineHasCause,
         DiagnosisSound, Undiagnosed, Reserved
  <2>7. QED
    BY <2>5, <2>6
<1>16. CASE UNCHANGED vars
  BY <1>16 DEF vars, run, memory, traffic, IInv, TypeOK, Counted, Turns, Rounds, Staged, Safe,
     CostBounded, QuarantineHasCause, DiagnosisSound
<1>17. QED
  BY <1>1, <1>2, <1>3, <1>4, <1>5, <1>6, <1>7, <1>8, <1>9, <1>10, <1>11, <1>12, <1>13, <1>14,
     <1>15, <1>16 DEF Next, Work, Turn, Answer, Done

LEMMA SpecIInv == Spec => []IInv
BY InitIInv, NextIInv, PTL DEF Spec

-----------------------------------------------------------------------------
(* The requests of the processes before *)

Budgets(n) == n * MaxRequests

Earlier == earlier =< Budgets(restarts)

LEMMA BudgetsStep ==
    ASSUME NEW n \in Nat
    PROVE  Budgets(n) \in Nat /\ Budgets(n + 1) = Budgets(n) + MaxRequests
<1>1. n * MaxRequests \in Nat
  BY CognitionAssumption
<1>2. (n + 1) * MaxRequests = n * MaxRequests + MaxRequests
  BY CognitionAssumption
<1>3. QED
  BY <1>1, <1>2 DEF Budgets

\* Only a restart touches what has been spent before, and it adds at most one budget.
LEMMA SpecEarlier == Spec => []Earlier
<1>1. Init => Earlier
  <2>1. Budgets(0) = 0
    BY CognitionAssumption DEF Budgets
  <2>2. QED
    BY <2>1 DEF Init, Earlier
<1>2. IInv /\ Earlier /\ [Next]_vars => Earlier'
  <2> SUFFICES ASSUME IInv, Earlier, [Next]_vars PROVE Earlier'
    OBVIOUS
  <2>1. CASE Restart
    <3>1. restarts \in Nat /\ earlier \in Nat /\ sent \in Nat /\ sent =< MaxRequests
      BY DEF IInv, TypeOK, Counted
    <3>2. restarts' = restarts + 1 /\ earlier' = earlier + sent
      BY <2>1 DEF Restart
    <3>3. Budgets(restarts) \in Nat /\ Budgets(restarts + 1) = Budgets(restarts) + MaxRequests
      BY <3>1, BudgetsStep
    <3>4. QED
      BY <3>1, <3>2, <3>3, CognitionAssumption DEF Earlier
  <2>2. CASE UNCHANGED <<earlier, restarts>>
    BY <2>2 DEF Earlier
  <2>3. Restart \/ UNCHANGED <<earlier, restarts>>
    BY DEF Next, Work, Turn, Answer, Done, BeginSymbol, ContextTooLarge, DiagnoseByRule,
       DiagnoseByModel, GateClosed, BudgetExceeded, Dispatch, TransportError, BrokenSyntax,
       Synthesized, Rejected, Classified, Checkpointed, Reported, traffic, vars
  <2>4. QED
    BY <2>1, <2>2, <2>3
<1>3. QED
  BY <1>1, <1>2, SpecIInv, PTL DEF Spec

-----------------------------------------------------------------------------
(* Theorems *)

\* The services' memory and the run's state keep their types.
THEOREM CognitionTypes == Spec => []TypeOK
BY SpecIInv, PTL DEF IInv

\* No process sends more requests than its budget, and none with the gate closed,
\* whatever the loops of repairs and attempts do; a run sends at most one budget more
\* for each time it is resumed (RunBudgetTracker.record_preflight).
THEOREM BudgetHolds == Spec => []BudgetRespected
<1>1. IInv /\ Earlier => BudgetRespected
  <2> SUFFICES ASSUME IInv, Earlier PROVE BudgetRespected
    OBVIOUS
  <2>1. sent =< MaxRequests /\ (~permitted => sent = 0)
    BY DEF IInv, Counted
  <2>2. restarts \in Nat /\ earlier \in Nat /\ sent \in Nat
    BY DEF IInv, TypeOK
  <2>3. Budgets(restarts) \in Nat /\ Budgets(restarts + 1) = Budgets(restarts) + MaxRequests
    BY <2>2, BudgetsStep
  <2>4. earlier + sent =< Budgets(restarts + 1)
    BY <2>1, <2>2, <2>3, CognitionAssumption DEF Earlier
  <2>5. QED
    BY <2>1, <2>4 DEF Budgets, BudgetRespected
<1>2. QED
  BY <1>1, SpecIInv, SpecEarlier, PTL

\* A symbol costs at most (MaxRepairs + 1) * (MaxRetries + 1) requests, a diagnosis by
\* the model MaxRetries + 1, one by the rules none.
THEOREM CostHolds == Spec => []CostBounded
BY SpecIInv, PTL DEF IInv, Safe

\* A symbol is quarantined for exhausted repairs only after a refusal or MaxRepairs + 1
\* requests, or when the process has no request left or may send none.
THEOREM QuarantineIsJustified == Spec => []QuarantineHasCause
BY SpecIInv, PTL DEF IInv, Safe

\* The engines keep to what each may say.
THEOREM DiagnosesAreSound == Spec => []DiagnosisSound
BY SpecIInv, PTL DEF IInv, Safe

=============================================================================
