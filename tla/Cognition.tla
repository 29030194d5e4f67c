----------------------------- MODULE Cognition -----------------------------
(***************************************************************************)
(* The two services that call the language model, and the gateway they     *)
(* share: test generation with its repairs (generation/service.py),        *)
(* diagnosis with its two engines (diagnosis/), and LiteLLMService with    *)
(* its transport attempts and its request budget                           *)
(* (generation/litellm_service.py), one gateway for both services as the   *)
(* live mode of cli/service_factory.py wires them.                         *)
(*                                                                         *)
(* A run generates a candidate for every symbol, executes what passed      *)
(* (elsewhere) and diagnoses what failed.  The process may die at any      *)
(* point; the run is then resumed by a new process, from the checkpoint    *)
(* before the stage, with new services.                                    *)
(***************************************************************************)
EXTENDS Integers

CONSTANTS Symbol,       \* plan.target_symbols
          Baseline,     \* the evidence of the existing tests
          MaxRequests,  \* RunBudgetTracker.max_requests
          MaxRetries,   \* LiteLLMService._max_retries
          MaxRepairs,   \* R_MAX_REPAIRS
          MaxRestarts   \* bound: how often the run is resumed

ASSUME CognitionAssumption ==
    /\ MaxRequests \in Nat \ {0}
    /\ MaxRetries \in Nat
    /\ MaxRepairs \in Nat
    /\ MaxRestarts \in Nat

VARIABLES
    \* The run, as its checkpoints keep it.
    stage,       \* the node that calls the model, or done
    candidates,  \* state.candidates, by symbol
    verdicts,    \* what the deterministic engine says of each failed evidence
    diagnoses,   \* state.diagnoses, by evidence
    \* The memory of the process.
    permitted,   \* the privacy gate is open and a key resolves: by default the
                 \* gateway's gate is closed, the live mode opens it
    waiting,     \* symbols, or evidence, whose turn has not come
    task,        \* target_symbol, or evidence
    pc,          \* what the process does next
    repairs,     \* repair_count
    lastError,   \* last_error_message, by what raised it
    attempts,    \* attempts of generate_structured
    total,       \* budget_tracker._total_requests
    \* What the provider has received.
    asked,       \* requests for the task at hand
    sent,        \* requests of this process
    earlier,     \* requests of the processes before it
    restarts     \* bound

run     == <<stage, candidates, verdicts, diagnoses>>
memory  == <<permitted, waiting, task, pc, repairs, lastError, attempts, total>>
traffic == <<asked, sent, earlier>>
vars    == <<run, memory, traffic, restarts>>

-----------------------------------------------------------------------------
(* Data *)

Subject == Symbol \cup {Baseline}

NoTask == "none"

\* An answered subject also records how many requests it took, and a candidate that
\* was given up whether a refusal came last.
NotYet == [status |-> "NOT_YET", retry |-> 0, asked |-> 0, refused |-> FALSE]

TestCandidate ==
    [status: {"PENDING", "CONTEXT_BUDGET_EXCEEDED", "EXHAUSTED_GENERATION_REPAIRS"},
     retry: Nat, asked: Nat, refused: BOOLEAN]

Deterministic == {"ENVIRONMENT_FAILURE", "CONFIGURATION_ERROR", "INVALID_GENERATED_TEST"}

Category == Deterministic \cup
    {"APPLICATION_BUG", "TEST_OUTDATED", "LLM_FAILURE", "UNKNOWN"}

\* Categories an answer of the model may not carry.
Reserved == {"ENVIRONMENT_FAILURE", "CONFIGURATION_ERROR"}

Ambiguous == "AMBIGUOUS"
NotFailed == "NOT_FAILED"

Undiagnosed == [category |-> "NOT_YET", engine |-> "NONE", bug |-> FALSE, asked |-> 0]

FailureDiagnosis ==
    [category: Category, engine: {"DETERMINISTIC_RULE", "COGNITIVE_LLM"},
     bug: BOOLEAN, asked: Nat]

\* A refusal is an LLMCommunicationError too; nothing but its message tells it apart.
Failure == {"LLMCommunicationError", "Refusal", "SchemaValidationError", "SyntaxError"}

Failed == {e \in Subject : verdicts[e] # NotFailed}

TypeOK ==
    /\ stage \in {"generate", "diagnose", "done"}
    /\ candidates \in [Symbol -> TestCandidate \cup {NotYet}]
    /\ verdicts \in [Subject -> Deterministic \cup {Ambiguous, NotFailed}]
    /\ diagnoses \in [Subject -> FailureDiagnosis \cup {Undiagnosed}]
    /\ permitted \in BOOLEAN
    /\ waiting \subseteq Subject
    /\ task \in Subject \cup {NoTask}
    /\ pc \in {"next", "call", "sent"}
    /\ repairs \in 0..MaxRepairs
    /\ lastError \in Failure \cup {"NONE"}
    /\ attempts \in 0..(MaxRetries + 1)
    /\ total \in Nat
    /\ asked \in Nat /\ sent \in Nat /\ earlier \in Nat
    /\ restarts \in 0..MaxRestarts

-----------------------------------------------------------------------------
(* A subject's turn *)

Begin(t) ==
    /\ pc = "next"
    /\ t \in waiting
    /\ waiting' = waiting \ {t}
    /\ repairs' = 0 /\ lastError' = "NONE" /\ attempts' = 0 /\ asked' = 0

\* generate_structured is called.
Ask(t) == task' = t /\ pc' = "call"

\* The subject has its answer: what belonged to its turn is gone.
EndTurn ==
    /\ task' = NoTask /\ pc' = "next"
    /\ repairs' = 0 /\ lastError' = "NONE" /\ attempts' = 0 /\ asked' = 0

Package(s, status, retry, refused) ==
    candidates' = [candidates EXCEPT ![s] =
        [status |-> status, retry |-> retry, asked |-> asked, refused |-> refused]]

Diagnose(e, category, engine) ==
    diagnoses' = [diagnoses EXCEPT ![e] =
        [category |-> category, engine |-> engine,
         bug |-> engine = "COGNITIVE_LLM" /\ category = "APPLICATION_BUG",
         asked |-> IF engine = "COGNITIVE_LLM" THEN asked ELSE 0]]

-----------------------------------------------------------------------------
(* GenerationService *)

\* ContextAssembler.assemble succeeds, and the first prompt is sent.
BeginSymbol(s) ==
    /\ stage = "generate"
    /\ Begin(s)
    /\ Ask(s)
    /\ UNCHANGED <<run, permitted, total, sent, earlier, restarts>>

\* The symbol's minimal context exceeds the token budget.
ContextTooLarge(s) ==
    /\ stage = "generate"
    /\ Begin(s)
    /\ candidates' = [candidates EXCEPT ![s] =
           [status |-> "CONTEXT_BUDGET_EXCEEDED", retry |-> 0, asked |-> 0, refused |-> FALSE]]
    /\ UNCHANGED <<stage, verdicts, diagnoses, permitted, task, pc, total, sent, earlier,
                   restarts>>

\* A mutant: the repair budget is tested before the attempt is counted.
SynthesisFailedOffByOne(error) ==
    IF repairs >= MaxRepairs - 1
    THEN /\ Package(task, "EXHAUSTED_GENERATION_REPAIRS", repairs, error = "Refusal")
         /\ EndTurn
    ELSE /\ repairs' = repairs + 1 /\ lastError' = error
         /\ attempts' = 0
         /\ pc' = "call"
         /\ UNCHANGED <<candidates, task, asked>>

\* The except clause of the repair loop.  repair_count is counted up before it is
\* compared, and the candidate's retry_count is one less.
SynthesisFailed(error) ==
    IF repairs + 1 > MaxRepairs
    THEN /\ Package(task, "EXHAUSTED_GENERATION_REPAIRS", repairs, error = "Refusal")
         /\ EndTurn
    ELSE /\ repairs' = repairs + 1 /\ lastError' = error
         /\ attempts' = 0
         /\ pc' = "call"
         /\ UNCHANGED <<candidates, task, asked>>

-----------------------------------------------------------------------------
(* DiagnosisService *)

\* The deterministic engine knows the failure: the model is not asked.
DiagnoseByRule(e) ==
    /\ stage = "diagnose"
    /\ verdicts[e] \in Deterministic
    /\ Begin(e)
    /\ Diagnose(e, verdicts[e], "DETERMINISTIC_RULE")
    /\ UNCHANGED <<stage, candidates, verdicts, permitted, task, pc, total, sent, earlier,
                   restarts>>

DiagnoseByModel(e) ==
    /\ stage = "diagnose"
    /\ verdicts[e] = Ambiguous
    /\ Begin(e)
    /\ Ask(e)
    /\ UNCHANGED <<run, permitted, total, sent, earlier, restarts>>

\* A mutant: reserved categories pass.
JudgeUnreserved(category, confident) == IF confident THEN category ELSE "UNKNOWN"

\* The two policies on the model's answer.
Judge(category, confident) ==
    IF category \in Reserved \/ ~confident THEN "UNKNOWN" ELSE category

-----------------------------------------------------------------------------
(* LiteLLMService.generate_structured *)

\* A mutant: diagnosis has no fallback for a call that raises.
CallFailsUndiagnosed(error) ==
    \/ /\ stage = "generate"
       /\ SynthesisFailed(error)
       /\ UNCHANGED diagnoses
    \/ /\ stage = "diagnose"
       /\ EndTurn
       /\ UNCHANGED <<candidates, diagnoses>>

\* It raises: generation repairs or quarantines, diagnosis falls back.
CallFails(error) ==
    \/ /\ stage = "generate"
       /\ SynthesisFailed(error)
       /\ UNCHANGED diagnoses
    \/ /\ stage = "diagnose"
       /\ Diagnose(task, "LLM_FAILURE", "COGNITIVE_LLM")
       /\ EndTurn
       /\ UNCHANGED candidates

\* The privacy gate is closed, or there is no key.
GateClosed ==
    /\ pc = "call" /\ ~permitted
    /\ CallFails("LLMCommunicationError")
    /\ UNCHANGED <<stage, verdicts, permitted, waiting, total, sent, earlier, restarts>>

\* A mutant: the cap is compared after the fact.
OverBudgetLate == total > MaxRequests

OverBudget == total >= MaxRequests

\* record_preflight raises: not a transport error, so not tried again.
BudgetExceeded ==
    /\ pc = "call" /\ permitted
    /\ OverBudget
    /\ CallFails("LLMCommunicationError")
    /\ UNCHANGED <<stage, verdicts, permitted, waiting, total, sent, earlier, restarts>>

\* record_preflight counts the attempt, and the request goes out.
Dispatch ==
    /\ pc = "call" /\ permitted
    /\ ~OverBudget
    /\ total' = total + 1
    /\ attempts' = attempts + 1
    /\ asked' = asked + 1 /\ sent' = sent + 1
    /\ pc' = "sent"
    /\ UNCHANGED <<run, permitted, waiting, task, repairs, lastError, earlier, restarts>>

\* A mutant: one transport attempt more than max_retries allows.
AttemptsLeftOffByOne == attempts =< 1 + MaxRetries

AttemptsLeft == attempts < 1 + MaxRetries

\* Rate limit, timeout, connection or other transport error.
TransportError ==
    /\ pc = "sent"
    /\ IF AttemptsLeft
       THEN pc' = "call" /\ UNCHANGED <<run, task, repairs, lastError, attempts, asked>>
       ELSE CallFails("LLMCommunicationError") /\ UNCHANGED <<stage, verdicts>>
    /\ UNCHANGED <<permitted, waiting, total, sent, earlier, restarts>>

\* The provider rejects the key, the model refuses, or its answer is truncated,
\* empty or does not fit the schema.
Rejected(error) ==
    /\ pc = "sent"
    /\ CallFails(error)
    /\ UNCHANGED <<stage, verdicts, permitted, waiting, total, sent, earlier, restarts>>

\* The answer fits the schema, but its code does not parse.
BrokenSyntax ==
    /\ pc = "sent" /\ stage = "generate"
    /\ SynthesisFailed("SyntaxError")
    /\ UNCHANGED <<stage, verdicts, diagnoses, permitted, waiting, total, sent, earlier,
                   restarts>>

Synthesized ==
    /\ pc = "sent" /\ stage = "generate"
    /\ Package(task, "PENDING", repairs, FALSE)
    /\ EndTurn
    /\ UNCHANGED <<stage, verdicts, diagnoses, permitted, waiting, total, sent, earlier,
                   restarts>>

Classified(category, confident) ==
    /\ pc = "sent" /\ stage = "diagnose"
    /\ Diagnose(task, Judge(category, confident), "COGNITIVE_LLM")
    /\ EndTurn
    /\ UNCHANGED <<stage, candidates, verdicts, permitted, waiting, total, sent, earlier,
                   restarts>>

-----------------------------------------------------------------------------
(* The run around them *)

\* generate_tests_node is checkpointed; validation and execution follow, and leave
\* failures of the candidates that reached them and of the existing tests.
Checkpointed ==
    /\ stage = "generate" /\ pc = "next" /\ waiting = {}
    /\ \E v \in [Subject -> Deterministic \cup {Ambiguous, NotFailed}] :
         /\ \A s \in Symbol : candidates[s].status # "PENDING" => v[s] = NotFailed
         /\ verdicts' = v
         /\ waiting' = {e \in Subject : v[e] # NotFailed}
    /\ stage' = "diagnose"
    /\ UNCHANGED <<candidates, diagnoses, permitted, task, pc, repairs, lastError, attempts,
                   total, traffic, restarts>>

Reported ==
    /\ stage = "diagnose" /\ pc = "next" /\ waiting = {}
    /\ stage' = "done"
    /\ UNCHANGED <<candidates, verdicts, diagnoses, memory, traffic, restarts>>

\* The process dies and another resumes the run: with new services, at the node
\* behind the last checkpoint.
Restart ==
    /\ stage # "done"
    /\ restarts < MaxRestarts
    /\ restarts' = restarts + 1
    /\ IF stage = "generate"
       THEN /\ candidates' = [s \in Symbol |-> NotYet]
            /\ waiting' = Symbol
            /\ UNCHANGED diagnoses
       ELSE /\ diagnoses' = [e \in Subject |-> Undiagnosed]
            /\ waiting' = Failed
            /\ UNCHANGED candidates
    /\ EndTurn
    /\ total' = 0
    /\ sent' = 0 /\ earlier' = earlier + sent
    /\ permitted' \in BOOLEAN
    /\ UNCHANGED <<stage, verdicts>>

Done == stage = "done" /\ UNCHANGED vars

Init ==
    /\ stage = "generate"
    /\ candidates = [s \in Symbol |-> NotYet]
    /\ verdicts = [e \in Subject |-> NotFailed]
    /\ diagnoses = [e \in Subject |-> Undiagnosed]
    /\ permitted \in BOOLEAN
    /\ waiting = Symbol
    /\ task = NoTask /\ pc = "next"
    /\ repairs = 0 /\ lastError = "NONE" /\ attempts = 0 /\ total = 0
    /\ asked = 0 /\ sent = 0 /\ earlier = 0 /\ restarts = 0

Answer ==
    \/ TransportError \/ BrokenSyntax \/ Synthesized
    \/ \E error \in Failure \ {"SyntaxError"} : Rejected(error)
    \/ \E category \in Category, confident \in BOOLEAN : Classified(category, confident)

Turn ==
    \/ \E s \in Symbol : BeginSymbol(s) \/ ContextTooLarge(s)
    \/ \E e \in Subject : DiagnoseByRule(e) \/ DiagnoseByModel(e)

Work == Turn \/ GateClosed \/ BudgetExceeded \/ Dispatch \/ Answer \/ Checkpointed \/ Reported

Next == Work \/ Restart \/ Done

Spec == Init /\ [][Next]_vars

\* One thread whose model calls end, at the latest by their timeout.
FairSpec == Spec /\ WF_vars(Work)

-----------------------------------------------------------------------------
(* Properties *)

\* The provider never receives more requests from a process than its budget, over
\* both services, all repairs and all transport attempts, and none before the
\* privacy gate lets it (record_preflight, generate_structured).  A run may cost one
\* budget more for each time it is resumed, since the count is kept in memory.
BudgetRespected ==
    /\ sent =< MaxRequests
    /\ ~permitted => sent = 0
    /\ earlier + sent =< (restarts + 1) * MaxRequests

\* What one subject may cost: a symbol every attempt of every repair, a diagnosis
\* one call, one the rules decide nothing, although the two loops only count their
\* own rounds (generate_structured inside the repair loop).
CostBounded ==
    /\ \A s \in Symbol :
         candidates[s].asked =< (MaxRepairs + 1) * (MaxRetries + 1)
    /\ \A e \in Subject :
         diagnoses[e].asked =<
             IF diagnoses[e].engine = "COGNITIVE_LLM" THEN MaxRetries + 1 ELSE 0

\* A symbol is given up for exhausted repairs only when the model has refused it or had
\* MaxRepairs + 1 chances, unless the process has no request left or may not ask at
\* all; and its retry_count never exceeds MaxRepairs (_generate_candidate_for_symbol).
QuarantineHasCause ==
    \A s \in Symbol :
        LET c == candidates[s] IN
        /\ c.retry =< MaxRepairs
        /\ stage = "generate" /\ c.status = "EXHAUSTED_GENERATION_REPAIRS" =>
             \/ c.refused
             \/ /\ c.retry = MaxRepairs
                /\ c.asked >= MaxRepairs + 1 \/ total = MaxRequests \/ ~permitted

\* Who may say what: environment and configuration are blamed by the rules alone,
\* the application by the model alone and only where no rule applies, and every
\* verdict of the rules stands, across restarts (DiagnosisService.diagnose,
\* CognitiveLLMClassifier.classify).
DiagnosisSound ==
    \A e \in Subject :
        LET d == diagnoses[e] IN
        /\ d.category \in Reserved => verdicts[e] = d.category
        /\ d.bug <=> d.category = "APPLICATION_BUG"
        /\ d.bug => verdicts[e] = Ambiguous
        /\ verdicts[e] \in Deterministic => d.category \in {"NOT_YET", verdicts[e]}

\* No trouble with the model stops a run: however requests fail, and with an empty
\* budget or a closed gate, it ends with one candidate for each symbol and one
\* diagnosis for each failure.
Answered ==
    /\ stage = "done"
    /\ \A s \in Symbol : candidates[s] # NotYet
    /\ \A e \in Subject : diagnoses[e] # Undiagnosed <=> verdicts[e] # NotFailed

EventuallyAnswered == <>[]Answered

-----------------------------------------------------------------------------
(* What documentation says, and the code does not do *)

\* generation/litellm_service.py, generate_structured: "Refusal is a non-repairable
\* terminal abort".  No request follows for the symbol that was refused.
RefusalIsTerminal == [][asked' > asked => lastError # "Refusal"]_vars
=============================================================================
