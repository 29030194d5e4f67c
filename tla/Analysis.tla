------------------------------ MODULE Analysis ------------------------------
(***************************************************************************)
(* From a changed file to the plan (ingest_and_analyze_node and            *)
(* plan_execution_node in workflow/nodes.py): AnalysisService.analyze      *)
(* reads git's diff (analysis/git_service.py), intersects it with the      *)
(* symbols of the file (analysis/ast_analyzer.py) and looks for deleted    *)
(* ones (analysis/service.py); ExecutionPlanner.plan asks every test file  *)
(* what it calls (analysis/discovery.py) and applies PlanningRules.        *)
(*                                                                         *)
(* The file is a sequence of lines, the change its edit script; a symbol   *)
(* is a top-level function.  Between two reads somebody may edit the file, *)
(* and any read may fail.                                                  *)
(***************************************************************************)
EXTENDS Integers, Sequences, PlanningRules

CONSTANTS Name,      \* functions the file may define
          Twin,      \* a function of an unchanged file whose path is a suffix of this one's
          TestFile,  \* existing test files
          TestContents,  \* sets of references that occur in test files
          Context,   \* lines of context in a hunk (3 in the code)
          MaxLines,  \* bound: lines of the edit script
          MaxEdits   \* bound: edits after the diff was taken

ASSUME AnalysisAssumption ==
    /\ Twin \notin Name /\ Name \cap {"body", "nested", "other", "blank"} = {}
    /\ TestContents \subseteq SUBSET Reference
    /\ Context \in Nat /\ MaxLines \in Nat /\ MaxEdits \in Nat

VARIABLES
    \* The repository when the diff is taken.
    script,      \* from the base commit to the working tree, line by line
    removed,     \* the file is deleted
    others,      \* a documentation file changed as well
    edits,       \* lines inserted since, at the top of the file
    pc,
    \* _extract_hunk_changes.
    pos,         \* next line of the script
    curr,        \* curr_new_line
    run,         \* del_lines_content, by position; in_deletion_run if not empty
    added,       \* added_lines
    boundaries,  \* deletion_boundaries, by L_next
    \* analyze.
    symbols,     \* all_symbols
    valid,       \* is_valid
    baseRead,    \* base_content was read and parsed
    affected, deleted,
    \* plan.
    evidence,    \* what the test files hold
    plan

repo   == <<script, removed, others>>
hunks  == <<pos, curr, run, added, boundaries>>
parsed == <<symbols, valid, baseRead, affected, deleted>>
asked  == <<evidence, plan>>
vars   == <<repo, edits, pc, hunks, parsed, asked>>

-----------------------------------------------------------------------------
(* Files *)

Symbol == Name \cup {Twin}

\* What the code tells lines apart by: a function's header; an indented line of its
\* body, apart those that start with def, class or @ (a nested definition, one line
\* here); any other line with text (a statement, a comment, a decorator); a blank line.
Text == Name \cup {"body", "nested", "other", "blank"}

Line == [op: {" ", "-", "+"}, text: Text]

Old == {i \in DOMAIN script : script[i].op # "+"}
New == {i \in DOMAIN script : script[i].op # "-"}

Changed == {i \in DOMAIN script : script[i].op # " "}

\* The lines of the function whose header is line h of a version: up to the last line
\* of its body.
Extent(h, version) ==
    {i \in version :
        i >= h /\ \E last \in version :
            /\ i =< last
            /\ last = h \/ script[last].text \in {"body", "nested"}
            /\ \A k \in version : h < k /\ k =< last =>
                  script[k].text \in {"body", "nested", "blank"}}

Headers(version) == {i \in version : script[i].text \in Name}

NamesIn(version) == {script[h].text : h \in Headers(version)}

\* A version parses and does not reuse names.
IsPython(version) ==
    /\ \A i \in version : script[i].text \in {"body", "nested"} =>
            \E h \in Headers(version) : i \in Extent(h, version)
    /\ \A h, k \in Headers(version) : script[h].text = script[k].text => h = k

\* The number of script line i, or of the last line before it, in its new version.
NewNumber(i) == Cardinality({j \in New : j =< i})

-----------------------------------------------------------------------------
(* Types *)

Boundary == [next: Int, indented: BOOLEAN]

SymbolContract == [name: Symbol, first: Int, last: Int]

NoPlan == [route |-> "NULL", targets |-> {}, existing |-> {}]

RepositoryOK ==
    /\ script \in Seq(Line)
    /\ removed \in BOOLEAN /\ others \in BOOLEAN
    /\ edits \in 0..MaxEdits

HunksOK ==
    /\ pc \in {"diff", "hunks", "parse", "base", "plan", "planned", "rejected"}
    /\ pos \in Nat \ {0} /\ curr \in Nat
    /\ run \subseteq DOMAIN script
    /\ added \subseteq Nat
    /\ boundaries \subseteq Boundary

SnapshotOK ==
    /\ symbols \subseteq SymbolContract
    /\ valid \in BOOLEAN /\ baseRead \in BOOLEAN
    /\ affected \subseteq Symbol /\ deleted \subseteq Name

PlanOK ==
    /\ evidence \in [TestFile -> [Symbol -> SUBSET Reference]]
    /\ \/ plan = NoPlan
       \/ plan \in [route: {NoOp, Docker, Generation}, targets: SUBSET Symbol,
                    existing: SUBSET TestFile]

TypeOK == RepositoryOK /\ HunksOK /\ SnapshotOK /\ PlanOK

-----------------------------------------------------------------------------
(* The diff *)

\* compute_diff; any git call of the analysis may raise RepositoryValidationError.
ComputeDiff ==
    /\ pc = "diff"
    /\ pc' \in {"hunks", "rejected"}
    /\ UNCHANGED <<repo, edits, hunks, parsed, asked>>

\* A mutant: an indented line may start a definition.
IndentedAny(lines) ==
    /\ \A i \in lines : script[i].text \in {"body", "nested", "blank"}
    /\ \E i \in lines : script[i].text \in {"body", "nested"}

\* is_indented: all lines with text are indented and start no definition, and there is
\* such a line.
Indented(lines) ==
    /\ \A i \in lines : script[i].text \in {"body", "blank"}
    /\ \E i \in lines : script[i].text = "body"

CloseRun ==
    /\ boundaries' = IF run = {} THEN boundaries
                     ELSE boundaries \cup {[next |-> curr, indented |-> Indented(run)]}
    /\ run' = {}

\* Lines between two hunks count like context: the header of the next hunk skips them.
ContextLine ==
    /\ pc = "hunks" /\ pos =< Len(script) /\ script[pos].op = " "
    /\ CloseRun
    /\ pos' = pos + 1 /\ curr' = curr + 1
    /\ UNCHANGED <<repo, edits, pc, added, parsed, asked>>

\* A mutant: an added line does not end a run of deleted ones.
AddedLineInRun ==
    /\ pc = "hunks" /\ pos =< Len(script) /\ script[pos].op = "+"
    /\ added' = added \cup {curr}
    /\ pos' = pos + 1 /\ curr' = curr + 1
    /\ UNCHANGED <<repo, edits, pc, run, boundaries, parsed, asked>>

AddedLine ==
    /\ pc = "hunks" /\ pos =< Len(script) /\ script[pos].op = "+"
    /\ CloseRun
    /\ added' = added \cup {curr}
    /\ pos' = pos + 1 /\ curr' = curr + 1
    /\ UNCHANGED <<repo, edits, pc, parsed, asked>>

DeletedLine ==
    /\ pc = "hunks" /\ pos =< Len(script) /\ script[pos].op = "-"
    /\ run' = run \cup {pos}
    /\ pos' = pos + 1
    /\ UNCHANGED <<repo, edits, pc, curr, added, boundaries, parsed, asked>>

EndOfHunks ==
    /\ pc = "hunks" /\ pos > Len(script)
    /\ CloseRun
    /\ pc' = "parse"
    /\ UNCHANGED <<repo, edits, pos, curr, added, parsed, asked>>

-----------------------------------------------------------------------------
(* The symbols *)

\* parse_symbols of the file as it is now.
Contracts ==
    {[name  |-> script[h].text,
      first |-> NewNumber(h) + edits,
      last  |-> NewNumber(h) + Cardinality(Extent(h, New)) - 1 + edits] : h \in Headers(New)}

\* The unchanged file defines a function in its first two lines.
TwinContracts == {[name |-> Twin, first |-> 1, last |-> 2]}

\* One symbol of resolve_affected_symbols; _paths_match takes the twin's file for the
\* changed one.
Intersected(s) ==
    \/ \E line \in added : s.first =< line /\ line =< s.last
    \/ \E b \in boundaries :
        \/ s.first =< b.next - 1 /\ b.next =< s.last
        \/ b.next - 1 = s.last /\ b.indented

ResolveAffectedSymbols(all) == {s.name : s \in {r \in all : Intersected(r)}}

\* The file is gone, parses, or cannot be read or parsed, which only syntax_errors
\* and is_valid tell.
Parse ==
    /\ pc = "parse"
    /\ \/ /\ removed
          /\ symbols' = TwinContracts
          /\ UNCHANGED valid
       \/ /\ ~removed
          /\ symbols' = Contracts \cup TwinContracts
          /\ UNCHANGED valid
       \/ /\ ~removed
          /\ symbols' = TwinContracts
          /\ valid' = (Changed = {})
    /\ affected' = ResolveAffectedSymbols(symbols')
    /\ pc' = "base"
    /\ UNCHANGED <<repo, edits, hunks, baseRead, deleted, asked>>

InHunk(i) == \E c \in Changed : c - Context =< i /\ i =< c + Context

\* A mutant: symbols that survive are not left out.
TouchedSymbols ==
    {script[h].text : h \in
        {k \in Headers(Old) : removed \/ \E i \in Extent(k, Old) : InHunk(i)}}

\* Symbols of the base version that no file has any more, where a hunk touches them.
DeletedSymbols ==
    {script[h].text : h \in
        {k \in Headers(Old) :
            /\ script[k].text \notin {s.name : s \in symbols}
            /\ \/ removed
               \/ \E i \in Extent(k, Old) : InHunk(i)}}

\* A base version that cannot be read or parsed is skipped.
ReconcileDeleted ==
    /\ pc = "base"
    /\ \/ baseRead' = TRUE  /\ deleted' = DeletedSymbols
       \/ baseRead' = FALSE /\ deleted' = {}
    /\ pc' = "plan"
    /\ UNCHANGED <<repo, edits, hunks, symbols, valid, affected, asked>>

-----------------------------------------------------------------------------
(* The plan *)

\* symbol_to_test_files.
SymbolToTestFiles ==
    [s \in Symbol |-> {t \in TestFile : StaticallyAssociated(evidence[t][s])}]

DiffHunks ==
    (IF Changed # {} \/ removed THEN {"code"} ELSE {}) \cup (IF others THEN {"other"} ELSE {})

\* plan: analyze_associations of every test file, for affected and deleted symbols (a
\* file that is gone or does not parse holds nothing), then the rules.
PlanExecution ==
    /\ pc = "plan"
    /\ \E found \in [TestFile -> [affected \cup deleted -> TestContents]] :
        evidence' = [t \in TestFile |->
            [s \in Symbol |-> IF s \in affected \cup deleted THEN found[t][s] ELSE {}]]
    /\ plan' = EvaluatePrecedenceRules(DiffHunks, affected, deleted, SymbolToTestFiles')
    /\ pc' = "planned"
    /\ UNCHANGED <<repo, edits, hunks, parsed>>

-----------------------------------------------------------------------------
(* Specification *)

\* A line is inserted at the top of the file between compute_diff and read_text.
\* (Reading the hunks is pure, so that it comes before here and after in the code
\* makes no difference.)
Edit ==
    /\ pc = "parse" /\ ~removed /\ edits < MaxEdits
    /\ edits' = edits + 1
    /\ UNCHANGED <<repo, pc, hunks, parsed, asked>>

\* A mutant: lines are counted from 0.
StartZeroBased == IF New = {} THEN -1 ELSE 0

\* hunk.new_start of a file without lines is 0.
Start == IF New = {} THEN 0 ELSE 1

Init ==
    /\ script \in UNION {[1..n -> Line] : n \in 0..MaxLines}
    /\ IsPython(Old) /\ IsPython(New)
    /\ removed \in BOOLEAN /\ (removed => New = {} /\ Old # {})
    /\ others \in BOOLEAN
    /\ edits = 0
    /\ pc = "diff"
    /\ pos = 1 /\ curr = Start /\ run = {} /\ added = {} /\ boundaries = {}
    /\ symbols = {} /\ valid = TRUE /\ baseRead = FALSE /\ affected = {} /\ deleted = {}
    /\ evidence = [t \in TestFile |-> [s \in Symbol |-> {}]]
    /\ plan = NoPlan

Read == ContextLine \/ AddedLine \/ DeletedLine \/ EndOfHunks

Next ==
    \/ ComputeDiff \/ Read \/ Parse \/ ReconcileDeleted
    \/ PlanExecution
    \/ Edit

Spec == Init /\ [][Next]_vars

-----------------------------------------------------------------------------
(* Properties *)

Resolved == pc \in {"base", "plan", "planned"}

\* The deleted lines around line i with no other line between them.
RunAt(i) ==
    {j \in DOMAIN script : \A k \in DOMAIN script :
        (i =< k /\ k =< j) \/ (j =< k /\ k =< i) => script[k].op = "-"}

\* Blank lines aside, the deleted lines around line i were inside a function of the base
\* version, and no nested definition started among them.
LostBody(i) ==
    /\ \E j \in RunAt(i) : script[j].text # "blank"
    /\ \A j \in RunAt(i) : script[j].text # "blank" =>
            /\ \E h \in Headers(Old) : h < j /\ j \in Extent(h, Old)
            /\ script[j].text # "nested"

\* When the diff is read, added_lines are the numbers the added lines have in the new
\* file and deletion_boundaries are the places its deleted lines were at, each with
\* whether what is missing there can only have been the inside of a function, which
\* the code decides by the indentation (_extract_hunk_changes).
HunksExact ==
    Resolved =>
        /\ added = {NewNumber(i) + Start - 1 : i \in {j \in New : script[j].op = "+"}}
        /\ boundaries =
              {[next |-> NewNumber(i) + Start, indented |-> LostBody(i)] :
                  i \in {j \in Old : script[j].op = "-"}}

\* Reading the file the diff was taken of, the analysis finds a function affected
\* exactly if a line was added to it, a line between two of its lines deleted, or the
\* inside of a function after its last one; one that only lost nested definitions at
\* its end is not (resolve_affected_symbols).  Line numbers of two parsers meet here:
\* the diff's and Python's.  Of the functions of other files it says nothing.
AffectedExact ==
    Resolved /\ edits = 0 =>
        \A h \in Headers(New) :
            LET lines == Extent(h, New)
            IN  script[h].text \in {s.name : s \in symbols} =>
                (script[h].text \in affected <=>
                    \E i \in Changed :
                        \/ script[i].op = "+" /\ i \in lines
                        \/ script[i].op = "-" /\ h < i /\ \E j \in lines : i < j
                        \/ /\ script[i].op = "-" /\ LostBody(i)
                           /\ \E j \in lines : j < i /\ ~\E k \in New : j < k /\ k < i)

\* A file that was read as it was diffed loses no deleted function and no surviving
\* one is taken for deleted (the reconciliation of analyze).
DeletedExact ==
    Resolved /\ pc # "base" /\ valid /\ baseRead =>
        deleted = NamesIn(Old) \ NamesIn(New)

\* The tests that really call s.
Exercising(s) == {t \in TestFile : evidence[t][s] \cap {"call", "mock"} = {"call"}}

\* Of a change whose file could be read, nothing that was added to a function and no
\* function that was removed is forgotten between git and the plan: tests that call it
\* run, and a function no test calls is a target.
ChangeIsPlanned ==
    plan # NoPlan /\ valid /\ baseRead /\ edits = 0 =>
        /\ \A h \in Headers(New) :
              (\E i \in Extent(h, New) : script[i].op = "+") =>
                 LET n == script[h].text
                 IN  IF Exercising(n) = {} THEN n \in plan.targets
                     ELSE Exercising(n) \subseteq plan.existing
        /\ \A n \in NamesIn(Old) \ NamesIn(New) : Exercising(n) \subseteq plan.existing

\* The model is asked for no test of a function that is gone, unaffected or called by
\* an existing test that does not patch it, whatever was edited or could not be read
\* (the zero-LLM gate); and no test runs that has nothing to do with the change.  All
\* this is relative to what the analysis found affected and deleted, right or wrong.
PlanJustified ==
    plan # NoPlan =>
        /\ plan.route = Generation <=> plan.targets # {}
        /\ \A s \in plan.targets : s \in affected \ deleted /\ Exercising(s) = {}
        /\ \A t \in plan.existing : \E s \in affected \cup deleted : t \in Exercising(s)

WorkflowPlans == INSTANCE WorkflowData WITH Proc <- {}, Symbol <- Symbol

\* Every plan is one of those the workflow is modelled with: its routers rely on a
\* route that agrees with what there is to generate and to run.  Its targets may be
\* functions the analysis is wrong about.
PlanIsPlannable ==
    plan # NoPlan =>
        [route |-> plan.route, tests |-> plan.existing # {}, targets |-> plan.targets]
            \in WorkflowPlans!Plannable

-----------------------------------------------------------------------------
(* What documentation says, and the code does not do *)

\* "... all callable symbols modified or introduced by the working tree diff": a
\* function that a deleted line belonged to and that is still there is affected.
ModifiedAreAffected ==
    Resolved /\ valid /\ edits = 0 =>
        \A h \in Headers(Old) :
            /\ \E i \in Extent(h, Old) : script[i].op = "-"
            /\ script[h].text \in NamesIn(New)
            => script[h].text \in affected

=============================================================================
