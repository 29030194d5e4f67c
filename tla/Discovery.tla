----------------------------- MODULE Discovery -----------------------------
(***************************************************************************)
(* TestDiscovery.analyze_associations (analysis/discovery.py): which of    *)
(* the target symbols a test file exercises.  The file's imports are       *)
(* collected in one map, its patches disqualify symbols, its calls are     *)
(* resolved through the map.                                               *)
(*                                                                         *)
(* A file is a sequence of lines, those of the module before those of its  *)
(* two test functions, as ast.walk meets them; targets are functions.      *)
(***************************************************************************)
EXTENDS SequencesExt, PlanningRules

CONSTANTS Module,    \* dotted paths of the modules with targets, as sequences
          Path,      \* dotted paths that test files write
          Function,  \* names of functions
          Alias,     \* other local names
          MaxLines   \* bound: lines of a file

ASSUME DiscoveryAssumption ==
    /\ IsFiniteSet(Module) /\ IsFiniteSet(Function)
    /\ Path # {} /\ \A p \in Path \cup Module : p # <<>> /\ p \in Seq(STRING)
    /\ Alias \subseteq STRING /\ Function \cap Alias = {}

VARIABLES
    file,
    targets,       \* target_symbols, in order
    pc,
    modules,       \* _ImportMap.modules, by local dotted name
    symbols,       \* _ImportMap.symbols, by local name
    disqualified,  \* disqualified_mocks
    findings,      \* by symbol: classifications of its evidence
    associations

vars == <<file, targets, pc, modules, symbols, disqualified, findings, associations>>

-----------------------------------------------------------------------------
(* Test files *)

Symbol == [module: Module, name: Function]

\* Names of the test file's own choice.
Local == Function \cup Alias

\* from path import name as local, of a function or of a module; import path; import
\* path as local.
Import ==
    {[form |-> "from", path |-> p, name |-> f, as |-> n] : p \in Path, f \in Function, n \in Local}
        \cup (UNION {[form: {"from"}, path: {Front(p)}, name: {Last(p)}, as: {Last(p)} \cup Alias] :
                         p \in {q \in Path : Len(q) > 1}})
        \cup [form: {"import"}, path: Path]
        \cup [form: {"import_as"}, path: Path, as: Alias]

Receivers == Path \cup {<<a>> : a \in Alias}

\* local = ...; local(); receiver.name(); patch("path.name"), as a decorator, in a with
\* statement or by mocker; monkeypatch.setattr(receiver, "name").
Statement ==
    Import \cup [form: {"assign", "call"}, as: Local]
           \cup [form: {"patch"}, path: Path, name: Function]
           \cup [form: {"qualified", "setattr"}, path: Receivers, name: Function]

Line ==
    [scope: {0}, text: Import] \cup [scope: {1, 2}, text: Statement]

Lines(forms) == {i \in DOMAIN file : file[i].text.form \in forms}

\* The maximum of a nonempty set of line numbers.
Latest(lines) == CHOOSE i \in lines : \A j \in lines : j =< i

-----------------------------------------------------------------------------
(* analyze_associations *)

\* Somebody has written the tests, the first before the second.
Write(line) ==
    /\ pc = "write" /\ Len(file) < MaxLines
    /\ LET scope == IF file = <<>> THEN 0 ELSE Last(file).scope
       IN  scope =< line.scope /\ line.scope =< scope + 1
    /\ file' = Append(file, line)
    /\ UNCHANGED <<targets, pc, modules, symbols, disqualified, findings, associations>>

\* The file is there and parses.
Read ==
    /\ pc = "write"
    /\ pc' = "imports"
    /\ UNCHANGED <<file, targets, modules, symbols, disqualified, findings, associations>>

\* _build_import_map: whatever its scope, the last import of a name wins.  An import
\* without alias binds the path and its last part.
BuildImportMap ==
    /\ pc = "imports"
    /\ symbols' =
          [n \in {file[i].text.as : i \in Lines({"from"})} |->
              file[Latest({i \in Lines({"from"}) : file[i].text.as = n})].text]
    /\ modules' =
          LET imports  == Lines({"import", "import_as"})
              binds(i) == IF file[i].text.form = "import_as" THEN {<<file[i].text.as>>}
                          ELSE {file[i].text.path, <<Last(file[i].text.path)>>}
          IN  [r \in UNION {binds(i) : i \in imports} |->
                  file[Latest({i \in imports : r \in binds(i)})].text.path]
    /\ pc' = "mocks"
    /\ UNCHANGED <<file, targets, disqualified, findings, associations>>

\* A mutant: modules of one name are one.
ModulesOfOneName(module, path) == Last(path) = Last(module)

\* _modules_match.
ModulesMatch(module, path) == IsSuffix(path, module)

Matching(ts, path, name) ==
    {k \in DOMAIN ts : ts[k].name = name /\ ModulesMatch(ts[k].module, path)}

\* A patch is taken for one of the first target it fits.
FirstMatching(ts, path, name) ==
    LET matching == Matching(ts, path, name)
    IN  {ts[k] : k \in {m \in matching : \A j \in matching : m =< j}}

\* What monkeypatch.setattr's first argument stands for.
Receiver(path) ==
    IF Len(path) = 1 /\ path[1] \in DOMAIN symbols THEN <<symbols[path[1]].name>>
    ELSE IF path \in DOMAIN modules THEN modules[path]
    ELSE path

\* The module path a patch names.
PatchedPath(i) ==
    IF file[i].text.form = "setattr" THEN Receiver(file[i].text.path) ELSE file[i].text.path

\* A mutant: monkeypatch is forgotten.
PatchesWithoutMonkeypatch == Lines({"patch"})

Patches == Lines({"patch", "setattr"})

Patched(ts) ==
    UNION {FirstMatching(ts, PatchedPath(i), file[i].text.name) : i \in Patches}

\* _detect_mocks.
DetectMocks ==
    /\ pc = "mocks"
    /\ disqualified' = Patched(targets)
    /\ pc' = "calls"
    /\ UNCHANGED <<file, targets, modules, symbols, findings, associations>>

Assigned(i) ==
    \E j \in Lines({"assign"}) :
        file[j].scope = file[i].scope /\ file[j].text.as = file[i].text.as

\* The module of a call receiver.name(), if the imports tell it.
Qualifier(receiver) ==
    IF receiver \in DOMAIN modules THEN {modules[receiver]}
    ELSE IF Len(receiver) > 1 /\ <<Head(receiver)>> \in DOMAIN modules
    THEN {modules[<<Head(receiver)>>] \o Tail(receiver)}
    ELSE {}

\* A mutant: the search ends at the first target, as it does for patches.
CalledFirst(ts, i) ==
    LET text == file[i].text
    IN  IF text.form = "call" /\ text.as \in DOMAIN symbols
        THEN FirstMatching(ts, symbols[text.as].path, symbols[text.as].name)
        ELSE IF text.form = "qualified"
        THEN UNION {FirstMatching(ts, path, text.name) : path \in Qualifier(text.path)}
        ELSE {}

\* The targets a line's call is found to call, and those it may or may not.
Called(ts, i) ==
    LET text == file[i].text
    IN  {ts[k] : k \in
            IF text.form = "call" /\ text.as \in DOMAIN symbols
            THEN Matching(ts, symbols[text.as].path, symbols[text.as].name)
            ELSE IF text.form = "qualified"
            THEN UNION {Matching(ts, path, text.name) : path \in Qualifier(text.path)}
            ELSE {}}

Unresolved(ts, i) ==
    LET text == file[i].text
    IN  IF text.form = "call" /\ text.as \notin DOMAIN symbols /\ Assigned(i)
        THEN {s \in ToSet(ts) : s.name = text.as}
        ELSE {}

\* _inspect_calls_and_references.
InspectCallsAndReferences ==
    /\ pc = "calls"
    /\ findings' =
          [s \in ToSet(targets) |->
              {c \in {"STATICALLY_ASSOCIATED", "UNKNOWN"} :
                  \E i \in DOMAIN file :
                      s \in IF c = "UNKNOWN" THEN Unresolved(targets, i) ELSE Called(targets, i)}]
    /\ pc' = "associations"
    /\ UNCHANGED <<file, targets, modules, symbols, disqualified, associations>>

\* The evidence of a symbol, as the rules of the planner see it.
References(s) ==
    (IF s \in disqualified THEN {"mock"} ELSE {})
    \cup (IF "STATICALLY_ASSOCIATED" \in findings[s] THEN {"call"} ELSE {})
    \cup (IF "UNKNOWN" \in findings[s] THEN {"mention"} ELSE {})

Associate ==
    /\ pc = "associations"
    /\ associations' = {s \in ToSet(targets) : StaticallyAssociated(References(s))}
    /\ pc' = "done"
    /\ UNCHANGED <<file, targets, modules, symbols, disqualified, findings>>

Done == pc = "done" /\ UNCHANGED vars

Init ==
    /\ file = <<>>
    /\ targets \in UNION {[1..n -> Symbol] : n \in 1..Cardinality(Symbol)}
    /\ \A i, j \in DOMAIN targets : i # j => targets[i] # targets[j]
    /\ pc = "write"
    /\ modules = <<>> /\ symbols = <<>>
    /\ disqualified = {} /\ findings = <<>> /\ associations = {}

Next ==
    \/ \E line \in Line : Write(line)
    \/ Read
    \/ BuildImportMap \/ DetectMocks \/ InspectCallsAndReferences \/ Associate \/ Done

Spec == Init /\ [][Next]_vars
-----------------------------------------------------------------------------
(* What a line means to Python *)

\* The name a line binds; import a.b binds a.
Binds(i) ==
    LET text == file[i].text
    IN  IF text.form \in {"from", "import_as", "assign"} THEN {text.as}
        ELSE IF text.form = "import" THEN {Head(text.path)}
        ELSE {}

\* The name a line looks up first.
Uses(i) ==
    LET text == file[i].text
    IN  IF text.form = "call" THEN {text.as}
        ELSE IF text.form \in {"qualified", "setattr"} THEN {Head(text.path)}
        ELSE {}

Binders(n) == {j \in DOMAIN file : n \in Binds(j)}

\* The map takes import a.b for a binding of b as well.
TakenFor(n) ==
    Binders(n) \cup {j \in Lines({"import"}) : Last(file[j].text.path) = n}

\* Every name that is used was bound once in the file, before and where the line can see
\* it, and no import is taken for another binding; modules are imported by import, not
\* by from, and reached by the path imported, by what follows its only part, or by the
\* alias (setattr: the alias alone).
Plain ==
    \A i \in DOMAIN file : \A n \in Uses(i) :
        /\ Cardinality(Binders(n)) = 1 /\ TakenFor(n) = Binders(n)
        /\ \A j \in Binders(n) :
              /\ j < i /\ file[j].scope \in {0, file[i].scope}
              /\ file[i].text.form # "call" =>
                    \/ /\ file[j].text.form = "import"
                       /\ file[j].text.path \in {<<n>>, file[i].text.path}
                    \/ /\ file[j].text.form = "import_as"
                       /\ file[i].text.form = "setattr" => Len(file[i].text.path) = 1

\* The function a line of a plain file calls or patches: module path and name.
Meant(i) ==
    LET text == file[i].text
        through(by) ==
            IF text.form = "call"
            THEN IF by.form = "from" THEN {<<by.path, by.name>>} ELSE {}
            ELSE IF by.form = "import" THEN {<<text.path, text.name>>}
            ELSE IF by.form = "import_as" THEN {<<by.path \o Tail(text.path), text.name>>}
            ELSE {}
    IN  IF text.form = "patch" THEN {<<text.path, text.name>>}
        ELSE UNION {through(file[j].text) : j \in UNION {Binders(n) : n \in Uses(i)}}

MeantBy(forms) == UNION {Meant(i) : i \in Lines(forms)}

Fits(s, meant) == \E m \in meant : m[2] = s.name /\ IsSuffix(m[1], s.module)

\* No import or patch of the file could be of two of the targets.
Unambiguous ==
    \A m \in MeantBy({"call", "qualified", "patch", "setattr"}) :
        Cardinality(Matching(targets, m[1], m[2])) =< 1

-----------------------------------------------------------------------------
(* Properties *)

\* Where each name has one meaning, the file exercises exactly the functions that one
\* of its tests calls and none of its lines patches: Python's scopes and the one map for
\* the whole file come to the same (analyze_associations).
AssociationsExact ==
    pc = "done" /\ Plain /\ Unambiguous =>
        associations =
            {s \in ToSet(targets) :
                /\ Fits(s, MeantBy({"call", "qualified"}))
                /\ ~Fits(s, MeantBy({"patch", "setattr"}))}

\* A name alone associates nothing, however names are rebound: the file imports the
\* function, or a module around it, by a path that can be its module's.
NeverByNameAlone ==
    pc = "done" =>
        \A s \in associations : \E i \in Lines({"from", "import", "import_as"}) :
            LET by == file[i].text
            IN  IF by.form = "from"
                THEN by.name = s.name /\ IsSuffix(by.path, s.module)
                ELSE \E rest \in Suffixes(s.module) \cup {<<>>} :
                        IsSuffix(by.path \o rest, s.module)

\* Asked about ts alone.
Associated(ts) ==
    {s \in ToSet(ts) : s \notin Patched(ts) /\ \E i \in DOMAIN file : s \in Called(ts, i)}

\* Whether a file exercises a function does not depend on what else has changed, nor on
\* the order of the targets, as long as no patch fits two of them: the planner would
\* find the same coverage for a smaller change.
Independent ==
    /\ pc = "done"
    /\ \A i \in Patches :
          Cardinality(Matching(targets, PatchedPath(i), file[i].text.name)) =< 1
    => associations = UNION {Associated(<<s>>) : s \in ToSet(targets)}

=============================================================================
