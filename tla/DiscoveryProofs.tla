--------------------------- MODULE DiscoveryProofs --------------------------
(***************************************************************************)
(* For test files of any length, any modules, names and targets: that what *)
(* analyze_associations says of a file is what its lines call and patch.   *)
(***************************************************************************)
EXTENDS Discovery, FiniteSetTheorems, SequenceTheorems, TLAPS

-----------------------------------------------------------------------------
(* Lines of a file *)

\* The largest of a set of line numbers: numbers without a largest would have different
\* ranks, more of them than there are ranks.
LEMMA LastOf ==
    ASSUME NEW E, IsFiniteSet(E), E \subseteq Int, E # {}
    PROVE  \E m \in E : \A j \in E : j =< m
<1> DEFINE upTo(i) == {j \in E : j =< i}
           rank == [i \in E |-> Cardinality(upTo(i))]
           n == Cardinality(E)
<1>1. n \in Nat /\ n # 0
  BY FS_CardinalityType, FS_EmptySet
<1>2. ASSUME NEW i \in E
      PROVE  /\ IsFiniteSet(upTo(i)) /\ rank[i] \in 1..n
             /\ rank[i] = n => upTo(i) = E
  <2>1. upTo(i) \in SUBSET E /\ upTo(i) # {}
    OBVIOUS
  <2>2. rank[i] = Cardinality(upTo(i))
    OBVIOUS
  <2> HIDE DEF upTo, rank
  <2>3. IsFiniteSet(upTo(i)) /\ Cardinality(upTo(i)) =< n /\ (n = Cardinality(upTo(i)) => E = upTo(i))
    BY <2>1, FS_Subset
  <2>4. Cardinality(upTo(i)) \in Nat /\ Cardinality(upTo(i)) # 0
    BY <2>1, <2>3, FS_CardinalityType, FS_EmptySet
  <2>5. QED
    BY <1>1, <2>2, <2>3, <2>4
<1>3. ASSUME NEW i \in E, NEW j \in E, i < j PROVE rank[i] # rank[j]
  <2>1. upTo(i) \in SUBSET upTo(j) /\ upTo(i) # upTo(j)
    <3>1. \A k \in E : k =< i => k =< j
      BY <1>3
    <3>2. j \in upTo(j) /\ j \notin upTo(i)
      BY <1>3
    <3>3. QED
      BY <3>1, <3>2
  <2>2. IsFiniteSet(upTo(j))
    BY <1>2
  <2>3. rank[i] = Cardinality(upTo(i)) /\ rank[j] = Cardinality(upTo(j))
    OBVIOUS
  <2> HIDE DEF upTo, rank
  <2>4. QED
    BY <2>1, <2>2, <2>3, FS_Subset
<1>4. ASSUME \A i \in E : rank[i] # n PROVE FALSE
  <2>1. rank \in [E -> 1..(n - 1)]
    <3>1. ASSUME NEW i \in E PROVE rank[i] \in 1..(n - 1)
      <4>1. rank[i] \in 1..n /\ rank[i] # n
        BY <1>2, <1>4
      <4> HIDE DEF rank, n
      <4>2. QED
        BY <1>1, <4>1
    <3>2. QED
      BY <3>1
  <2>2. IsFiniteSet(1..(n - 1)) /\ Cardinality(1..(n - 1)) = n - 1
    <3> HIDE DEF n
    <3> DEFINE k == n - 1
    <3>1. 1 \in Int /\ k \in Nat
      BY <1>1
    <3> HIDE DEF k
    <3>2. IsFiniteSet(1..k) /\ Cardinality(1..k) = IF 1 > k THEN 0 ELSE k - 1 + 1
      BY <3>1, FS_Interval
    <3>3. Cardinality(1..k) = k
      BY <3>1, <3>2
    <3>4. QED
      BY <3>2, <3>3 DEF k
  <2>3. Cardinality(1..(n - 1)) < Cardinality(E)
    BY <1>1, <2>2
  <2> HIDE DEF rank, n
  <2>4. \E x, y \in E : x # y /\ rank[x] = rank[y]
    BY <2>1, <2>2, <2>3, FS_PigeonHole
  <2>5. QED
    BY <1>3, <2>4
<1>5. PICK m \in E : rank[m] = n
  BY <1>4
<1>6. upTo(m) = E
  BY <1>2, <1>5
<1>7. QED
  BY <1>6

LEMMA LatestIs ==
    ASSUME NEW n \in Nat, NEW lines \in SUBSET (1..n), lines # {}
    PROVE  Latest(lines) \in lines
<1>1. IsFiniteSet(1..n)
  BY FS_Interval
<1>2. IsFiniteSet(lines)
  BY <1>1, FS_Subset
<1>3. lines \subseteq Int
  OBVIOUS
<1>4. \E i \in lines : \A j \in lines : j =< i
  BY <1>2, <1>3, LastOf
<1>5. QED
  BY <1>4 DEF Latest

\* What a line of each form holds.
LEMMA LineForms ==
    ASSUME NEW line \in Line
    PROVE  /\ line.text.form \in {"from", "import", "import_as", "assign", "call", "patch",
                                  "qualified", "setattr"}
           /\ line.text.form = "from" => line.text.path \in Seq(STRING)
           /\ line.text.form \in {"import", "import_as", "patch"} => line.text.path \in Path
           /\ line.text.form = "import_as" => line.text.as \in Alias
           /\ line.text.form \in {"qualified", "setattr"} => line.text.path \in Receivers
<1>1. line.text \in Statement
  BY DEF Line, Statement
<1>2. ASSUME NEW p \in Path
      PROVE  Front(p) \in Seq(STRING)
  BY DiscoveryAssumption DEF Front
<1>3. CASE \E p \in Path, f \in Function, n \in Local :
                line.text = [form |-> "from", path |-> p, name |-> f, as |-> n]
  BY <1>3, DiscoveryAssumption
<1>4. CASE \E p \in Path :
                line.text \in [form: {"from"}, path: {Front(p)}, name: {Last(p)}, as: {Last(p)} \cup Alias]
  BY <1>2, <1>4
<1>5. CASE line.text \in [form: {"import"}, path: Path]
  BY <1>5
<1>6. CASE line.text \in [form: {"import_as"}, path: Path, as: Alias]
  BY <1>6
<1>7. CASE line.text \in [form: {"assign", "call"}, as: Local]
  BY <1>7
<1>8. CASE line.text \in [form: {"patch"}, path: Path, name: Function]
  BY <1>8
<1>9. CASE line.text \in [form: {"qualified", "setattr"}, path: Receivers, name: Function]
  BY <1>9
<1>10. QED
  BY <1>1, <1>3, <1>4, <1>5, <1>6, <1>7, <1>8, <1>9 DEF Statement, Import

LEMMA OnePart ==
    ASSUME NEW S, NEW a \in S
    PROVE  <<a>> \in Seq(S) /\ Len(<<a>>) = 1
  OBVIOUS

\* Dotted names are nonempty sequences of strings.
LEMMA Paths ==
    ASSUME NEW p \in Receivers \cup Path
    PROVE  /\ p \in Seq(STRING) /\ Len(p) \in Nat /\ Len(p) > 0
           /\ Head(p) = p[1] /\ Last(p) = p[Len(p)]
           /\ Head(p) \in STRING /\ Last(p) \in STRING
           /\ Tail(p) \in Seq(STRING)
           /\ Len(p) = 1 => p = <<Head(p)>> /\ Tail(p) = <<>>
<1>1. p \in Seq(STRING) /\ p # <<>>
  <2>1. CASE p \in Path
    BY <2>1, DiscoveryAssumption
  <2>2. ASSUME NEW a \in Alias, p = <<a>> PROVE p \in Seq(STRING) /\ p # <<>>
    <3>1. a \in STRING
      BY DiscoveryAssumption
    <3>2. <<a>> \in Seq(STRING) /\ Len(<<a>>) = 1
      BY <3>1, OnePart
    <3>3. Len(<<>>) = 0
      BY EmptySeq
    <3>4. QED
      BY <2>2, <3>2, <3>3
  <2>3. QED
    BY <2>1, <2>2 DEF Receivers
<1>2. /\ Len(p) \in Nat /\ Len(p) > 0
      /\ Head(p) = p[1] /\ Last(p) = p[Len(p)]
      /\ Tail(p) \in Seq(STRING)
  BY <1>1 DEF Last
<1>3. p[1] \in STRING /\ p[Len(p)] \in STRING
  BY <1>1, <1>2
<1>4. ASSUME Len(p) = 1 PROVE p = <<p[1]>> /\ Tail(p) = <<>>
  <2>1. <<p[1]>> \in Seq(STRING) /\ Len(<<p[1]>>) = 1 /\ <<p[1]>>[1] = p[1]
    BY <1>3
  <2>2. Tail(p) \in Seq(STRING) /\ Len(Tail(p)) = 0
    BY <1>1, <1>2, <1>4
  <2>3. Tail(p) = <<>>
    BY <2>2, EmptySeq
  <2>4. p = <<p[1]>>
    BY <1>1, <1>4, <2>1
  <2>5. QED
    BY <2>3, <2>4
<1>5. QED
  BY <1>1, <1>2, <1>3, <1>4

LEMMA FileLines ==
    ASSUME file \in Seq(Line)
    PROVE  /\ Len(file) \in Nat /\ DOMAIN file = 1..Len(file)
           /\ \A i \in DOMAIN file : file[i] \in Line
  OBVIOUS

-----------------------------------------------------------------------------
(* Dotted suffixes *)

LEMMA Suffix ==
    ASSUME NEW s \in Seq(STRING), NEW t \in Seq(STRING)
    PROVE  IsSuffix(s, t) <=> /\ Len(s) =< Len(t)
                              /\ \A k \in 1..Len(s) : s[k] = t[(Len(t) - Len(s)) + k]
<1> DEFINE r == Reverse(s)
           q == Reverse(t)
<1>1. /\ r \in Seq(STRING) /\ Len(r) = Len(s) /\ \A k \in 1..Len(s) : r[k] = s[(Len(s) - k) + 1]
      /\ q \in Seq(STRING) /\ Len(q) = Len(t) /\ \A k \in 1..Len(t) : q[k] = t[(Len(t) - k) + 1]
  BY DEF Reverse
<1> HIDE DEF r, q
<1>2. ASSUME Len(s) =< Len(t)
      PROVE  SubSeq(r, 1, Len(r)) = SubSeq(q, 1, Len(r)) <=> \A k \in 1..Len(s) : r[k] = q[k]
  <2>1. /\ SubSeq(r, 1, Len(r)) \in Seq(STRING) /\ Len(SubSeq(r, 1, Len(r))) = Len(s)
        /\ SubSeq(q, 1, Len(r)) \in Seq(STRING) /\ Len(SubSeq(q, 1, Len(r))) = Len(s)
        /\ \A k \in 1..Len(s) : SubSeq(r, 1, Len(r))[k] = r[k] /\ SubSeq(q, 1, Len(r))[k] = q[k]
    BY <1>1, <1>2
  <2>2. QED
    BY <2>1
<1>3. ASSUME Len(s) =< Len(t)
      PROVE  (\A k \in 1..Len(s) : r[k] = q[k])
              <=> \A k \in 1..Len(s) : s[k] = t[(Len(t) - Len(s)) + k]
  <2>1. ASSUME \A k \in 1..Len(s) : r[k] = q[k], NEW k \in 1..Len(s)
        PROVE  s[k] = t[(Len(t) - Len(s)) + k]
    <3>1. (Len(s) - k) + 1 \in 1..Len(s)
      OBVIOUS
    <3>2. r[(Len(s) - k) + 1] = q[(Len(s) - k) + 1]
      BY <2>1, <3>1
    <3>3. r[(Len(s) - k) + 1] = s[k]
      <4>1. (Len(s) - ((Len(s) - k) + 1)) + 1 = k
        OBVIOUS
      <4>2. QED
        BY <1>1, <3>1, <4>1
    <3>4. q[(Len(s) - k) + 1] = t[(Len(t) - Len(s)) + k]
      <4>1. (Len(t) - ((Len(s) - k) + 1)) + 1 = (Len(t) - Len(s)) + k
        OBVIOUS
      <4>2. (Len(s) - k) + 1 \in 1..Len(t)
        BY <1>3, <3>1
      <4>3. QED
        BY <1>1, <4>1, <4>2
    <3>5. QED
      BY <3>2, <3>3, <3>4
  <2>2. ASSUME \A k \in 1..Len(s) : s[k] = t[(Len(t) - Len(s)) + k], NEW k \in 1..Len(s)
        PROVE  r[k] = q[k]
    <3>1. (Len(s) - k) + 1 \in 1..Len(s) /\ k \in 1..Len(t)
      BY <1>3
    <3>2. s[(Len(s) - k) + 1] = t[(Len(t) - Len(s)) + ((Len(s) - k) + 1)]
      BY <2>2, <3>1
    <3>3. (Len(t) - Len(s)) + ((Len(s) - k) + 1) = (Len(t) - k) + 1
      OBVIOUS
    <3>4. QED
      BY <1>1, <3>1, <3>2, <3>3
  <2>3. QED
    BY <2>1, <2>2
<1>4. QED
  BY <1>1, <1>2, <1>3 DEF IsSuffix, IsPrefix, r, q

LEMMA SuffixOfSuffix ==
    ASSUME NEW s \in Seq(STRING), NEW t \in Seq(STRING), NEW m \in Seq(STRING), IsSuffix(s \o t, m)
    PROVE  t \in Suffixes(m)
<1> DEFINE d == Len(m) - Len(t)
<1>1. s \o t \in Seq(STRING) /\ Len(s \o t) = Len(s) + Len(t)
  OBVIOUS
<1>2. /\ Len(s) + Len(t) =< Len(m)
      /\ \A k \in 1..(Len(s) + Len(t)) : (s \o t)[k] = m[(Len(m) - (Len(s) + Len(t))) + k]
  <2> DEFINE c == s \o t
  <2>1. c \in Seq(STRING) /\ IsSuffix(c, m) /\ Len(c) = Len(s) + Len(t)
    BY <1>1
  <2> HIDE DEF c
  <2>2. /\ Len(c) =< Len(m)
        /\ \A k \in 1..Len(c) : c[k] = m[(Len(m) - Len(c)) + k]
    BY <2>1, Suffix
  <2>3. QED
    BY <2>1, <2>2 DEF c
<1>3. ASSUME NEW k \in 1..Len(t) PROVE t[k] = m[d + k]
  <2>1. Len(s) + k \in 1..(Len(s) + Len(t)) /\ (s \o t)[Len(s) + k] = t[k]
    OBVIOUS
  <2>2. (Len(m) - (Len(s) + Len(t))) + (Len(s) + k) = d + k
    OBVIOUS
  <2>3. QED
    BY <1>2, <2>1, <2>2
<1>4. CASE t = <<>>
  BY <1>4 DEF Suffixes
<1>5. CASE t # <<>>
  <2>1. Len(t) \in Nat /\ Len(t) > 0 /\ d \in Nat /\ d + 1 \in 1..Len(m)
    BY <1>2, <1>5
  <2>2. SubSeq(m, d + 1, Len(m)) \in Seq(STRING) /\ Len(SubSeq(m, d + 1, Len(m))) = Len(t)
    BY <2>1
  <2>3. \A k \in 1..Len(t) : SubSeq(m, d + 1, Len(m))[k] = m[d + k]
    BY <2>1
  <2>4. t = SubSeq(m, d + 1, Len(m))
    BY <1>3, <2>2, <2>3
  <2>5. QED
    BY <2>1, <2>4 DEF Suffixes
<1>6. QED
  BY <1>4, <1>5

-----------------------------------------------------------------------------
(* What each stage leaves *)

SymbolsRead ==
    symbols = [n \in {file[i].text.as : i \in Lines({"from"})} |->
                  file[Latest({i \in Lines({"from"}) : file[i].text.as = n})].text]

\* The names an import statement binds in the map of modules.
ModuleNames(i) ==
    IF file[i].text.form = "import_as" THEN {<<file[i].text.as>>}
    ELSE {file[i].text.path, <<Last(file[i].text.path)>>}

ModulesRead ==
    modules = [r \in UNION {ModuleNames(i) : i \in Lines({"import", "import_as"})} |->
                  file[Latest({i \in Lines({"import", "import_as"}) : r \in ModuleNames(i)})].text.path]

FindingsMade ==
    findings =
        [s \in ToSet(targets) |->
            {c \in {"STATICALLY_ASSOCIATED", "UNKNOWN"} :
                \E i \in DOMAIN file :
                    s \in IF c = "UNKNOWN" THEN Unresolved(targets, i) ELSE Called(targets, i)}]

DiscoveryInv ==
    /\ pc \in {"write", "imports", "mocks", "calls", "associations", "done"}
    /\ file \in Seq(Line)
    /\ \E n \in Nat : targets \in [1..n -> Symbol]
    /\ pc \in {"mocks", "calls", "associations", "done"} => SymbolsRead /\ ModulesRead
    /\ pc \in {"calls", "associations", "done"} => disqualified = Patched(targets)
    /\ pc \in {"associations", "done"} => FindingsMade
    /\ pc = "done" => associations = Associated(targets)

LEMMA TargetsFinite == Cardinality(Symbol) \in Nat
<1> DEFINE pairs == Module \X Function
           make == [p \in pairs |-> [module |-> p[1], name |-> p[2]]]
<1>1. IsFiniteSet(pairs)
  BY DiscoveryAssumption, FS_Product
<1>2. make \in Surjection(pairs, Symbol)
  <2>1. make \in [pairs -> Symbol]
    BY DEF Symbol
  <2>2. ASSUME NEW s \in Symbol PROVE \E p \in pairs : make[p] = s
    <3>1. <<s.module, s.name>> \in pairs /\ make[<<s.module, s.name>>] = s
      BY DEF Symbol
    <3>2. QED
      BY <3>1
  <2>3. QED
    BY <2>1, <2>2 DEF Surjection
<1>3. QED
  <2> HIDE DEF pairs, make
  <2>1. QED
    BY <1>1, <1>2, FS_Surjection, FS_CardinalityType

LEMMA DiscoveryInit == Init => DiscoveryInv
<1> SUFFICES ASSUME Init PROVE DiscoveryInv
  OBVIOUS
<1>1. \E n \in Nat : targets \in [1..n -> Symbol]
  BY TargetsFinite DEF Init
<1>2. file \in Seq(Line)
  BY EmptySeq DEF Init
<1>3. QED
  BY <1>1, <1>2 DEF Init, DiscoveryInv

\* Steps that leave the file and what was made of it alone.
LEMMA SameFile ==
    ASSUME UNCHANGED <<file, targets>>
    PROVE  /\ UNCHANGED symbols => SymbolsRead' = SymbolsRead
           /\ UNCHANGED modules => ModulesRead' = ModulesRead
           /\ UNCHANGED <<symbols, modules>> => Patched(targets)' = Patched(targets)
           /\ UNCHANGED <<symbols, modules, findings>> => FindingsMade' = FindingsMade
           /\ UNCHANGED <<symbols, modules>> => Associated(targets)' = Associated(targets)
<1> USE DEF Lines, PatchedPath, Receiver, Patches
<1>1. UNCHANGED symbols => SymbolsRead' = SymbolsRead
  BY DEF SymbolsRead
<1>2. UNCHANGED modules => ModulesRead' = ModulesRead
  BY DEF ModulesRead, ModuleNames
<1>3. UNCHANGED <<symbols, modules>> => Patched(targets)' = Patched(targets)
  BY DEF Patched
<1>4. UNCHANGED <<symbols, modules, findings>> => FindingsMade' = FindingsMade
  BY DEF FindingsMade, Unresolved, Called, Assigned, Qualifier
<1>5. UNCHANGED <<symbols, modules>> => Associated(targets)' = Associated(targets)
  BY DEF Associated, Patched, Called, Qualifier
<1>6. QED
  BY <1>1, <1>2, <1>3, <1>4, <1>5

LEMMA DiscoveryStep == DiscoveryInv /\ [Next]_vars => DiscoveryInv'
<1> SUFFICES ASSUME DiscoveryInv, [Next]_vars PROVE DiscoveryInv'
  OBVIOUS
<1>1. ASSUME NEW line \in Line, Write(line) PROVE DiscoveryInv'
  BY <1>1 DEF Write, DiscoveryInv
<1>2. CASE Read
  BY <1>2 DEF Read, DiscoveryInv
<1>3. CASE BuildImportMap
  <2>1. SymbolsRead'
    BY <1>3 DEF BuildImportMap, SymbolsRead, Lines
  <2>2. ModulesRead'
    BY <1>3 DEF BuildImportMap, ModulesRead, ModuleNames, Lines
  <2>3. QED
    BY <1>3, <2>1, <2>2 DEF BuildImportMap, DiscoveryInv
<1>4. CASE DetectMocks
  BY <1>4, SameFile DEF DetectMocks, DiscoveryInv
<1>5. CASE InspectCallsAndReferences
  <2>1. FindingsMade'
    BY <1>5 DEF InspectCallsAndReferences, FindingsMade, Unresolved, Called, Assigned, Qualifier, Lines
  <2>2. QED
    BY <1>5, <2>1, SameFile DEF InspectCallsAndReferences, DiscoveryInv
<1>6. CASE Associate
  <2>1. associations' = Associated(targets)
    <3>1. ASSUME NEW s \in ToSet(targets)
          PROVE  StaticallyAssociated(References(s))
                    <=> s \notin Patched(targets) /\ \E i \in DOMAIN file : s \in Called(targets, i)
      BY <1>6 DEF Associate, DiscoveryInv, FindingsMade, StaticallyAssociated, References
    <3>2. QED
      BY <1>6, <3>1 DEF Associate, Associated
  <2>2. QED
    BY <1>6, <2>1, SameFile DEF Associate, DiscoveryInv
<1>7. CASE UNCHANGED vars
  BY <1>7, SameFile DEF vars, DiscoveryInv
<1>8. QED
  BY <1>1, <1>2, <1>3, <1>4, <1>5, <1>6, <1>7 DEF Next, Done

LEMMA DiscoveryHolds == Spec => []DiscoveryInv
  BY DiscoveryInit, DiscoveryStep, PTL DEF Spec

-----------------------------------------------------------------------------
(* What calls and patches resolve to *)

\* The functions a line's call resolves to, as the map has them.
Resolved(i) ==
    LET text == file[i].text
    IN  IF text.form = "call" /\ text.as \in DOMAIN symbols
        THEN {<<symbols[text.as].path, symbols[text.as].name>>}
        ELSE IF text.form = "qualified"
        THEN {<<path, text.name>> : path \in Qualifier(text.path)}
        ELSE {}

ResolvedPatch(i) == {<<PatchedPath(i), file[i].text.name>>}

LEMMA Matched ==
    ASSUME NEW ts, NEW path, NEW name
    PROVE  {ts[k] : k \in Matching(ts, path, name)} = {s \in ToSet(ts) : Fits(s, {<<path, name>>})}
  BY DEF Matching, ModulesMatch, Fits, ToSet

LEMMA CalledAre ==
    ASSUME NEW ts, NEW i
    PROVE  Called(ts, i) = {s \in ToSet(ts) : Fits(s, Resolved(i))}
<1> DEFINE text == file[i].text
<1>1. CASE text.form = "call" /\ text.as \in DOMAIN symbols
  <2>1. Called(ts, i) = {ts[k] : k \in Matching(ts, symbols[text.as].path, symbols[text.as].name)}
    BY <1>1 DEF Called
  <2>2. Resolved(i) = {<<symbols[text.as].path, symbols[text.as].name>>}
    BY <1>1 DEF Resolved
  <2>3. QED
    BY <2>1, <2>2, Matched
<1>2. CASE text.form = "qualified"
  <2>1. Called(ts, i) = {ts[k] : k \in UNION {Matching(ts, path, text.name) : path \in Qualifier(text.path)}}
    BY <1>2 DEF Called
  <2>2. Called(ts, i) = UNION {{ts[k] : k \in Matching(ts, path, text.name)} : path \in Qualifier(text.path)}
    BY <2>1
  <2>3. ASSUME NEW path
        PROVE  {ts[k] : k \in Matching(ts, path, text.name)}
                  = {s \in ToSet(ts) : Fits(s, {<<path, text.name>>})}
    BY Matched
  <2>4. Resolved(i) = {<<path, text.name>> : path \in Qualifier(text.path)}
    BY <1>2 DEF Resolved
  <2>5. ASSUME NEW s
        PROVE  Fits(s, Resolved(i)) <=> \E path \in Qualifier(text.path) : Fits(s, {<<path, text.name>>})
    BY <2>4 DEF Fits
  <2>6. ASSUME NEW s
        PROVE  s \in Called(ts, i)
                  <=> \E path \in Qualifier(text.path) : s \in ToSet(ts) /\ Fits(s, {<<path, text.name>>})
    BY <2>2, <2>3
  <2>7. ASSUME NEW s
        PROVE  s \in Called(ts, i) <=> s \in ToSet(ts) /\ Fits(s, Resolved(i))
    BY <2>5, <2>6
  <2>8. QED
    BY <2>7
<1>3. CASE ~ (text.form = "call" /\ text.as \in DOMAIN symbols) /\ text.form # "qualified"
  <2>1. Called(ts, i) = {} /\ Resolved(i) = {}
    BY <1>3 DEF Called, Resolved
  <2>2. QED
    BY <2>1 DEF Fits
<1>4. QED
  BY <1>1, <1>2, <1>3

\* Where at most one target fits, the first is all.
LEMMA FirstIsAll ==
    ASSUME NEW ts, NEW n \in Nat, DOMAIN ts = 1..n, NEW path, NEW name,
           Cardinality(Matching(ts, path, name)) =< 1
    PROVE  FirstMatching(ts, path, name) = {s \in ToSet(ts) : Fits(s, {<<path, name>>})}
<1> DEFINE M == Matching(ts, path, name)
<1>1. M \in SUBSET (1..n)
  BY DEF Matching
<1>2. IsFiniteSet(1..n)
  BY FS_Interval
<1>3. IsFiniteSet(M) /\ Cardinality(M) \in Nat
  BY <1>1, <1>2, FS_Subset, FS_CardinalityType
<1>4. M = {} \/ \E k : M = {k}
  <2>1. Cardinality(M) = 0 \/ Cardinality(M) = 1
    BY <1>3
  <2>2. QED
    BY <1>3, <2>1, FS_EmptySet, FS_Singleton
<1>5. FirstMatching(ts, path, name) = {ts[k] : k \in M}
  BY <1>1, <1>4 DEF FirstMatching
<1>6. {ts[k] : k \in M} = {s \in ToSet(ts) : Fits(s, {<<path, name>>})}
  BY Matched
<1>7. QED
  BY <1>5, <1>6

LEMMA PatchedAre ==
    ASSUME NEW ts, NEW n \in Nat, DOMAIN ts = 1..n,
           \A i \in Patches : Cardinality(Matching(ts, PatchedPath(i), file[i].text.name)) =< 1
    PROVE  Patched(ts) = {s \in ToSet(ts) : \E i \in Patches : Fits(s, ResolvedPatch(i))}
<1>1. ASSUME NEW i \in Patches
      PROVE  FirstMatching(ts, PatchedPath(i), file[i].text.name)
                = {s \in ToSet(ts) : Fits(s, ResolvedPatch(i))}
  BY FirstIsAll DEF ResolvedPatch
<1>2. QED
  BY <1>1 DEF Patched

-----------------------------------------------------------------------------
(* The other targets *)

LEMMA Alone ==
    ASSUME NEW s
    PROVE  Associated(<<s>>) = {t \in {s} : /\ ~ \E i \in Patches : Fits(s, ResolvedPatch(i))
                                           /\ \E i \in DOMAIN file : Fits(s, Resolved(i))}
<1>1. DOMAIN <<s>> = 1..1 /\ ToSet(<<s>>) = {s}
  BY DEF ToSet
<1>2. ASSUME NEW path, NEW name PROVE Cardinality(Matching(<<s>>, path, name)) =< 1
  <2>1. Matching(<<s>>, path, name) \in SUBSET {1}
    BY <1>1 DEF Matching
  <2>2. IsFiniteSet({1}) /\ Cardinality({1}) = 1
    BY FS_Singleton
  <2>3. QED
    BY <2>1, <2>2, FS_Subset
<1>3. Patched(<<s>>) = {t \in {s} : \E i \in Patches : Fits(t, ResolvedPatch(i))}
  BY <1>1, <1>2, PatchedAre
<1>4. \A i \in DOMAIN file : Called(<<s>>, i) = {t \in {s} : Fits(t, Resolved(i))}
  BY <1>1, CalledAre
<1>5. QED
  BY <1>1, <1>3, <1>4 DEF Associated

LEMMA IndependentFollows == DiscoveryInv => Independent
<1> SUFFICES ASSUME DiscoveryInv, pc = "done",
                    \A i \in Patches :
                       Cardinality(Matching(targets, PatchedPath(i), file[i].text.name)) =< 1
             PROVE  associations = UNION {Associated(<<s>>) : s \in ToSet(targets)}
  BY DEF Independent
<1>1. PICK n \in Nat : DOMAIN targets = 1..n
  BY DEF DiscoveryInv
<1>2. Patched(targets) = {s \in ToSet(targets) : \E i \in Patches : Fits(s, ResolvedPatch(i))}
  BY <1>1, PatchedAre
<1>3. \A i \in DOMAIN file : Called(targets, i) = {s \in ToSet(targets) : Fits(s, Resolved(i))}
  BY CalledAre
<1>4. associations = {s \in ToSet(targets) : /\ ~ \E i \in Patches : Fits(s, ResolvedPatch(i))
                                            /\ \E i \in DOMAIN file : Fits(s, Resolved(i))}
  BY <1>2, <1>3 DEF DiscoveryInv, Associated
<1>5. ASSUME NEW s \in ToSet(targets), NEW t
      PROVE  t \in Associated(<<s>>)
                <=> /\ t = s
                    /\ ~ \E i \in Patches : Fits(s, ResolvedPatch(i))
                    /\ \E i \in DOMAIN file : Fits(s, Resolved(i))
  BY Alone
<1>6. ASSUME NEW t
      PROVE  t \in associations <=> \E s \in ToSet(targets) : t \in Associated(<<s>>)
  BY <1>4, <1>5
<1>7. QED
  BY <1>6

\* Independent (discovery.py: a change of more or fewer functions, in any order, finds
\* the same tests for each): whichever targets there are, as long as no patch could be of
\* two.
THEOREM TargetsAreIndependent == Spec => []Independent
  BY DiscoveryHolds, IndependentFollows, PTL

-----------------------------------------------------------------------------
(* The map of imports *)

LEMMA SymbolAt ==
    ASSUME file \in Seq(Line), SymbolsRead, NEW n \in DOMAIN symbols
    PROVE  \E j \in Lines({"from"}) : file[j].text.as = n /\ symbols[n] = file[j].text
<1> DEFINE binding == {i \in Lines({"from"}) : file[i].text.as = n}
<1>1. n \in {file[i].text.as : i \in Lines({"from"})} /\ symbols[n] = file[Latest(binding)].text
  BY DEF SymbolsRead
<1>2. binding \in SUBSET (1..Len(file)) /\ binding # {} /\ Len(file) \in Nat
  BY <1>1, FileLines DEF Lines
<1>3. Latest(binding) \in binding
  <2> HIDE DEF binding
  <2>1. QED
    BY <1>2, LatestIs
<1>4. QED
  BY <1>1, <1>3

LEMMA ModuleAt ==
    ASSUME file \in Seq(Line), ModulesRead, NEW r \in DOMAIN modules
    PROVE  \E j \in Lines({"import", "import_as"}) :
              r \in ModuleNames(j) /\ modules[r] = file[j].text.path
<1> DEFINE imports == Lines({"import", "import_as"})
           binding == {i \in imports : r \in ModuleNames(i)}
<1>1. r \in UNION {ModuleNames(i) : i \in imports} /\ modules[r] = file[Latest(binding)].text.path
  BY DEF ModulesRead
<1>2. binding \in SUBSET (1..Len(file)) /\ binding # {} /\ Len(file) \in Nat
  BY <1>1, FileLines DEF Lines
<1>3. Latest(binding) \in binding
  <2> HIDE DEF binding
  <2>1. QED
    BY <1>2, LatestIs
<1>4. QED
  BY <1>1, <1>3

LEMMA NeverByNameFollows == DiscoveryInv => NeverByNameAlone
<1> SUFFICES ASSUME DiscoveryInv, pc = "done", NEW s \in associations
             PROVE  \E i \in Lines({"from", "import", "import_as"}) :
                       LET by == file[i].text
                       IN  IF by.form = "from"
                           THEN by.name = s.name /\ IsSuffix(by.path, s.module)
                           ELSE \E rest \in Suffixes(s.module) \cup {<<>>} :
                                   IsSuffix(by.path \o rest, s.module)
  BY DEF NeverByNameAlone
<1>1. file \in Seq(Line) /\ SymbolsRead /\ ModulesRead
  BY DEF DiscoveryInv
<1>2. s \in Symbol
  BY DEF DiscoveryInv, Associated, ToSet
<1>3. s.module \in Seq(STRING)
  BY <1>2, DiscoveryAssumption DEF Symbol
<1>4. PICK i \in DOMAIN file : s \in Called(targets, i)
  BY DEF DiscoveryInv, Associated
<1>5. PICK m \in Resolved(i) : m[2] = s.name /\ IsSuffix(m[1], s.module)
  BY <1>4, CalledAre DEF Fits
<1>6. CASE file[i].text.form = "call" /\ file[i].text.as \in DOMAIN symbols
  <2>1. PICK j \in Lines({"from"}) : symbols[file[i].text.as] = file[j].text
    BY <1>1, <1>6, SymbolAt
  <2>2. m[1] = file[j].text.path /\ m[2] = file[j].text.name
    BY <1>5, <1>6, <2>1 DEF Resolved
  <2>3. j \in Lines({"from", "import", "import_as"}) /\ file[j].text.form = "from"
    BY DEF Lines
  <2>4. QED
    BY <1>5, <2>2, <2>3
<1>7. CASE file[i].text.form = "qualified"
  <2> DEFINE p == file[i].text.path
  <2>1. m[1] \in Qualifier(p)
    BY <1>5, <1>7 DEF Resolved
  <2>2. p \in Receivers
    BY <1>1, <1>7, FileLines, LineForms
  <2> HIDE DEF p
  <2>3. PICK r \in DOMAIN modules, rest \in {<<>>, Tail(p)} : /\ rest \in Seq(STRING)
                                                         /\ m[1] = modules[r] \o rest
    <3>1. CASE p \in DOMAIN modules
      <4>1. m[1] = modules[p]
        BY <2>1, <3>1 DEF Qualifier
      <4>2. PICK j \in Lines({"import", "import_as"}) : modules[p] = file[j].text.path
        BY <1>1, <3>1, ModuleAt
      <4>3. modules[p] \in Seq(STRING)
        BY <1>1, <4>2, FileLines, LineForms, Paths DEF Lines
      <4>4. <<>> \in Seq(STRING) /\ modules[p] \o <<>> = modules[p]
        BY <4>3, EmptySeq, ConcatEmptySeq
      <4>5. QED
        BY <3>1, <4>1, <4>4
    <3>2. CASE p \notin DOMAIN modules
      <4>1. <<Head(p)>> \in DOMAIN modules /\ m[1] = modules[<<Head(p)>>] \o Tail(p)
        BY <2>1, <3>2 DEF Qualifier
      <4>2. QED
        BY <2>2, <4>1, Paths
    <3>3. QED
      BY <3>1, <3>2
  <2>4. PICK j \in Lines({"import", "import_as"}) : modules[r] = file[j].text.path
    BY <1>1, <2>3, ModuleAt
  <2>5. /\ file[j].text.path \in Seq(STRING)
        /\ j \in Lines({"from", "import", "import_as"}) /\ file[j].text.form # "from"
    BY <1>1, FileLines, LineForms, Paths DEF Lines
  <2>6. IsSuffix(file[j].text.path \o rest, s.module)
    BY <1>5, <2>3, <2>4
  <2>7. rest \in Suffixes(s.module)
    BY <1>3, <2>3, <2>5, <2>6, SuffixOfSuffix
  <2>8. QED
    BY <2>5, <2>6, <2>7
<1>8. QED
  BY <1>5, <1>6, <1>7 DEF Resolved

\* NeverByNameAlone (_build_import_map, _modules_match): a test file is associated with a
\* function only through an import that can be of its module, whatever else is rebound,
\* patched or assigned in it.
THEOREM NoneByNameAlone == Spec => []NeverByNameAlone
  BY DiscoveryHolds, NeverByNameFollows, PTL

-----------------------------------------------------------------------------
(* Plain files *)

\* How a line that reaches a function through the module a line binds names it.
Through(by, text) ==
    \/ by.form = "import" /\ by.path \in {<<Head(text.path)>>, text.path}
    \/ by.form = "import_as" /\ (text.form = "setattr" => Len(text.path) = 1)

\* The lines that bind what a line uses.
BoundBy(i) == UNION {Binders(n) : n \in Uses(i)}

LEMMA OneBinder ==
    ASSUME file \in Seq(Line), Plain, NEW i \in DOMAIN file, NEW n, Uses(i) = {n}
    PROVE  \E j \in DOMAIN file :
              /\ Binders(n) = {j} /\ TakenFor(n) = {j} /\ BoundBy(i) = {j}
              /\ file[i].text.form \in {"qualified", "setattr"} => Through(file[j].text, file[i].text)
<1>1. /\ Cardinality(Binders(n)) = 1 /\ TakenFor(n) = Binders(n)
      /\ \A j \in Binders(n) :
            file[i].text.form # "call" =>
               \/ /\ file[j].text.form = "import"
                  /\ file[j].text.path \in {<<n>>, file[i].text.path}
               \/ /\ file[j].text.form = "import_as"
                  /\ file[i].text.form = "setattr" => Len(file[i].text.path) = 1
  BY DEF Plain
<1>2. IsFiniteSet(1..Len(file)) /\ Binders(n) \in SUBSET (1..Len(file))
  BY FileLines, FS_Interval DEF Binders
<1>3. IsFiniteSet(Binders(n))
  BY <1>2, FS_Subset
<1>4. PICK j : Binders(n) = {j}
  BY <1>1, <1>3, FS_Singleton
<1>5. j \in DOMAIN file
  BY <1>4 DEF Binders
<1>6. file[i].text.form \in {"qualified", "setattr"} => n = Head(file[i].text.path)
  BY DEF Uses
<1>7. BoundBy(i) = {j}
  BY <1>4 DEF BoundBy
<1>8. QED
  BY <1>1, <1>4, <1>5, <1>6, <1>7 DEF Through

\* What a line means is what the one line that binds its name makes of it.
LEMMA MeantThrough ==
    ASSUME NEW i, NEW j, BoundBy(i) = {j}
    PROVE  /\ file[i].text.form = "call" /\ file[j].text.form = "from" =>
                 Meant(i) = {<<file[j].text.path, file[j].text.name>>}
           /\ file[i].text.form = "call" /\ file[j].text.form # "from" => Meant(i) = {}
           /\ file[i].text.form \in {"qualified", "setattr"} /\ file[j].text.form = "import" =>
                 Meant(i) = {<<file[i].text.path, file[i].text.name>>}
           /\ file[i].text.form \in {"qualified", "setattr"} /\ file[j].text.form = "import_as" =>
                 Meant(i) = {<<file[j].text.path \o Tail(file[i].text.path), file[i].text.name>>}
  BY DEF Meant, BoundBy

LEMMA CallMeant ==
    ASSUME file \in Seq(Line), SymbolsRead, Plain,
           NEW i \in DOMAIN file, file[i].text.form = "call"
    PROVE  Resolved(i) = Meant(i)
<1> DEFINE n == file[i].text.as
<1>1. Uses(i) = {n}
  BY DEF Uses
<1>2. PICK j \in DOMAIN file : Binders(n) = {j} /\ BoundBy(i) = {j}
  BY <1>1, OneBinder
<1>3. /\ file[j].text.form = "from" => Meant(i) = {<<file[j].text.path, file[j].text.name>>}
      /\ file[j].text.form # "from" => Meant(i) = {}
  BY <1>2, MeantThrough
<1>4. CASE n \in DOMAIN symbols
  <2>1. PICK k \in Lines({"from"}) : file[k].text.as = n /\ symbols[n] = file[k].text
    BY <1>4, SymbolAt
  <2>2. k \in Binders(n) /\ file[k].text.form = "from"
    BY <2>1 DEF Lines, Binders, Binds
  <2>3. QED
    BY <1>2, <1>3, <1>4, <2>1, <2>2 DEF Resolved
<1>5. CASE n \notin DOMAIN symbols
  <2>1. n \in Binds(j)
    BY <1>2 DEF Binders
  <2>2. file[j].text.form # "from"
    BY <1>5, <2>1 DEF SymbolsRead, Lines, Binds
  <2>3. QED
    BY <1>3, <1>5, <2>2 DEF Resolved
<1>6. QED
  BY <1>4, <1>5

\* The modules that the map has under a name that begins with n are those of the line
\* that binds n.
LEMMA ModulesOf ==
    ASSUME file \in Seq(Line), ModulesRead, NEW n, NEW j, TakenFor(n) = {j},
           NEW r \in DOMAIN modules, r[1] = n
    PROVE  r \in ModuleNames(j) /\ modules[r] = file[j].text.path
<1>1. PICK k \in Lines({"import", "import_as"}) : r \in ModuleNames(k) /\ modules[r] = file[k].text.path
  BY ModuleAt
<1>2. CASE file[k].text.form = "import_as"
  <2>1. r = <<file[k].text.as>>
    BY <1>1, <1>2 DEF ModuleNames
  <2>2. n \in Binds(k)
    BY <1>2, <2>1 DEF Binds
  <2>3. k \in TakenFor(n)
    BY <2>2 DEF TakenFor, Binders, Lines
  <2>4. QED
    BY <1>1, <2>3
<1>3. CASE file[k].text.form = "import"
  <2> DEFINE path == file[k].text.path
  <2>1. path \in Path /\ Head(path) = path[1]
    BY <1>3, FileLines, LineForms, Paths DEF Lines
  <2>2. r = path \/ r = <<Last(path)>>
    BY <1>1, <1>3 DEF ModuleNames
  <2>3. Head(path) = n \/ Last(path) = n
    BY <2>1, <2>2
  <2>4. k \in TakenFor(n)
    BY <1>3, <2>3 DEF TakenFor, Binders, Binds, Lines
  <2>5. QED
    BY <1>1, <2>4
<1>4. QED
  BY <1>2, <1>3 DEF Lines

LEMMA ModuleNamed ==
    ASSUME ModulesRead, NEW j \in Lines({"import", "import_as"}), NEW r \in ModuleNames(j)
    PROVE  r \in DOMAIN modules
  BY DEF ModulesRead

LEMMA HeadAndRest ==
    ASSUME NEW p \in Receivers
    PROVE  <<Head(p)>> \o Tail(p) = p
<1>1. p \in Seq(STRING) /\ p # <<>>
  BY Paths, EmptySeq
<1>2. QED
  BY <1>1

LEMMA QualifiedMeant ==
    ASSUME file \in Seq(Line), ModulesRead, Plain,
           NEW i \in DOMAIN file, file[i].text.form = "qualified"
    PROVE  Resolved(i) = Meant(i)
<1> DEFINE p == file[i].text.path
           n == Head(p)
<1>1. Uses(i) = {n}
  BY DEF Uses
<1>2. PICK j \in DOMAIN file :
         /\ Binders(n) = {j} /\ TakenFor(n) = {j} /\ BoundBy(i) = {j}
         /\ Through(file[j].text, file[i].text)
  BY <1>1, OneBinder
<1> DEFINE by == file[j].text
<1>3. p \in Receivers
  BY FileLines, LineForms
<1>4. /\ p \in Seq(STRING) /\ Len(p) \in Nat /\ Len(p) > 0 /\ Head(p) = p[1]
      /\ Len(p) = 1 => p = <<n>> /\ Tail(p) = <<>>
  BY <1>3, Paths
<1>5. Resolved(i) = {<<path, file[i].text.name>> : path \in Qualifier(p)}
  BY DEF Resolved
<1>6. /\ p \in DOMAIN modules => p \in ModuleNames(j) /\ modules[p] = by.path
      /\ <<n>> \in DOMAIN modules => <<n>> \in ModuleNames(j) /\ modules[<<n>>] = by.path
  BY <1>2, <1>4, ModulesOf
<1>7. n \in Binds(j)
  BY <1>2 DEF Binders
<1>8. CASE by.form = "import_as"
  <2>1. ModuleNames(j) = {<<n>>}
    BY <1>7, <1>8 DEF ModuleNames, Binds
  <2>2. <<n>> \in DOMAIN modules
    BY <1>8, <2>1, ModuleNamed DEF Lines
  <2>3. Qualifier(p) = {by.path \o Tail(p)}
    <3>1. CASE p \in DOMAIN modules
      <4>1. p = <<n>> /\ Tail(p) = <<>>
        BY <1>6, <2>1, <3>1, <1>4
      <4>2. by.path \in Seq(STRING)
        BY <1>8, FileLines, LineForms, Paths
      <4>3. by.path \o Tail(p) = by.path
        BY <4>1, <4>2, ConcatEmptySeq
      <4>4. QED
        BY <1>6, <3>1, <4>3 DEF Qualifier
    <3>2. CASE p \notin DOMAIN modules
      <4>1. Len(p) > 1
        BY <1>4, <2>2, <3>2
      <4>2. QED
        BY <1>6, <2>2, <3>2, <4>1 DEF Qualifier
    <3>3. QED
      BY <3>1, <3>2
  <2>4. Meant(i) = {<<by.path \o Tail(p), file[i].text.name>>}
    BY <1>2, <1>8, MeantThrough
  <2>5. QED
    BY <1>5, <2>3, <2>4
<1>9. CASE by.form = "import"
  <2>1. by.path \in {<<n>>, p} /\ by.path \in ModuleNames(j)
    BY <1>2, <1>9 DEF Through, ModuleNames
  <2>2. by.path \in DOMAIN modules
    BY <1>9, <2>1, ModuleNamed DEF Lines
  <2>3. Qualifier(p) = {p}
    <3>1. CASE by.path = p
      BY <1>6, <2>2, <3>1 DEF Qualifier
    <3>2. CASE by.path = <<n>> /\ p \in DOMAIN modules
      <4>1. ModuleNames(j) = {<<n>>}
        BY <1>9, <3>2 DEF ModuleNames, Last
      <4>2. p = by.path
        BY <1>6, <3>2, <4>1
      <4>3. QED
        BY <3>1, <4>2
    <3>3. CASE by.path = <<n>> /\ p \notin DOMAIN modules
      <4>1. Len(p) > 1
        BY <1>4, <2>2, <3>3
      <4>2. Qualifier(p) = {<<n>> \o Tail(p)}
        BY <1>6, <2>2, <3>3, <4>1 DEF Qualifier
      <4>3. QED
        BY <1>3, <4>2, HeadAndRest
    <3>4. QED
      BY <2>1, <3>1, <3>2, <3>3
  <2>4. Meant(i) = {<<p, file[i].text.name>>}
    BY <1>2, <1>9, MeantThrough
  <2>5. QED
    BY <1>5, <2>3, <2>4
<1>10. QED
  BY <1>2, <1>8, <1>9 DEF Through

LEMMA PatchMeant ==
    ASSUME file \in Seq(Line), SymbolsRead, ModulesRead, Plain, NEW i \in Patches
    PROVE  ResolvedPatch(i) = Meant(i)
<1> DEFINE p == file[i].text.path
           n == Head(p)
<1>1. CASE file[i].text.form = "patch"
  BY <1>1 DEF ResolvedPatch, PatchedPath, Meant
<1>2. CASE file[i].text.form = "setattr"
  <2>1. Uses(i) = {n} /\ i \in DOMAIN file
    BY <1>2 DEF Uses, Patches, Lines
  <2>2. PICK j \in DOMAIN file :
           /\ Binders(n) = {j} /\ TakenFor(n) = {j} /\ BoundBy(i) = {j}
         /\ Through(file[j].text, file[i].text)
    BY <1>2, <2>1, OneBinder
  <2> DEFINE by == file[j].text
  <2>3. p \in Receivers
    BY <1>2, <2>1, FileLines, LineForms
  <2>4. /\ p \in Seq(STRING) /\ Len(p) \in Nat /\ Len(p) > 0 /\ Head(p) = p[1]
        /\ Len(p) = 1 => p = <<n>> /\ Tail(p) = <<>>
    BY <2>3, Paths
  <2>5. n \notin DOMAIN symbols
    <3>1. SUFFICES ASSUME n \in DOMAIN symbols PROVE FALSE
      OBVIOUS
    <3>2. PICK k \in Lines({"from"}) : file[k].text.as = n
      BY <3>1, SymbolAt
    <3>3. k \in Binders(n) /\ file[k].text.form = "from"
      BY <3>2 DEF Lines, Binders, Binds
    <3>4. QED
      BY <2>2, <3>3 DEF Through
  <2>6. /\ p \in DOMAIN modules => ResolvedPatch(i) = {<<modules[p], file[i].text.name>>}
        /\ p \notin DOMAIN modules => ResolvedPatch(i) = {<<p, file[i].text.name>>}
    <3>1. PatchedPath(i) = Receiver(p) /\ p[1] \notin DOMAIN symbols
      BY <1>2, <2>4, <2>5 DEF PatchedPath
    <3>2. /\ p \in DOMAIN modules => Receiver(p) = modules[p]
          /\ p \notin DOMAIN modules => Receiver(p) = p
      BY <3>1 DEF Receiver
    <3>3. QED
      BY <3>1, <3>2 DEF ResolvedPatch
  <2>7. p \in DOMAIN modules => p \in ModuleNames(j) /\ modules[p] = by.path
    <3>1. p[1] = n /\ TakenFor(n) = {j}
      BY <2>2, <2>4
    <3> HIDE DEF p, n
    <3>2. QED
      BY <3>1, ModulesOf
  <2>8. n \in Binds(j)
    BY <2>2 DEF Binders
  <2>9. CASE by.form = "import"
    <3>1. Meant(i) = {<<p, file[i].text.name>>}
      BY <1>2, <2>2, <2>9, MeantThrough
    <3>2. p \in DOMAIN modules => modules[p] = p
      <4>1. ASSUME by.path = <<n>> PROVE ModuleNames(j) = {<<n>>}
        BY <2>9, <4>1 DEF ModuleNames, Last
      <4>2. by.path \in {<<n>>, p}
        BY <2>2, <2>9 DEF Through
      <4>3. QED
        BY <2>7, <4>1, <4>2
    <3>3. QED
      BY <2>6, <3>1, <3>2
  <2>10. CASE by.form = "import_as"
    <3>1. p = <<n>> /\ Tail(p) = <<>>
      BY <1>2, <2>2, <2>4, <2>10 DEF Through
    <3>2. p \in ModuleNames(j)
      BY <2>8, <2>10, <3>1 DEF ModuleNames, Binds
    <3>3. p \in DOMAIN modules
      BY <2>10, <3>2, ModuleNamed DEF Lines
    <3>4. by.path \in Seq(STRING)
      BY <2>10, FileLines, LineForms, Paths
    <3>5. by.path \o Tail(p) = by.path
      BY <3>1, <3>4, ConcatEmptySeq
    <3>6. Meant(i) = {<<by.path \o Tail(p), file[i].text.name>>}
      BY <1>2, <2>2, <2>10, MeantThrough
    <3>7. QED
      BY <2>6, <2>7, <3>3, <3>5, <3>6
  <2>11. QED
    BY <2>2, <2>9, <2>10 DEF Through
<1>3. QED
  BY <1>1, <1>2 DEF Patches, Lines

LEMMA AssociationsFollow == DiscoveryInv => AssociationsExact
<1> SUFFICES ASSUME DiscoveryInv, pc = "done", Plain, Unambiguous
             PROVE  associations =
                       {s \in ToSet(targets) :
                           /\ Fits(s, MeantBy({"call", "qualified"}))
                           /\ ~Fits(s, MeantBy({"patch", "setattr"}))}
  BY DEF AssociationsExact
<1>1. file \in Seq(Line) /\ SymbolsRead /\ ModulesRead
  BY DEF DiscoveryInv
<1>2. PICK n \in Nat : DOMAIN targets = 1..n
  BY DEF DiscoveryInv
<1>3. ASSUME NEW i \in Patches
      PROVE  /\ ResolvedPatch(i) = Meant(i)
             /\ Cardinality(Matching(targets, PatchedPath(i), file[i].text.name)) =< 1
  <2>1. ResolvedPatch(i) = Meant(i)
    BY <1>1, PatchMeant
  <2>2. <<PatchedPath(i), file[i].text.name>> \in MeantBy({"call", "qualified", "patch", "setattr"})
    BY <2>1 DEF ResolvedPatch, MeantBy, Patches, Lines
  <2>3. QED
    BY <2>1, <2>2 DEF Unambiguous
<1>4. ASSUME NEW s \in ToSet(targets)
      PROVE  s \in Patched(targets) <=> Fits(s, MeantBy({"patch", "setattr"}))
  <2>1. s \in Patched(targets) <=> \E i \in Patches : Fits(s, Meant(i))
    BY <1>2, <1>3, PatchedAre
  <2>2. QED
    BY <2>1 DEF Fits, MeantBy, Patches
<1>5. ASSUME NEW s \in ToSet(targets)
      PROVE  (\E i \in DOMAIN file : s \in Called(targets, i)) <=> Fits(s, MeantBy({"call", "qualified"}))
  <2>1. ASSUME NEW i \in DOMAIN file
        PROVE  Resolved(i) = IF i \in Lines({"call", "qualified"}) THEN Meant(i) ELSE {}
    <3>1. CASE file[i].text.form = "call"
      BY <1>1, <3>1, CallMeant DEF Lines
    <3>2. CASE file[i].text.form = "qualified"
      BY <1>1, <3>2, QualifiedMeant DEF Lines
    <3>3. CASE file[i].text.form \notin {"call", "qualified"}
      BY <3>3 DEF Lines, Resolved
    <3>4. QED
      BY <3>1, <3>2, <3>3
  <2>2. \A i \in DOMAIN file : s \in Called(targets, i) <=> Fits(s, Resolved(i))
    BY CalledAre
  <2>3. (\E i \in DOMAIN file : s \in Called(targets, i))
           <=> \E i \in Lines({"call", "qualified"}) : Fits(s, Meant(i))
    BY <2>1, <2>2 DEF Fits, Lines
  <2>4. QED
    BY <2>3 DEF Fits, MeantBy
<1>6. QED
  BY <1>4, <1>5 DEF DiscoveryInv, Associated

\* AssociationsExact (analyze_associations): of a test file that uses each name for one
\* thing, the analysis says what Python would do, whatever the scopes, the number of
\* lines and the order of the tests.
THEOREM AssociationsAreExact == Spec => []AssociationsExact
  BY DiscoveryHolds, AssociationsFollow, PTL

=============================================================================
