--------------------------- MODULE FindingsProofs ---------------------------
(***************************************************************************)
(* What becomes of the findings of a scan, whatever it is asked: which     *)
(* ones are kept, shown, sent to the app and counted by the exit code.     *)
(***************************************************************************)
EXTENDS ExitProofs

-----------------------------------------------------------------------------
(* The findings of a rule are a list *)

MatchesAreLists(found) == \A rule \in DOMAIN found : IsList(found[rule])

\* What the proofs look at in a finding of the engine.
FindingFields == {"rule", "path", "code", "severity", "ignored", "kind", "reachable",
                  "dependency", "priorName", "index", "matchIndex"}

LEMMA ListIsFinite ==
    ASSUME NEW list, IsList(list)
    PROVE  IsFiniteSet(ToSet(list))
<1>1. Len(list) \in Nat /\ DOMAIN list = 1..Len(list)
  BY ListDomain
<1>2. IsFiniteSet(DOMAIN list)
  BY <1>1, FS_Interval
<1>3. IsFiniteSet({list[i] : i \in DOMAIN list})
  BY <1>2, FiniteRange
<1>4. QED
  BY <1>3 DEF ToSet

\* The engine answers with what it found, each finding once.
LEMMA AnswerIs ==
    ASSUME NEW S, IsFiniteSet(S), NEW answer \in SetToSeqs(S)
    PROVE  IsList(answer) /\ ToSet(answer) = S /\ IsInjective(answer)
<1> DEFINE n == Cardinality(S)
           D == 1..n
<1>1. n \in Nat /\ answer \in [D -> S] /\ \A i, j \in D : i # j => answer[i] # answer[j]
  BY FS_CardinalityType DEF SetToSeqs
<1>2. IsFiniteSet(D) /\ Cardinality(D) = n
  <2> HIDE DEF n
  <2>1. IsFiniteSet(D) /\ Cardinality(D) = IF 1 > n THEN 0 ELSE n - 1 + 1
    BY <1>1, FS_Interval
  <2>2. QED
    BY <1>1, <2>1
<1>3. IsInjective(answer)
  BY <1>1 DEF IsInjective
<1>4. answer \in Injection(D, S)
  BY <1>1, <1>3 DEF Injection, IsInjective
<1>5. answer \in Surjection(D, S)
  BY <1>2, <1>4, FS_Injection
<1>6. ToSet(answer) = S
  BY <1>1, <1>5 DEF Surjection, ToSet
<1>7. IsList(answer)
  <2> HIDE DEF n
  <2>1. answer = [i \in 1..n |-> answer[i]]
    BY <1>1
  <2>2. QED
    BY <1>1, <2>1, ListByDomain
<1>8. QED
  BY <1>3, <1>6, <1>7

\* The findings of a rule are those of the answer, numbered and sorted.
LEMMA OwnFindings ==
    ASSUME NEW sent, NEW rule \in ToSet(sent), NEW answer, IsList(answer),
           \A x \in ToSet(answer) : FindingFields \subseteq DOMAIN x
    PROVE  LET own == CoreMatchesToRuleMatches(sent, answer)[rule]
           IN /\ IsList(own)
              /\ \A m \in ToSet(own) :
                    \E x \in ToSet(answer) :
                       /\ DOMAIN m = DOMAIN x
                       /\ x.rule = rule.id /\ IsInRuleTable(rule, sent)
                       /\ \A field \in FindingFields \ {"severity", "index", "matchIndex"} :
                             m[field] = x[field]
<1> DEFINE found == Only(answer, {match \in ToSet(answer) :
                                     match.rule = rule.id /\ IsInRuleTable(rule, sent)})
           own   == [i \in DOMAIN found |-> ConvertToRuleMatch(found[i], rule)]
           told  == RuleMatchesOf(own)
<1>1. CoreMatchesToRuleMatches(sent, answer)[rule] = SortMatches(told)
  BY DEF CoreMatchesToRuleMatches
<1>2. /\ IsList(found)
      /\ ToSet(found) = ToSet(answer) \cap {match \in ToSet(answer) :
                                     match.rule = rule.id /\ IsInRuleTable(rule, sent)}
  BY OnlyKept
<1> HIDE DEF found
<1>3. IsList(own) /\ DOMAIN own = DOMAIN found
  <2>1. own = [i \in DOMAIN found |-> own[i]]
    OBVIOUS
  <2> HIDE DEF own
  <2>2. QED
    BY <1>2, <2>1, MappedList
<1>4. IsList(told) /\ DOMAIN told = DOMAIN found /\ ToSet(told) = {told[i] : i \in DOMAIN found}
  <2>1. told = [i \in DOMAIN own |-> told[i]]
    BY DEF RuleMatchesOf
  <2> HIDE DEF own, told
  <2>2. QED
    BY <1>3, <2>1, MappedList
<1>5. ASSUME NEW i \in DOMAIN found
      PROVE  LET x == found[i] m == told[i]
             IN /\ x \in ToSet(answer) /\ x.rule = rule.id /\ IsInRuleTable(rule, sent)
                /\ DOMAIN m = DOMAIN x
                /\ \A field \in FindingFields \ {"severity", "index", "matchIndex"} :
                      m[field] = x[field]
  <2> DEFINE x == found[i]
             y == own[i]
             m == told[i]
  <2>1. x \in ToSet(found)
    BY DEF ToSet
  <2>2. x \in ToSet(answer) /\ x.rule = rule.id /\ IsInRuleTable(rule, sent)
    BY <1>2, <2>1
  <2>3. FindingFields \subseteq DOMAIN x
    BY <2>2
  <2>4. y = [x EXCEPT !.severity = IF @ = NoSeverity THEN rule.severity ELSE @]
    BY DEF ConvertToRuleMatch
  <2>5. \E a, b : m = [y EXCEPT !.index = a, !.matchIndex = b]
    <3> HIDE DEF own
    <3>1. QED
      BY <1>3 DEF RuleMatchesOf
  <2> HIDE DEF x, y, m
  <2>6. DOMAIN y = DOMAIN x /\ \A field \in DOMAIN x : field # "severity" => y[field] = x[field]
    BY <2>4
  <2>7. DOMAIN m = DOMAIN x
        /\ \A field \in DOMAIN x : field \notin {"index", "matchIndex"} => m[field] = y[field]
    BY <2>5, <2>6
  <2>8. \A field \in FindingFields \ {"severity", "index", "matchIndex"} : m[field] = x[field]
    BY <2>3, <2>6, <2>7
  <2>9. QED
    BY <2>2, <2>7, <2>8 DEF x, m
<1> HIDE DEF told
<1>6. IsList(SortMatches(told)) /\ ToSet(SortMatches(told)) = ToSet(told)
  BY <1>4, SortedList
<1>7. QED
  BY <1>1, <1>4, <1>5, <1>6

\* A finding of Supply Chain for each finding of the engine and each dependency.
Reaching(m, dep) == [m EXCEPT !.kind = "sca", !.reachable = TRUE, !.dependency = dep]

LEMMA ReachableAre ==
    ASSUME NEW rule, NEW own, NEW subprojects, NEW r \in GenerateReachable(rule, own, subprojects)
    PROVE  \E m \in own : \E dep \in UNION {s.deps : s \in subprojects} : r = Reaching(m, dep)
<1> DEFINE Reached(m) == UNION {ReachableDeps(rule, s) : s \in NearestSubprojects(m, rule, subprojects)}
<1>1. GenerateReachable(rule, own, subprojects)
          = UNION {{Reaching(m, dep) : dep \in Reached(m)} : m \in own}
  BY Zenon DEF GenerateReachable, Reaching
<1>2. \E m \in own : \E dep \in Reached(m) : r = Reaching(m, dep)
  <2> HIDE DEF Reached
  <2>1. QED
    BY <1>1
<1> PICK m \in own : \E dep \in Reached(m) : r = Reaching(m, dep)
  BY <1>2
<1> PICK dep \in Reached(m) : r = Reaching(m, dep)
  OBVIOUS
<1> PICK s \in NearestSubprojects(m, rule, subprojects) : dep \in ReachableDeps(rule, s)
  OBVIOUS
<1>3. PICK d \in rule.dependsOn : s \in Nearest(m, d.ecosystem, rule, subprojects)
  BY DEF NearestSubprojects
<1>4. s \in ResolvedFor(rule, subprojects)
  <2> DEFINE closest == ClosestSubprojects(m.path,
                 {x \in ResolvedFor(rule, subprojects) : x.ecosystem = d.ecosystem})
  <2>1. closest \subseteq ResolvedFor(rule, subprojects)
    BY DEF ClosestSubprojects
  <2>2. Nearest(m, d.ecosystem, rule, subprojects)
            = IF closest = {} THEN {} ELSE {CHOOSE x \in closest : TRUE}
    BY DEF Nearest
  <2> HIDE DEF closest
  <2>3. QED
    BY <1>3, <2>1, <2>2
<1>5. s \in subprojects /\ ReachableDeps(rule, s) \subseteq s.deps
  BY <1>4 DEF ResolvedFor, ReachableDeps, VulnerableDeps, RangeMatches
<1>6. QED
  BY <1>5

\* What the patterns of a rule make reachable.
ReachedBy(rule, own) ==
    IF ShouldRunOnCore(rule) THEN GenerateReachable(rule, own, job.subprojects) ELSE {}

\* The findings of a rule about dependencies are what is reachable and, numbered,
\* what is not.
LEMMA ScaLists ==
    ASSUME NEW rule, NEW own, IsFiniteSet(own),
           IsFiniteSet(UNION {s.deps : s \in job.subprojects})
    PROVE  LET told == ToSet(ScaMatches(rule, own))
               others == GenerateUnreachable(rule, ReachedBy(rule, own), job.subprojects)
           IN /\ IsList(ScaMatches(rule, own))
              /\ ReachedBy(rule, own) \subseteq told
              /\ \A m \in told : \/ m \in ReachedBy(rule, own)
                                 \/ ~m.reachable /\ \E x \in others :
                                        m.dependency = x.dependency /\ m.path = x.path
              /\ \A x \in others : \E m \in told :
                    ~m.reachable /\ m.dependency = x.dependency /\ m.path = x.path
<1> DEFINE Deps == UNION {s.deps : s \in job.subprojects}
           reachable == IF ShouldRunOnCore(rule)
                        THEN GenerateReachable(rule, own, job.subprojects) ELSE {}
           unreachable == GenerateUnreachable(rule, reachable, job.subprojects)
           others == SetToSeq(unreachable)
           told == [i \in DOMAIN others |->
                       [others[i] EXCEPT !.matchIndex = Cardinality(SimilarBefore(others, i))]]
<1>1. IsFiniteSet(Deps)
  OBVIOUS
<1>2. IsFiniteSet(reachable)
  <2> DEFINE f == [p \in own \X Deps |-> Reaching(p[1], p[2])]
             all == {f[p] : p \in own \X Deps}
  <2>1. IsFiniteSet(own \X Deps)
    BY <1>1, FS_Product
  <2>2. IsFiniteSet(all)
    <3> DEFINE D == own \X Deps
    <3>1. DOMAIN f = D
      OBVIOUS
    <3> HIDE DEF f, D
    <3>2. IsFiniteSet({f[p] : p \in D})
      BY <2>1, <3>1, FiniteRange DEF D
    <3>3. QED
      BY <3>2 DEF D
  <2>3. GenerateReachable(rule, own, job.subprojects) \subseteq all
    <3> SUFFICES ASSUME NEW r \in GenerateReachable(rule, own, job.subprojects)
                 PROVE  r \in all
      OBVIOUS
    <3>1. PICK m \in own, dep \in Deps : r = Reaching(m, dep)
      BY ReachableAre
    <3>2. <<m, dep>> \in own \X Deps /\ f[<<m, dep>>] = r
      BY <3>1
    <3> HIDE DEF f
    <3>3. QED
      BY <3>2
  <2> HIDE DEF all
  <2>4. reachable \in SUBSET all
    BY <2>3
  <2>5. QED
    BY <2>2, <2>4, FS_Subset
<1> HIDE DEF reachable
<1>3. IsFiniteSet(unreachable)
  <2> DEFINE f == [dep \in Deps |-> UnreachableFinding(rule, dep)]
             all == {f[dep] : dep \in Deps}
  <2>1. IsFiniteSet(all)
    <3>1. DOMAIN f = Deps
      OBVIOUS
    <3> HIDE DEF f, Deps
    <3>2. QED
      BY <1>1, <3>1, FiniteRange
  <2>2. unreachable \subseteq all
    BY DEF GenerateUnreachable, ResolvedFor, VulnerableDeps, RangeMatches
  <2> HIDE DEF all
  <2>3. unreachable \in SUBSET all
    BY <2>2
  <2>4. QED
    BY <2>1, <2>3, FS_Subset
<1>4. /\ IsList(SetToSeq(reachable)) /\ ToSet(SetToSeq(reachable)) = reachable
      /\ IsList(others) /\ ToSet(others) = unreachable
  <2> HIDE DEF unreachable
  <2>1. QED
    BY <1>2, <1>3, SetAsList
<1>5. IsList(told) /\ ToSet(told) = {told[i] : i \in DOMAIN others}
  <2>1. told = [i \in DOMAIN others |-> told[i]]
    OBVIOUS
  <2> HIDE DEF others, told
  <2>2. QED
    BY <1>4, <2>1, MappedList
<1>6. ScaMatches(rule, own) = SetToSeq(reachable) \o told
  BY DEF ScaMatches, reachable
<1>7. IsList(ScaMatches(rule, own)) /\ ToSet(ScaMatches(rule, own)) = reachable \cup ToSet(told)
  <2> HIDE DEF told
  <2>1. QED
    BY <1>4, <1>5, <1>6, ListConcat
<1>8. ASSUME NEW i \in DOMAIN others
      PROVE  /\ others[i] \in unreachable /\ ~told[i].reachable
             /\ told[i].dependency = others[i].dependency /\ told[i].path = others[i].path
  <2>1. others[i] \in unreachable
    <3>1. others[i] \in ToSet(others)
      BY DEF ToSet
    <3> HIDE DEF others, unreachable
    <3>2. QED
      BY <1>4, <3>1
  <2>2. PICK dep : others[i] = UnreachableFinding(rule, dep)
    BY <2>1 DEF GenerateUnreachable
  <2>3. {"reachable", "dependency", "path"} \subseteq DOMAIN others[i] /\ others[i].reachable = FALSE
    BY <2>2 DEF UnreachableFinding
  <2> HIDE DEF others, unreachable
  <2>4. QED
    BY <2>1, <2>3
<1>9. reachable = ReachedBy(rule, own)
  BY DEF reachable, ReachedBy
<1>10. \A m \in ToSet(told) : ~m.reachable /\ \E x \in unreachable :
           m.dependency = x.dependency /\ m.path = x.path
  <2> HIDE DEF told, others, unreachable
  <2>1. QED
    BY <1>5, <1>8
<1>11. ASSUME NEW x \in unreachable
       PROVE  \E m \in ToSet(told) : ~m.reachable /\ m.dependency = x.dependency /\ m.path = x.path
  <2> HIDE DEF told, others, unreachable
  <2>1. PICK i \in DOMAIN others : others[i] = x
    BY <1>4 DEF ToSet
  <2>2. told[i] \in ToSet(told)
    BY <1>5
  <2>3. QED
    BY <1>8, <2>1, <2>2
<1>12. unreachable = GenerateUnreachable(rule, ReachedBy(rule, own), job.subprojects)
  BY <1>9
<1> HIDE DEF told, others, unreachable
<1>13. QED
  BY <1>7, <1>9, <1>10, <1>11, <1>12

AreRows(results, P) ==
    \A row \in results : {"path", "line", "vars"} \subseteq DOMAIN row /\ <<row.path, row.line>> \in P

\* The rows of a collection of a join rule are those of the inner scan, at their places.
LEMMA RowsOfJoin ==
    ASSUME NEW P, NEW results, NEW aliases, NEW conditions, NEW name, AreRows(results, P)
    PROVE  \A row \in ModelOfCollection(results, aliases, conditions, name) :
               <<row.path, row.line>> \in P
<1> DEFINE rows == Model(results, aliases[name])
<1> USE DEF AreRows
<1>1. rows \subseteq results
  BY DEF Model
<1>2. ASSUME NEW a, NEW b, NEW row \in RecursiveModel(rows, a, b)
      PROVE  <<row.path, row.line>> \in P
  <2> DEFINE With(r, q) == [r EXCEPT !.vars = [n \in {a, b} |-> IF n = a THEN q[1] ELSE q[2]]]
  <2>1. RecursiveModel(rows, a, b)
            = {With(rp[1], rp[2]) :
                  rp \in {link \in rows \X Closure(rows, a, b) : link[1].vars[b] = link[2][2]}}
    BY Zenon DEF RecursiveModel
  <2>2. PICK r \in rows : \E q : row = With(r, q)
    <3> HIDE DEF With, rows
    <3>1. QED
      BY <1>2, <2>1
  <2>3. r \in results
    BY <1>1
  <2>4. row.path = r.path /\ row.line = r.line
    BY <2>2, <2>3
  <2>5. QED
    BY <2>3, <2>4
<1>3. QED
  BY <1>1, <1>2 DEF ModelOfCollection

LEMMA JoinedAre ==
    ASSUME NEW P, NEW results, NEW aliases, NEW conditions, IsList(conditions),
           ~ConditionsRaise(conditions), AreRows(results, P)
    PROVE  \A m \in MatchOnConditions(results, aliases, conditions) :
               \E p \in P : m = [path |-> p[1], line |-> p[2]]
<1> DEFINE normal == Only(conditions, {c \in ToSet(conditions) : c.operator # "-->"})
           names  == CollectionSet(conditions)
           rows   == [n \in names |-> ModelOfCollection(results, aliases, conditions, n)]
           last   == Last(normal).b
<1>1. last \in names
  <2>1. IsList(normal)
        /\ ToSet(normal) = ToSet(conditions) \cap {c \in ToSet(conditions) : c.operator # "-->"}
    BY OnlyKept
  <2>2. ToSet(normal) # {}
    <3>1. PICK i \in DOMAIN conditions : conditions[i].operator # "-->"
      BY DEF ConditionsRaise
    <3>2. conditions[i] \in ToSet(conditions)
      BY DEF ToSet
    <3> HIDE DEF normal
    <3>3. QED
      BY <2>1, <3>1, <3>2
  <2> HIDE DEF normal
  <2>3. Len(normal) \in Nat /\ DOMAIN normal = 1..Len(normal) /\ Len(normal) # 0
    BY <2>1, <2>2, ListDomain DEF ToSet
  <2>4. Last(normal) \in ToSet(normal)
    BY <2>1, <2>3, ListDomain DEF Last
  <2>5. PICK i \in DOMAIN conditions : Last(normal) = conditions[i]
    BY <2>1, <2>4 DEF ToSet
  <2>6. QED
    BY <2>5 DEF CollectionSet
<1> HIDE DEF last
<1>2. ASSUME NEW m \in MatchOnConditions(results, aliases, conditions)
      PROVE  \E f : f[last] \in rows[last] /\ m = [path |-> f[last].path, line |-> f[last].line]
  <2>1. PICK f : /\ \A n \in names : f[n] \in rows[n]
                 /\ m = [path |-> f[Last(normal).b].path, line |-> f[Last(normal).b].line]
    <3> HIDE DEF normal
    <3>1. QED
      BY <1>2 DEF MatchOnConditions, normal
  <2>2. QED
    <3> HIDE DEF normal, names, rows
    <3>1. QED
      BY <1>1, <2>1 DEF last
<1>3. \A row \in rows[last] : <<row.path, row.line>> \in P
  BY <1>1, RowsOfJoin
<1> HIDE DEF rows
<1>4. ASSUME NEW m \in MatchOnConditions(results, aliases, conditions)
      PROVE  \E p \in P : m = [path |-> p[1], line |-> p[2]]
  <2>1. PICK f : f[last] \in rows[last] /\ m = [path |-> f[last].path, line |-> f[last].line]
    BY <1>2
  <2> DEFINE p == <<f[last].path, f[last].line>>
  <2>2. p \in P /\ m = [path |-> p[1], line |-> p[2]]
    BY <1>3, <2>1
  <2>3. QED
    BY <2>2
<1>5. QED
  BY <1>4

\* A join rule finds something in finitely many places.
LEMMA JoinIsFinite ==
    ASSUME IsRequest(request), folder \in {"head", "worktree"}, NEW rule
    PROVE  IsFiniteSet(JoinAnswer(rule).found)
<1> DEFINE asked == request.joins[rule.id]
           results == asked.results[folder]
           named == {RenameMetavars(r, RenamesOf(asked.join, asked.configs, r.rule)) : r \in results}
           f == [r \in results |-> [path |-> r.path, line |-> r.line]]
           P == {<<r.path, r.line>> : r \in results}
           All == {f[r] : r \in results}
<1>1. CASE JoinAnswer(rule).found = {}
  BY <1>1, FS_EmptySet
<1>2. CASE JoinAnswer(rule).found # {}
  <2>1. rule.id \in DOMAIN request.joins
        /\ JoinAnswer(rule) = RunJoinRule(asked.join, asked.configs, results)
    BY <1>2 DEF JoinAnswer, NothingJoined
  <2>2. /\ IsList(asked.join.on) /\ IsFiniteSet(results)
        /\ \A row \in results : {"path", "line", "vars"} \subseteq DOMAIN row
    BY <2>1 DEF IsRequest, IsJoin
  <2> HIDE DEF asked, results
  <2> DEFINE join == asked.join
             configs == asked.configs
             aliases == AliasLookup(join, configs)
             invalid == \E i \in DOMAIN join.on : ~join.on[i].valid
             unknown == CollectionSet(join.on) \ DOMAIN aliases
             there == {aliases[c] : c \in CollectionSet(join.on)} \subseteq {r.rule : r \in results}
             joined == MatchOnConditions(named, aliases, join.on)
             raising == ConfigMapRaises(join, configs)
  <2>3. ~ConditionsRaise(asked.join.on) /\ JoinAnswer(rule).found = joined
    <3>1. RunJoinRule(join, configs, results)
            = CASE raising -> [raised |-> TRUE, found |-> {}, invalid |-> FALSE]
                [] ~raising /\ invalid -> [raised |-> FALSE, found |-> {}, invalid |-> TRUE]
                [] ~raising /\ ~invalid /\ unknown # {} ->
                     [raised |-> TRUE, found |-> {}, invalid |-> FALSE]
                [] OTHER ->
                     IF there
                     THEN IF ConditionsRaise(join.on)
                          THEN [raised |-> TRUE, found |-> {}, invalid |-> FALSE]
                          ELSE [raised |-> FALSE, invalid |-> FALSE, found |-> joined]
                     ELSE NothingJoined
      BY Zenon DEF RunJoinRule
    <3>2. JoinAnswer(rule) = RunJoinRule(join, configs, results)
      BY <2>1
    <3> HIDE DEF raising, invalid, unknown, there, joined
    <3>3. QED
      BY <1>2, <3>1, <3>2 DEF NothingJoined
  <2>4. AreRows(named, P)
    <3> SUFFICES ASSUME NEW row \in named
                 PROVE  {"path", "line", "vars"} \subseteq DOMAIN row /\ <<row.path, row.line>> \in P
      BY DEF AreRows
    <3>1. PICK r \in results : row = RenameMetavars(r, RenamesOf(asked.join, asked.configs, r.rule))
      OBVIOUS
    <3>2. \E values : row = [r EXCEPT !.vars = values]
      BY <3>1 DEF RenameMetavars
    <3>3. DOMAIN row = DOMAIN r /\ row.path = r.path /\ row.line = r.line
      BY <2>2, <3>2
    <3>4. QED
      BY <2>2, <3>3
  <2>5. \A m \in JoinAnswer(rule).found : \E p \in P : m = [path |-> p[1], line |-> p[2]]
    <3> HIDE DEF named, P, aliases
    <3>1. \A m \in MatchOnConditions(named, aliases, join.on) :
              \E p \in P : m = [path |-> p[1], line |-> p[2]]
      <4>1. IsList(join.on) /\ ~ConditionsRaise(join.on)
        BY <2>2, <2>3
      <4> HIDE DEF join
      <4>2. QED
        BY <2>4, <4>1, JoinedAre
    <3>2. QED
      BY <2>3, <3>1
  <2>6. JoinAnswer(rule).found \subseteq All
    <3> SUFFICES ASSUME NEW m \in JoinAnswer(rule).found
                 PROVE  m \in All
      OBVIOUS
    <3>1. PICK p \in P : m = [path |-> p[1], line |-> p[2]]
      BY <2>5
    <3>2. PICK r \in results : p = <<r.path, r.line>>
      OBVIOUS
    <3>3. m = f[r]
      BY <3>1, <3>2
    <3> HIDE DEF f
    <3>4. QED
      BY <3>3
  <2>7. IsFiniteSet(All)
    <3>1. DOMAIN f = results
      OBVIOUS
    <3> HIDE DEF f
    <3>2. QED
      BY <2>2, <3>1, FiniteRange
  <2> HIDE DEF All
  <2>8. JoinAnswer(rule).found \in SUBSET All
    BY <2>6
  <2>9. QED
    BY <2>7, <2>8, FS_Subset
<1>3. QED
  BY <1>1, <1>2

\* An answer of the engine has what it found, but in the files it lost.
LEMMA EngineAnswer ==
    ASSUME IsRequest(request), folder \in {"head", "worktree"},
           NEW lost, NEW answer \in AnswersWithout(lost)
    PROVE  /\ IsList(answer) /\ ToSet(answer) = {m \in EngineMatches : m.path \notin lost}
           /\ IsInjective(answer)
           /\ \A x \in ToSet(answer) : FindingFields \subseteq DOMAIN x /\ x.index = 0
<1> DEFINE S == {m \in EngineMatches : m.path \notin lost}
<1>1. S \in SUBSET request.found[folder] /\ AreFindings(request.found[folder])
  BY DEF EngineMatches, IsRequest
<1>2. IsFiniteSet(S)
  <2> HIDE DEF S
  <2>1. QED
    BY <1>1, FS_Subset DEF AreFindings
<1>3. answer \in SetToSeqs(S)
  BY DEF AnswersWithout
<1> HIDE DEF S
<1>4. IsList(answer) /\ ToSet(answer) = S /\ IsInjective(answer)
  BY <1>2, <1>3, AnswerIs
<1>5. \A x \in S : FindingFields \subseteq DOMAIN x /\ x.index = 0
  BY <1>1 DEF AreFindings, FindingFields
<1>6. QED
  BY <1>4, <1>5 DEF S

\* What the patterns of a rule matched.
OwnOf(rule, answer) ==
    IF rule \in ToSet(job.sent) THEN ToSet(CoreMatchesToRuleMatches(job.sent, answer)[rule]) ELSE {}

\* What run_rules returns for each kind of rule.
LEMMA AnswerParts ==
    ASSUME NEW answer, NEW rule \in DOMAIN MatchesOfAnswer(answer)
    PROVE  LET told == MatchesOfAnswer(answer)[rule]
           IN /\ IsAware(rule) => told = ScaMatches(rule, OwnOf(rule, answer))
              /\ RuleMode(rule) = "join" => told = JoinMatches(rule)
              /\ ~IsAware(rule) /\ RuleMode(rule) # "join" =>
                     rule \in ToSet(job.sent)
                     /\ told = CoreMatchesToRuleMatches(job.sent, answer)[rule]
<1> DEFINE found == CoreMatchesToRuleMatches(job.sent, answer)
           own(r) == IF r \in DOMAIN found THEN ToSet(found[r]) ELSE {}
           D == ToSet(job.sent) \cup {r \in ToSet(job.rules) : IsAware(r) \/ RuleMode(r) = "join"}
<1>1. MatchesOfAnswer(answer)
        = [r \in D |-> CASE IsAware(r) -> ScaMatches(r, own(r))
                         [] RuleMode(r) = "join" -> JoinMatches(r)
                         [] OTHER -> found[r]]
  BY Zenon DEF MatchesOfAnswer
<1>2. own(rule) = OwnOf(rule, answer)
  <2>1. DOMAIN found = ToSet(job.sent)
    BY DEF CoreMatchesToRuleMatches
  <2> HIDE DEF found
  <2>2. own(rule) = IF rule \in ToSet(job.sent) THEN ToSet(found[rule]) ELSE {}
    BY <2>1
  <2>3. QED
    BY <2>2 DEF OwnOf, found
<1> HIDE DEF found, own
<1>3. rule \in D
  <2> HIDE DEF D
  <2>1. QED
    BY <1>1
<1>4. MatchesOfAnswer(answer)[rule]
        = CASE IsAware(rule) -> ScaMatches(rule, own(rule))
            [] RuleMode(rule) = "join" -> JoinMatches(rule)
            [] OTHER -> found[rule]
  <2> HIDE DEF D
  <2>1. QED
    BY <1>1, <1>3
<1>5. IsAware(rule) => RuleMode(rule) # "join"
  BY DEF IsAware
<1>6. IsAware(rule) => MatchesOfAnswer(answer)[rule] = ScaMatches(rule, own(rule))
  BY <1>4, <1>5
<1>7. RuleMode(rule) = "join" => MatchesOfAnswer(answer)[rule] = JoinMatches(rule)
  BY <1>4, <1>5
<1>8. ~IsAware(rule) /\ RuleMode(rule) # "join" =>
          MatchesOfAnswer(answer)[rule] = found[rule] /\ rule \in ToSet(job.sent)
  BY <1>3, <1>4
<1>9. QED
  BY <1>2, <1>6, <1>7, <1>8 DEF found

\* Whatever the engine answers, run_rules makes lists of it.
LEMMA AnswerLists ==
    ASSUME IsRequest(request), folder \in {"head", "worktree"},
           IsFiniteSet(UNION {s.deps : s \in job.subprojects}),
           NEW lost, NEW answer \in AnswersWithout(lost)
    PROVE  /\ MatchesAreLists(MatchesOfAnswer(answer))
           /\ \A rule : IsFiniteSet(OwnOf(rule, answer))
<1>1. \A rule \in ToSet(job.sent) : IsList(CoreMatchesToRuleMatches(job.sent, answer)[rule])
  BY EngineAnswer, OwnFindings
<1>2. \A rule : IsFiniteSet(OwnOf(rule, answer))
  BY <1>1, ListIsFinite, FS_EmptySet DEF OwnOf
<1>3. \A rule : IsList(ScaMatches(rule, OwnOf(rule, answer)))
  BY <1>2, ScaLists
<1>4. \A rule : IsList(JoinMatches(rule))
  <2> TAKE rule
  <2> DEFINE J == JoinAnswer(rule).found
             f == [m \in J |-> JsonToRuleMatch(request.joins[rule.id].join, m)]
             all == {f[m] : m \in J}
             list == SetToSeq(all)
             told == RuleMatchesOf(list)
  <2>1. IsFiniteSet(all)
    <3>1. IsFiniteSet(J) /\ DOMAIN f = J
      BY JoinIsFinite
    <3> HIDE DEF f, J
    <3>2. QED
      BY <3>1, FiniteRange
  <2>2. JoinMatches(rule) = told
    <3>1. all = {JsonToRuleMatch(request.joins[rule.id].join, m) : m \in J}
      OBVIOUS
    <3> HIDE DEF all
    <3>2. QED
      BY <3>1, Zenon DEF JoinMatches
  <2> HIDE DEF all
  <2>3. IsList(list)
    BY <2>1, SetAsList
  <2>4. told = [i \in DOMAIN list |-> told[i]]
    BY DEF RuleMatchesOf
  <2> HIDE DEF told, list
  <2>5. QED
    BY <2>2, <2>3, <2>4, MappedList
<1>5. ASSUME NEW rule \in DOMAIN MatchesOfAnswer(answer)
      PROVE  IsList(MatchesOfAnswer(answer)[rule])
  BY <1>1, <1>3, <1>4, AnswerParts
<1>6. QED
  BY <1>2, <1>5 DEF MatchesAreLists

\* The dependencies that the answers about them may tell of.
DepsAbout(answers) == UNION {answers[file].deps : file \in DOMAIN answers}

LEMMA ToldDepsAreFinite ==
    ASSUME NEW answers, IsFiniteSet(DOMAIN answers),
           \A file \in DOMAIN answers : IsFiniteSet(answers[file].deps)
    PROVE  IsFiniteSet(DepsAbout(answers))
<1> DEFINE f == [file \in DOMAIN answers |-> answers[file].deps]
           S == {f[file] : file \in DOMAIN answers}
<1>1. IsFiniteSet(S)
  <2> DEFINE D == DOMAIN answers
  <2>1. DOMAIN f = D /\ IsFiniteSet(D)
    OBVIOUS
  <2> HIDE DEF f, D
  <2>2. IsFiniteSet({f[file] : file \in D})
    BY <2>1, FiniteRange
  <2>3. QED
    BY <2>2 DEF D
<1>2. \A T \in S : IsFiniteSet(T)
  OBVIOUS
<1>3. UNION S = DepsAbout(answers)
  BY DEF DepsAbout
<1> HIDE DEF S
<1>4. QED
  BY <1>1, <1>2, <1>3, FS_UNION

LEMMA ResolvedDeps ==
    ASSUME NEW answers, NEW source, NEW dynamic, NEW graph
    PROVE  ResolveDependencySource(answers, source, dynamic, graph).deps
               \subseteq DepsAbout(answers)
<1> DEFINE All == DepsAbout(answers)
<1>1. \A file : AnswerAbout(answers, file).deps \subseteq All
  BY DEF AnswerAbout, DepsAbout
<1> HIDE DEF All
<1>2. \A s : ResolveDynamically(answers, s).deps \subseteq All
  BY <1>1 DEF ResolveDynamically, ResolvedBy, Unresolved
<1>3. \A s, d, g : HandleLockfileSource(answers, s, d, g).deps \subseteq All
  BY <1>1, <1>2 DEF HandleLockfileSource, ResolvedBy, Unresolved
<1>4. HandleMultiSource(answers, source).deps \subseteq All
  <2> DEFINE all == {HandleLockfileSource(answers, s, TRUE, FALSE) : s \in source.sources}
             ok  == {r \in all : r.ok}
  <2>1. \A r \in all : r.deps \subseteq All
    BY <1>3, Zenon
  <2>2. HandleMultiSource(answers, source).deps \in {{}, UNION {r.deps : r \in ok}}
    BY DEF HandleMultiSource, Unresolved
  <2> HIDE DEF all
  <2>3. QED
    BY <2>1, <2>2
<1>5. ResolveDependencySource(answers, source, dynamic, graph).deps \subseteq All
  BY <1>2, <1>3, <1>4 DEF ResolveDependencySource, Unresolved
<1>6. QED
  BY <1>5 DEF All

LEMMA SubprojectDeps ==
    ASSUME IsRequest(request)
    PROVE  IsFiniteSet(UNION {s.deps : s \in CurrentSubprojects})
<1> DEFINE S == UNION {s.deps : s \in CurrentSubprojects}
<1>1. IsFiniteSet(DepsAbout(request.answers))
  BY ToldDepsAreFinite DEF IsRequest
<1>2. \A s \in CurrentSubprojects : s.deps \subseteq DepsAbout(request.answers)
  <2> TAKE s \in CurrentSubprojects
  <2>1. PICK files, order : s \in ResolveSubprojects(request.answers, files, order,
                                                    request.dynamic, request.graph)
    BY Zenon DEF CurrentSubprojects
  <2>2. PICK source : s.deps = ResolveDependencySource(request.answers, source,
                                   request.dynamic, request.graph).deps
    BY <2>1 DEF ResolveSubprojects
  <2>3. QED
    BY <2>2, ResolvedDeps
<1>3. S \in SUBSET DepsAbout(request.answers)
  BY <1>2
<1> HIDE DEF S
<1>4. IsFiniteSet(S)
  BY <1>1, <1>3, FS_Subset
<1>5. QED
  BY <1>4 DEF S

\* The findings of every rule are a list, of which a rule about dependencies has
\* finitely many.
ListsInv ==
    /\ MatchesAreLists(matches) /\ MatchesAreLists(first.matches)
    /\ stage = "engine" => IsFiniteSet(UNION {s.deps : s \in job.subprojects})

LEMMA NoMatches == MatchesAreLists(<<>>)
BY DEF MatchesAreLists

LEMMA ListsStart == Init => ListsInv
BY NoMatches DEF Init, ScanInit, CiInit, NotRun, ListsInv

LEMMA ListsRest ==
    ASSUME ListsInv, UNCHANGED <<matches, first>>,
           stage' = "engine" => UNCHANGED <<stage, job>>
    PROVE  ListsInv'
BY DEF ListsInv, MatchesAreLists

\* What is left of lists.
LEMMA FilteredLists ==
    ASSUME NEW found, MatchesAreLists(found), NEW keep
    PROVE  MatchesAreLists(FilterIgnoredMatches(found, keep))
<1>1. \A rule \in DOMAIN found :
          IsList(Only(found[rule], {match \in ToSet(found[rule]) : keep \/ ~match.ignored}))
  BY OnlyKept DEF MatchesAreLists
<1>2. QED
  BY <1>1 DEF MatchesAreLists, FilterIgnoredMatches

LEMMA RemovedLists ==
    ASSUME NEW found, MatchesAreLists(found), NEW baseline, NEW renamed
    PROVE  MatchesAreLists(RemoveMatchesInBaseline(found, baseline, renamed))
<1> DEFINE after == RemoveMatchesInBaseline(found, baseline, renamed)
<1>1. ASSUME NEW rule \in DOMAIN after
      PROVE  IsList(after[rule])
  <2>1. rule \in DOMAIN found
    BY DEF RemoveMatchesInBaseline
  <2>2. PICK kept : after[rule] = Only(found[rule], kept)
    BY <2>1 DEF RemoveMatchesInBaseline
  <2>3. QED
    BY <2>1, <2>2, OnlyKept DEF MatchesAreLists
<1>2. QED
  BY <1>1 DEF MatchesAreLists

LEMMA ListsScan ==
    FolderInv /\ FixInv /\ ToldInv /\ ListsInv /\ RunScanStep => ListsInv'
<1> SUFFICES ASSUME FolderInv, FixInv, ToldInv, ListsInv, UNCHANGED <<commandVars, ciVars>>
             PROVE  ScanStep => ListsInv'
  BY DEF RunScanStep
<1>1. UNCHANGED first
  BY DEF ciVars
<1>2. LoadRules \/ InitBaseline \/ SelectTargets => ListsInv'
  BY <1>1, ListsRest DEF LoadRules, InitBaseline, SelectTargets, Ends
<1>3. PrepareFails \/ TakeFailure \/ SkipBaseline \/ GitLogFails \/ EnterBaseline
          \/ EnterBaselineFails => ListsInv'
  BY <1>1, ListsRest DEF PrepareFails, TakeFailure, RulesRaise, SkipBaseline, GitLogFails, EnterBaseline,
                         EnterBaselineFails, Ends
<1>4. LeaveBaseline => ListsInv'
  BY <1>1, ListsRest DEF LeaveBaseline, Ends
<1>5. Engine => ListsInv'
  BY <1>1, ListsRest DEF Engine, scanVars
<1>6. Prepare => ListsInv'
  <2> SUFFICES ASSUME Prepare
               PROVE  ListsInv'
    OBVIOUS
  <2>1. IsRequest(request)
    BY DEF Prepare, ToldInv, FixInv
  <2>2. UNCHANGED <<matches, first>> /\ job'.subprojects = CurrentSubprojects
    BY <1>1 DEF Prepare, PrepareRules, RunRules
  <2>3. IsFiniteSet(UNION {s.deps : s \in job'.subprojects})
    BY <2>1, <2>2, SubprojectDeps
  <2>4. QED
    BY <2>2, <2>3 DEF ListsInv, MatchesAreLists
<1>7. ASSUME Answered
      PROVE  \A lost : \A answer \in AnswersWithout(lost) : MatchesAreLists(MatchesOfAnswer(answer))
  <2>1. /\ IsRequest(request) /\ folder \in {"head", "worktree"}
        /\ IsFiniteSet(UNION {s.deps : s \in job.subprojects})
    BY <1>7 DEF Answered, ToldInv, FixInv, FolderInv, ListsInv
  <2>2. QED
    BY <2>1, AnswerLists
<1>8. TakeHead => ListsInv'
  <2> SUFFICES ASSUME TakeHead
               PROVE  ListsInv'
    OBVIOUS
  <2>1. PICK lost \in LostFiles :
            \E answer \in AnswersWithout(lost) : matches' = MatchesOfAnswer(answer)
    BY DEF TakeHead
  <2>2. MatchesAreLists(matches')
    BY <1>7, <2>1 DEF TakeHead
  <2>3. stage' # "engine"
    BY DEF TakeHead
  <2>4. QED
    BY <1>1, <2>2, <2>3 DEF ListsInv, MatchesAreLists
<1>9. TakeBaseline => ListsInv'
  <2> SUFFICES ASSUME TakeBaseline
               PROVE  ListsInv'
    OBVIOUS
  <2>1. PICK baseline : matches' = RemoveMatchesInBaseline(matches, baseline, Renamed)
    BY DEF TakeBaseline
  <2>2. MatchesAreLists(matches')
    BY <2>1, RemovedLists DEF ListsInv
  <2>3. stage' # "engine"
    BY DEF TakeBaseline
  <2>4. QED
    BY <1>1, <2>2, <2>3 DEF ListsInv, MatchesAreLists
<1>10. Finish => ListsInv'
  <2> SUFFICES ASSUME Finish
               PROVE  ListsInv'
    OBVIOUS
  <2>1. MatchesAreLists(matches')
    BY FilteredLists DEF Finish, ListsInv
  <2>2. stage' # "engine"
    BY DEF Finish, Ends
  <2>3. QED
    BY <1>1, <2>1, <2>2 DEF ListsInv, MatchesAreLists
<1>11. QED
  BY <1>2, <1>3, <1>4, <1>5, <1>6, <1>8, <1>9, <1>10 DEF ScanStep, ScanAdvance

LEMMA ListsStep ==
    FolderInv /\ FixInv /\ ToldInv /\ ListsInv /\ [Next]_vars => ListsInv'
<1> SUFFICES ASSUME FolderInv, FixInv, ToldInv, ListsInv, [Next]_vars
             PROVE  ListsInv'
  OBVIOUS
<1>1. ASSUME NEW asked \in Invocations, CallScan(asked), UNCHANGED ciVars
      PROVE  ListsInv'
  BY <1>1, ListsRest DEF CallScan, StartScan, scanVars, ciVars
<1>2. ASSUME NEW asked \in Invocations, CallCi(asked)
      PROVE  ListsInv'
  BY <1>2, ListsRest DEF CallCi, scanVars, ciVars
<1>3. CASE RunScanStep
  BY <1>3, ListsScan
<1>4. CASE CommandStep
  BY <1>4, ListsRest DEF CommandStep, ScanCommandStep, ValidateWithoutEngine, CheckRules, Validated,
                         ScanFailed, ScanLeft, ScanDone, scanVars, ciVars
<1>5. CASE CiCommandStep
  <2>1. ConfigureErrors \/ ReadEnvironment \/ StartWithoutApp \/ StartCiScan => ListsInv'
    BY ListsRest DEF ConfigureErrors, ReadEnvironment, StartWithoutApp, StartCiScan, scanVars, ciVars
  <2>2. RunCiScan => ListsInv'
    BY ListsRest DEF RunCiScan, StartScan, Ends, scanVars, ciVars
  <2>3. ReportFailure \/ CiFailed \/ CiLeft \/ SkipHistory \/ ShowFindings => ListsInv'
    BY ListsRest DEF ReportFailure, CiFailed, CiLeft, SkipHistory, ShowFindings, scanVars, ciVars
  <2>4. SendResults \/ SendComplete \/ Verdict \/ RestoreCheckout => ListsInv'
    BY ListsRest DEF SendResults, SendComplete, Verdict, RestoreCheckout, scanVars, ciVars
  <2>5. RunHistory => ListsInv'
    <3> SUFFICES ASSUME RunHistory
                 PROVE  ListsInv'
      OBVIOUS
    <3>1. first'.matches = matches /\ matches' = <<>> /\ stage' = "config"
      BY DEF RunHistory
    <3>2. QED
      BY <3>1, NoMatches DEF ListsInv, MatchesAreLists
  <2>6. TakeHistory => ListsInv'
    <3> SUFFICES ASSUME TakeHistory
                 PROVE  ListsInv'
      OBVIOUS
    <3>1. UNCHANGED first /\ stage' = "ended"
      BY DEF TakeHistory, ciVars
    <3> DEFINE more(rule) == IF rule \in DOMAIN matches THEN matches[rule] ELSE <<>>
               both == [rule \in DOMAIN first.matches |-> first.matches[rule] \o more(rule)]
    <3>2. matches' \in {matches, first.matches, both}
      BY Zenon DEF TakeHistory
    <3>3. MatchesAreLists(both)
      <4>1. \A rule : IsList(more(rule))
        BY EmptyList DEF ListsInv, MatchesAreLists
      <4> HIDE DEF more
      <4>2. \A rule \in DOMAIN first.matches : IsList(first.matches[rule] \o more(rule))
        BY <4>1, ListConcat DEF ListsInv, MatchesAreLists
      <4>3. QED
        BY <4>2 DEF MatchesAreLists
    <3> HIDE DEF both
    <3>4. MatchesAreLists(matches')
      BY <3>2, <3>3 DEF ListsInv
    <3>5. QED
      BY <3>1, <3>4 DEF ListsInv, MatchesAreLists
  <2>7. QED
    BY <1>5, <2>1, <2>2, <2>3, <2>4, <2>5, <2>6 DEF CiCommandStep
<1>6. CASE GiveUpSoon
  BY <1>6, ListsRest DEF GiveUpSoon, scanVars
<1>7. CASE Exited \/ UNCHANGED vars
  BY <1>7, ListsRest DEF Exited, vars, ciVars, scanVars
<1>8. QED
  BY <1>1, <1>2, <1>3, <1>4, <1>5, <1>6, <1>7 DEF Next, Call

-----------------------------------------------------------------------------
(* What a scan of the changed files tells of *)

\* The files that a plan has are changed or named on the command line.
LEMMA PlanIsAllowed ==
    ASSUME NEW tree, NEW tm, tm.status # NoStatus, NEW sent, NEW product
    PROVE  AllTargets([tasks |-> PlanCoreRun(tree, tm, sent, product).tasks])
               \subseteq tm.status.added \cup tm.status.modified \cup ExplicitFiles(tree, tm)
<1> DEFINE Allowed == tm.status.added \cup tm.status.modified \cup ExplicitFiles(tree, tm)
           pairs(i) == {pair \in tree.files \X RuleLanguages(sent[i]) :
                           pair[1] \in FilesForRule(tree, tm, sent[i], pair[2])}
           runs == [i \in DOMAIN sent |-> pairs(i)]
           task(pair) == [path |-> pair[1], analyzer |-> pair[2],
                          nums |-> {i \in DOMAIN sent : pair \in runs[i]}]
           tasks == {task(pair) : pair \in UNION {runs[i] : i \in DOMAIN sent}}
<1>1. PlanCoreRun(tree, tm, sent, product).tasks = tasks
  BY DEF PlanCoreRun
<1>2. \A lang, kind : \A f \in GetAllFilesWithDirPruning(tree, tm, kind, FALSE) : f \in Allowed
  BY DEF GetAllFilesWithDirPruning, PrunedFilesOfTarget, FilesOfTarget, FilesFromGitDiff,
         ExplicitFiles, IsFile
<1>3. \A lang : Restored(tree, tm, lang) \subseteq Allowed
  BY DEF Restored, FilterByLanguage, FilterKnownExtensions
<1>4. \A files, lang, kind : Filtered(tree, tm, lang, kind, files).kept \subseteq files
  BY DEF Filtered, FilterIgnored, FilterBySize, FilterByPermission, FilterExcludes, FilterIncludes,
         FilterByLanguage
<1>5. \A lang, kind : GetFilesForLanguage(tree, tm, lang, kind, FALSE) \subseteq Allowed
  <2> HIDE DEF Allowed
  <2>1. QED
    BY <1>2, <1>3, <1>4 DEF GetFilesForLanguage
<1>6. \A rule, lang : FilesForRule(tree, tm, rule, lang) \subseteq Allowed
  <2> HIDE DEF Allowed
  <2>1. QED
    BY <1>5 DEF FilesForRule, GetFilesForRule, FilterExcludes, FilterIncludes
<1>7. \A i \in DOMAIN sent : \A pair \in pairs(i) : pair[1] \in Allowed
  <2> HIDE DEF Allowed
  <2>1. QED
    BY <1>6
<1>8. \A t \in tasks : t.path \in Allowed
  <2> HIDE DEF Allowed, pairs
  <2>1. \A pair \in UNION {runs[i] : i \in DOMAIN sent} : task(pair).path \in Allowed
    BY <1>7
  <2> HIDE DEF runs, task
  <2>2. QED
    BY <2>1
<1>9. AllTargets([tasks |-> tasks]) \subseteq Allowed
  <2> HIDE DEF tasks, Allowed
  <2>1. QED
    BY <1>8 DEF AllTargets
<1>10. QED
  BY <1>1, <1>9

\* The findings of the patterns are in these files.
AreIn(found, files) ==
    \A rule \in {r \in DOMAIN found : RuleMode(r) # "join"} :
        \A m \in {x \in ToSet(found[rule]) : IsAware(rule) => x.reachable} : m.path \in files

\* The findings of the engine are in the files of its plan, and so are those that
\* are made of them.
LEMMA AnswerIsIn ==
    ASSUME IsRequest(request), folder \in {"head", "worktree"},
           IsFiniteSet(UNION {s.deps : s \in job.subprojects}),
           NEW lost, NEW answer \in AnswersWithout(lost)
    PROVE  AreIn(MatchesOfAnswer(answer), AllTargets([tasks |-> job.plan]))
<1> DEFINE files == AllTargets([tasks |-> job.plan])
<1>1. \A x \in ToSet(answer) : FindingFields \subseteq DOMAIN x /\ x.path \in files
  BY EngineAnswer DEF EngineMatches, AllTargets
<1>2. IsList(answer)
  BY EngineAnswer
<1> HIDE DEF files
<1>3. ASSUME NEW rule \in ToSet(job.sent),
             NEW m \in ToSet(CoreMatchesToRuleMatches(job.sent, answer)[rule])
      PROVE  m.path \in files /\ "path" \in DOMAIN m
  <2>1. PICK x \in ToSet(answer) : DOMAIN m = DOMAIN x /\ m.path = x.path
    BY <1>1, <1>2, OwnFindings DEF FindingFields
  <2>2. QED
    BY <1>1, <2>1 DEF FindingFields
<1>4. \A rule : \A m \in OwnOf(rule, answer) : m.path \in files /\ "path" \in DOMAIN m
  BY <1>3 DEF OwnOf
<1>5. ASSUME NEW rule, NEW m \in ToSet(ScaMatches(rule, OwnOf(rule, answer))), m.reachable
      PROVE  m.path \in files
  <2>1. m \in GenerateReachable(rule, OwnOf(rule, answer), job.subprojects)
    BY <1>5, AnswerLists, ScaLists DEF ReachedBy
  <2>2. PICK x \in OwnOf(rule, answer) : \E dep : m = Reaching(x, dep)
    BY <2>1, ReachableAre
  <2>3. m.path = x.path
    BY <1>4, <2>2 DEF Reaching
  <2>4. QED
    BY <1>4, <2>3
<1>6. ASSUME NEW rule \in DOMAIN MatchesOfAnswer(answer), RuleMode(rule) # "join",
             NEW m \in ToSet(MatchesOfAnswer(answer)[rule]), IsAware(rule) => m.reachable
      PROVE  m.path \in files
  <2>1. CASE IsAware(rule)
    BY <1>5, <1>6, <2>1, AnswerParts
  <2>2. CASE ~IsAware(rule)
    BY <1>3, <1>6, <2>2, AnswerParts
  <2>3. QED
    BY <2>1, <2>2
<1>7. QED
  BY <1>6 DEF AreIn, files

\* Those that are left are among them.
LEMMA LeftAreIn ==
    ASSUME NEW found, MatchesAreLists(found), NEW files, AreIn(found, files)
    PROVE  /\ \A keep : AreIn(FilterIgnoredMatches(found, keep), files)
           /\ \A old, renamed : AreIn(RemoveMatchesInBaseline(found, old, renamed), files)
<1>1. \A rule \in DOMAIN found : \A kept :
          ToSet(Only(found[rule], kept)) \subseteq ToSet(found[rule])
  BY OnlyKept DEF MatchesAreLists
<1>2. \A keep : AreIn(FilterIgnoredMatches(found, keep), files)
  <2> TAKE keep
  <2>1. /\ DOMAIN FilterIgnoredMatches(found, keep) = DOMAIN found
        /\ \A rule \in DOMAIN found : ToSet(FilterIgnoredMatches(found, keep)[rule]) \subseteq ToSet(found[rule])
    BY <1>1 DEF FilterIgnoredMatches
  <2>2. QED
    BY <2>1 DEF AreIn
<1>3. \A old, renamed : AreIn(RemoveMatchesInBaseline(found, old, renamed), files)
  <2> TAKE old, renamed
  <2> DEFINE after == RemoveMatchesInBaseline(found, old, renamed)
  <2>1. DOMAIN after \subseteq DOMAIN found
    BY DEF RemoveMatchesInBaseline
  <2>2. ASSUME NEW rule \in DOMAIN after
        PROVE  ToSet(after[rule]) \subseteq ToSet(found[rule])
    <3>1. rule \in DOMAIN found
      BY <2>1
    <3>2. \E kept : after[rule] = Only(found[rule], kept)
      BY <3>1 DEF RemoveMatchesInBaseline
    <3>3. QED
      BY <1>1, <3>1, <3>2
  <2> HIDE DEF after
  <2>3. AreIn(after, files)
    BY <2>1, <2>2 DEF AreIn
  <2>4. QED
    BY <2>3 DEF after
<1>4. QED
  BY <1>2, <1>3

ChangedFiles == status.added \cup status.modified \cup ExplicitFiles(request.tree["head"], request.tm)

ScansChanges == status # NoStatus /\ ~IsInterfile(request.engine)

Unprepared == {"idle", "metacheck", "config", "baseline"}

\* Before the status of git is read there is nothing; then the plan of the first
\* scan has changed files only, and what is kept is in these.  The scan of the
\* history has no status.
ChangedInv ==
    /\ stage \in Unprepared => status = NoStatus /\ matches = <<>>
    /\ ScansChanges /\ stage = "engine" /\ folder = "head" =>
           AllTargets([tasks |-> job.plan]) \subseteq ChangedFiles
    /\ ScansChanges => AreIn(matches, ChangedFiles)
    /\ step = "ci_scan" /\ (stage # "ended" \/ raised = NotRaised) =>
           request.baseline = invocation.meta.mergeBase
    /\ step = "ci_history" => ~request.baseline /\ status = NoStatus

LEMMA NothingIsIn == \A files : AreIn(<<>>, files)
BY DEF AreIn

LEMMA ChangedStarts == Init => ChangedInv
BY DEF Init, CommandInit, ScanInit, ChangedInv, ScansChanges

\* A step of the command.
LEMMA ChangedRest ==
    ASSUME ChangedInv,
           UNCHANGED <<request, status, matches, job, folder, raised, invocation>>,
           stage' # stage => {stage, stage'} \subseteq Unprepared,
           step' \in {"ci_scan", "ci_history"} => step' = step
    PROVE  ChangedInv'
<1>1. UNCHANGED <<ChangedFiles, ScansChanges>> /\ AreIn(matches, ChangedFiles)' = AreIn(matches, ChangedFiles)
  BY DEF ChangedFiles, ScansChanges, AreIn
<1>2. stage' = stage \/ (stage \in Unprepared /\ stage' \in Unprepared)
  OBVIOUS
<1>3. stage' = "engine" => stage = "engine"
  BY <1>2 DEF Unprepared
<1>4. ScansChanges' => AreIn(matches, ChangedFiles)'
  BY <1>1 DEF ChangedInv
<1>5. step' = "ci_scan" /\ (stage' # "ended" \/ raised' = NotRaised) =>
           request'.baseline = invocation'.meta.mergeBase
  BY <1>2 DEF ChangedInv, Unprepared
<1>6. QED
  BY <1>1, <1>2, <1>3, <1>4, <1>5 DEF ChangedInv

\* A step of run_scan that leaves the plan and the findings as they are.
LEMMA ChangedScanRest ==
    ASSUME ChangedInv, UNCHANGED <<request, status, matches, job, step, invocation>>,
           stage # "ended", stage \notin {"config", "baseline"} => stage' \notin Unprepared,
           stage' # "engine"
    PROVE  ChangedInv'
<1>1. UNCHANGED <<ChangedFiles, ScansChanges>> /\ AreIn(matches, ChangedFiles)' = AreIn(matches, ChangedFiles)
  BY DEF ChangedFiles, ScansChanges, AreIn
<1>2. QED
  BY <1>1 DEF ChangedInv, Unprepared

LEMMA ChangedScan ==
    FolderInv /\ FixInv /\ ToldInv /\ ListsInv /\ ChangedInv /\ RunScanStep => ChangedInv'
<1> SUFFICES ASSUME FolderInv, FixInv, ToldInv, ListsInv, ChangedInv, UNCHANGED <<commandVars, ciVars>>
             PROVE  ScanStep => ChangedInv'
  BY DEF RunScanStep
<1>1. UNCHANGED <<step, invocation>>
  BY DEF commandVars
<1>2. ASSUME LoadRules \/ SelectTargets
      PROVE  ChangedInv'
  <2>1. UNCHANGED <<request, status, matches, job>>
    BY <1>2 DEF LoadRules, SelectTargets
  <2>2. /\ stage \in {"config", "targets"} /\ stage' \in {"baseline", "ended", "prepare"}
        /\ stage = "targets" => stage' # "baseline"
    BY <1>2 DEF LoadRules, SelectTargets, Ends
  <2>3. QED
    BY <1>1, <2>1, <2>2, ChangedScanRest DEF Unprepared
<1>3. ASSUME InitBaseline
      PROVE  ChangedInv'
  <2>1. /\ stage = "baseline" /\ stage' \in {"targets", "ended"} /\ matches = <<>> /\ matches' = <<>>
        /\ UNCHANGED request /\ status = NoStatus
        /\ ~request.baseline => status' = NoStatus
    BY <1>3 DEF InitBaseline, Ends, ChangedInv, Unprepared
  <2>2. QED
    BY <1>1, <2>1, NothingIsIn DEF ChangedInv, Unprepared
<1>4. ASSUME Prepare
      PROVE  ChangedInv'
  <2>1. /\ UNCHANGED <<request, status, matches, folder>> /\ stage = "prepare"
        /\ stage' \in {"engine", "ended", "restore"}
        /\ stage' = "engine" => UNCHANGED raised
    BY <1>4 DEF Prepare, PrepareRules, RunRules, RulesRaise
  <2>2. UNCHANGED <<ChangedFiles, ScansChanges>>
        /\ AreIn(matches, ChangedFiles)' = AreIn(matches, ChangedFiles)
    BY <2>1 DEF ChangedFiles, ScansChanges, AreIn
  <2>3. ASSUME ScansChanges, folder = "head"
        PROVE  AllTargets([tasks |-> job'.plan]) \subseteq ChangedFiles
    <3>1. PICK sent : job'.plan = PlanCoreRun(request.tree[folder], PlanManager, sent, "code").tasks
      BY <1>4 DEF Prepare, PrepareRules, RunRules
    <3>2. TargetMode # "pro_diff"
      BY <2>3 DEF TargetMode, ScansChanges
    <3>3. PlanManager = TargetManagerOfHead
      BY <2>3, <3>2 DEF PlanManager, CurrentManager
    <3>4. {"status", "ignore", "targets"} \subseteq DOMAIN request.tm
      BY <2>1 DEF ToldInv, FixInv, IsRequest
    <3>5. PlanManager.status = status /\ PlanManager.targets = request.tm.targets
      BY <3>3, <3>4 DEF TargetManagerOfHead
    <3>6. AllTargets([tasks |-> job'.plan])
              \subseteq PlanManager.status.added \cup PlanManager.status.modified
                        \cup ExplicitFiles(request.tree[folder], PlanManager)
      BY <2>3, <3>1, <3>5, PlanIsAllowed DEF ScansChanges
    <3>7. ExplicitFiles(request.tree[folder], PlanManager) = ExplicitFiles(request.tree["head"], request.tm)
      BY <2>3, <3>5 DEF ExplicitFiles
    <3>8. QED
      BY <3>5, <3>6, <3>7 DEF ChangedFiles
  <2>4. QED
    BY <1>1, <2>1, <2>2, <2>3 DEF ChangedInv, Unprepared
<1>5. ASSUME PrepareFails \/ TakeFailure \/ SkipBaseline \/ GitLogFails \/ EnterBaseline
             \/ EnterBaselineFails \/ LeaveBaseline
      PROVE  ChangedInv'
  <2>1. UNCHANGED <<request, status, matches, job>>
    BY <1>5 DEF PrepareFails, TakeFailure, SkipBaseline, GitLogFails, EnterBaseline,
                EnterBaselineFails, LeaveBaseline
  <2>2. /\ stage \in {"prepare", "engine", "compare", "restore"}
        /\ stage' \in {"ended", "restore", "finish", "prepare"}
    BY <1>5 DEF PrepareFails, TakeFailure, RulesRaise, SkipBaseline, GitLogFails, EnterBaseline,
                EnterBaselineFails, LeaveBaseline, Ends, Comparing
  <2>3. QED
    BY <1>1, <2>1, <2>2, ChangedScanRest DEF Unprepared
<1>6. ASSUME Engine
      PROVE  ChangedInv'
  BY <1>1, <1>6, ChangedRest DEF Engine, scanVars
<1>7. ASSUME TakeHead
      PROVE  ChangedInv'
  <2>1. PICK lost \in LostFiles : \E answer \in AnswersWithout(lost) : matches' = MatchesOfAnswer(answer)
    BY <1>7 DEF TakeHead
  <2>2. PICK answer \in AnswersWithout(lost) : matches' = MatchesOfAnswer(answer)
    BY <2>1
  <2>3. /\ stage = "engine" /\ stage' = "compare" /\ folder = "head"
        /\ UNCHANGED <<request, status, job, raised>>
    BY <1>7 DEF TakeHead, Answered
  <2>4. /\ IsRequest(request) /\ folder \in {"head", "worktree"}
        /\ IsFiniteSet(UNION {s.deps : s \in job.subprojects})
    BY <2>3 DEF ToldInv, FixInv, FolderInv, ListsInv
  <2>5. AreIn(matches', AllTargets([tasks |-> job.plan]))
    BY <2>2, <2>4, AnswerIsIn
  <2>6. UNCHANGED <<ChangedFiles, ScansChanges>>
    BY <2>3 DEF ChangedFiles, ScansChanges
  <2>7. ScansChanges => AreIn(matches', ChangedFiles)
    BY <2>3, <2>5 DEF ChangedInv, AreIn
  <2>8. QED
    BY <1>1, <2>3, <2>6, <2>7 DEF ChangedInv, Unprepared, AreIn
<1>8. ASSUME TakeBaseline \/ Finish
      PROVE  ChangedInv'
  <2>1. \/ \E old : matches' = RemoveMatchesInBaseline(matches, old, Renamed)
        \/ \E keep : matches' = FilterIgnoredMatches(matches, keep)
    BY <1>8 DEF TakeBaseline, Finish
  <2>2. /\ UNCHANGED <<request, status, job>> /\ stage \in {"engine", "finish"}
        /\ stage' \in {"restore", "ended"}
    BY <1>8 DEF TakeBaseline, Answered, Finish, Ends
  <2>3. MatchesAreLists(matches)
    BY DEF ListsInv
  <2>4. \A files : AreIn(matches, files) => AreIn(matches', files)
    BY <2>1, <2>3, LeftAreIn
  <2>5. UNCHANGED <<ChangedFiles, ScansChanges>>
    BY <2>2 DEF ChangedFiles, ScansChanges
  <2>6. ScansChanges => AreIn(matches', ChangedFiles)
    BY <2>4 DEF ChangedInv
  <2>7. QED
    BY <1>1, <2>2, <2>5, <2>6 DEF ChangedInv, Unprepared, AreIn
<1>9. QED
  BY <1>2, <1>3, <1>4, <1>5, <1>6, <1>7, <1>8 DEF ScanStep, ScanAdvance

LEMMA ChangedStep ==
    FolderInv /\ FixInv /\ ToldInv /\ ListsInv /\ ChangedInv /\ [Next]_vars => ChangedInv'
<1> SUFFICES ASSUME FolderInv, FixInv, ToldInv, ListsInv, ChangedInv, [Next]_vars
             PROVE  ChangedInv'
  OBVIOUS
<1>1. ASSUME NEW asked \in Invocations, CallScan(asked)
      PROVE  ChangedInv'
  <2>1. /\ step = "idle" /\ stage = "idle" /\ step' \in {"done", "validate", "scan"}
        /\ stage' \in {"idle", "config"} /\ UNCHANGED <<status, matches>>
    BY <1>1 DEF CallScan, StartScan, scanVars, FixInv
  <2>2. QED
    BY <2>1, NothingIsIn DEF ChangedInv, Unprepared, ScansChanges
<1>2. ASSUME NEW asked \in Invocations, CallCi(asked)
      PROVE  ChangedInv'
  <2>1. /\ step = "idle" /\ stage = "idle" /\ step' \in {"done", "configure"}
        /\ stage' = "idle" /\ UNCHANGED <<status, matches>>
    BY <1>2 DEF CallCi, scanVars, FixInv
  <2>2. QED
    BY <2>1, NothingIsIn DEF ChangedInv, Unprepared, ScansChanges
<1>3. CASE RunScanStep
  BY <1>3, ChangedScan
<1>4. CASE CommandStep
  <2>1. /\ UNCHANGED <<request, status, matches, job, folder, raised, invocation>>
        /\ step' \in {step, "done"}
        /\ stage' # stage => {stage, stage'} \subseteq Unprepared
    BY <1>4 DEF CommandStep, ScanCommandStep, ValidateWithoutEngine, CheckRules, Validated, ErrorsThen,
                ScanFailed, ScanLeft, ScanDone, scanVars, commandVars, LeaveCommand, Unprepared
  <2>2. QED
    BY <2>1, ChangedRest
<1>5. CASE CiCommandStep
  <2>1. ASSUME ConfigureErrors \/ ReadEnvironment \/ StartWithoutApp \/ StartCiScan
        PROVE  ChangedInv'
    BY <2>1, ChangedRest DEF ConfigureErrors, ReadEnvironment, FixHead, StartWithoutApp, StartCiScan,
             scanVars, LeaveCommand
  <2>2. ASSUME RunCiScan
        PROVE  ChangedInv'
    <3>1. step = "started" /\ stage = "idle" /\ UNCHANGED <<status, matches, invocation>>
          /\ step' \in {"done", "ci_scan"} /\ status = NoStatus
      BY <2>2 DEF RunCiScan, StartScan, scanVars, LeaveCommand, FixInv, ChangedInv, Unprepared
    <3>2. \/ step' = "done" /\ stage' = "idle"
          \/ stage' = "ended" /\ raised' # NotRaised
          \/ stage' = "config" /\ request' = CiRequest
      BY <2>2, <3>1 DEF RunCiScan, StartScan, scanVars, LeaveCommand, Ends, Error, NotRaised
    <3>3. "baseline" \in DOMAIN invocation.request
      BY <3>1, CliAssumption DEF FixInv, IsRequest
    <3>4. CiRequest.baseline = invocation.meta.mergeBase
      BY <3>3 DEF CiRequest
    <3>5. QED
      BY <3>1, <3>2, <3>4 DEF ChangedInv, Unprepared, ScansChanges
  <2>3. ASSUME ReportFailure \/ CiFailed \/ CiLeft \/ SkipHistory \/ ShowFindings
        PROVE  ChangedInv'
    BY <2>3, ChangedRest DEF ReportFailure, CiFailed, CiLeft, SkipHistory, ShowFindings, scanVars,
             LeaveCommand, ErrorsThen
  <2>4. ASSUME SendResults \/ SendComplete \/ Verdict \/ RestoreCheckout
        PROVE  ChangedInv'
    BY <2>4, ChangedRest DEF SendResults, SendComplete, Verdict, RestoreCheckout, scanVars,
             LeaveCommand, commandVars
  <2>5. ASSUME RunHistory
        PROVE  ChangedInv'
    <3>1. /\ step = "ci_scan" /\ raised = NotRaised /\ ~invocation.meta.mergeBase
          /\ stage' = "config" /\ status' = NoStatus /\ matches' = <<>> /\ step' = "ci_history"
          /\ request' = [request EXCEPT !.historical = TRUE, !.found["head"] = invocation.history]
      BY <2>5 DEF RunHistory, HistoryWanted
    <3>2. "baseline" \in DOMAIN request
      BY <3>1 DEF ToldInv, InRunScan, IsRequest
    <3>3. request'.baseline = request.baseline /\ request.baseline = invocation.meta.mergeBase
      BY <3>1, <3>2 DEF ChangedInv
    <3>4. QED
      BY <3>1, <3>3 DEF ChangedInv, Unprepared, ScansChanges
  <2>6. ASSUME TakeHistory
        PROVE  ChangedInv'
    <3>1. /\ step = "ci_history" /\ stage = "ended" /\ UNCHANGED <<stage, status, request>>
          /\ step' \in {"done", "results"} /\ status = NoStatus
      BY <2>6 DEF TakeHistory, LeaveCommand, ChangedInv
    <3>2. QED
      BY <3>1 DEF ChangedInv, Unprepared, ScansChanges
  <2>7. QED
    BY <1>5, <2>1, <2>2, <2>3, <2>4, <2>5, <2>6 DEF CiCommandStep
<1>6. CASE GiveUpSoon
  BY <1>6, ChangedRest DEF GiveUpSoon, scanVars, commandVars
<1>7. CASE Exited \/ UNCHANGED vars
  BY <1>7, ChangedRest DEF Exited, vars, scanVars, commandVars
<1>8. QED
  BY <1>1, <1>2, <1>3, <1>4, <1>5, <1>6, <1>7 DEF Next, Call

\* A scan of the changed files tells of no other file, whatever the rules are about
\* and however many scans there are, but for lockfiles and the files that are named.
THEOREM OnlyChangedFilesAreTold == Spec => []ChangedFilesOnly
<1>1. ChangedInv => ChangedFilesOnly
  BY DEF ChangedInv, ScansChanges, AreIn, ChangedFilesOnly, ChangedFiles
<1>2. QED
  BY <1>1, FolderStarts, FolderStep, FixStarts, FixStep, StepStarts, StepStep, ToldStarts,
     ToldStep, ListsStart, ListsStep, ChangedStarts, ChangedStep, PTL DEF Spec

-----------------------------------------------------------------------------
(* Dependencies *)

\* What a pattern reaches is a dependency of a subproject that the file belongs to.
LEMMA ReachableBelong ==
    ASSUME NEW rule, NEW own, NEW subprojects, \A x \in own : FindingFields \subseteq DOMAIN x,
           NEW m \in GenerateReachable(rule, own, subprojects)
    PROVE  LET resolved == ResolvedFor(rule, subprojects)
           IN m.reachable /\ \E o \in resolved : m.dependency \in o.deps /\ Belongs(m.path, o, resolved)
<1> DEFINE resolved == ResolvedFor(rule, subprojects)
           Reach(x) == UNION {ReachableDeps(rule, s) : s \in NearestSubprojects(x, rule, subprojects)}
<1>1. GenerateReachable(rule, own, subprojects)
          = UNION {{Reaching(x, dep) : dep \in Reach(x)} : x \in own}
  BY Zenon DEF GenerateReachable, Reaching
<1>2. PICK x \in own : \E dep \in Reach(x) : m = Reaching(x, dep)
  <2> HIDE DEF Reach
  <2>1. QED
    BY <1>1
<1>3. PICK dep \in Reach(x) : m = Reaching(x, dep)
  BY <1>2
<1>4. PICK o \in NearestSubprojects(x, rule, subprojects) : dep \in ReachableDeps(rule, o)
  BY <1>3
<1>5. PICK d \in rule.dependsOn : o \in Nearest(x, d.ecosystem, rule, subprojects)
  BY <1>4 DEF NearestSubprojects
<1> DEFINE candidates == {s \in resolved : s.ecosystem = d.ecosystem}
           closest == ClosestSubprojects(x.path, candidates)
<1>6. o \in closest
  <2>1. Nearest(x, d.ecosystem, rule, subprojects)
            = IF closest = {} THEN {} ELSE {CHOOSE s \in closest : TRUE}
    BY DEF Nearest
  <2> HIDE DEF closest
  <2>2. QED
    BY <1>5, <2>1
<1>7. /\ o \in resolved /\ o.ecosystem = d.ecosystem
      /\ o.root \in Parents(x.path) \cup {x.path}
      /\ \A s \in candidates : s.root \in Parents(x.path) \cup {x.path} => Len(s.root) <= Len(o.root)
  <2> HIDE DEF resolved
  <2>1. QED
    BY <1>6 DEF ClosestSubprojects
<1>8. Belongs(x.path, o, resolved)
  <2> HIDE DEF resolved
  <2>1. QED
    BY <1>7 DEF Belongs
<1>9. m.reachable /\ m.path = x.path /\ m.dependency = dep
  BY <1>3 DEF Reaching, FindingFields
<1>10. dep \in o.deps
  BY <1>4 DEF ReachableDeps, VulnerableDeps, RangeMatches
<1>11. QED
  <2> HIDE DEF resolved
  <2>1. QED
    BY <1>7, <1>8, <1>9, <1>10 DEF resolved

\* What is not reachable is told of in its lockfile.
LEMMA UnreachableAre ==
    ASSUME NEW rule, NEW reachable, NEW subprojects
    PROVE  LET others == GenerateUnreachable(rule, reachable, subprojects)
               reached == {DependencyKey(m.dependency) : m \in reachable}
               about == UNION {VulnerableDeps(rule, s) : s \in ResolvedFor(rule, subprojects)}
           IN /\ \A x \in others : DependencyKey(x.dependency) \notin reached
              /\ \A dep \in about : DependencyKey(dep) \notin reached =>
                    \E x \in others : x.dependency = dep /\ x.path = dep.lockfile
<1> DEFINE reached == {DependencyKey(m.dependency) : m \in reachable}
           about == UNION {VulnerableDeps(rule, s) : s \in ResolvedFor(rule, subprojects)}
           left == {d \in about : DependencyKey(d) \notin reached}
           others == {UnreachableFinding(rule, dep) : dep \in left}
<1>1. GenerateUnreachable(rule, reachable, subprojects) = others
  BY Zenon DEF GenerateUnreachable
<1>2. \A dep : /\ UnreachableFinding(rule, dep).dependency = dep
               /\ UnreachableFinding(rule, dep).path = dep.lockfile
  BY DEF UnreachableFinding
<1>3. \A x \in others : DependencyKey(x.dependency) \notin reached
  <2> HIDE DEF reached, about
  <2>1. QED
    BY <1>2
<1>4. \A dep \in left : \E x \in others : x.dependency = dep /\ x.path = dep.lockfile
  <2> HIDE DEF left
  <2>1. QED
    BY <1>2
<1>5. \A dep \in about : DependencyKey(dep) \notin reached => dep \in left
  OBVIOUS
<1>6. QED
  <2> HIDE DEF reached, about, left, others
  <2>1. QED
    BY <1>1, <1>3, <1>4, <1>5 DEF reached, about

\* The findings of a rule about dependencies tell of each that it is about, once in
\* one of the two ways.
DepsAreTold(rule, told) ==
    LET resolved == ResolvedFor(rule, job.subprojects)
    IN \A s \in resolved : \A dep \in VulnerableDeps(rule, s) :
          LET about == {m \in told : DependencyKey(m.dependency) = DependencyKey(dep)}
          IN (\E m \in about : m.path = dep.lockfile /\ ~m.reachable)
                # \E m \in about : m.reachable /\ \E o \in resolved :
                      m.dependency \in o.deps /\ Belongs(m.path, o, resolved)

LEMMA ScaTells ==
    ASSUME NEW rule, NEW own, IsFiniteSet(own), \A x \in own : FindingFields \subseteq DOMAIN x,
           IsFiniteSet(UNION {s.deps : s \in job.subprojects})
    PROVE  DepsAreTold(rule, ToSet(ScaMatches(rule, own)))
<1> DEFINE told == ToSet(ScaMatches(rule, own))
           resolved == ResolvedFor(rule, job.subprojects)
           reachable == ReachedBy(rule, own)
           others == GenerateUnreachable(rule, reachable, job.subprojects)
<1>1. ASSUME NEW m \in reachable
      PROVE  m.reachable /\ \E o \in resolved : m.dependency \in o.deps /\ Belongs(m.path, o, resolved)
  BY ReachableBelong DEF ReachedBy
<1>2. /\ reachable \subseteq told
      /\ \A m \in told : \/ m \in reachable
                         \/ ~m.reachable /\ \E x \in others :
                                m.dependency = x.dependency /\ m.path = x.path
      /\ \A x \in others : \E m \in told :
            ~m.reachable /\ m.dependency = x.dependency /\ m.path = x.path
  BY ScaLists
<1>3. /\ \A x \in others : \A m \in reachable : DependencyKey(x.dependency) # DependencyKey(m.dependency)
      /\ \A s \in resolved : \A dep \in VulnerableDeps(rule, s) :
            \/ \E m \in reachable : DependencyKey(dep) = DependencyKey(m.dependency)
            \/ \E x \in others : x.dependency = dep /\ x.path = dep.lockfile
  BY UnreachableAre
<1> HIDE DEF told, resolved, reachable, others
<1> SUFFICES ASSUME NEW s \in resolved, NEW dep \in VulnerableDeps(rule, s)
             PROVE  LET about == {m \in told : DependencyKey(m.dependency) = DependencyKey(dep)}
                    IN (\E m \in about : m.path = dep.lockfile /\ ~m.reachable)
                          # \E m \in about : m.reachable /\ \E o \in resolved :
                                m.dependency \in o.deps /\ Belongs(m.path, o, resolved)
  BY DEF DepsAreTold, told, resolved
<1> DEFINE about == {m \in told : DependencyKey(m.dependency) = DependencyKey(dep)}
           InLockfile == \E m \in about : m.path = dep.lockfile /\ ~m.reachable
           InCode == \E m \in about : m.reachable /\ \E o \in resolved :
                         m.dependency \in o.deps /\ Belongs(m.path, o, resolved)
<1>4. ASSUME NEW r \in reachable, DependencyKey(dep) = DependencyKey(r.dependency)
      PROVE  InCode /\ ~InLockfile
  <2>1. r \in about
    BY <1>2, <1>4
  <2>2. InCode
    BY <1>1, <2>1
  <2>3. ASSUME NEW m \in about, ~m.reachable
        PROVE  FALSE
    <3>1. m \notin reachable
      BY <1>1, <2>3
    <3>2. PICK x \in others : m.dependency = x.dependency
      BY <1>2, <3>1
    <3>3. QED
      BY <1>3, <1>4, <3>2
  <2>4. QED
    BY <2>2, <2>3
<1>5. ASSUME ~\E r \in reachable : DependencyKey(dep) = DependencyKey(r.dependency)
      PROVE  InLockfile /\ ~InCode
  <2>1. PICK x \in others : x.dependency = dep /\ x.path = dep.lockfile
    BY <1>3, <1>5
  <2>2. PICK m \in told : ~m.reachable /\ m.dependency = x.dependency /\ m.path = x.path
    BY <1>2
  <2>3. InLockfile
    BY <2>1, <2>2
  <2>4. \A y \in about : ~y.reachable
    BY <1>2, <1>5
  <2>5. QED
    BY <2>3, <2>4
<1>6. InLockfile # InCode
  <2> HIDE DEF InLockfile, InCode
  <2>1. QED
    BY <1>4, <1>5
<1>7. QED
  BY <1>6

\* Each rule about dependencies has its findings once the engine has answered.
LEMMA AnswerTells ==
    ASSUME IsRequest(request), folder \in {"head", "worktree"},
           IsFiniteSet(UNION {s.deps : s \in job.subprojects}),
           NEW lost, NEW answer \in AnswersWithout(lost),
           NEW rule \in ToSet(job.rules), IsAware(rule)
    PROVE  DepsAreTold(rule, ToSet(MatchesOfAnswer(answer)[rule]))
<1>1. rule \in DOMAIN MatchesOfAnswer(answer)
  BY DEF MatchesOfAnswer
<1>2. MatchesOfAnswer(answer)[rule] = ScaMatches(rule, OwnOf(rule, answer))
  BY <1>1, AnswerParts
<1>3. \A x \in OwnOf(rule, answer) : FindingFields \subseteq DOMAIN x
  <2>1. CASE rule \in ToSet(job.sent)
    <3>1. \A m \in ToSet(CoreMatchesToRuleMatches(job.sent, answer)[rule]) :
              \E x \in ToSet(answer) : DOMAIN m = DOMAIN x
      BY <2>1, EngineAnswer, OwnFindings
    <3>2. QED
      BY <2>1, <3>1, EngineAnswer DEF OwnOf
  <2>2. CASE rule \notin ToSet(job.sent)
    BY <2>2 DEF OwnOf
  <2>3. QED
    BY <2>1, <2>2
<1>4. QED
  BY <1>2, <1>3, AnswerLists, ScaTells

\* What was told when the engine had answered stays until the comparison.
LEMMA DepsStep ==
    FolderInv /\ FixInv /\ ToldInv /\ ListsInv /\ VulnerableDependenciesAreTold /\ [Next]_vars
        => VulnerableDependenciesAreTold'
<1> SUFFICES ASSUME FolderInv, FixInv, ToldInv, ListsInv, VulnerableDependenciesAreTold, [Next]_vars,
                    stage' = "compare"
             PROVE  VulnerableDependenciesAreTold'
  BY DEF VulnerableDependenciesAreTold
<1>1. VulnerableDependenciesAreTold
          <=> (stage = "compare" => \A rule \in ToSet(job.rules) : IsAware(rule) =>
                                        DepsAreTold(rule, ToSet(matches[rule])))
  BY DEF VulnerableDependenciesAreTold, DepsAreTold
<1>2. ASSUME TakeHead, UNCHANGED <<commandVars, ciVars>>
      PROVE  VulnerableDependenciesAreTold'
  <2>1. PICK lost \in LostFiles : \E answer \in AnswersWithout(lost) : matches' = MatchesOfAnswer(answer)
    BY <1>2 DEF TakeHead
  <2>2. PICK answer \in AnswersWithout(lost) : matches' = MatchesOfAnswer(answer)
    BY <2>1
  <2>3. UNCHANGED <<job, request>> /\ stage = "engine"
    BY <1>2 DEF TakeHead, Answered
  <2>4. /\ IsRequest(request) /\ folder \in {"head", "worktree"}
        /\ IsFiniteSet(UNION {s.deps : s \in job.subprojects})
    BY <2>3 DEF ToldInv, FixInv, FolderInv, ListsInv
  <2>5. \A rule \in ToSet(job.rules) : IsAware(rule) => DepsAreTold(rule, ToSet(matches'[rule]))
    BY <2>2, <2>4, AnswerTells
  <2>6. QED
    BY <2>3, <2>5 DEF VulnerableDependenciesAreTold, DepsAreTold
<1>3. ASSUME UNCHANGED <<stage, job, matches>>
      PROVE  VulnerableDependenciesAreTold'
  BY <1>3 DEF VulnerableDependenciesAreTold
<1>4. ASSUME RunScanStep
      PROVE  TakeHead \/ UNCHANGED <<stage, job, matches>>
  BY <1>4 DEF RunScanStep, ScanStep, ScanAdvance, LoadRules, InitBaseline, SelectTargets, Prepare,
              PrepareRules, RunRules, RulesRaise, PrepareFails, TakeFailure, SkipBaseline, GitLogFails,
              EnterBaseline, EnterBaselineFails, TakeBaseline, LeaveBaseline, Finish, Ends, Engine, scanVars
<1>5. ASSUME Call \/ CommandStep
      PROVE  UNCHANGED <<stage, job, matches>>
  BY <1>5 DEF Call, CallScan, CallCi, StartScan, CommandStep, ScanCommandStep, ValidateWithoutEngine,
              CheckRules, Validated, ScanFailed, ScanLeft, ScanDone, scanVars
<1>6. ASSUME CiCommandStep
      PROVE  UNCHANGED <<stage, job, matches>>
  BY <1>6 DEF CiCommandStep, ConfigureErrors, ReadEnvironment, StartCiScan, StartWithoutApp, RunCiScan,
              StartScan, Ends, ReportFailure, CiFailed, CiLeft, RunHistory, TakeHistory, SkipHistory,
              ShowFindings, SendResults, SendComplete, Verdict, RestoreCheckout, scanVars
<1>7. ASSUME GiveUpSoon \/ Exited \/ UNCHANGED vars
      PROVE  UNCHANGED <<stage, job, matches>>
  BY <1>7 DEF GiveUpSoon, Exited, vars, scanVars
<1>8. ASSUME RunScanStep, TakeHead
      PROVE  UNCHANGED <<commandVars, ciVars>>
  BY <1>8 DEF RunScanStep
<1>9. QED
  BY <1>2, <1>3, <1>4, <1>5, <1>6, <1>7, <1>8 DEF Next

\* Whatever a project depends on, in however many subprojects, a rule tells of each
\* dependency that it is about either in its lockfile or in code that reaches it.
THEOREM DependenciesAreAlwaysTold == Spec => []VulnerableDependenciesAreTold
<1>1. Init => VulnerableDependenciesAreTold
  BY DEF Init, ScanInit, VulnerableDependenciesAreTold
<1>2. QED
  BY <1>1, FolderStarts, FolderStep, FixStarts, FixStep, StepStarts, StepStep, ToldStarts,
     ToldStep, ListsStart, ListsStep, DepsStep, PTL DEF Spec

-----------------------------------------------------------------------------
(* A lockfile is in one subproject *)

\* The Gradle projects made for build files come on top of the others.
LEMMA BuildFilesAreAdded ==
    ASSUME NEW base, NEW builds, IsList(builds)
    PROVE  LET made == FoldLeft(AddBuildFile, base, builds)
           IN /\ base \subseteq made
              /\ \A s \in made \ base : \E b \in ToSet(builds) :
                     s = [root |-> Parent(b), source |-> ManifestOnly(b, "gradle")]
<1> DEFINE n == Len(builds)
           New == {[root |-> Parent(b), source |-> ManifestOnly(b, "gradle")] : b \in ToSet(builds)}
           X == SUBSET (base \cup New)
           F == [p \in X \X (1..n) |-> AddBuildFile(p[1], builds[p[2]])]
           Eq(g) == g = [t \in SUBSET DOMAIN builds |->
                            IF t = {} THEN base
                            ELSE AddBuildFile(g[t \ {Max(t)}], builds[Max(t)])]
           iter == CHOOSE g : Eq(g)
<1>1. /\ n \in Nat /\ DOMAIN builds = 1..n
      /\ \A i \in 1..n : builds[i] \in ToSet(builds)
  BY ListDomain
<1> HIDE DEF n
<1>2. ASSUME NEW x \in X, NEW i \in 1..n
      PROVE  x \subseteq AddBuildFile(x, builds[i]) /\ AddBuildFile(x, builds[i]) \in X
  BY <1>1 DEF AddBuildFile
<1> HIDE DEF New
<1>3. base \in X
  OBVIOUS
<1> HIDE DEF X
<1>4. \E g : Eq(g)
  <2>1. \A x \in X, i \in 1..n : F[<<x, i>>] = AddBuildFile(x, builds[i])
    OBVIOUS
  <2>2. StaysIn(F, X, n)
    BY <1>2, <2>1 DEF StaysIn
  <2> HIDE DEF F
  <2>3. PICK g : IsFold(g, F, base, X, n)
    BY <1>1, <1>3, <2>2, FoldExists
  <2>4. ASSUME NEW t \in SUBSET (1..n), t # {}
        PROVE  g[t] = AddBuildFile(g[t \ {Max(t)}], builds[Max(t)])
    <3>1. Max(t) \in 1..n
      BY <1>1, <2>4, MaxInList
    <3>2. t \ {Max(t)} \in SUBSET (1..n)
      OBVIOUS
    <3>3. g[t \ {Max(t)}] \in X
      BY <2>3, <3>2 DEF IsFold
    <3>4. g[t] = F[<<g[t \ {Max(t)}], Max(t)>>]
      BY <2>3, <2>4 DEF IsFold
    <3>5. QED
      BY <2>1, <3>1, <3>3, <3>4
  <2>5. Eq(g)
    <3> DEFINE h == [t \in SUBSET (1..n) |->
                        IF t = {} THEN base
                        ELSE AddBuildFile(g[t \ {Max(t)}], builds[Max(t)])]
    <3>1. \A t \in SUBSET (1..n) : h[t] = g[t]
      BY <2>3, <2>4, Zenon DEF IsFold
    <3>2. g = h
      <4>1. g = [t \in SUBSET (1..n) |-> g[t]]
        BY <2>3 DEF IsFold
      <4>2. h = [t \in SUBSET (1..n) |-> h[t]]
        BY Zenon
      <4> HIDE DEF h
      <4>3. QED
        BY <3>1, <4>1, <4>2, Zenon
    <3>3. QED
      BY <1>1, <3>2, Zenon
  <2>6. QED
    BY <2>5, Zenon
<1>5. Eq(iter)
  BY <1>4, Zenon
<1>6. FoldLeft(AddBuildFile, base, builds) = iter[DOMAIN builds]
  BY Zenon DEF FoldLeft, MapThenFoldSet
<1> HIDE DEF iter
<1>7. iter[{}] = base
  <2>1. {} \in SUBSET DOMAIN builds
    OBVIOUS
  <2>2. QED
    BY <1>5, <2>1, Zenon
<1> DEFINE M == {k \in 0..n : base \subseteq iter[1..k] /\ iter[1..k] \in X}
<1>8. 0 \in M
  <2>1. 1..0 = {} /\ 0 \in 0..n
    BY <1>1
  <2>2. QED
    BY <1>3, <1>7, <2>1
<1>9. ASSUME NEW k \in 0..n, k \in M, k < n
      PROVE  k + 1 \in M
  <2> DEFINE t == 1..(k + 1)
  <2>1. /\ k + 1 \in 1..n /\ t # {} /\ t \in SUBSET (1..n)
        /\ t \ {k + 1} = 1..k /\ Max(t) = k + 1
    BY <1>1, <1>9, FirstElements
  <2> HIDE DEF t
  <2>2. iter[t] = AddBuildFile(iter[t \ {Max(t)}], builds[Max(t)])
    BY <1>1, <1>5, <2>1, Zenon
  <2>3. iter[t] = AddBuildFile(iter[1..k], builds[k + 1])
    BY <2>1, <2>2
  <2>4. base \subseteq iter[t] /\ iter[t] \in X
    BY <1>2, <1>9, <2>1, <2>3
  <2>5. k + 1 \in 0..n
    BY <1>1, <1>9
  <2>6. QED
    BY <2>4, <2>5 DEF t
<1>10. n \in M
  <2>1. 0..n \subseteq M
    <3> HIDE DEF M
    <3>1. QED
      BY <1>1, <1>8, <1>9, CountingUp
  <2>2. n \in 0..n
    BY <1>1
  <2> HIDE DEF M
  <2>3. QED
    BY <2>1, <2>2
<1>11. base \subseteq iter[DOMAIN builds] /\ iter[DOMAIN builds] \in X
  BY <1>1, <1>10
<1>12. QED
  BY <1>6, <1>11 DEF X, New

\* The names of lockfiles, but for those of pip.
LockNames == {"gradle.lockfile"}
    \cup {Matchers[i].lockfile : i \in {n \in DOMAIN Matchers : Matchers[n].type = "exact"}}

\* One of these subprojects has the file among its lockfiles.
HeldOnce(file, made) ==
    \E s \in made : /\ file \in LockfilesOf(s.source)
                    /\ \A o \in made : file \in LockfilesOf(o.source) => o = s

\* What a matcher has found in these files: the lockfiles it uses are in one subproject
\* each, and it has no others.
AreSorted(found, files) ==
    /\ found.used \subseteq files
    /\ \A s \in found.made : LockfilesOf(s.source) \subseteq found.used \cup {NoFile}
    /\ \A file \in found.used : IsLockfile(file) => HeldOnce(file, found.made)

LEMMA LockNamesAre ==
    LockNames = {"gradle.lockfile", "package-lock.json", "yarn.lock", "pnpm-lock.yaml",
                 "Gemfile.lock", "go.mod", "Cargo.lock", "maven_dep_tree.txt",
                 "composer.lock", "packages.lock.json", "pubspec.lock", "Package.resolved",
                 "mix.lock", "Pipfile.lock", "poetry.lock", "uv.lock"}
<1>1. DOMAIN Matchers = 1..18
  BY DEF Matchers
<1>2. 1..18 = {1, 2, 3, 4, 5, 6, 7, 8, 9, 10, 11, 12, 13, 14, 15, 16, 17, 18}
  OBVIOUS
<1>3. {n \in DOMAIN Matchers : Matchers[n].type = "exact"}
          = {2, 3, 4, 5, 6, 7, 8, 11, 12, 13, 14, 15, 16, 17, 18}
  BY <1>1, <1>2 DEF Matchers, Exact
<1>4. QED
  BY <1>3 DEF LockNames, Matchers, Exact

LEMMA Matcher ==
    \A i \in DOMAIN Matchers :
        /\ i \in 1..18
        /\ i = 1 => Matchers[i].type = "pip"
        /\ i # 1 => Matchers[i].type \in {"exact", "manifest", "gradle"}
        /\ Matchers[i].type = "exact" /\ Matchers[i].manifest \in LockNames
               => Matchers[i].manifest = Matchers[i].lockfile
        /\ Matchers[i].type = "manifest" => Matchers[i].manifest = "pom.xml"
<1>1. DOMAIN Matchers = 1..18
  BY DEF Matchers
<1>2. 1..18 = {1, 2, 3, 4, 5, 6, 7, 8, 9, 10, 11, 12, 13, 14, 15, 16, 17, 18}
  OBVIOUS
<1>3. QED
  BY <1>1, <1>2, LockNamesAre DEF Matchers, Exact

LEMMA LockfileNames ==
    ASSUME NEW file, IsLockfile(file), ~IsRequirements(file)
    PROVE  NameOf(file) \in LockNames
BY DEF IsLockfile, LockNames

\* The file of a name in the folder of another file.
LEMMA NameBeside ==
    ASSUME NEW file, IsList(file), file # <<>>, NEW name
    PROVE  NameOf(Append(Parent(file), name)) = name
<1>1. Len(file) \in Nat /\ Len(file) # 0
  BY EmptySeq DEF IsList
<1>2. 1 \in 1..(Len(file) + 1) /\ Len(file) - 1 \in (1 - 1)..Len(file)
  BY <1>1
<1>3. IsList(Parent(file))
  BY <1>2, SubList DEF Parent
<1> HIDE DEF Parent
<1>4. Last(Append(Parent(file), name)) = name
  BY <1>3, ListAppend
<1>5. QED
  BY <1>4 DEF Last, NameOf

LEMMA LockfilesOfSources ==
    ASSUME NEW manifest, NEW lockfile, NEW kind
    PROVE  LockfilesOf(SourceOf(manifest, lockfile, kind)) = {lockfile}
BY DEF LockfilesOf, SourceOf, LockfileOnly, ManifestLockfile

LEMMA ManifestsHoldNone ==
    ASSUME NEW manifest, NEW kind
    PROVE  /\ LockfilesOf(ManifestOnly(manifest, kind)) = {NoFile}
           /\ ManifestOnly(manifest, kind).manifest = manifest
BY DEF LockfilesOf, ManifestOnly

\* ExactLockfileManifestMatcher.
LEMMA ExactSorts ==
    ASSUME NEW matcher, matcher.manifest \in LockNames => matcher.manifest = matcher.lockfile,
           NEW files, ArePaths(files), \A f \in files : ~IsRequirements(f)
    PROVE  /\ AreSorted(ExactSubprojects(matcher, files), files)
           /\ {f \in files : NameOf(f) = matcher.lockfile}
                  \subseteq ExactSubprojects(matcher, files).used
<1> DEFINE found == ExactSubprojects(matcher, files)
           locks == {f \in files : NameOf(f) = matcher.lockfile}
           beside(l) == Append(Parent(l), matcher.manifest)
           manifest(l) == IF beside(l) \in files THEN beside(l) ELSE NoFile
           sub(l) == [root |-> Parent(l), source |-> SourceOf(manifest(l), l, matcher.lockfile)]
<1>1. /\ found.made = {sub(l) : l \in locks}
      /\ found.used = locks \cup ({manifest(l) : l \in locks} \ {NoFile})
  BY DEF ExactSubprojects
<1>2. \A l \in locks : LockfilesOf(sub(l).source) = {l}
  BY LockfilesOfSources
<1>3. ASSUME NEW file \in found.used, IsLockfile(file)
      PROVE  file \in locks
  <2>1. CASE file \notin locks
    <3>1. PICK l \in locks : file = beside(l) /\ file \in files
      BY <1>1, <2>1
    <3>2. NameOf(file) = matcher.manifest
      BY <3>1, NameBeside DEF ArePaths
    <3>3. NameOf(file) \in LockNames
      BY <1>3, <3>1, LockfileNames
    <3>4. QED
      BY <3>1, <3>2, <3>3
  <2>2. QED
    BY <2>1
<1>4. found.used \subseteq files
  BY <1>1
<1> HIDE DEF found, sub, locks
<1>5. \A s \in found.made : LockfilesOf(s.source) \subseteq found.used \cup {NoFile}
  BY <1>1, <1>2
<1>6. ASSUME NEW file \in locks
      PROVE  HeldOnce(file, found.made)
  <2>1. sub(file) \in found.made /\ file \in LockfilesOf(sub(file).source)
    BY <1>1, <1>2
  <2>2. ASSUME NEW o \in found.made, file \in LockfilesOf(o.source)
        PROVE  o = sub(file)
    <3>1. PICK l \in locks : o = sub(l)
      BY <1>1
    <3>2. QED
      BY <1>2, <2>2, <3>1
  <2>3. QED
    BY <2>1, <2>2 DEF HeldOnce
<1>7. QED
  BY <1>1, <1>3, <1>4, <1>5, <1>6 DEF AreSorted, found, locks

\* ExactManifestOnlyMatcher.
LEMMA ManifestSorts ==
    ASSUME NEW matcher, matcher.manifest = "pom.xml",
           NEW files, \A f \in files : ~IsRequirements(f)
    PROVE  AreSorted(ManifestSubprojects(matcher, files), files)
<1> DEFINE found == ManifestSubprojects(matcher, files)
<1>1. /\ \A s \in found.made : \E m \in files : s.source = ManifestOnly(m, matcher.manifest)
      /\ found.used = {f \in files : NameOf(f) = "pom.xml"}
  BY DEF ManifestSubprojects
<1> HIDE DEF found
<1>2. ASSUME NEW s \in found.made
      PROVE  LockfilesOf(s.source) = {NoFile}
  <2>1. PICK m : s.source = ManifestOnly(m, matcher.manifest)
    BY <1>1
  <2>2. QED
    BY <2>1, ManifestsHoldNone
<1>3. \A f \in found.used : ~IsLockfile(f)
  BY <1>1, LockfileNames, LockNamesAre
<1>4. AreSorted(found, files)
  BY <1>1, <1>2, <1>3 DEF AreSorted
<1>5. QED
  BY <1>4 DEF found

\* PipRequirementsMatcher.
LEMMA PipSorts ==
    ASSUME NEW files, IsFiniteSet(files)
    PROVE  /\ AreSorted(PipSubprojects(files), files)
           /\ {f \in files : IsRequirements(f)} \subseteq PipSubprojects(files).used
<1> DEFINE found == PipSubprojects(files)
           reqs == {f \in files : IsRequirements(f)}
           source(f) == SourceOf(RequirementsManifest(f, files), f, "requirements.txt")
           sources(root) == {source(f) : f \in {x \in reqs : RequirementsRoot(x) = root}}
           sub(root) == [root |-> root,
                         source |-> IF Cardinality(sources(root)) = 1
                                    THEN CHOOSE s \in sources(root) : TRUE
                                    ELSE [type |-> "multi", sources |-> sources(root),
                                          kind |-> "requirements.txt"]]
           locks(root) == {f \in reqs : RequirementsRoot(f) = root}
<1>1. /\ found.made = {sub(root) : root \in {RequirementsRoot(f) : f \in reqs}}
      /\ found.used = reqs \cup {f \in files : IsRequirementsIn(f)}
  BY Zenon DEF PipSubprojects
<1>2. \A f : source(f).lockfile = f /\ source(f).type # "multi"
  BY DEF SourceOf, LockfileOnly, ManifestLockfile
<1> HIDE DEF source
<1>3. ASSUME NEW root
      PROVE  LockfilesOf(sub(root).source) = locks(root)
  <2>1. {s.lockfile : s \in sources(root)} = locks(root)
    BY <1>2
  <2>2. CASE Cardinality(sources(root)) = 1
    <3>1. IsFiniteSet(sources(root))
      <4> DEFINE there == locks(root)
                 f == [x \in there |-> source(x)]
      <4>1. IsFiniteSet(there)
        <5>1. there \in SUBSET files
          OBVIOUS
        <5> HIDE DEF there
        <5>2. QED
          BY <5>1, FS_Subset
      <4>2. {f[x] : x \in there} = sources(root)
        OBVIOUS
      <4>3. DOMAIN f = there
        OBVIOUS
      <4> HIDE DEF f, there
      <4>4. IsFiniteSet({f[x] : x \in there})
        BY <4>1, <4>3, FiniteRange
      <4> HIDE DEF sources
      <4>5. QED
        BY <4>2, <4>4
    <3>2. PICK s : sources(root) = {s}
      <4> HIDE DEF sources
      <4>1. QED
        BY <2>2, <3>1, FS_Singleton
    <3>3. (CHOOSE x \in sources(root) : TRUE) = s
      <4> HIDE DEF sources
      <4>1. QED
        BY <3>2
    <3>4. sub(root).source = s /\ s \in sources(root)
      <4>1. sub(root).source = CHOOSE x \in sources(root) : TRUE
        <5> HIDE DEF sources
        <5>1. QED
          BY <2>2
      <4> HIDE DEF sources, sub
      <4>2. QED
        BY <3>2, <3>3, <4>1
    <3>5. s.type # "multi"
      BY <1>2, <3>4
    <3>6. {x.lockfile : x \in sources(root)} = {s.lockfile}
      <4> HIDE DEF sources
      <4>1. QED
        BY <3>2
    <3> HIDE DEF sources, locks, sub
    <3>7. QED
      BY <2>1, <3>4, <3>5, <3>6 DEF LockfilesOf
  <2>3. CASE Cardinality(sources(root)) # 1
    <3>1. sub(root).source = [type |-> "multi", sources |-> sources(root),
                              kind |-> "requirements.txt"]
      <4> HIDE DEF sources
      <4>1. QED
        BY <2>3
    <3> HIDE DEF sources, locks, sub
    <3>2. QED
      BY <2>1, <3>1 DEF LockfilesOf
  <2>4. QED
    BY <2>2, <2>3
<1> HIDE DEF sub, found
<1>4. \A s \in found.made : LockfilesOf(s.source) \subseteq found.used
  BY <1>1, <1>3
<1>5. ASSUME NEW file \in reqs
      PROVE  HeldOnce(file, found.made)
  <2> DEFINE root == RequirementsRoot(file)
  <2>1. sub(root) \in found.made /\ file \in LockfilesOf(sub(root).source)
    BY <1>1, <1>3
  <2>2. ASSUME NEW o \in found.made, file \in LockfilesOf(o.source)
        PROVE  o = sub(root)
    <3>1. PICK other : o = sub(other)
      BY <1>1
    <3>2. QED
      BY <1>3, <2>2, <3>1
  <2>3. QED
    BY <2>1, <2>2 DEF HeldOnce
<1>6. ASSUME NEW file \in found.used, IsLockfile(file)
      PROVE  file \in reqs
  <2>1. CASE file \notin reqs
    <3>1. ~IsRequirements(file) /\ IsRequirementsIn(file)
      BY <1>1, <2>1
    <3>2. NameOf(file) \in InFiles /\ NameOf(file) \in LockNames
      BY <1>6, <3>1, LockfileNames DEF IsRequirementsIn
    <3>3. QED
      BY <3>2, SubprojectsAssumption DEF LockNames
  <2>2. QED
    BY <2>1
<1>7. found.used \subseteq files
  BY <1>1
<1>8. AreSorted(found, files)
  BY <1>4, <1>5, <1>6, <1>7 DEF AreSorted
<1>9. reqs \subseteq found.used
  BY <1>1
<1>10. QED
  BY <1>8, <1>9 DEF found

\* GradleMatcher.
LEMMA BesideIs ==
    ASSUME NEW file, IsList(file), file # <<>>,
           NEW names \in {BuildNames, SettingsNames}, NEW files
    PROVE  LET found == FirstOf(Parent(file), names, files)
           IN found # NoFile => found \in files /\ NameOf(found) \notin LockNames
<1> DEFINE found == {i \in DOMAIN names : Append(Parent(file), names[i]) \in files}
<1>1. DOMAIN names = 1..2 /\ 1..2 = {1, 2}
  BY DEF BuildNames, SettingsNames
<1>2. names[1] \notin LockNames /\ names[2] \notin LockNames
  BY LockNamesAre DEF BuildNames, SettingsNames
<1>3. CASE found = {}
  BY <1>3 DEF FirstOf
<1>4. CASE found # {}
  <2>1. Min(found) \in found
    <3>1. \E x \in found : \A y \in found : x <= y
      BY <1>1, <1>4
    <3> HIDE DEF found
    <3>2. QED
      BY <3>1 DEF Min
  <2>2. FirstOf(Parent(file), names, files) = Append(Parent(file), names[Min(found)])
    BY <1>4 DEF FirstOf
  <2>3. names[Min(found)] \notin LockNames /\ Append(Parent(file), names[Min(found)]) \in files
    BY <1>1, <1>2, <2>1
  <2> HIDE DEF found
  <2>4. NameOf(Append(Parent(file), names[Min(found)])) = names[Min(found)]
    BY NameBeside
  <2>5. QED
    BY <2>2, <2>3, <2>4
<1>5. QED
  BY <1>3, <1>4

LEMMA GradleSorts ==
    ASSUME NEW files, ArePaths(files), \A f \in files : ~IsRequirements(f),
           NEW order, IsList(order)
    PROVE  /\ AreSorted(GradleSubprojects(files, order), files)
           /\ {f \in files : NameOf(f) = "gradle.lockfile"}
                  \subseteq GradleSubprojects(files, order).used
<1> DEFINE found == GradleSubprojects(files, order)
           locks == {f \in files : NameOf(f) = "gradle.lockfile"}
           settings == {f \in files : NameOf(f) \in ToSet(SettingsNames)}
           locked == {GradleOfLockfile(l, files) : l \in locks}
           paired == {FirstOf(Parent(l), SettingsNames, files) : l \in locks}
           declared == {GradleOfSettings(s, files) : s \in settings \ paired}
           builds == {f \in files : NameOf(f) \in ToSet(BuildNames)}
           made == FoldLeft(AddBuildFile, locked \cup declared, Only(order, builds))
           IsManifest(m) == m # NoFile => m \in files /\ NameOf(m) \notin LockNames
<1>1. /\ found.made = made
      /\ found.used = locks \cup settings \cup ({s.source.manifest : s \in made} \ {NoFile})
  BY Zenon DEF GradleSubprojects
<1>2. \A name \in ToSet(SettingsNames) \cup ToSet(BuildNames) : name \notin LockNames
  <2>1. ToSet(SettingsNames) = {"settings.gradle", "settings.gradle.kts"}
    <3>1. DOMAIN SettingsNames = {1, 2}
      BY DEF SettingsNames
    <3>2. QED
      BY <3>1 DEF ToSet, SettingsNames
  <2>2. ToSet(BuildNames) = {"build.gradle", "build.gradle.kts"}
    <3>1. DOMAIN BuildNames = {1, 2}
      BY DEF BuildNames
    <3>2. QED
      BY <3>1 DEF ToSet, BuildNames
  <2>3. QED
    BY <2>1, <2>2, LockNamesAre
<1>3. /\ locked \cup declared \subseteq made
      /\ \A s \in made \ (locked \cup declared) : \E b \in builds :
             s = [root |-> Parent(b), source |-> ManifestOnly(b, "gradle")]
  <2> HIDE DEF locked, declared, builds
  <2>1. IsList(Only(order, builds)) /\ ToSet(Only(order, builds)) \subseteq builds
    BY OnlyKept
  <2>2. QED
    BY <2>1, BuildFilesAreAdded
<1> HIDE DEF made
<1>4. ASSUME NEW l \in locks
      PROVE  LET s == GradleOfLockfile(l, files)
             IN LockfilesOf(s.source) = {l} /\ IsManifest(s.source.manifest)
  <2> DEFINE build == FirstOf(Parent(l), BuildNames, files)
             setting == FirstOf(Parent(l), SettingsNames, files)
             m == IF build # NoFile THEN build ELSE setting
  <2>1. IsManifest(build) /\ IsManifest(setting)
    BY BesideIs DEF ArePaths
  <2> HIDE DEF build, setting
  <2>2. GradleOfLockfile(l, files).source = SourceOf(m, l, "gradle.lockfile")
    BY DEF GradleOfLockfile, build, setting
  <2>3. SourceOf(m, l, "gradle.lockfile").manifest = m
    BY DEF SourceOf, LockfileOnly, ManifestLockfile
  <2> HIDE DEF IsManifest
  <2>4. IsManifest(m)
    BY <2>1
  <2> HIDE DEF m
  <2>5. QED
    BY <2>2, <2>3, <2>4, LockfilesOfSources
<1>5. ASSUME NEW s \in declared
      PROVE  LockfilesOf(s.source) = {NoFile} /\ IsManifest(s.source.manifest)
  <2>1. PICK f \in settings : s = GradleOfSettings(f, files)
    OBVIOUS
  <2> DEFINE build == FirstOf(Parent(f), BuildNames, files)
             m == IF build # NoFile THEN build ELSE f
  <2>2. IsManifest(build)
    BY BesideIs DEF ArePaths
  <2>3. IsManifest(f)
    BY <1>2
  <2> HIDE DEF build
  <2>4. s.source = ManifestOnly(m, "gradle")
    BY <2>1 DEF GradleOfSettings, build
  <2> HIDE DEF IsManifest
  <2>5. IsManifest(m)
    BY <2>2, <2>3
  <2> HIDE DEF m
  <2>6. QED
    BY <2>4, <2>5, ManifestsHoldNone
<1>6. ASSUME NEW s \in made \ (locked \cup declared)
      PROVE  LockfilesOf(s.source) = {NoFile} /\ IsManifest(s.source.manifest)
  <2>1. PICK b \in builds : s.source = ManifestOnly(b, "gradle")
    BY <1>3
  <2>2. IsManifest(b) /\ s.source.manifest = b
    BY <1>2, <2>1, ManifestsHoldNone
  <2>3. QED
    BY <2>1, <2>2, ManifestsHoldNone
<1> HIDE DEF declared
<1>7. \A s \in made : IsManifest(s.source.manifest)
  BY <1>3, <1>4, <1>5, <1>6
<1>8. \A s \in made : s \in locked \/ LockfilesOf(s.source) = {NoFile}
  BY <1>5, <1>6
<1>9. found.used \subseteq files
  BY <1>1, <1>7
<1>10. ASSUME NEW file \in found.used, IsLockfile(file)
       PROVE  file \in locks
  <2>1. NameOf(file) \in LockNames
    BY <1>9, <1>10, LockfileNames
  <2>2. QED
    BY <1>1, <1>2, <1>7, <2>1
<1>11. ASSUME NEW file \in locks
       PROVE  HeldOnce(file, made)
  <2> DEFINE s == GradleOfLockfile(file, files)
  <2>1. s \in made /\ LockfilesOf(s.source) = {file}
    BY <1>3, <1>4
  <2>2. ASSUME NEW o \in made, file \in LockfilesOf(o.source)
        PROVE  o = s
    <3>1. file # NoFile
      BY DEF ArePaths
    <3>2. o \in locked
      BY <1>8, <2>2, <3>1
    <3>3. PICK l \in locks : o = GradleOfLockfile(l, files)
      BY <3>2
    <3>4. l = file
      BY <1>4, <2>2, <3>3
    <3>5. QED
      BY <3>3, <3>4
  <2> HIDE DEF s
  <2>3. QED
    BY <2>1, <2>2 DEF HeldOnce
<1>12. \A s \in made : LockfilesOf(s.source) \subseteq locks \cup {NoFile}
  BY <1>4, <1>8
<1> HIDE DEF found, locks
<1>13. AreSorted(found, files) /\ locks \subseteq found.used
  BY <1>1, <1>9, <1>10, <1>11, <1>12 DEF AreSorted
<1>14. QED
  BY <1>13 DEF found, locks

\* The lockfiles that a matcher is for.
IsFor(matcher, file) ==
    \/ matcher.type = "pip" /\ IsRequirements(file)
    \/ matcher.type = "gradle" /\ NameOf(file) = "gradle.lockfile"
    \/ matcher.type = "exact" /\ NameOf(file) = matcher.lockfile

LEMMA MatcherSorts ==
    ASSUME NEW i \in DOMAIN Matchers, NEW files, IsFiniteSet(files), ArePaths(files),
           i # 1 => \A f \in files : ~IsRequirements(f), NEW order, IsList(order)
    PROVE  LET new == MakeSubprojects(Matchers[i], files, order)
           IN /\ AreSorted(new, files)
              /\ \A f \in files : IsFor(Matchers[i], f) => f \in new.used
<1> DEFINE m == Matchers[i]
           new == MakeSubprojects(m, files, order)
<1>1. /\ i = 1 => m.type = "pip"
      /\ i # 1 => m.type \in {"exact", "manifest", "gradle"}
      /\ m.type = "exact" /\ m.manifest \in LockNames => m.manifest = m.lockfile
      /\ m.type = "manifest" => m.manifest = "pom.xml"
  BY Matcher
<1> HIDE DEF m
<1>2. CASE m.type = "pip"
  <2>1. new = PipSubprojects(files)
    BY <1>2 DEF MakeSubprojects
  <2>2. QED
    BY <1>2, <2>1, PipSorts DEF IsFor, m
<1>3. CASE m.type = "exact"
  <2>1. new = ExactSubprojects(m, files)
    BY <1>3 DEF MakeSubprojects
  <2>2. \A f \in files : ~IsRequirements(f)
    BY <1>1, <1>3
  <2>3. /\ AreSorted(new, files)
        /\ {f \in files : NameOf(f) = m.lockfile} \subseteq new.used
    BY <1>1, <1>3, <2>1, <2>2, ExactSorts
  <2>4. QED
    BY <1>3, <2>3 DEF IsFor, m
<1>4. CASE m.type = "manifest"
  <2>1. new = ManifestSubprojects(m, files)
    BY <1>4 DEF MakeSubprojects
  <2>2. \A f \in files : ~IsRequirements(f)
    BY <1>1, <1>4
  <2>3. AreSorted(new, files)
    BY <1>1, <1>4, <2>1, <2>2, ManifestSorts
  <2>4. QED
    BY <1>4, <2>3 DEF IsFor, m
<1>5. CASE m.type = "gradle"
  <2>1. new = GradleSubprojects(files, order)
    BY <1>5 DEF MakeSubprojects
  <2>2. \A f \in files : ~IsRequirements(f)
    BY <1>1, <1>5
  <2>3. /\ AreSorted(new, files)
        /\ {f \in files : NameOf(f) = "gradle.lockfile"} \subseteq new.used
    BY <2>1, <2>2, GradleSorts
  <2>4. QED
    BY <1>5, <2>3 DEF IsFor, m
<1>6. QED
  BY <1>1, <1>2, <1>3, <1>4, <1>5

\* What a matcher finds in the files that the ones before it have left.
LEMMA SortedOn ==
    ASSUME NEW files, ArePaths(files), NEW found, AreSorted(found, files),
           NEW new, AreSorted(new, files \ found.used)
    PROVE  AreSorted([made |-> found.made \cup new.made, used |-> found.used \cup new.used],
                     files)
<1> DEFINE all == [made |-> found.made \cup new.made, used |-> found.used \cup new.used]
<1>1. all.made = found.made \cup new.made /\ all.used = found.used \cup new.used
  OBVIOUS
<1> HIDE DEF all
<1>2. all.used \subseteq files /\ found.used \cap new.used = {} /\ NoFile \notin all.used
  BY <1>1 DEF AreSorted, ArePaths
<1>3. /\ \A s \in found.made : LockfilesOf(s.source) \subseteq found.used \cup {NoFile}
      /\ \A s \in new.made : LockfilesOf(s.source) \subseteq new.used \cup {NoFile}
  BY DEF AreSorted
<1>4. ASSUME NEW file \in all.used, IsLockfile(file)
      PROVE  HeldOnce(file, all.made)
  <2>1. CASE file \in found.used
    <3>1. PICK s \in found.made : /\ file \in LockfilesOf(s.source)
                                  /\ \A o \in found.made : file \in LockfilesOf(o.source) => o = s
      BY <1>4, <2>1 DEF AreSorted, HeldOnce
    <3>2. \A o \in new.made : file \notin LockfilesOf(o.source)
      BY <1>2, <1>3, <2>1
    <3>3. QED
      BY <1>1, <3>1, <3>2 DEF HeldOnce
  <2>2. CASE file \in new.used
    <3>1. PICK s \in new.made : /\ file \in LockfilesOf(s.source)
                                /\ \A o \in new.made : file \in LockfilesOf(o.source) => o = s
      BY <1>4, <2>2 DEF AreSorted, HeldOnce
    <3>2. \A o \in found.made : file \notin LockfilesOf(o.source)
      BY <1>2, <1>3, <2>2
    <3>3. QED
      BY <1>1, <3>1, <3>2 DEF HeldOnce
  <2>3. QED
    BY <1>1, <2>1, <2>2
<1>5. \A s \in all.made : LockfilesOf(s.source) \subseteq all.used \cup {NoFile}
  BY <1>1, <1>3
<1>6. AreSorted(all, files)
  BY <1>2, <1>4, <1>5 DEF AreSorted
<1>7. QED
  BY <1>6 DEF all

\* find_subprojects: whatever the files are called, each lockfile is in one subproject.
LEMMA LockfilesAreHeldOnce ==
    ASSUME NEW files, IsFiniteSet(files), ArePaths(files), NEW order, IsList(order)
    PROVE  \A file \in files :
               IsLockfile(file) => HeldOnce(file, FindSubprojects(files, order))
<1> DEFINE make(i, left) == MakeSubprojects(Matchers[i], left, order)
           after(found, matcher) ==
               LET new == MakeSubprojects(matcher, files \ found.used, order)
               IN [made |-> found.made \cup new.made, used |-> found.used \cup new.used]
           base == [made |-> {}, used |-> {}]
           X == [made : SUBSET UNION {make(i, left).made : i \in 1..18, left \in SUBSET files},
                 used : SUBSET UNION {make(i, left).used : i \in 1..18, left \in SUBSET files}]
           F == [p \in X \X (1..18) |-> after(p[1], Matchers[p[2]])]
           Eq(g) == g = [t \in SUBSET DOMAIN Matchers |->
                            IF t = {} THEN base ELSE after(g[t \ {Max(t)}], Matchers[Max(t)])]
           iter == CHOOSE g : Eq(g)
<1>1. DOMAIN Matchers = 1..18
  BY DEF Matchers
<1>2. base \in X
  OBVIOUS
<1>3. ASSUME NEW x \in X, NEW i \in 1..18
      PROVE  after(x, Matchers[i]) \in X
  <2> DEFINE new == make(i, files \ x.used)
  <2>1. files \ x.used \in SUBSET files
    OBVIOUS
  <2>2. /\ new.made \subseteq UNION {make(j, left).made : j \in 1..18, left \in SUBSET files}
        /\ new.used \subseteq UNION {make(j, left).used : j \in 1..18, left \in SUBSET files}
    <3> DEFINE S == SUBSET files
               left == files \ x.used
    <3>1. left \in S
      BY <2>1
    <3> HIDE DEF S, left, make
    <3>2. /\ make(i, left).made \in {make(j, u).made : j \in 1..18, u \in S}
          /\ make(i, left).used \in {make(j, u).used : j \in 1..18, u \in S}
      BY <3>1
    <3>3. /\ make(i, left).made \subseteq UNION {make(j, u).made : j \in 1..18, u \in S}
          /\ make(i, left).used \subseteq UNION {make(j, u).used : j \in 1..18, u \in S}
      BY <3>2
    <3>4. QED
      BY <3>3 DEF S, left
  <2>3. after(x, Matchers[i])
            = [made |-> x.made \cup new.made, used |-> x.used \cup new.used]
    OBVIOUS
  <2> HIDE DEF new, make, after
  <2>4. QED
    BY <2>2, <2>3
<1> HIDE DEF X
<1>4. \E g : Eq(g)
  <2>1. \A x \in X, i \in 1..18 : F[<<x, i>>] = after(x, Matchers[i])
    OBVIOUS
  <2> HIDE DEF F, after, base
  <2>2. StaysIn(F, X, 18)
    BY <1>3, <2>1 DEF StaysIn
  <2>3. PICK g : IsFold(g, F, base, X, 18)
    BY <1>2, <2>2, FoldExists
  <2>4. ASSUME NEW t \in SUBSET (1..18), t # {}
        PROVE  g[t] = after(g[t \ {Max(t)}], Matchers[Max(t)])
    <3>1. Max(t) \in 1..18
      BY <2>4, MaxInList
    <3>2. t \ {Max(t)} \in SUBSET (1..18)
      OBVIOUS
    <3>3. g[t \ {Max(t)}] \in X
      BY <2>3, <3>2 DEF IsFold
    <3>4. g[t] = F[<<g[t \ {Max(t)}], Max(t)>>]
      BY <2>3, <2>4 DEF IsFold
    <3>5. QED
      BY <2>1, <3>1, <3>3, <3>4
  <2>5. Eq(g)
    <3> DEFINE h == [t \in SUBSET (1..18) |->
                        IF t = {} THEN base ELSE after(g[t \ {Max(t)}], Matchers[Max(t)])]
    <3>1. \A t \in SUBSET (1..18) : h[t] = g[t]
      BY <2>3, <2>4, Zenon DEF IsFold
    <3>2. g = [t \in SUBSET (1..18) |-> g[t]]
      BY <2>3 DEF IsFold
    <3>3. h = [t \in SUBSET (1..18) |-> h[t]]
      BY Zenon
    <3>4. g = h
      <4> HIDE DEF h
      <4>1. QED
        BY <3>1, <3>2, <3>3, Zenon
    <3>5. QED
      BY <1>1, <3>4, Zenon
  <2>6. QED
    BY <2>5, Zenon
<1>5. Eq(iter)
  BY <1>4, Zenon
<1>6. FindSubprojects(files, order) = iter[DOMAIN Matchers].made
  BY Zenon DEF FindSubprojects, FoldLeft, MapThenFoldSet
<1> HIDE DEF iter
<1>7. iter[{}] = base
  <2>1. {} \in SUBSET DOMAIN Matchers
    OBVIOUS
  <2>2. QED
    BY <1>5, <2>1, Zenon
<1> DEFINE Done(found, k) ==
               /\ AreSorted(found, files)
               /\ \A j \in 1..k : \A f \in files : IsFor(Matchers[j], f) => f \in found.used
           M == {k \in 0..18 : Done(iter[1..k], k)}
<1>8. 0 \in M
  <2>1. 1..0 = {} /\ 0 \in 0..18
    OBVIOUS
  <2>2. AreSorted(base, files)
    BY DEF AreSorted
  <2>3. Done(base, 0)
    BY <2>1, <2>2
  <2> HIDE DEF Done, base
  <2>4. QED
    BY <1>7, <2>1, <2>3
<1>9. ASSUME NEW k \in 0..18, k \in M, k < 18
      PROVE  k + 1 \in M
  <2> DEFINE t == 1..(k + 1)
             found == iter[1..k]
             left == files \ found.used
             new == MakeSubprojects(Matchers[k + 1], left, order)
  <2>1. /\ k + 1 \in 1..18 /\ t # {} /\ t \in SUBSET (1..18)
        /\ t \ {k + 1} = 1..k /\ Max(t) = k + 1
    BY <1>9, FirstElements
  <2>2. iter[t] = after(found, Matchers[k + 1])
    <3> HIDE DEF t, after
    <3>1. iter[t] = after(iter[t \ {Max(t)}], Matchers[Max(t)])
      BY <1>1, <1>5, <2>1, Zenon
    <3>2. QED
      BY <2>1, <3>1
  <2>3. Done(found, k)
    BY <1>9
  <2> HIDE DEF found
  <2>4. iter[t] = [made |-> found.made \cup new.made, used |-> found.used \cup new.used]
    BY <2>2
  <2>5. IsFiniteSet(left) /\ ArePaths(left)
    <3>1. left \in SUBSET files
      OBVIOUS
    <3>2. ArePaths(left)
      BY DEF ArePaths
    <3>3. IsFiniteSet(left)
      <4> HIDE DEF left
      <4>1. QED
        BY <3>1, FS_Subset
    <3>4. QED
      BY <3>2, <3>3
  <2>6. k + 1 # 1 => \A f \in left : ~IsRequirements(f)
    <3> SUFFICES ASSUME k + 1 # 1
                 PROVE  \A f \in left : ~IsRequirements(f)
      OBVIOUS
    <3>1. 1 \in 1..k /\ Matchers[1].type = "pip"
      BY <1>1, Matcher
    <3>2. \A f \in files : IsFor(Matchers[1], f) => f \in found.used
      BY <2>3, <3>1
    <3>3. QED
      BY <3>1, <3>2 DEF IsFor
  <2> HIDE DEF left
  <2>7. AreSorted(new, left) /\ \A f \in left : IsFor(Matchers[k + 1], f) => f \in new.used
    BY <1>1, <2>1, <2>5, <2>6, MatcherSorts
  <2> HIDE DEF new, t, after
  <2>8. AreSorted(iter[t], files)
    BY <2>3, <2>4, <2>7, SortedOn DEF left
  <2>9. ASSUME NEW j \in 1..(k + 1), NEW f \in files, IsFor(Matchers[j], f)
        PROVE  f \in iter[t].used
    <3>1. iter[t].used = found.used \cup new.used
      BY <2>4
    <3>2. CASE j \in 1..k
      BY <2>3, <2>9, <3>1, <3>2
    <3>3. CASE j = k + 1
      BY <2>7, <2>9, <3>1, <3>3 DEF left
    <3>4. QED
      BY <3>2, <3>3
  <2>10. Done(iter[t], k + 1) /\ k + 1 \in 0..18
    <3>1. k + 1 \in 0..18
      BY <2>1
    <3>2. \A j \in 1..(k + 1) : \A f \in files : IsFor(Matchers[j], f) => f \in iter[t].used
      BY <2>9
    <3>3. QED
      BY <2>8, <3>1, <3>2, Zenon
  <2> HIDE DEF Done
  <2>11. QED
    BY <2>10 DEF t
<1>10. 18 \in M
  <2>1. 0..18 \subseteq M
    <3> HIDE DEF M
    <3>1. QED
      BY <1>8, <1>9, CountingUp
  <2> HIDE DEF M
  <2>2. QED
    BY <2>1
<1> DEFINE all == iter[1..18]
<1>11. Done(all, 18)
  BY <1>10
<1> HIDE DEF all
<1>12. ASSUME NEW file \in files, IsLockfile(file)
       PROVE  file \in all.used
  <2>1. \E j \in 1..18 : IsFor(Matchers[j], file)
    <3>1. CASE IsRequirements(file)
      BY <1>1, <3>1, Matcher DEF IsFor
    <3>2. CASE NameOf(file) = "gradle.lockfile"
      <4>1. Matchers[10].type = "gradle" /\ 10 \in 1..18
        BY DEF Matchers
      <4>2. QED
        BY <3>2, <4>1 DEF IsFor
    <3>3. CASE \E j \in DOMAIN Matchers :
                   Matchers[j].type = "exact" /\ Matchers[j].lockfile = NameOf(file)
      BY <1>1, <3>3 DEF IsFor
    <3>4. QED
      BY <1>12, <3>1, <3>2, <3>3 DEF IsLockfile
  <2>2. QED
    BY <1>11, <2>1
<1>13. \A file \in files : IsLockfile(file) => HeldOnce(file, all.made)
  BY <1>11, <1>12 DEF AreSorted
<1>14. QED
  BY <1>1, <1>6, <1>13 DEF all

\* Every subproject is resolved to one.
LEMMA ResolvedHold ==
    ASSUME NEW answers, NEW files, IsFiniteSet(files), ArePaths(files),
           NEW order, IsList(order), NEW dynamic, NEW graph
    PROVE  \A file \in files : IsLockfile(file) =>
               Cardinality({s \in ResolveSubprojects(answers, files, order, dynamic, graph) :
                               file \in LockfilesOf(s.source)}) = 1
<1> SUFFICES ASSUME NEW file \in files, IsLockfile(file)
             PROVE  Cardinality({s \in ResolveSubprojects(answers, files, order, dynamic, graph) :
                                    file \in LockfilesOf(s.source)}) = 1
  OBVIOUS
<1> DEFINE all == FindSubprojects(files, order)
           how(s) == ResolveDependencySource(answers, s.source, dynamic, graph)
           done(s) == [root |-> s.root, source |-> s.source, ok |-> how(s).ok,
                       method |-> how(s).method, ecosystem |-> how(s).ecosystem,
                       deps |-> how(s).deps, errors |-> how(s).errors,
                       targets |-> how(s).targets]
           resolved == ResolveSubprojects(answers, files, order, dynamic, graph)
<1>1. resolved = {done(s) : s \in all}
  BY Zenon DEF ResolveSubprojects
<1>2. \A s : done(s).source = s.source
  OBVIOUS
<1>3. PICK s \in all : /\ file \in LockfilesOf(s.source)
                       /\ \A o \in all : file \in LockfilesOf(o.source) => o = s
  BY LockfilesAreHeldOnce DEF HeldOnce
<1> HIDE DEF all, done, resolved
<1>4. {r \in resolved : file \in LockfilesOf(r.source)} = {done(s)}
  <2>1. done(s) \in resolved /\ file \in LockfilesOf(done(s).source)
    BY <1>1, <1>2, <1>3
  <2>2. ASSUME NEW r \in resolved, file \in LockfilesOf(r.source)
        PROVE  r = done(s)
    <3>1. PICK o \in all : r = done(o)
      BY <1>1
    <3>2. QED
      BY <1>2, <1>3, <2>2, <3>1
  <2>3. QED
    BY <2>1, <2>2
<1>5. Cardinality({done(s)}) = 1
  BY FS_Singleton
<1>6. QED
  BY <1>4, <1>5 DEF resolved

\* What get_all_dependency_source_files gives is files of the tree.
LEMMA SourcesAreFiles ==
    ASSUME NEW tree, NEW tm, NEW product, NEW ignoreBaseline
    PROVE  GetAllDependencySourceFiles(tree, tm, product, ignoreBaseline) \subseteq tree.files
<1> DEFINE all == GetAllFilesWithDirPruning(tree, tm, product, ignoreBaseline)
           kept == Filtered(tree, tm, Dependencies, product, all).kept
           more == Restored(tree, tm, Dependencies)
<1>1. GetAllDependencySourceFiles(tree, tm, product, ignoreBaseline) = kept \cup more
  BY DEF GetAllDependencySourceFiles, GetFilesForLanguage
<1>2. kept \subseteq tree.files
  BY DEF Filtered, FilterIgnored, IsFile
<1>3. more \subseteq tree.files
  BY DEF Restored, ExplicitFiles, FilterByLanguage, IsFile
<1>4. QED
  BY <1>1, <1>2, <1>3

\* From the resolution on, until what the manager goes by is another.
LockfilesInv ==
    stage \in {"engine", "compare"} /\ job.subprojects # {} =>
        \A file \in GetAllDependencySourceFiles(request.tree[folder], CurrentManager, "sca", TRUE) :
            IsLockfile(file) =>
                Cardinality({s \in job.subprojects : file \in LockfilesOf(s.source)}) = 1

LEMMA LockfilesStep ==
    FolderInv /\ FixInv /\ ToldInv /\ LockfilesInv /\ [Next]_vars => LockfilesInv'
<1> SUFFICES ASSUME FolderInv, FixInv, ToldInv, LockfilesInv, [Next]_vars,
                    stage' \in {"engine", "compare"}
             PROVE  LockfilesInv'
  BY DEF LockfilesInv
<1> DEFINE sources == GetAllDependencySourceFiles(request.tree[folder], CurrentManager, "sca", TRUE)
<1>1. ASSUME Prepare
      PROVE  LockfilesInv'
  <2>1. /\ stage = "prepare" /\ PrepareRules(CurrentSubprojects)
        /\ UNCHANGED <<request, rules, status, folder, matches>>
    BY <1>1 DEF Prepare
  <2>2. job'.subprojects = CurrentSubprojects
    BY <2>1 DEF PrepareRules, RunRules
  <2>3. IsRequest(request) /\ folder \in {"head", "worktree"}
    BY <2>1 DEF FixInv, ToldInv, FolderInv
  <2>4. IsFiniteSet(sources) /\ ArePaths(sources)
    <3>1. IsFiniteSet(request.tree[folder].files) /\ ArePaths(request.tree[folder].files)
      BY <2>3 DEF IsRequest
    <3>2. sources \in SUBSET request.tree[folder].files
      BY SourcesAreFiles
    <3> HIDE DEF sources
    <3>3. QED
      BY <3>1, <3>2, FS_Subset DEF ArePaths
  <2>5. CurrentSubprojects # {} =>
            CurrentSubprojects = ResolveSubprojects(request.answers, sources, SetToSeq(sources),
                                                    request.dynamic, request.graph)
    BY DEF CurrentSubprojects
  <2>6. CurrentManager' = CurrentManager
    BY <2>1 DEF CurrentManager, TargetManagerOfHead, TargetManagerOfBaseline, TargetMode,
                ScanTargetsThere, BaselineTargets, PathsWithMatches, Renamed
  <2>7. sources' = sources
    BY <2>1, <2>6
  <2> HIDE DEF sources
  <2>8. IsList(SetToSeq(sources))
    BY <2>4, SetAsList
  <2>9. CurrentSubprojects # {} =>
            \A file \in sources : IsLockfile(file) =>
                Cardinality({s \in CurrentSubprojects : file \in LockfilesOf(s.source)}) = 1
    BY <2>4, <2>5, <2>8, ResolvedHold
  <2>10. job'.subprojects # {} =>
             \A file \in sources' : IsLockfile(file) =>
                 Cardinality({s \in job'.subprojects : file \in LockfilesOf(s.source)}) = 1
    BY <2>2, <2>7, <2>9
  <2>11. QED
    BY <2>10 DEF LockfilesInv, sources
<1>2. ASSUME TakeHead
      PROVE  LockfilesInv'
  <2>1. stage = "engine" /\ folder = "head" /\ UNCHANGED <<request, status, folder, job>>
    BY <1>2 DEF TakeHead, Answered
  <2>2. CurrentManager' = CurrentManager
    BY <2>1 DEF CurrentManager, TargetManagerOfHead
  <2>3. QED
    BY <2>1, <2>2 DEF LockfilesInv
<1>3. ASSUME UNCHANGED <<stage, job, request, status, folder, matches>>
      PROVE  LockfilesInv'
  <2>1. CurrentManager' = CurrentManager
    BY <1>3 DEF CurrentManager, TargetManagerOfHead, TargetManagerOfBaseline, TargetMode,
                ScanTargetsThere, BaselineTargets, PathsWithMatches, Renamed
  <2>2. QED
    BY <1>3, <2>1 DEF LockfilesInv
<1>4. ASSUME RunScanStep
      PROVE  Prepare \/ TakeHead \/ UNCHANGED <<stage, job, request, status, folder, matches>>
  BY <1>4 DEF RunScanStep, ScanStep, ScanAdvance, LoadRules, InitBaseline, SelectTargets,
              RulesRaise, PrepareFails, TakeFailure, SkipBaseline, GitLogFails,
              EnterBaseline, EnterBaselineFails, TakeBaseline, LeaveBaseline, Finish, Ends, Engine, scanVars
<1>5. ASSUME Call \/ CommandStep
      PROVE  UNCHANGED <<stage, job, request, status, folder, matches>>
  BY <1>5 DEF Call, CallScan, CallCi, StartScan, CommandStep, ScanCommandStep, ValidateWithoutEngine,
              CheckRules, Validated, ScanFailed, ScanLeft, ScanDone, scanVars
<1>6. ASSUME CiCommandStep
      PROVE  UNCHANGED <<stage, job, request, status, folder, matches>>
  BY <1>6 DEF CiCommandStep, ConfigureErrors, ReadEnvironment, StartCiScan, StartWithoutApp, RunCiScan,
              StartScan, Ends, ReportFailure, CiFailed, CiLeft, RunHistory, TakeHistory, SkipHistory,
              ShowFindings, SendResults, SendComplete, Verdict, RestoreCheckout, scanVars
<1>7. ASSUME GiveUpSoon \/ Exited \/ UNCHANGED vars
      PROVE  UNCHANGED <<stage, job, request, status, folder, matches>>
  BY <1>7 DEF GiveUpSoon, Exited, vars, scanVars
<1>8. QED
  BY <1>1, <1>2, <1>3, <1>4, <1>5, <1>6, <1>7 DEF Next

\* However the files of a project are called and lie in each other, and in whatever
\* order they come, no lockfile of it is left out or in two subprojects.
THEOREM LockfilesAreNeverShared == Spec => []LockfilesAreInOneSubproject
<1>1. Init => LockfilesInv
  BY DEF Init, ScanInit, LockfilesInv
<1>2. LockfilesInv => LockfilesAreInOneSubproject
  BY DEF LockfilesInv, LockfilesAreInOneSubproject
<1>3. QED
  BY <1>1, <1>2, FolderStarts, FolderStep, FixStarts, FixStep, StepStarts, StepStep, ToldStarts,
     ToldStep, LockfilesStep, PTL DEF Spec

-----------------------------------------------------------------------------
(* The numbers of findings, and the findings of the baseline *)

\* As many members as there are of another set.
LEMMA SameNumber ==
    ASSUME NEW S, NEW T, IsFiniteSet(S), NEW f \in [S -> T],
           \A x, y \in S : f[x] = f[y] => x = y, \A t \in T : \E x \in S : f[x] = t
    PROVE  IsFiniteSet(T) /\ Cardinality(T) = Cardinality(S)
<1>1. f \in Bijection(S, T)
  BY DEF Bijection, Injection, Surjection, IsInjective
<1>2. ExistsBijection(S, T)
  BY <1>1 DEF ExistsBijection
<1>3. QED
  BY <1>2, FS_Bijection

\* The members of a class have the numbers below its size, each of them once.
IsNumbered(class) ==
    /\ IsFiniteSet(class)
    /\ {m.index : m \in class} = 0..(Cardinality(class) - 1)
    /\ \A m, o \in class : m.index = o.index => m = o

\* Without the first k of them.
LEMMA NumberedLeft ==
    ASSUME NEW class, IsNumbered(class), NEW k \in Nat
    PROVE  Cardinality({m \in class : m.index \notin 0..(k - 1)})
               = IF Cardinality(class) > k THEN Cardinality(class) - k ELSE 0
<1> DEFINE n == Cardinality(class)
           left == {m \in class : m.index \notin 0..(k - 1)}
           rest == k..(n - 1)
           f == [m \in left |-> m.index]
<1>1. n \in Nat
  BY FS_CardinalityType DEF IsNumbered
<1>2. IsFiniteSet(left)
  <2>1. left \in SUBSET class
    OBVIOUS
  <2> HIDE DEF left
  <2>2. QED
    BY <2>1, FS_Subset DEF IsNumbered
<1>3. \A m \in class : m.index \in 0..(n - 1)
  BY DEF IsNumbered
<1>4. \A i \in 0..(n - 1) : \E m \in class : m.index = i
  BY DEF IsNumbered
<1> HIDE DEF n
<1>5. f \in [left -> rest]
  BY <1>1, <1>3
<1>6. \A x, y \in left : f[x] = f[y] => x = y
  BY DEF IsNumbered
<1>7. \A i \in rest : \E m \in left : f[m] = i
  <2> SUFFICES ASSUME NEW i \in rest
               PROVE  \E m \in left : f[m] = i
    OBVIOUS
  <2>1. i \in 0..(n - 1) /\ i \notin 0..(k - 1)
    BY <1>1
  <2>2. PICK m \in class : m.index = i
    BY <1>4, <2>1
  <2>3. m \in left
    BY <2>1, <2>2
  <2>4. QED
    BY <2>2, <2>3
<1>8. Cardinality(rest) = Cardinality(left)
  <2> HIDE DEF left, rest, f
  <2>1. QED
    BY <1>2, <1>5, <1>6, <1>7, SameNumber
<1>9. Cardinality(rest) = IF k > n - 1 THEN 0 ELSE n - 1 - k + 1
  BY <1>1, FS_Interval
<1>10. QED
  <2> HIDE DEF left, rest
  <2>1. Cardinality(left) = IF n > k THEN n - k ELSE 0
    BY <1>1, <1>8, <1>9
  <2>2. QED
    BY <2>1 DEF n, left

\* Where the findings with one code in one file are in a list.
Placed(own, path, code) == {i \in DOMAIN own : own[i].path = path /\ own[i].code = code}

\* What a rule found that is not of the previous scan, before it is numbered.
OfOneRule(own) ==
    /\ \A i \in DOMAIN own : /\ FindingFields \subseteq DOMAIN own[i]
                             /\ own[i].index = 0 /\ own[i].priorName = NoName
    /\ \A i, k \in DOMAIN own : own[i].rule = own[k].rule

\* RuleMatches numbers the findings of one rule with one code in one file.
LEMMA NumbersAre ==
    ASSUME NEW own, IsList(own), NEW path, NEW code, OfOneRule(own)
    PROVE  LET P == Placed(own, path, code)
               class == InFile(ToSet(RuleMatchesOf(own)), path, code)
           IN IsFiniteSet(P) /\ IsNumbered(class) /\ Cardinality(class) = Cardinality(P)
<1> DEFINE n == Len(own)
           P == {i \in DOMAIN own : own[i].path = path /\ own[i].code = code}
           told == RuleMatchesOf(own)
           class == InFile(ToSet(told), path, code)
           c == Cardinality(P)
           before == [i \in P |-> told[i].index]
           f == [i \in P |-> told[i]]
<1>1. n \in Nat /\ DOMAIN own = 1..n
  BY ListDomain
<1>2. DOMAIN told = DOMAIN own
  BY DEF RuleMatchesOf
<1>3. ASSUME NEW i \in DOMAIN own
      PROVE  /\ told[i].path = own[i].path /\ told[i].code = own[i].code
             /\ told[i].index = Cardinality(SameBefore(own, i))
  <2>1. \E b : told[i] = [own[i] EXCEPT !.index = Cardinality(SameBefore(own, i)), !.matchIndex = b]
    BY DEF RuleMatchesOf
  <2>2. {"path", "code", "index"} \subseteq DOMAIN own[i]
    BY DEF FindingFields, OfOneRule
  <2> HIDE DEF told
  <2>3. QED
    BY <2>1, <2>2
<1> HIDE DEF n, told
<1>4. ASSUME NEW i \in P
      PROVE  SameBefore(own, i) = {k \in P : k < i}
  <2>1. \A k \in DOMAIN own : CiUniqueKey(own[k]) = CiUniqueKey(own[i])
            <=> own[k].path = path /\ own[k].code = code
    BY DEF CiUniqueKey, NamedBy, OfOneRule
  <2>2. \A k : k \in 1..(i - 1) <=> k \in DOMAIN own /\ k < i
    BY <1>1
  <2>3. SameBefore(own, i) = {k \in 1..(i - 1) : CiUniqueKey(own[k]) = CiUniqueKey(own[i])}
    BY DEF SameBefore
  <2>4. QED
    BY <2>1, <2>2, <2>3
<1>5. P \in SUBSET (1..n)
  BY <1>1
<1>6. CountsBefore(before, P)
  BY <1>3, <1>4 DEF CountsBefore
<1>7. /\ IsFiniteSet(P) /\ c \in Nat
      /\ \A i, j \in P : before[i] = before[j] => i = j
      /\ {before[i] : i \in P} = 0..(c - 1)
  <2> HIDE DEF P, before, c
  <2>1. Numbers(before, P)
    BY <1>1, <1>5, <1>6, CountedBefore
  <2>2. QED
    BY <2>1 DEF c, Numbers
<1>8. class = {told[i] : i \in P}
  <2>1. ToSet(told) = {told[i] : i \in DOMAIN own}
    BY <1>2 DEF ToSet
  <2>2. \A m : m \in class <=> m \in ToSet(told) /\ m.path = path /\ m.code = code
    BY DEF InFile
  <2>3. \A i \in DOMAIN own : i \in P <=> told[i].path = path /\ told[i].code = code
    BY <1>3
  <2>4. P \subseteq DOMAIN own
    OBVIOUS
  <2> HIDE DEF P, class
  <2>5. QED
    BY <2>1, <2>2, <2>3, <2>4
<1>9. \A i \in P : f[i] = told[i] /\ told[i].index = before[i]
  OBVIOUS
<1> HIDE DEF P, before, class
<1>10. IsFiniteSet(class) /\ Cardinality(class) = c
  <2>1. f \in [P -> class]
    BY <1>8
  <2>2. \A i, j \in P : f[i] = f[j] => i = j
    BY <1>7, <1>9
  <2>3. \A m \in class : \E i \in P : f[i] = m
    BY <1>8
  <2> HIDE DEF f
  <2>4. QED
    BY <1>7, <2>1, <2>2, <2>3, SameNumber
<1>11. {m.index : m \in class} = {before[i] : i \in P}
  BY <1>8, <1>9
<1>12. \A m, o \in class : m.index = o.index => m = o
  BY <1>7, <1>8, <1>9
<1>13. IsNumbered(class)
  BY <1>7, <1>10, <1>11, <1>12 DEF IsNumbered
<1>14. QED
  BY <1>7, <1>10, <1>13 DEF P, class, told, Placed


\* Numbered by the rule, the findings of an answer are as many as the engine made in
\* each file with each code.
LEMMA EngineNumbers ==
    ASSUME NEW sent, NEW rule \in ToSet(sent), NEW answer, IsList(answer), IsInjective(answer),
           \A x \in ToSet(answer) : FindingFields \subseteq DOMAIN x /\ x.index = 0,
           NEW path, NEW code,
           \A m \in ToSet(CoreMatchesToRuleMatches(sent, answer)[rule]) : m.priorName = NoName
    PROVE  LET class == InFile(ToSet(CoreMatchesToRuleMatches(sent, answer)[rule]), path, code)
               there == InFile({x \in ToSet(answer) : x.rule = rule.id}, path, code)
           IN /\ IsNumbered(class)
              /\ IsInRuleTable(rule, sent) => Cardinality(class) = Cardinality(there)
<1> DEFINE found == Only(answer, {match \in ToSet(answer) :
                                     match.rule = rule.id /\ IsInRuleTable(rule, sent)})
           own   == [i \in DOMAIN found |-> ConvertToRuleMatch(found[i], rule)]
           told  == RuleMatchesOf(own)
           class == InFile(ToSet(CoreMatchesToRuleMatches(sent, answer)[rule]), path, code)
           there == InFile({x \in ToSet(answer) : x.rule = rule.id}, path, code)
           P == {i \in DOMAIN own : own[i].path = path /\ own[i].code = code}
           f == [i \in P |-> found[i]]
<1>1. CoreMatchesToRuleMatches(sent, answer)[rule] = SortMatches(told)
  BY DEF CoreMatchesToRuleMatches
<1>2. /\ IsList(found) /\ IsInjective(found)
      /\ ToSet(found) = ToSet(answer) \cap {match \in ToSet(answer) :
                                     match.rule = rule.id /\ IsInRuleTable(rule, sent)}
  BY OnlyKept, OnlyOnce
<1> HIDE DEF found
<1>3. IsList(own) /\ DOMAIN own = DOMAIN found
  <2>1. own = [i \in DOMAIN found |-> own[i]]
    OBVIOUS
  <2> HIDE DEF own
  <2>2. QED
    BY <1>2, <2>1, MappedList
<1>4. IsList(told) /\ DOMAIN told = DOMAIN found /\ ToSet(told) = {told[i] : i \in DOMAIN found}
  <2>1. told = [i \in DOMAIN own |-> told[i]]
    BY DEF RuleMatchesOf
  <2> HIDE DEF own, told
  <2>2. QED
    BY <1>3, <2>1, MappedList
<1>5. ToSet(SortMatches(told)) = ToSet(told)
  <2> HIDE DEF told
  <2>1. QED
    BY <1>4, SortedList
<1>6. ASSUME NEW i \in DOMAIN own
      PROVE  /\ FindingFields \subseteq DOMAIN own[i]
             /\ own[i].rule = rule.id /\ own[i].index = 0 /\ own[i].priorName = NoName
             /\ own[i].path = found[i].path /\ own[i].code = found[i].code
  <2> DEFINE x == found[i]
             y == own[i]
             m == told[i]
  <2>1. x \in ToSet(found)
    BY <1>3 DEF ToSet
  <2>2. x.rule = rule.id /\ FindingFields \subseteq DOMAIN x /\ x.index = 0
    BY <1>2, <2>1
  <2>3. y = [x EXCEPT !.severity = IF @ = NoSeverity THEN rule.severity ELSE @]
    BY <1>3 DEF ConvertToRuleMatch
  <2>4. \E a, b : m = [y EXCEPT !.index = a, !.matchIndex = b]
    <3> HIDE DEF own
    <3>1. QED
      BY <1>3 DEF RuleMatchesOf
  <2>5. m \in ToSet(told)
    <3> HIDE DEF told
    <3>1. QED
      BY <1>3, <1>4
  <2>6. m.priorName = NoName
    BY <1>1, <1>5, <2>5
  <2> HIDE DEF x, y, m
  <2>7. /\ DOMAIN y = DOMAIN x /\ y.rule = x.rule /\ y.index = x.index
        /\ y.path = x.path /\ y.code = x.code /\ y.priorName = x.priorName
    BY <2>2, <2>3 DEF FindingFields
  <2>8. m.priorName = y.priorName
    BY <2>2, <2>4, <2>7 DEF FindingFields
  <2>9. QED
    BY <2>2, <2>6, <2>7, <2>8 DEF x, y
<1>7. class = InFile(ToSet(told), path, code)
  BY <1>1, <1>5
<1>8. IsFiniteSet(P) /\ IsNumbered(class) /\ Cardinality(class) = Cardinality(P)
  <2>1. /\ IsFiniteSet(P) /\ IsNumbered(InFile(ToSet(told), path, code))
        /\ Cardinality(InFile(ToSet(told), path, code)) = Cardinality(P)
    <3>1. P = Placed(own, path, code)
      BY DEF Placed
    <3>2. OfOneRule(own)
      <4> HIDE DEF own
      <4>1. QED
        BY <1>6 DEF OfOneRule
    <3> HIDE DEF own, P
    <3>3. QED
      BY <1>3, <3>1, <3>2, NumbersAre
  <2>2. QED
    BY <1>7, <2>1
<1>9. ASSUME IsInRuleTable(rule, sent)
      PROVE  Cardinality(there) = Cardinality(P)
  <2>1. ToSet(found) = {x \in ToSet(answer) : x.rule = rule.id}
    BY <1>2, <1>9
  <2>2. ToSet(found) = {found[i] : i \in DOMAIN own}
    BY <1>3 DEF ToSet
  <2>3. \A x : x \in there <=> x \in ToSet(found) /\ x.path = path /\ x.code = code
    BY <2>1 DEF InFile
  <2>4. \A i \in DOMAIN own : i \in P <=> found[i] \in there
    BY <1>6, <2>2, <2>3
  <2>5. P \subseteq DOMAIN own
    OBVIOUS
  <2>6. \A i, j \in DOMAIN own : found[i] = found[j] => i = j
    BY <1>2, <1>3 DEF IsInjective
  <2>7. \A i \in P : f[i] = found[i]
    OBVIOUS
  <2>8. DOMAIN f = P /\ f \in [P -> there]
    <3>1. \A i \in P : found[i] \in there
      BY <2>4, <2>5
    <3> HIDE DEF P, there
    <3>2. QED
      BY <3>1
  <2> HIDE DEF P, there, own, f
  <2>9. \A i, j \in P : f[i] = f[j] => i = j
    BY <2>5, <2>6, <2>7
  <2>10. \A x \in there : \E i \in P : f[i] = x
    BY <2>2, <2>3, <2>4, <2>7
  <2>11. QED
    BY <1>8, <2>8, <2>9, <2>10, SameNumber
<1>10. QED
  BY <1>8, <1>9

\* The findings of a rule are its own and, but for those of the previous scan, numbered.
AreCounted(rule, found) ==
    /\ \A m \in found : m.rule = rule.id
    /\ (\A m \in found : m.priorName = NoName) =>
           \A path, code : IsNumbered(InFile(found, path, code))

\* Those of the rules that are neither about dependencies nor join rules.
Counted(found) ==
    \A rule \in {r \in DOMAIN found : RuleMode(r) # "join" /\ ~IsAware(r)} :
        AreCounted(rule, ToSet(found[rule]))

LEMMA AnswerIsCounted ==
    ASSUME IsRequest(request), folder \in {"head", "worktree"},
           NEW lost, NEW answer \in AnswersWithout(lost)
    PROVE  Counted(MatchesOfAnswer(answer))
<1>1. /\ IsList(answer) /\ IsInjective(answer)
      /\ \A x \in ToSet(answer) : FindingFields \subseteq DOMAIN x /\ x.index = 0
  BY EngineAnswer
<1>2. ASSUME NEW rule \in DOMAIN MatchesOfAnswer(answer), RuleMode(rule) # "join", ~IsAware(rule)
      PROVE  AreCounted(rule, ToSet(MatchesOfAnswer(answer)[rule]))
  <2> DEFINE own == ToSet(CoreMatchesToRuleMatches(job.sent, answer)[rule])
  <2>1. rule \in ToSet(job.sent) /\ ToSet(MatchesOfAnswer(answer)[rule]) = own
    BY <1>2, AnswerParts
  <2>2. \A m \in own : m.rule = rule.id
    BY <1>1, <2>1, OwnFindings DEF FindingFields
  <2>3. ASSUME NEW path, NEW code, \A m \in own : m.priorName = NoName
        PROVE  IsNumbered(InFile(own, path, code))
    BY <1>1, <2>1, <2>3, EngineNumbers
  <2> HIDE DEF own
  <2>4. QED
    BY <2>1, <2>2, <2>3 DEF AreCounted
<1>3. QED
  BY <1>2 DEF Counted

\* From the answer of the first scan to that of the scan of the baseline.
CountedInv ==
    stage = "compare" \/ (folder = "worktree" /\ stage \in {"prepare", "engine"})
        => Counted(matches)

LEMMA CountedStarts == Init => CountedInv
BY DEF Init, ScanInit, CountedInv

LEMMA CountedStep ==
    FolderInv /\ FixInv /\ ToldInv /\ CountedInv /\ [Next]_vars => CountedInv'
<1> SUFFICES ASSUME FolderInv, FixInv, ToldInv, CountedInv, [Next]_vars
             PROVE  CountedInv'
  OBVIOUS
<1> DEFINE Between == stage = "compare" \/ (folder = "worktree" /\ stage \in {"prepare", "engine"})
<1>1. ASSUME UNCHANGED matches, Between' => Between
      PROVE  CountedInv'
  BY <1>1 DEF CountedInv, Counted
<1>2. ASSUME ~Between'
      PROVE  CountedInv'
  BY <1>2 DEF CountedInv
<1>3. ASSUME RunScanStep
      PROVE  CountedInv'
  <2>1. ASSUME TakeHead
        PROVE  CountedInv'
    <3>1. PICK lost \in LostFiles : \E answer \in AnswersWithout(lost) : matches' = MatchesOfAnswer(answer)
      BY <2>1 DEF TakeHead
    <3>2. PICK answer \in AnswersWithout(lost) : matches' = MatchesOfAnswer(answer)
      BY <3>1
    <3>3. IsRequest(request) /\ folder \in {"head", "worktree"}
      BY <2>1 DEF TakeHead, Answered, ToldInv, FixInv, FolderInv
    <3>4. Counted(matches')
      BY <3>2, <3>3, AnswerIsCounted
    <3>5. QED
      BY <3>4 DEF CountedInv, Counted
  <2>2. ASSUME LoadRules \/ InitBaseline \/ SelectTargets \/ PrepareFails \/ TakeFailure \/ SkipBaseline
               \/ GitLogFails \/ EnterBaselineFails \/ LeaveBaseline \/ Finish \/ TakeBaseline
        PROVE  ~Between'
    BY <2>2 DEF LoadRules, InitBaseline, SelectTargets, PrepareFails, TakeFailure, RulesRaise,
                SkipBaseline, GitLogFails, EnterBaselineFails, LeaveBaseline, Finish, TakeBaseline, Ends, FolderInv
  <2>3. ASSUME EnterBaseline \/ Prepare \/ Engine
        PROVE  UNCHANGED matches /\ (Between' => Between)
    BY <2>3 DEF EnterBaseline, Comparing, Prepare, PrepareRules, RunRules, RulesRaise, Engine, scanVars
  <2>4. QED
    BY <1>1, <1>2, <1>3, <2>1, <2>2, <2>3 DEF RunScanStep, ScanStep, ScanAdvance
<1>4. ASSUME Call \/ CommandStep
      PROVE  UNCHANGED <<folder, matches>> /\ (stage' = stage \/ stage' \in {"metacheck", "config", "idle"})
  BY <1>4 DEF Call, CallScan, CallCi, StartScan, CommandStep, ScanCommandStep, ValidateWithoutEngine,
              CheckRules, Validated, ScanFailed, ScanLeft, ScanDone, scanVars
<1>5. ASSUME CiCommandStep
      PROVE  \/ UNCHANGED <<folder, matches, stage>>
             \/ stage' \in {"config", "ended"} 
  BY <1>5 DEF CiCommandStep, ConfigureErrors, ReadEnvironment, StartCiScan, StartWithoutApp, RunCiScan,
              StartScan, Ends, ReportFailure, CiFailed, CiLeft, RunHistory, TakeHistory, SkipHistory,
              ShowFindings, SendResults, SendComplete, Verdict, RestoreCheckout, scanVars
<1>6. ASSUME GiveUpSoon \/ Exited \/ UNCHANGED vars
      PROVE  UNCHANGED <<folder, matches, stage>>
  BY <1>6 DEF GiveUpSoon, Exited, vars, scanVars
<1>7. QED
  BY <1>1, <1>2, <1>3, <1>4, <1>5, <1>6 DEF Next

\* Of findings that are numbered in both scans as many are left as there are more of.
LEMMA Subtracted ==
    ASSUME NEW rule, NEW head, IsList(head), AreCounted(rule, ToSet(head)),
           NEW old, \A m \in old : m.rule = rule.id,
           \A m \in ToSet(head) \cup old : m.priorName = NoName,
           NEW path, NEW code, IsNumbered(InFile(old, OldPath(path), code))
    PROVE  LET left == Only(head, {m \in ToSet(head) : PathChangedCiUniqueKey(m, Renamed)
                                                         \notin {CiUniqueKey(o) : o \in old}})
               all  == Cardinality(InFile(ToSet(head), path, code))
               had  == Cardinality(InFile(old, OldPath(path), code))
           IN Cardinality(InFile(ToSet(left), path, code)) = IF all > had THEN all - had ELSE 0
<1> DEFINE S == ToSet(head)
           keys == {CiUniqueKey(o) : o \in old}
           kept == {m \in S : PathChangedCiUniqueKey(m, Renamed) \notin keys}
           left == Only(head, kept)
           class == InFile(S, path, code)
           there == InFile(old, OldPath(path), code)
           had == Cardinality(there)
<1>1. IsNumbered(class)
  BY DEF AreCounted
<1>2. ToSet(left) = kept
  <2>1. ToSet(left) = S \cap kept
    BY OnlyKept
  <2>2. QED
    BY <2>1
<1>3. ASSUME NEW m \in class
      PROVE  PathChangedCiUniqueKey(m, Renamed) \in keys <=> m.index \in 0..(had - 1)
  <2>1. m \in S /\ m.path = path /\ m.code = code /\ m.rule = rule.id
    BY DEF InFile, AreCounted
  <2>2. PathChangedCiUniqueKey(m, Renamed)
          = [rule |-> rule.id, path |-> OldPath(path), code |-> code, index |-> m.index]
    BY <2>1 DEF PathChangedCiUniqueKey, OldPath
  <2>3. \A o \in old : CiUniqueKey(o)
          = [rule |-> rule.id, path |-> o.path, code |-> o.code, index |-> o.index]
    BY DEF CiUniqueKey, NamedBy
  <2>4. \A o \in old : PathChangedCiUniqueKey(m, Renamed) = CiUniqueKey(o)
            <=> o \in there /\ o.index = m.index
    BY <2>2, <2>3 DEF InFile
  <2>5. PathChangedCiUniqueKey(m, Renamed) \in keys
            <=> \E o \in old : PathChangedCiUniqueKey(m, Renamed) = CiUniqueKey(o)
    OBVIOUS
  <2>6. there \subseteq old
    BY DEF InFile
  <2>7. m.index \in 0..(had - 1) <=> \E o \in there : o.index = m.index
    BY DEF IsNumbered
  <2> HIDE DEF keys, there, had
  <2>8. QED
    BY <2>4, <2>5, <2>6, <2>7
<1>4. InFile(ToSet(left), path, code) = {m \in class : m.index \notin 0..(had - 1)}
  <2>1. \A m : m \in InFile(ToSet(left), path, code) <=> m \in kept /\ m.path = path /\ m.code = code
    BY <1>2 DEF InFile
  <2>2. \A m : m \in class <=> m \in S /\ m.path = path /\ m.code = code
    BY DEF InFile
  <2>3. \A m : m \in kept <=> m \in S /\ PathChangedCiUniqueKey(m, Renamed) \notin keys
    OBVIOUS
  <2> HIDE DEF class, kept, keys, S, left, had
  <2>4. QED
    BY <1>3, <2>1, <2>2, <2>3
<1>5. had \in Nat
  BY FS_CardinalityType DEF IsNumbered
<1> HIDE DEF class, had
<1>6. Cardinality({m \in class : m.index \notin 0..(had - 1)})
          = IF Cardinality(class) > had THEN Cardinality(class) - had ELSE 0
  BY <1>1, <1>5, NumberedLeft
<1>7. QED
  BY <1>4, <1>6 DEF class, had

\* Whatever the two scans find, in whatever order, of each rule and each code in each
\* file the findings of the baseline are taken away as many times as they are there.
THEOREM BaselineIsAlwaysSubtracted == Spec => BaselineIsSubtracted
<1> DEFINE IsSubtracted ==
        TakeBaseline =>
            \A rule \in {r \in DOMAIN matches : matches[r] # <<>> /\ IsInRuleTable(r, job.sent)} :
                LET old == {m \in EngineMatches : m.rule = rule.id /\ m.path \notin timedOut'.worktree}
                IN RuleMode(rule) # "join" /\ ~IsAware(rule)
                   /\ (\A m \in ToSet(matches[rule]) \cup old : m.priorName = NoName) =>
                       \A m \in ToSet(matches[rule]) :
                           LET all == Cardinality(InFile(ToSet(matches[rule]), m.path, m.code))
                               had == Cardinality(InFile(old, OldPath(m.path), m.code))
                           IN Cardinality(InFile(ToSet(matches'[rule]), m.path, m.code)) =
                                  IF all > had THEN all - had ELSE 0
<1>1. ASSUME FolderInv, FixInv, ToldInv, ListsInv, CountedInv
      PROVE  IsSubtracted
  <2> SUFFICES ASSUME TakeBaseline,
                      NEW rule \in DOMAIN matches, matches[rule] # <<>>, IsInRuleTable(rule, job.sent),
                      RuleMode(rule) # "join", ~IsAware(rule),
                      \A m \in ToSet(matches[rule])
                               \cup {x \in EngineMatches : x.rule = rule.id /\ x.path \notin timedOut'.worktree} :
                          m.priorName = NoName,
                      NEW m \in ToSet(matches[rule])
               PROVE  LET old == {x \in EngineMatches : x.rule = rule.id
                                                        /\ x.path \notin timedOut'.worktree}
                          all == Cardinality(InFile(ToSet(matches[rule]), m.path, m.code))
                          had == Cardinality(InFile(old, OldPath(m.path), m.code))
                      IN Cardinality(InFile(ToSet(matches'[rule]), m.path, m.code)) =
                             IF all > had THEN all - had ELSE 0
    OBVIOUS
  <2>1. PICK lost \in LostFiles : \E answer \in AnswersWithout(lost) :
            /\ timedOut' = [timedOut EXCEPT !.worktree = lost]
            /\ matches' = RemoveMatchesInBaseline(matches, MatchesOfAnswer(answer), Renamed)
    BY DEF TakeBaseline
  <2>2. PICK answer \in AnswersWithout(lost) :
            /\ timedOut' = [timedOut EXCEPT !.worktree = lost]
            /\ matches' = RemoveMatchesInBaseline(matches, MatchesOfAnswer(answer), Renamed)
    BY <2>1
  <2> DEFINE found == {x \in EngineMatches : x.rule = rule.id /\ x.path \notin timedOut'.worktree}
             base == MatchesOfAnswer(answer)
             old == ToSet(base[rule])
             head == matches[rule]
             keys == {CiUniqueKey(o) : o \in old}
  <2>3. timedOut'.worktree = lost
    BY <1>1, <2>2 DEF ToldInv
  <2>4. /\ IsRequest(request) /\ folder = "worktree" /\ stage = "engine"
        /\ IsFiniteSet(UNION {s.deps : s \in job.subprojects})
    BY <1>1 DEF TakeBaseline, Answered, ToldInv, FixInv, ListsInv
  <2>5. /\ IsList(answer) /\ IsInjective(answer)
        /\ \A x \in ToSet(answer) : FindingFields \subseteq DOMAIN x /\ x.index = 0
        /\ ToSet(answer) = {x \in EngineMatches : x.path \notin lost}
    BY <2>4, EngineAnswer
  <2>6. {x \in ToSet(answer) : x.rule = rule.id} = found
    BY <2>3, <2>5
  <2>7. rule \in ToSet(job.sent) /\ rule \in DOMAIN base
    BY DEF IsInRuleTable, ToSet, MatchesOfAnswer
  <2>8. base[rule] = CoreMatchesToRuleMatches(job.sent, answer)[rule]
    BY <2>7, AnswerParts
  <2> HIDE DEF base, found
  <2>9. \A o \in old : \E x \in found :
            o.rule = x.rule /\ o.rule = rule.id /\ o.priorName = x.priorName
    BY <2>5, <2>6, <2>7, <2>8, OwnFindings DEF FindingFields
  <2>10. \A o \in ToSet(head) \cup old : o.priorName = NoName
    BY <2>9 DEF found
  <2>11. /\ IsNumbered(InFile(old, OldPath(m.path), m.code))
         /\ Cardinality(InFile(old, OldPath(m.path), m.code))
                = Cardinality(InFile(found, OldPath(m.path), m.code))
    BY <2>5, <2>6, <2>7, <2>8, <2>10, EngineNumbers
  <2>12. matches'[rule] = Only(head, {x \in ToSet(head) : PathChangedCiUniqueKey(x, Renamed) \notin keys})
    <3>1. rule \in {r \in DOMAIN matches : matches[r] # <<>>}
      OBVIOUS
    <3>2. QED
      BY <2>2, <2>7, <3>1 DEF RemoveMatchesInBaseline, base
  <2>13. IsList(head) /\ AreCounted(rule, ToSet(head))
    BY <1>1, <2>4 DEF ListsInv, MatchesAreLists, CountedInv, Counted
  <2> HIDE DEF head, old
  <2>14. Cardinality(InFile(ToSet(matches'[rule]), m.path, m.code))
             = IF Cardinality(InFile(ToSet(head), m.path, m.code))
                      > Cardinality(InFile(old, OldPath(m.path), m.code))
               THEN Cardinality(InFile(ToSet(head), m.path, m.code))
                        - Cardinality(InFile(old, OldPath(m.path), m.code))
               ELSE 0
    BY <2>9, <2>10, <2>11, <2>12, <2>13, Subtracted
  <2>15. QED
    BY <2>11, <2>14 DEF head, found
<1>2. BaselineIsSubtracted <=> [][IsSubtracted]_vars
  BY DEF BaselineIsSubtracted
<1> HIDE DEF IsSubtracted
<1>3. QED
  BY <1>1, <1>2, FolderStarts, FolderStep, FixStarts, FixStep, StepStarts, StepStep, ToldStarts,
     ToldStep, ListsStart, ListsStep, CountedStarts, CountedStep, PTL DEF Spec

-----------------------------------------------------------------------------
(* The rules of a scan are finitely many *)

AreTrees(trees) == IsList(trees) /\ \A tree \in ToSet(trees) : IsList(tree.rules)

LEMMA NoTrees == AreTrees(<<>>)
BY EmptyList DEF AreTrees

\* Lists of trees, one after the other.
LEMMA FlatTrees ==
    ASSUME NEW n \in Nat, NEW s, s = [i \in 1..n |-> s[i]], \A i \in 1..n : AreTrees(s[i])
    PROVE  AreTrees(FlattenSeq(s))
<1>1. /\ IsList(FlattenSeq(s))
      /\ ToSet(FlattenSeq(s)) = UNION {ToSet(s[i]) : i \in 1..n}
  BY FlatLists DEF AreTrees
<1>2. QED
  BY <1>1 DEF AreTrees

LEMMA ParsedTrees ==
    ASSUME NEW file, IsList(file.rules), NEW forceSchema
    PROVE  AreTrees(ParseConfigString(file, forceSchema).trees)
<1> DEFINE tree == [id |-> ConfigId(file), mapping |-> file.mapping,
                    hasRules |-> file.hasRules, missed |-> file.missed,
                    rules |-> RemoveIncompatibleRules(file.rules)]
<1>1. IsList(tree.rules)
  BY OnlyKept DEF RemoveIncompatibleRules
<1>2. ParseConfigString(file, forceSchema).trees \in {<<>>, <<tree>>}
  BY DEF ParseConfigString
<1> HIDE DEF tree
<1>3. AreTrees(<<tree>>)
  BY <1>1, ListOfOne DEF AreTrees
<1>4. QED
  BY <1>2, <1>3, NoTrees

LEMMA TreesOfFiles ==
    ASSUME NEW files, AreFiles(files), NEW forceSchema
    PROVE  AreTrees(ParseConfigFiles(files, forceSchema).trees)
<1> DEFINE n == Len(files)
           parsed == [i \in DOMAIN files |-> ParseConfigString(files[i], forceSchema)]
           trees == [i \in DOMAIN files |-> parsed[i].trees]
<1>1. n \in Nat /\ DOMAIN files = 1..n
  BY ListDomain DEF AreFiles
<1>2. ParseConfigFiles(files, forceSchema).trees \in {<<>>, FlattenSeq(trees)}
  BY DEF ParseConfigFiles
<1>3. trees = [i \in 1..n |-> trees[i]] /\ \A i \in 1..n : AreTrees(trees[i])
  BY <1>1, ParsedTrees DEF AreFiles
<1> HIDE DEF trees, n
<1>4. AreTrees(FlattenSeq(trees))
  BY <1>1, <1>3, FlatTrees
<1>5. QED
  BY <1>2, <1>4, NoTrees

LEMMA ResolvedTrees ==
    ASSUME NEW config, AreFiles(config.files), NEW forceSchema
    PROVE  AreTrees(ResolveConfig(config, forceSchema).trees)
<1>1. LoadConfig(config).files \in {<<>>, config.files}
  BY DEF LoadConfig, DownloadFromUrl, FetchScanConfig, DownloadScanConfig, DownloadFallback,
         LoadFromLocalPath
<1>2. AreFiles(<<>>)
  BY EmptyList DEF AreFiles
<1>3. AreFiles(LoadConfig(config).files)
  BY <1>1, <1>2
<1>4. ResolveConfig(config, forceSchema).trees
          \in {<<>>, ParseConfigFiles(LoadConfig(config).files, forceSchema).trees}
  BY Zenon DEF ResolveConfig
<1>5. QED
  BY <1>3, <1>4, NoTrees, TreesOfFiles

\* The trees that are valid.
LEMMA ValidatedRules ==
    ASSUME NEW trees, AreTrees(trees)
    PROVE  AreTrees(Validate(trees).valid)
<1> DEFINE good(tree) == Only(tree.rules, {rule \in ToSet(tree.rules) : rule.valid})
           named(tree) == [i \in DOMAIN good(tree) |->
                    [good(tree)[i] EXCEPT !.metadata.origin = OriginOf(good(tree)[i], tree.id)]]
           own(tree) == [id |-> tree.id,
                         rules |-> IF tree.mapping /\ tree.hasRules THEN named(tree) ELSE <<>>]
           all == [i \in DOMAIN trees |-> own(trees[i])]
           kept == {tree \in ToSet(all) : tree.rules # <<>>}
<1>1. Validate(trees).valid = Only(all, kept)
  BY DEF Validate, ValidTrees
<1>2. ASSUME NEW tree \in ToSet(trees)
      PROVE  IsList(own(tree).rules)
  <2>1. IsList(tree.rules)
    BY DEF AreTrees
  <2>2. IsList(good(tree))
    BY <2>1, OnlyKept
  <2>3. IsList(named(tree))
    <3>1. named(tree) = [i \in DOMAIN good(tree) |-> named(tree)[i]]
      OBVIOUS
    <3> HIDE DEF named, good
    <3>2. QED
      BY <2>2, <3>1, MappedList
  <2> HIDE DEF named
  <2>4. QED
    BY <2>3, EmptyList
<1> HIDE DEF own
<1>3. IsList(all) /\ ToSet(all) = {all[i] : i \in DOMAIN trees}
  <2>1. all = [i \in DOMAIN trees |-> all[i]]
    OBVIOUS
  <2> HIDE DEF all
  <2>2. QED
    BY <2>1, MappedList DEF AreTrees
<1>4. \A tree \in ToSet(all) : IsList(tree.rules)
  BY <1>2, <1>3 DEF ToSet
<1> HIDE DEF all
<1>5. IsList(Only(all, kept)) /\ ToSet(Only(all, kept)) \subseteq ToSet(all)
  BY <1>3, OnlyKept
<1>6. QED
  BY <1>1, <1>4, <1>5 DEF AreTrees

LEMMA ConfigTrees ==
    ASSUME NEW asked, AreConfigs(asked.configs), AreFiles(asked.text)
    PROVE  AreTrees(ConfigOf(asked).valid)
<1>1. AreTrees(Validate(<<ManualConfig(asked.pattern[1])>>).valid)
  <2> DEFINE tree == ManualConfig(asked.pattern[1])
  <2>1. IsList(tree.rules)
    BY ListOfOne DEF ManualConfig
  <2> HIDE DEF tree
  <2>2. AreTrees(<<tree>>)
    BY <2>1, ListOfOne DEF AreTrees
  <2>3. QED
    BY <2>2, ValidatedRules DEF tree
<1>2. CASE asked.pattern # <<>>
  BY <1>1, <1>2 DEF ConfigOf
<1>3. CASE asked.pattern = <<>> /\ asked.text # <<>>
  <2> DEFINE parsed == ParseConfigString(asked.text[1], asked.forceSchema)
             named(tree) == [tree EXCEPT !.id = [folder |-> <<>>, name |-> "semgrep-app-rules"]]
             trees == [i \in DOMAIN parsed.trees |-> named(parsed.trees[i])]
  <2>1. ConfigOf(asked).valid = Validate(trees).valid
    BY <1>3 DEF ConfigOf, FromRulesYaml
  <2>2. 1 \in DOMAIN asked.text
    <3>1. IsList(asked.text) /\ asked.text # <<>>
      BY <1>3 DEF AreFiles
    <3>2. Len(asked.text) \in Nat /\ DOMAIN asked.text = 1..Len(asked.text) /\ Len(asked.text) # 0
      BY <3>1, ListDomain
    <3>3. QED
      BY <3>2
  <2>3. AreTrees(parsed.trees)
    BY <2>2, ParsedTrees DEF AreFiles
  <2> HIDE DEF parsed
  <2>4. \A i \in DOMAIN parsed.trees : IsList(trees[i].rules)
    BY <2>3 DEF AreTrees, ToSet
  <2>5. IsList(trees) /\ ToSet(trees) = {trees[i] : i \in DOMAIN parsed.trees}
    <3>1. trees = [i \in DOMAIN parsed.trees |-> trees[i]]
      OBVIOUS
    <3> HIDE DEF trees
    <3>2. QED
      BY <2>3, <3>1, MappedList DEF AreTrees
  <2> HIDE DEF trees
  <2>6. QED
    BY <2>1, <2>4, <2>5, ValidatedRules DEF AreTrees
<1>4. CASE asked.pattern = <<>> /\ ~(asked.text # <<>>)
  <2> DEFINE n == Len(asked.configs)
             resolved == [i \in DOMAIN asked.configs |->
                             ResolveConfig(asked.configs[i], asked.forceSchema)]
             trees == [i \in DOMAIN asked.configs |-> resolved[i].trees]
  <2>1. ConfigOf(asked).valid = Validate(FlattenSeq(trees)).valid
    BY <1>4 DEF ConfigOf, FromConfigList
  <2>2. n \in Nat /\ DOMAIN asked.configs = 1..n
    BY ListDomain DEF AreConfigs
  <2>3. trees = [i \in 1..n |-> trees[i]] /\ \A i \in 1..n : AreTrees(trees[i])
    BY <2>2, ResolvedTrees DEF AreConfigs
  <2> HIDE DEF trees, n
  <2>4. AreTrees(FlattenSeq(trees))
    BY <2>2, <2>3, FlatTrees
  <2>5. QED
    BY <2>1, <2>4, ValidatedRules
<1>5. QED
  BY <1>2, <1>3, <1>4

LEMMA RulesAreList ==
    ASSUME NEW valid, AreTrees(valid), NEW rewrite
    PROVE  IsList(GetRules(valid, rewrite))
<1> DEFINE renamed(tree) ==
               [i \in DOMAIN tree.rules |->
                   [tree.rules[i] EXCEPT !.id = IF rewrite THEN PrependRulePath(tree.id, @) ELSE @]]
           n == Len(valid)
           s == [i \in DOMAIN valid |-> renamed(valid[i])]
           all == FlattenSeq(s)
           same(i) == {j \in DOMAIN all : WithoutMetadata(all[j]) = WithoutMetadata(all[i])}
           numbers == [i \in DOMAIN all |-> i]
           places == Only(numbers, {i \in DOMAIN all : i = Max(same(i))})
           told == [k \in DOMAIN places |-> all[Min(same(places[k]))]]
<1>1. n \in Nat /\ DOMAIN valid = 1..n
  BY ListDomain DEF AreTrees
<1>2. ASSUME NEW i \in 1..n
      PROVE  IsList(renamed(valid[i]))
  <2> DEFINE tree == valid[i]
  <2>1. IsList(tree.rules)
    BY <1>1 DEF AreTrees, ToSet
  <2>2. renamed(tree) = [k \in DOMAIN tree.rules |-> renamed(tree)[k]]
    OBVIOUS
  <2> HIDE DEF renamed, tree
  <2>3. IsList(renamed(tree))
    BY <2>1, <2>2, MappedList
  <2>4. QED
    BY <2>3 DEF tree
<1>3. GetRules(valid, rewrite) = told
  BY Zenon DEF GetRules
<1> HIDE DEF renamed
<1>4. IsList(all)
  <2>1. s = [i \in 1..n |-> s[i]] /\ \A i \in 1..n : IsList(s[i])
    BY <1>1, <1>2
  <2> HIDE DEF s, n
  <2>2. QED
    BY <1>1, <2>1, FlatLists
<1> HIDE DEF all
<1>5. IsList(numbers)
  <2>1. numbers = [i \in DOMAIN all |-> numbers[i]]
    OBVIOUS
  <2> HIDE DEF numbers
  <2>2. QED
    BY <1>4, <2>1, MappedList
<1>6. IsList(places)
  <2> HIDE DEF numbers
  <2>1. QED
    BY <1>5, OnlyKept
<1> HIDE DEF places
<1>7. told = [k \in DOMAIN places |-> told[k]]
  OBVIOUS
<1> HIDE DEF told
<1>8. QED
  BY <1>3, <1>6, <1>7, MappedList

\* The rules of the scan and of the plan are lists, the findings those of finitely
\* many rules.
RulesInv ==
    /\ IsList(rules) /\ IsList(first.rules)
    /\ stage = "engine" => IsList(job.sent) /\ IsList(job.rules)
    /\ IsFiniteSet(DOMAIN matches) /\ IsFiniteSet(DOMAIN first.matches)

LEMMA RulesStart == Init => RulesInv
<1>1. IsFiniteSet(DOMAIN <<>>)
  <2>1. DOMAIN <<>> = {}
    OBVIOUS
  <2>2. QED
    BY <2>1, FS_EmptySet
<1>2. QED
  BY <1>1, EmptyList DEF Init, ScanInit, CiInit, NotRun, RulesInv

LEMMA RulesRest ==
    ASSUME RulesInv, UNCHANGED <<rules, matches, first>>,
           stage' = "engine" => UNCHANGED <<stage, job>>
    PROVE  RulesInv'
BY DEF RulesInv

\* What run_rules makes of lists.
LEMMA CurrentAreLists ==
    ASSUME IsList(rules), NEW subprojects
    PROVE  IsList(CurrentRules) /\ IsList(SentRules(subprojects))
<1>1. IsList(CurrentRules)
  BY OnlyKept DEF CurrentRules
<1>2. \A kept : IsList(Only(CurrentRules, kept))
  BY <1>1, OnlyKept
<1>3. \A one, other : IsList(Only(CurrentRules, one) \o Only(CurrentRules, other))
  BY <1>2, ListConcat
<1>4. QED
  BY <1>1, <1>3 DEF SentRules

LEMMA RulesScan ==
    FolderInv /\ FixInv /\ ToldInv /\ RulesInv /\ RunScanStep => RulesInv'
<1> SUFFICES ASSUME FolderInv, FixInv, ToldInv, RulesInv, UNCHANGED <<commandVars, ciVars>>
             PROVE  ScanStep => RulesInv'
  BY DEF RunScanStep
<1>1. UNCHANGED first
  BY DEF ciVars
<1>2. LoadRules => RulesInv'
  <2> SUFFICES ASSUME LoadRules
               PROVE  RulesInv'
    OBVIOUS
  <2>1. IsRequest(request)
    BY DEF LoadRules, ToldInv, FixInv
  <2>2. AreTrees(ConfigOf(request.config).valid)
    BY <2>1, ConfigTrees DEF IsRequest
  <2>3. IsList(FilteredRules(GetRules(ConfigOf(request.config).valid, request.rewrite)))
    BY <2>2, RulesAreList, OnlyKept DEF FilteredRules
  <2>4. IsList(rules')
    BY <2>3 DEF LoadRules, RulesInv
  <2>5. UNCHANGED matches /\ stage' # "engine"
    BY DEF LoadRules, Ends
  <2>6. QED
    BY <1>1, <2>4, <2>5 DEF RulesInv
<1>3. InitBaseline \/ SelectTargets => RulesInv'
  BY <1>1, RulesRest DEF InitBaseline, SelectTargets, Ends
<1>4. PrepareFails \/ TakeFailure \/ SkipBaseline \/ GitLogFails \/ EnterBaseline
          \/ EnterBaselineFails => RulesInv'
  BY <1>1, RulesRest DEF PrepareFails, TakeFailure, RulesRaise, SkipBaseline, GitLogFails, EnterBaseline,
                         EnterBaselineFails, Ends
<1>5. LeaveBaseline \/ Engine => RulesInv'
  BY <1>1, RulesRest DEF LeaveBaseline, Ends, Engine, scanVars
<1>6. Prepare => RulesInv'
  <2> SUFFICES ASSUME Prepare
               PROVE  RulesInv'
    OBVIOUS
  <2>1. UNCHANGED <<rules, matches>>
        /\ \E subprojects : job'.rules = CurrentRules /\ job'.sent = SentRules(subprojects)
    BY DEF Prepare, PrepareRules, RunRules
  <2>2. IsList(job'.rules) /\ IsList(job'.sent)
    BY <2>1, CurrentAreLists DEF RulesInv
  <2>3. QED
    BY <1>1, <2>1, <2>2 DEF RulesInv
<1>7. ASSUME Answered, NEW answer
      PROVE  IsFiniteSet(DOMAIN MatchesOfAnswer(answer))
  <2> DEFINE all == ToSet(job.sent) \cup ToSet(job.rules)
             D == DOMAIN MatchesOfAnswer(answer)
  <2>1. IsFiniteSet(ToSet(job.sent)) /\ IsFiniteSet(ToSet(job.rules))
    BY <1>7, ListIsFinite DEF Answered, RulesInv
  <2>2. IsFiniteSet(all)
    BY <2>1, FS_Union
  <2>3. D \in SUBSET all
    BY DEF MatchesOfAnswer
  <2> HIDE DEF D, all
  <2>4. IsFiniteSet(D)
    BY <2>2, <2>3, FS_Subset
  <2>5. QED
    BY <2>4 DEF D
<1>8. ASSUME TakeHead \/ TakeBaseline \/ Finish
      PROVE  RulesInv'
  <2>1. \/ Answered /\ \E answer : matches' = MatchesOfAnswer(answer)
        \/ \E old : matches' = RemoveMatchesInBaseline(matches, old, Renamed)
        \/ \E keep : matches' = FilterIgnoredMatches(matches, keep)
    BY <1>8 DEF TakeHead, TakeBaseline, Finish
  <2>2. \A old : DOMAIN RemoveMatchesInBaseline(matches, old, Renamed) \in SUBSET DOMAIN matches
    BY DEF RemoveMatchesInBaseline
  <2>3. \A keep : DOMAIN FilterIgnoredMatches(matches, keep) = DOMAIN matches
    BY DEF FilterIgnoredMatches
  <2>4. CASE Answered /\ \E answer : matches' = MatchesOfAnswer(answer)
    <3>1. IsFiniteSet(DOMAIN matches')
      BY <1>7, <2>4
    <3>2. QED
      BY <1>1, <1>8, <3>1 DEF RulesInv, TakeHead, TakeBaseline, Finish, Ends
  <2>5. CASE DOMAIN matches' \in SUBSET DOMAIN matches
    <3>1. IsFiniteSet(DOMAIN matches')
      BY <2>5, FS_Subset DEF RulesInv
    <3>2. QED
      BY <1>1, <1>8, <3>1 DEF RulesInv, TakeHead, TakeBaseline, Finish, Ends
  <2>6. QED
    BY <2>1, <2>2, <2>3, <2>4, <2>5
<1>9. QED
  BY <1>2, <1>3, <1>4, <1>5, <1>6, <1>8 DEF ScanStep, ScanAdvance

LEMMA RulesStep ==
    FolderInv /\ FixInv /\ ToldInv /\ RulesInv /\ [Next]_vars => RulesInv'
<1> SUFFICES ASSUME FolderInv, FixInv, ToldInv, RulesInv, [Next]_vars
             PROVE  RulesInv'
  OBVIOUS
<1>1. ASSUME Call
      PROVE  RulesInv'
  BY <1>1, RulesRest DEF Call, CallScan, CallCi, StartScan, scanVars, ciVars
<1>2. CASE RunScanStep
  BY <1>2, RulesScan
<1>3. CASE CommandStep
  BY <1>3, RulesRest DEF CommandStep, ScanCommandStep, ValidateWithoutEngine, CheckRules, Validated,
                         ScanFailed, ScanLeft, ScanDone, scanVars, ciVars
<1>4. CASE CiCommandStep
  <2>1. ConfigureErrors \/ ReadEnvironment \/ StartWithoutApp \/ StartCiScan => RulesInv'
    BY RulesRest DEF ConfigureErrors, ReadEnvironment, StartWithoutApp, StartCiScan, scanVars, ciVars
  <2>2. RunCiScan => RulesInv'
    BY RulesRest DEF RunCiScan, StartScan, Ends, scanVars, ciVars
  <2>3. ReportFailure \/ CiFailed \/ CiLeft \/ SkipHistory \/ ShowFindings => RulesInv'
    BY RulesRest DEF ReportFailure, CiFailed, CiLeft, SkipHistory, ShowFindings, scanVars, ciVars
  <2>4. SendResults \/ SendComplete \/ Verdict \/ RestoreCheckout => RulesInv'
    BY RulesRest DEF SendResults, SendComplete, Verdict, RestoreCheckout, scanVars, ciVars
  <2>5. RunHistory => RulesInv'
    <3> SUFFICES ASSUME RunHistory
                 PROVE  RulesInv'
      OBVIOUS
    <3>1. /\ first'.matches = matches /\ first'.rules = rules /\ stage' = "config"
          /\ rules' = <<>> /\ matches' = <<>>
      BY DEF RunHistory
    <3>2. DOMAIN <<>> = {}
      OBVIOUS
    <3>3. QED
      BY <3>1, <3>2, EmptyList, FS_EmptySet DEF RulesInv
  <2>6. TakeHistory => RulesInv'
    <3> SUFFICES ASSUME TakeHistory
                 PROVE  RulesInv'
      OBVIOUS
    <3>1. UNCHANGED first /\ stage' = "ended"
      BY DEF TakeHistory, ciVars
    <3>2. DOMAIN matches' \in {DOMAIN matches, DOMAIN first.matches}
      BY DEF TakeHistory
    <3>3. rules' \in {rules, first.rules, first.rules \o rules}
      BY DEF TakeHistory
    <3>4. IsList(first.rules \o rules)
      BY ListConcat DEF RulesInv
    <3>5. QED
      BY <3>1, <3>2, <3>3, <3>4 DEF RulesInv
  <2>7. QED
    BY <1>4, <2>1, <2>2, <2>3, <2>4, <2>5, <2>6 DEF CiCommandStep
<1>5. CASE GiveUpSoon
  BY <1>5, RulesRest DEF GiveUpSoon, scanVars
<1>6. CASE Exited \/ UNCHANGED vars
  BY <1>6, RulesRest DEF Exited, vars, ciVars, scanVars
<1>7. QED
  BY <1>1, <1>2, <1>3, <1>4, <1>5, <1>6 DEF Next

-----------------------------------------------------------------------------
(* What the app gets *)

\* Every finding of the scan is in one of the two lists of the report, whatever its
\* severity.
LEMMA ReportHas ==
    ASSUME MatchesAreLists(matches), IsFiniteSet(DOMAIN matches), NEW how
    PROVE  ToldPlaces(FindingsToReport(how)) = Places(how)
<1> DEFINE order == SetToSeq(DOMAIN matches)
           s == [k \in DOMAIN order |-> matches[order[k]]]
           all == Reverse(FlattenSeq(s))
           of(m) == CHOOSE rule \in DOMAIN matches : m \in ToSet(matches[rule])
           S == AllMatches(matches)
           parts == [k \in 1..6 |-> Only(all, {m \in ToSet(all) : SortOrder(m.severity) = k - 1
                                                                 /\ m.ignored = how})]
           sorted == FlattenSeq(parts)
           told == [i \in DOMAIN sorted |-> ToAppFinding(sorted[i], of(sorted[i]), ~response.autofix)]
<1>1. FindingsToReport(how) = told
  BY Zenon DEF FindingsToReport
<1>2. IsList(order) /\ ToSet(order) = DOMAIN matches
  BY SetAsList
<1> HIDE DEF order
<1>3. IsList(FlattenSeq(s)) /\ ToSet(FlattenSeq(s)) = S
  <2> DEFINE n == Len(order)
  <2>1. n \in Nat /\ DOMAIN order = 1..n
    BY <1>2, ListDomain
  <2>2. \A k \in 1..n : order[k] \in DOMAIN matches
    BY <1>2, <2>1 DEF ToSet
  <2>3. \A rule \in DOMAIN matches : \E k \in 1..n : order[k] = rule
    BY <1>2, <2>1 DEF ToSet
  <2>4. s = [k \in 1..n |-> s[k]] /\ \A k \in 1..n : s[k] = matches[order[k]]
    BY <2>1
  <2>5. \A k \in 1..n : IsList(s[k])
    BY <2>2, <2>4 DEF MatchesAreLists
  <2> HIDE DEF s, n
  <2>6. IsList(FlattenSeq(s)) /\ ToSet(FlattenSeq(s)) = UNION {ToSet(s[k]) : k \in 1..n}
    BY <2>1, <2>4, <2>5, FlatLists
  <2>7. UNION {ToSet(s[k]) : k \in 1..n} = S
    BY <2>2, <2>3, <2>4 DEF AllMatches
  <2>8. QED
    BY <2>6, <2>7
<1> HIDE DEF s
<1>4. IsList(all) /\ ToSet(all) = S
  BY <1>3, ReversedList
<1> HIDE DEF all, S
<1>5. \A severity : SortOrder(severity) \in 0..5
  BY DEF SortOrder
<1>6. ToSet(sorted) = {m \in S : m.ignored = how}
  <2>1. ASSUME NEW k \in 1..6
        PROVE  IsList(parts[k]) /\ ToSet(parts[k]) = {m \in S : SortOrder(m.severity) = k - 1 /\ m.ignored = how}
    <3> DEFINE kept == {m \in ToSet(all) : SortOrder(m.severity) = k - 1 /\ m.ignored = how}
    <3>1. IsList(Only(all, kept)) /\ ToSet(Only(all, kept)) = ToSet(all) \cap kept
      BY <1>4, OnlyKept
    <3>2. ToSet(all) \cap kept = {m \in S : SortOrder(m.severity) = k - 1 /\ m.ignored = how}
      BY <1>4
    <3>3. parts[k] = Only(all, kept)
      OBVIOUS
    <3> HIDE DEF parts, kept
    <3>4. QED
      BY <3>1, <3>2, <3>3
  <2>2. parts = [k \in 1..6 |-> parts[k]] /\ 6 \in Nat
    OBVIOUS
  <2> HIDE DEF parts
  <2>3. ToSet(sorted) = UNION {ToSet(parts[k]) : k \in 1..6}
    BY <2>1, <2>2, FlatLists
  <2>4. \A m \in S : \E k \in 1..6 : SortOrder(m.severity) = k - 1
    <3> TAKE m \in S
    <3>1. SortOrder(m.severity) + 1 \in 1..6 /\ SortOrder(m.severity) = (SortOrder(m.severity) + 1) - 1
      BY <1>5
    <3>2. QED
      BY <3>1
  <2> HIDE DEF sorted
  <2>5. QED
    BY <2>1, <2>3, <2>4
<1> HIDE DEF sorted, of
<1>7. \A i \in DOMAIN sorted : /\ told[i].path = sorted[i].path /\ told[i].line = sorted[i].line
                               /\ told[i].check_id = sorted[i].rule
  BY DEF ToAppFinding
<1>8. DOMAIN told = DOMAIN sorted
  OBVIOUS
<1> HIDE DEF told
<1>9. ToldPlaces(told) = {<<sorted[i].path, sorted[i].line, sorted[i].rule>> : i \in DOMAIN sorted}
  BY <1>7, <1>8 DEF ToldPlaces
<1>10. {<<sorted[i].path, sorted[i].line, sorted[i].rule>> : i \in DOMAIN sorted}
          = {<<m.path, m.line, m.rule>> : m \in ToSet(sorted)}
  BY DEF ToSet
<1>11. QED
  BY <1>1, <1>6, <1>9, <1>10 DEF Places, S

HasPlaces ==
    ToldPlaces(app.findings) = Places(FALSE) /\ ToldPlaces(app.ignores) = Places(TRUE)

\* The findings that fail a build are the blocking ones of those that are shown.
ShownBlocks(found) ==
    \E rule \in {r \in DOMAIN matches : ~IsCai(r) /\ ~FromTransientScan(r)} :
        \E m \in ToSet(matches[rule]) \cap found : IsBlocking(m, rule)

LEMMA BlockingAreShown ==
    ASSUME ListsInv
    PROVE  BlockingMatches # {} <=> ShownBlocks(AllMatches(ShownMatches))
<1> DEFINE kept == {m \in AllMatches(matches) : ~IsTriaged(m) /\ (CiKeepsIgnored \/ ~m.ignored)}
           D == {r \in DOMAIN matches : ~IsCai(r) /\ ~FromTransientScan(r)}
<1>1. DOMAIN ShownMatches = D /\ \A rule \in D : ShownMatches[rule] = Only(matches[rule], kept)
  BY DEF ShownMatches, CiMatches
<1>2. ASSUME NEW rule \in D
      PROVE  ToSet(ShownMatches[rule]) = ToSet(matches[rule]) \cap kept
  <2>1. IsList(matches[rule])
    BY DEF ListsInv, MatchesAreLists
  <2> HIDE DEF kept
  <2>2. QED
    BY <1>1, <2>1, OnlyKept
<1> HIDE DEF kept
<1>3. \A rule \in D : ToSet(matches[rule]) \cap AllMatches(ShownMatches) = ToSet(ShownMatches[rule])
  BY <1>1, <1>2 DEF AllMatches
<1>4. BlockingMatches # {} <=> \E rule \in D : \E m \in ToSet(ShownMatches[rule]) : IsBlocking(m, rule)
  <2> HIDE DEF D
  <2>1. QED
    BY <1>1 DEF BlockingMatches
<1>5. QED
  BY <1>3, <1>4 DEF ShownBlocks

\* From the upload to the end of the scan the app has every finding, and the output,
\* which came before, those that the verdict is about.
AppInv ==
    /\ AppHasTheFindings
    /\ step = "complete" => HasPlaces
    /\ step \in {"upload", "complete"} /\ printed # <<>> =>
           printed[1].found = AllMatches(ShownMatches)

LEMMA AppStarts == Init => AppInv
BY DEF Init, CommandInit, CiInit, NoScan, AppInv, AppHasTheFindings

\* A step that leaves what the app has and was shown.
LEMMA AppRest ==
    ASSUME AppInv, UNCHANGED app,
           app.state = "complete" => UNCHANGED <<matches, printed>>,
           step' \in {"upload", "complete"} =>
               UNCHANGED <<step, matches, printed, response, invocation, handler>>
    PROVE  AppInv'
<1>1. AppHasTheFindings'
  <2>1. CASE app.state # "complete"
    BY <2>1 DEF AppHasTheFindings
  <2>2. CASE app.state = "complete"
    BY <2>2 DEF AppInv, AppHasTheFindings, Places, AllMatches
  <2>3. QED
    BY <2>1, <2>2
<1>2. step' = "complete" => HasPlaces'
  BY DEF AppInv, HasPlaces, Places, AllMatches
<1>3. ASSUME step' \in {"upload", "complete"}, printed' # <<>>
      PROVE  printed'[1].found = AllMatches(ShownMatches)'
  <2>1. ShownMatches' = ShownMatches
    BY <1>3, FindingsStay
  <2>2. AllMatches(ShownMatches') = AllMatches(ShownMatches)
    BY <2>1
  <2>3. QED
    BY <1>3, <2>2 DEF AppInv
<1>4. QED
  BY <1>1, <1>2, <1>3 DEF AppInv

LEMMA AppScan == FixInv /\ SettledInv /\ AppInv /\ RunScanStep => AppInv'
<1> SUFFICES ASSUME FixInv, SettledInv, AppInv, RunScanStep
             PROVE  AppInv'
  OBVIOUS
<1>1. UNCHANGED <<step, printed, invocation, response, app>>
  BY DEF RunScanStep, commandVars, ciVars
<1>2. step \in {"upload", "complete", "verdict", "done"} => UNCHANGED <<matches, handler>>
  BY ScanIsUnderWay DEF RunScanStep, ScanStep, Engine, scanVars, InRunScan
<1>3. app.state = "complete" => step \in {"complete", "verdict", "done"}
  BY DEF SettledInv
<1>4. QED
  BY <1>1, <1>2, <1>3, AppRest

LEMMA AppCi ==
    ListsInv /\ RulesInv /\ SettledInv /\ ToldInv /\ AppInv /\ CiCommandStep => AppInv'
<1> SUFFICES ASSUME ListsInv, RulesInv, SettledInv, ToldInv, AppInv
             PROVE  CiCommandStep => AppInv'
  OBVIOUS
<1>1. \A how : HasPlaces = HasPlaces /\ ToldPlaces(FindingsToReport(how)) = Places(how)
  BY ReportHas DEF ListsInv, RulesInv
<1>2. ASSUME step \notin {"complete", "verdict", "done"}, step' \notin {"upload", "complete"},
             app'.state = "complete" => app' = app
      PROVE  AppInv'
  BY <1>2 DEF SettledInv, AppInv, AppHasTheFindings
<1>3. ConfigureErrors \/ ReadEnvironment \/ StartWithoutApp \/ SkipHistory \/ RunHistory => AppInv'
  BY <1>2 DEF ConfigureErrors, ReadEnvironment, FixHead, StartWithoutApp, SkipHistory, RunHistory,
              LeaveCommand, ciVars
<1>4. StartCiScan => AppInv'
  <2> SUFFICES ASSUME StartCiScan
               PROVE  AppInv'
    OBVIOUS
  <2>1. step = "connect" /\ step' \in {"connect", "started", "done"}
    BY DEF StartCiScan, LeaveCommand
  <2>2. app' = app \/ \E tags : app' = [app EXCEPT !.state = "open", !.tags = tags]
    BY DEF StartCiScan
  <2>3. app'.state = "complete" => app' = app
    BY <2>2 DEF SettledInv, IsScan
  <2>4. QED
    BY <1>2, <2>1, <2>3
<1>5. RunCiScan \/ CiFailed \/ CiLeft \/ TakeHistory => AppInv'
  BY <1>2 DEF RunCiScan, CiFailed, CiLeft, TakeHistory, ErrorsThen, LeaveCommand, ciVars
<1>6. ReportFailure => AppInv'
  <2> SUFFICES ASSUME ReportFailure
               PROVE  AppInv'
    OBVIOUS
  <2>1. step = "ci_scan" /\ step' \in {"ci_scan", "failed", "done"}
        /\ (app' = app \/ \E taken : app' = [app EXCEPT !.state = "failed", !.taken = taken])
    BY DEF ReportFailure, LeaveCommand
  <2>2. app'.state = "complete" => app' = app
    BY <2>1 DEF SettledInv, IsScan
  <2>3. QED
    BY <1>2, <2>1, <2>2
<1>7. ShowFindings => AppInv'
  <2> SUFFICES ASSUME ShowFindings
               PROVE  AppInv'
    OBVIOUS
  <2>1. /\ step = "results" /\ printed = <<>> /\ step' \in {"upload", "verdict", "done"}
        /\ UNCHANGED <<matches, response, invocation, handler, app>>
    BY DEF ShowFindings, LeaveCommand, ciVars, scanVars, ToldInv, AfterTheOutput
  <2>2. printed' = printed \/ printed' = <<Outputs(handler, ShownMatches, scanned, log, TRUE)>>
    BY DEF ShowFindings
  <2>3. ShownMatches' = ShownMatches
    BY <2>1, FindingsStay
  <2>4. printed' # <<>> => printed'[1].found = AllMatches(ShownMatches)
    <3> DEFINE out == Outputs(handler, ShownMatches, scanned, log, TRUE)
    <3>1. out.found = AllMatches(ShownMatches)
      BY OutputsFound
    <3> HIDE DEF out
    <3>2. printed' = <<>> \/ printed' = <<out>>
      BY <2>1, <2>2 DEF out
    <3>3. QED
      BY <3>1, <3>2
  <2>5. AllMatches(ShownMatches') = AllMatches(ShownMatches)
    BY <2>3
  <2>6. QED
    BY <2>1, <2>4, <2>5 DEF AppInv, AppHasTheFindings, SettledInv
<1>8. SendResults => AppInv'
  <2> SUFFICES ASSUME SendResults
               PROVE  AppInv'
    OBVIOUS
  <2>1. /\ step = "upload" /\ step' \in {"upload", "verdict", "complete", "done"}
        /\ UNCHANGED <<matches, printed, response, handler>>
        /\ step' \in {"upload", "complete"} => UNCHANGED invocation
    BY DEF SendResults, LeaveCommand, scanVars
  <2>2. \/ app' = app /\ step' # "complete"
        \/ \E d : app' = [app EXCEPT !.rules = RulesToReport, !.findings = FindingsToReport(FALSE),
                                     !.ignores = FindingsToReport(TRUE), !.dependencies = d]
    BY DEF SendResults, LeaveCommand, IsNotTaken
  <2>3. app'.state = app.state /\ app.state # "complete"
    BY <2>1, <2>2 DEF SettledInv, IsScan
  <2>4. ASSUME step' = "complete"
        PROVE  app'.findings = FindingsToReport(FALSE) /\ app'.ignores = FindingsToReport(TRUE)
    BY <2>2, <2>4 DEF SettledInv, IsScan
  <2>5. \A how : Places(how)' = Places(how)
    BY <2>1 DEF Places, AllMatches
  <2>6. step' = "complete" => HasPlaces'
    BY <1>1, <2>4, <2>5 DEF HasPlaces
  <2>7. ASSUME step' \in {"upload", "complete"}, printed' # <<>>
        PROVE  printed'[1].found = AllMatches(ShownMatches')
    <3>1. ShownMatches' = ShownMatches
      BY <2>1, <2>7, FindingsStay
    <3>2. AllMatches(ShownMatches') = AllMatches(ShownMatches)
      BY <3>1
    <3>3. QED
      BY <2>1, <2>7, <3>2 DEF AppInv
  <2>8. QED
    BY <2>1, <2>3, <2>6, <2>7 DEF AppInv, AppHasTheFindings
<1>9. SendComplete => AppInv'
  <2> SUFFICES ASSUME SendComplete
               PROVE  AppInv'
    OBVIOUS
  <2>1. /\ step = "complete" /\ step' \in {"complete", "verdict", "done"}
        /\ UNCHANGED <<matches, printed, response, handler>>
        /\ step' = "complete" => UNCHANGED invocation
    BY DEF SendComplete, LeaveCommand, scanVars
  <2>2. \/ app' = app
        \/ \E taken : app' = [app EXCEPT !.state = "complete", !.code = SuggestedExitCode,
                                        !.taken = taken]
    BY DEF SendComplete
  <2>3. CASE app' = app
    BY <2>1, <2>3, AppRest
  <2>4. ASSUME NEW taken, app' = [app EXCEPT !.state = "complete", !.code = SuggestedExitCode,
                                             !.taken = taken]
        PROVE  AppInv'
    <3>1. /\ app'.state = "complete" /\ app'.code = SuggestedExitCode
          /\ app'.findings = app.findings /\ app'.ignores = app.ignores
      BY <2>4 DEF SettledInv, IsScan
    <3>2. ASSUME step' = "complete", printed' # <<>>
          PROVE  printed'[1].found = AllMatches(ShownMatches')
      <4>1. ShownMatches' = ShownMatches
        BY <2>1, <3>2, FindingsStay
      <4>2. AllMatches(ShownMatches') = AllMatches(ShownMatches)
        BY <4>1
      <4>3. QED
        BY <2>1, <3>2, <4>2 DEF AppInv
    <3>3. app'.code = Findings <=> BlockingMatches # {}
      BY <3>1 DEF SuggestedExitCode, Findings, Ok
    <3>4. printed # <<>> => (app'.code = Findings <=> ShownBlocks(printed[1].found))
      BY <2>1, <3>3, BlockingAreShown DEF AppInv
    <3>5. ToldPlaces(app'.findings) = Places(FALSE)' /\ ToldPlaces(app'.ignores) = Places(TRUE)'
      BY <2>1, <3>1 DEF AppInv, HasPlaces, Places, AllMatches
    <3>6. AppHasTheFindings'
      BY <2>1, <3>4, <3>5 DEF AppHasTheFindings, ShownBlocks
    <3>7. HasPlaces'
      BY <3>5 DEF HasPlaces
    <3>8. QED
      BY <2>1, <3>2, <3>6, <3>7 DEF AppInv
  <2>5. QED
    BY <2>2, <2>3, <2>4
<1>10. Verdict \/ RestoreCheckout => AppInv'
  BY AppRest DEF Verdict, RestoreCheckout, LeaveCommand, commandVars, ciVars, scanVars
<1>11. QED
  BY <1>3, <1>4, <1>5, <1>6, <1>7, <1>8, <1>9, <1>10 DEF CiCommandStep

LEMMA AppStep ==
    ListsInv /\ RulesInv /\ FixInv /\ StepInv /\ SettledInv /\ ToldInv /\ AppInv /\ [Next]_vars => AppInv'
<1> SUFFICES ASSUME ListsInv, RulesInv, FixInv, StepInv, SettledInv, ToldInv, AppInv, [Next]_vars
             PROVE  AppInv'
  OBVIOUS
<1>1. ASSUME Call
      PROVE  AppInv'
  <2>1. /\ step = "idle" /\ step' \in {"done", "validate", "scan", "configure"} /\ UNCHANGED app
    BY <1>1 DEF Call, CallScan, CallCi, ciVars
  <2>2. QED
    BY <2>1, AppRest DEF SettledInv
<1>2. CASE RunScanStep
  BY <1>2, AppScan
<1>3. CASE CommandStep
  <2>1. /\ step \in {"validate", "scan"} /\ UNCHANGED app
        /\ step' \in {step, "done"}
    BY <1>3 DEF CommandStep, ScanCommandStep, ValidateWithoutEngine, CheckRules, Validated,
                ScanFailed, ScanLeft, ScanDone, ErrorsThen, LeaveCommand, commandVars, ciVars
  <2>2. QED
    BY <2>1, AppRest DEF SettledInv
<1>4. CASE CiCommandStep
  BY <1>4, AppCi
<1>5. CASE GiveUpSoon
  BY <1>5, AppRest DEF GiveUpSoon, commandVars, scanVars
<1>6. CASE Exited \/ UNCHANGED vars
  BY <1>6, AppRest DEF Exited, vars, commandVars, ciVars, scanVars
<1>7. QED
  BY <1>1, <1>2, <1>3, <1>4, <1>5, <1>6 DEF Next

\* Whatever the rules, the triage and the order of the findings, the app has each of
\* them once it was told that the scan is complete, and its exit code is that of the
\* findings that the user saw.
THEOREM TheAppHasTheFindings == Spec => []AppHasTheFindings
<1>1. AppInv => AppHasTheFindings
  BY DEF AppInv
<1>2. QED
  BY <1>1, FolderStarts, FolderStep, FixStarts, FixStep, StepStarts, StepStep, SettledStarts, SettledStep,
     ToldStarts, ToldStep, ListsStart, ListsStep, RulesStart, RulesStep, AppStarts, AppStep, PTL DEF Spec
-----------------------------------------------------------------------------
(* The code of findings *)

\* The exit code of findings is for findings, and ci comes to its verdict with the
\* app only once the app has the results or was asked for the last time.
CodeInv ==
    /\ FindingsCodeIsForFindings
    /\ step = "verdict" /\ HasHandler /\ ~DryRun => app.state = "complete" \/ final

LEMMA CodeStarts == Init => CodeInv
BY DEF Init, CommandInit, CodeInv, FindingsCodeIsForFindings

\* A step by which the command does not end.
LEMMA CodeRest ==
    ASSUME CodeInv,
           step' = "done" => UNCHANGED <<step, exit, matches, response, invocation, handler,
                                         app, final>>,
           step' = "verdict" => UNCHANGED <<step, invocation, app, final>>
    PROVE  CodeInv'
<1>1. FindingsCodeIsForFindings'
  <2>1. CASE step' # "done"
    BY <2>1 DEF FindingsCodeIsForFindings
  <2>2. CASE step' = "done"
    <3>1. UNCHANGED <<ShownMatches, CiKeepsIgnored>>
      BY <2>2, FindingsStay DEF CiKeepsIgnored
    <3>2. QED
      BY <2>2, <3>1 DEF CodeInv, FindingsCodeIsForFindings
  <2>3. QED
    BY <2>1, <2>2
<1>2. step' = "verdict" => UNCHANGED <<HasHandler, DryRun>>
  BY DEF HasHandler, DryRun
<1>3. QED
  BY <1>1, <1>2 DEF CodeInv

\* What a command ends with that is no finding.
LEMMA NotForFindings ==
    ASSUME NEW how, LeaveCommand(how), how.kind = "crash" \/ how.code \in ErrorCodes
    PROVE  CodeInv'
<1>1. step' = "done" /\ exit' # Findings
  BY DEF LeaveCommand, Send, SendIf, WrapperCode, ErrorCodes, Ok, Findings, Fatal,
         TargetParseFailure, RuleParseFailure, UnparseableYaml, MissingConfig, InvalidApiKey
<1>2. QED
  BY <1>1 DEF CodeInv, FindingsCodeIsForFindings

\* output() raises the code of findings only with --error, for one of them.
LEMMA OutputOfFindings ==
    ASSUME NEW told, AreErrors(told.errors), NEW found
    PROVE  \/ OutputCode(told, found) \in ErrorCodes
           \/ told.settings.errorOnFindings /\ \E m \in found : ~m.ignored
<1> SUFFICES ASSUME ~(told.settings.errorOnFindings /\ \E m \in found : ~m.ignored)
             PROVE  OutputCode(told, found) \in ErrorCodes
  OBVIOUS
<1> DEFINE error == FinalError(told, found)
<1>1. error = IF told.errors # <<>> THEN Last(told.errors) ELSE NoError
  BY Zenon DEF FinalError
<1>2. error = NoError \/ IsError(error)
  BY <1>1, LastIsIn DEF AreErrors
<1>3. OutputCode(told, found)
          = IF told.settings.slow # {} THEN Fatal ELSE FinalRaise(told, error)
  BY DEF OutputCode
<1> HIDE DEF error
<1>4. FinalRaise(told, error) \in ErrorCodes
  BY <1>2, Codes DEF FinalRaise, IsError
<1>5. QED
  BY <1>3, <1>4, Codes

LEMMA ErrorsAreNotFindings ==
    ASSUME NEW told, AreErrors(told.errors), NEW how, ErrorsThen(told, how),
           how.kind = "crash" \/ how.code \in ErrorCodes
    PROVE  CodeInv'
<1> DEFINE code == OutputCode(told, {})
           ends == IF OutputRaises(told, {}) THEN Error(code) ELSE how
<1>1. LeaveCommand(ends)
  BY DEF ErrorsThen
<1>2. code \in ErrorCodes
  BY OutputOfFindings
<1> HIDE DEF code
<1>3. ends.kind = "crash" \/ ends.code \in ErrorCodes
  BY <1>2 DEF Error
<1> HIDE DEF ends
<1>4. QED
  BY <1>1, <1>3, NotForFindings

\* What the user is shown was not ignored, unless ci keeps what is.
LEMMA ShownAreKept ==
    ListsInv => \A rule \in DOMAIN ShownMatches : \A m \in ToSet(ShownMatches[rule]) :
        ~m.ignored \/ CiKeepsIgnored
<1> DEFINE kept == {m \in AllMatches(matches) : ~IsTriaged(m) /\ (CiKeepsIgnored \/ ~m.ignored)}
<1> SUFFICES ASSUME ListsInv, NEW rule \in DOMAIN ShownMatches, NEW m \in ToSet(ShownMatches[rule])
             PROVE  m \in kept
  OBVIOUS
<1>1. rule \in DOMAIN matches /\ ShownMatches[rule] = Only(matches[rule], kept)
  BY DEF ShownMatches, CiMatches
<1>2. IsList(matches[rule])
  BY <1>1 DEF ListsInv, MatchesAreLists
<1>3. QED
  BY <1>1, <1>2, OnlyKept

LEMMA CodeScan == FixInv /\ CodeInv /\ RunScanStep => CodeInv'
<1> SUFFICES ASSUME FixInv, CodeInv, RunScanStep
             PROVE  CodeInv'
  OBVIOUS
<1>1. UNCHANGED <<step, exit, invocation, response, app, final>>
  BY DEF RunScanStep, commandVars, ciVars
<1>2. step = "done" => UNCHANGED <<matches, handler>>
  BY ScanIsUnderWay DEF RunScanStep, ScanStep, Engine, scanVars, InRunScan
<1>3. QED
  BY <1>1, <1>2, CodeRest

LEMMA CodeCommand == FixInv /\ StepInv /\ ToldInv /\ CodeInv /\ CommandStep => CodeInv'
<1> SUFFICES ASSUME FixInv, StepInv, ToldInv, CodeInv
             PROVE  CommandStep => CodeInv'
  OBVIOUS
<1>1. CheckRules => CodeInv'
  BY CodeRest DEF CheckRules, commandVars
<1>2. ValidateWithoutEngine => CodeInv'
  <2> SUFFICES ASSUME ValidateWithoutEngine
               PROVE  CodeInv'
    OBVIOUS
  <2> DEFINE nothing == Configs.pattern = <<>> /\ Configs.lang = "none" /\ Configs.configs = <<>>
             how == CASE nothing -> NotRaised
                      [] GetConfig(Configs).raised -> Error(GetConfig(Configs).code)
                      [] OTHER -> Crash
  <2>1. LeaveCommand(how)
    BY Zenon DEF ValidateWithoutEngine
  <2> HIDE DEF nothing
  <2>2. how = NotRaised \/ how = Crash
        \/ (GetConfig(Configs).raised /\ how = Error(GetConfig(Configs).code))
    OBVIOUS
  <2> HIDE DEF how
  <2>3. how.kind = "crash" \/ how.code \in ErrorCodes
    BY <2>2, Raises
  <2>4. QED
    BY <2>1, <2>3, NotForFindings
<1>3. Validated => CodeInv'
  <2> SUFFICES ASSUME Validated
               PROVE  CodeInv'
    OBVIOUS
  <2>1. LeaveCommand(NotRaised) \/ ErrorsThen(handler', Error(Fatal))
    BY DEF Validated
  <2>2. AreErrors(handler'.errors)
    BY ValidationIsTold DEF ToldInv
  <2>3. Error(Fatal).code \in ErrorCodes /\ NotRaised.code \in ErrorCodes
    BY Raises
  <2>4. QED
    BY <2>1, <2>2, <2>3, NotForFindings, ErrorsAreNotFindings
<1>4. ScanFailed => CodeInv'
  <2> SUFFICES ASSUME ScanFailed
               PROVE  CodeInv'
    OBVIOUS
  <2>1. /\ raised.kind = "error" /\ ErrorsThen(handler', raised)
        /\ handler' = HandleSemgrepErrors(handler, <<SemgrepErrorOf(raised.code)>>)
    BY DEF ScanFailed
  <2>2. AreErrors(handler'.errors)
    BY <2>1, FailureIsTold
  <2>3. QED
    BY <2>1, <2>2, ErrorsAreNotFindings DEF StepInv
<1>5. ScanLeft => CodeInv'
  BY NotForFindings DEF ScanLeft, StepInv
<1>6. ScanDone => CodeInv'
  <2> SUFFICES ASSUME ScanDone
               PROVE  CodeInv'
    OBVIOUS
  <2> DEFINE code == OutputCode(handler, AllMatches(matches))
             how == IF OutputRaises(handler, AllMatches(matches)) THEN Error(code) ELSE NotRaised
  <2>1. /\ step = "scan" /\ LeaveCommand(how) /\ UNCHANGED matches
        /\ step' = "done" /\ UNCHANGED invocation
    BY DEF ScanDone, scanVars, LeaveCommand
  <2>2. code \in ErrorCodes \/ \E m \in AllMatches(matches) : ~m.ignored
    BY OutputOfFindings DEF ToldInv
  <2>3. CASE \E m \in AllMatches(matches) : ~m.ignored
    <3>1. invocation.word # "ci"
      BY <2>1 DEF StepInv, ScanSteps, ResolveCommand
    <3>2. AllMatches(matches') = AllMatches(matches)
      BY <2>1
    <3>3. FindingsCodeIsForFindings'
      BY <2>1, <2>3, <3>1, <3>2 DEF FindingsCodeIsForFindings
    <3>4. QED
      BY <2>1, <3>3 DEF CodeInv
  <2>4. CASE code \in ErrorCodes
    <3>1. how.code \in ErrorCodes
      <4> HIDE DEF code
      <4>1. QED
        BY <2>4, Raises DEF Error
    <3> HIDE DEF how
    <3>2. QED
      BY <2>1, <3>1, NotForFindings
  <2>5. QED
    BY <2>2, <2>3, <2>4
<1>7. QED
  BY <1>1, <1>2, <1>3, <1>4, <1>5, <1>6 DEF CommandStep, ScanCommandStep

LEMMA CodeCi == ListsInv /\ StepInv /\ ToldInv /\ ExitInv /\ CodeInv /\ CiCommandStep => CodeInv'
<1> SUFFICES ASSUME ListsInv, StepInv, ToldInv, ExitInv, CodeInv
             PROVE  CiCommandStep => CodeInv'
  OBVIOUS
<1>1. /\ \A code \in {Fatal, MissingConfig, InvalidApiKey} :
             Exit(code).code \in ErrorCodes /\ Error(code).code \in ErrorCodes
      /\ Refused.kind = "crash" /\ raised.code \in ErrorCodes
  BY Codes DEF Exit, Error, Refused, Crash, StepInv
<1>2. ConfigureErrors \/ StartWithoutApp \/ SkipHistory \/ RunHistory => CodeInv'
  BY CodeRest DEF ConfigureErrors, StartWithoutApp, SkipHistory, RunHistory
<1>3. ReadEnvironment => CodeInv'
  <2>1. ReadEnvironment => \/ LeaveCommand(Error(Fatal)) \/ LeaveCommand(Refused)
                           \/ step' = "connect"
    BY DEF ReadEnvironment, FixHead, Refused
  <2>2. QED
    BY <1>1, <2>1, NotForFindings, CodeRest
<1>4. StartCiScan => CodeInv'
  <2>1. StartCiScan => \/ \E code \in {Fatal, MissingConfig, InvalidApiKey} : LeaveCommand(Exit(code))
                       \/ step' \in {"connect", "started"}
    BY DEF StartCiScan
  <2>2. QED
    BY <1>1, <2>1, NotForFindings, CodeRest
<1>5. RunCiScan => CodeInv'
  <2>1. RunCiScan => LeaveCommand(Exit(Fatal)) \/ step' = "ci_scan"
    BY DEF RunCiScan
  <2>2. QED
    BY <1>1, <2>1, NotForFindings, CodeRest
<1>6. ReportFailure => CodeInv'
  <2>1. ReportFailure => LeaveCommand(Refused) \/ step' \in {"ci_scan", "failed"}
    BY DEF ReportFailure
  <2>2. QED
    BY <1>1, <2>1, NotForFindings, CodeRest
<1>7. CiFailed => CodeInv'
  <2> SUFFICES ASSUME CiFailed
               PROVE  CodeInv'
    OBVIOUS
  <2>1. /\ step = "failed" /\ ErrorsThen(handler', Exit(raised.code))
        /\ handler' = HandleSemgrepErrors(handler, <<SemgrepErrorOf(raised.code)>>)
    BY DEF CiFailed
  <2>2. raised.kind = "error" /\ AreErrors(handler'.errors)
    BY <2>1, FailureIsTold DEF StepInv
  <2>3. Exit(raised.code).code \in ErrorCodes
    BY <1>1 DEF Exit
  <2>4. QED
    BY <2>1, <2>2, <2>3, ErrorsAreNotFindings
<1>8. CiLeft => CodeInv'
  BY <1>1, NotForFindings DEF CiLeft
<1>9. TakeHistory => CodeInv'
  <2>1. TakeHistory => LeaveCommand(raised) \/ step' = "results"
    BY DEF TakeHistory
  <2>2. QED
    BY <1>1, <2>1, NotForFindings, CodeRest
<1>10. ShowFindings => CodeInv'
  <2> SUFFICES ASSUME ShowFindings
               PROVE  CodeInv'
    OBVIOUS
  <2> DEFINE code == OutputCode(handler, AllMatches(ShownMatches))
  <2>1. /\ step = "results" /\ invocation' = invocation
        /\ \/ step' = (IF HasHandler THEN "upload" ELSE "verdict")
           \/ LeaveCommand(Error(code))
    BY DEF ShowFindings, LeaveCommand
  <2>2. CASE step' = (IF HasHandler THEN "upload" ELSE "verdict")
    <3>1. HasHandler' = HasHandler
      BY <2>1 DEF HasHandler
    <3>2. QED
      BY <2>2, <3>1 DEF CodeInv, FindingsCodeIsForFindings
  <2>3. CASE LeaveCommand(Error(code))
    <3>1. handler.settings.errorOnFindings = FALSE
      BY <2>1 DEF ExitInv, WithHandler
    <3>2. code \in ErrorCodes
      BY <3>1, OutputOfFindings DEF ToldInv
    <3> HIDE DEF code
    <3>3. Error(code).code \in ErrorCodes
      BY <3>2 DEF Error
    <3>4. QED
      BY <2>3, <3>3, NotForFindings
  <2>4. QED
    BY <2>1, <2>2, <2>3
<1>11. SendResults => CodeInv'
  <2> SUFFICES ASSUME SendResults
               PROVE  CodeInv'
    OBVIOUS
  <2>1. \/ step' = "verdict" /\ DryRun /\ UNCHANGED invocation
        \/ step' \in {"upload", "complete"}
        \/ LeaveCommand(Refused)
    BY DEF SendResults
  <2>2. CASE step' = "verdict" /\ DryRun /\ UNCHANGED invocation
    <3>1. DryRun'
      BY <2>2 DEF DryRun
    <3>2. QED
      BY <2>2, <3>1 DEF CodeInv, FindingsCodeIsForFindings
  <2>3. QED
    BY <1>1, <2>1, <2>2, NotForFindings, CodeRest
<1>12. SendComplete => CodeInv'
  <2> SUFFICES ASSUME SendComplete
               PROVE  CodeInv'
    OBVIOUS
  <2>1. /\ step = "complete" /\ UNCHANGED final
        /\ \/ LeaveCommand(Refused)
           \/ step' = step
           \/ step' = "verdict" /\ (app'.state = "complete" \/ final)
    <3>1. "state" \in DOMAIN app
      BY DEF StepInv
    <3>2. QED
      BY <3>1 DEF SendComplete, IsNotTaken
  <2>2. CASE step' = "verdict" /\ (app'.state = "complete" \/ final)
    BY <2>1, <2>2 DEF CodeInv, FindingsCodeIsForFindings
  <2>3. QED
    BY <1>1, <2>1, <2>2, NotForFindings, CodeRest
<1>13. Verdict => CodeInv'
  <2> SUFFICES ASSUME Verdict
               PROVE  CodeInv'
    OBVIOUS
  <2>1. /\ step = "verdict" /\ step' = "done"
        /\ UNCHANGED <<matches, response, handler, invocation, app, final>>
    BY DEF Verdict, ciVars, scanVars, LeaveCommand
  <2>2. exit' = Findings => BlockingMatches # {} \/ BlockedByApp
    BY DEF Verdict, SuggestedExitCode, LeaveCommand, Exit, Send, SendIf, WrapperCode, Findings, Ok
  <2>3. invocation.word = "ci"
    BY <2>1 DEF StepInv, CiSteps, ResolveCommand
  <2>4. /\ ShownMatches' = ShownMatches
        /\ CiKeepsIgnored' = CiKeepsIgnored
    BY <2>1, FindingsStay DEF CiKeepsIgnored
  <2>5. ASSUME BlockingMatches # {}
        PROVE  \E m \in AllMatches(ShownMatches) : ~m.ignored \/ CiKeepsIgnored
    BY <2>5, ShownAreKept DEF BlockingMatches, AllMatches
  <2>6. ASSUME BlockedByApp
        PROVE  (app.state = "complete" \/ final) /\ response.blocks
    BY <2>1, <2>6 DEF CodeInv, BlockedByApp
  <2>7. FindingsCodeIsForFindings'
    BY <2>1, <2>2, <2>3, <2>4, <2>5, <2>6 DEF FindingsCodeIsForFindings
  <2>8. QED
    BY <2>1, <2>7 DEF CodeInv
<1>14. RestoreCheckout => CodeInv'
  BY CodeRest DEF RestoreCheckout, commandVars, scanVars
<1>15. QED
  BY <1>2, <1>3, <1>4, <1>5, <1>6, <1>7, <1>8, <1>9, <1>10, <1>11, <1>12, <1>13, <1>14
     DEF CiCommandStep

LEMMA CodeStep ==
    ListsInv /\ FixInv /\ StepInv /\ ToldInv /\ ExitInv /\ CodeInv /\ [Next]_vars => CodeInv'
<1> SUFFICES ASSUME ListsInv, FixInv, StepInv, ToldInv, ExitInv, CodeInv, [Next]_vars
             PROVE  CodeInv'
  OBVIOUS
<1>1. ASSUME NEW asked \in Invocations, CallScan(asked)
      PROVE  CodeInv'
  <2>1. /\ invocation' = asked
        /\ \/ step' = "done" /\ exit' = Send(WrapperCode(PreflightOf(asked)))
           \/ step' \in {"validate", "scan"}
    BY <1>1 DEF CallScan
  <2>2. asked.tests = <<>> => PreflightOf(asked).kind = "crash" \/ PreflightOf(asked).code \in ErrorCodes
    BY Raises, Codes DEF PreflightOf, Exit, Crash, NotRaised
  <2>3. exit' = Send(WrapperCode(PreflightOf(asked))) /\ asked.tests = <<>> => exit' # Findings
    BY <2>2 DEF Send, SendIf, WrapperCode, ErrorCodes, Ok, Findings, Fatal,
         TargetParseFailure, RuleParseFailure, UnparseableYaml, MissingConfig, InvalidApiKey
  <2>4. QED
    BY <2>1, <2>3 DEF CodeInv, FindingsCodeIsForFindings
<1>2. ASSUME NEW asked \in Invocations, CallCi(asked)
      PROVE  CodeInv'
  <2>1. \/ /\ step' = "done"
           /\ exit' = SendIf(asked.suppressErrors, WrapperCode(CiPreflight(asked)))
        \/ step' = "configure"
    BY <1>2 DEF CallCi
  <2>2. CiPreflight(asked).code \in {Ok, Fatal, InvalidApiKey} /\ CiPreflight(asked).kind # "crash"
    BY DEF CiPreflight, Exit, NotRaised, Ok
  <2>3. SendIf(asked.suppressErrors, WrapperCode(CiPreflight(asked))) # Findings
    BY <2>2 DEF SendIf, WrapperCode, Ok, Findings, Fatal, InvalidApiKey
  <2>4. QED
    BY <2>1, <2>3 DEF CodeInv, FindingsCodeIsForFindings
<1>3. CASE RunScanStep
  BY <1>3, CodeScan
<1>4. CASE CommandStep
  BY <1>4, CodeCommand
<1>5. CASE CiCommandStep
  BY <1>5, CodeCi
<1>6. CASE GiveUpSoon
  BY <1>6, CodeRest DEF GiveUpSoon, commandVars, scanVars
<1>7. CASE Exited \/ UNCHANGED vars
  BY <1>7, CodeRest DEF Exited, vars, commandVars, ciVars, scanVars
<1>8. QED
  BY <1>1, <1>2, <1>3, <1>4, <1>5, <1>6, <1>7 DEF Next, Call

\* However a command ends, the exit code of findings says that there are findings
\* which no comment ignores, that a test failed, or that the app wants the build to
\* fail, which it was asked only after the results were sent.
THEOREM FindingsCodeIsAlwaysForFindings == Spec => []FindingsCodeIsForFindings
<1>1. CodeInv => FindingsCodeIsForFindings
  BY DEF CodeInv
<1>2. QED
  BY <1>1, FolderStarts, FolderStep, FixStarts, FixStep, StepStarts, StepStep, ToldStarts,
     ToldStep, ExitStarts, ExitStep, ListsStart, ListsStep, CodeStarts, CodeStep, PTL DEF Spec
-----------------------------------------------------------------------------
(* What the text tells *)

\* The last header of each kind is the one that a line is under.
LEMMA HeadersAre ==
    ASSUME NEW section, NEW k \in Nat, UnderHeaders(section, k, section[k].finding)
    PROVE  IsUnderItsHeaders(section, k)
<1> DEFINE m == section[k].finding
           places(kind) == {c \in 1..k : kind \in DOMAIN section[c]}
<1>1. PICK a \in 1..k :
          /\ Heads(section, k, "file", m.path, a)
          /\ m.rule \notin Nameless =>
                 \E b \in 1..k : Heads(section, k, "rule", m.rule, b) /\ a < b
  BY DEF UnderHeaders
<1>2. ASSUME NEW kind, NEW name, NEW x \in 1..k, Heads(section, k, kind, name, x)
      PROVE  /\ places(kind) # {} /\ Max(places(kind)) = x
             /\ Header(section, k, kind) = name
  <2>1. x \in places(kind) /\ section[x][kind] = name
    BY <1>2 DEF Heads
  <2>2. ASSUME NEW y \in places(kind)
        PROVE  y <= x
    <3>1. y \notin (x + 1)..k
      BY <1>2 DEF Heads
    <3>2. QED
      BY <3>1
  <2>3. Max(places(kind)) = x
    <3>1. places(kind) \in SUBSET Int
      OBVIOUS
    <3> HIDE DEF places
    <3>2. QED
      BY <2>1, <2>2, <3>1, MaxIs
  <2>4. Header(section, k, kind) = IF places(kind) = {} THEN <<>> ELSE section[Max(places(kind))][kind]
    BY DEF Header
  <2> HIDE DEF places
  <2>5. QED
    BY <2>1, <2>3, <2>4
<1>3. Header(section, k, "file") = m.path /\ Max(places("file")) = a
  BY <1>1, <1>2
<1>4. ASSUME m.rule \notin Nameless
      PROVE  Header(section, k, "rule") = m.rule /\ Max(places("rule")) > a
  <2>1. PICK b \in 1..k : Heads(section, k, "rule", m.rule, b) /\ a < b
    BY <1>1, <1>4
  <2>2. Header(section, k, "rule") = m.rule /\ Max(places("rule")) = b
    BY <1>2, <2>1
  <2>3. QED
    BY <2>1, <2>2
<1>5. QED
  BY <1>3, <1>4 DEF IsUnderItsHeaders

OfRules(found, match) == {rule \in DOMAIN found : match \in ToSet(found[rule])}

\* Only a finding of a generic rule of secrets is left out.
LEMMA ShownGroups ==
    ASSUME NEW match, NEW rule, NEW ci, ~(match.kind = "secrets" /\ rule.metadata.generic)
    PROVE  GroupOf(match, rule, ci)[2] # "generic-secrets"
<1> DEFINE second == CASE match.kind = "code" -> IF ~ci THEN "merged"
                                                 ELSE IF IsBlocking(match, rule) THEN "blocking"
                                                      ELSE "nonblocking"
                       [] match.kind = "secrets" -> SecretsGroup(match, rule)
                       [] OTHER -> ExposureType(match, rule)
<1>1. GroupOf(match, rule, ci) = <<match.kind, second>>
  BY Zenon DEF GroupOf
<1>2. match.kind = "secrets" => SecretsGroup(match, rule) # "generic-secrets"
  BY DEF SecretsGroup
<1>3. ExposureType(match, rule) # "generic-secrets"
  BY DEF ExposureType
<1>4. second # "generic-secrets"
  BY <1>2, <1>3
<1> HIDE DEF second
<1>5. QED
  BY <1>1, <1>4

\* A section for each group: it has the findings of the group, once each.
LEMMA SectionsAre ==
    ASSUME NEW found, MatchesAreLists(found), IsFiniteSet(DOMAIN found), NEW ci,
           NEW group \in DOMAIN FormatText(found, ci)
    PROVE  LET section == FormatText(found, ci)[group]
           IN /\ DOMAIN section = 1..Len(section) /\ Len(section) \in Nat
              /\ \A k \in 1..Len(section) : IsLine(section, k) =>
                     /\ \E rule \in OfRules(found, section[k].finding) :
                            GroupOf(section[k].finding, rule, ci) = group
                     /\ UnderHeaders(section, k, section[k].finding)
              /\ \A m : (\E rule \in OfRules(found, m) : GroupOf(m, rule, ci) = group) =>
                     \E k \in 1..Len(section) : IsLine(section, k) /\ section[k].finding = m
              /\ \A k, l \in 1..Len(section) :
                     IsLine(section, k) /\ IsLine(section, l)
                     /\ section[k].finding = section[l].finding => k = l
<1> DEFINE in(g, rule) == {m \in ToSet(found[rule]) : GroupOf(m, rule, ci) = g}
           S == UNION {in(group, rule) : rule \in DOMAIN found}
           sorted == SortMatches(SetToSeq(S))
           section == FormatText(found, ci)[group]
<1>1. section = PrintTextOutput(sorted)
  BY Zenon DEF FormatText
<1>2. \A m : m \in S <=> \E rule \in OfRules(found, m) : GroupOf(m, rule, ci) = group
  BY DEF OfRules
<1>3. IsFiniteSet(S)
  <2> DEFINE lists == {ToSet(found[rule]) : rule \in DOMAIN found}
             g == [rule \in DOMAIN found |-> ToSet(found[rule])]
  <2>1. IsFiniteSet({g[rule] : rule \in DOMAIN found})
    <3>1. DOMAIN g = DOMAIN found
      OBVIOUS
    <3> HIDE DEF g
    <3>2. QED
      BY <3>1, FiniteRange
  <2>2. IsFiniteSet(lists)
    BY <2>1
  <2>3. \A T \in lists : IsFiniteSet(T)
    BY ListIsFinite DEF MatchesAreLists
  <2>4. IsFiniteSet(UNION lists)
    <3> HIDE DEF lists
    <3>1. QED
      BY <2>2, <2>3, FS_UNION
  <2>5. S \in SUBSET UNION lists
    OBVIOUS
  <2> HIDE DEF S, lists
  <2>6. QED
    BY <2>4, <2>5, FS_Subset
<1> HIDE DEF S
<1>4. IsList(sorted) /\ ToSet(sorted) = S /\ IsInjective(sorted)
  BY <1>3, SortedOnce
<1> HIDE DEF sorted, section
<1>5. HasPrinted(section, sorted, Len(sorted))
  BY <1>1, <1>4, PrintedSection
<1>6. DOMAIN sorted = 1..Len(sorted)
  BY <1>4, ListDomain
<1>7. DOMAIN section = 1..Len(section) /\ Len(section) \in Nat
  BY <1>5, ListDomain DEF HasPrinted
<1>8. \A m : m \in S <=> \E i \in 1..Len(sorted) : sorted[i] = m
  BY <1>4, <1>6 DEF ToSet
<1>9. ASSUME NEW k \in 1..Len(section), IsLine(section, k)
      PROVE  section[k].finding \in S /\ UnderHeaders(section, k, section[k].finding)
  BY <1>5, <1>8, <1>9 DEF HasPrinted
<1>10. ASSUME NEW m \in S
       PROVE  \E k \in 1..Len(section) : IsLine(section, k) /\ section[k].finding = m
  <2>1. PICK i \in 1..Len(sorted) : sorted[i] = m
    BY <1>8
  <2>2. PICK k \in 1..Len(section) : IsLine(section, k) /\ section[k].finding = sorted[i]
    BY <1>5 DEF HasPrinted
  <2>3. QED
    BY <2>1, <2>2
<1>11. \A k, l \in 1..Len(section) :
           IsLine(section, k) /\ IsLine(section, l)
           /\ section[k].finding = section[l].finding => k = l
  BY <1>4, <1>5 DEF HasPrinted
<1>12. QED
  BY <1>2, <1>7, <1>9, <1>10, <1>11 DEF section

\* A text tells each finding, unless a generic rule of secrets has it, in one section
\* for each group that its rules put it in.
LEMMA TextTells ==
    ASSUME NEW found, MatchesAreLists(found), IsFiniteSet(DOMAIN found), NEW ci
    PROVE  LET text == FormatText(found, ci)
           IN /\ \A p \in FindingLines(text) : IsUnderItsHeaders(text[p[1]], p[2])
              /\ \A m \in AllMatches(found) :
                    (\A rule \in OfRules(found, m) : ~(m.kind = "secrets" /\ rule.metadata.generic)) =>
                        Cardinality({p \in FindingLines(text) : text[p[1]][p[2]].finding = m})
                            \in 1..Cardinality(OfRules(found, m))
<1> DEFINE text == FormatText(found, ci)
           told == FindingLines(text)
<1>1. \A p : p \in told <=> \E group \in DOMAIN text : \E k \in DOMAIN text[group] :
                                 p = <<group, k>> /\ IsLine(text[group], k)
  BY DEF FindingLines, IsLine
<1>2. \A group \in DOMAIN text :
          /\ DOMAIN text[group] = 1..Len(text[group]) /\ Len(text[group]) \in Nat
          /\ \A k \in 1..Len(text[group]) : IsLine(text[group], k) =>
                 /\ \E rule \in OfRules(found, text[group][k].finding) :
                        GroupOf(text[group][k].finding, rule, ci) = group
                 /\ UnderHeaders(text[group], k, text[group][k].finding)
          /\ \A m : (\E rule \in OfRules(found, m) : GroupOf(m, rule, ci) = group) =>
                 \E k \in 1..Len(text[group]) :
                     IsLine(text[group], k) /\ text[group][k].finding = m
          /\ \A k, l \in 1..Len(text[group]) :
                 IsLine(text[group], k) /\ IsLine(text[group], l)
                 /\ text[group][k].finding = text[group][l].finding => k = l
  BY SectionsAre
<1>3. \A rule \in DOMAIN found : \A m \in ToSet(found[rule]) :
          GroupOf(m, rule, ci)[2] # "generic-secrets" => GroupOf(m, rule, ci) \in DOMAIN text
  BY DEF FormatText
<1> HIDE DEF text, told
<1>4. ASSUME NEW p \in told
      PROVE  IsUnderItsHeaders(text[p[1]], p[2])
  <2>1. PICK group \in DOMAIN text : \E k \in DOMAIN text[group] :
            p = <<group, k>> /\ IsLine(text[group], k)
    BY <1>1
  <2>2. PICK k \in DOMAIN text[group] : p = <<group, k>> /\ IsLine(text[group], k)
    BY <2>1
  <2>3. k \in Nat /\ UnderHeaders(text[group], k, text[group][k].finding)
    BY <1>2, <2>2
  <2>4. IsUnderItsHeaders(text[group], k)
    BY <2>3, HeadersAre
  <2>5. p[1] = group /\ p[2] = k
    BY <2>2
  <2>6. QED
    BY <2>4, <2>5
<1>5. ASSUME NEW m \in AllMatches(found),
             \A rule \in OfRules(found, m) : ~(m.kind = "secrets" /\ rule.metadata.generic)
      PROVE  Cardinality({p \in told : text[p[1]][p[2]].finding = m})
                 \in 1..Cardinality(OfRules(found, m))
  <2> DEFINE R == OfRules(found, m)
             P == {p \in told : text[p[1]][p[2]].finding = m}
             at(group) == CHOOSE k \in 1..Len(text[group]) :
                              IsLine(text[group], k) /\ text[group][k].finding = m
             F == [rule \in R |-> <<GroupOf(m, rule, ci), at(GroupOf(m, rule, ci))>>]
  <2>1. IsFiniteSet(R) /\ R # {}
    <3>1. R \in SUBSET DOMAIN found /\ R # {}
      BY DEF OfRules, AllMatches
    <3> HIDE DEF R
    <3>2. QED
      BY <3>1, FS_Subset
  <2>2. ASSUME NEW rule \in R
        PROVE  /\ GroupOf(m, rule, ci) \in DOMAIN text
               /\ \E k \in 1..Len(text[GroupOf(m, rule, ci)]) :
                      IsLine(text[GroupOf(m, rule, ci)], k)
                      /\ text[GroupOf(m, rule, ci)][k].finding = m
    <3>1. GroupOf(m, rule, ci)[2] # "generic-secrets"
      BY <1>5, ShownGroups
    <3>2. GroupOf(m, rule, ci) \in DOMAIN text
      BY <1>3, <3>1 DEF OfRules
    <3>3. QED
      BY <1>2, <3>2
  <2>3. ASSUME NEW group \in DOMAIN text, NEW k \in 1..Len(text[group]),
               IsLine(text[group], k), text[group][k].finding = m
        PROVE  at(group) = k
    <3>1. \A l \in 1..Len(text[group]) :
              IsLine(text[group], l) /\ text[group][l].finding = m => l = k
      BY <1>2, <2>3
    <3>2. QED
      BY <2>3, <3>1
  <2>4. ASSUME NEW rule \in R
        PROVE  F[rule] \in P
    <3> DEFINE group == GroupOf(m, rule, ci)
    <3>1. group \in DOMAIN text /\ \E k \in 1..Len(text[group]) :
              IsLine(text[group], k) /\ text[group][k].finding = m
      BY <2>2
    <3>2. F[rule] = <<group, at(group)>>
      OBVIOUS
    <3> HIDE DEF group, F
    <3>3. PICK k \in 1..Len(text[group]) : IsLine(text[group], k) /\ text[group][k].finding = m
      BY <3>1
    <3>4. at(group) = k
      BY <2>3, <3>1, <3>3
    <3> HIDE DEF at
    <3>5. F[rule] = <<group, k>>
      BY <3>2, <3>4
    <3>6. k \in DOMAIN text[group]
      BY <1>2, <3>1
    <3>7. F[rule] \in told
      BY <1>1, <3>1, <3>3, <3>5, <3>6
    <3>8. QED
      BY <3>3, <3>5, <3>7
  <2>5. ASSUME NEW p \in P
        PROVE  \E rule \in R : F[rule] = p
    <3>1. PICK group \in DOMAIN text : \E k \in DOMAIN text[group] :
              p = <<group, k>> /\ IsLine(text[group], k)
      BY <1>1
    <3>2. PICK k \in DOMAIN text[group] : p = <<group, k>> /\ IsLine(text[group], k)
      BY <3>1
    <3>3. k \in 1..Len(text[group]) /\ text[group][k].finding = m
      BY <1>2, <3>2
    <3>4. PICK rule \in R : GroupOf(m, rule, ci) = group
      BY <1>2, <3>2, <3>3
    <3>5. at(group) = k
      BY <2>3, <3>2, <3>3
    <3> HIDE DEF at
    <3>6. F[rule] = p
      BY <3>2, <3>4, <3>5
    <3>7. QED
      BY <3>6
  <2>6. F \in Surjection(R, P)
    <3>1. F = [rule \in R |-> F[rule]]
      OBVIOUS
    <3> HIDE DEF F, P, R
    <3>2. F \in [R -> P]
      BY <2>4, <3>1
    <3>3. QED
      BY <2>5, <3>2 DEF Surjection
  <2>7. P # {}
    <3> HIDE DEF F, P, R
    <3>1. QED
      BY <2>1, <2>4
  <2> HIDE DEF F, P, R
  <2>8. IsFiniteSet(P) /\ Cardinality(P) <= Cardinality(R)
    BY <2>1, <2>6, FS_Surjection
  <2>9. Cardinality(P) \in Nat /\ Cardinality(R) \in Nat /\ Cardinality(P) # 0
    BY <2>1, <2>7, <2>8, FS_CardinalityType, FS_EmptySet
  <2>10. Cardinality(P) \in 1..Cardinality(R)
    BY <2>8, <2>9
  <2>11. QED
    BY <2>10 DEF P, R
<1>6. QED
  BY <1>4, <1>5 DEF text, told
LEMMA TextStarts == Init => TextIsComplete
BY DEF Init, CommandInit, NotPrinted, TextIsComplete

\* A step that prints nothing.
LEMMA TextRest ==
    ASSUME TextIsComplete, UNCHANGED printed, printed # <<>> => UNCHANGED <<matches, handler>>
    PROVE  TextIsComplete'
<1>1. CASE printed = <<>>
  BY <1>1 DEF TextIsComplete
<1>2. CASE printed # <<>>
  BY <1>2 DEF TextIsComplete, OnlyCounted, RulesOf
<1>3. QED
  BY <1>1, <1>2

\* What is printed of some of the findings of the scan.
LEMMA TextShown ==
    ASSUME NEW found, MatchesAreLists(found), IsFiniteSet(DOMAIN matches'),
           \A rule \in DOMAIN found :
               rule \in DOMAIN matches' /\ ToSet(found[rule]) \subseteq ToSet(matches'[rule]),
           NEW targets, NEW skips, NEW ci,
           printed' = <<Outputs(handler', found, targets, skips, ci)>>
    PROVE  TextIsComplete'
<1> DEFINE out == Outputs(handler', found, targets, skips, ci)
           text == FormatText(found, ci)
<1> SUFFICES ASSUME HasTextOutput(handler')
             PROVE  TextIsComplete'
  BY DEF TextIsComplete
<1>1. out.found = AllMatches(found) /\ out.text = text
  BY DEF Outputs, BuildOutput
<1> HIDE DEF out
<1>2. printed'[1].found = AllMatches(found) /\ printed'[1].text = text
  BY <1>1 DEF out
<1>3. IsFiniteSet(DOMAIN found)
  BY FS_Subset
<1>4. \A p \in FindingLines(text) : IsUnderItsHeaders(text[p[1]], p[2])
  BY <1>3, TextTells
<1>5. ASSUME NEW m \in AllMatches(found), ~OnlyCounted(m)'
      PROVE  Cardinality({p \in FindingLines(text) : text[p[1]][p[2]].finding = m})
                 \in 1..Cardinality(RulesOf(m)')
  <2> DEFINE n == Cardinality({p \in FindingLines(text) : text[p[1]][p[2]].finding = m})
             R == OfRules(found, m)
             all == RulesOf(m)'
  <2>1. all = {rule \in DOMAIN matches' : m \in ToSet(matches'[rule])}
    BY DEF RulesOf
  <2>2. R \subseteq all
    BY <2>1 DEF OfRules
  <2>3. IsFiniteSet(all) /\ IsFiniteSet(R)
    BY <1>3, <2>1, FS_Subset DEF OfRules
  <2>4. \A rule \in R : ~(m.kind = "secrets" /\ rule.metadata.generic)
    BY <1>5, <2>2 DEF OnlyCounted
  <2>5. n \in 1..Cardinality(R)
    BY <1>3, <2>4, TextTells
  <2> HIDE DEF n, R, all
  <2>6. Cardinality(R) <= Cardinality(all) /\ Cardinality(R) \in Nat /\ Cardinality(all) \in Nat
    BY <2>2, <2>3, FS_Subset, FS_CardinalityType
  <2>7. n \in 1..Cardinality(all)
    BY <2>5, <2>6
  <2>8. QED
    BY <2>7 DEF n, all
<1> HIDE DEF text
<1>6. QED
  BY <1>2, <1>4, <1>5 DEF TextIsComplete

\* An error is printed without findings.
LEMMA TextOfErrors ==
    ASSUME RulesInv, UNCHANGED matches, NEW how, ErrorsThen(handler', how)
    PROVE  TextIsComplete'
<1>1. printed' = <<Outputs(handler', <<>>, {}, EmptyLog, FALSE)>>
  BY DEF ErrorsThen
<1>2. DOMAIN <<>> = {} /\ MatchesAreLists(<<>>)
  BY NoMatches
<1>3. IsFiniteSet(DOMAIN matches')
  BY DEF RulesInv
<1>4. QED
  BY <1>1, <1>2, <1>3, TextShown

LEMMA TextCommand ==
    ListsInv /\ RulesInv /\ ToldInv /\ TextIsComplete /\ CommandStep => TextIsComplete'
<1> SUFFICES ASSUME ListsInv, RulesInv, ToldInv, TextIsComplete
             PROVE  CommandStep => TextIsComplete'
  OBVIOUS
<1>1. step \in {"validate", "scan"} => printed = <<>>
  BY DEF ToldInv, AfterTheOutput
<1>2. ValidateWithoutEngine \/ CheckRules \/ ScanLeft => TextIsComplete'
  BY <1>1, TextRest DEF ValidateWithoutEngine, CheckRules, ScanLeft, commandVars
<1>3. Validated => TextIsComplete'
  <2>1. Validated => /\ UNCHANGED matches /\ step = "validate"
                     /\ UNCHANGED printed \/ ErrorsThen(handler', Error(Fatal))
    BY DEF Validated
  <2>2. QED
    BY <1>1, <2>1, TextRest, TextOfErrors
<1>4. ScanFailed => TextIsComplete'
  BY TextOfErrors DEF ScanFailed
<1>5. ScanDone => TextIsComplete'
  <2> SUFFICES ASSUME ScanDone
               PROVE  TextIsComplete'
    OBVIOUS
  <2>1. /\ UNCHANGED <<matches, handler>>
        /\ printed' = <<Outputs(handler, matches, scanned, log, FALSE)>>
    BY DEF ScanDone, scanVars
  <2>2. MatchesAreLists(matches) /\ IsFiniteSet(DOMAIN matches')
    BY <2>1 DEF ListsInv, RulesInv
  <2>3. QED
    BY <2>1, <2>2, TextShown
<1>6. QED
  BY <1>2, <1>3, <1>4, <1>5 DEF CommandStep, ScanCommandStep

LEMMA TextCi ==
    ListsInv /\ RulesInv /\ ToldInv /\ TextIsComplete /\ CiCommandStep => TextIsComplete'
<1> SUFFICES ASSUME ListsInv, RulesInv, ToldInv, TextIsComplete
             PROVE  CiCommandStep => TextIsComplete'
  OBVIOUS
<1>1. printed # <<>> => step \in AfterTheOutput
  BY DEF ToldInv
<1>2. ConfigureErrors \/ ReadEnvironment \/ StartWithoutApp \/ StartCiScan \/ RunCiScan
      \/ ReportFailure => TextIsComplete'
  BY <1>1, TextRest DEF ConfigureErrors, ReadEnvironment, StartWithoutApp, StartCiScan, RunCiScan,
     ReportFailure, AfterTheOutput
<1>3. CiFailed => TextIsComplete'
  BY TextOfErrors DEF CiFailed
<1>4. CiLeft \/ SkipHistory \/ RunHistory \/ TakeHistory => TextIsComplete'
  BY <1>1, TextRest DEF CiLeft, SkipHistory, RunHistory, TakeHistory, AfterTheOutput
<1>5. ShowFindings => TextIsComplete'
  <2> SUFFICES ASSUME ShowFindings
               PROVE  TextIsComplete'
    OBVIOUS
  <2> DEFINE kept == {m \in AllMatches(matches) : ~IsTriaged(m) /\ (CiKeepsIgnored \/ ~m.ignored)}
  <2>1. /\ UNCHANGED <<matches, handler>>
        /\ \/ UNCHANGED printed
           \/ printed' = <<Outputs(handler, ShownMatches, scanned, log, TRUE)>>
    BY DEF ShowFindings, scanVars
  <2>2. ASSUME NEW rule \in DOMAIN ShownMatches
        PROVE  /\ rule \in DOMAIN matches /\ IsList(ShownMatches[rule])
               /\ ToSet(ShownMatches[rule]) \subseteq ToSet(matches[rule])
    <3>1. rule \in DOMAIN matches /\ ShownMatches[rule] = Only(matches[rule], kept)
      BY DEF ShownMatches, CiMatches
    <3>2. IsList(matches[rule])
      BY <3>1 DEF ListsInv, MatchesAreLists
    <3> HIDE DEF kept
    <3>3. QED
      BY <3>1, <3>2, OnlyKept
  <2>3. MatchesAreLists(ShownMatches) /\ IsFiniteSet(DOMAIN matches')
    BY <2>1, <2>2 DEF MatchesAreLists, RulesInv
  <2>4. CASE printed' = <<Outputs(handler, ShownMatches, scanned, log, TRUE)>>
    <3> DEFINE shown == ShownMatches
    <3>1. /\ printed' = <<Outputs(handler', shown, scanned, log, TRUE)>>
          /\ \A rule \in DOMAIN shown :
                 rule \in DOMAIN matches' /\ ToSet(shown[rule]) \subseteq ToSet(matches'[rule])
          /\ MatchesAreLists(shown) /\ IsFiniteSet(DOMAIN matches')
      BY <2>1, <2>2, <2>3, <2>4
    <3> HIDE DEF shown
    <3>2. QED
      BY <3>1, TextShown
  <2>5. QED
    BY <2>1, <2>4, TextRest
<1>6. SendResults \/ SendComplete \/ Verdict \/ RestoreCheckout => TextIsComplete'
  BY TextRest DEF SendResults, SendComplete, Verdict, RestoreCheckout, commandVars, scanVars
<1>7. QED
  BY <1>2, <1>3, <1>4, <1>5, <1>6 DEF CiCommandStep

LEMMA TextStep ==
    ListsInv /\ RulesInv /\ FixInv /\ ToldInv /\ TextIsComplete /\ [Next]_vars => TextIsComplete'
<1> SUFFICES ASSUME ListsInv, RulesInv, FixInv, ToldInv, TextIsComplete, [Next]_vars
             PROVE  TextIsComplete'
  OBVIOUS
<1>1. printed # <<>> => step \in AfterTheOutput
  BY DEF ToldInv
<1>2. ASSUME Call
      PROVE  TextIsComplete'
  <2>1. step = "idle" /\ UNCHANGED printed
    BY <1>2 DEF Call, CallScan, CallCi
  <2>2. QED
    BY <1>1, <2>1, TextRest DEF AfterTheOutput
<1>3. CASE RunScanStep
  <2>1. UNCHANGED printed
    BY <1>3 DEF RunScanStep, commandVars
  <2>2. step \in AfterTheOutput => UNCHANGED <<matches, handler>>
    BY <1>3, ScanIsUnderWay DEF RunScanStep, ScanStep, Engine, scanVars, InRunScan, AfterTheOutput
  <2>3. QED
    BY <1>1, <2>1, <2>2, TextRest
<1>4. CASE CommandStep
  BY <1>4, TextCommand
<1>5. CASE CiCommandStep
  BY <1>5, TextCi
<1>6. CASE GiveUpSoon
  BY <1>6, TextRest DEF GiveUpSoon, commandVars, scanVars
<1>7. CASE Exited \/ UNCHANGED vars
  BY <1>7, TextRest DEF Exited, vars, commandVars, scanVars
<1>8. QED
  BY <1>2, <1>3, <1>4, <1>5, <1>6, <1>7 DEF Next

\* Whatever the findings, the order they come in and the rules they are of, each one
\* that is to be shown is in the text, not more often than there are rules that have
\* it, and every finding of the text is under its file and its rule.
THEOREM TextIsAlwaysComplete == Spec => []TextIsComplete
<1>1. QED
  BY FolderStarts, FolderStep, FixStarts, FixStep, StepStarts, StepStep, ToldStarts, ToldStep,
     ListsStart, ListsStep, RulesStart, RulesStep, TextStarts, TextStep, PTL DEF Spec
=============================================================================
