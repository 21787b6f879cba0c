---------------------------- MODULE Subprojects ----------------------------
(***************************************************************************)
(* Projects inside the project: semdep/subproject_matchers.py and its      *)
(* matchers, resolve_subprojects.py, resolve_dependency_source.py,         *)
(* subproject.py and dependency_aware_rule.py.  A path is a sequence of    *)
(* names.  A dependency source is                                          *)
(*   type      "lockfile", "both", "manifest" or "multi"                   *)
(*   lockfile, manifest, kind   for the first three; kind is its lockfile  *)
(*   sources   the sources of a "multi"                                    *)
(* and a subproject [root, source], with [ecosystem, method, deps, errors] *)
(* once resolved.  A dependency is [package, version, ecosystem,           *)
(* transitivity, lockfile].                                                *)
(***************************************************************************)
EXTENDS Versions, RuleMatches

CONSTANTS
    RequirementNames,   \* names that contain "requirement"
    RequirementFiles,   \* names that end in .txt or .pip
    InFiles,            \* names that end in .in
    InFor,              \* InFor[name]: the name with the extension .in
    NoFile

-----------------------------------------------------------------------------
(* Matchers *)

Exact(lockfile, manifest) == [type |-> "exact", lockfile |-> lockfile, manifest |-> manifest]

\* MATCHERS, in their order.
Matchers ==
    <<[type |-> "pip"],
      Exact("package-lock.json", "package.json"),
      Exact("yarn.lock", "package.json"),
      Exact("pnpm-lock.yaml", "package.json"),
      Exact("Gemfile.lock", "Gemfile"),
      Exact("go.mod", "go.mod"),
      Exact("Cargo.lock", "Cargo.toml"),
      Exact("maven_dep_tree.txt", "pom.xml"),
      [type |-> "manifest", manifest |-> "pom.xml"],
      [type |-> "gradle"],
      Exact("composer.lock", "composer.json"),
      Exact("packages.lock.json", "nuget.manifest.json"),
      Exact("pubspec.lock", "pubspec.yaml"),
      Exact("Package.resolved", "Package.swift"),
      Exact("mix.lock", "mix.exs"),
      Exact("Pipfile.lock", "Pipfile"),
      Exact("poetry.lock", "pyproject.toml"),
      Exact("uv.lock", "pyproject.toml")>>

\* What ends in .in is no lockfile of theirs.
ASSUME SubprojectsAssumption ==
    \A name \in InFiles :
        /\ name # "gradle.lockfile"
        /\ \A i \in DOMAIN Matchers :
              Matchers[i].type = "exact" => Matchers[i].lockfile # name

Parent(path) == SubSeq(path, 1, Len(path) - 1)

NameOf(path) == path[Len(path)]

Parents(path) == {SubSeq(path, 1, n) : n \in 0..(Len(path) - 1)}

LockfileOnly(lockfile, kind) ==
    [type |-> "lockfile", lockfile |-> lockfile, manifest |-> NoFile, kind |-> kind]

ManifestLockfile(manifest, lockfile, kind) ==
    [type |-> "both", lockfile |-> lockfile, manifest |-> manifest, kind |-> kind]

ManifestOnly(manifest, kind) ==
    [type |-> "manifest", lockfile |-> NoFile, manifest |-> manifest, kind |-> kind]

SourceOf(manifest, lockfile, kind) ==
    IF manifest = NoFile THEN LockfileOnly(lockfile, kind)
    ELSE ManifestLockfile(manifest, lockfile, kind)

\* ExactLockfileManifestMatcher: a subproject for each lockfile, with the
\* manifest next to it if there is one; the files it uses are taken.
ExactSubprojects(matcher, files) ==
    LET lockfiles   == {f \in files : NameOf(f) = matcher.lockfile}
        manifest(l) == LET m == Append(Parent(l), matcher.manifest)
                       IN IF m \in files THEN m ELSE NoFile
    IN [made |-> {[root |-> Parent(l),
                   source |-> SourceOf(manifest(l), l, matcher.lockfile)] : l \in lockfiles},
        used |-> lockfiles \cup ({manifest(l) : l \in lockfiles} \ {NoFile})]

\* ExactManifestOnlyMatcher.
ManifestSubprojects(matcher, files) ==
    LET manifests == {f \in files : NameOf(f) = matcher.manifest}
    IN [made |-> {[root |-> Parent(m), source |-> ManifestOnly(m, matcher.manifest)] :
                     m \in manifests},
        used |-> manifests]

\* PipRequirementsMatcher: the word is looked for on the whole path.
HasRequirement(path) == \E i \in DOMAIN path : path[i] \in RequirementNames

IsRequirements(path) == HasRequirement(path) /\ NameOf(path) \in RequirementFiles

IsRequirementsIn(path) == HasRequirement(path) /\ NameOf(path) \in InFiles

\* The root is the folder above the first one called requirements.
RequirementsRoot(path) ==
    LET places == {i \in DOMAIN path : path[i] = "requirements"}
    IN IF places = {} THEN Parent(path) ELSE SubSeq(path, 1, Min(places) - 1)

RequirementsManifest(path, files) ==
    LET beside == Append(Parent(path), InFor[NameOf(path)])
        atRoot == Append(RequirementsRoot(path), "requirements.in")
    IN IF beside \in files THEN beside ELSE IF atRoot \in files THEN atRoot ELSE NoFile

\* Mutant of PipSubprojects: a root takes the files of the roots below it too.
PipSubprojectsBelow(files) ==
    LET requirements == {f \in files : IsRequirements(f)}
        source(f) == SourceOf(RequirementsManifest(f, files), f, "requirements.txt")
        sources(root) == {source(f) : f \in {x \in requirements :
                                                IsPrefix(root, RequirementsRoot(x))}}
    IN [made |-> {[root |-> root,
                   source |-> [type |-> "multi", sources |-> sources(root),
                               kind |-> "requirements.txt"]] :
                     root \in {RequirementsRoot(f) : f \in requirements}},
        used |-> requirements \cup {f \in files : IsRequirementsIn(f)}]

\* One subproject for all the requirements files of a root, in their order; the
\* manifests are used up even when no requirements file goes with them.
PipSubprojects(files) ==
    LET requirements == {f \in files : IsRequirements(f)}
        source(f) == SourceOf(RequirementsManifest(f, files), f, "requirements.txt")
        sources(root) == {source(f) : f \in {x \in requirements : RequirementsRoot(x) = root}}
    IN [made |-> {[root |-> root,
                   source |-> IF Cardinality(sources(root)) = 1
                              THEN CHOOSE s \in sources(root) : TRUE
                              ELSE [type |-> "multi", sources |-> sources(root),
                                    kind |-> "requirements.txt"]] :
                     root \in {RequirementsRoot(f) : f \in requirements}},
        used |-> requirements \cup {f \in files : IsRequirementsIn(f)}]

\* GradleMatcher: lockfiles first, then settings without a lockfile, then the
\* build files that lie in no subproject made so far, in the order of a set.
BuildNames == <<"build.gradle", "build.gradle.kts">>
SettingsNames == <<"settings.gradle", "settings.gradle.kts">>

FirstOf(root, names, files) ==
    LET found == {i \in DOMAIN names : Append(root, names[i]) \in files}
    IN IF found = {} THEN NoFile ELSE Append(root, names[Min(found)])

GradleOfLockfile(lockfile, files) ==
    LET root  == Parent(lockfile)
        build == FirstOf(root, BuildNames, files)
        settings == FirstOf(root, SettingsNames, files)
    IN [root |-> root,
        source |-> SourceOf(IF build # NoFile THEN build ELSE settings,
                            lockfile, "gradle.lockfile")]

GradleOfSettings(settings, files) ==
    LET build == FirstOf(Parent(settings), BuildNames, files)
    IN [root |-> Parent(settings),
        source |-> ManifestOnly(IF build # NoFile THEN build ELSE settings, "gradle")]

AddBuildFile(made, build) ==
    IF \E s \in made : s.source.manifest = build \/ s.root \in Parents(build)
    THEN made
    ELSE made \cup {[root |-> Parent(build), source |-> ManifestOnly(build, "gradle")]}

GradleSubprojects(files, order) ==
    LET lockfiles == {f \in files : NameOf(f) = "gradle.lockfile"}
        settings  == {f \in files : NameOf(f) \in ToSet(SettingsNames)}
        locked    == {GradleOfLockfile(l, files) : l \in lockfiles}
        paired    == {FirstOf(Parent(l), SettingsNames, files) : l \in lockfiles}
        declared  == {GradleOfSettings(s, files) : s \in settings \ paired}
        builds    == {f \in files : NameOf(f) \in ToSet(BuildNames)}
        made      == FoldLeft(AddBuildFile, locked \cup declared, Only(order, builds))
    IN [made |-> made,
        used |-> lockfiles \cup settings
                 \cup ({s.source.manifest : s \in made} \ {NoFile})]

MakeSubprojects(matcher, files, order) ==
    CASE matcher.type = "exact" -> ExactSubprojects(matcher, files)
      [] matcher.type = "manifest" -> ManifestSubprojects(matcher, files)
      [] matcher.type = "pip" -> PipSubprojects(files)
      [] OTHER -> GradleSubprojects(files, order)

\* is_match of one matcher, and _is_dependency_source_file.
IsMatch(matcher, path) ==
    CASE matcher.type = "exact" -> NameOf(path) \in {matcher.lockfile, matcher.manifest}
      [] matcher.type = "manifest" -> NameOf(path) = matcher.manifest
      [] matcher.type = "pip" -> IsRequirements(path) \/ IsRequirementsIn(path)
      [] OTHER -> NameOf(path) \in ToSet(BuildNames) \cup ToSet(SettingsNames)
                                   \cup {"gradle.lockfile"}

IsDependencySource(path) == \E i \in DOMAIN Matchers : IsMatch(Matchers[i], path)

\* find_subprojects: a file goes to the first matcher that uses it.
FindSubprojects(files, order) ==
    LET step(found, matcher) ==
            LET new == MakeSubprojects(matcher, files \ found.used, order)
            IN [made |-> found.made \cup new.made, used |-> found.used \cup new.used]
    IN FoldLeft(step, [made |-> {}, used |-> {}], Matchers).made

-----------------------------------------------------------------------------
(* Resolution *)

\* Kinds of which there is neither a parser nor an ecosystem.
Unparsed == {"uv.lock"}

\* What the engine answers about a manifest, or the parser about a lockfile:
\* [deps, errors, ok, ecosystem], deps counting when it is ok.
Unresolved(errors) == [ok |-> FALSE, method |-> "none", ecosystem |-> "none",
                       deps |-> {}, errors |-> errors, targets |-> {}]

ResolvedBy(method, answer, path) ==
    [ok |-> TRUE, method |-> method, ecosystem |-> answer.ecosystem,
     deps |-> answer.deps, errors |-> answer.errors, targets |-> {path}]

\* A file that nothing is said about has no dependencies.
AnswerAbout(answers, file) ==
    IF file \in DOMAIN answers THEN answers[file]
    ELSE [ok |-> FALSE, ecosystem |-> "none", deps |-> {}, errors |-> {}]

ResolveDynamically(answers, source) ==
    LET answer == AnswerAbout(answers, source.manifest)
    IN IF answer.ok THEN ResolvedBy("dynamic", answer, source.manifest)
       ELSE Unresolved(answer.errors)

HandleLockfileSource(answers, source, dynamic, graph) ==
    LET supported == source.type = "both" /\ source.kind \in {"maven_dep_tree.txt",
                                                               "gradle.lockfile"}
        first == ResolveDynamically(answers, source)
    IN CASE dynamic /\ graph /\ supported /\ first.ok -> first
         [] source.kind \in Unparsed -> Unresolved({})
         [] OTHER -> ResolvedBy("lockfile", AnswerAbout(answers, source.lockfile),
                                source.lockfile)

\* _handle_multi_lockfile_source: what could be resolved, with all the errors.
HandleMultiSource(answers, source) ==
    LET all == {HandleLockfileSource(answers, s, TRUE, FALSE) : s \in source.sources}
        ok  == {r \in all : r.ok}
    IN IF ok = {} THEN Unresolved(UNION {r.errors : r \in all})
       ELSE [ok |-> TRUE,
             method |-> IF \E r \in ok : r.method = "dynamic" THEN "dynamic" ELSE "lockfile",
             ecosystem |-> (CHOOSE r \in ok : TRUE).ecosystem,
             deps |-> UNION {r.deps : r \in ok},
             errors |-> UNION {r.errors : r \in all},
             targets |-> UNION {r.targets : r \in all}]

ResolveDependencySource(answers, source, dynamic, graph) ==
    CASE source.type \in {"lockfile", "both"} ->
           HandleLockfileSource(answers, source, dynamic, graph)
      [] source.type = "multi" -> HandleMultiSource(answers, source)
      [] source.type = "manifest" /\ dynamic -> ResolveDynamically(answers, source)
      [] OTHER -> Unresolved({})

\* resolve_subprojects, from_unresolved, from_subproject.
ResolveSubprojects(answers, files, order, dynamic, graph) ==
    LET resolved(s) == ResolveDependencySource(answers, s.source, dynamic, graph)
    IN {[root |-> s.root, source |-> s.source, ok |-> resolved(s).ok,
         method |-> resolved(s).method, ecosystem |-> resolved(s).ecosystem,
         deps |-> resolved(s).deps, errors |-> resolved(s).errors,
         targets |-> resolved(s).targets] : s \in FindSubprojects(files, order)}

\* make_dependencies_by_source_path and its use by run_rules: the lockfiles of
\* later subprojects replace those of earlier ones, which are not the same.
DepsByLockfile(subprojects) ==
    LET all == UNION {s.deps : s \in {x \in subprojects : x.ok}}
    IN [lockfile \in {d.lockfile : d \in all} |-> {d \in all : d.lockfile = lockfile}]

-----------------------------------------------------------------------------
(* Rules about dependencies *)

\* find_closest_subproject: one of those with the deepest root above the path.
ClosestSubprojects(path, candidates) ==
    LET above == {s \in candidates : s.root \in Parents(path) \cup {path}}
    IN {s \in above : \A other \in above : Len(other.root) <= Len(s.root)}

\* The subprojects that a rule is about: the resolved ones of its ecosystems.
ResolvedFor(rule, subprojects) ==
    {s \in subprojects : s.ok /\ s.ecosystem \in {d.ecosystem : d \in rule.dependsOn}}

\* The dependencies of a subproject that a rule is about.
VulnerableDeps(rule, subproject) ==
    {pair[2] : pair \in RangeMatches(rule.dependsOn, subproject.deps)}

\* parse_depends_on_yaml or dependencies_range_match_any raises.
CannotParse(rule) == \E d \in rule.dependsOn : \E s \in d.range : s.op = "invalid"

CannotMatch(rule, subproject) ==
    \E d \in rule.dependsOn, dep \in subproject.deps : IsRaised(d, dep)

CannotDecide(rule, subprojects) ==
    CannotParse(rule) \/ \E s \in ResolvedFor(rule, subprojects) : CannotMatch(rule, s)

\* filter_dependency_aware_rules: the patterns of a rule are run when what it is
\* about is there.
HasMatchingDependency(rule, subprojects) ==
    \E s \in ResolvedFor(rule, subprojects) : VulnerableDeps(rule, s) # {}

\* It stops at the first subproject that has it, and the others may raise.
DecidedEarly(rule, subprojects) ==
    ~CannotParse(rule) /\ \E s \in ResolvedFor(rule, subprojects) :
        VulnerableDeps(rule, s) # {} /\ ~CannotMatch(rule, s)

\* transitive_dep_is_also_direct.
AlsoDirect(dep, deps) ==
    \E d \in deps : d.package = dep.package /\ d.transitivity = "direct"

\* The dependencies that a match of the pattern makes reachable, given the
\* subproject it belongs to.
ReachableDeps(rule, subproject) ==
    {dep \in VulnerableDeps(rule, subproject) :
        ~(dep.transitivity = "transitive" /\ AlsoDirect(dep, subproject.deps))}

\* What already_reachable compares.
DependencyKey(dep) == <<dep.lockfile, dep.package, dep.version, dep.transitivity>>

\* Of the subprojects of one ecosystem that a match could belong to, the one
\* that it does: nearest, and of several the first in the order of a set.
Nearest(match, ecosystem, rule, subprojects) ==
    LET closest == ClosestSubprojects(match.path,
                       {s \in ResolvedFor(rule, subprojects) : s.ecosystem = ecosystem})
    IN IF closest = {} THEN {} ELSE {CHOOSE s \in closest : TRUE}

\* The subprojects that a match of a rule belongs to, one for each ecosystem.
NearestSubprojects(match, rule, subprojects) ==
    UNION {Nearest(match, d.ecosystem, rule, subprojects) : d \in rule.dependsOn}

\* generate_reachable_sca_findings: the match, once for each dependency that it
\* reaches; it keeps its code, its number and its fix.
GenerateReachable(rule, own, subprojects) ==
    UNION {{[m EXCEPT !.kind = "sca", !.reachable = TRUE, !.dependency = dep] :
               dep \in UNION {ReachableDeps(rule, s) :
                                 s \in NearestSubprojects(m, rule, subprojects)}} : m \in own}

\* A finding in the lockfile, at the line of the dependency.
UnreachableFinding(rule, dep) ==
    [rule |-> rule.id, path |-> dep.lockfile, line |-> 1, code |-> dep.package,
     formula |-> "none", severity |-> rule.severity, ignored |-> FALSE, fix |-> NoFix,
     kind |-> "sca", reachable |-> FALSE, dependency |-> dep,
     validation |-> NoValidation, priorName |-> NoName, index |-> 0, matchIndex |-> 0]

\* Mutant of GenerateUnreachable: a rule that is reachable anywhere is done.
GenerateUnreachableAlone(rule, reachable, subprojects) ==
    {UnreachableFinding(rule, dep) :
        dep \in IF reachable # {} THEN {}
                ELSE UNION {VulnerableDeps(rule, s) : s \in ResolvedFor(rule, subprojects)}}

\* generate_unreachable_sca_findings: for what is not reachable.
GenerateUnreachable(rule, reachable, subprojects) ==
    {UnreachableFinding(rule, dep) :
        dep \in {d \in UNION {VulnerableDeps(rule, s) : s \in ResolvedFor(rule, subprojects)} :
                    DependencyKey(d) \notin {DependencyKey(m.dependency) : m \in reachable}}}
=============================================================================
