-------------------------------- MODULE Cli --------------------------------
(***************************************************************************)
(* The Python command line: one invocation of opengrep scan or opengrep    *)
(* ci, from cli.py to the exit of the process.  It composes the commands   *)
(* with run_scan, the process of the engine, git and the app.              *)
(***************************************************************************)
EXTENDS CiCommand

CONSTANT Invocations    \* what may be asked

AreFiles(files) == IsList(files) /\ \A i \in DOMAIN files : IsList(files[i].rules)

AreConfigs(configs) ==
    IsList(configs) /\ \A i \in DOMAIN configs : AreFiles(configs[i].files)

\* What the engine finds: finitely many findings, which have no number yet.
AreFindings(found) ==
    /\ IsFiniteSet(found)
    /\ \A m \in found :
          /\ {"rule", "path", "code", "severity", "ignored", "kind", "reachable", "dependency",
              "priorName", "index", "matchIndex"} \subseteq DOMAIN m
          /\ m.index = 0

\* The files of a project, by their paths.
ArePaths(files) == \A path \in files : IsList(path) /\ path # <<>> /\ path # NoFile

IsJoin(asked) ==
    /\ IsList(asked.join.on)
    /\ \A place \in {"head", "worktree"} :
          /\ IsFiniteSet(asked.results[place])
          /\ \A row \in asked.results[place] : {"path", "line", "vars"} \subseteq DOMAIN row

\* The codes that errors may have; one of level "error" is not Ok.
ErrorCodes == {Ok, Fatal, TargetParseFailure, RuleParseFailure, UnparseableYaml,
               MissingConfig, InvalidApiKey}
IsError(error) ==
    error.code \in ErrorCodes /\ (error.level = "error" => error.code # Ok)

\* A request has these fields, and a project finitely many files, with finitely
\* many dependencies and errors about them.
IsRequest(asked) ==
    /\ {"config", "tree", "answers", "dryrun", "found", "joins", "baseline", "tm"}
           \subseteq DOMAIN asked
    /\ {"targets", "status", "ignore", "rulePaths", "bypass", "unknown"} \subseteq DOMAIN asked.tm
    /\ {"configs", "text"} \subseteq DOMAIN asked.config
    /\ AreConfigs(asked.config.configs) /\ AreFiles(asked.config.text)
    /\ {"head", "worktree"} \subseteq DOMAIN asked.found
    /\ \A place \in {"head", "worktree"} :
          /\ IsFiniteSet(asked.tree[place].files) /\ ArePaths(asked.tree[place].files)
          /\ AreFindings(asked.found[place])
    /\ IsFiniteSet(DOMAIN asked.answers)
    /\ \A file \in DOMAIN asked.answers :
          IsFiniteSet(asked.answers[file].errors) /\ IsFiniteSet(asked.answers[file].deps)
    /\ \A id \in DOMAIN asked.joins : IsJoin(asked.joins[id])

\* An attempt at a request to the app is answered, refused, lost or does not reach
\* it; the end of a scan may have to wait.  A git checkout may fail.
IsCiInvocation(asked) ==
    /\ AreConfigs(asked.partialConfig) /\ AreFindings(asked.history)
    /\ asked.token => IsList(asked.response.rules.rules)
    /\ asked.app.results \subseteq {"ok", "refused", "lost", "unreachable"}
    /\ asked.app.complete \subseteq {"ok", "processing", "refused", "lost", "unreachable"}
    /\ asked.meta.checkout \subseteq {"ok", "fails", "raises"}
    /\ asked.meta.restore \subseteq {"ok", "fails"}

ASSUME CliAssumption ==
    \A asked \in Invocations :
        /\ "request" \in DOMAIN asked /\ IsRequest(asked.request)
        /\ {"strict", "errorOnFindings"} \subseteq DOMAIN asked.settings
        /\ ResolveCommand(asked.word) = "scan" =>
               IsList(asked.metacheck) /\ \A error \in ToSet(asked.metacheck) : IsError(error)
        /\ ResolveCommand(asked.word) = "ci" => IsCiInvocation(asked)

vars == <<commandVars, ciVars, scanVars, core>>

Init == CommandInit /\ CiInit /\ ScanInit /\ CoreInit

Call ==
    /\ step = "idle"
    /\ \E asked \in Invocations : (CallScan(asked) /\ UNCHANGED ciVars) \/ CallCi(asked)

RunScanStep == ScanStep /\ UNCHANGED <<commandVars, ciVars>>

CommandStep == ScanCommandStep /\ UNCHANGED ciVars

\* The process is gone, its atexit handlers have run.
Exited == step = "done" /\ restore # "registered" /\ UNCHANGED vars

Next == Call \/ RunScanStep \/ CommandStep \/ CiCommandStep \/ GiveUpSoon \/ Exited

\* The command is under way, and waits neither for the engine nor, once the app
\* has said often enough that it is not done, for the 30 minutes to be over.
Ready ==
    /\ step # "idle" /\ ~(step = "done" /\ restore # "registered")
    /\ stage \in {"engine", "metacheck"} => Returned
    /\ step = "complete" /\ ~final => tries < MaxComplete

Advance ==
    (ScanAdvance /\ UNCHANGED <<commandVars, ciVars>>) \/ CommandStep \/ CiCommandStep

\* The engine and the event loop do as CoreProcess says, the clock goes on, and
\* the commands are sequential code: weak fairness of Advance, which Ready
\* enables.
Fairness ==
    /\ CoreFairness
    /\ WF_vars(GiveUpSoon)
    /\ []<><<Advance>>_vars \/ []<>~Ready

Spec == Init /\ [][Next]_vars /\ Fairness

-----------------------------------------------------------------------------
(* Properties *)

\* The variables of the commands, of run_scan and of the engine are what they
\* may be; a scan the app knows of is in one of its states.
TypeOK ==
    /\ CoreTypeOK
    /\ step \in {"idle", "validate", "scan", "configure", "environment", "connect",
                 "started", "ci_scan", "ci_history", "failed", "results", "upload",
                 "complete", "verdict", "done"}
    /\ stage \in {"idle", "metacheck", "config", "baseline", "targets", "prepare",
                  "engine", "compare", "restore", "finish", "ended"}
    /\ folder \in {"head", "worktree"} /\ checkout \in {"own", "head"}
    /\ restore \in {"none", "registered", "done", "failed"}
    /\ app.state \in {"none", "open", "failed", "complete"}
    /\ Len(printed) <= 1
    /\ exit \in {NoExit, Findings} \cup ErrorCodes

-----------------------------------------------------------------------------
(* Of a scan with a baseline *)

\* run_scan returned.
Succeeded == stage = "ended" /\ raised = NotRaised

Alike(found, match) ==
    {m \in found : <<m.rule, m.path, m.code>> = <<match.rule, match.path, match.code>>}

InBaseline(match) ==
    Alike(request.found["worktree"],
          [match EXCEPT !.path = IF @ \in DOMAIN Renamed THEN Renamed[@] ELSE @])

\* Of the findings of a rule with one code in one file, there are as many left
\* as the baseline did not have in that file, by the name it had there; those
\* that a comment ignores may have been taken away too.  A file of the baseline
\* of which a rule timed out is no reference.
OnlyNewFindings ==
    Succeeded /\ status # NoStatus /\ timedOut.worktree = {} =>
        \A match \in {m \in request.found["head"] : m.path \in scanned \ timedOut.head} :
            LET all  == Alike(request.found["head"], match)
                left == Cardinality(Alike(AllMatches(matches), match))
                new  == Cardinality(all) - Cardinality(InBaseline(match))
            IN /\ left <= (IF new > 0 THEN new ELSE 0)
               /\ (\A m \in all : ~m.ignored) /\ new > 0 => left = new

\* The name that a file had in the baseline.
OldPath(path) == IF path \in DOMAIN Renamed THEN Renamed[path] ELSE path

InFile(found, path, code) == {m \in found : m.path = path /\ m.code = code}

\* When the baseline is subtracted, of the findings of a rule with one code in one
\* file as many are left as there are more of them than the engine found in the
\* baseline, in that file by its old name, however the two scans order and number
\* them.  Of rules with the same id it is the last that has the findings; those of
\* Supply Chain and of join rules are numbered otherwise, those of the previous scan
\* named otherwise.
BaselineIsSubtracted ==
    [][TakeBaseline =>
        \A rule \in {r \in DOMAIN matches : matches[r] # <<>> /\ IsInRuleTable(r, job.sent)} :
            LET old == {m \in EngineMatches : m.rule = rule.id /\ m.path \notin timedOut'.worktree}
            IN RuleMode(rule) # "join" /\ ~IsAware(rule)
               /\ (\A m \in ToSet(matches[rule]) \cup old : m.priorName = NoName) =>
                   \A m \in ToSet(matches[rule]) :
                       LET all == Cardinality(InFile(ToSet(matches[rule]), m.path, m.code))
                           had == Cardinality(InFile(old, OldPath(m.path), m.code))
                       IN Cardinality(InFile(ToSet(matches'[rule]), m.path, m.code)) =
                              IF all > had THEN all - had ELSE 0]_vars

\* A scan of the changed files tells of no other file, but for those named on the
\* command line and for lockfiles, where what no code reaches is told.
ChangedFilesOnly ==
    Succeeded /\ status # NoStatus /\ ~IsInterfile(request.engine) =>
        \A rule \in {r \in DOMAIN matches : RuleMode(r) # "join"} :
            \A m \in {x \in ToSet(matches[rule]) : IsAware(rule) => x.reachable} :
                m.path \in status.added \cup status.modified
                           \cup ExplicitFiles(request.tree["head"], request.tm)

\* However run_scan ends, the process is back where the user called it, and the
\* temporary working tree is gone unless git failed to remove it.
BackInTheWorkingTree ==
    stage = "ended" => folder = "head" /\ (worktree # NoCommit => raised.kind = "error")

-----------------------------------------------------------------------------
(* Of dependencies *)

\* The lockfiles that a dependency source holds, and what is a lockfile.
LockfilesOf(source) ==
    IF source.type = "multi" THEN {s.lockfile : s \in source.sources} ELSE {source.lockfile}

IsLockfile(file) ==
    \/ NameOf(file) = "gradle.lockfile" \/ IsRequirements(file)
    \/ \E i \in DOMAIN Matchers :
          Matchers[i].type = "exact" /\ Matchers[i].lockfile = NameOf(file)

\* However the matchers overlap, a lockfile of the project is in one subproject:
\* its dependencies are not told twice, nor left out.
LockfilesAreInOneSubproject ==
    stage = "compare" /\ job.subprojects # {} =>
        \A file \in GetAllDependencySourceFiles(request.tree[folder], CurrentManager, "sca", TRUE) :
            IsLockfile(file) =>
                Cardinality({s \in job.subprojects : file \in LockfilesOf(s.source)}) = 1

\* A file belongs to the deepest of the subprojects above it, of its ecosystem.
Belongs(path, subproject, all) ==
    LET above == {s \in all : s.ecosystem = subproject.ecosystem
                              /\ s.root \in Parents(path) \cup {path}}
    IN subproject \in above /\ \A s \in above : Len(s.root) <= Len(subproject.root)

\* A rule about a dependency that the project has makes a finding of it, in the
\* lockfile or else in code of a subproject that has this dependency, and not both.
VulnerableDependenciesAreTold ==
    stage = "compare" =>
        \A rule \in {r \in ToSet(job.rules) : IsAware(r)} :
            LET resolved == ResolvedFor(rule, job.subprojects)
            IN \A s \in resolved : \A dep \in VulnerableDeps(rule, s) :
                LET told == {m \in ToSet(matches[rule]) :
                                DependencyKey(m.dependency) = DependencyKey(dep)}
                IN (\E m \in told : m.path = dep.lockfile /\ ~m.reachable)
                      # \E m \in told : m.reachable /\ \E o \in resolved :
                            m.dependency \in o.deps /\ Belongs(m.path, o, resolved)

-----------------------------------------------------------------------------
(* Of what is told *)

\* A file is changed by a fix only for a finding that the user is shown.
FixesAreShown ==
    step = "done" /\ fixed # {} => printed # <<>> /\ fixed \subseteq printed[1].found

\* A file of which a rule timed out, in either of the two scans, is told of.
TimeoutsAreTold ==
    Succeeded /\ printed # <<>> =>
        timedOut.head \cup timedOut.worktree \subseteq
            {e.path : e \in {x \in printed[1].errors : x.type = "Timeout"}}

\* What is in force at line i of a text: the last header of that kind before it.
Header(section, i, kind) ==
    LET places == {k \in 1..i : kind \in DOMAIN section[k]}
    IN IF places = {} THEN <<>> ELSE section[Max(places)][kind]

\* The lines of a text that tell a finding.
FindingLines(text) ==
    {p \in UNION {{group} \X DOMAIN text[group] : group \in DOMAIN text} :
        "finding" \in DOMAIN text[p[1]][p[2]]}

IsUnderItsHeaders(section, i) ==
    /\ Header(section, i, "file") = section[i].finding.path
    /\ section[i].finding.rule \notin Nameless =>
           /\ Header(section, i, "rule") = section[i].finding.rule
           /\ Max({k \in 1..i : "rule" \in DOMAIN section[k]})
                  > Max({k \in 1..i : "file" \in DOMAIN section[k]})

RulesOf(match) == {rule \in DOMAIN matches : match \in ToSet(matches[rule])}

\* Secrets of a generic rule are counted, not shown.
OnlyCounted(match) == match.kind = "secrets" /\ \E rule \in RulesOf(match) : rule.metadata.generic

\* The text has every other finding, once if it is of one rule (rules with the same
\* id may put it in two sections), under the name of its file and, below it,
\* of its rule if that has a name (the rule of -e has none).
TextIsComplete ==
    printed # <<>> /\ HasTextOutput(handler) =>
        LET text == printed[1].text
        IN /\ \A match \in {m \in printed[1].found : ~OnlyCounted(m)} :
                  Cardinality({p \in FindingLines(text) : text[p[1]][p[2]].finding = match})
                      \in 1..Cardinality(RulesOf(match))
           /\ \A p \in FindingLines(text) : IsUnderItsHeaders(text[p[1]], p[2])

-----------------------------------------------------------------------------
(* Of the app and the exit code *)

\* Where the findings are that a comment ignores, or those that none does.
Places(how) ==
    {<<m.path, m.line, m.rule>> : m \in {x \in AllMatches(matches) : x.ignored = how}}

ToldPlaces(list) ==
    {<<list[i].path, list[i].line, list[i].check_id>> : i \in DOMAIN list}

\* Once the app was told that a scan is complete it has every finding of the
\* scan, those that a comment ignores apart, and the exit code it was told is
\* that of a build with blocking findings exactly when the user was shown some.
AppHasTheFindings ==
    app.state = "complete" =>
        /\ ToldPlaces(app.findings) = Places(FALSE) /\ ToldPlaces(app.ignores) = Places(TRUE)
        /\ printed # <<>> =>
               (app.code = Findings <=>
                   \E rule \in {r \in DOMAIN matches : ~IsCai(r) /\ ~FromTransientScan(r)} :
                       \E m \in ToSet(matches[rule]) \cap printed[1].found : IsBlocking(m, rule))

\* A scan is settled once: the app is not told that one it knows as failed is
\* complete, nor the reverse.  It then gets nothing more of this scan but the same
\* request again, when its answer did not arrive, and not more often than the
\* session sends one.
ScanIsSettledOnce ==
    [][app.state \in {"failed", "complete"} =>
        \/ app' = app
        \/ /\ attempts > 0 /\ app' = [app EXCEPT !.taken = @ + 1]
           /\ app'.taken <= Attempts]_vars

\* A blocking finding fails the build unless the event is audited.  With
\* --suppress-errors, the default, it does not when the command ends before its
\* verdict: output() raised for an error, or a request to the app failed.
BlockingFindingsFail ==
    step = "done" /\ exit = Ok /\ invocation.word = "ci" /\ printed # <<>> =>
        \/ BlockingMatches = {} \/ invocation.meta.audit
        \/ suppress /\ OutputRaises(handler, AllMatches(ShownMatches))
        \/ suppress /\ ~DryRun
           /\ (invocation.app.results \cup invocation.app.complete)
                  \cap {"refused", "lost", "unreachable"} # {}

\* The exit code of findings is for findings that no comment ignores, for a
\* failing test, or a word of the app.  opengrep ci with --disable-nosem or with a
\* SARIF output takes the ignored ones too.
FindingsCodeIsForFindings ==
    step = "done" /\ exit = Findings =>
        LET found == IF invocation.word = "ci" THEN AllMatches(ShownMatches)
                     ELSE AllMatches(matches)
        IN \/ \E m \in found :
                 ~m.ignored \/ (invocation.word = "ci" /\ CiKeepsIgnored)
           \/ invocation.tests # <<>>
           \/ (app.state = "complete" \/ final) /\ response.blocks

\* Every command ends, its atexit handler too: the app is not asked for ever whether
\* it is done.  The commit of the user is then checked out again, unless a git
\* checkout failed.
CommandEnds ==
    step # "idle" ~>
        /\ step = "done" /\ restore # "registered"
        /\ restore # "failed" => checkout = "own"

-----------------------------------------------------------------------------
(* What a comment of the code says, checked by a run that expects a violation *)

\* ci.py: "For account admins to force suppressing errors.  This overrides the
\* CLI flag!"  A build of an account with always_suppress_errors succeeds, or
\* fails for findings.  The answer of the app is not there when it is asked.
AlwaysSuppressErrorsHonoured ==
    step = "done" /\ response # NoResponse /\ response.alwaysSuppress =>
        exit \in {Ok, Findings}
=============================================================================
