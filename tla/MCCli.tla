------------------------------- MODULE MCCli -------------------------------
(* Some invocations of opengrep on a small project. *)
EXTENDS Cli

-----------------------------------------------------------------------------
(* The project *)

Old == <<"old.py">>
New == <<"new.py">>
Main == <<"main.py">>
InTest == <<"test", "t.py">>
Lock == <<"go.mod">>
SubLock == <<"sub", "go.mod">>
Requirements == <<"requirements.txt">>
Dev == <<"requirements", "dev.txt">>
Inner == <<"sub", "requirements.txt">>
Pom == <<"pom.xml">>
Poms == <<"maven_dep_tree.txt">>
Build == <<"app", "build.gradle">>

\* The order of the paths, then of the ids.
Names == <<<<"-">>, Build, Lock, Main, Poms, New, Old, Pom, Dev, Requirements, SubLock, Inner, InTest, <<"dep">>, <<"join">>, <<"rule">>, <<"vuln">>>>
MCNameless == {<<"-">>, <<"">>}
MCRank(x) == CHOOSE i \in DOMAIN Names : Names[i] = x

AllNames == {"old.py", "new.py", "main.py", "test", "t.py", "go.mod", "sub", ".git",
             "requirements.txt", "requirements", "dev.txt", "pom.xml", "maven_dep_tree.txt",
             "app", "build.gradle", ".semgrep", ".semgrep_logs", "tests", "*_test.go", ".__check__"}
MCMatching == [n \in AllNames |-> IF n = "*_test.go" THEN {} ELSE {n}]
MCLanguagesOf ==
    [f \in {Old, New, Main, InTest, Lock, SubLock, Requirements, Dev, Inner, Pom, Poms, Build} |->
        IF f \in {Old, New, Main, InTest} THEN {"python"} ELSE {}]

MCLockfiles == {f \in DOMAIN MCLanguagesOf : IsDependencySource(f)}
MCInFor == [n \in {"requirements.txt", "dev.txt"} |->
               IF n = "dev.txt" THEN "dev.in" ELSE "requirements.in"]
MCStemOf == [n \in {"rule.yaml", "rule.py", "other.py"} |->
                IF n = "other.py" THEN "other" ELSE "rule"]
MCFinalOf == [n \in {"rule.yaml", "rule.py", "other.py"} |->
                 IF n = "rule.yaml" THEN "yaml" ELSE "py"]
MCSuffixOf == [n \in {"rule.yaml", "rule.py", "other.py"} |->
                  IF n = "rule.yaml" THEN "config" ELSE "other"]

Tree(files) == [files |-> files, links |-> {}, repo |-> TRUE, listed |-> files]

NoIgnores == [p \in Products |-> {}]

Manager(targets) ==
    [targets |-> targets, git |-> TRUE, status |-> NoStatus, includes |-> {},
     excludes |-> [p \in Products |-> {}], ignore |-> NoIgnores, rulePaths |-> TRUE,
     unknown |-> FALSE, bypass |-> TRUE]

-----------------------------------------------------------------------------
(* Rules and findings *)

Meta == [actions |-> {}, scaKind |-> "none", stateActions |-> <<>>, generic |-> FALSE, product |-> "code",
         src |-> "none", origin |-> "custom"]

Rule == [id |-> <<"rule">>, content |-> "c1", metadata |-> Meta, languages |-> {"python"},
         engine |-> "generic", minVersion |-> 0, maxVersion |-> 9, join |-> FALSE,
         valid |-> TRUE, patterns |-> TRUE, dependsOn |-> {}, includes |-> {},
         excludes |-> {}, severity |-> "ERROR"]

Blocking == [Rule EXCEPT !.metadata.actions = {"block"}]

Release(numbers) == [core |-> numbers, kind |-> "release", ids |-> <<>>, time |-> 0, hash |-> 0,
                  raw |-> 0, dashes |-> 0]

Vulnerable == [Rule EXCEPT !.id = <<"vuln">>, !.content = "c2",
    !.metadata = [@ EXCEPT !.scaKind = "reachability", !.actions = {"block"}],
    !.dependsOn = {[ecosystem |-> "gomod", package |-> "p",
                    range |-> {[op |-> "<", version |-> Release(<<2, 0, 0>>)]}]}]

Joined == [Rule EXCEPT !.id = <<"join">>, !.content = "c3", !.join = TRUE,
                       !.languages = {"python"}]

At(path, line) ==
    [rule |-> <<"rule">>, path |-> path, line |-> line, code |-> "x", formula |-> "f",
     severity |-> NoSeverity, ignored |-> FALSE, fix |-> NoFix, kind |-> "code",
     reachable |-> FALSE, dependency |-> NotADependency, validation |-> NoValidation,
     priorName |-> NoName, index |-> 0, matchIndex |-> 0]

-----------------------------------------------------------------------------
(* Requests *)

File(content) == [folder |-> <<>>, name |-> "rules.yml", host |-> "other", syntax |-> "yaml",
                schema |-> "ok", mapping |-> TRUE, hasRules |-> TRUE, missed |-> 0,
                rules |-> content]

Local(files) == [kind |-> "local", products |-> {}, answers |-> <<>>, files |-> files,
                 token |-> FALSE, repoName |-> TRUE]

ConfigRequest(configs) ==
    [pattern |-> <<>>, lang |-> "none", replacement |-> FALSE, text |-> <<>>,
     configs |-> configs, forceSchema |-> FALSE]

NoGit == [repo |-> TRUE, commit |-> TRUE, isMergeBase |-> FALSE, mergeBases |-> 1,
          direct |-> <<>>, sinceMergeBase |-> <<>>, head |-> 2, base |-> 1, ancestor |-> 1]

Host == [soft |-> 8000000, hard |-> -1, accepted |-> {1000000000, 8000000}]

Request ==
    [config |-> ConfigRequest(<<Local(<<File(<<Rule>>)>>)>>), rewrite |-> FALSE,
     severities |-> {}, excluded |-> {}, partitions |-> "none", strict |-> FALSE,
     baseline |-> FALSE, git |-> NoGit, gitOutcomes |-> {},
     tm |-> Manager({<<>>}), ignore |-> [f \in {"head", "worktree"} |-> NoIgnores],
     tree |-> [f \in {"head", "worktree"} |->
                  IF f = "head" THEN Tree({Main, New, InTest}) ELSE Tree({Main, Old, InTest})],
     found |-> [f \in {"head", "worktree"} |->
                  IF f = "head" THEN {At(Main, 1)} ELSE {}],
     engine |-> "none", historical |-> FALSE,
     asked |-> [binary |-> TRUE, secrets |-> FALSE, engine |-> "OSS", token |-> FALSE,
                roots |-> 1, dump |-> FALSE],
     invoked |-> [newUx |-> TRUE, pattern |-> FALSE, command |-> "scan",
                  configs |-> {"rules.yml"}],
     host |-> Host, captured |-> FALSE, ls |-> FALSE, answers |-> <<>>, dynamic |-> FALSE,
     graph |-> FALSE, joins |-> <<>>, disableNosem |-> FALSE, autofix |-> FALSE,
     dryrun |-> FALSE]

Settings == [outputs |-> <<>>, format |-> "text", destination |-> "stdout", slow |-> {},
             strict |-> FALSE, errorOnFindings |-> TRUE, verbose |-> FALSE]

Scan == [word |-> "scan", settings |-> Settings, request |-> Request, version |-> FALSE,
         dumpEngine |-> FALSE, secrets |-> FALSE, oss |-> FALSE, tests |-> <<>>,
         validate |-> FALSE, metacheck |-> <<>>]

Finds(new, old) ==
    [f \in {"head", "worktree"} |-> IF f = "head" THEN new ELSE old]

WithRules(asked, content) ==
    [asked EXCEPT !.request.config.configs = <<Local(<<File(content)>>)>>]

\* Fixes, and findings that a comment ignores.
Fixing ==
    [Scan EXCEPT
        !.request.autofix = TRUE, !.request.captured = TRUE,
        !.request.found = Finds({[At(Main, 1) EXCEPT !.fix = "fix"],
                                 [At(Main, 2) EXCEPT !.fix = "fix", !.ignored = TRUE]}, {})]

-----------------------------------------------------------------------------
(* With a baseline: old.py became new.py, where one more of the same finding *)
(* appeared; that of main.py was there before.                               *)

Entry(code, name, new) ==
    [code |-> code, name |-> name, new |-> new, link |-> FALSE, folder |-> FALSE]

Diff ==
    [Scan EXCEPT
        !.request.baseline = TRUE,
        !.request.git.sinceMergeBase = <<Entry("R", Old, New), Entry("M", Main, Main)>>,
        !.request.gitOutcomes = {"log_fails", "log_times_out", "add_fails", "chdir_fails",
                                 "remove_fails"},
        !.request.found = Finds({At(New, 1), At(New, 2), [At(Main, 1) EXCEPT !.fix = "fix"]},
                                {At(Old, 1), At(Main, 2)}),
        !.request.autofix = TRUE]

\* The engine that compares across files is given all of them.
DiffInterfile ==
    [Diff EXCEPT !.request.engine = "PRO_INTERFILE", !.request.asked.token = TRUE,
                 !.request.gitOutcomes = {}]

\* Several merge bases, an ignored finding, and a working tree where everything
\* is ignored.
DiffAgain ==
    [Diff EXCEPT
        !.request.git.mergeBases = 2, !.request.git.direct = <<Entry("A", New, New)>>,
        !.request.gitOutcomes = {},
        !.request.found = Finds({At(New, 1), [At(New, 2) EXCEPT !.ignored = TRUE],
                                 At(InTest, 1)}, {})]

BadGit ==
    {[Diff EXCEPT !.request.git.repo = FALSE], [Diff EXCEPT !.request.git.mergeBases = 0],
     [Diff EXCEPT !.request.git.commit = FALSE, !.settings.strict = TRUE]}

-----------------------------------------------------------------------------
(* Dependencies: a lockfile at the root and one below it *)

Dep(lockfile, version, how) ==
    [package |-> "p", version |-> version, ecosystem |-> "gomod", transitivity |-> how,
     lockfile |-> lockfile]

Answer(deps) == [ok |-> TRUE, ecosystem |-> "gomod", deps |-> deps, errors |-> {}]

SupplyChain ==
    [WithRules(Scan, <<Vulnerable>>) EXCEPT
        !.request.tree = [f \in {"head", "worktree"} |-> Tree({Main, Lock, SubLock})],
        !.request.answers = (Lock :> Answer({Dep(Lock, Release(<<1, 0, 0>>), "direct")}))
            @@ (SubLock :> [Answer({Dep(SubLock, Release(<<1, 5, 0>>), "transitive")})
                               EXCEPT !.errors = {SubLock}]),
        !.request.found = Finds({[At(Main, 1) EXCEPT !.rule = <<"vuln">>]}, {})]

NothingVulnerable ==
    [SupplyChain EXCEPT
        !.request.answers = (Lock :> Answer({})) @@ (SubLock :> Answer({}))]

\* A version of Go that does not parse, in a subproject that is looked at before
\* or after the other, or in the only one; and a range that is none.
NotGo == [Release(<<1, 0, 0>>) EXCEPT !.kind = "raw", !.dashes = 2]

Undecidable ==
    {[SupplyChain EXCEPT !.request.answers[SubLock].deps = {Dep(SubLock, NotGo, "direct")}],
     [NothingVulnerable EXCEPT !.request.answers[SubLock].deps = {Dep(SubLock, NotGo, "direct")}],
     WithRules(SupplyChain, <<[Vulnerable EXCEPT !.dependsOn =
         {[ecosystem |-> "gomod", package |-> "p",
           range |-> {[op |-> "invalid", version |-> Release(<<0>>)]}]}]>>)}

\* Two requirements files make one subproject, a manifest that goes with a
\* lockfile is no subproject of its own, one without a lockfile is unresolved.
ManySources ==
    LET early == [Release(<<1, 0>>) EXCEPT !.kind = "pre", !.ids = <<[word |-> 1]>>]
        pypi  == [Dep(Dev, early, "direct") EXCEPT !.ecosystem = "pypi"]
        maven == [Dep(Poms, Release(<<1, 0>>), "transitive") EXCEPT !.ecosystem = "maven"]
        wanted(ecosystem) ==
            [ecosystem |-> ecosystem, package |-> "p",
             range |-> {[op |-> "<=", version |-> Release(<<1>>)]}]
        rule == [Vulnerable EXCEPT !.dependsOn = {wanted("pypi"), wanted("maven")}]
    IN [WithRules(SupplyChain, <<rule>>) EXCEPT
           !.request.tree = [f \in {"head", "worktree"} |->
               Tree({Main, Requirements, Dev, Inner, Pom, Poms, Build})],
           !.request.answers =
               (Requirements :> [Answer({}) EXCEPT !.ecosystem = "pypi"])
               @@ (Inner :> [Answer({}) EXCEPT !.ecosystem = "pypi"])
               @@ (Dev :> [Answer({pypi}) EXCEPT !.ecosystem = "pypi"])
               @@ (Poms :> [Answer({maven}) EXCEPT !.ecosystem = "maven"])]

-----------------------------------------------------------------------------
(* A join rule *)

Row(rule, path, content) ==
    [rule |-> rule, path |-> path, line |-> 1, vars |-> [v \in {"X"} |-> content]]

Join(configA, operator, valid) ==
    [join |-> [id |-> <<"join">>, severity |-> "ERROR", inline |-> {},
               refs |-> <<[rule |-> "a.yml", renames |-> <<>>, alias |-> "a"],
                          [rule |-> "b.yml", renames |-> <<>>, alias |-> "b"]>>,
               on |-> <<[a |-> "a", propertyA |-> "X", operator |-> operator,
                         b |-> "b", propertyB |-> "X", valid |-> valid]>>],
     configs |-> [c \in {"a.yml", "b.yml"} |-> IF c = "a.yml" THEN configA ELSE <<"rb">>],
     results |-> Finds({Row("ra", Main, <<1>>), Row("rb", New, <<1>>),
                        Row("rb", Main, <<2>>)}, {})]

Joining(join) ==
    [WithRules(Scan, <<Joined>>) EXCEPT !.request.joins = (<<"join">> :> join),
                                        !.request.found = Finds({}, {})]

Joins == {Joining(Join(<<"ra">>, "==", TRUE)), Joining(Join(<<"ra">>, ">", TRUE)),
          Joining(Join(<<>>, "==", TRUE)), Joining(Join(<<"ra">>, "==", FALSE))}

-----------------------------------------------------------------------------
(* Scans that end early *)

TestOf(annotated, results) ==
    [targets |-> <<<<"rules">>>>, configs |-> <<>>,
     files |-> {<<"rules", "rule.yaml">>, <<"rules", "rule.py">>, <<"rules", "other.py">>},
     lines |-> annotated, fixes |-> {}, differ |-> {}, strict |-> FALSE,
     answers |-> [c \in {<<"rules", "rule.yaml">>} |->
                     [raised |-> FALSE, errors |-> FALSE, results |-> results]]]

Annotation(kind, line) ==
    [file |-> <<"rules", "rule.py">>, line |-> line, kinds |-> {kind}, ids |-> {"rule"}]

Result(line) == [path |-> <<"rules", "rule.py">>, rule |-> "rule", line |-> line]

Tests ==
    {[Scan EXCEPT !.tests = <<test>>] :
        test \in {TestOf({Annotation("ruleid", 1)}, {Result(1)}),
                  TestOf({Annotation("ruleid", 1)}, {Result(2)}),
                  TestOf({Annotation("ok", 1)}, {[Result(1) EXCEPT !.rule = "other"]}),
                  TestOf({Annotation("ruleid", 1), Annotation("todook", 2)},
                         {Result(1), Result(2)})}}

Pattern == [Scan EXCEPT !.request.invoked.pattern = TRUE,
         !.request.config = [ConfigRequest(<<>>) EXCEPT !.pattern = <<Rule>>]]

Absent == [kind |-> "local", products |-> {}, answers |-> <<>>, files |-> <<>>,
           token |-> FALSE, repoName |-> TRUE]

Remote(answer) ==
    [Local(<<File(<<Rule>>)>>) EXCEPT !.kind = "registry",
                                      !.answers = [a \in {"registry"} |-> answer]]

Early ==
    {[Scan EXCEPT !.version = TRUE], [Scan EXCEPT !.secrets = TRUE, !.oss = TRUE],
     [Scan EXCEPT !.dumpEngine = TRUE], Pattern,
     [Scan EXCEPT !.tests = <<TestOf({}, {})>>, !.settings.outputs = "out" :> "json"],
     [Scan EXCEPT !.settings.outputs = "stdout" :> "json"],
     [Scan EXCEPT !.request.config.configs = <<Absent>>],
     [Scan EXCEPT !.request.config.configs = <<Remote("unreachable")>>],
     [Scan EXCEPT !.request.partitions = "ok"], [Scan EXCEPT !.request.ls = TRUE],
     [Scan EXCEPT !.request.tm.targets = {<<"absent">>}],
     [Scan EXCEPT !.request.asked.binary = FALSE],
     [Scan EXCEPT !.request.engine = "PRO_INTRAFILE"],
     [Scan EXCEPT !.request.config.configs =
         <<Local(<<[File(<<Rule>>) EXCEPT !.syntax = "broken"]>>)>>]}

\* opengrep scan -e <pattern> --lang python: one rule, whose id is "-".
PatternScan ==
    [Pattern EXCEPT
        !.request.config.lang = "python",
        !.request.config.pattern = <<[Rule EXCEPT !.id = <<"-">>]>>,
        !.request.found = Finds({[At(Main, 1) EXCEPT !.rule = <<"-">>],
                                 [At(New, 1) EXCEPT !.rule = <<"-">>]}, {})]

\* One file of several is not valid.
HalfConfig == [Scan EXCEPT !.request.config.configs = <<Local(<<File(<<Rule>>)>>),
             Local(<<[File(<<>>) EXCEPT !.mapping = FALSE]>>)>>]

Engineless ==
    {[Pattern EXCEPT !.request.config.lang = "python", !.validate = TRUE],
     [Scan EXCEPT !.request.config.configs = <<>>, !.validate = TRUE]}

Validating ==
    {[Scan EXCEPT !.validate = TRUE, !.metacheck = errors] :
        errors \in {<<>>, <<SemgrepErrorOf(RuleParseFailure)>>}}

-----------------------------------------------------------------------------
(* opengrep ci *)

Response ==
    [products |-> {"code", "secrets"}, noRules |-> FALSE, rules |-> File(<<Blocking>>),
     autofix |-> TRUE, alwaysSuppress |-> FALSE, skippedIds |-> {}, skippedMatchIds |-> {},
     patterns |-> <<>>, historical |-> FALSE, deep |-> FALSE, slowRollout |-> FALSE,
     dependencyQuery |-> TRUE, blocks |-> FALSE]

Ci ==
    [[Scan EXCEPT !.word = "ci", !.request.config.configs = <<>>,
                  !.request.asked.token = TRUE,
                  !.settings.errorOnFindings = FALSE] EXCEPT
        !.request.found = Finds({At(Main, 1), [At(Main, 2) EXCEPT !.code = "y"],
                                 [At(New, 1) EXCEPT !.ignored = TRUE]}, {})]
    @@ [projectFiles |-> <<>> :> {"tag"}, cwd |-> <<"sub">>,
        suppressErrors |-> FALSE, dryRun |-> FALSE, enableNosem |-> TRUE,
        internal |-> FALSE, subdir |-> "none", partialConfig |-> <<>>,
        partialOutput |-> FALSE, partitionsDir |-> FALSE, historical |-> FALSE,
        token |-> TRUE, products |-> {"sast"}, excludes |-> {},
        meta |-> [mergeBase |-> FALSE, pullRequest |-> FALSE, fails |-> FALSE,
                  audit |-> FALSE, checkout |-> {"ok"}, restore |-> {"ok"}],
        response |-> Response, history |-> {},
        app |-> [start |-> {"ok"}, failure |-> {"ok"}, results |-> {"ok"},
                 complete |-> {"ok"}]]

AllOutcomes == [start |-> {"ok", "unauthorized", "refused", "lost", "unreachable"},
                failure |-> {"ok", "refused", "lost", "unreachable"},
                results |-> {"ok", "refused", "lost", "unreachable"},
                complete |-> {"ok", "processing", "refused", "lost", "unreachable"}]

FirstId == CiUniqueKey(At(Main, 1))

CiUploads ==
    {[Ci EXCEPT !.app = AllOutcomes], [Ci EXCEPT !.app.complete = {"processing"}],
     [Ci EXCEPT !.app = AllOutcomes, !.suppressErrors = TRUE, !.response.skippedIds = {FirstId},
                !.response.alwaysSuppress = TRUE],
     [Ci EXCEPT !.meta.audit = TRUE, !.meta.pullRequest = TRUE],
     [Ci EXCEPT !.response.rules = File(<<Rule>>), !.response.blocks = TRUE]}

CiFailures ==
    {[Ci EXCEPT !.meta.mergeBase = TRUE, !.meta.pullRequest = TRUE,
                !.request.git.repo = FALSE, !.app = AllOutcomes,
                !.response.alwaysSuppress = TRUE],
     [Ci EXCEPT !.response.products = {}], [Ci EXCEPT !.request.asked.binary = FALSE]}

CiDiff ==
    [Ci EXCEPT !.meta.mergeBase = TRUE, !.suppressErrors = TRUE,
               !.request.git.direct = Diff.request.git.sinceMergeBase,
               !.request.found = Diff.request.found]

CiHistory ==
    [Ci EXCEPT !.response.historical = TRUE,
               !.history = {[At(Main, 9) EXCEPT !.code = "z"]}]

CiEarly ==
    {[Ci EXCEPT !.subdir = "outside"], [Ci EXCEPT !.token = FALSE],
     [Ci EXCEPT !.partialConfig = <<Absent>>], [Ci EXCEPT !.partitionsDir = TRUE],
     [Ci EXCEPT !.request.config.configs = <<Local(<<File(<<Rule>>)>>)>>],
     [Ci EXCEPT !.meta.fails = TRUE, !.suppressErrors = TRUE],
     [Ci EXCEPT !.response.noRules = TRUE, !.meta.pullRequest = TRUE,
                !.meta.checkout = {"ok", "fails", "raises"}, !.meta.restore = {"ok", "fails"}],
     [Ci EXCEPT !.historical = TRUE,
                                                     !.response.products = {"code"}],
     [Ci EXCEPT !.request.partitions = "ok", !.partitionsDir = TRUE,
                !.response.products = {"code"}]}

CiOffline ==
    [Ci EXCEPT !.token = FALSE, !.internal = TRUE,
               !.request.config.configs = <<Local(<<File(<<Blocking>>)>>)>>]

CiPartial ==
    [Ci EXCEPT !.partialOutput = TRUE,
               !.partialConfig = <<Local(<<File(<<Rule>>)>>)>>]

\* With a SARIF output, a finding that a comment ignores is kept: for ci it is a
\* finding, for scan it is not.
Sarif ==
    [Scan EXCEPT !.settings.outputs = "out" :> "sarif",
                 !.request.found = Finds({[At(Main, 1) EXCEPT !.ignored = TRUE]}, {})]

CiSarif ==
    [Ci EXCEPT !.settings.outputs = "out" :> "sarif",
               !.request.found = Finds({[At(Main, 1) EXCEPT !.ignored = TRUE]}, {})]

MCInvocations ==
    {Fixing, Diff, DiffInterfile, DiffAgain, SupplyChain, NothingVulnerable, ManySources, PatternScan, HalfConfig, CiDiff,
     CiHistory, CiOffline, CiPartial, Sarif, CiSarif}
    \cup Undecidable \cup BadGit \cup Joins \cup Tests \cup Early \cup Engineless \cup Validating
    \cup CiUploads \cup CiFailures \cup CiEarly
=============================================================================
