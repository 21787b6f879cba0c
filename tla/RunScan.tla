------------------------------ MODULE RunScan ------------------------------
(***************************************************************************)
(* run_scan and run_rules of run_scan.py, that "scan" and "ci" call: the   *)
(* rules are loaded, the engine runs, and with a baseline commit it runs   *)
(* again, on the files with findings, in a working tree of that commit.    *)
(* A request holds the arguments of the call and what it finds in the      *)
(* world; the fields with a value for "head" and for "worktree" are about  *)
(* the current folder and the temporary working tree:                      *)
(*   config, rewrite, severities, excluded, partitions, strict             *)
(*   baseline, git, gitOutcomes   with --baseline-commit, and what the     *)
(*                commands of git may do meanwhile                         *)
(*   tm, ignore   the arguments of TargetManager, .semgrepignore           *)
(*   tree         the files             found   what the patterns match    *)
(*   engine, historical, asked, invoked, host, captured, ls                *)
(*   answers, dynamic, graph      for the resolution of dependencies       *)
(*   joins        the join rules, by id: [join, configs, results]          *)
(*   disableNosem, autofix, dryrun                                         *)
(***************************************************************************)
EXTENDS CoreProcess, ScanPlan, Subprojects, JoinRules, GitBaseline, TextOutput

CONSTANT MaxTimeouts    \* bound: files that time out in one run of the engine

VARIABLES
    stage,          \* where run_scan is
    request,        \* its arguments
    rules,          \* filtered_rules
    handler,        \* output_handler
    status,         \* baseline_handler.status, or NoStatus
    folder,         \* os.getcwd(): "head" or "worktree"
    worktree,       \* the commit of the temporary working tree, or NoCommit
    job,            \* the call of run_rules under way
    matches,        \* rule_matches_by_rule
    scanned,        \* output_extra.all_targets
    log,            \* target_manager.ignore_log
    timedOut,       \* [head, worktree]: the files of which a rule timed out
    fixed,          \* the findings whose fix was applied
    raised          \* how run_scan ends: [kind, code]

scanVars == <<stage, request, rules, handler, status, folder, worktree, job,
              matches, scanned, log, timedOut, fixed, raised>>

NoCommit == 0

NoJob == [rules |-> <<>>, sent |-> <<>>, plan |-> {}, subprojects |-> {}, executed |-> 0,
          dependencies |-> <<>>, told |-> <<>>]
NotRaised == [kind |-> "none", code |-> 0]
Error(code) == [kind |-> "error", code |-> code]
Exit(code) == [kind |-> "exit", code |-> code]
Crash == [kind |-> "crash", code |-> Fatal]

NoRequest == [captured |-> FALSE]

ScanInit ==
    /\ stage = "idle" /\ request = NoRequest
    /\ rules = <<>> /\ handler = NoHandler /\ status = NoStatus
    /\ folder = "head" /\ worktree = NoCommit
    /\ job = NoJob /\ matches = <<>> /\ scanned = {} /\ log = EmptyLog
    /\ timedOut = [head |-> {}, worktree |-> {}]
    /\ fixed = {} /\ raised = NotRaised

\* The call; its output handler is the caller's.
StartScan(asked, settings) ==
    /\ stage = "idle"
    /\ stage' = "config" /\ request' = asked
    /\ handler' = NewHandler(settings)
    /\ UNCHANGED <<rules, status, folder, worktree, job, matches, scanned, log,
                   timedOut, fixed, raised>>

Ends(how) == stage' = "ended" /\ raised' = how

-----------------------------------------------------------------------------
(* Rules, baseline and targets *)

\* --severity and --exclude-rule.
FilteredRules(all) ==
    Only(all, {rule \in ToSet(all) :
        /\ request.severities = {} \/ rule.severity \in request.severities
        /\ rule.id \notin request.excluded})

\* What stops the scan once the configs are read: without a pattern any real
\* error does, and with one only if --strict is given.
ConfigRefused(loaded) ==
    LET real == SelectRealErrors(loaded.errors) # <<>>
    IN IF request.config.pattern = <<>> THEN real \/ loaded.valid = <<>>
       ELSE real /\ request.strict

LoadRules ==
    /\ stage = "config"
    /\ LET asked  == GetConfig(request.config)
           loaded == ConfigOf(request.config)
           kept   == FilteredRules(GetRules(loaded.valid, request.rewrite))
       IN IF asked.raised
          THEN Ends(Error(asked.code)) /\ UNCHANGED <<rules, handler>>
          ELSE IF request.partitions # "none"
          THEN /\ Ends(Exit(IF request.partitions = "ok" THEN Ok ELSE Fatal))
               /\ UNCHANGED <<rules, handler>>
          ELSE /\ handler' = HandleSemgrepErrors(handler, loaded.errors)
               /\ rules' = kept
               /\ IF ConfigRefused(loaded) THEN Ends(Error(MissingConfig))
                  ELSE stage' = "baseline" /\ UNCHANGED raised
    /\ UNCHANGED <<request, status, folder, worktree, job, matches, scanned, log,
                   timedOut, fixed, core>>

\* The baseline handler is made before the targets are looked at.
InitBaseline ==
    /\ stage = "baseline"
    /\ IF request.baseline /\ BaselineRaises(request.git)
       THEN Ends(Error(Fatal)) /\ UNCHANGED status
       ELSE /\ stage' = "targets" /\ UNCHANGED raised
            /\ status' = IF request.baseline THEN StatusOf(request.git) ELSE NoStatus
    /\ UNCHANGED <<request, rules, handler, folder, worktree, job, matches, scanned,
                   log, timedOut, fixed, core>>

\* Mutant of TargetManagerOfHead: without the status of the baseline.
TargetManagerOfAll == [request.tm EXCEPT !.ignore = request.ignore["head"]]

\* The TargetManager of the head.
TargetManagerOfHead ==
    [request.tm EXCEPT !.status = status, !.ignore = request.ignore["head"]]

SelectTargets ==
    /\ stage = "targets"
    /\ IF \E path \in request.tm.targets : ~ValidTarget(request.tree["head"], path)
       THEN Ends(Error(Fatal))
       ELSE IF request.ls THEN Ends(Exit(Ok))
            ELSE stage' = "prepare" /\ UNCHANGED raised
    /\ UNCHANGED <<request, rules, handler, status, folder, worktree, job, matches,
                   scanned, log, timedOut, fixed, core>>

-----------------------------------------------------------------------------
(* run_rules *)

\* target_mode_config.
TargetMode ==
    CASE request.historical -> "historical"
      [] ~request.historical /\ request.baseline ->
           IF IsInterfile(request.engine) THEN "pro_diff" ELSE "diff"
      [] OTHER -> "whole"

ScanTargetsThere(paths) ==
    {p \in paths : p \in request.tree["worktree"].files \ request.tree["worktree"].links}

Renamed == IF status = NoStatus THEN <<>> ELSE status.renamed

PathsWithMatches == {m.path : m \in AllMatches(matches)}

\* The files to scan again: those with findings and the old names of the
\* renamed ones, less what the baseline does not have.
BaselineTargets == (PathsWithMatches \cup Range(Renamed)) \ status.added

\* The TargetManager of the baseline: without a baseline of its own, with the
\* .semgrepignore of the working tree.
TargetManagerOfBaseline ==
    [request.tm EXCEPT
        !.targets = IF TargetMode = "pro_diff" THEN @ ELSE ScanTargetsThere(BaselineTargets),
        !.status = NoStatus, !.rulePaths = TRUE, !.ignore = request.ignore["worktree"]]

CurrentManager == IF folder = "head" THEN TargetManagerOfHead ELSE TargetManagerOfBaseline

\* The manager plan_core_run is given: one for all the files when the engine
\* compares across files.
PlanManager ==
    IF TargetMode = "pro_diff" THEN [CurrentManager EXCEPT !.status = NoStatus]
    ELSE CurrentManager

\* The files whose number is shown: a comparison across files goes through the
\* whole project again, but shows those of the first scan that are still there.
StatusManager ==
    IF TargetMode # "pro_diff" THEN CurrentManager
    ELSE [CurrentManager EXCEPT !.targets =
             IF folder = "head" THEN GetAllFiles(request.tree["head"], CurrentManager, FALSE)
             ELSE ScanTargetsThere(AllTargets([tasks |-> job.plan]) \cup Range(Renamed))]

CurrentRules ==
    IF folder = "head" THEN rules
    ELSE Only(rules, {rule \in DOMAIN matches : matches[rule] # <<>>})

IsAware(rule) == RuleMode(rule) # "join" /\ DependsOn(rule) # {}

CurrentSubprojects ==
    LET sources == GetAllDependencySourceFiles(request.tree[folder], CurrentManager, "sca", TRUE)
    IN IF \A i \in DOMAIN CurrentRules : ~IsAware(CurrentRules[i]) THEN {}
       ELSE ResolveSubprojects(request.answers, sources, SetToSeq(sources),
                               request.dynamic, request.graph)

\* The rules the engine gets: those about dependencies when the project has some
\* of these.
SentRules(subprojects) ==
    LET all == ToSet(CurrentRules)
    IN Only(CurrentRules, {rule \in all : RuleMode(rule) # "join" /\ ~IsAware(rule)})
       \o Only(CurrentRules, {rule \in all : /\ IsAware(rule) /\ ShouldRunOnCore(rule)
                                            /\ HasMatchingDependency(rule, subprojects)})

\* An exception of run_rules: in the working tree the context is left first.
RulesRaise(how) ==
    /\ stage' = IF folder = "head" THEN "ended" ELSE "restore"
    /\ raised' = IF folder = "worktree" /\ how.kind # "exit" THEN Error(Fatal) ELSE how

ResolutionErrors(subprojects) ==
    [path \in UNION {s.errors : s \in subprojects} |-> DependencyResolutionError(path)]

\* With the subprojects and the rules that were made for it: what is told, and
\* the engine, or what stops the command before it.
RunRules(subprojects, sent, plans) ==
    LET errors == ResolutionErrors(subprojects)
        plan   == PlanCoreRun(request.tree[folder], PlanManager, sent, "code")
        stop   == BeforeTheEngine([request.asked EXCEPT
                      !.engine = request.engine,
                      !.roots = Cardinality(CurrentManager.targets)])
    IN /\ handler' = HandleSemgrepErrors(handler, SetToSeq(Range(errors)))
       /\ job' = [rules |-> CurrentRules, sent |-> sent, plan |-> plan.tasks,
                  subprojects |-> subprojects,
                  executed |-> IF folder = "head" THEN ExecutedRuleCount(plans)
                               ELSE job.executed,
                  dependencies |-> IF folder = "head" THEN DepsByLockfile(subprojects)
                                   ELSE job.dependencies,
                  told |-> PrintScanStatus(UxFlavor(request.invoked), plans,
                               GetAllFiles(request.tree[folder], CurrentManager, FALSE))]
       /\ log' = IF folder = "worktree" THEN log
                 ELSE FoldLeft(LAMBDA all, pair : MergeLogs(all,
                                  LogForLanguage(request.tree[folder], CurrentManager,
                                                 pair[1], pair[2], FALSE)),
                               log,
                               SetToSeq(UNION {RuleLanguages(sent[i])
                                                  \X {RuleProduct(sent[i])} :
                                                  i \in DOMAIN sent}))
       /\ IF stop.kind = "none"
          THEN /\ Invoke(ProgressTotal(UxFlavor(request.invoked), plan),
                         request.captured, request.host)
               /\ stage' = "engine" /\ UNCHANGED raised
          ELSE RulesRaise(stop) /\ UNCHANGED core

\* The rules of which filter_dependency_aware_rules may not decide.
Undecided(subprojects) ==
    {rule \in ToSet(CurrentRules) :
        IsAware(rule) /\ ShouldRunOnCore(rule) /\ CannotDecide(rule, subprojects)}

PrepareRules(subprojects) ==
    /\ \A rule \in Undecided(subprojects) : DecidedEarly(rule, subprojects)
    /\ RunRules(subprojects, SentRules(subprojects),
                ScanPlans(request.tree[folder], StatusManager, CurrentManager, CurrentRules,
                          subprojects))

Prepare ==
    /\ stage = "prepare" /\ PrepareRules(CurrentSubprojects)
    /\ UNCHANGED <<request, rules, status, folder, worktree, matches, scanned,
                   timedOut, fixed>>

\* The filter raises, before anything is told of but the errors of resolution.
PrepareFails ==
    /\ stage = "prepare" /\ Undecided(CurrentSubprojects) # {}
    /\ handler' = HandleSemgrepErrors(handler,
                      SetToSeq(Range(ResolutionErrors(CurrentSubprojects))))
    /\ RulesRaise(Error(Fatal))
    /\ UNCHANGED <<request, rules, status, folder, worktree, job, matches, scanned, log,
                   timedOut, fixed, core>>

\* What the engine finds: in the targets, with the rules that it got.
EngineMatches ==
    {m \in request.found[folder] :
        \E t \in job.plan, i \in DOMAIN job.sent :
            t.path = m.path /\ i \in t.nums /\ job.sent[i].id = m.rule}

TimeoutOf(path) ==
    CoreErrorToSemgrepError([type |-> "Timeout", level |-> "warn", path |-> path,
                             rule |-> NoRule])

\* The findings of a rule about dependencies: what its pattern matched is used to
\* say what is reachable.  Those in lockfiles have no index, but a matchIndex.
ScaMatches(rule, own) ==
    LET reachable == IF ShouldRunOnCore(rule)
                     THEN GenerateReachable(rule, own, job.subprojects) ELSE {}
        others    == SetToSeq(GenerateUnreachable(rule, reachable, job.subprojects))
    IN SetToSeq(reachable)
       \o [i \in DOMAIN others |->
              [others[i] EXCEPT !.matchIndex = Cardinality(SimilarBefore(others, i))]]

\* What run_join_rule gives for a rule; its inner scan finds nothing where the
\* request has no results for it.
JoinAnswer(rule) ==
    LET join == request.joins[rule.id]
    IN IF rule.id \in DOMAIN request.joins
       THEN RunJoinRule(join.join, join.configs, join.results[folder]) ELSE NothingJoined

JoinMatches(rule) ==
    RuleMatchesOf(SetToSeq({JsonToRuleMatch(request.joins[rule.id].join, m) :
                               m \in JoinAnswer(rule).found}))

\* What run_rules returns of an answer of the engine, a sequence.
MatchesOfAnswer(answer) ==
    LET found == CoreMatchesToRuleMatches(job.sent, answer)
        own(rule) == IF rule \in DOMAIN found THEN ToSet(found[rule]) ELSE {}
    IN [rule \in ToSet(job.sent) \cup {r \in ToSet(job.rules) : IsAware(r) \/ RuleMode(r) = "join"} |->
           CASE IsAware(rule) -> ScaMatches(rule, own(rule))
             [] RuleMode(rule) = "join" -> JoinMatches(rule)
             [] OTHER -> found[rule]]

JoinsRaise ==
    \E rule \in ToSet(job.rules) : RuleMode(rule) = "join" /\ JoinAnswer(rule).raised

\* generate_unreachable_sca_findings looks at all there is, and raises for what
\* the filter did not look at; what generate_reachable_sca_findings caught of it
\* is lost with the exception.
RangesRaise ==
    \E rule \in ToSet(job.rules) : IsAware(rule) /\ CannotDecide(rule, job.subprojects)

\* The engine failed, or what comes after it did: join rules, then dependencies.
TakeFailure ==
    /\ stage = "engine" /\ Returned
    /\ call # "result" \/ JoinsRaise \/ RangesRaise
    /\ RulesRaise(IF call = "result" /\ JoinsRaise THEN Crash ELSE Error(Fatal))
    /\ ResetCore
    /\ UNCHANGED <<request, rules, handler, status, folder, worktree, job, matches,
                   scanned, log, timedOut, fixed>>

\* The engine answered, but for the files of which a rule timed out; the order
\* of the answer is that in which its workers ended.
Answered ==
    /\ stage = "engine" /\ call = "result" /\ ~JoinsRaise /\ ~RangesRaise
    /\ ResetCore

LostFiles ==
    UNION {kSubset(n, AllTargets([tasks |-> job.plan])) : n \in 0..MaxTimeouts}

AnswersWithout(lost) == SetToSeqs({m \in EngineMatches : m.path \notin lost})

JoinErrors ==
    IF \E rule \in ToSet(job.rules) : RuleMode(rule) = "join" /\ JoinAnswer(rule).invalid
    THEN <<SemgrepErrorOf(Fatal)>> ELSE <<>>

\* Mutant of TimeoutErrors: those of the scan of the baseline are not told of.
TimeoutErrorsOfHead(lost) ==
    IF folder = "worktree" THEN <<>> ELSE SetToSeq({TimeoutOf(path) : path \in lost})

TimeoutErrors(lost) == SetToSeq({TimeoutOf(path) : path \in lost})

\* After the scan of the head; a finding of Supply Chain adds its lockfile to
\* what was scanned.
TakeHead ==
    /\ folder = "head" /\ Answered
    /\ \E lost \in LostFiles : \E answer \in AnswersWithout(lost) :
           /\ timedOut' = [timedOut EXCEPT !.head = lost]
           /\ matches' = MatchesOfAnswer(answer)
           /\ handler' = HandleSemgrepErrors(handler, JoinErrors \o TimeoutErrors(lost))
    /\ scanned' = AllTargets([tasks |-> job.plan])
                  \cup UNION {s.targets : s \in job.subprojects}
    /\ stage' = "compare"
    /\ UNCHANGED <<request, rules, status, folder, worktree, job, log, fixed, raised>>

-----------------------------------------------------------------------------
(* The baseline *)

\* A baseline is only looked at for findings, in files that it has.
ToCompare == status # NoStatus /\ PathsWithMatches # {} /\ BaselineTargets # {}

Comparing == stage = "compare" /\ ToCompare

SkipBaseline ==
    /\ stage = "compare" /\ ~ToCompare
    /\ stage' = "finish"
    /\ UNCHANGED <<request, rules, handler, status, folder, worktree, job, matches,
                   scanned, log, timedOut, fixed, raised, core>>

\* print_git_log is called outside of the try: a git that takes too long is not
\* a SemgrepError.
GitLogFails ==
    /\ Comparing
    /\ \E outcome \in request.gitOutcomes \cap {"log_fails", "log_times_out"} :
           Ends(IF outcome = "log_fails" THEN Error(Fatal) ELSE Crash)
    /\ UNCHANGED <<request, rules, handler, status, folder, worktree, job, matches,
                   scanned, log, timedOut, fixed, core>>

\* baseline_context: git makes the working tree, and the process goes there.
EnterBaseline ==
    /\ Comparing
    /\ folder' = "worktree" /\ worktree' = MergeBaseOf(request.git)
    /\ stage' = "prepare"
    /\ UNCHANGED <<request, rules, handler, status, job, matches, scanned, log,
                   timedOut, fixed, raised, core>>

\* The working tree cannot be made, so removing it fails too, or the folder is
\* not in the baseline, and what was made is removed.
EnterBaselineFails ==
    /\ Comparing
    /\ request.gitOutcomes \cap {"add_fails", "chdir_fails"} # {}
    /\ Ends(Error(Fatal))
    /\ UNCHANGED <<request, rules, handler, status, folder, worktree, job, matches,
                   scanned, log, timedOut, fixed, core>>

\* The errors of the scan of the baseline are told of after its findings were
\* taken away.
TakeBaseline ==
    /\ folder = "worktree" /\ Answered
    /\ \E lost \in LostFiles : \E answer \in AnswersWithout(lost) :
           /\ timedOut' = [timedOut EXCEPT !.worktree = lost]
           /\ matches' = RemoveMatchesInBaseline(matches, MatchesOfAnswer(answer), Renamed)
           /\ handler' = HandleSemgrepErrors(handler, JoinErrors \o TimeoutErrors(lost))
    /\ stage' = "restore"
    /\ UNCHANGED <<request, rules, status, folder, worktree, job, scanned, log, fixed, raised>>

\* Mutant of LeaveBaseline: no finally, an exception goes straight through.
LeaveBaselineWithoutFinally ==
    /\ stage = "restore"
    /\ IF raised.kind = "none"
       THEN folder' = "head" /\ worktree' = NoCommit /\ stage' = "finish"
       ELSE stage' = "ended" /\ UNCHANGED <<folder, worktree>>
    /\ UNCHANGED <<request, rules, handler, status, job, matches, scanned, log,
                   timedOut, fixed, raised, core>>

\* The finally of baseline_context, and what run_scan makes of an exception.
LeaveBaseline ==
    /\ stage = "restore"
    /\ folder' = "head"
    /\ \/ /\ worktree' = NoCommit
          /\ stage' = IF raised.kind = "none" THEN "finish" ELSE "ended"
          /\ UNCHANGED raised
       \/ /\ "remove_fails" \in request.gitOutcomes
          /\ Ends(Error(Fatal)) /\ UNCHANGED worktree
    /\ UNCHANGED <<request, rules, handler, status, job, matches, scanned, log,
                   timedOut, fixed, core>>

-----------------------------------------------------------------------------
(* The end *)

ScanKeepsIgnored == request.disableNosem \/ KeepIgnores(handler)

\* Mutant of FixesOf: the fixes of every finding of the engine.
FixesOfAll(kept) ==
    IF request.autofix /\ ~request.dryrun
    THEN {m \in AllMatches(matches) : m.fix # NoFix} ELSE {}

\* apply_fixes: the engine writes the files unless it is a dry run.
FixesOf(kept) ==
    IF request.autofix /\ ~request.dryrun
    THEN {m \in AllMatches(kept) : m.fix # NoFix} ELSE {}

Finish ==
    /\ stage = "finish"
    /\ matches' = FilterIgnoredMatches(matches, ScanKeepsIgnored)
    /\ fixed' = FixesOf(FilterIgnoredMatches(matches, ScanKeepsIgnored))
    /\ Ends(NotRaised)
    /\ UNCHANGED <<request, rules, handler, status, folder, worktree, job, scanned, log,
                   timedOut, core>>

Engine == CoreStep /\ UNCHANGED scanVars

ScanAdvance ==
    \/ LoadRules \/ InitBaseline \/ SelectTargets \/ Prepare
    \/ PrepareFails \/ TakeFailure \/ TakeHead
    \/ SkipBaseline \/ GitLogFails \/ EnterBaseline \/ EnterBaselineFails
    \/ TakeBaseline \/ LeaveBaseline \/ Finish

ScanStep == ScanAdvance \/ Engine
=============================================================================
