----------------------------- MODULE CiCommand -----------------------------
(***************************************************************************)
(* opengrep ci: commands/ci.py, and app/scans.py with which it talks to    *)
(* the app.  An invocation has what that of scan has, word being "ci",     *)
(* and                                                                     *)
(*   suppressErrors, dryRun, enableNosem, internal   its flags             *)
(*   subdir       "none", "inside" or "outside" of the current folder      *)
(*   partialConfig (a sequence of at most one config), partialOutput,      *)
(*   partitionsDir, historical                                             *)
(*   token        is the user logged in                                    *)
(*   projectFiles, cwd   the tags of the project files, by folder, and     *)
(*                where the command is called                              *)
(*   products     those asked for           excludes   --exclude           *)
(*   meta         [mergeBase, pullRequest, fails, audit]: the GitMeta, and *)
(*                [checkout, restore]: how git checkout may end            *)
(*   response     what the app answers to the start of a scan              *)
(*   app          how an attempt at a request may end, a set for each:     *)
(*                start, failure, results, complete                        *)
(*   history      what the patterns match in the history of the project    *)
(* With --x-dump-rule-partitions, request.partitions is not "none".        *)
(***************************************************************************)
EXTENDS ScanCommand

CONSTANTS
    NoResponse,
    CaiRules,       \* the ids that contain r2c-internal-cai
    IgnoreFile,     \* TRUE when there is a .semgrepignore in the folder
    Attempts,       \* how often a request is sent: max_retries, and once more
    MaxComplete     \* bound: times that "complete" is sent before the 30 minutes

ASSUME AttemptsAssumption == Attempts \in Nat \ {0}

VARIABLES
    response,       \* scan_handler.scan_response
    app,            \* the scan as the app knows it: [state, findings, ignores, code],
                    \* taken: how often it took the request that settled it
    attempts,       \* those of the request under way that failed
    checkout,       \* which commit is checked out: "own" or "head"
    restore,        \* the atexit handler for that: "none", "registered" or "done";
                    \* "failed" when a git checkout failed
    first,          \* what the first call of run_scan returned
    tries,          \* requests to complete the scan
    final           \* complete.final_attempt

ciVars == <<response, app, attempts, checkout, restore, first, tries, final>>

NotRun == [rules |-> <<>>, matches |-> <<>>, scanned |-> {}, log |-> EmptyLog,
           job |-> NoJob]

NoScan == [state |-> "none", tags |-> {}, rules |-> <<>>, findings |-> <<>>,
           ignores |-> <<>>, dependencies |-> <<>>, code |-> Ok, taken |-> 0]

CiInit ==
    /\ response = NoResponse /\ app = NoScan /\ attempts = 0
    /\ checkout = "own" /\ restore = "none"
    /\ first = NotRun /\ tries = 0 /\ final = FALSE

-----------------------------------------------------------------------------
(* What the command line asks for *)

CiPreflight(asked) ==
    LET config   == asked.request.config.configs # <<>>
        partial  == asked.partialConfig # <<>>
        dumping  == asked.request.partitions # "none"
    IN CASE asked.subdir = "outside" -> Exit(Fatal)
         [] asked.subdir # "outside" /\ config /\ partial -> Exit(Fatal)
         [] asked.subdir # "outside" /\ ~(config /\ partial)
            /\ dumping # asked.partitionsDir -> Exit(Fatal)
         [] OTHER ->
              CASE partial /\ ~asked.partialOutput -> Exit(Fatal)
                [] ~(partial /\ ~asked.partialOutput) /\ ~asked.token /\ ~config ->
                     Exit(InvalidApiKey)
                [] OTHER -> IF asked.token /\ config THEN Exit(Fatal) ELSE NotRaised

\* --dry-run is implied by what leaves nothing to upload.
DryRun == \/ invocation.dryRun \/ invocation.partialOutput
          \/ invocation.request.partitions # "none"

HasHandler == invocation.token

\* always_suppress_errors, which is read before the app has answered anything.
AlwaysSuppressErrors == response # NoResponse /\ response.alwaysSuppress

CallCi(asked) ==
    /\ step = "idle" /\ ResolveCommand(asked.word) = "ci"
    /\ invocation' = asked
    /\ suppress' = asked.suppressErrors
    /\ LET end == CiPreflight(asked)
       IN IF end = NotRaised THEN step' = "configure" /\ UNCHANGED exit
          ELSE step' = "done" /\ exit' = SendIf(asked.suppressErrors, WrapperCode(end))
    /\ UNCHANGED <<printed, ciVars, scanVars, core>>

ConfigureErrors ==
    /\ step = "configure"
    /\ suppress' = (suppress \/ (HasHandler /\ AlwaysSuppressErrors))
    /\ step' = "environment"
    /\ UNCHANGED <<invocation, printed, exit, ciVars, scanVars, core>>

\* fix_head_if_github_action: in a pull request the head of the branch is
\* checked out until the process exits.  A git checkout that fails may have moved
\* HEAD; nothing is registered then that would move it back.
FixHead ==
    \E outcome \in invocation.meta.checkout, moved \in BOOLEAN :
        /\ checkout' = IF outcome = "ok" \/ moved THEN "head" ELSE checkout
        /\ restore' = IF outcome = "ok" THEN "registered" ELSE "failed"
        /\ CASE outcome = "ok" -> step' = "connect" /\ UNCHANGED <<invocation, suppress, exit>>
             [] outcome = "fails" -> LeaveCommand(Error(Fatal))
             [] OTHER -> LeaveCommand(Crash)

\* generate_meta_from_environment, then fix_head_if_github_action.
ReadEnvironment ==
    /\ step = "environment"
    /\ IF invocation.meta.fails
       THEN LeaveCommand(Error(Fatal)) /\ UNCHANGED <<checkout, restore>>
       ELSE IF invocation.meta.pullRequest THEN FixHead
       ELSE step' = "connect" /\ UNCHANGED <<invocation, suppress, exit, checkout, restore>>
    /\ UNCHANGED <<printed, response, app, attempts, first, tries, final, scanVars, core>>

-----------------------------------------------------------------------------
(* Requests to the app *)

\* An attempt is answered, or it is not: the app may have taken it ("lost") or
\* not ("unreachable", or busy).  AppSession then sends the request again.
Repeats(answer) == answer \in {"lost", "unreachable"} /\ attempts + 1 < Attempts

Attempt(answer) == attempts' = IF Repeats(answer) THEN attempts + 1 ELSE 0

\* The app did not do what it was asked for.
IsNotTaken(answer) == answer \in {"refused", "unreachable"}

\* What goes wrong with a request, when no attempt is left, is an exception; for
\* an attempt that was lost no one knows whether the app took it.
Refused == Crash

-----------------------------------------------------------------------------
(* The start of a scan *)

EnabledProducts == IF response = NoResponse THEN {} ELSE response.products

\* start_scan; the app makes a scan when it takes the request, another one when it
\* takes it again.  No rules is not an error of Supply Chain, which does not need
\* any.
StartCiScan ==
    /\ step = "connect" /\ HasHandler
    /\ \E answer \in invocation.app.start :
          /\ Attempt(answer)
          /\ app' = IF answer \in {"ok", "lost"}
                     THEN [app EXCEPT !.state = "open",
                                      !.tags = LoadAllTags(invocation.projectFiles,
                                                           invocation.cwd)]
                     ELSE app
          /\ response' = IF answer = "ok" THEN invocation.response ELSE response
          /\ CASE answer = "ok" ->
                    IF /\ invocation.response.noRules
                       /\ invocation.response.products \subseteq {"code", "secrets"}
                    THEN LeaveCommand(Exit(MissingConfig))
                    ELSE step' = "started" /\ UNCHANGED <<invocation, suppress, exit>>
               [] answer = "unauthorized" -> LeaveCommand(Exit(InvalidApiKey))
               [] Repeats(answer) -> UNCHANGED <<step, invocation, suppress, exit>>
               [] OTHER -> LeaveCommand(Exit(Fatal))
    /\ UNCHANGED <<printed, checkout, restore, first, tries, final, scanVars, core>>

\* With --config there is no app.
StartWithoutApp ==
    /\ step = "connect" /\ ~HasHandler
    /\ step' = "started"
    /\ UNCHANGED <<invocation, suppress, printed, exit, ciVars, scanVars, core>>

-----------------------------------------------------------------------------
(* The scan *)

RunsSecrets ==
    \/ invocation.secrets
    \/ ~invocation.oss /\ "secrets" \in EnabledProducts

CiEngine ==
    DecideEngineType([flag |-> invocation.request.engine,
                      deepByApp |-> HasHandler /\ response.deep,
                      secrets |-> RunsSecrets, loggedIn |-> invocation.token,
                      ci |-> HasHandler, diff |-> invocation.meta.mergeBase,
                      interfileDiff |-> HasHandler /\ response.slowRollout,
                      supplyChainOnly |-> invocation.products = {"sca"} /\ ~RunsSecrets])

AlwaysExclude == {<<".semgrep">>, <<".semgrep_logs">>}
DefaultExclude == {<<"test">>, <<"tests">>, <<"*_test.go">>}

\* get_exclude_paths: patterns is what the app asks for, by product.
GetExcludePaths(patterns) ==
    [product \in Products |->
        (IF product \in DOMAIN patterns THEN patterns[product] ELSE {})
        \cup AlwaysExclude
        \cup IF IgnoreFile /\ DOMAIN patterns = {} THEN DefaultExclude ELSE {}]

PatternsOfApp == IF HasHandler THEN response.patterns ELSE <<>>

\* The rules are those of the app, or of the partial config.
CiConfig ==
    [invocation.request.config EXCEPT
        !.text = IF HasHandler /\ invocation.partialConfig = <<>>
                 THEN <<response.rules>> ELSE <<>>,
        !.configs = IF ~HasHandler THEN @ ELSE invocation.partialConfig]

\* Of these settings of the output, ci sets neither.
CiSettings == [invocation.settings EXCEPT !.strict = FALSE, !.errorOnFindings = FALSE]

\* run_scan_args.
CiRequest ==
    [invocation.request EXCEPT
        !.strict = FALSE,
        !.config = CiConfig,
        !.engine = CiEngine,
        !.asked.secrets = RunsSecrets,
        !.autofix = HasHandler /\ response.autofix,
        !.dryrun = TRUE,
        !.disableNosem = TRUE,
        !.baseline = invocation.meta.mergeBase,
        !.git.isMergeBase = TRUE,
        !.historical = FALSE,
        !.tm.excludes = [product \in Products |->
                            invocation.excludes \cup GetExcludePaths(PatternsOfApp)[product]]]

\* The products are checked inside the try that run_scan is called in.
ProductsRefused ==
    HasHandler /\ \/ EnabledProducts = {}
                  \/ invocation.request.partitions # "none" /\ EnabledProducts # {"code"}

RunCiScan ==
    /\ step = "started"
    /\ IF \/ invocation.secrets /\ invocation.oss
          \/ invocation.historical /\ ~RunsSecrets
          \/ ~ValidOutputs(invocation.settings)
       THEN LeaveCommand(Exit(Fatal)) /\ UNCHANGED scanVars
       ELSE /\ IF ProductsRefused
               THEN /\ handler' = NewHandler(CiSettings)
                    /\ Ends(Error(Fatal))
                    /\ UNCHANGED <<request, rules, status, folder, worktree, job, matches,
                                   scanned, log, timedOut, fixed>>
               ELSE StartScan(CiRequest, CiSettings)
            /\ step' = "ci_scan"
            /\ UNCHANGED <<invocation, suppress, exit>>
    /\ UNCHANGED <<printed, ciVars, core>>

\* Mutant of ReportFailure: the results are sent all the same.
ReportFailureAndGoOn ==
    /\ step = "ci_scan" /\ stage = "ended" /\ raised.kind = "error"
    /\ app' = IF ~HasHandler \/ DryRun THEN app
               ELSE [app EXCEPT !.state = "failed", !.taken = @ + 1]
    /\ step' = "results"
    /\ UNCHANGED <<invocation, suppress, exit, printed, response, attempts, checkout, restore,
                   first, tries, final, scanVars, core>>

\* A SemgrepError: the app is told first, and that may fail in turn.
ReportFailure ==
    /\ step = "ci_scan" /\ stage = "ended" /\ raised.kind = "error"
    /\ IF ~HasHandler \/ DryRun
       THEN step' = "failed" /\ UNCHANGED <<app, attempts, invocation, suppress, exit>>
       ELSE \E answer \in invocation.app.failure :
              /\ Attempt(answer)
              /\ app' = IF IsNotTaken(answer) THEN app
                         ELSE [app EXCEPT !.state = "failed", !.taken = @ + 1]
              /\ CASE answer = "ok" -> step' = "failed" /\ UNCHANGED <<invocation, suppress, exit>>
                   [] Repeats(answer) -> UNCHANGED <<step, invocation, suppress, exit>>
                   [] OTHER -> LeaveCommand(Refused)
    /\ UNCHANGED <<printed, response, checkout, restore, first, tries, final, scanVars, core>>

CiFailed ==
    /\ step = "failed"
    /\ handler' = HandleSemgrepErrors(handler, <<SemgrepErrorOf(raised.code)>>)
    /\ ErrorsThen(handler', Exit(raised.code))
    /\ UNCHANGED <<ciVars, stage, request, rules, status, folder, worktree, job, matches,
                   scanned, log, timedOut, fixed, raised, core>>

\* Nobody tells the app of any other exception, nor of an exit.
CiLeft ==
    /\ step = "ci_scan" /\ stage = "ended" /\ raised.kind \in {"exit", "crash"}
    /\ LeaveCommand(raised)
    /\ UNCHANGED <<printed, ciVars, scanVars, core>>

\* The scan of the history, for secrets, is another call of run_scan with the
\* same output handler; the targets reported are those of the first call.
HistoryWanted ==
    /\ \/ RunsSecrets /\ HasHandler /\ response.historical
       \/ invocation.historical
    /\ ~invocation.meta.mergeBase

RunHistory ==
    /\ step = "ci_scan" /\ stage = "ended" /\ raised = NotRaised /\ HistoryWanted
    /\ first' = [rules |-> rules, matches |-> matches, scanned |-> scanned, log |-> log,
               job |-> job]
    /\ stage' = "config"
    /\ request' = [request EXCEPT !.historical = TRUE, !.found["head"] = invocation.history]
    /\ rules' = <<>> /\ status' = NoStatus /\ job' = NoJob /\ matches' = <<>>
    /\ log' = EmptyLog
    /\ step' = "ci_history"
    /\ UNCHANGED <<invocation, suppress, printed, exit, response, app, attempts, checkout,
                   restore, tries, final, handler, folder, worktree, scanned, timedOut,
                   fixed, raised, core>>

\* A SemgrepError there leaves the first results alone; otherwise every rule is
\* counted twice.
TakeHistory ==
    /\ step = "ci_history" /\ stage = "ended"
    /\ IF raised.kind \in {"exit", "crash"}
       THEN LeaveCommand(raised) /\ UNCHANGED <<handler, rules, matches, scanned, log, job>>
       ELSE /\ step' = "results"
            /\ UNCHANGED <<invocation, suppress, exit>>
            /\ scanned' = first.scanned /\ log' = first.log /\ job' = first.job
            /\ IF raised.kind = "error"
               THEN /\ handler' = HandleSemgrepErrors(handler,
                                                      <<SemgrepErrorOf(raised.code)>>)
                    /\ matches' = first.matches /\ rules' = first.rules
               ELSE /\ matches' = [rule \in DOMAIN first.matches |->
                                      first.matches[rule] \o
                                          IF rule \in DOMAIN matches
                                                     THEN matches[rule] ELSE <<>>]
                    /\ rules' = first.rules \o rules
                    /\ UNCHANGED handler
    /\ UNCHANGED <<printed, ciVars, stage, request, status, folder, worktree,
                   timedOut, fixed, raised, core>>

SkipHistory ==
    /\ step = "ci_scan" /\ stage = "ended" /\ raised = NotRaised /\ ~HistoryWanted
    /\ step' = "results"
    /\ UNCHANGED <<invocation, suppress, printed, exit, ciVars, scanVars, core>>

-----------------------------------------------------------------------------
(* The findings *)

IsCai(rule) == rule.id \in CaiRules

\* Triaged as ignored on the app.
IsTriaged(match) ==
    HasHandler /\ \/ CiUniqueKey(match) \in response.skippedIds
                  \/ MatchBasedId(match) \in response.skippedMatchIds

CiKeepsIgnored == ~invocation.enableNosem \/ KeepIgnores(handler)

\* What is left for the user: findings of the previous scan, triaged and
\* ignored ones are dropped.
CiMatches ==
    LET kept == {m \in AllMatches(matches) : ~IsTriaged(m) /\ (CiKeepsIgnored \/ ~m.ignored)}
    IN [rule \in {r \in DOMAIN matches : ~FromTransientScan(r)} |-> Only(matches[rule], kept)]

ShownMatches ==
    [rule \in {r \in DOMAIN CiMatches : ~IsCai(r)} |-> CiMatches[rule]]

BlockingMatches ==
    UNION {{m \in ToSet(ShownMatches[rule]) : IsBlocking(m, rule)} :
              rule \in DOMAIN ShownMatches}

SuggestedExitCode == IF BlockingMatches # {} THEN Findings ELSE Ok

\* The output comes before the upload, and may be the end of it.
ShowFindings ==
    /\ step = "results"
    /\ IF invocation.internal
       THEN /\ step' = IF HasHandler THEN "upload" ELSE "verdict"
            /\ UNCHANGED <<invocation, suppress, printed, exit>>
       ELSE /\ printed' = <<Outputs(handler, ShownMatches, scanned, log, TRUE)>>
            /\ IF OutputRaises(handler, AllMatches(ShownMatches))
               THEN LeaveCommand(Error(OutputCode(handler, AllMatches(ShownMatches))))
               ELSE /\ step' = IF HasHandler THEN "upload" ELSE "verdict"
                    /\ UNCHANGED <<invocation, suppress, exit>>
    /\ UNCHANGED <<ciVars, scanVars, core>>

SortOrder(severity) ==
    CASE severity = "EXPERIMENT" -> 0
      [] severity = "INVENTORY" -> 1
      [] severity \in {"INFO", "LOW"} -> 2
      [] severity \in {"WARNING", "MEDIUM"} -> 3
      [] severity \in {"ERROR", "HIGH"} -> 4
      [] OTHER -> 5

\* Mutant of FindingsToReport: only what is shown is sent.
FindingsToReportShown(ignored) ==
    LET shown == SetToSeq({m \in AllMatches(ShownMatches) : m.ignored = ignored})
        of(m) == CHOOSE rule \in DOMAIN matches : m \in ToSet(matches[rule])
    IN [i \in DOMAIN shown |-> ToAppFinding(shown[i], of(shown[i]), ~response.autofix)]

\* report_findings sends everything run_scan found, the least severe first, in
\* two lists: what a comment ignores is not left out.
FindingsToReport(ignored) ==
    LET order == SetToSeq(DOMAIN matches)
        all == Reverse(FlattenSeq([k \in DOMAIN order |-> matches[order[k]]]))
        of(m) == CHOOSE rule \in DOMAIN matches : m \in ToSet(matches[rule])
        sorted == FlattenSeq([k \in 1..6 |->
                      Only(all, {m \in ToSet(all) : SortOrder(m.severity) = k - 1
                                                    /\ m.ignored = ignored})])
    IN [i \in DOMAIN sorted |-> ToAppFinding(sorted[i], of(sorted[i]), ~response.autofix)]

\* The rules of the project's own scan, those that block first.
RulesToReport ==
    LET own == SelectSeq(rules, LAMBDA r : ~IsCai(r) /\ ~FromTransientScan(r))
        all == SelectSeq(own, RuleIsBlocking)
               \o SelectSeq(own, LAMBDA r : ~RuleIsBlocking(r))
    IN [i \in DOMAIN all |-> all[i].id]

SendResults ==
    /\ step = "upload"
    /\ IF DryRun
       THEN step' = "verdict" /\ UNCHANGED <<app, attempts, invocation, suppress, exit>>
       ELSE \E answer \in invocation.app.results :
              /\ Attempt(answer)
              /\ app' = IF IsNotTaken(answer) THEN app
                        ELSE [app EXCEPT !.rules = RulesToReport,
                                         !.findings = FindingsToReport(FALSE),
                                         !.ignores = FindingsToReport(TRUE),
                                         !.dependencies = IF response.dependencyQuery
                                                          THEN job.dependencies ELSE <<>>]
              /\ CASE answer = "ok" ->
                        step' = "complete" /\ UNCHANGED <<invocation, suppress, exit>>
                   [] Repeats(answer) -> UNCHANGED <<step, invocation, suppress, exit>>
                   [] OTHER -> LeaveCommand(Refused)
    /\ UNCHANGED <<printed, response, checkout, restore, first, tries, final, scanVars, core>>

\* Mutant of GiveUpSoon: the clock is not looked at.
GiveUpNever == step = "complete" /\ ~final /\ UNCHANGED <<commandVars, ciVars, scanVars, core>>

\* After 30 minutes the next request is the last one.
GiveUpSoon ==
    /\ step = "complete" /\ ~final /\ attempts = 0
    /\ final' = TRUE
    /\ UNCHANGED <<commandVars, response, app, attempts, checkout, restore, first, tries,
                   scanVars, core>>

\* "processing" is an answer too: it has no success in it.  An app that has taken
\* the request no longer says so.
SendComplete ==
    /\ step = "complete" /\ (final \/ tries < MaxComplete)
    /\ \E answer \in invocation.app.complete :
           /\ answer = "processing" => app.state # "complete"
           /\ Attempt(answer)
           /\ tries' = IF answer = "processing" /\ ~final THEN tries + 1 ELSE tries
           /\ app' = IF IsNotTaken(answer) \/ answer = "processing" THEN app
                     ELSE [app EXCEPT !.state = "complete", !.code = SuggestedExitCode,
                                      !.taken = @ + 1]
           /\ CASE Repeats(answer) \/ (answer = "processing" /\ ~final) ->
                     UNCHANGED <<step, invocation, suppress, exit>>
                [] answer = "ok" \/ (answer = "processing" /\ final) ->
                     step' = "verdict" /\ UNCHANGED <<invocation, suppress, exit>>
                [] OTHER -> LeaveCommand(Refused)
    /\ UNCHANGED <<printed, response, checkout, restore, first, final, scanVars, core>>

BlockedByApp == HasHandler /\ ~DryRun /\ response.blocks

\* The code the process exits with: the app may add a reason to fail.
Verdict ==
    /\ step = "verdict"
    /\ LeaveCommand(Exit(
         IF ~invocation.meta.audit /\ (SuggestedExitCode = Findings \/ BlockedByApp)
         THEN Findings ELSE Ok))
    /\ UNCHANGED <<printed, ciVars, scanVars, core>>

\* atexit: what git_check_output raises there is only printed.
RestoreCheckout ==
    /\ step = "done" /\ restore = "registered"
    /\ \E outcome \in invocation.meta.restore :
           \/ checkout' = "own" /\ restore' = IF outcome = "ok" THEN "done" ELSE "failed"
           \/ outcome = "fails" /\ restore' = "failed" /\ UNCHANGED checkout
    /\ UNCHANGED <<commandVars, response, app, attempts, first, tries, final, scanVars, core>>

CiCommandStep ==
    \/ ConfigureErrors \/ ReadEnvironment \/ StartCiScan \/ StartWithoutApp \/ RunCiScan
    \/ ReportFailure \/ CiFailed \/ CiLeft
    \/ RunHistory \/ TakeHistory \/ SkipHistory
    \/ ShowFindings \/ SendResults \/ SendComplete \/ Verdict
    \/ RestoreCheckout
=============================================================================
