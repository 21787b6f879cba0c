# TLA+ models of opengrep

Opengrep scans source files with rules. Most of the program is pure (parsers,
matching, dataflow); what goes wrong in ways a unit test hardly reaches is what
surrounds that pure core: domains that share one array of results, timer threads
that outlive the call they time, limits that interrupt a rule at any allocation,
files that come, go and change between two looks at the disk, a language server whose
replies overlap, and a command line in Python that runs the engine as a process
of its own, a second time for a baseline commit, between a git and an app that
may fail at every request. This directory models that part, checks it with TLC
and proves the central facts with TLAPS. Paths below are relative to the
repository (`src/` of the models' map is its root).

Two models stand side by side. The engine (OCaml): `TimeLimit`, `CoreScan`,
`LspServer`, `LspSearch`. The command line (Python): one composed specification,
`Cli`, made of sixteen modules.

## 1. Inventory

| Part | Source | State | Operations | Interacts with |
| --- | --- | --- | --- | --- |
| Time limits | `libs/process_limits/Time_limit.ml` | a token and an atomic flag per call, one timer thread per call | `set_timeout` | called by Match_rules for every rule; memprof-limits raises in the computation |
| Memory limit | `libs/process_limits/Memory_limit.ml` | the heap limit of the process | `run_with_global_memory_limit` | wraps the handler of every target |
| Pool of domains | `libs/parallelism/Domainslib_.ml` | array of results, one slot per target | `parmap`, `wrap_result` | runs Core_scan's handler |
| Core scan | `src/core_scan/Core_scan.ml`, `Parallel_targets.ml`, `src/engine/Match_rules.ml` | rules kept, targets kept, per-domain counters of timeouts, `Rule.last_matched_rule` (thread-local) | choose rules and targets, sort, scan each target, collate, limit matches | reads files; calls the display hook from the domains |
| Post-processing | `src/core_scan/Pre_post_core_scan.ml`, `src/reporting/Nosemgrep.ml`, `src/fixing/Autofix.ml` | none | autofix, `nosemgrep` comments | reads matched files again |
| Language server | `src/osemgrep/language_server` (`RPC_server.ml`, `Session.ml`, `Scan_helpers.ml`, `Notification_handler.ml`, ...) | session: targets, cached results, open documents, rules, ignored fingerprints; replies in progress; files in the cache directory | one handler per message; replies that scan | client messages, preemptive workers, `Core_scan.scan` |
| Search of the server | `custom_requests/Search.ml` | the queue of rules and files left | `/semgrep/search`, `/semgrep/searchOngoing` | the message loop keeps the old server when a handler raises |
| Selection of targets | `src/targeting`, `libs/gitignore`, `libs/glob` | none | walk, ignore and include filters | file system, git |
| Prefilter | `src/optimizing` | cache of analyses | `regexp_prefilter_of_rule` | asked per rule and file |
| Formulas and ranges | `src/engine/Match_search_mode.ml`, `Range_with_metavars.ml` | formula cache | evaluation of a rule | pattern matching |
| Taint, dataflow, call graph | `src/tainting`, `src/analyzing`, `src/call_graph` | environments of a fixpoint | fixpoint | IL of a file |
| Differential scan | `src/osemgrep/cli_scan/Diff_scan.ml` | a git worktree | head scan, baseline scan, subtraction | git, core scan |
| RPC | `src/rpc`, `cli/src/semgrep/rpc.py` | pipes between two processes | one request, one response | core scan |
| Command line | `cli/src/semgrep/cli.py`, `commands/wrapper.py`, `error_handler.py` | whether errors are suppressed, the exit code | default command, `handle_command_errors` | the two commands |
| `scan` | `commands/scan.py` | the command and where it is | `scan`, `--validate`, `--test` | run_scan, output handler |
| `ci` | `commands/ci.py`, `app/scans.py` | what the app knows of the scan, whose commit is checked out | configure, start, scan, history, upload, verdict | git, the app, run_scan, output handler |
| run_scan | `run_scan.py` | folder, working tree, rules, matches, log, files timed out of | load rules, head scan, baseline scan, subtraction, fixes | everything below |
| Engine process | `core_runner.py` | process, two pipes, two readers, progress bar | start, read, extract | opengrep-core |
| Plan | `core_targets_plan.py`, `scan_report.py` | none | `plan_core_run`, status | target manager |
| Target manager | `target_manager.py`, `ignores.py` | ignore log | walk, git ls-files, filters, pruning | git, file system |
| Baseline | `git.py` | temporary working tree, current folder | status, merge base, `baseline_context` | git |
| Rules | `config_resolver.py`, `rule_lang.py`, `rule.py`, `engine.py`, `app/project_config.py` | none | resolve, validate, rename, merge | servers, files |
| Findings | `rule_match.py`, `nosemgrep.py`, `core_output.py` | counters of an id per key | keys, indices, deduplication, ids for the app | |
| Dependencies | `resolve_subprojects.py`, `subproject_matchers.py`, `dependency_aware_rule.py`, `semdep/` | files used up | subprojects, resolution, reachability, version ranges | engine (RPC), lockfile parsers |
| Join rules | `join_rule.py` | a database in memory | inner scans, conditions, closure | run_scan once more |
| Tests of rules | `test.py` | none | annotations against results | engine |
| Output | `output.py`, `error.py`, `formatter/text.py` | errors so far, whether there was output | `handle_semgrep_errors`, `output`, exit code | files, URLs |
| Parsers, printing, output | `languages`, `src/parsing`, `src/reporting` | none | pure functions | |

### Hard behaviours

* **Interleaving.** Domains take targets in any order; a timer thread lives on
  for one granularity after its call; replies of the server overlap at every
  `Lwt` bind.
* **Interruption.** A timeout, the heap limit, a stack overflow or an exception
  of the rule may end a target between any two rules. What was found so far is
  dropped, and something must say so.
* **Stale reads.** The existence of a file is looked at when rules are chosen,
  when targets are chosen, when they are sorted, when they are parsed and when
  their matches are post-processed; in between it may go, come (back) or be edited. The session of a reply is the one of its
  start. A list of targets is used after it has been recomputed.
* **Limits.** Timeouts per file, matches per file, threads, workers.
* **Ordering.** Matches are displayed before the last filter runs; results are
  recorded before their diagnostics are sent.
* **Restart.** Ignored fingerprints go through a file between two servers.
* **Two processes, two pipes.** The engine blocks on a full pipe, and may be
  killed between any two writes, before, within or after its answer.
* **Repeated requests.** The session with the app sends a request again whose answer
  was lost, although the app may have taken it.
* **Partial failure.** Every command of git around a baseline or a checkout, every
  request to the app and every output may fail by itself, in a `try`, in a `finally` or
  outside both; what was changed before (folder, working tree, commit, state of
  the scan at the app) must be put back or settled.
* **Several rounds of filters.** Between the engine and the user, the file system,
  the app and the exit code, findings go through five filters in an order that
  differs for each of them.

The list, line by line, is in `PROJECT.json` under "hazards", each with the
properties that would show it going wrong or the reason why there is none.

### What makes each part correct

* Time limits: no early timeout; no computation runs for ever; no thread is left
  for ever.
* Core scan: every target gets one verdict; every match is reported or an error
  names its file; filters lose nothing of a file that was there; counters keep to the threshold; the scan
  ends.
* Language server: cached results catch up with the disk unless a scan is
  overtaken by another worker's; what is displayed can be cleared; the progress
  circles are those of the work in progress; replies end; ignored findings stay
  ignored.
* Search: no match of a file is lost or sent twice; the search ends.
* Engine process: a result is a whole answer of an engine that exited with 0; an
  engine that was killed is told of as killed; the call returns.
* run_scan: with a baseline, as many findings are left as are new, renamed files
  included; no file that did not change is told of; the process is back in its
  folder; a timeout in either scan is told of; fixes are for findings shown.
* Dependencies: a lockfile is in one subproject; a vulnerable dependency makes a
  finding in the code or in the lockfile, not both.
* Output: the text has every finding once, under its file and its rule if the rule
  has a name.
* ci: the app has the findings the user has and settles a scan once, whatever is
  repeated; the exit code is that of the findings; the command ends.
* Not modelled yet: a target is selected exactly when the precedence of ignore
  rules says so (in the OCaml code); the prefilter never drops a file that has a
  match; edits of autofix do not overlap; the fixpoint of the dataflow is one.

## 2. Modules

| Module | Contents |
| --- | --- |
| `LimitedCall` | the contract of `set_timeout`: each call ends once, "none" only when due |
| `TimeLimit` | `set_timeout` with token, flag and timer thread; implements `LimitedCall` |
| `TimeLimitProofs` | theorems about `TimeLimit` |
| `ScanReport` | the contract of a scan: one verdict per target, a report when none is pending, give up only when a file is missing or is not the one that was read |
| `CoreScan` | `Core_scan.scan` with its pool; implements `ScanReport` |
| `CoreScanProofs` | theorems about `CoreScan` |
| `LspServer` | the message loop, the session and the replies of the language server |
| `LspServerProofs` | theorems about `LspServer` |
| `LspSearch` | the streaming search of the language server |
| `LspSearchProofs` | theorems about `LspSearch` |
| `Targets` | target_manager.py, ignores.py: which files, and why not the others |
| `RuleMatches` | rule_match.py, nosemgrep.py, core_output.py: keys, indices, removal of the baseline |
| `GitBaseline` | git.py: status, merge base, renamed files |
| `CoreProcess` | core_runner.py: the engine as a process with two pipes |
| `ScanOutput` | output.py, error.py: errors, outputs, the deciding error |
| `RuleConfigs` | from `--config` to rules, ids, engine |
| `Versions` | versions of Go, Maven and the others, ranges, and what does not parse |
| `Subprojects` | lockfiles to subprojects to reachable and other findings |
| `JoinRules` | rules in join mode |
| `ScanPlan` | the tasks sent to the engine and the counts of the status |
| `TextOutput` | the findings as text |
| `RuleTests` | `--test` |
| `RunScan` | run_scan and run_rules: composes the modules above into actions |
| `ScanCommand` | `opengrep scan` and the end of any command |
| `CiCommand` | `opengrep ci` with the app |
| `Cli` | one invocation: the composition, its fairness and its properties |
| `CliProofs` | theorems about `Cli`: the engine process, the app, the folder, the fixes |
| `ExitProofs` | theorems about `Cli`: what is told and the exit code |
| `FindingsProofs` | theorems about `Cli`: which findings there are, of which dependencies, what the app gets, the code of findings, the text |
| `ScanDataProofs` | theorems about the data of a scan: `Targets`, `Versions`, lists of findings, the text of a section |
| `MC*` | the instances for TLC; a `.cfg` named after a property is a run for that property alone |

`CoreScan` uses `set_timeout` through its contract: a rule ends with its matches
(`RuleReturns`), with None (`RuleTimesOut`) or with an exception (`RuleRaises`),
which are the three outcomes that `LimitedCall` allows and `TimeLimit` is shown to
produce. `LspServer` uses a core scan in the same way: a task that scans ends with
a result (`FinishFile`, `FinishScan`) or with an exception (`ScanRaises`), as
`ScanReport` ends published or aborted. `LspSearch` is separate from `LspServer`
because the two share no state but the value of the server.

### TimeLimit

`Call` is the entry of `set_timeout`: it starts the timer thread, or fails when no
thread can be made. `Return`, `Raise` and `Interrupt` are the ends of the
computation: in each, `Fun.protect` sets `finished_work`. `Report` is what
`limit_with_token` makes of an exception: Error (None) exactly when the token is
set. `TimerCheck`, `TimerFire`, `TimerDelay` and `TimerWake` are the steps of the
recursive function `timeout`: look at the flag, set the token when nothing is
left, sleep, and call itself with the duration less the granularity. Real time is
`Tick`: it lets sleeping threads wake and counts the time that a call has had.

### CoreScan

`phase` is where `Core_scan.scan` is: `RulesOfConfig`, `TargetsOfConfig`,
`SortTargets`, the pool, `Collate`, `PostProcess`. Each of the five looks at the
disk at its own moment, and between any two a file of `Unstable` may be removed
(`Vanish`), created or put back (`Appear`) or given another content (`Edit`). Of the
content the model knows whether it is still the one that was read: `disk[f]` is
"absent", "same" or "changed". A changed file matters after the pool: `PostProcess`
reads the lines of the matches again and raises when one of them is not there any
more, as it does for a file that has gone. `seen` is what the first look found; a
rule that it dropped is missing for a target that came later, which `NoSilentLoss` and
`TargetsAccountedFor` except by name and the run `filtered_rules` shows.

In the pool, a domain does `StartTarget` (the contract of Domainslib's `parallel_for`,
each index once; no property restates it), `Prepare` (rules for the target,
prefilter), then one step per rule, then `MatchHook` and `EndTarget`. `Store` writes the slot
and takes every local variable of the handler away, except `lastRule`, which is
the thread-local of the domain and survives. `StoreErrors` is what the exception
handlers make of a timeout of the file, of the heap limit or of any other
exception.

### LspServer

One action per message, with everything that its handler does before it returns
and everything that the reply does up to its first blocking point
(`ScanFile`, `RefreshRules`, `Enqueue`); then one action per stretch of a reply
between two blocking points: `StoreRules`, `EndProgress`, `ScanOpenDocuments` (the
scan that follows a refresh, with a circle of its own), `StartScan`, `FinishFile`,
`AddOpenDocument`, `FinishScan`, `Publish`. A reply may raise in a worker (`ScanRaises`)
or at any of its other stretches (`ReplyRaises`): then it ends, and a circle that it had
not ended yet stays (the history variable `leaked` counts these). `overtaken` is a history variable: the files whose
scan after the last save ended while another worker was still scanning an older
version. A task keeps the ignored fingerprints
of the session it started with (an immutable field) and shares `targets`, `cached`,
`openDocs` and `initialized` (mutable fields). `Restart` is a new process: all that
survives is the disk and `saved`.

### LspSearch

`StartSearch` and `SearchNextFile` are the two requests; both call
`SearchSingleTarget`, which passes over files without matches and answers with
the first that has some. `SearchRaises` is the exception that
`handle_client_message` turns into an error response while it keeps the server of
before the request. `SearchRefused` is a new search without parameters or whose
pattern does not parse: the old queue stays and nothing is answered.

### Cli

An invocation is a record: the arguments, and what the program finds in the world
(files, answers of git, of servers and of the app, what the patterns match).
`Call` takes one of `Invocations`; from then on the commands are sequential code,
of which each action is a stretch between two places where something else may
happen or the code may leave by another way, while the engine runs in steps of
its own.

* `CoreProcess` has one action per write of the engine (`ReportProgress`,
  `WriteLine`, `WriteAnswer`), its ends (`ExitAfterAnswer`, `Die`, `Reap`), one per
  read of the two coroutines of `_handle_process_outputs`, and the two ways in which
  `execute` ends (`Return`, `Raise`). A pipe holds `PipeSize` pieces and a
  full one blocks its writer. `Extract` is `_extract_core_output`.
* `RunScan` has `stage` for where `run_scan` is: `LoadRules`, `InitBaseline`,
  `SelectTargets`, `Prepare` (all of `run_rules` up to the engine: subprojects,
  rules sent, plan, status) or `PrepareFails` (a range or a version of a dependency does
  not parse), `TakeHead` or `TakeFailure` when the engine returned,
  `EnterBaseline` (git worktree add, chdir), the same stages once more with `folder`
  = "worktree", `TakeBaseline` (the subtraction), `LeaveBaseline` (chdir back,
  worktree remove), `Finish` (nosem filter, fixes). `raised` is the exception on its way
  out; each step that may raise has the failing outcome as an action or a
  disjunct (`GitLogFails`, `EnterBaselineFails`, the second half of `LeaveBaseline`).
* `ScanCommand` and `CiCommand` share `step`. `app` is what the app knows: a scan
  that is open, failed or complete, with its findings and the exit code it was
  told. An attempt at a request has a set of outcomes: "ok", "refused", "lost" (the
  app took it and its answer did not arrive), "unreachable" (it did not take it, or was
  busy), for `complete` also "processing", and any of them may come. After "lost" and
  "unreachable" `AppSession` sends the request again, `Attempts` times in all, and then
  raises; `app.taken` counts how often the app took the one that settles the scan.
  `FixHead` is the checkout of the head of a pull request, which may fail before or
  after it has moved HEAD, and `restore` is the `atexit` handler that moves it back
  (`RestoreCheckout`), registered only after a checkout that succeeded, and itself a
  command that may fail. `handle_command_errors` and the `ErrorHandler` are in
  `ScanCommand`, since both commands end through them.
* The pure parts (`Targets` to `TextOutput`) are operators named after the functions
  they stand for, over sets and sequences; a glob of one name, a language of a
  file, a hash and the order of names are constants of the instance.

## 3. Runs

| Run | Instance | Shows |
| --- | --- | --- |
| `time_limit` | 2 calls (limits 3 and 0), granularity 2, 1 thread | types, no early timeout, threads exit, calls end, contract kept |
| `core_scan` | 2 domains, 3 targets on 2 files of which one is unstable, 1 taint and 2 search rules | types, no silent loss, what was displayed and what was listed is accounted for, timeouts per mode, contract kept, the scan ends |
| `lsp_server` | 2 files, 2 versions, 2 workers, 2 replies at once, 6 messages | types, the cache catches up unless a scan is overtaken, the display can be cleared, work shows, replies end |
| `lsp_search` | 4 files, 2 searches, 2 edits | types, nothing lost, nothing sent twice, the search ends |
| `cli` | a project of a dozen files, 64 invocations | see below |

The 64 invocations of `cli` are scans with fixes, with ignored findings and with a
pattern of `-e`, whose rule has no name; a
baseline with a renamed file, a file with one more of the same finding and git
failing at each of its commands; dependencies with two lockfiles, reachable and
not, with a pre-release, and with ranges and versions that do not parse; join rules, also with an error in them; tests of rules; validation; the early
exits; output formats, an output that cannot be written; and `ci` with every outcome
of each attempt at each request to the app, every event, every end of the two
`git checkout`s of a pull request, partial results, the history of the
project, and with suppressed errors or not. With each, the engine may print, block, fail or die at any moment. The
properties speak of the whole way from the engine to the exit code:

| Property | Says |
| --- | --- |
| `ResultIsWhole`, `KilledIsNotParsed`, `InvocationEnds` | the engine process, see above |
| `OnlyNewFindings`, `BaselineIsSubtracted`, `ChangedFilesOnly` | what is left after the second scan, and in which files |
| `BackInTheWorkingTree`, `TimeoutsAreTold` | the second scan leaves nothing behind and hides nothing |
| `LockfilesAreInOneSubproject`, `VulnerableDependenciesAreTold` | dependencies are told of once |
| `FixesAreShown`, `TextIsComplete` | files, text and findings agree |
| `AppHasTheFindings`, `ScanIsSettledOnce` | the app and the user agree |
| `BlockingFindingsFail`, `FindingsCodeIsForFindings` | exit code and findings agree, with the exceptions that the code makes |
| `CommandEnds` | every command ends, with the commit of the user checked out unless a `git checkout` failed |

Seven more runs check what a comment or a text of the documentation says and find a
behaviour of the code that does not do it:

| Run | Statement | What the code does |
| --- | --- | --- |
| `timeout_threshold` | the threshold is the number of rules that can time out on a file before it is skipped (`src/core_cli/Core_CLI.ml:634`) | taint rules and search rules are counted apart, so a file may have as many timeouts as the threshold and keep its matches |
| `blamed_rule` | `last_matched_rule` is the rule in use when the exception occurred (`src/rule/Rule.ml:788`) | it survives from one target to the next, and an exception before the first rule blames a rule that the target does not even have |
| `filtered_rules` | a rule whose language no target has will not apply (`src/core_scan/Core_scan.ml:351`) | the targets are computed twice; a file that appears in between is scanned without its rules |
| `lsp_opened_target` | an opened file that has become a target is scanned (`Scan_helpers.ml:235`) | the list that is tested is the one from before the recomputation |
| `lsp_ignores_restart` | fingerprints are saved to disk and loaded from it (`Session.mli:59`, `:62`) | they are saved in one directory and loaded from another |
| `always_suppress` | `always_suppress_errors` of an account overrides the flag (`cli/src/semgrep/commands/ci.py:391`) | it is read from an answer of the app that has not come yet, so it is always False |
| `search_stale` | after a new search has started, the server goes on with that one (`Search.ml:42`) | when its first request raises, the old search is still there and goes on |

### Bounds and why they are enough

* **TimeLimit.** Two calls are what a thread left over from one call needs to meet
  another. The first limit is not a multiple of the granularity, the second is
  zero, as `timeout` of a rule may be. One thread makes `Thread.create` fail as
  soon as the old thread is still asleep. `elapsed` stops at `Cap(c)`: a limit and
  one granularity, beyond which no comparison changes. The proofs are for all
  values.
* **CoreScan.** Two domains give every interleaving of two handlers. t1 and t2 are
  one file read as two languages, whose matches exceed the limit only together.
  The threshold 2 can be reached by the search rules, or by one rule of each mode.
  The heap limit is exceeded only by t2 together with another target. `paths:`
  keeps a rule off t2 and the prefilter keeps one off t3. Either file may be
  missing from the start. `Unstable` holds the file of t1 and t2: it may come, go and be
  edited any number of times, beside one that does not change; two unstable files
  give nothing that one does not, as every look is at one file. All its invariants are proved for all values.
* **LspServer.** `MaxMessages` = 6 messages, `MaxTasks` = 2 replies in progress,
  `MaxVersion` = 2 versions of a file. Six messages are two for the handshake and
  four in any order (open, save, delete and refresh of one file or of two; ignore
  and rescan; shutdown, exit, restart and the start of a second handshake). `Jobs` = 2
  workers are as many as there are replies, so scans end in every order. What
  an ignored finding becomes after a restart takes more than six messages: the run
  `lsp_ignores_restart` has one file and twelve. A message that would start a third
  reply waits.
* **LspSearch.** Two searches and two edits: enough for a file to vanish in the
  first search and for the second one to fail. Four files let the queue have a
  file before, at and after the one that is edited.
* **Cli.** `MaxPieces` = 1 progress report, `MaxLines` = 2 lines of standard error,
  `PipeSize` = 1: the engine can be blocked on either pipe, also by the second line
  with the first unread, and its answer, of two halves, never fits. The readers look only at
  the head of a pipe, so more of the same changes nothing. `MaxTimeouts` = 1 file of
  a run that a rule timed out of, in each of the two scans. `MaxComplete` = 1: the app
  says once that it is not done before the clock decides. `Attempts` = 2 (in the code 4):
  a request can be repeated after the app took it, and the repeated one can
  fail in each way; a third attempt finds the same state as the second, and the proofs
  are for every number. The project has a file
  that is kept, one that is renamed, one that is new and one in a folder of tests,
  two lockfiles in folders that lie in each other, and rules that block and that
  do not. The run has some 27,000 states.

`CHECK_DEADLOCK FALSE` is set where the system really stops: a scan that is done, a
server that has had its messages, a search that is over, calls that have all
ended.

### Fairness

* TimeLimit: time passes, threads run, an exception goes on to its handler, and a
  computation whose token is set comes to an allocation. Nothing is asked of the
  computation itself: it may loop for ever.
* CoreScan: the main thread and every domain keep running. A rule ends because
  `set_timeout` ends it, which is `CallsEnd` of `TimeLimit`; nothing is assumed
  about how it ends, and `Outside`, what others do to the files,
  is never owed.
* LspServer: `Lwt` resumes every promise that is ready, a fetch of rules and a scan
  end in some way. The client owes nothing, not even the next message.
* LspSearch: only the client of the protocol at the top of `Search.ml`, which keeps
  asking until it is told that the search is over.

* Cli: `CoreFairness` says that the event loop serves a reader that has something to
  read, and that the engine gets on with its answer when the pipes take it;
  nothing is assumed to kill it, nor to keep it alive. `GiveUpSoon` is the clock of the
  30 minutes in which ci asks the app. The commands are sequential code: `Advance`
  happens again and again as long as it can. `Spec` says that with `Ready`, the
  state predicate "under way and waiting for nobody", in the place of ENABLED
  of an action that is as long as a command; a `Ready` state in which `Advance`
  could not happen would show as a deadlock, for which the run looks: what else
  may happen there, the last steps of an engine that is no longer waited for and
  `GiveUpSoon`, comes to an end and does not enable `Advance`.

## 4. Proofs

All theorems are checked by TLAPS, for every value of the constants that satisfies
the named assumptions (`TimeLimitAssumption`, `CoreScanAssumption`,
`LspServerAssumption`, `LspSearchAssumption`, `CoreProcessAssumption`,
`AttemptsAssumption`), which say no more than the types: a limit may be
negative, a footprint zero, a target may have no rule, two targets may share a
file, there may be no domain at all; the files of a workspace are listed once
each; the value that stands for "nothing yet" is no result and no search; a pipe
holds at least one piece; `NoError` is no error (`ScanOutputAssumption`); a name that
ends in `.in` is none of the names of lockfiles (`SubprojectsAssumption`). Of
`Invocations` `CliAssumption` says which fields the proofs use and what is in them:
a request has a config, that is a list of files with a list of rules each, a tree for
each of the two commits, what the engine finds in them, answers about dependencies and a
flag for a dry run; a project has finitely many files, whose paths are sequences of at
least one name, and finitely many dependencies and errors about them; the engine finds
finitely many things, with the fields of a finding and without a number, which only the
Python code gives; a join rule has a list of conditions and finitely many rows; the
errors that `--validate` finds have codes of errors, and one of level "error" has not the
code of success, which `core_error_to_semgrep_error` gives to none of them; a request to
the app is answered, refused, lost or never arrives. Which rules, files, findings, settings or answers
there are is left open.

| Theorem | States |
| --- | --- |
| `TimeLimitProofs!TypeCorrect` | `Spec => []TypeOK` |
| `TimeLimitProofs!NoEarlyTimeout` | `Spec => []NoneOnlyAfterLimit` |
| `TimeLimitProofs!KeepsContract` | `Spec => ImplementsLimitedCall` |
| `CoreScanProofs!TypeCorrect` | `Spec => []TypeOK` |
| `CoreScanProofs!NothingLostInSilence` | `Spec => []NoSilentLoss` |
| `CoreScanProofs!KeepsReport` | `Spec => ImplementsScanReport` |
| `CoreScanProofs!TargetsAreAccountedFor` | `Spec => []TargetsAccountedFor` |
| `CoreScanProofs!WhatWasShownIsAccountedFor` | `Spec => []DisplayedIsAccountedFor` |
| `CoreScanProofs!TimeoutsAreBounded` | `Spec => []TimeoutsPerModeBounded` |
| `LspServerProofs!TypeCorrect` | `Spec => []TypeOK` |
| `LspServerProofs!WhatIsDisplayedWasScanned` | `Spec => []DisplayedIsScanned` |
| `LspServerProofs!WorkIsShown` | `Spec => []WorkShowsProgress` |
| `LspServerProofs!CacheCatchesUp` | `Spec => []CacheIsFresh` |
| `LspSearchProofs!TypeCorrect` | `Spec => []TypeOK` |
| `LspSearchProofs!MatchesAreNotLost` | `Spec => []NoMatchLost` |
| `LspSearchProofs!MatchesAreSentOnce` | `Spec => []SentOnce` |
| `CliProofs!ResultIsAlwaysWhole` | `Spec => []ResultIsWhole` |
| `CliProofs!KilledIsNeverParsed` | `Spec => []KilledIsNotParsed` |
| `CliProofs!SettledIsSettled` | `Spec => ScanIsSettledOnce` |
| `CliProofs!AlwaysBackInTheWorkingTree` | `Spec => []BackInTheWorkingTree` |
| `CliProofs!FixesAreAlwaysShown` | `Spec => []FixesAreShown` |
| `ExitProofs!TimeoutsAreAlwaysTold` | `Spec => []TimeoutsAreTold` |
| `ExitProofs!BlockingFindingsAlwaysFail` | `Spec => []BlockingFindingsFail` |
| `ExitProofs!CliTypeOK` | `Spec => []TypeOK` |
| `FindingsProofs!OnlyChangedFilesAreTold` | `Spec => []ChangedFilesOnly` |
| `FindingsProofs!DependenciesAreAlwaysTold` | `Spec => []VulnerableDependenciesAreTold` |
| `FindingsProofs!LockfilesAreNeverShared` | `Spec => []LockfilesAreInOneSubproject` |
| `FindingsProofs!BaselineIsAlwaysSubtracted` | `Spec => BaselineIsSubtracted` |
| `FindingsProofs!TheAppHasTheFindings` | `Spec => []AppHasTheFindings` |
| `FindingsProofs!TextIsAlwaysComplete` | `Spec => []TextIsComplete` |
| `FindingsProofs!FindingsCodeIsAlwaysForFindings` | `Spec => []FindingsCodeIsForFindings` |
| `ScanDataProofs!EveryFileIsAccountedFor` | a file is kept or in the log, under one reason |
| `ScanDataProofs!PruningLosesNothing` | a file in a pruned folder would have been filtered out |
| `ScanDataProofs!GoOrderReverses` | `CmpGolang` from the other side is its opposite |
| `ScanDataProofs!MavenOrderReverses` | `CmpMaven` from the other side is its opposite |

**TimeLimit.** `NoneOnlyAfterLimit` is not inductive: it says nothing of a timer
thread that is about to fire. `IInv` adds what a thread knows (`TimingInv`): while
its call is not finished, the duration that it has counted down is time that the
call has really had, in each of its four positions (in `sleep`, the part of the
nap that is over counts too). `ProgressInv` ties the status of a call to its flag,
and `SequentialInv` says that the calls before a call that has started are over.
The refinement needs `SequentialInv` a second time: a `Tick` lets time pass for all
calls at once, but by `OneLive` only one is live, so `Tick` is one `Expire` of
`LimitedCall` or a stuttering step.

**CoreScan.** `NoSilentLoss` speaks of the end of the scan; the reason lies in the
middle. `WorkInv` says that a busy domain owns its target (the slot is empty and no
other domain has the same one) and that each rule to be run there is still to run,
has ended or has timed out. So when a handler ends, a target without errors has
the matches of all its rules, and a target whose handler raised has an error:
that is `SlotInv`, kept by `StoreStep` for every way to write a slot. `FilterInv` is the
argument about the two looks at the disk: a target that the first one found (`seen`)
has all its rules; nothing is known of the others, as files also appear, and
`NoSilentLoss` excepts them.
`CollateReports` carries the slots over to the final result: a match stays, or its
file has too many and gets an error. `ReportInv` keeps that until the end. For the
refinement, the contract has one bit for the disk, `intact`: what aborts a scan
is a file that is missing or changed, never anything else. `PhaseInv` adds that no target is missing before the second look and
that none is pending after the collation. The other invariants of a scan say of its
end what is true of the slots before it, and each has its own strengthening:
`AccountInv` says that a target that was left out was skipped with its reason, and
`ScannedSlots` that a slot tells of a scan unless no rule was left for it;
`DisplayInv` follows a match on display from the hands of its domain (`InHand`)
to its slot, and over the collation to the result or to the error that took it
away; `CountersInv` counts the rules of a mode that have timed out of the target at
hand, fewer than the threshold until the last one ends the target, and
`OneErrorPerRule` is the bijection between those rules and the errors of the slot.

**LspServer.** Types and progress circles hold each other up: a reply at its
`end_progress` takes a circle away, and that there is one is what `WorkShowsProgress`
says. It is an equation: a step of a reply begins a circle, ends one, raises under
one (`leaked` counts these) or leaves them alone (`Circles`), and the number of replies
at work changes with it (`CirclesStep`). `TaskInv` is what a reply has behind it in each of
its positions: the targets of one that publishes have been recorded, so what it
displays can be cleared (`DisplayInv`, which is `DisplayedIsScanned` in every
phase of the handshake). `FreshInv` is the argument about stale reads. Of a file that
was saved, a scan waits in the queue, or no scan that runs has read an older
version and what is kept is up to date or about to be replaced. With more
than one worker, the scan of a save may end while another worker is still
scanning the version before; that is the moment at which the file goes into `overtaken`
and leaves the invariant until it is saved again. The
exception is needed from two workers on; with one, nothing is ever overtaken.

**LspSearch.** `NoMatchLost` and `SentOnce` are inductive with the types once the
queue is known to hold each file once. The lemmas are about the queue: the place
at which `next_rules_and_file` stops is the first one with matches or an exception
(`FirstStop`, from the least element of a set of naturals), so what it passes over has
no match, and what it leaves is the rest of the queue (`RestOfQueue`).

**Cli.** `CoreInv` is the invariant of the engine process: what is in the pipe of the
output together with what was read is what the engine has written, in its order,
with a lone byte only from a dead one; the reader leaves the progress reports only for
the head of an answer. So a whole answer has come from the pipe of an engine that
wrote both halves, and an engine that wrote none of them ends the reader by an
exception. Every action of the commands leaves the process alone, starts a new run
or takes its result (`CoreMoves`), which carries the invariant over to `Cli`
whatever is asked. `SettledInv` ties the state of the scan at the app to `step`: once
it is failed or complete, either the command is past every step that talks to the app,
or the request that settled it is still under way with failed attempts behind it, of
which the app took no more than there were; while it is sent again what was found
does not change (`IsScan`), so the app gets the same request.
`FolderInv` ties the folder and the working tree to the stage of run_scan, with
the exception on its way out where git failed to remove the tree. `FixInv` follows the
fixes over run_scan and the command: `ci` never asks for more than a dry run, and what
`scan` has fixed is, from that action on, a part of the matches that it is about to
show or has shown; an exception leaves run_scan only before the fixes.

**Cli, the errors and the exit code** (`ExitProofs`). `TimeoutsAreTold` looks at the end
of a command, where nothing can be seen of the moment at which the engine timed out.
`ToldInv` bridges the two: from the answer of the engine on, the handler has an error
for every file of `timedOut`, it only ever gets more errors (of the configs, of
dependencies, of joins, of `SemgrepError`s), and once the output is made neither the
handler nor `timedOut` changes, the second call of run_scan by `ci` included. That the
handler has each error it is given and keeps those it had is a fact about the fold
`HandleSemgrepErrors` (`HandleAll`): the fold of the community modules is a `CHOOSE` of a
recursive function, so it is shown first that such a function exists (`Iterates`, by
induction over a set of naturals, `CountingUp`), then that each of its steps is one
`HandleError`. It takes that what is handled is a list of errors, so the lemmas go
through all that makes errors: reading the configs (`ConfigErrors`), resolving
dependencies (`SubprojectErrors`), joins, timeouts and `--validate`. A timeout is that of
a target of the plan, and the plan is a part of the files (`RulesAreRun`), so a set of
timeouts is finite and becomes a sequence with the same elements.

`StepInv` says which command is at which step, with which stage of run_scan and which
exception: run_scan never raises an error with the code of success. `ExitInv` adds
that from the start of its scan `ci` has a handler without `--strict` and
`--error`, and that it asks for the end of a scan only when it talks to the app. So
output() of `ci` raises for an error whose code is not that of success
(`RaisingIsNotOk`), it raises whenever run_scan did (`FailureRaises`), and an exit with
success past a blocking finding is the verdict of an audit, or the work of
`--suppress-errors` on one of the two errors that `BlockingFindingsFail` names. The
type invariant of `Cli` needs all four: the exit code is one of the codes of the errors
because every error that reaches the handler has one.

**Cli, the findings** (`FindingsProofs`). These properties are about lists that
`Only`, `SortMatches` and `SetToSeq` make, and nothing can be said of a list before it
is known to be one. `ScanDataProofs` has the lemmas: `Only` keeps the elements it
should, each as often as before (`OnlyKept`, `FlatLists`, `OnlyOnce`), sorting gives a
list with the same elements (`SortedList`, by inserting them one by one), and numbering
each element of a class by those of its class before it gives the numbers from zero on,
each once (`CountedBefore`). On these rest the invariants, one for each question:

* `ListsInv`: the findings of every rule are a list, whatever made them, the engine
  (`OwnFindings`), a join rule (`JoinedAre`, `JoinIsFinite`) or dependencies (`ScaLists`,
  where the answers about files have finitely many of these).
* `ChangedInv`, for `ChangedFilesOnly`: the plan of the first scan has changed or named
  files only (`PlanIsAllowed`), the findings of an answer are in the plan (`AnswerIsIn`),
  and what a later step leaves is among them (`LeftAreIn`). The second scan looks at
  other files and other names; its findings are only taken away, never added.
* `DepsStep`, for `VulnerableDependenciesAreTold`: a dependency that a rule is about is
  reachable from a file, and then in a subproject the file belongs to
  (`ReachableBelong`), or it is told of in the lockfile (`UnreachableAre`), and the two
  exclude each other because both compare the same `DependencyKey` (`ScaTells`).
* `LockfilesInv`, for `LockfilesAreInOneSubproject`: each of the four kinds of matcher
  puts the lockfiles that it uses into one subproject each (`PipSorts`, `ExactSorts`,
  `ManifestSorts`, `GradleSorts`: `AreSorted`), a matcher sees only what the ones before
  it have left (`SortedOn`), and each lockfile is used by the matcher that is for it, if
  not earlier (`LockfilesAreHeldOnce`). It takes that no manifest has the name of a
  lockfile but `go.mod`, which is its own (`Matcher`), and that pip comes first: a
  `package.json` under a folder with "requirement" in its name is none of its files, a
  `maven_dep_tree.txt` is. The fold over the matchers, and that of Gradle over the build
  files, is the function of `FoldExists`, which says when a fold has one.
* `CountedInv`, for `BaselineIsSubtracted`: the findings of the engine in both scans are
  numbered by rule, file and code from zero on, each number once (`EngineNumbers`).
  Of two such families, taking away the keys of the second leaves as many of the
  first as it is larger (`NumberedLeft`, `Subtracted`), which is what
  `remove_matches_in_baseline` relies on: it compares keys with these numbers in them,
  not lines.
* `RulesInv` and `AppInv`, for `AppHasTheFindings`: the rules of the configs are lists
  (`ConfigTrees`), so the findings are those of finitely many rules and the report has
  every one (`ReportHas`); between the upload and `complete` nothing changes what was
  shown, so the exit code that is sent is that of the findings on the screen
  (`BlockingAreShown`).
* `CodeInv`, for `FindingsCodeIsForFindings`: where the exit code of findings comes from,
  with `ExitInv` for what `output()` raises and `StepInv` for the ways around it.
* `TextIsComplete` is inductive with `ListsInv` and `RulesInv`. `HasPrinted` says of the
  first findings of a section that each has its line, under the last header of either
  kind (`UnderHeaders`), and the last one ends it; `print_text_output` keeps that with
  each finding, in any order, because it compares with the one before (`NextIsUnder`,
  `PrintedNext`). Sorting the set of a group has each finding once (`SortedOnce`), and a
  finding is in one section for each group that its rules put it in (`TextTells`), so in
  one section if it is of one rule.

**Targets, Versions.** These are theorems about operators, for every tree, pattern and
version; no behaviour is involved. The log of the filters is a partition because each
filter takes from what the one before it has left. Pruning loses nothing because a
glob that matches a folder matches the paths below it (`GlobOfPart`), and the same
holds of a line of `.semgrepignore` (`IgnoredBelow`); the premise is that the last
name of no line matches `.__check__`, which `.*` does, see section 6. The orders are
folded down to `Sign`: the first difference of two sequences is the same place from
both sides, and it is one of both (`DiffersIsMutual`), which takes that a set of
naturals that is not empty has a least element. That the orders are transitive is not
proved, and for pseudo-versions it does not hold: one commit with two times is one version.

**Only model-checked.** Liveness (`TimersExit`, `CallsEnd`, `ScanEnds`, `RepliesEnd`,
`SearchEnds`, `InvocationEnds`, `CommandEnds`), which TLAPS does not handle with
fairness; and of `Cli` one invariant. `OnlyNewFindings` compares the end of the scan with
what there is to find, so it is true of the rules of the instance and not of all: rules
about dependencies and join rules number and place their findings otherwise.
`BaselineIsSubtracted` is the part of it that holds for every rule it names, and is
proved.

Two things in the models are there for the provers. `CiMatches` filters with `Only`, whose
second argument is a set, where `SelectSeq` takes an operator: that the findings stay what
they are while nothing they depend on changes can then be proved (`FindingsStay`); and
`ConfigOf` and `ResolveSubprojects` build their records field by field.

## 5. What the models leave out

* **CoreScan.** The rules are rules for a language (a rule of regexes or of no
  language is never filtered by the targets). A changed file is one whose lines may
  or may not still be there; that its new content may match other rules than
  `NMatches` says is left out: a target is read once, and `NMatches` is what is then
  in it. `fail_fast`, lockfile targets, explanations and profiling, invalid
  rules. The matches of one rule on one target stand together, so the cases that
  depend on their positions (deduplication, ranges) are not here. Rules of one
  mode run in any order, where the code has a fixed one. The order by size is
  left out since domains take targets in any order anyway. The display hook does
  not raise. The heap is the sum of constant footprints of the targets in
  progress.
* **LspServer.** One workspace folder, `only_git_dirty` off, a fetch that gives at
  least one rule or raises, one finding per version of a file with a fingerprint
  that stays. The packets that one stretch of a reply sends are sent at once. `Lwt`
  resumes a reply after a worker, so the order in which results are recorded is that
  in which the scans end. Change of folders, hover,
  code actions, ShowAst and login are not modelled, nor are the responses to
  requests.
* **LspSearch.** One rule stands for the rules of a search; the handlers do not
  block, so each is one step.
* **Cli.** The parsers of lockfiles, YAML and the schema, the ten providers of CI
  metadata (`meta.py`: how each names its environment variables), the login, publish
  and install commands (not registered in `cli.py`), metrics, tracing, the check of
  the version, the launcher, and every output format but the text. A finding is on one
  line, the messages of the findings of one rule are the same, a hash is the key
  it is made of. Two invocations do not run at once. A request that the session has
  given up on is not delivered later. When `start_scan` is repeated the app may make
  another scan, which stays open there: `app` is the last one. An app that has taken
  `complete` does not say "processing" to the same request again.
* **Versions.** Of PEP 440: local versions, epochs, `==x.*`, `===` and legacy specifiers,
  and versions that are a pre-release and a post- or dev-release at once. The
  ranges of Go name versions that parse. Of errors that `generate_reachable_sca_findings`
  catches before another range raises, nothing is told, as in the code.
* **Other parts**: see `PROJECT.json`, "components", with a reason for each.

## 6. Observations on the code

Where code and comment agree, or nothing is promised, the models do what the code
does, and the properties say so where it matters. Things a reader of the Python
should know, all of them visible in the models:

* With `--suppress-errors`, the default, a blocking finding does not fail `ci` when
  `output()` raises (an error of level "error", an output that cannot be written)
  or when the upload fails: both come before the verdict. `BlockingFindingsFail`
  states the exception. `error_handler.py:82` then logs that there were no blocking
  findings.
* The scan is never settled at the app when `output()` raises before
  `report_findings`, when the process exits by `sys.exit` after `start_scan`, or when
  an exception other than a `SemgrepError` leaves run_scan.
* `ci` with a SARIF output counts findings that a comment ignores as blocking
  (`ci.py:812`); `FindingsCodeIsForFindings` states the exception.
* `git worktree remove` runs in a `finally` and raises when `worktree add` failed; the
  timeout of the log of the baseline (`run_scan.py:890`) is no `SemgrepError`.
* With several merge bases, the status is taken against the commit itself and the
  working tree from one merge base.
* A rule that times out in the baseline makes its old findings look new; the user
  is told of the file (`TimeoutsAreTold`), `OnlyNewFindings` leaves it out.
* The working tree of the baseline is scanned with its own `.semgrepignore`. A line
  `.*` in that file prunes every folder, as the walk asks about a file called
  `.__check__`; files in a folder that was pruned are not in the log of skipped files.
* `files_from_git_diff` gives the changed files of the whole repository, whatever the
  target path.
* A join rule whose conditions are all recursive, or that names an empty config,
  ends in an `IndexError`; `--validate` with a pattern and no config ends in an
  exception that is no error of semgrep.
* `golang_version.py:279` and `:299` say that a pre-release comes before its release;
  the code returns 1 for it (`:301`), as for a version that comes after. `CmpGolang`
  does what the code does.
* Two rules with one id (two join rules, say) may have the same finding, and the text
  then has it twice, in two sections if one of the rules blocks. `TextIsComplete` allows
  for that; in the model a section has it once.
* Of two subprojects with the same root, a match belongs to the first one only
  (`find_closest_subproject`).
* With more than one worker, the language server may keep the older of two results of
  a file: `record_results` takes what comes last (`Session.ml:365`), and `CacheIsFresh`
  excepts files so overtaken. The result is replaced by the next scan of the file. The
  end-to-end test of the server sets one job (`Test_LS_e2e.ml:445`); by default there
  is one per processor (`User_settings.ml:31`).
* A range of dependencies or a Go version that does not parse ends the whole scan with
  an error (exit code 2): `run_rules` calls `filter_dependency_aware_rules` and
  `generate_unreachable_sca_findings` outside of any handler, where
  `generate_reachable_sca_findings` catches the same error. It depends on the order of the subprojects:
  one that matches before ends the search of the first of these.
* A `git checkout` that fails in `fix_head_if_github_action` after it has moved HEAD
  leaves the head of the pull request checked out, as the handler is registered only
  after it; an exception of the handler itself is only printed. `CommandEnds` states the
  exception.
* A POST to the app that was taken but not answered is sent again, so `/complete` may
  arrive up to four times; `ScanIsSettledOnce` states what may and may not come
  then. A repeated `start_scan` may leave a scan open at the app for ever.
* The text of a scan with `-e` has no line for the rule (`formatter/text.py:658`), so the
  findings of one file are under its name only.
* A refresh of the rules or a scan of many files that raises leaves its progress circle
  on display: `end_progress` is sent after the work, not by a finalizer
  (`Scan_helpers.ml:269`), and the handler of the reply (`RPC_server.ml:224`) sends none.
  `WorkShowsProgress` counts these circles apart.
* A file that is removed after the filter, or that is edited before its matches are read
  again, makes `Core_scan.scan` return an error with no result at all, where the comment
  at `Core_scan.ml:582` speaks of one target that does not abort the scan.
  `ImplementsScanReport` allows this for such files only.
* `setrlimits_preexec_fn` sorts an unlimited stack, -1, below every number.

## 7. Plan

Done: the engine, the language server and the Python command line. What is left, in
this order:

1. The merge of join rules against a definition by relations.
2. A module for autofix in the engine: overlapping edits of a file, in the order in
   which they are applied, against the set of edits that do not overlap.
3. gitignore levels and the filters of targets in OCaml, against a declarative
   definition of "selected" and against `Targets`.
4. `Diff_scan.ml`, the baseline scan of the engine, against the one of `RunScan`.
5. The prefilter: the CNF of a formula is implied by the formula; the algebra of
   ranges; the worklist of the dataflow.
6. The metadata of CI providers (`meta.py`).
