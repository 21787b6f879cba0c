---------------------------- MODULE ScanCommand ----------------------------
(***************************************************************************)
(* opengrep scan: commands/scan.py, with what commands/wrapper.py and      *)
(* error_handler.py make of the end of any command.  An invocation has     *)
(*   word       the first argument          settings   of the output       *)
(*   request    for run_scan                version, dumpEngine            *)
(*   secrets, oss   --secrets or --config secrets, --oss-only              *)
(*   tests      <<test>> with --test        validate   --validate          *)
(*   metacheck  the errors that --validate finds in the configs            *)
(***************************************************************************)
EXTENDS RunScan, RuleTests

CONSTANT NoInvocation

VARIABLES
    step,           \* where the command is
    invocation,     \* what was asked
    suppress,       \* error_handler.suppress_errors
    printed,        \* what output() made of the findings, once it was called
    exit            \* the exit code

commandVars == <<step, invocation, suppress, printed, exit>>

NotPrinted == <<>>
NoExit == -1

CommandInit ==
    /\ step = "idle" /\ invocation = NoInvocation
    /\ suppress = FALSE /\ printed = NotPrinted /\ exit = NoExit

\* DefaultGroup: what is not a command is an argument of scan.
ResolveCommand(word) == IF word = "ci" THEN "ci" ELSE "scan"

-----------------------------------------------------------------------------
(* The end of a command *)

\* handle_command_errors: the code of an exception that leaves the command.
WrapperCode(how) == IF how.kind = "crash" THEN Fatal ELSE how.code

\* Mutant of SendIf: with --suppress-errors no build fails.
SendOk(suppressed, code) == IF suppressed THEN Ok ELSE code

\* ErrorHandler.send: with --suppress-errors only findings make a build fail.
SendIf(suppressed, code) ==
    IF ~suppressed \/ code \in {Ok, Findings} THEN code ELSE Ok

Send(code) == SendIf(suppress, code)

\* The function of the command returned, or raised.
LeaveCommand(how) ==
    /\ step' = "done" /\ exit' = Send(WrapperCode(how))
    /\ UNCHANGED <<invocation, suppress>>

\* The outputs that the findings of each rule make.
Outputs(told, found, targets, skips, ci) ==
    BuildOutput(told, AllMatches(found), targets, Skipped(skips),
                IF HasTextOutput(told) THEN FormatText(found, ci) ELSE <<>>)

\* output() without any finding, then what its caller raises unless it did.
ErrorsThen(told, how) ==
    /\ printed' = <<Outputs(told, <<>>, {}, EmptyLog, FALSE)>>
    /\ LeaveCommand(IF OutputRaises(told, {}) THEN Error(OutputCode(told, {})) ELSE how)

-----------------------------------------------------------------------------
(* scan *)

\* What ends the command before a rule is read, in the order of the code.
PreflightOf(asked) ==
    CASE asked.version -> Exit(Ok)
      [] ~asked.version /\ asked.secrets /\ asked.oss -> Exit(Fatal)
      [] OTHER ->
           CASE asked.dumpEngine -> Exit(Ok)
             [] ~asked.dumpEngine /\ asked.request.config.pattern # <<>>
                /\ asked.request.config.lang = "none" -> Exit(Fatal)
             [] OTHER ->
                  CASE asked.tests # <<>> ->
                         IF asked.settings.outputs # <<>> THEN Exit(Fatal)
                         ELSE TestEnds(asked.tests[1])
                    [] asked.tests = <<>> /\ ~ValidOutputs(asked.settings) -> Crash
                    [] OTHER -> NotRaised

\* The engine is decided before the configuration is known.
ScanEngine(asked) ==
    DecideEngineType([flag |-> asked.request.engine, deepByApp |-> FALSE,
                      secrets |-> asked.secrets, loggedIn |-> asked.request.asked.token,
                      ci |-> FALSE, diff |-> FALSE, interfileDiff |-> FALSE,
                      supplyChainOnly |-> FALSE])

\* The call of the command up to run_scan.
CallScan(asked) ==
    /\ step = "idle" /\ ResolveCommand(asked.word) = "scan"
    /\ LET end == PreflightOf(asked)
       IN IF end # NotRaised
          THEN /\ step' = "done" /\ exit' = Send(WrapperCode(end))
               /\ UNCHANGED scanVars
          ELSE IF asked.validate
          THEN /\ step' = "validate"
               /\ handler' = NewHandler(asked.settings)
               /\ UNCHANGED <<exit, stage, request, rules, status, folder, worktree, job,
                              matches, scanned, log, timedOut, fixed, raised>>
          ELSE /\ step' = "scan"
               /\ StartScan([asked.request EXCEPT !.engine = ScanEngine(asked)],
                            asked.settings)
               /\ UNCHANGED exit
    /\ invocation' = asked
    /\ UNCHANGED <<suppress, printed, core>>

-----------------------------------------------------------------------------
(* scan --validate *)

Configs == invocation.request.config

\* Without --config the errors of the engine are read before they are made.
ValidateWithoutEngine ==
    /\ step = "validate" /\ stage = "idle"
    /\ Configs.configs = <<>> \/ GetConfig(Configs).raised
    /\ LeaveCommand(
         CASE Configs.pattern = <<>> /\ Configs.lang = "none" /\ Configs.configs = <<>> ->
                NotRaised
           [] GetConfig(Configs).raised -> Error(GetConfig(Configs).code)
           [] OTHER -> Crash)
    /\ UNCHANGED <<printed, scanVars, core>>

\* The rules that lint rules are run on the configs.
CheckRules ==
    /\ step = "validate" /\ stage = "idle"
    /\ Configs.configs # <<>> /\ ~GetConfig(Configs).raised
    /\ stage' = "metacheck"
    /\ Invoke(IF UxFlavor(invocation.request.invoked) = "minimal" THEN 0 ELSE 1, TRUE,
              invocation.request.host)
    /\ UNCHANGED <<commandVars, request, rules, handler, status, folder, worktree, job,
                   matches, scanned, log, timedOut, fixed, raised>>

MetacheckErrors ==
    IF call = "result" THEN DedupErrors(invocation.metacheck) ELSE <<SemgrepErrorOf(Fatal)>>

\* Any error makes the configuration invalid, be it only an information.
Validated ==
    /\ step = "validate" /\ stage = "metacheck" /\ Returned
    /\ LET errors == ConfigOf([Configs EXCEPT !.forceSchema = TRUE]).errors
                     \o MetacheckErrors
       IN IF errors = <<>>
          THEN LeaveCommand(NotRaised) /\ UNCHANGED <<handler, printed>>
          ELSE /\ handler' = HandleSemgrepErrors(handler, errors)
               /\ ErrorsThen(handler', Error(Fatal))
    /\ stage' = "idle"
    /\ ResetCore
    /\ UNCHANGED <<request, rules, status, folder, worktree, job, matches, scanned, log,
                   timedOut, fixed, raised>>

-----------------------------------------------------------------------------
(* The end of scan *)

\* A SemgrepError of run_scan is told of, and raised again.
ScanFailed ==
    /\ step = "scan" /\ stage = "ended" /\ raised.kind = "error"
    /\ handler' = HandleSemgrepErrors(handler, <<SemgrepErrorOf(raised.code)>>)
    /\ ErrorsThen(handler', raised)
    /\ UNCHANGED <<stage, request, rules, status, folder, worktree, job, matches, scanned,
                   log, timedOut, fixed, raised, core>>

\* Anything else that it raises goes through.
ScanLeft ==
    /\ step = "scan" /\ stage = "ended" /\ raised.kind \in {"exit", "crash"}
    /\ LeaveCommand(raised)
    /\ UNCHANGED <<printed, scanVars, core>>

ScanDone ==
    /\ step = "scan" /\ stage = "ended" /\ raised = NotRaised
    /\ printed' = <<Outputs(handler, matches, scanned, log, FALSE)>>
    /\ LeaveCommand(IF OutputRaises(handler, AllMatches(matches))
                    THEN Error(OutputCode(handler, AllMatches(matches))) ELSE NotRaised)
    /\ UNCHANGED <<scanVars, core>>

ScanCommandStep ==
    \/ ValidateWithoutEngine \/ CheckRules \/ Validated
    \/ ScanFailed \/ ScanLeft \/ ScanDone
=============================================================================
