----------------------------- MODULE ScanOutput -----------------------------
(***************************************************************************)
(* What is shown and with which exit code: output.py, error.py, the errors *)
(* of core_output.py.  An error has a type, a level, a code, a path or     *)
(* NoPath and a rule or NoRule.  A handler is an OutputHandler:            *)
(*   errors    semgrep_structured_errors     shown     has_output          *)
(*   settings  [formats, strict, errorOnFindings, verbose, slow], slow     *)
(*             being the URLs of outputs that do not answer in time        *)
(***************************************************************************)
EXTENDS Integers, Sequences, FiniteSets, SequencesExt, FiniteSetsExt

CONSTANTS NoPath, NoRule, NoError

Ok == 0
Findings == 1
Fatal == 2
TargetParseFailure == 3
RuleParseFailure == 4
MissingConfig == 7
InvalidApiKey == 13

-----------------------------------------------------------------------------
(* Errors *)

\* core_error_to_semgrep_error: the code follows the level, then the type; an
\* error of parsing a target forgets its rule.
CoreErrorToSemgrepError(error) ==
    LET unparsed == error.type \in {"ParseError", "LexicalError", "PartialParsing"}
    IN [type |-> error.type, level |-> error.level, path |-> error.path,
        code |-> CASE error.level = "info" -> Ok
                   [] error.level # "info" /\ unparsed -> TargetParseFailure
                   [] OTHER -> Fatal,
        rule |-> IF error.level # "info" /\ unparsed THEN NoRule ELSE error.rule]

SemgrepErrorOf(code) ==
    [type |-> "SemgrepError", level |-> "error", path |-> NoPath, code |-> code,
     rule |-> NoRule]

\* NoError is no error, whatever the exit code.
ASSUME ScanOutputAssumption == \A code \in 0..14 : SemgrepErrorOf(code) # NoError

\* A dependency that cannot be resolved warns and leaves the exit code alone.
DependencyResolutionError(path) ==
    [type |-> "DependencyResolutionError", level |-> "warn", path |-> path,
     code |-> Ok, rule |-> NoRule]

SelectRealErrors(errors) == SelectSeq(errors, LAMBDA e : e.level = "error")

\* dedup_errors: the last of those with the same code, place and message.
DedupErrors(errors) ==
    LET key(i) == <<errors[i].code, errors[i].path, errors[i].type>>
    IN SetToSeq({errors[i] : i \in {k \in DOMAIN errors :
                    \A j \in DOMAIN errors : j > k => key(j) # key(k)}})

\* to_CliError: a rule error does not tell the temporary file it is in.
CliError(error) ==
    [code |-> error.code, level |-> error.level, type |-> error.type,
     rule_id |-> error.rule,
     path |-> IF error.type \in {"RuleParseError", "PatternParseError"} THEN NoPath
              ELSE error.path]

\* Errors that tell a multi-file analysis fell back to a single file.
IsSpecialInterfileError(error) ==
    error.type \in {"OutOfMemoryDuringInterfile", "TimeoutDuringInterfile"}

-----------------------------------------------------------------------------
(* OutputHandler *)

\* OutputSettings.normalize: the format for each destination.
Normalize(settings) ==
    IF settings.format = "none" THEN settings.outputs
    ELSE (settings.destination :> settings.format) @@ settings.outputs

\* Without any output, or with two formats for one destination, it raises.
ValidOutputs(settings) ==
    IF settings.format = "none" THEN settings.outputs # <<>>
    ELSE settings.destination \notin DOMAIN settings.outputs

NoHandler == [errors |-> <<>>, shown |-> FALSE, settings |-> <<>>]

NewHandler(settings) ==
    [errors |-> <<>>, shown |-> FALSE,
     settings |-> [formats |-> Range(Normalize(settings)), strict |-> settings.strict,
                   errorOnFindings |-> settings.errorOnFindings,
                   verbose |-> settings.verbose, slow |-> settings.slow]]

HasTextOutput(handler) == "text" \in handler.settings.formats

\* handle_semgrep_errors: each error is kept once, but two exceptions of these
\* types are never the same one; a timeout or a missing plugin makes output only
\* when there is a text output to make.
HandleError(handler, error) ==
    LET new == \/ error.type \in {"SemgrepError", "DependencyResolutionError"}
               \/ error \notin ToSet(handler.errors)
    IN [handler EXCEPT
          !.errors = IF new THEN Append(@, error) ELSE @,
          !.shown = @ \/ IF error.type \in {"Timeout", "MissingPlugin"} /\ new
                         THEN HasTextOutput(handler) ELSE TRUE]

HandleSemgrepErrors(handler, errors) == FoldLeft(HandleError, handler, errors)

\* Only a SARIF output keeps the findings that a comment ignores.
KeepIgnores(handler) == "sarif" \in handler.settings.formats

\* _final_raise: the code of the exception that output() ends with, or Ok.
FinalRaise(handler, error) ==
    CASE error = NoError -> Ok
      [] error # NoError /\ error.level = "error" /\ ~IsSpecialInterfileError(error) ->
           error.code
      [] OTHER -> IF handler.settings.strict THEN error.code ELSE Ok

\* Mutant of FinalError: a finding that a comment ignores is one.
FinalErrorOfAny(handler, matches) ==
    IF handler.settings.errorOnFindings /\ matches # {}
    THEN SemgrepErrorOf(Findings)
    ELSE IF handler.errors # <<>> THEN Last(handler.errors) ELSE NoError

\* The final error: findings come before errors, and of the errors only the
\* last one handled counts.
FinalError(handler, matches) ==
    IF handler.settings.errorOnFindings /\ \E m \in matches : ~m.ignored
    THEN SemgrepErrorOf(Findings)
    ELSE IF handler.errors # <<>> THEN Last(handler.errors) ELSE NoError

\* A URL that the output is posted to and that does not answer in time is an
\* error before the final one.
OutputCode(handler, matches) ==
    IF handler.settings.slow # {} THEN Fatal
    ELSE FinalRaise(handler, FinalError(handler, matches))

\* Does output() raise?  A code of 0 can be raised too.
OutputRaises(handler, matches) ==
    LET error == FinalError(handler, matches)
    IN \/ handler.settings.slow # {}
       \/ error # NoError /\ \/ error.level = "error" /\ ~IsSpecialInterfileError(error)
                             \/ handler.settings.strict

\* _make_failed_to_analyze: the files that errors of the engine are about, when
\* it is an error that makes the exit code.
FailedToAnalyze(handler, matches) ==
    IF FinalError(handler, matches) = SemgrepErrorOf(Findings) THEN {}
    ELSE {e.path : e \in {x \in ToSet(handler.errors) : x.path # NoPath}}

\* _build_output: what was skipped is told with --verbose only; text is what
\* the text formatter makes of the findings.
BuildOutput(handler, matches, targets, skipped, text) ==
    [found   |-> matches,
     text    |-> text,
     errors  |-> {CliError(e) : e \in ToSet(handler.errors)},
     failed  |-> FailedToAnalyze(handler, matches),
     scanned |-> targets,
     skipped |-> IF handler.settings.verbose THEN skipped ELSE {}]
=============================================================================
