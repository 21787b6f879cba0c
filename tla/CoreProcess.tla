---------------------------- MODULE CoreProcess ----------------------------
(***************************************************************************)
(* One run of the engine by core_runner.py: StreamingSemgrepCore starts    *)
(* opengrep-core, reads its two streams concurrently until both are at     *)
(* their end, waits for the exit code, and CoreRunner makes the result or  *)
(* an error out of what was read.  A stream is the sequence of the pieces  *)
(* written and not read yet:                                               *)
(*   "dot"    one target is done             "count"  more targets to come *)
(*   "head", "tail"  the two halves of the JSON answer                     *)
(*   "byte"   a lone byte, what a process killed while writing leaves      *)
(*   "line"   a line of the standard error                                 *)
(***************************************************************************)
EXTENDS Integers, Sequences, FiniteSets, FiniteSetsExt

CONSTANTS
    MaxPieces,  \* bound: dots and counts of one run
    MaxLines,   \* bound: lines of the standard error of one run
    PipeSize    \* pieces a pipe holds before its writer blocks

ASSUME CoreProcessAssumption ==
    /\ MaxPieces \in Nat /\ MaxLines \in Nat
    /\ PipeSize \in Nat \ {0}

VARIABLES
    process,    \* of the operating system: [state, code, pieces, lines, json, soft]
    stdout,     \* the pieces in the pipe of the standard output
    stderr,     \* those in the pipe of the standard error
    reader,     \* _core_stdout_processor
    lines,      \* stdout_lines
    listener,   \* _core_stderr_processor
    capture,    \* _capture_stderr
    progress,   \* [done, total] of the progress bar
    call        \* the caller: invoke_semgrep_core

core == <<process, stdout, stderr, reader, lines, listener, capture, progress, call>>

NoProcess == [state |-> "none", code |-> 0, pieces |-> 0, lines |-> 0,
              json |-> "none", soft |-> 0]

CoreInit ==
    /\ process = NoProcess
    /\ stdout = <<>> /\ stderr = <<>>
    /\ reader = "idle" /\ lines = <<>>
    /\ listener = "idle"
    /\ capture = FALSE
    /\ progress = [done |-> 0, total |-> 0]
    /\ call = "none"

-----------------------------------------------------------------------------
(* The stack limit of the child *)

\* int(x / n) rounds towards zero: a third of an unlimited stack, -1, is 0.
Fraction(x, n) == IF x < 0 THEN -((-x) \div n) ELSE x \div n

Candidates(soft, hard) ==
    {Fraction(hard, 3), Fraction(hard, 4), soft * 100, soft * 10, soft * 5,
     1000000000, 512000000, 51200000, 5120000, soft}

\* The candidates are tried from the largest number down, whether a limit is
\* unlimited or not; the first one that setrlimit accepts is kept.
SoftLimit(host) ==
    LET accepted == Candidates(host.soft, host.hard) \cap host.accepted
    IN IF accepted = {} THEN host.soft ELSE Max(accepted)

-----------------------------------------------------------------------------
(* Starting the engine *)

\* invoke_semgrep_core calls execute, with a bar of total steps, on a host with
\* the limits [soft, hard, accepted] on the stack.
Invoke(total, captured, host) ==
    /\ call = "none"
    /\ capture' = captured
    /\ process' = [NoProcess EXCEPT !.state = "running", !.soft = SoftLimit(host)]
    /\ listener' = IF captured THEN "reading" ELSE "done"
    /\ reader' = "dots" /\ lines' = <<>>
    /\ stdout' = <<>> /\ stderr' = <<>>
    /\ progress' = [done |-> 0, total |-> total]
    /\ call' = "reading"

-----------------------------------------------------------------------------
(* The engine: it reports progress, prints its answer and exits, or dies *)

Running == process.state = "running"

Alive == process.state \in {"running", "blocked"}

ReportProgress ==
    /\ Running /\ process.json = "none"
    /\ process.pieces < MaxPieces /\ Len(stdout) < PipeSize
    /\ \E piece \in {"dot", "count"} : stdout' = Append(stdout, piece)
    /\ process' = [process EXCEPT !.pieces = @ + 1]
    /\ UNCHANGED <<stderr, reader, lines, listener, capture, progress, call>>

\* A line that the pipe has no room for stops the engine.
WriteLine ==
    /\ Alive /\ process.lines < MaxLines
    /\ IF capture /\ Len(stderr) >= PipeSize
       THEN process' = [process EXCEPT !.state = "blocked"] /\ UNCHANGED stderr
       ELSE /\ process' = [process EXCEPT !.state = "running", !.lines = @ + 1]
            /\ stderr' = IF capture THEN Append(stderr, "line") ELSE stderr
    /\ UNCHANGED <<stdout, reader, lines, listener, capture, progress, call>>

\* Mutant of WriteAnswer: a pipe that takes anything.
WriteAnswerWithoutRoom ==
    /\ Running /\ process.json # "tail"
    /\ LET half == IF process.json = "none" THEN "head" ELSE "tail"
       IN /\ stdout' = Append(stdout, half)
          /\ process' = [process EXCEPT !.json = half]
    /\ UNCHANGED <<stderr, reader, lines, listener, capture, progress, call>>

WriteAnswer ==
    /\ Running /\ process.json # "tail" /\ Len(stdout) < PipeSize
    /\ LET half == IF process.json = "none" THEN "head" ELSE "tail"
       IN /\ stdout' = Append(stdout, half)
          /\ process' = [process EXCEPT !.json = half]
    /\ UNCHANGED <<stderr, reader, lines, listener, capture, progress, call>>

\* The exit code is 0, or that of an error the answer tells of.
ExitAfterAnswer ==
    /\ Running /\ process.json = "tail"
    /\ \E code \in {0, 2} : process' = [process EXCEPT !.state = "closed", !.code = code]
    /\ UNCHANGED <<stdout, stderr, reader, lines, listener, capture, progress, call>>

\* A fatal error before any answer, or a signal at any moment.
Die ==
    /\ Alive
    /\ \E code \in {2, -9} :
           /\ code = 2 => Running /\ process.json = "none"
           /\ process' = [process EXCEPT !.state = "closed", !.code = code]
    /\ \/ UNCHANGED stdout
       \/ /\ Running /\ process.json = "none" /\ Len(stdout) < PipeSize
          /\ stdout' = Append(stdout, "byte")
    /\ UNCHANGED <<stderr, reader, lines, listener, capture, progress, call>>

\* The streams of a dying process close before its exit code can be had.
Reap ==
    /\ process.state = "closed"
    /\ process' = [process EXCEPT !.state = "exited"]
    /\ UNCHANGED <<stdout, stderr, reader, lines, listener, capture, progress, call>>

-----------------------------------------------------------------------------
(* The two readers of _handle_process_outputs *)

Closed == process.state \in {"closed", "exited"}

\* A dot advances the bar by 3 for this engine, a count adds to its total.
ReadProgress ==
    /\ reader = "dots" /\ stdout # <<>> /\ Head(stdout) \in {"dot", "count"}
    /\ progress' = IF Head(stdout) = "dot" THEN [progress EXCEPT !.done = @ + 3]
                   ELSE [progress EXCEPT !.total = @ + 1]
    /\ stdout' = Tail(stdout)
    /\ UNCHANGED <<process, stderr, reader, lines, listener, capture, call>>

\* The first piece that is neither starts the answer, read in large blocks.
ReadAnswer ==
    /\ \/ reader = "dots" /\ stdout # <<>> /\ Head(stdout) = "head"
       \/ reader = "json" /\ stdout # <<>>
    /\ reader' = "json"
    /\ \E n \in 1..Len(stdout) :
           /\ lines' = lines \o SubSeq(stdout, 1, n)
           /\ stdout' = SubSeq(stdout, n + 1, Len(stdout))
    /\ UNCHANGED <<process, stderr, listener, capture, progress, call>>

ReadToTheEnd ==
    /\ reader = "json" /\ stdout = <<>> /\ Closed
    /\ reader' = "done"
    /\ UNCHANGED <<process, stdout, stderr, lines, listener, capture, progress, call>>

\* Mutant of ReadTooLittle: the end of the stream is the end of the answer.
ReadTooLittleAsEnd ==
    /\ reader = "dots" /\ Closed /\ stdout \in {<<>>, <<"byte">>}
    /\ reader' = "done"
    /\ stdout' = <<>>
    /\ UNCHANGED <<process, stderr, lines, listener, capture, progress, call>>

\* readexactly finds less than it asks for: IncompleteReadError.
ReadTooLittle ==
    /\ reader = "dots" /\ Closed /\ stdout \in {<<>>, <<"byte">>}
    /\ reader' = "raised"
    /\ stdout' = <<>>
    /\ UNCHANGED <<process, stderr, lines, listener, capture, progress, call>>

\* Mutant of ReadLine: the standard error is read once the output is at its end.
ReadLineAfterOutput ==
    /\ listener = "reading" /\ stderr # <<>> /\ reader \in {"done", "raised"}
    /\ stderr' = Tail(stderr)
    /\ UNCHANGED <<process, stdout, reader, lines, listener, capture, progress, call>>

ReadLine ==
    /\ listener = "reading" /\ stderr # <<>>
    /\ stderr' = Tail(stderr)
    /\ UNCHANGED <<process, stdout, reader, lines, listener, capture, progress, call>>

ReadLastLine ==
    /\ listener = "reading" /\ stderr = <<>> /\ Closed
    /\ listener' = "done"
    /\ UNCHANGED <<process, stdout, stderr, reader, lines, capture, progress, call>>

-----------------------------------------------------------------------------
(* The caller *)

\* gather returns when both readers have ended, whatever they ended with.
Gathered == reader \in {"done", "raised"} /\ listener = "done"

\* _parse_core_output: json.loads takes nothing but a whole answer.
Parses == lines = <<"head", "tail">>

\* Mutant of Extract: an answer is enough.
ExtractWhatParses(code) == IF Parses THEN "result" ELSE "failed"

\* _extract_core_output: an exit code that is not 0 fails, with the errors of
\* the answer when there is one; so does an answer that cannot be read.
Extract(code) ==
    IF code # 0 THEN IF Parses THEN "failed_with_errors" ELSE "failed"
    ELSE IF Parses THEN "result" ELSE "failed"

\* execute returns, and the answer is extracted.
Return ==
    /\ call = "reading" /\ Gathered /\ reader = "done"
    /\ process.state = "exited"
    /\ call' = Extract(process.code)
    /\ UNCHANGED <<process, stdout, stderr, reader, lines, listener, capture, progress>>

\* A reader raised: one second is left for the process to exit, and the error
\* is raised again whether it did or not.
Raise ==
    /\ call = "reading" /\ Gathered /\ reader = "raised"
    /\ call' = IF process.state = "exited" THEN "killed" ELSE "killed_running"
    /\ UNCHANGED <<process, stdout, stderr, reader, lines, listener, capture, progress>>

Returned == call \notin {"none", "reading"}

\* The caller has what it wants of this run.
ResetCore ==
    /\ process' = NoProcess /\ stdout' = <<>> /\ stderr' = <<>>
    /\ reader' = "idle" /\ lines' = <<>> /\ listener' = "idle" /\ capture' = FALSE
    /\ progress' = [done |-> 0, total |-> 0] /\ call' = "none"

CoreStep ==
    \/ ReportProgress \/ WriteLine \/ WriteAnswer \/ ExitAfterAnswer \/ Die \/ Reap
    \/ ReadProgress \/ ReadAnswer \/ ReadToTheEnd \/ ReadTooLittle
    \/ ReadLine \/ ReadLastLine
    \/ Return \/ Raise

\* The event loop serves every reader that has something to read, and the
\* process gets on with its work when the pipes take what it prints; nothing
\* is assumed to kill it.
CoreFairness ==
    /\ WF_core(ReadProgress \/ ReadAnswer \/ ReadToTheEnd \/ ReadTooLittle)
    /\ WF_core(ReadLine \/ ReadLastLine)
    /\ WF_core(Return \/ Raise)
    /\ WF_core(WriteAnswer \/ ExitAfterAnswer)
    /\ WF_core(process.state = "blocked" /\ WriteLine)
    /\ WF_core(Reap)

-----------------------------------------------------------------------------
(* Properties *)

CoreTypeOK ==
    /\ process.state \in {"none", "running", "blocked", "closed", "exited"}
    /\ Len(stdout) <= PipeSize /\ Len(stderr) <= PipeSize
    /\ reader \in {"idle", "dots", "json", "done", "raised"}
    /\ listener \in {"idle", "reading", "done"}
    /\ call \in {"none", "reading", "result", "failed", "failed_with_errors",
                 "killed", "killed_running"}

\* Matches are taken from nothing but the whole answer of a process that
\* exited with 0: not from what a killed engine left in the pipe, nor from an
\* engine that failed after it printed its answer.
ResultIsWhole ==
    call = "result" => /\ process.json = "tail" /\ process.code = 0
                       /\ process.state = "exited"

\* Whatever the engine does, with whatever the pipes hold, the call returns:
\* the readers never leave the engine blocked on a full pipe.
InvocationEnds == (call = "reading") ~> Returned

\* An engine that died before it answered is told of as such, with the advice
\* on memory: it is not an internal error of the parsing of the answer.
KilledIsNotParsed ==
    Returned /\ process.json = "none" => call \in {"killed", "killed_running"}
=============================================================================
