----------------------------- MODULE CliProofs -----------------------------
(***************************************************************************)
(* What the Python command line guarantees whatever it is asked: for every *)
(* set of invocations, every bound on the engine and every size of a pipe. *)
(* The engine is a matter of CoreProcess alone, for every step of the      *)
(* commands starts it, takes its result or leaves it alone.                *)
(***************************************************************************)
EXTENDS Cli, SequenceTheorems, TLAPS

Pieces == {"dot", "count", "head", "tail", "byte", "line"}

-----------------------------------------------------------------------------
(* The invariant of a run of the engine *)

ProcessInv ==
    /\ process = [state |-> process.state, code |-> process.code,
                  pieces |-> process.pieces, lines |-> process.lines,
                  json |-> process.json, soft |-> process.soft]
    /\ process.state \in {"none", "running", "blocked", "closed", "exited"}
    /\ process.json \in {"none", "head", "tail"}

\* The pieces of an answer in a stream were written.
Written(stream, json) ==
    \A i \in 1..Len(stream) : /\ stream[i] = "head" => json # "none"
                              /\ stream[i] = "tail" => json = "tail"

\* What was read, or can be, was written: half an answer by an engine that
\* began it, its end by one that ended it.
PipeInv ==
    /\ stdout \in Seq(Pieces) /\ stderr \in Seq(Pieces) /\ lines \in Seq(Pieces)
    /\ Len(stdout) <= PipeSize /\ Len(stderr) <= PipeSize
    /\ Written(stdout, process.json) /\ Written(lines, process.json)

\* The reader leaves the progress for an answer only, and the call takes nothing
\* from a reader that raised.
CallInv ==
    /\ reader \in {"idle", "dots", "json", "done", "raised"}
    /\ listener \in {"idle", "reading", "done"}
    /\ call \in {"none", "reading", "result", "failed", "failed_with_errors",
                 "killed", "killed_running"}
    /\ reader \in {"json", "done"} => process.json # "none"
    /\ call \in {"result", "failed", "failed_with_errors"} => reader = "done"
    /\ ResultIsWhole

CoreInv == ProcessInv /\ PipeInv /\ CallInv

-----------------------------------------------------------------------------
(* Streams *)

LEMMA WrittenAppend ==
    ASSUME NEW stream \in Seq(Pieces), NEW piece \in Pieces, NEW json, Written(stream, json),
           piece = "head" => json # "none",
           piece = "tail" => json = "tail"
    PROVE  /\ Append(stream, piece) \in Seq(Pieces)
           /\ Len(Append(stream, piece)) = Len(stream) + 1
           /\ Written(Append(stream, piece), json)
<1> DEFINE longer == Append(stream, piece)
<1>1. /\ longer \in Seq(Pieces)
      /\ Len(longer) = Len(stream) + 1
      /\ \A i \in 1..Len(stream) : longer[i] = stream[i]
      /\ longer[Len(stream) + 1] = piece
  BY AppendProperties
<1>2. Len(stream) \in Nat
  BY LenProperties
<1>3. ASSUME NEW i \in 1..Len(longer)
      PROVE  (longer[i] = "head" => json # "none") /\ (longer[i] = "tail" => json = "tail")
  <2>1. CASE i = Len(stream) + 1
    BY <1>1, <2>1
  <2>2. CASE i # Len(stream) + 1
    <3>1. i \in 1..Len(stream)
      BY <1>1, <1>2, <2>2
    <3>2. QED
      BY <1>1, <3>1 DEF Written
  <2>3. QED
    BY <2>1, <2>2
<1>4. QED
  BY <1>1, <1>3 DEF Written

\* What was written remains so.
LEMMA WrittenLater ==
    ASSUME NEW stream, NEW json, NEW later, Written(stream, json),
           json # "none" => later # "none",
           json = "tail" => later = "tail"
    PROVE  Written(stream, later)
BY DEF Written

LEMMA WrittenPart ==
    ASSUME NEW stream \in Seq(Pieces), NEW json, Written(stream, json),
           NEW m \in Int, NEW n \in Int, 1 <= m, n <= Len(stream)
    PROVE  /\ SubSeq(stream, m, n) \in Seq(Pieces)
           /\ Len(SubSeq(stream, m, n)) <= Len(stream)
           /\ Written(SubSeq(stream, m, n), json)
<1> DEFINE part == SubSeq(stream, m, n)
<1>1. Len(stream) \in Nat /\ \A i \in 1..Len(stream) : stream[i] \in Pieces
  BY LenProperties, ElementOfSeq
<1>2. \A i \in m..n : stream[i] \in Pieces
  BY <1>1
<1>3. /\ part \in Seq(Pieces)
      /\ Len(part) = IF m <= n THEN n - m + 1 ELSE 0
      /\ \A i \in 1..(n - m + 1) : part[i] = stream[m + i - 1]
  BY <1>2, SubSeqProperties
<1>4. ASSUME NEW i \in 1..Len(part)
      PROVE  i \in 1..(n - m + 1) /\ m + i - 1 \in 1..Len(stream)
  BY <1>1, <1>3
<1>5. Written(part, json)
  BY <1>3, <1>4 DEF Written
<1>6. Len(part) <= Len(stream)
  BY <1>1, <1>3
<1>7. QED
  BY <1>3, <1>5, <1>6

LEMMA WrittenConcat ==
    ASSUME NEW s \in Seq(Pieces), NEW t \in Seq(Pieces), NEW json,
           Written(s, json), Written(t, json)
    PROVE  s \o t \in Seq(Pieces) /\ Written(s \o t, json)
<1> DEFINE st == s \o t
<1>1. Len(s) \in Nat /\ Len(t) \in Nat
  BY LenProperties
<1>2. /\ st \in Seq(Pieces)
      /\ Len(st) = Len(s) + Len(t)
      /\ \A i \in 1..(Len(s) + Len(t)) :
             st[i] = IF i <= Len(s) THEN s[i] ELSE t[i - Len(s)]
  BY ConcatProperties
<1>3. ASSUME NEW i \in 1..Len(st)
      PROVE  (st[i] = "head" => json # "none") /\ (st[i] = "tail" => json = "tail")
  <2>1. CASE i <= Len(s)
    BY <1>1, <1>2, <2>1 DEF Written
  <2>2. CASE ~(i <= Len(s))
    <3>1. i - Len(s) \in 1..Len(t)
      BY <1>1, <1>2, <2>2
    <3>2. st[i] = t[i - Len(s)]
      BY <1>2, <2>2
    <3>3. QED
      BY <3>1, <3>2 DEF Written
  <2>3. QED
    BY <2>1, <2>2
<1>4. QED
  BY <1>2, <1>3 DEF Written

\* Reading the first n pieces of a stream.
LEMMA WrittenRest ==
    ASSUME NEW stream \in Seq(Pieces), NEW json, Written(stream, json),
           NEW n \in 1..Len(stream)
    PROVE  /\ SubSeq(stream, 1, n) \in Seq(Pieces) /\ Written(SubSeq(stream, 1, n), json)
           /\ SubSeq(stream, n + 1, Len(stream)) \in Seq(Pieces)
           /\ Len(SubSeq(stream, n + 1, Len(stream))) <= Len(stream)
           /\ Written(SubSeq(stream, n + 1, Len(stream)), json)
<1>1. Len(stream) \in Nat
  BY LenProperties
<1>2. /\ n \in Int /\ 1 \in Int /\ 1 <= 1 /\ n <= Len(stream)
      /\ n + 1 \in Int /\ Len(stream) \in Int /\ 1 <= n + 1 /\ Len(stream) <= Len(stream)
  BY <1>1
<1>3. QED
  BY <1>2, WrittenPart

\* Reading its first piece.
LEMMA WrittenTail ==
    ASSUME NEW stream \in Seq(Pieces), NEW json, Written(stream, json), stream # <<>>
    PROVE  /\ Tail(stream) \in Seq(Pieces)
           /\ Len(Tail(stream)) <= Len(stream)
           /\ Written(Tail(stream), json)
<1>1. 1 \in 1..Len(stream)
  BY LenProperties, EmptySeq
<1>2. Tail(stream) = SubSeq(stream, 1 + 1, Len(stream))
  BY TailIsSubSeq
<1>3. QED
  BY <1>1, <1>2, WrittenRest

-----------------------------------------------------------------------------
(* The engine *)

LEMMA EmptyPipes ==
    /\ <<>> \in Seq(Pieces) /\ Len(<<>>) <= PipeSize
    /\ \A json : Written(<<>>, json)
<1>1. <<>> \in Seq(Pieces) /\ Len(<<>>) = 0
  BY EmptySeq
<1>2. QED
  BY <1>1, CoreProcessAssumption DEF CoreProcessAssumption, Written

LEMMA CoreStarts == CoreInit => CoreInv
BY EmptyPipes DEF CoreInit, CoreInv, ProcessInv, PipeInv, CallInv, ResultIsWhole, NoProcess

LEMMA ResetIsSafe == ResetCore => CoreInv'
BY EmptyPipes DEF ResetCore, CoreInv, ProcessInv, PipeInv, CallInv, ResultIsWhole, NoProcess

LEMMA InvokeIsSafe ==
    ASSUME NEW total, NEW captured, NEW host, Invoke(total, captured, host)
    PROVE  CoreInv'
<1>1. PICK soft : process' = [state |-> "running", code |-> 0, pieces |-> 0, lines |-> 0,
                              json |-> "none", soft |-> soft]
  BY DEF Invoke, NoProcess
<1>2. ProcessInv' /\ process'.json = "none"
  BY <1>1 DEF ProcessInv
<1>3. PipeInv'
  BY <1>2, EmptyPipes DEF Invoke, PipeInv
<1>4. CallInv'
  BY DEF Invoke, CallInv, ResultIsWhole
<1>5. QED
  BY <1>2, <1>3, <1>4 DEF CoreInv

LEMMA UnchangedCoreIsSafe == CoreInv /\ UNCHANGED core => CoreInv'
BY DEF core, CoreInv, ProcessInv, PipeInv, CallInv, ResultIsWhole

LEMMA ReportProgressIsSafe == CoreInv /\ ReportProgress => CoreInv'
<1> SUFFICES ASSUME CoreInv, ReportProgress
             PROVE  CoreInv'
  OBVIOUS
<1>1. PICK piece \in {"dot", "count"} : stdout' = Append(stdout, piece)
  BY DEF ReportProgress
<1>2. process' = [state |-> process.state, code |-> process.code,
                  pieces |-> process.pieces + 1, lines |-> process.lines,
                  json |-> process.json, soft |-> process.soft]
  BY DEF ReportProgress, CoreInv, ProcessInv
<1>3. ProcessInv' /\ process'.state = process.state /\ process'.code = process.code
                  /\ process'.json = process.json
  BY <1>2 DEF CoreInv, ProcessInv
<1>4. /\ Append(stdout, piece) \in Seq(Pieces)
      /\ Len(Append(stdout, piece)) = Len(stdout) + 1
      /\ Written(Append(stdout, piece), process.json)
  BY WrittenAppend DEF CoreInv, PipeInv, Pieces
<1>5. Len(stdout) \in Nat /\ Len(stdout) < PipeSize /\ PipeSize \in Nat
  BY LenProperties, CoreProcessAssumption
     DEF CoreProcessAssumption, CoreInv, PipeInv, ReportProgress
<1>6. PipeInv'
  BY <1>1, <1>3, <1>4, <1>5 DEF CoreInv, PipeInv, ReportProgress
<1>7. CallInv'
  BY <1>3 DEF CoreInv, CallInv, ResultIsWhole, ReportProgress
<1>8. QED
  BY <1>3, <1>6, <1>7 DEF CoreInv

LEMMA WriteLineIsSafe == CoreInv /\ WriteLine => CoreInv'
<1> SUFFICES ASSUME CoreInv, WriteLine
             PROVE  CoreInv'
  OBVIOUS
<1>1. process.state \in {"running", "blocked"}
  BY DEF WriteLine, Alive
<1>2. \E state \in {"running", "blocked"} : \E n :
         process' = [state |-> state, code |-> process.code, pieces |-> process.pieces,
                     lines |-> n, json |-> process.json, soft |-> process.soft]
  <2>1. CASE capture /\ Len(stderr) >= PipeSize
    BY <2>1 DEF WriteLine, CoreInv, ProcessInv
  <2>2. CASE ~(capture /\ Len(stderr) >= PipeSize)
    <3>1. process' = [state |-> "running", code |-> process.code,
                      pieces |-> process.pieces, lines |-> process.lines + 1,
                      json |-> process.json, soft |-> process.soft]
      BY <2>2 DEF WriteLine, CoreInv, ProcessInv
    <3>2. QED
      BY <3>1
  <2>3. QED
    BY <2>1, <2>2
<1>3. ProcessInv' /\ process'.json = process.json /\ process'.code = process.code
  BY <1>2 DEF CoreInv, ProcessInv
<1>4. stderr' \in Seq(Pieces) /\ Len(stderr') <= PipeSize
  <2>1. Len(stderr) \in Nat /\ PipeSize \in Nat
    BY LenProperties, CoreProcessAssumption DEF CoreProcessAssumption, CoreInv, PipeInv
  <2>2. Append(stderr, "line") \in Seq(Pieces) /\ Len(Append(stderr, "line")) = Len(stderr) + 1
    BY AppendProperties DEF CoreInv, PipeInv, Pieces
  <2>3. CASE capture /\ Len(stderr) >= PipeSize
    BY <2>3 DEF WriteLine, CoreInv, PipeInv
  <2>4. CASE capture /\ ~(Len(stderr) >= PipeSize)
    BY <2>1, <2>2, <2>4 DEF WriteLine
  <2>5. CASE ~capture
    BY <2>5 DEF WriteLine, CoreInv, PipeInv
  <2>6. QED
    BY <2>3, <2>4, <2>5
<1>5. PipeInv'
  BY <1>3, <1>4 DEF CoreInv, PipeInv, WriteLine
<1>6. CallInv'
  BY <1>1, <1>3 DEF CoreInv, CallInv, ResultIsWhole, WriteLine
<1>7. QED
  BY <1>3, <1>5, <1>6 DEF CoreInv

LEMMA WriteAnswerIsSafe == CoreInv /\ WriteAnswer => CoreInv'
<1> SUFFICES ASSUME CoreInv, WriteAnswer
             PROVE  CoreInv'
  OBVIOUS
<1> DEFINE half == IF process.json = "none" THEN "head" ELSE "tail"
<1>1. process.json \in {"none", "head"} /\ process.state = "running"
  BY DEF WriteAnswer, Running, CoreInv, ProcessInv
<1>2. process' = [state |-> process.state, code |-> process.code,
                  pieces |-> process.pieces, lines |-> process.lines,
                  json |-> half, soft |-> process.soft]
  BY DEF WriteAnswer, CoreInv, ProcessInv
<1>3. ProcessInv' /\ process'.json = half
  BY <1>2 DEF CoreInv, ProcessInv
<1>4. Written(stdout, half) /\ Written(lines, half)
  BY <1>1, WrittenLater DEF CoreInv, PipeInv
<1>5. /\ Append(stdout, half) \in Seq(Pieces)
      /\ Len(Append(stdout, half)) = Len(stdout) + 1
      /\ Written(Append(stdout, half), half)
  BY <1>1, <1>4, WrittenAppend DEF CoreInv, PipeInv, Pieces
<1>6. Len(stdout) \in Nat /\ Len(stdout) < PipeSize /\ PipeSize \in Nat
  BY LenProperties, CoreProcessAssumption
     DEF CoreProcessAssumption, CoreInv, PipeInv, WriteAnswer
<1>7. PipeInv'
  BY <1>3, <1>4, <1>5, <1>6 DEF CoreInv, PipeInv, WriteAnswer
<1>8. CallInv'
  BY <1>1, <1>3 DEF CoreInv, CallInv, ResultIsWhole, WriteAnswer
<1>9. QED
  BY <1>3, <1>7, <1>8 DEF CoreInv

LEMMA ExitIsSafe == CoreInv /\ (ExitAfterAnswer \/ Reap) => CoreInv'
<1> SUFFICES ASSUME CoreInv, ExitAfterAnswer \/ Reap
             PROVE  CoreInv'
  OBVIOUS
<1>1. /\ process.state \in {"running", "closed"}
      /\ UNCHANGED <<stdout, stderr, reader, lines, listener, call>>
  BY DEF ExitAfterAnswer, Reap, Running
<1>2. \E state \in {"closed", "exited"} : \E code :
         process' = [state |-> state, code |-> code, pieces |-> process.pieces,
                     lines |-> process.lines, json |-> process.json,
                     soft |-> process.soft]
  <2>1. CASE ExitAfterAnswer
    BY <2>1 DEF ExitAfterAnswer, CoreInv, ProcessInv
  <2>2. CASE Reap
    <3>1. process' = [state |-> "exited", code |-> process.code, pieces |-> process.pieces,
                      lines |-> process.lines, json |-> process.json,
                      soft |-> process.soft]
      BY <2>2 DEF Reap, CoreInv, ProcessInv
    <3>2. QED
      BY <3>1
  <2>3. QED
    BY <2>1, <2>2
<1>3. ProcessInv' /\ process'.json = process.json
  BY <1>2 DEF CoreInv, ProcessInv
<1>4. PipeInv'
  BY <1>1, <1>3 DEF CoreInv, PipeInv, Written
<1>5. CallInv'
  BY <1>1, <1>3 DEF CoreInv, CallInv, ResultIsWhole
<1>6. QED
  BY <1>3, <1>4, <1>5 DEF CoreInv

LEMMA DieIsSafe == CoreInv /\ Die => CoreInv'
<1> SUFFICES ASSUME CoreInv, Die
             PROVE  CoreInv'
  OBVIOUS
<1>1. process.state \in {"running", "blocked"}
  BY DEF Die, Alive
<1>2. \E code :
         process' = [state |-> "closed", code |-> code, pieces |-> process.pieces,
                     lines |-> process.lines, json |-> process.json,
                     soft |-> process.soft]
  BY DEF Die, CoreInv, ProcessInv
<1>3. ProcessInv' /\ process'.json = process.json
  BY <1>2 DEF CoreInv, ProcessInv
<1>4. /\ stdout' \in Seq(Pieces) /\ Len(stdout') <= PipeSize
      /\ Written(stdout', process.json)
  <2>1. CASE UNCHANGED stdout
    BY <2>1 DEF CoreInv, PipeInv
  <2>2. CASE Len(stdout) < PipeSize /\ stdout' = Append(stdout, "byte")
    <3>1. /\ Append(stdout, "byte") \in Seq(Pieces)
          /\ Len(Append(stdout, "byte")) = Len(stdout) + 1
          /\ Written(Append(stdout, "byte"), process.json)
      BY WrittenAppend DEF CoreInv, PipeInv, Pieces
    <3>2. Len(stdout) \in Nat /\ PipeSize \in Nat
      BY LenProperties, CoreProcessAssumption DEF CoreProcessAssumption, CoreInv, PipeInv
    <3>3. QED
      BY <2>2, <3>1, <3>2
  <2>3. QED
    BY <2>1, <2>2 DEF Die
<1>5. PipeInv'
  BY <1>3, <1>4 DEF CoreInv, PipeInv, Die
<1>6. CallInv'
  BY <1>1, <1>3 DEF CoreInv, CallInv, ResultIsWhole, Die
<1>7. QED
  BY <1>3, <1>5, <1>6 DEF CoreInv

-----------------------------------------------------------------------------
(* The readers and the caller *)

LEMMA ReadProgressIsSafe == CoreInv /\ ReadProgress => CoreInv'
<1> SUFFICES ASSUME CoreInv, ReadProgress
             PROVE  CoreInv'
  OBVIOUS
<1>1. /\ Tail(stdout) \in Seq(Pieces) /\ Len(Tail(stdout)) <= Len(stdout)
      /\ Written(Tail(stdout), process.json)
  BY WrittenTail DEF CoreInv, PipeInv, ReadProgress
<1>2. Len(stdout) \in Nat /\ Len(Tail(stdout)) \in Nat /\ PipeSize \in Nat
  BY <1>1, LenProperties, CoreProcessAssumption DEF CoreProcessAssumption, CoreInv, PipeInv
<1>3. PipeInv'
  BY <1>1, <1>2 DEF CoreInv, PipeInv, ReadProgress
<1>4. QED
  BY <1>3 DEF CoreInv, ProcessInv, CallInv, ResultIsWhole, ReadProgress

\* An answer is begun only with its first half.
LEMMA ReadAnswerIsSafe == CoreInv /\ ReadAnswer => CoreInv'
<1> SUFFICES ASSUME CoreInv, ReadAnswer
             PROVE  CoreInv'
  OBVIOUS
<1>1. PICK n \in 1..Len(stdout) :
          /\ lines' = lines \o SubSeq(stdout, 1, n)
          /\ stdout' = SubSeq(stdout, n + 1, Len(stdout))
  BY DEF ReadAnswer
<1>2. /\ SubSeq(stdout, 1, n) \in Seq(Pieces)
      /\ Written(SubSeq(stdout, 1, n), process.json)
      /\ stdout' \in Seq(Pieces) /\ Len(stdout') <= Len(stdout)
      /\ Written(stdout', process.json)
  BY <1>1, WrittenRest DEF CoreInv, PipeInv
<1>3. lines' \in Seq(Pieces) /\ Written(lines', process.json)
  BY <1>1, <1>2, WrittenConcat DEF CoreInv, PipeInv
<1>4. Len(stdout) \in Nat /\ Len(stdout') \in Nat /\ PipeSize \in Nat
  BY <1>2, LenProperties, CoreProcessAssumption DEF CoreProcessAssumption, CoreInv, PipeInv
<1>5. PipeInv'
  <2>1. UNCHANGED <<process, stderr>>
    BY DEF ReadAnswer
  <2>2. Len(stdout) <= PipeSize /\ Len(stderr) <= PipeSize /\ stderr \in Seq(Pieces)
    BY DEF CoreInv, PipeInv
  <2>3. Len(stdout') <= PipeSize
    BY <1>2, <1>4, <2>2
  <2>4. QED
    BY <1>2, <1>3, <2>1, <2>2, <2>3 DEF PipeInv
<1>6. process.json # "none"
  <2>1. CASE reader = "json"
    BY <2>1 DEF CoreInv, CallInv
  <2>2. CASE stdout # <<>> /\ Head(stdout) = "head"
    <3>1. 1 \in 1..Len(stdout)
      BY <2>2, EmptySeq, LenProperties DEF CoreInv, PipeInv
    <3>2. QED
      BY <2>2, <3>1 DEF CoreInv, PipeInv, Written
  <2>3. QED
    BY <2>1, <2>2 DEF ReadAnswer
<1>7. CallInv'
  BY <1>6 DEF CoreInv, CallInv, ResultIsWhole, ReadAnswer
<1>8. QED
  BY <1>5, <1>7 DEF CoreInv, ProcessInv, ReadAnswer

LEMMA EndsOfStreamsAreSafe ==
    CoreInv /\ (ReadToTheEnd \/ ReadTooLittle \/ ReadLastLine) => CoreInv'
BY EmptyPipes DEF ReadToTheEnd, ReadTooLittle, ReadLastLine, CoreInv, ProcessInv, PipeInv,
    CallInv, ResultIsWhole

LEMMA ReadLineIsSafe == CoreInv /\ ReadLine => CoreInv'
<1> SUFFICES ASSUME CoreInv, ReadLine
             PROVE  CoreInv'
  OBVIOUS
<1>1. Tail(stderr) \in Seq(Pieces) /\ Len(Tail(stderr)) = Len(stderr) - 1
  BY HeadTailProperties DEF CoreInv, PipeInv, ReadLine
<1>2. Len(stderr) \in Nat /\ PipeSize \in Nat
  BY LenProperties, CoreProcessAssumption DEF CoreProcessAssumption, CoreInv, PipeInv
<1>3. QED
  BY <1>1, <1>2 DEF CoreInv, ProcessInv, PipeInv, CallInv, ResultIsWhole, ReadLine

\* A result is taken only when both halves were read of a process that exited.
LEMMA ReturnIsSafe == CoreInv /\ (Return \/ Raise) => CoreInv'
<1> SUFFICES ASSUME CoreInv
             PROVE  Return \/ Raise => CoreInv'
  OBVIOUS
<1>1. ASSUME Return
      PROVE  CoreInv'
  <2>1. call' \in {"result", "failed", "failed_with_errors"} /\ reader' = "done"
    BY <1>1 DEF Return, Extract
  <2>2. call' = "result" => process.code = 0 /\ lines = <<"head", "tail">>
    BY <1>1 DEF Return, Extract, Parses
  <2>3. lines = <<"head", "tail">> => process.json = "tail"
    BY DEF CoreInv, PipeInv, Written
  <2>4. ResultIsWhole'
    BY <1>1, <2>2, <2>3 DEF Return, ResultIsWhole
  <2>5. QED
    BY <1>1, <2>1, <2>4 DEF Return, CoreInv, ProcessInv, PipeInv, CallInv
<1>2. ASSUME Raise
      PROVE  CoreInv'
  BY <1>2 DEF Raise, CoreInv, ProcessInv, PipeInv, CallInv, ResultIsWhole
<1>3. QED
  BY <1>1, <1>2

LEMMA CoreStepIsSafe == CoreInv /\ CoreStep => CoreInv'
BY ReportProgressIsSafe, WriteLineIsSafe, WriteAnswerIsSafe, ExitIsSafe, DieIsSafe,
   ReadProgressIsSafe, ReadAnswerIsSafe, EndsOfStreamsAreSafe, ReadLineIsSafe, ReturnIsSafe
   DEF CoreStep

-----------------------------------------------------------------------------
(* The commands *)

\* What a step of the commands may do with the engine.
CoreMoves ==
    \/ UNCHANGED core \/ CoreStep \/ ResetCore
    \/ \E total, captured, host : Invoke(total, captured, host)

LEMMA ScanMoves == ScanStep => CoreMoves
<1> USE DEF CoreMoves
<1>1. LoadRules => CoreMoves
  BY DEF LoadRules
<1>2. InitBaseline => CoreMoves
  BY DEF InitBaseline
<1>3. SelectTargets => CoreMoves
  BY DEF SelectTargets
<1>4. Prepare => CoreMoves
  BY DEF Prepare, PrepareRules, RunRules
<1>5. PrepareFails \/ TakeFailure => CoreMoves
  BY DEF PrepareFails, TakeFailure
<1>6. TakeHead => CoreMoves
  BY DEF TakeHead, Answered
<1>7. SkipBaseline => CoreMoves
  BY DEF SkipBaseline
<1>8. GitLogFails => CoreMoves
  BY DEF GitLogFails
<1>9. EnterBaseline \/ EnterBaselineFails => CoreMoves
  BY DEF EnterBaseline, EnterBaselineFails
<1>10. TakeBaseline => CoreMoves
  BY DEF TakeBaseline, Answered
<1>11. LeaveBaseline \/ Finish => CoreMoves
  BY DEF LeaveBaseline, Finish
<1>12. Engine => CoreMoves
  BY DEF Engine
<1>13. QED
  BY <1>1, <1>2, <1>3, <1>4, <1>5, <1>6, <1>7, <1>8, <1>9, <1>10, <1>11, <1>12
     DEF ScanStep, ScanAdvance

LEMMA CommandMoves == ScanCommandStep => CoreMoves
<1> USE DEF CoreMoves
<1>1. ValidateWithoutEngine => CoreMoves
  BY DEF ValidateWithoutEngine
<1>2. CheckRules => CoreMoves
  BY DEF CheckRules
<1>3. Validated => CoreMoves
  BY DEF Validated
<1>4. ScanFailed \/ ScanLeft \/ ScanDone => CoreMoves
  BY DEF ScanFailed, ScanLeft, ScanDone
<1>5. QED
  BY <1>1, <1>2, <1>3, <1>4 DEF ScanCommandStep

LEMMA CiMoves == CiCommandStep \/ GiveUpSoon => CoreMoves
<1> USE DEF CoreMoves
<1>1. ConfigureErrors \/ ReadEnvironment \/ StartCiScan \/ StartWithoutApp => CoreMoves
  BY DEF ConfigureErrors, ReadEnvironment, StartCiScan, StartWithoutApp
<1>2. RunCiScan => CoreMoves
  BY DEF RunCiScan
<1>3. ReportFailure \/ CiFailed \/ CiLeft => CoreMoves
  BY DEF ReportFailure, CiFailed, CiLeft
<1>4. RunHistory \/ TakeHistory \/ SkipHistory => CoreMoves
  BY DEF RunHistory, TakeHistory, SkipHistory
<1>5. ShowFindings \/ SendResults => CoreMoves
  BY DEF ShowFindings, SendResults
<1>6. SendComplete \/ Verdict \/ RestoreCheckout \/ GiveUpSoon => CoreMoves
  BY DEF SendComplete, Verdict, RestoreCheckout, GiveUpSoon
<1>7. QED
  BY <1>1, <1>2, <1>3, <1>4, <1>5, <1>6 DEF CiCommandStep

LEMMA NextMoves == [Next]_vars => CoreMoves
<1>1. Call => CoreMoves
  BY DEF Call, CallScan, CallCi, CoreMoves
<1>2. Exited \/ UNCHANGED vars => CoreMoves
  BY DEF Exited, vars, CoreMoves
<1>3. QED
  BY <1>1, <1>2, ScanMoves, CommandMoves, CiMoves DEF Next, RunScanStep, CommandStep

LEMMA NextIsSafe == CoreInv /\ [Next]_vars => CoreInv'
BY NextMoves, CoreStepIsSafe, ResetIsSafe, InvokeIsSafe, UnchangedCoreIsSafe DEF CoreMoves

\* The invariant of the engine holds of every run of it that a command starts.
THEOREM CoreSafety == Spec => []CoreInv
<1>1. Init => CoreInv
  BY CoreStarts DEF Init
<1>2. QED
  BY <1>1, NextIsSafe, PTL DEF Spec

\* The matches of a scan, and the errors of the rules that --validate checks, are
\* taken from nothing but the whole answer of an engine that exited with 0.
THEOREM ResultIsAlwaysWhole == Spec => []ResultIsWhole
<1>1. CoreInv => ResultIsWhole
  BY DEF CoreInv, CallInv
<1>2. QED
  BY <1>1, CoreSafety, PTL

\* An engine that dies before it answers is told of as killed, at any moment it
\* dies and whatever is left in the pipe.
THEOREM KilledIsNeverParsed == Spec => []KilledIsNotParsed
<1>1. CoreInv => KilledIsNotParsed
  BY DEF CoreInv, CallInv, KilledIsNotParsed, Returned
<1>2. QED
  BY <1>1, CoreSafety, PTL

-----------------------------------------------------------------------------
(* The scan that the app knows of *)

\* The fields of a scan that the app knows.
IsScan ==
    app = [state |-> app.state, tags |-> app.tags, rules |-> app.rules,
           findings |-> app.findings, ignores |-> app.ignores,
           dependencies |-> app.dependencies, code |-> app.code, taken |-> app.taken]

\* What is found stays as it is while it is sent, and the attempts that failed are
\* fewer than those there may be.  Once the app has
\* taken the request that settles the scan, nothing that talks to the app is left to
\* do, or that request is under way: of its failed attempts the app took some.
SettledInv ==
    /\ IsScan
    /\ step \in {"results", "upload", "complete"} => stage = "ended"
    /\ attempts \in Nat /\ attempts < Attempts
    /\ attempts > 0 =>
           \/ step = "connect" /\ HasHandler
           \/ /\ step = "ci_scan" /\ stage = "ended" /\ raised.kind = "error"
              /\ HasHandler /\ ~DryRun
           \/ step = "upload" /\ ~DryRun
           \/ step = "complete"
    /\ app.state \notin {"failed", "complete"} => app.taken = 0
    /\ app.state = "failed" =>
           \/ step \in {"failed", "done"}
           \/ step = "ci_scan" /\ app.taken \in 1..attempts
    /\ app.state = "complete" =>
           \/ step \in {"verdict", "done"}
           \/ step = "complete" /\ app.taken \in 1..attempts
              /\ app.code = SuggestedExitCode

Settled == app.state \in {"failed", "complete"}

\* What a step may do with a scan that is settled.
KeepsSettled ==
    Settled => \/ app' = app
               \/ /\ attempts > 0 /\ app' = [app EXCEPT !.taken = @ + 1]
                  /\ app'.taken <= Attempts

LEMMA SettledStarts == Init => SettledInv
BY AttemptsAssumption DEF Init, CommandInit, CiInit, NoScan, IsScan, SettledInv

LEMMA SameInvocation == UNCHANGED invocation => HasHandler' = HasHandler /\ DryRun' = DryRun
BY DEF HasHandler, DryRun

LEMMA SameScan == UNCHANGED app => IsScan' = IsScan
BY DEF IsScan

\* A step that leaves the app and the results alone and stays settled if it was.
LEMMA SettledRest ==
    ASSUME SettledInv, UNCHANGED <<app, attempts, stage, raised>>,
           \/ step' = "done" /\ attempts = 0
           \/ step' = step /\ UNCHANGED <<matches, handler, invocation, response>>
    PROVE  SettledInv' /\ KeepsSettled
<1>1. KeepsSettled
  BY DEF KeepsSettled
<1>2. CASE step' = "done" /\ attempts = 0
  BY <1>1, <1>2, SameScan DEF SettledInv
<1>3. CASE step' = step /\ UNCHANGED <<matches, handler, invocation, response>>
  <2>1. SuggestedExitCode' = SuggestedExitCode
    BY <1>3 DEF SuggestedExitCode, BlockingMatches, ShownMatches, CiMatches, AllMatches,
                IsTriaged, CiKeepsIgnored, HasHandler
  <2>2. QED
    BY <1>1, <1>3, <2>1, SameInvocation, SameScan DEF SettledInv
<1>4. QED
  BY <1>1, <1>2, <1>3

\* A step of a scan that is not settled.
LEMMA SettledNot ==
    ASSUME SettledInv, UNCHANGED app, ~Settled, attempts' = 0,
           step' \in {"results", "upload", "complete"} => stage' = "ended"
    PROVE  SettledInv' /\ KeepsSettled
BY AttemptsAssumption, SameScan DEF SettledInv, Settled, KeepsSettled

\* After its end run_scan does nothing, whatever the engine may still do.
LEMMA ScanAtEnd == ScanStep => stage # "ended" \/ UNCHANGED scanVars
<1>1. Engine => UNCHANGED scanVars
  BY DEF Engine
<1>2. LoadRules \/ InitBaseline \/ SelectTargets \/ Prepare => stage # "ended"
  BY DEF LoadRules, InitBaseline, SelectTargets, Prepare
<1>3. PrepareFails \/ TakeFailure \/ TakeHead \/ TakeBaseline => stage # "ended"
  BY DEF PrepareFails, TakeFailure, TakeHead, TakeBaseline, Answered
<1>4. SkipBaseline \/ GitLogFails \/ EnterBaseline \/ EnterBaselineFails => stage # "ended"
  BY DEF SkipBaseline, GitLogFails, EnterBaseline, EnterBaselineFails, Comparing
<1>5. LeaveBaseline \/ Finish => stage # "ended"
  BY DEF LeaveBaseline, Finish
<1>6. QED
  BY <1>1, <1>2, <1>3, <1>4, <1>5 DEF ScanStep, ScanAdvance

LEMMA SettledScan == SettledInv /\ ScanStep /\ UNCHANGED <<commandVars, ciVars>>
                        => SettledInv' /\ KeepsSettled
<1> SUFFICES ASSUME SettledInv, ScanStep, UNCHANGED <<commandVars, ciVars>>
             PROVE  SettledInv' /\ KeepsSettled
  OBVIOUS
<1>1. CASE UNCHANGED scanVars
  BY <1>1, SettledRest DEF scanVars, commandVars, ciVars
<1>2. CASE stage # "ended"
  BY <1>2, SameInvocation, SameScan DEF commandVars, ciVars, SettledInv, KeepsSettled
<1>3. QED
  BY <1>1, <1>2, ScanAtEnd

LEMMA SettledCommand == SettledInv /\ ScanCommandStep /\ UNCHANGED ciVars
                           => SettledInv' /\ KeepsSettled
<1> SUFFICES ASSUME SettledInv, ScanCommandStep, UNCHANGED ciVars
             PROVE  SettledInv' /\ KeepsSettled
  OBVIOUS
<1>1. /\ step \in {"validate", "scan"} /\ step' \in {step, "done"}
  <2>1. ValidateWithoutEngine => step = "validate" /\ step' = "done"
    BY DEF ValidateWithoutEngine, LeaveCommand
  <2>2. CheckRules => step = "validate" /\ step' = step
    BY DEF CheckRules, commandVars
  <2>3. Validated => step = "validate" /\ step' = "done"
    BY DEF Validated, ErrorsThen, LeaveCommand
  <2>4. ScanFailed \/ ScanLeft \/ ScanDone => step = "scan" /\ step' = "done"
    BY DEF ScanFailed, ScanLeft, ScanDone, ErrorsThen, LeaveCommand
  <2>5. QED
    BY <2>1, <2>2, <2>3, <2>4 DEF ScanCommandStep
<1>2. UNCHANGED <<app, attempts>>
  BY DEF ciVars
<1>3. ~Settled /\ attempts = 0
  BY <1>1 DEF SettledInv, Settled
<1>4. QED
  BY <1>1, <1>2, <1>3, SettledNot

LEMMA SettledFailure == SettledInv /\ ReportFailure => SettledInv' /\ KeepsSettled
<1> SUFFICES ASSUME SettledInv, ReportFailure
             PROVE  SettledInv' /\ KeepsSettled
  OBVIOUS
<1>1. /\ step = "ci_scan" /\ stage = "ended" /\ raised.kind = "error"
      /\ UNCHANGED <<stage, raised>>
  BY DEF ReportFailure, scanVars
<1>2. CASE UNCHANGED <<app, attempts>> /\ step' = "failed" /\ (~HasHandler \/ DryRun)
  BY <1>1, <1>2, SameScan DEF SettledInv, KeepsSettled
<1>3. ASSUME HasHandler, ~DryRun, NEW answer \in invocation.app.failure, Attempt(answer),
             app' = IF IsNotTaken(answer) THEN app
                    ELSE [app EXCEPT !.state = "failed", !.taken = @ + 1],
             \/ Repeats(answer) /\ UNCHANGED <<step, invocation>>
             \/ ~Repeats(answer) /\ step' \in {"failed", "done"}
      PROVE  SettledInv' /\ KeepsSettled
  <2>1. app.state # "complete" /\ (app.state = "failed" => app.taken \in 1..attempts)
    BY <1>1 DEF SettledInv
  <2>2. attempts' \in Nat /\ attempts' < Attempts /\ attempts' \in {0, attempts + 1}
    BY <1>3, AttemptsAssumption DEF SettledInv, Attempt, Repeats
  <2>3. \/ step' = "ci_scan" /\ HasHandler' /\ ~DryRun' /\ attempts' = attempts + 1
        \/ step' \in {"failed", "done"} /\ attempts' = 0
    BY <1>1, <1>3, SameInvocation DEF Attempt
  <2>4. CASE IsNotTaken(answer)
    BY <1>1, <1>3, <2>1, <2>2, <2>3, <2>4, SameScan DEF SettledInv, KeepsSettled
  <2>5. CASE ~IsNotTaken(answer)
    <3>1. app' = [app EXCEPT !.state = "failed", !.taken = app.taken + 1]
      BY <1>3, <2>5
    <3>2. IsScan'
      BY <3>1 DEF SettledInv, IsScan
    <3>3. app'.taken = app.taken + 1 /\ app'.state = "failed" /\ app.taken \in 0..attempts
      BY <2>1, <3>1 DEF SettledInv, IsScan
    <3>4. SettledInv'
      BY <1>1, <2>2, <2>3, <3>2, <3>3 DEF SettledInv
    <3>5. KeepsSettled
      <4>1. Settled => app.state = "failed" /\ attempts > 0 /\ app.taken \in 1..attempts
        BY <2>1 DEF SettledInv, Settled
      <4>2. app.state = "failed" => app' = [app EXCEPT !.taken = app.taken + 1]
        BY <3>1 DEF SettledInv, IsScan
      <4>3. QED
        BY <3>3, <4>1, <4>2, AttemptsAssumption DEF SettledInv, KeepsSettled
    <3>6. QED
      BY <3>4, <3>5
  <2>6. QED
    BY <2>4, <2>5
<1>4. QED
  BY <1>2, <1>3 DEF ReportFailure, LeaveCommand

\* A request that is repeated leaves the command where it is.
LEMMA AttemptsStay ==
    ASSUME SettledInv, NEW answer, Attempt(answer)
    PROVE  /\ attempts' \in Nat /\ attempts' < Attempts
           /\ attempts' = IF Repeats(answer) THEN attempts + 1 ELSE 0
BY AttemptsAssumption DEF SettledInv, Attempt, Repeats

LEMMA SettledStart == SettledInv /\ StartCiScan => SettledInv' /\ KeepsSettled
<1> SUFFICES ASSUME SettledInv, StartCiScan
             PROVE  SettledInv' /\ KeepsSettled
  OBVIOUS
<1>1. ~Settled /\ step = "connect" /\ HasHandler
  BY DEF StartCiScan, SettledInv, Settled
<1>2. PICK answer \in invocation.app.start :
          /\ Attempt(answer)
          /\ app' = IF answer \in {"ok", "lost"}
                    THEN [app EXCEPT !.state = "open",
                                     !.tags = LoadAllTags(invocation.projectFiles,
                                                          invocation.cwd)]
                    ELSE app
          /\ Repeats(answer) => UNCHANGED <<step, invocation>>
          /\ ~Repeats(answer) => step' \in {"started", "done"}
  BY DEF StartCiScan, LeaveCommand, Repeats
<1>3. attempts' \in Nat /\ attempts' < Attempts /\ (~Repeats(answer) => attempts' = 0)
  BY <1>2, AttemptsStay
<1>4. IsScan' /\ app'.taken = app.taken /\ app'.state \in {app.state, "open"}
  BY <1>2 DEF SettledInv, IsScan
<1>5. \/ step' = "connect" /\ HasHandler'
      \/ step' \in {"started", "done"} /\ attempts' = 0
  BY <1>1, <1>2, <1>3, SameInvocation
<1>6. QED
  BY <1>1, <1>3, <1>4, <1>5 DEF SettledInv, Settled, KeepsSettled

LEMMA SettledResults == SettledInv /\ SendResults => SettledInv' /\ KeepsSettled
<1> SUFFICES ASSUME SettledInv, SendResults
             PROVE  SettledInv' /\ KeepsSettled
  OBVIOUS
<1>1. ~Settled /\ step = "upload" /\ stage = "ended" /\ UNCHANGED stage
  BY DEF SendResults, scanVars, SettledInv, Settled
<1>2. CASE DryRun
  <2>1. UNCHANGED <<app, attempts>> /\ step' = "verdict" /\ attempts = 0
    BY <1>1, <1>2 DEF SendResults, SettledInv
  <2>2. QED
    BY <1>1, <2>1, SettledNot
<1>3. CASE ~DryRun
  <2>1. PICK answer \in invocation.app.results :
            /\ Attempt(answer)
            /\ \/ app' = app
               \/ app' = [app EXCEPT !.rules = RulesToReport,
                                     !.findings = FindingsToReport(FALSE),
                                     !.ignores = FindingsToReport(TRUE),
                                     !.dependencies = IF response.dependencyQuery
                                                      THEN job.dependencies ELSE <<>>]
            /\ Repeats(answer) => UNCHANGED <<step, invocation>>
            /\ ~Repeats(answer) => step' \in {"complete", "done"}
    BY <1>3 DEF SendResults, LeaveCommand, Repeats
  <2>2. /\ attempts' \in Nat /\ attempts' < Attempts
        /\ attempts' = IF Repeats(answer) THEN attempts + 1 ELSE 0
    BY <2>1, AttemptsStay
  <2>3. IsScan' /\ app'.taken = app.taken /\ app'.state = app.state
    BY <2>1 DEF SettledInv, IsScan
  <2>4. step' = "upload" => ~DryRun'
    BY <1>3, <2>1, SameInvocation
  <2>5. QED
    BY <1>1, <2>1, <2>2, <2>3, <2>4 DEF SettledInv, Settled, KeepsSettled
<1>4. QED
  BY <1>2, <1>3

LEMMA SettledComplete == SettledInv /\ SendComplete => SettledInv' /\ KeepsSettled
<1> SUFFICES ASSUME SettledInv, SendComplete
             PROVE  SettledInv' /\ KeepsSettled
  OBVIOUS
<1>1. /\ step = "complete" /\ stage = "ended"
      /\ UNCHANGED <<stage, raised, matches, handler, response>>
      /\ app.state # "failed"
      /\ app.state = "complete" => app.taken \in 1..attempts /\ app.code = SuggestedExitCode
  BY DEF SendComplete, scanVars, SettledInv
<1>2. PICK answer \in invocation.app.complete :
          /\ Attempt(answer)
          /\ answer = "processing" => app.state # "complete"
          /\ \/ app' = app
             \/ /\ answer \in {"ok", "lost"} \/ answer \notin {"ok", "processing"}
                /\ app' = [app EXCEPT !.state = "complete", !.code = SuggestedExitCode,
                                      !.taken = app.taken + 1]
          /\ \/ step' = step /\ UNCHANGED invocation
                /\ (Repeats(answer) \/ answer = "processing")
             \/ ~Repeats(answer) /\ step' \in {"verdict", "done"}
  BY DEF SendComplete, LeaveCommand, IsNotTaken, Repeats
<1>3. /\ attempts' \in Nat /\ attempts' < Attempts
      /\ attempts' = IF Repeats(answer) THEN attempts + 1 ELSE 0
  BY <1>2, AttemptsStay
<1>4. step' = step => SuggestedExitCode' = SuggestedExitCode
  BY <1>1, <1>2
     DEF SuggestedExitCode, BlockingMatches, ShownMatches, CiMatches, AllMatches,
         IsTriaged, CiKeepsIgnored, HasHandler, Repeats
<1>5. CASE app' = app
  <2>1. app.state = "complete" /\ step' = step => Repeats(answer)
    BY <1>1, <1>2
  <2>2. QED
    BY <1>1, <1>2, <1>3, <1>4, <1>5, <2>1, SameScan DEF SettledInv, KeepsSettled
<1>6. CASE /\ answer # "processing"
           /\ app' = [app EXCEPT !.state = "complete", !.code = SuggestedExitCode,
                                 !.taken = app.taken + 1]
  <2>1. /\ IsScan' /\ app'.state = "complete" /\ app'.code = SuggestedExitCode
        /\ app'.taken = app.taken + 1
    BY <1>6 DEF SettledInv, IsScan
  <2>2. app.taken \in 0..attempts
    BY <1>1 DEF SettledInv
  <2>3. SettledInv'
    BY <1>1, <1>2, <1>3, <1>4, <1>6, <2>1, <2>2 DEF SettledInv
  <2>4. app.state = "complete" => app' = [app EXCEPT !.taken = app.taken + 1]
    BY <1>1, <1>6 DEF SettledInv, IsScan
  <2>5. KeepsSettled
    BY <1>1, <2>1, <2>4, AttemptsAssumption DEF SettledInv, Settled, KeepsSettled
  <2>6. QED
    BY <2>3, <2>5
<1>7. QED
  BY <1>2, <1>5, <1>6

LEMMA SettledCi == SettledInv /\ CiCommandStep => SettledInv' /\ KeepsSettled
<1> SUFFICES ASSUME SettledInv
             PROVE  CiCommandStep => SettledInv' /\ KeepsSettled
  OBVIOUS
<1> DEFINE Goal == SettledInv' /\ KeepsSettled
<1>1. ConfigureErrors \/ ReadEnvironment \/ StartWithoutApp => Goal
  <2> SUFFICES ASSUME ConfigureErrors \/ ReadEnvironment \/ StartWithoutApp
               PROVE  Goal
    OBVIOUS
  <2>1. /\ UNCHANGED <<app, attempts>> /\ step \in {"configure", "environment", "connect"}
        /\ step' \notin {"results", "upload", "complete"}
        /\ step = "connect" => ~HasHandler
    BY DEF ConfigureErrors, ReadEnvironment, FixHead, LeaveCommand, StartWithoutApp, ciVars
  <2>2. ~Settled
    BY <2>1 DEF SettledInv, Settled
  <2>3. attempts = 0
    BY <2>1 DEF SettledInv
  <2>4. QED
    BY <2>1, <2>2, <2>3, SettledNot
<1>2. RunCiScan => Goal
  <2> SUFFICES ASSUME RunCiScan
               PROVE  Goal
    OBVIOUS
  <2>1. UNCHANGED <<app, attempts>> /\ step = "started" /\ step' \in {"ci_scan", "done"}
    BY DEF RunCiScan, LeaveCommand, ciVars
  <2>2. QED
    BY <2>1, SettledNot DEF SettledInv, Settled
<1>3. CiFailed \/ CiLeft \/ Verdict => Goal
  <2> SUFFICES ASSUME CiFailed \/ CiLeft \/ Verdict
               PROVE  Goal
    OBVIOUS
  <2>1. UNCHANGED <<app, attempts>> /\ step' = "done"
    BY DEF CiFailed, CiLeft, Verdict, ciVars, ErrorsThen, LeaveCommand
  <2>2. CASE CiFailed \/ Verdict
    <3>1. step \in {"failed", "verdict"}
      BY <2>2 DEF CiFailed, Verdict
    <3>2. QED
      BY <2>1, <3>1, SameScan DEF SettledInv, KeepsSettled
  <2>3. CASE CiLeft
    <3>1. step = "ci_scan" /\ raised.kind # "error"
      BY <2>3 DEF CiLeft
    <3>2. QED
      BY <2>1, <3>1, SettledNot DEF SettledInv, Settled
  <2>4. QED
    BY <2>2, <2>3
<1>4. RunHistory \/ TakeHistory \/ SkipHistory \/ ShowFindings => Goal
  <2> SUFFICES ASSUME RunHistory \/ TakeHistory \/ SkipHistory \/ ShowFindings
               PROVE  Goal
    OBVIOUS
  <2>1. /\ UNCHANGED <<app, attempts>> /\ step \in {"ci_scan", "ci_history", "results"}
        /\ step = "ci_scan" => raised = NotRaised
        /\ step' \in {"results", "upload"} => stage = "ended" /\ UNCHANGED stage
        /\ step' # "complete"
    BY DEF RunHistory, TakeHistory, SkipHistory, ShowFindings, LeaveCommand, ciVars, scanVars,
           SettledInv
  <2>2. attempts = 0
    BY <2>1 DEF SettledInv, NotRaised
  <2>3. ~Settled
    BY <2>1, <2>2 DEF SettledInv, Settled
  <2>4. QED
    BY <2>1, <2>2, <2>3, SettledNot
<1>5. RestoreCheckout => Goal
  <2> SUFFICES ASSUME RestoreCheckout
               PROVE  Goal
    OBVIOUS
  <2>1. /\ UNCHANGED <<app, attempts, stage, raised>> /\ step' = step
        /\ UNCHANGED <<matches, handler, invocation, response>>
    BY DEF RestoreCheckout, commandVars, scanVars
  <2>2. QED
    BY <2>1, SettledRest
<1>6. QED
  BY <1>1, <1>2, <1>3, <1>4, <1>5, SettledStart, SettledFailure, SettledResults, SettledComplete
     DEF CiCommandStep

LEMMA SettledStep == SettledInv /\ [Next]_vars => SettledInv' /\ KeepsSettled
<1> SUFFICES ASSUME SettledInv, [Next]_vars
             PROVE  SettledInv' /\ KeepsSettled
  OBVIOUS
<1>1. CASE Call
  <2>1. /\ UNCHANGED <<app, attempts>> /\ step = "idle"
        /\ step' \notin {"results", "upload", "complete"}
    BY <1>1 DEF Call, CallScan, CallCi, ciVars
  <2>2. QED
    BY <2>1, SettledNot DEF SettledInv, Settled
<1>2. CASE RunScanStep
  BY <1>2, SettledScan DEF RunScanStep
<1>3. CASE CommandStep
  BY <1>3, SettledCommand DEF CommandStep
<1>4. CASE CiCommandStep
  BY <1>4, SettledCi
<1>5. CASE GiveUpSoon
  BY <1>5, SettledRest DEF GiveUpSoon, commandVars, scanVars
<1>6. CASE Exited \/ UNCHANGED vars
  BY <1>6, SettledRest DEF Exited, vars, commandVars, ciVars, scanVars
<1>7. QED
  BY <1>1, <1>2, <1>3, <1>4, <1>5, <1>6 DEF Next

\* Whatever run_scan, the app and the network do, the app gets nothing more of a
\* scan that it was told has failed or is complete but the same request again, while
\* the answer to it is missing and the session has attempts left.
THEOREM SettledIsSettled == Spec => ScanIsSettledOnce
<1>1. SettledInv /\ [Next]_vars
          => [app.state \in {"failed", "complete"} =>
                 \/ app' = app
                 \/ /\ attempts > 0 /\ app' = [app EXCEPT !.taken = @ + 1]
                    /\ app'.taken <= Attempts]_vars
  BY SettledStep DEF KeepsSettled, Settled
<1>2. QED
  BY <1>1, SettledStarts, SettledStep, PTL DEF Spec, ScanIsSettledOnce

-----------------------------------------------------------------------------
(* The current folder *)

\* The process is in the temporary working tree only between the two ends of
\* baseline_context; out of it there is no such tree but one that git failed to
\* remove.  A scan starts where the command was called.
FolderInv ==
    /\ folder \in {"head", "worktree"}
    /\ folder = "worktree" => stage \in {"prepare", "engine", "restore"}
    /\ folder = "head" /\ worktree # NoCommit => stage = "ended" /\ raised.kind = "error"
    /\ step \in {"idle", "configure", "environment", "connect", "started"} => stage = "idle"

LEMMA FolderStarts == Init => FolderInv
BY DEF Init, CommandInit, ScanInit, FolderInv

\* Steps of the command from a stage at which the process is where it started.
LEMMA FolderRest ==
    ASSUME FolderInv, UNCHANGED <<folder, worktree, stage, raised>>,
           step' \in {"idle", "configure", "environment", "connect", "started"} =>
               step \in {"idle", "configure", "environment", "connect", "started"}
    PROVE  FolderInv'
BY DEF FolderInv

LEMMA FolderScan == FolderInv /\ ScanStep /\ UNCHANGED commandVars => FolderInv'
<1> SUFFICES ASSUME FolderInv, UNCHANGED commandVars
             PROVE  ScanStep => FolderInv'
  OBVIOUS
<1> USE DEF FolderInv, commandVars
<1>1. LoadRules => FolderInv'
  BY DEF LoadRules, Ends, Error, Exit
<1>2. InitBaseline \/ SelectTargets => FolderInv'
  BY DEF InitBaseline, SelectTargets, Ends, Error, Exit
<1>3. Prepare => FolderInv'
  BY DEF Prepare, PrepareRules, RunRules, RulesRaise, Error
<1>4. PrepareFails \/ TakeFailure => FolderInv'
  BY DEF PrepareFails, TakeFailure, RulesRaise, Error
<1>5. TakeHead => FolderInv'
  BY DEF TakeHead, Answered
<1>6. SkipBaseline => FolderInv'
  BY DEF SkipBaseline
<1>7. GitLogFails \/ EnterBaselineFails => FolderInv'
  BY DEF GitLogFails, EnterBaselineFails, Comparing, Ends
<1>8. EnterBaseline => FolderInv'
  BY DEF EnterBaseline, Comparing
<1>9. TakeBaseline => FolderInv'
  BY DEF TakeBaseline, Answered
<1>10. LeaveBaseline => FolderInv'
  BY DEF LeaveBaseline, Ends, Error
<1>11. Finish => FolderInv'
  BY DEF Finish, Ends, NotRaised
<1>12. Engine => FolderInv'
  BY DEF Engine, scanVars
<1>13. QED
  BY <1>1, <1>2, <1>3, <1>4, <1>5, <1>6, <1>7, <1>8, <1>9, <1>10, <1>11, <1>12
     DEF ScanStep, ScanAdvance

LEMMA FolderCommand == FolderInv /\ ScanCommandStep => FolderInv'
<1> SUFFICES ASSUME FolderInv
             PROVE  ScanCommandStep => FolderInv'
  OBVIOUS
<1>1. ValidateWithoutEngine \/ ScanLeft \/ ScanDone => FolderInv'
  BY FolderRest DEF ValidateWithoutEngine, ScanLeft, ScanDone, LeaveCommand, scanVars
<1>2. CheckRules => FolderInv'
  BY DEF CheckRules, commandVars, FolderInv
<1>3. Validated => FolderInv'
  BY DEF Validated, ErrorsThen, LeaveCommand, FolderInv
<1>4. ScanFailed => FolderInv'
  BY FolderRest DEF ScanFailed, ErrorsThen, LeaveCommand
<1>5. QED
  BY <1>1, <1>2, <1>3, <1>4 DEF ScanCommandStep

LEMMA FolderCi == FolderInv /\ CiCommandStep => FolderInv'
<1> SUFFICES ASSUME FolderInv
             PROVE  CiCommandStep => FolderInv'
  OBVIOUS
<1>1. ConfigureErrors \/ StartWithoutApp => FolderInv'
  BY FolderRest DEF ConfigureErrors, StartWithoutApp, scanVars
<1>2. ReadEnvironment => FolderInv'
  BY FolderRest DEF ReadEnvironment, LeaveCommand, scanVars
<1>3. StartCiScan => FolderInv'
  <2> SUFFICES ASSUME StartCiScan
               PROVE  FolderInv'
    OBVIOUS
  <2>1. UNCHANGED <<folder, worktree, stage, raised>> /\ step = "connect"
    BY DEF StartCiScan, scanVars
  <2>2. QED
    BY <2>1, FolderRest
<1>4. RunCiScan => FolderInv'
  BY DEF RunCiScan, LeaveCommand, StartScan, Ends, Error, scanVars, FolderInv
<1>5. ReportFailure => FolderInv'
  BY FolderRest DEF ReportFailure, LeaveCommand, scanVars
<1>6. CiFailed \/ CiLeft \/ SkipHistory => FolderInv'
  BY FolderRest DEF CiFailed, CiLeft, SkipHistory, ErrorsThen, LeaveCommand, scanVars
<1>7. RunHistory => FolderInv'
  BY DEF RunHistory, FolderInv, NotRaised
<1>8. TakeHistory => FolderInv'
  BY FolderRest DEF TakeHistory, LeaveCommand
<1>9. ShowFindings => FolderInv'
  BY FolderRest DEF ShowFindings, LeaveCommand, scanVars
<1>10. SendResults => FolderInv'
  BY FolderRest DEF SendResults, LeaveCommand, scanVars
<1>11. SendComplete => FolderInv'
  BY FolderRest DEF SendComplete, LeaveCommand, commandVars, scanVars
<1>12. Verdict \/ RestoreCheckout => FolderInv'
  BY FolderRest DEF Verdict, RestoreCheckout, LeaveCommand, commandVars, scanVars
<1>13. QED
  BY <1>1, <1>2, <1>3, <1>4, <1>5, <1>6, <1>7, <1>8, <1>9, <1>10, <1>11, <1>12
     DEF CiCommandStep

LEMMA FolderStep == FolderInv /\ [Next]_vars => FolderInv'
<1> SUFFICES ASSUME FolderInv, [Next]_vars
             PROVE  FolderInv'
  OBVIOUS
<1>1. CASE \E asked \in Invocations : CallScan(asked)
  BY <1>1 DEF CallScan, StartScan, scanVars, FolderInv
<1>2. CASE \E asked \in Invocations : CallCi(asked)
  BY <1>2, FolderRest DEF CallCi, scanVars
<1>3. CASE RunScanStep
  BY <1>3, FolderScan DEF RunScanStep
<1>4. CASE CommandStep
  BY <1>4, FolderCommand DEF CommandStep
<1>5. CASE CiCommandStep
  BY <1>5, FolderCi
<1>6. CASE GiveUpSoon
  BY <1>6, FolderRest DEF GiveUpSoon, commandVars, scanVars
<1>7. CASE Exited \/ UNCHANGED vars
  BY <1>7, FolderRest DEF Exited, vars, commandVars, scanVars
<1>8. QED
  BY <1>1, <1>2, <1>3, <1>4, <1>5, <1>6, <1>7 DEF Next, Call

\* Every end of run_scan, be it an exception in the working tree of the baseline,
\* leaves the process in the folder it was called in.
THEOREM AlwaysBackInTheWorkingTree == Spec => []BackInTheWorkingTree
<1>1. FolderInv => BackInTheWorkingTree
  BY DEF FolderInv, BackInTheWorkingTree
<1>2. QED
  BY <1>1, FolderStarts, FolderStep, PTL DEF Spec
-----------------------------------------------------------------------------
(* Fixes *)

InRunScan == {"scan", "ci_scan", "ci_history"}

\* run_scan is under way for a command that waits for it, ci never asks for more
\* than a dry run, and what scan fixed is what it is about to show, or has shown.
FixInv ==
    /\ step # "idle" => invocation \in Invocations
    /\ step \in {"idle", "configure", "environment", "connect", "started"} => stage = "idle"
    /\ stage \notin {"idle", "metacheck", "ended"} => step \in InRunScan
    /\ step \in {"ci_scan", "ci_history"} /\ (stage # "ended" \/ raised = NotRaised) =>
           "dryrun" \in DOMAIN request /\ request.dryrun
    /\ fixed # {} =>
           \/ /\ step = "scan" /\ stage = "ended" /\ raised = NotRaised
              /\ fixed \subseteq AllMatches(matches)
           \/ step = "done" /\ printed # <<>> /\ fixed \subseteq printed[1].found

LEMMA FixStarts == Init => FixInv
BY DEF Init, CommandInit, ScanInit, FixInv, InRunScan

\* A command ends, or goes on, without fixes.
LEMMA FixRest ==
    ASSUME FixInv, UNCHANGED <<invocation, stage, request, raised, fixed>>,
           fixed = {}, step # "idle",
           step' \in {"idle", "configure", "environment", "connect", "started"} => stage = "idle",
           stage \in {"idle", "metacheck", "ended"},
           step' \in {"ci_scan", "ci_history"} => step' = step
    PROVE  FixInv'
BY DEF FixInv

\* The fixes are those of findings that are kept.
LEMMA FixesAreKept ==
    ASSUME NEW kept
    PROVE  /\ FixesOf(kept) \subseteq AllMatches(kept)
           /\ request.dryrun => FixesOf(kept) = {}
BY DEF FixesOf

\* A step of run_scan before its end fixes nothing and stays in run_scan.
LEMMA FixScan == FixInv /\ ScanStep /\ UNCHANGED commandVars => FixInv'
<1> SUFFICES ASSUME FixInv, UNCHANGED commandVars
             PROVE  ScanStep => FixInv'
  OBVIOUS
<1> USE DEF commandVars
<1> DEFINE Goes == /\ UNCHANGED <<request, fixed>>
                   /\ stage \notin {"idle", "metacheck", "ended"}
                   /\ stage' \notin {"idle", "metacheck"}
<1>1. Goes => FixInv'
  BY DEF FixInv, InRunScan
<1>2. LoadRules \/ InitBaseline \/ SelectTargets => Goes
  BY DEF LoadRules, InitBaseline, SelectTargets, Ends
<1>3. Prepare => Goes
  BY DEF Prepare, PrepareRules, RunRules, RulesRaise
<1>4. PrepareFails \/ TakeFailure => Goes
  BY DEF PrepareFails, TakeFailure, RulesRaise
<1>5. TakeHead \/ TakeBaseline => Goes
  BY DEF TakeHead, TakeBaseline, Answered
<1>6. SkipBaseline => Goes
  BY DEF SkipBaseline, Comparing
<1>7. GitLogFails \/ EnterBaselineFails \/ EnterBaseline => Goes
  BY DEF GitLogFails, EnterBaselineFails, EnterBaseline, Comparing, Ends
<1>8. LeaveBaseline => Goes
  BY DEF LeaveBaseline, Ends
<1>9. Finish => FixInv'
  <2> SUFFICES ASSUME Finish
               PROVE  FixInv'
    OBVIOUS
  <2>1. /\ stage = "finish" /\ stage' = "ended" /\ raised' = NotRaised
        /\ UNCHANGED <<request, step, invocation, printed>>
        /\ fixed' = FixesOf(matches')
    BY DEF Finish, Ends
  <2>2. fixed' \subseteq AllMatches(matches') /\ (request.dryrun => fixed' = {})
    BY <2>1, FixesAreKept
  <2>3. step \in InRunScan
    BY <2>1 DEF FixInv
  <2>4. QED
    BY <2>1, <2>2, <2>3 DEF FixInv, InRunScan
<1>10. Engine => FixInv'
  BY DEF Engine, scanVars, FixInv
<1>11. QED
  BY <1>1, <1>2, <1>3, <1>4, <1>5, <1>6, <1>7, <1>8, <1>9, <1>10 DEF ScanStep, ScanAdvance

\* The findings of an output are those it was made of.
LEMMA OutputsFound ==
    ASSUME NEW told, NEW found, NEW targets, NEW skips, NEW ci
    PROVE  Outputs(told, found, targets, skips, ci).found = AllMatches(found)
BY DEF Outputs, BuildOutput

\* scan shows the findings it fixed; when run_scan raised there are none.
LEMMA FixCommand == FixInv /\ ScanCommandStep => FixInv'
<1> SUFFICES ASSUME FixInv
             PROVE  ScanCommandStep => FixInv'
  OBVIOUS
<1>1. ValidateWithoutEngine => FixInv'
  BY FixRest DEF ValidateWithoutEngine, LeaveCommand, scanVars, FixInv
<1>2. CheckRules => FixInv'
  BY DEF CheckRules, commandVars, FixInv
<1>3. Validated => FixInv'
  BY DEF Validated, ErrorsThen, LeaveCommand, FixInv
<1>4. ScanFailed => FixInv'
  <2> SUFFICES ASSUME ScanFailed
               PROVE  FixInv'
    OBVIOUS
  <2>1. /\ step = "scan" /\ stage = "ended" /\ raised.kind = "error" /\ step' = "done"
        /\ UNCHANGED <<invocation, stage, request, raised, fixed>>
    BY DEF ScanFailed, ErrorsThen, LeaveCommand
  <2>2. fixed = {}
    BY <2>1 DEF FixInv, NotRaised
  <2>3. QED
    BY <2>1, <2>2, FixRest
<1>5. ScanLeft => FixInv'
  BY FixRest DEF ScanLeft, LeaveCommand, scanVars, NotRaised, FixInv
<1>6. ScanDone => FixInv'
  <2> SUFFICES ASSUME ScanDone
               PROVE  FixInv'
    OBVIOUS
  <2>1. printed' # <<>> /\ printed'[1].found = AllMatches(matches)
    BY OutputsFound DEF ScanDone
  <2>2. /\ step = "scan" /\ step' = "done" /\ stage = "ended"
        /\ UNCHANGED <<invocation, stage, request, raised, fixed>>
    BY DEF ScanDone, LeaveCommand, scanVars
  <2>3. QED
    BY <2>1, <2>2 DEF FixInv
<1>7. QED
  BY <1>1, <1>2, <1>3, <1>4, <1>5, <1>6 DEF ScanCommandStep

\* ci asks for a dry run, of the first scan and of that of the history.
LEMMA CiIsDry ==
    ASSUME FixInv, step = "started"
    PROVE  "dryrun" \in DOMAIN CiRequest /\ CiRequest.dryrun
<1>1. "dryrun" \in DOMAIN invocation.request
  BY CliAssumption DEF FixInv, IsRequest
<1>2. QED
  BY <1>1 DEF CiRequest

LEMMA FixCi == FixInv /\ CiCommandStep => FixInv'
<1> SUFFICES ASSUME FixInv
             PROVE  CiCommandStep => FixInv'
  OBVIOUS
<1>1. ConfigureErrors \/ StartWithoutApp => FixInv'
  BY FixRest DEF ConfigureErrors, StartWithoutApp, scanVars, FixInv
<1>2. ReadEnvironment => FixInv'
  <2> SUFFICES ASSUME ReadEnvironment
               PROVE  FixInv'
    OBVIOUS
  <2>1. /\ UNCHANGED <<invocation, scanVars>> /\ step = "environment"
        /\ step' \in {"connect", "done"}
    BY DEF ReadEnvironment, FixHead, LeaveCommand
  <2>2. QED
    BY <2>1, FixRest DEF scanVars, FixInv
<1>3. StartCiScan => FixInv'
  <2> SUFFICES ASSUME StartCiScan
               PROVE  FixInv'
    OBVIOUS
  <2>1. /\ UNCHANGED <<invocation, scanVars>> /\ step = "connect"
        /\ step' \in {"connect", "started", "done"}
    BY DEF StartCiScan, LeaveCommand
  <2>2. QED
    BY <2>1, FixRest DEF scanVars, FixInv
<1>4. RunCiScan => FixInv'
  <2> SUFFICES ASSUME RunCiScan
               PROVE  FixInv'
    OBVIOUS
  <2>1. /\ step = "started" /\ UNCHANGED <<invocation, printed, fixed>>
        /\ \/ step' = "done" /\ UNCHANGED scanVars
           \/ step' = "ci_scan" /\ stage' = "ended" /\ raised' = Error(Fatal)
           \/ step' = "ci_scan" /\ stage' = "config" /\ request' = CiRequest
    BY DEF RunCiScan, LeaveCommand, StartScan, Ends, scanVars
  <2>2. fixed = {} /\ invocation \in Invocations /\ stage = "idle"
    BY <2>1 DEF FixInv
  <2>3. CASE step' = "done" /\ UNCHANGED scanVars
    BY <2>1, <2>2, <2>3 DEF FixInv, scanVars
  <2>4. CASE step' = "ci_scan" /\ stage' = "ended" /\ raised' = Error(Fatal)
    BY <2>1, <2>2, <2>4 DEF FixInv, Error, NotRaised
  <2>5. CASE step' = "ci_scan" /\ stage' = "config" /\ request' = CiRequest
    BY <2>1, <2>2, <2>5, CiIsDry DEF FixInv, InRunScan
  <2>6. QED
    BY <2>1, <2>3, <2>4, <2>5
<1>5. ReportFailure => FixInv'
  BY FixRest DEF ReportFailure, LeaveCommand, scanVars, FixInv
<1>6. CiFailed => FixInv'
  <2> SUFFICES ASSUME CiFailed
               PROVE  FixInv'
    OBVIOUS
  <2>1. /\ step = "failed" /\ step' = "done"
        /\ UNCHANGED <<invocation, stage, request, raised, fixed>>
    BY DEF CiFailed, ErrorsThen, LeaveCommand
  <2>2. fixed = {} /\ stage \in {"idle", "metacheck", "ended"}
    BY <2>1 DEF FixInv, InRunScan
  <2>3. QED
    BY <2>1, <2>2, FixRest
<1>7. CiLeft \/ SkipHistory => FixInv'
  BY FixRest DEF CiLeft, SkipHistory, LeaveCommand, scanVars, FixInv
<1>8. RunHistory => FixInv'
  <2> SUFFICES ASSUME RunHistory
               PROVE  FixInv'
    OBVIOUS
  <2>1. /\ step = "ci_scan" /\ raised = NotRaised /\ step' = "ci_history"
        /\ stage' = "config" /\ UNCHANGED <<invocation, printed, fixed, raised>>
    BY DEF RunHistory
  <2>2. "dryrun" \in DOMAIN request /\ request.dryrun
    BY <2>1 DEF FixInv
  <2>3. "dryrun" \in DOMAIN request' /\ request'.dryrun
    BY <2>2 DEF RunHistory
  <2>4. QED
    BY <2>1, <2>3 DEF FixInv, InRunScan
<1>9. TakeHistory => FixInv'
  BY DEF TakeHistory, LeaveCommand, ciVars, FixInv, InRunScan
<1>10. ShowFindings => FixInv'
  BY DEF ShowFindings, LeaveCommand, scanVars, FixInv, InRunScan
<1>11. SendResults => FixInv'
  BY FixRest DEF SendResults, LeaveCommand, scanVars, FixInv, InRunScan
<1>12. SendComplete => FixInv'
  BY FixRest DEF SendComplete, LeaveCommand, commandVars, scanVars, FixInv, InRunScan
<1>13. Verdict => FixInv'
  BY FixRest DEF Verdict, LeaveCommand, scanVars, FixInv, InRunScan
<1>14. RestoreCheckout => FixInv'
  BY DEF RestoreCheckout, commandVars, scanVars, FixInv
<1>15. QED
  BY <1>1, <1>2, <1>3, <1>4, <1>5, <1>6, <1>7, <1>8, <1>9, <1>10, <1>11, <1>12, <1>13,
     <1>14 DEF CiCommandStep

LEMMA FixStep == FixInv /\ [Next]_vars => FixInv'
<1> SUFFICES ASSUME FixInv, [Next]_vars
             PROVE  FixInv'
  OBVIOUS
<1>1. ASSUME NEW asked \in Invocations, CallScan(asked)
      PROVE  FixInv'
  <2>1. /\ step = "idle" /\ stage = "idle" /\ invocation' = asked /\ UNCHANGED fixed
        /\ \/ step' \in {"done", "validate"} /\ stage' = "idle"
           \/ step' = "scan" /\ stage' = "config"
    BY <1>1 DEF CallScan, StartScan, scanVars, FixInv
  <2>2. QED
    BY <2>1 DEF FixInv, InRunScan
<1>2. ASSUME NEW asked \in Invocations, CallCi(asked)
      PROVE  FixInv'
  BY <1>2 DEF CallCi, scanVars, FixInv, InRunScan
<1>3. CASE RunScanStep
  BY <1>3, FixScan DEF RunScanStep
<1>4. CASE CommandStep
  BY <1>4, FixCommand DEF CommandStep
<1>5. CASE CiCommandStep
  BY <1>5, FixCi
<1>6. CASE GiveUpSoon
  BY <1>6 DEF GiveUpSoon, commandVars, scanVars, FixInv
<1>7. CASE Exited \/ UNCHANGED vars
  BY <1>7 DEF Exited, vars, commandVars, scanVars, FixInv
<1>8. QED
  BY <1>1, <1>2, <1>3, <1>4, <1>5, <1>6, <1>7 DEF Next, Call

\* No file of the user is changed by a fix that the user is not told of: scan
\* applies the fixes of the findings left after the baseline and the comments
\* were taken away, and shows these; ci applies none.
THEOREM FixesAreAlwaysShown == Spec => []FixesAreShown
<1>1. FixInv => FixesAreShown
  BY DEF FixInv, FixesAreShown
<1>2. QED
  BY <1>1, FixStarts, FixStep, PTL DEF Spec

=============================================================================
