----------------------------- MODULE TimeLimit -----------------------------
(***************************************************************************)
(* Time_limit.set_timeout (libs/process_limits/Time_limit.ml), called for  *)
(* the calls 1..NCalls in order, as Match_rules does for the rules of one  *)
(* file.  Every call owns a fresh memprof-limits token and an Atomic       *)
(* finished_work, and starts a timer thread that nobody joins: the thread  *)
(* of an old call may still be asleep while later calls run.               *)
(*                                                                         *)
(* Time is counted in ticks.  Thread.delay returns after at least          *)
(* Granularity ticks, possibly later.  memprof-limits is external: once    *)
(* the token is set it raises at some later allocation of the computation, *)
(* and limit_with_token turns an exception of the computation into Error   *)
(* exactly when the token is set.                                          *)
(***************************************************************************)
EXTENDS Integers, FiniteSets

CONSTANTS
    NCalls,         \* calls made by the domain, one after the other
    MaxDuration,    \* MaxDuration[c]: the limit of call c; a rule's own
                    \* timeout option may make it zero or negative
    Granularity,    \* ticks between two looks of a timer thread
    MaxThreads      \* timer threads the system can hold at once

Calls == 1..NCalls

ASSUME TimeLimitAssumption ==
    /\ NCalls \in Nat
    /\ MaxDuration \in [Calls -> Int]
    /\ Granularity \in Nat \ {0}
    /\ MaxThreads \in Nat \ {0}

VARIABLES
    status,     \* the call: idle, running, raised (the exception has left
                \* f), then some, none, exn, or nothread (Thread.create failed)
    finished,   \* the Atomic finished_work
    token,      \* the token is set
    timer,      \* the timer thread: none, check, test, sleep, exited
    left,       \* its argument, the duration left
    nap,        \* ticks before its Thread.delay may return
    elapsed     \* ticks the call has run so far, counted up to Cap(c)

vars == <<status, finished, token, timer, left, nap, elapsed>>

Over == {"some", "none", "exn", "nothread"}
Live(c) == status[c] \in {"running", "raised"}
LiveTimers == {c \in Calls : timer[c] \in {"check", "test", "sleep"}}

\* elapsed stops at Cap: far enough to tell every comparison of the model.
Cap(c) == (IF MaxDuration[c] > 0 THEN MaxDuration[c] ELSE 0) + Granularity

Init ==
    /\ status = [c \in Calls |-> "idle"]
    /\ finished = [c \in Calls |-> FALSE]
    /\ token = [c \in Calls |-> FALSE]
    /\ timer = [c \in Calls |-> "none"]
    /\ left = MaxDuration
    /\ nap = [c \in Calls |-> 0]
    /\ elapsed = [c \in Calls |-> 0]

-----------------------------------------------------------------------------
(* The domain *)

\* Thread.create timeout max_duration, then the computation starts; when no
\* thread can be created the exception leaves set_timeout before f runs.
Call(c) ==
    /\ status[c] = "idle"
    /\ \A b \in 1..(c - 1) : status[b] \in Over
    /\ IF Cardinality(LiveTimers) < MaxThreads
       THEN /\ status' = [status EXCEPT ![c] = "running"]
            /\ timer' = [timer EXCEPT ![c] = "check"]
       ELSE /\ status' = [status EXCEPT ![c] = "nothread"]
            /\ UNCHANGED timer
    /\ UNCHANGED <<finished, token, left, nap, elapsed>>

\* f returns: Fun.protect sets finished_work, limit_with_token gives Ok.
Return(c) ==
    /\ status[c] = "running"
    /\ finished' = [finished EXCEPT ![c] = TRUE]
    /\ status' = [status EXCEPT ![c] = "some"]
    /\ UNCHANGED <<token, timer, left, nap, elapsed>>

\* f raises an exception of its own.
Raise(c) ==
    /\ status[c] = "running"
    /\ finished' = [finished EXCEPT ![c] = TRUE]
    /\ status' = [status EXCEPT ![c] = "raised"]
    /\ UNCHANGED <<token, timer, left, nap, elapsed>>

\* memprof-limits raises in f, at an allocation after the token was set.
Interrupt(c) ==
    /\ token[c]
    /\ Raise(c)

\* Mutant of Report: every exception of f is taken for a timeout.
ReportNone(c) ==
    /\ status[c] = "raised"
    /\ status' = [status EXCEPT ![c] = "none"]
    /\ UNCHANGED <<finished, token, timer, left, nap, elapsed>>

\* The exception reaches limit_with_token: Error (None for the caller) when
\* the token is set, the exception itself otherwise.
Report(c) ==
    /\ status[c] = "raised"
    /\ status' = [status EXCEPT ![c] = IF token[c] THEN "none" ELSE "exn"]
    /\ UNCHANGED <<finished, token, timer, left, nap, elapsed>>

-----------------------------------------------------------------------------
(* The timer thread: rec timeout duration *)

\* Mutant of TimerCheck: the loop is not left when the work is finished.
TimerCheckStays(c) ==
    /\ timer[c] = "check"
    /\ timer' = [timer EXCEPT ![c] = IF finished[c] THEN "check" ELSE "test"]
    /\ UNCHANGED <<status, finished, token, left, nap, elapsed>>

TimerCheck(c) ==
    /\ timer[c] = "check"
    /\ timer' = [timer EXCEPT ![c] = IF finished[c] THEN "exited" ELSE "test"]
    /\ UNCHANGED <<status, finished, token, left, nap, elapsed>>

\* Mutants of TimerFire: one delay too early; the token is not set.
TimerFireEarly(c) ==
    /\ timer[c] = "test"
    /\ left[c] <= Granularity
    /\ token' = [token EXCEPT ![c] = TRUE]
    /\ timer' = [timer EXCEPT ![c] = "exited"]
    /\ UNCHANGED <<status, finished, left, nap, elapsed>>

TimerFireNothing(c) ==
    /\ timer[c] = "test"
    /\ left[c] <= 0
    /\ timer' = [timer EXCEPT ![c] = "exited"]
    /\ UNCHANGED <<status, finished, token, left, nap, elapsed>>

TimerFire(c) ==
    /\ timer[c] = "test"
    /\ left[c] <= 0
    /\ token' = [token EXCEPT ![c] = TRUE]
    /\ timer' = [timer EXCEPT ![c] = "exited"]
    /\ UNCHANGED <<status, finished, left, nap, elapsed>>

\* Mutant of TimerDelay: the delay is one tick too long.
TimerDelayLong(c) ==
    /\ timer[c] = "test"
    /\ left[c] > 0
    /\ timer' = [timer EXCEPT ![c] = "sleep"]
    /\ nap' = [nap EXCEPT ![c] = Granularity + 1]
    /\ UNCHANGED <<status, finished, token, left, elapsed>>

TimerDelay(c) ==
    /\ timer[c] = "test"
    /\ left[c] > 0
    /\ timer' = [timer EXCEPT ![c] = "sleep"]
    /\ nap' = [nap EXCEPT ![c] = Granularity]
    /\ UNCHANGED <<status, finished, token, left, elapsed>>

TimerWake(c) ==
    /\ timer[c] = "sleep"
    /\ nap[c] = 0
    /\ timer' = [timer EXCEPT ![c] = "check"]
    /\ left' = [left EXCEPT ![c] = @ - Granularity]
    /\ UNCHANGED <<status, finished, token, nap, elapsed>>

TimerStep(c) ==
    TimerCheck(c) \/ TimerFire(c) \/ TimerDelay(c) \/ TimerWake(c)

\* One unit of real time, for every call and every sleeping thread.
Tick ==
    /\ nap' = [c \in Calls |->
                  IF timer[c] = "sleep" /\ nap[c] > 0 THEN nap[c] - 1 ELSE nap[c]]
    /\ elapsed' = [c \in Calls |->
                      IF Live(c) /\ elapsed[c] < Cap(c) THEN elapsed[c] + 1
                                                        ELSE elapsed[c]]
    /\ UNCHANGED <<status, finished, token, timer, left>>

Next ==
    \/ Tick
    \/ \E c \in Calls :
        \/ Call(c) \/ Return(c) \/ Raise(c) \/ Interrupt(c) \/ Report(c)
        \/ TimerStep(c)

Spec == Init /\ [][Next]_vars

\* The computation itself owes nothing: f may loop forever.  Threads run,
\* time passes, and f allocates, so that memprof-limits can raise in it.
Fairness ==
    /\ WF_vars(Tick)
    /\ \A c \in Calls :
        /\ WF_vars(Call(c))
        /\ WF_vars(Interrupt(c))
        /\ WF_vars(Report(c))
        /\ WF_vars(TimerStep(c))

FairSpec == Spec /\ Fairness

-----------------------------------------------------------------------------
(* Properties *)

\* The values the variables may take.
TypeOK ==
    /\ status \in [Calls -> {"idle", "running", "raised"} \cup Over]
    /\ finished \in [Calls -> BOOLEAN]
    /\ token \in [Calls -> BOOLEAN]
    /\ timer \in [Calls -> {"none", "check", "test", "sleep", "exited"}]
    /\ left \in [Calls -> Int]
    /\ nap \in [Calls -> 0..Granularity]
    /\ elapsed \in [Calls -> Nat]

\* set_timeout answers None only when the call has really had its time: a
\* rule is never reported as timed out early, whatever the timer threads of
\* this call and of the calls before it are doing (Time_limit.set_timeout,
\* the Error branch).
NoneOnlyAfterLimit ==
    \A c \in Calls : status[c] = "none" => elapsed[c] >= MaxDuration[c]

\* Threads left behind go away: once a computation has ended its timer
\* thread exits, although nothing joins or wakes it (Time_limit.timeout).
TimersExit ==
    \A c \in Calls : finished[c] ~> timer[c] = "exited"

\* set_timeout ends every call, even one whose computation never returns by
\* itself, so one rule cannot hang the scan of a file.
CallsEnd ==
    \A c \in Calls : <>(status[c] \in Over)

\* What the caller sees of a call, and whether its time is over.
Outcome == [c \in Calls |->
               CASE status[c] = "raised" -> "running"
                 [] status[c] = "nothread" -> "exn"
                 [] OTHER -> status[c]]
Due == [c \in Calls |-> elapsed[c] >= MaxDuration[c]]

Abstract == INSTANCE LimitedCall WITH outcome <- Outcome, due <- Due

\* set_timeout, threads and token included, implements LimitedCall.
ImplementsLimitedCall == Abstract!Spec
=============================================================================
