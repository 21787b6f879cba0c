-------------------------- MODULE TimeLimitProofs --------------------------
(***************************************************************************)
(* set_timeout keeps its promises for every number of calls, every limit   *)
(* (zero and negative ones too), every granularity and every bound on the  *)
(* number of threads.  The key is what a timer thread knows about the time *)
(* its call has had: as long as the call is not finished, the duration it  *)
(* has counted down is time that the call has really run.                  *)
(***************************************************************************)
EXTENDS TimeLimit, TLAPS

\* The call, its Atomic and its thread agree on how far the call is.
ProgressInv(c) ==
    /\ status[c] = "idle" => left[c] = MaxDuration[c]
    /\ status[c] \in {"idle", "nothread"} => timer[c] = "none" /\ ~token[c]
    /\ status[c] \in {"idle", "running", "nothread"} => ~finished[c]
    /\ status[c] \in {"raised", "some", "none", "exn"} => finished[c]

\* The time that the thread has counted is time the call has had; once the
\* call is finished this still holds of a thread that is past its check.
TimingInv(c) ==
    /\ timer[c] = "test" \/ (timer[c] = "check" /\ ~finished[c]) =>
           elapsed[c] >= MaxDuration[c] - left[c]
    /\ timer[c] = "sleep" /\ ~finished[c] =>
           elapsed[c] >= MaxDuration[c] - left[c] + (Granularity - nap[c])
    /\ timer[c] = "sleep" => left[c] > 0
    /\ token[c] => elapsed[c] >= MaxDuration[c]
    /\ status[c] = "none" => elapsed[c] >= MaxDuration[c]

\* One call at a time.
SequentialInv(c) ==
    status[c] # "idle" => \A b \in 1..(c - 1) : status[b] \in Over

IInv ==
    /\ TypeOK
    /\ \A c \in Calls : ProgressInv(c) /\ TimingInv(c) /\ SequentialInv(c)

LEMMA ConstantTypes ==
    /\ Calls \subseteq Nat
    /\ MaxDuration \in [Calls -> Int]
    /\ Granularity \in Nat
    /\ Granularity > 0
    /\ \A c \in Calls : Cap(c) \in Nat /\ Cap(c) >= MaxDuration[c] + Granularity
BY TimeLimitAssumption DEF TimeLimitAssumption, Calls, Cap

LEMMA EarlierCalls == \A c \in Calls : \A b \in 1..(c - 1) : b \in Calls
BY TimeLimitAssumption DEF TimeLimitAssumption, Calls

-----------------------------------------------------------------------------
(* Types *)

\* The variables keep their types, whatever the limits are.
LEMMA TypeStep == TypeOK /\ [Next]_vars => TypeOK'
<1> SUFFICES ASSUME TypeOK, [Next]_vars
             PROVE  TypeOK'
  OBVIOUS
<1> USE ConstantTypes DEF TypeOK, Over
<1>1. CASE Tick
  BY <1>1 DEF Tick
<1>2. ASSUME NEW c \in Calls, Call(c)
      PROVE  TypeOK'
  BY <1>2 DEF Call
<1>3. ASSUME NEW c \in Calls, Return(c)
      PROVE  TypeOK'
  BY <1>3 DEF Return
<1>4. ASSUME NEW c \in Calls, Raise(c)
      PROVE  TypeOK'
  BY <1>4 DEF Raise
<1>5. ASSUME NEW c \in Calls, Report(c)
      PROVE  TypeOK'
  BY <1>5 DEF Report
<1>6. ASSUME NEW c \in Calls, TimerStep(c)
      PROVE  TypeOK'
  <2>1. CASE TimerCheck(c)
    BY <2>1 DEF TimerCheck
  <2>2. CASE TimerFire(c)
    BY <2>2 DEF TimerFire
  <2>3. CASE TimerDelay(c)
    BY <2>3 DEF TimerDelay
  <2>4. CASE TimerWake(c)
    BY <2>4 DEF TimerWake
  <2> QED BY <1>6, <2>1, <2>2, <2>3, <2>4 DEF TimerStep
<1>7. CASE UNCHANGED vars
  BY <1>7 DEF vars
<1> QED BY <1>1, <1>2, <1>3, <1>4, <1>5, <1>6, <1>7 DEF Next, Interrupt

\* The variables of set_timeout keep their types for every number of calls
\* and every limit.
THEOREM TypeCorrect == Spec => []TypeOK
<1>1. Init => TypeOK
  BY ConstantTypes DEF Init, TypeOK
<1> QED BY <1>1, TypeStep, PTL DEF Spec

-----------------------------------------------------------------------------
(* The inductive invariant *)

LEMMA InitInv == Init => IInv
BY ConstantTypes DEF Init, IInv, TypeOK, ProgressInv, TimingInv, SequentialInv, Over

\* What is left of a step for a call it does not touch.
LEMMA Untouched ==
    ASSUME NEW c \in Calls, ProgressInv(c), TimingInv(c),
           status'[c] = status[c], finished'[c] = finished[c],
           token'[c] = token[c], timer'[c] = timer[c], left'[c] = left[c],
           nap'[c] = nap[c], elapsed'[c] = elapsed[c]
    PROVE  ProgressInv(c)' /\ TimingInv(c)'
BY DEF ProgressInv, TimingInv

\* A call that is over stays over, and the next ones start after it.
LEMMA SequentialStep ==
    ASSUME IInv, [Next]_vars, NEW c \in Calls
    PROVE  SequentialInv(c)'
<1> USE DEF IInv, TypeOK
<1>1. ASSUME NEW b \in Calls, status[b] \in Over
      PROVE  status'[b] \in Over
  <2> USE <1>1 DEF Over
  <2> QED BY DEF Next, vars, Tick, Call, Return, Raise, Interrupt, Report, TimerStep,
                 TimerCheck, TimerFire, TimerDelay, TimerWake
<1>2. CASE status[c] # "idle"
  <2>1. \A b \in 1..(c - 1) : b \in Calls /\ status[b] \in Over
    BY <1>2, EarlierCalls DEF SequentialInv
  <2> QED BY <2>1, <1>1 DEF SequentialInv
<1>3. CASE status[c] = "idle" /\ status'[c] # "idle"
  <2>1. Call(c)
    BY <1>3 DEF Next, vars, Tick, Call, Return, Raise, Interrupt, Report, TimerStep,
                TimerCheck, TimerFire, TimerDelay, TimerWake
  <2>2. \A b \in 1..(c - 1) : b \in Calls /\ status[b] \in Over
    BY <2>1, EarlierCalls DEF Call
  <2> QED BY <2>2, <1>1 DEF SequentialInv
<1> QED BY <1>2, <1>3 DEF SequentialInv

LEMMA InvStep == IInv /\ [Next]_vars => IInv'
<1> SUFFICES ASSUME IInv, [Next]_vars
             PROVE  IInv'
  OBVIOUS
<1>1. TypeOK'
  BY TypeStep DEF IInv
<1>2. ASSUME NEW x \in Calls
      PROVE  ProgressInv(x)' /\ TimingInv(x)'
  <2> USE <1>1, ConstantTypes DEF Over
  <2>1. TypeOK /\ ProgressInv(x) /\ TimingInv(x)
    BY DEF IInv
  <2>2. CASE Tick
    <3>1. ProgressInv(x)'
      BY <2>1, <2>2 DEF Tick, ProgressInv, TypeOK
    <3>2. elapsed'[x] >= elapsed[x]
      BY <2>1, <2>2 DEF Tick, TypeOK
    <3>3. ASSUME timer[x] = "sleep", ~finished[x]
          PROVE  elapsed'[x] >= MaxDuration[x] - left[x] + (Granularity - nap'[x])
      <4>1. Live(x)
        BY <2>1, <3>3 DEF ProgressInv, TypeOK, Live
      <4>2. left[x] \in Int /\ left[x] > 0 /\ nap'[x] \in 0..Granularity
        BY <2>1, <3>3 DEF TimingInv, TypeOK
      <4>3. CASE elapsed[x] < Cap(x)
        BY <4>1, <4>2, <4>3, <2>1, <2>2, <3>3 DEF Tick, TimingInv, TypeOK
      <4>4. CASE ~(elapsed[x] < Cap(x))
        <5>1. elapsed'[x] = elapsed[x] /\ elapsed[x] \in Nat
          BY <4>4, <2>1, <2>2 DEF Tick, TypeOK
        <5> QED BY <5>1, <4>2, <4>4
      <4> QED BY <4>3, <4>4
    <3>4. TimingInv(x)'
      BY <2>1, <2>2, <3>2, <3>3 DEF Tick, TimingInv, TypeOK
    <3> QED BY <3>1, <3>4
  <2>3. ASSUME NEW c \in Calls, Call(c)
        PROVE  ProgressInv(x)' /\ TimingInv(x)'
    BY <2>1, <2>3 DEF Call, ProgressInv, TimingInv, TypeOK
  <2>4. ASSUME NEW c \in Calls, Return(c)
        PROVE  ProgressInv(x)' /\ TimingInv(x)'
    BY <2>1, <2>4 DEF Return, ProgressInv, TimingInv, TypeOK
  <2>5. ASSUME NEW c \in Calls, Raise(c)
        PROVE  ProgressInv(x)' /\ TimingInv(x)'
    BY <2>1, <2>5 DEF Raise, ProgressInv, TimingInv, TypeOK
  <2>6. ASSUME NEW c \in Calls, Report(c)
        PROVE  ProgressInv(x)' /\ TimingInv(x)'
    BY <2>1, <2>6 DEF Report, ProgressInv, TimingInv, TypeOK
  <2>7. ASSUME NEW c \in Calls, TimerCheck(c)
        PROVE  ProgressInv(x)' /\ TimingInv(x)'
    BY <2>1, <2>7 DEF TimerCheck, ProgressInv, TimingInv, TypeOK
  <2>8. ASSUME NEW c \in Calls, TimerFire(c)
        PROVE  ProgressInv(x)' /\ TimingInv(x)'
    BY <2>1, <2>8 DEF TimerFire, ProgressInv, TimingInv, TypeOK
  <2>9. ASSUME NEW c \in Calls, TimerDelay(c)
        PROVE  ProgressInv(x)' /\ TimingInv(x)'
    BY <2>1, <2>9 DEF TimerDelay, ProgressInv, TimingInv, TypeOK
  <2>10. ASSUME NEW c \in Calls, TimerWake(c)
         PROVE  ProgressInv(x)' /\ TimingInv(x)'
    BY <2>1, <2>10 DEF TimerWake, ProgressInv, TimingInv, TypeOK
  <2>11. CASE UNCHANGED vars
    BY <2>1, <2>11, Untouched DEF vars
  <2> QED BY <2>2, <2>3, <2>4, <2>5, <2>6, <2>7, <2>8, <2>9, <2>10, <2>11
          DEF Next, Interrupt, TimerStep
<1> QED BY <1>1, <1>2, SequentialStep DEF IInv

LEMMA Invariance == Spec => []IInv
BY InitInv, InvStep, PTL DEF Spec

\* A call of set_timeout answers None only once its own limit has passed,
\* for every number of calls and every limit, whatever old timer threads do.
THEOREM NoEarlyTimeout == Spec => []NoneOnlyAfterLimit
<1>1. IInv => NoneOnlyAfterLimit
  BY DEF IInv, TimingInv, NoneOnlyAfterLimit
<1> QED BY <1>1, Invariance, PTL

-----------------------------------------------------------------------------
(* Refinement of the contract *)

\* Only one call runs at a time, so time passes for one call at a time.
LEMMA OneLive ==
    ASSUME IInv, NEW c \in Calls, NEW b \in Calls, Live(c), Live(b)
    PROVE  b = c
<1>1. status[c] \notin Over /\ status[b] \notin Over
  BY DEF Live, Over
<1>2. status[c] # "idle" /\ status[b] # "idle"
  BY DEF Live
<1>3. b \in Nat /\ c \in Nat /\ b >= 1 /\ c >= 1
  BY TimeLimitAssumption DEF TimeLimitAssumption, Calls
<1>4. ~(b < c)
  BY <1>1, <1>2, <1>3 DEF IInv, SequentialInv
<1>5. ~(c < b)
  BY <1>1, <1>2, <1>3 DEF IInv, SequentialInv
<1> QED BY <1>3, <1>4, <1>5

LEMMA SameCalls == Abstract!Calls = Calls
BY DEF Abstract!Calls, Calls

LEMMA InitRefines == Init => Abstract!Init
<1> SUFFICES ASSUME Init
             PROVE  Abstract!Init
  OBVIOUS
<1>1. Outcome = [c \in Calls |-> "idle"]
  BY DEF Init, Outcome
<1>2. Due \in [Calls -> BOOLEAN]
  BY DEF Due
<1> QED BY <1>1, <1>2, SameCalls DEF Abstract!Init

\* What is over for the domain is over for LimitedCall.
LEMMA EarlierOver ==
    ASSUME NEW c \in Calls, \A b \in 1..(c - 1) : status[b] \in Over
    PROVE  \A b \in 1..(c - 1) : Outcome[b] \in Abstract!Outcomes
BY EarlierCalls DEF Outcome, Abstract!Outcomes, Over

\* A step that leaves the clocks alone leaves Due alone.
LEMMA SameDue == elapsed' = elapsed => Due' = Due
BY DEF Due

\* A step that leaves the statuses alone leaves Outcome alone.
LEMMA SameOutcome == status' = status => Outcome' = Outcome
BY DEF Outcome

\* A step that changes the status of one call changes its Outcome only.
LEMMA OneOutcome ==
    ASSUME TypeOK, NEW c \in Calls, NEW s,
           status' = [status EXCEPT ![c] = s]
    PROVE  Outcome' = [Outcome EXCEPT ![c] =
               CASE s = "raised" -> "running"
                 [] s = "nothread" -> "exn"
                 [] OTHER -> s]
BY DEF TypeOK, Outcome

\* Time passes for the running call or for none.
LEMMA TickRefines ==
    ASSUME IInv, Tick
    PROVE  [Abstract!Next]_(Abstract!vars)
<1> USE ConstantTypes DEF IInv, TypeOK
<1>1. Outcome' = Outcome
  BY SameOutcome DEF Tick
<1>2. \A b \in Calls : elapsed'[b] # elapsed[b] => Live(b)
  BY DEF Tick
<1>3. \A b \in Calls : elapsed'[b] >= elapsed[b] /\ elapsed'[b] \in Nat
  BY DEF Tick
<1>4. CASE \E c \in Calls : Live(c) /\ Due'[c] /\ ~Due[c]
  <2>1. PICK c \in Calls : Live(c) /\ Due'[c] /\ ~Due[c]
    BY <1>4
  <2>2. Outcome[c] = "running"
    BY <2>1 DEF Live, Outcome
  <2>3. \A b \in Calls : b # c => Due'[b] = Due[b]
    BY <2>1, <1>2, OneLive DEF Due
  <2>4. Due' = [Due EXCEPT ![c] = TRUE]
    BY <2>1, <2>3 DEF Due
  <2>5. Abstract!Expire(c)
    BY <1>1, <2>2, <2>4 DEF Abstract!Expire
  <2> QED BY <2>5, SameCalls DEF Abstract!Next
<1>5. CASE ~\E c \in Calls : Live(c) /\ Due'[c] /\ ~Due[c]
  <2>1. \A b \in Calls : Due[b] => Due'[b]
    BY <1>3 DEF Due
  <2>2. ASSUME NEW b \in Calls
        PROVE  (elapsed'[b] >= MaxDuration[b]) <=> (elapsed[b] >= MaxDuration[b])
    <3>1. CASE elapsed'[b] = elapsed[b]
      BY <3>1
    <3>2. CASE Live(b)
      <4>1. Due[b] <=> elapsed[b] >= MaxDuration[b]
        BY DEF Due
      <4>2. Due'[b] <=> elapsed'[b] >= MaxDuration[b]
        BY DEF Due
      <4> QED BY <3>2, <4>1, <4>2, <1>5, <2>1
    <3> QED BY <3>1, <3>2, <1>2
  <2>3. Due' = Due
    BY <2>2 DEF Due
  <2> QED BY <1>1, <2>3 DEF Abstract!vars
<1> QED BY <1>4, <1>5

\* Every step of set_timeout, of its timer threads and of the clock is a
\* step of LimitedCall or changes nothing that LimitedCall can see.
LEMMA StepRefines ==
    IInv /\ [Next]_vars => [Abstract!Next]_(Abstract!vars)
<1> SUFFICES ASSUME IInv, [Next]_vars
             PROVE  [Abstract!Next]_(Abstract!vars)
  OBVIOUS
<1> USE SameCalls
<1>0. TypeOK
  BY DEF IInv
<1>1. CASE Tick
  BY <1>1, TickRefines
<1>2. ASSUME NEW c \in Calls, Call(c)
      PROVE  Abstract!Next
  <2>1. Outcome[c] = "idle" /\ Due' = Due
    BY <1>2, SameDue DEF Call, Outcome
  <2>2. \A b \in 1..(c - 1) : Outcome[b] \in Abstract!Outcomes
    BY <1>2, EarlierOver DEF Call
  <2>3. CASE status' = [status EXCEPT ![c] = "running"]
    <3>1. Outcome' = [Outcome EXCEPT ![c] = "running"]
      BY <1>0, <2>3, OneOutcome
    <3>2. Abstract!Start(c)
      BY <2>1, <2>2, <3>1 DEF Abstract!Start
    <3> QED BY <3>2 DEF Abstract!Next
  <2>4. CASE status' = [status EXCEPT ![c] = "nothread"]
    <3>1. Outcome' = [Outcome EXCEPT ![c] = "exn"]
      BY <1>0, <2>4, OneOutcome
    <3>2. Abstract!Refuse(c)
      BY <2>1, <2>2, <3>1 DEF Abstract!Refuse
    <3> QED BY <3>2 DEF Abstract!Next
  <2> QED BY <1>2, <2>3, <2>4 DEF Call
<1>3. ASSUME NEW c \in Calls, Return(c)
      PROVE  Abstract!Next
  <2>1. Outcome[c] = "running" /\ Due' = Due
    BY <1>3, SameDue DEF Return, Outcome
  <2>2. Outcome' = [Outcome EXCEPT ![c] = "some"]
    BY <1>0, <1>3, OneOutcome DEF Return
  <2>3. Abstract!Finish(c, "some")
    BY <2>1, <2>2 DEF Abstract!Finish
  <2> QED BY <2>3 DEF Abstract!Next, Abstract!Outcomes
<1>4. ASSUME NEW c \in Calls, Raise(c)
      PROVE  UNCHANGED Abstract!vars
  <2>1. Outcome[c] = "running" /\ Due' = Due
    BY <1>4, SameDue DEF Raise, Outcome
  <2>2. Outcome' = [Outcome EXCEPT ![c] = "running"]
    BY <1>0, <1>4, OneOutcome DEF Raise
  <2>3. Outcome' = Outcome
    BY <2>1, <2>2 DEF Outcome
  <2> QED BY <2>1, <2>3 DEF Abstract!vars
<1>5. ASSUME NEW c \in Calls, Report(c)
      PROVE  Abstract!Next
  <2>1. Outcome[c] = "running" /\ Due' = Due
    BY <1>5, SameDue DEF Report, Outcome
  <2>2. CASE token[c]
    <3>1. Outcome' = [Outcome EXCEPT ![c] = "none"]
      BY <1>0, <1>5, <2>2, OneOutcome DEF Report
    <3>2. Due[c]
      BY <2>2 DEF IInv, TimingInv, Due
    <3>3. Abstract!Finish(c, "none")
      BY <2>1, <3>1, <3>2 DEF Abstract!Finish
    <3> QED BY <3>3 DEF Abstract!Next, Abstract!Outcomes
  <2>3. CASE ~token[c]
    <3>1. Outcome' = [Outcome EXCEPT ![c] = "exn"]
      BY <1>0, <1>5, <2>3, OneOutcome DEF Report
    <3>2. Abstract!Finish(c, "exn")
      BY <2>1, <3>1 DEF Abstract!Finish
    <3> QED BY <3>2 DEF Abstract!Next, Abstract!Outcomes
  <2> QED BY <2>2, <2>3
<1>6. ASSUME NEW c \in Calls, TimerStep(c)
      PROVE  UNCHANGED Abstract!vars
  <2>1. status' = status /\ elapsed' = elapsed
    BY <1>6 DEF TimerStep, TimerCheck, TimerFire, TimerDelay, TimerWake
  <2> QED BY <2>1, SameOutcome, SameDue DEF Abstract!vars
<1>7. CASE UNCHANGED vars
  BY <1>7, SameOutcome, SameDue DEF vars, Abstract!vars
<1> QED BY <1>1, <1>2, <1>3, <1>4, <1>5, <1>6, <1>7 DEF Next, Interrupt

\* set_timeout, its threads and tokens included, keeps the contract on which
\* the scan of a file relies, for every number of calls and every limit.
THEOREM KeepsContract == Spec => ImplementsLimitedCall
BY InitRefines, StepRefines, Invariance, PTL
   DEF Spec, ImplementsLimitedCall, Abstract!Spec
=============================================================================
