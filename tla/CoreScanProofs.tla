--------------------------- MODULE CoreScanProofs ---------------------------
(***************************************************************************)
(* The scan keeps its promises for every number of targets, files, rules   *)
(* and domains, every threshold and every limit, whatever others do to the *)
(* files meanwhile: no finding is lost in silence.                         *)
(***************************************************************************)
EXTENDS CoreScan, FiniteSetTheorems, TLAPS

\* What the slot of a target must hold: an error, or the matches of all the
\* rules that the configuration, the target and the prefilter leave.
Wanted(t) == RulesForTarget(t) \cap Relevant[t]
Faithful(t, result) ==
    result.errors # {} \/ Wanted(t) \cap Producing(t) \subseteq result.matches

\* A busy domain owns its target, and each rule it has to run on it is still
\* to run, has ended or has timed out.
WorkInv ==
    \A d \in Domains :
        /\ pc[d] = "idle" <=> job[d] = NoTarget
        /\ job[d] # NoTarget => /\ phase = "pool"
                                /\ job[d] \in targets
                                /\ res[job[d]] = NoResult
                                /\ \A e \in Domains : e # d => job[e] # job[d]
        /\ pc[d] \in {"rules", "return"} =>
               Wanted(job[d]) \subseteq todo[d] \cup ran[d] \cup timedOut[d]
        /\ pc[d] = "return" => todo[d] = {}

\* No slot is written before the pool starts, and every slot is faithful.
SlotInv ==
    \A t \in Targets : res[t] # NoResult =>
        /\ phase \notin {"rules", "targets", "sort"}
        /\ Faithful(t, res[t])

\* The rules of the targets that were there at the first look are kept.
FilterInv ==
    phase \in {"targets", "sort", "pool", "post", "done"} =>
        \A t \in seen : Applies[t] \subseteq validRules

\* NoSilentLoss, from the collation on.
Reported(t, r) == <<t, r>> \in matches \/ \E e \in errors : e.file = FileOf[t]
ReportInv ==
    phase \in {"post", "done"} =>
        \A t \in targets : \A r \in Wanted(t) \cap Producing(t) : Reported(t, r)

IInv == TypeOK /\ WorkInv /\ SlotInv /\ FilterInv /\ ReportInv

-----------------------------------------------------------------------------
(* Types *)

LEMMA ResultType ==
    ASSUME NEW S \in SUBSET Rules, NEW E \in SUBSET Errors, NEW b \in BOOLEAN
    PROVE  [matches |-> S, errors |-> E, scanned |-> b] \in Results
BY DEF Results

LEMMA BlamedType ==
    ASSUME NEW kind \in ErrorKinds, NEW r \in Rules \cup {NoRule}
    PROVE  Blamed(kind, r) \in Errors
BY DEF Blamed, Errors

LEMMA TimeoutsType ==
    ASSUME NEW S \in SUBSET Rules
    PROVE  TimeoutErrors(S) \in SUBSET Errors
BY DEF TimeoutErrors, Errors, ErrorKinds

\* A rule that times out leaves an error.
LEMMA TimeoutsSeen ==
    ASSUME NEW S, NEW r \in S
    PROVE  TimeoutErrors(S) # {}
<1>1. [kind |-> "Timeout", rule |-> r] \in TimeoutErrors(S)
  BY DEF TimeoutErrors
<1> QED BY <1>1

WorkTypes ==
    /\ job \in [Domains -> Targets \cup {NoTarget}]
    /\ pc \in [Domains -> {"idle", "prepare", "rules", "return"}]
    /\ todo \in [Domains -> SUBSET Rules]
    /\ ran \in [Domains -> SUBSET Rules]
    /\ timedOut \in [Domains -> SUBSET Rules]
    /\ res \in [Targets -> Results \cup {NoResult}]

\* Writing a slot keeps the types of what the domains own.
LEMMA StoreTypes ==
    ASSUME WorkTypes, NEW d \in Domains, NEW result \in Results, Store(d, result)
    PROVE  WorkTypes'
BY DEF WorkTypes, Store

LEMMA StoreErrorsTypes ==
    ASSUME WorkTypes, NEW d \in Domains, NEW E \in SUBSET Errors, StoreErrors(d, E)
    PROVE  WorkTypes'
<1>1. [matches |-> {}, errors |-> E, scanned |-> TRUE] \in Results
  BY ResultType
<1> QED BY <1>1, StoreTypes DEF StoreErrors

\* The types of the rest of the state, in two halves.
OtherTypes ==
    /\ phase \in {"rules", "targets", "sort", "pool", "post", "done", "aborted"}
    /\ disk \in [Files -> {"absent", "same", "changed"}]
    /\ seen \subseteq Targets
    /\ validRules \subseteq Rules
    /\ targets \subseteq Targets
    /\ lastRule \in [Domains -> Rules \cup {NoRule}]
    /\ displayed \subseteq Targets \X Rules
FinalTypes ==
    /\ matches \subseteq Targets \X Rules
    /\ errors \subseteq [file : Files, kind : ErrorKinds \cup {"TooManyMatches"},
                         rule : Rules \cup {NoRule}]
    /\ skipped \subseteq [file : Files, rule : Rules \cup {NoRule},
                          reason : {"Nonexistent_file", "Too_many_matches"}]
    /\ scanned \subseteq Targets

LEMMA TypeParts == TypeOK <=> WorkTypes /\ OtherTypes /\ FinalTypes
BY DEF TypeOK, WorkTypes, OtherTypes, FinalTypes

\* A busy domain has a target.
Owns == \A d \in Domains : pc[d] # "idle" => job[d] \in Targets

LEMMA InvOwns == TypeOK /\ WorkInv => Owns
BY DEF TypeOK, WorkInv, Owns

\* A step of a domain that owns a target keeps the types.
LEMMA DomainTypes ==
    ASSUME TypeOK, WorkInv, NEW d \in Domains, DomainStep(d)
    PROVE  TypeOK'
<1> USE CoreScanAssumption DEF CoreScanAssumption
<1>1. WorkTypes /\ OtherTypes /\ FinalTypes
  BY TypeParts
<1>2. Owns
  BY InvOwns
<1>3. FinalTypes'
  BY <1>1 DEF FinalTypes, finalVars, DomainStep, StartTarget, Prepare, MatchHook, EndTarget,
              ExceedMemory, PrepareRaises, RuleReturns, RuleTimesOut, RuleRaises
<1>4. OtherTypes'
  <2>1. mainVars' = mainVars /\ disk' = disk
    BY DEF DomainStep, StartTarget, Prepare, MatchHook, EndTarget,
           ExceedMemory, PrepareRaises, RuleReturns, RuleTimesOut, RuleRaises
  <2>2. lastRule' \in [Domains -> Rules \cup {NoRule}]
    BY <1>1 DEF OtherTypes, DomainStep, StartTarget, Prepare, MatchHook, EndTarget,
           ExceedMemory, PrepareRaises, RuleReturns, RuleTimesOut, RuleRaises, EnterRule
  <2>3. CASE MatchHook(d)
    <3>1. job[d] \in Targets
      BY <2>3, <1>2 DEF MatchHook, Owns
    <3>2. displayed' \subseteq Targets \X Rules
      BY <3>1, <2>3, <1>1 DEF MatchHook, OtherTypes, WorkTypes
    <3> QED BY <2>1, <2>2, <3>2, <1>1 DEF OtherTypes, mainVars
  <2>4. CASE ~MatchHook(d)
    <3>1. displayed' = displayed
      BY <2>4 DEF DomainStep, StartTarget, Prepare, EndTarget,
             ExceedMemory, PrepareRaises, RuleReturns, RuleTimesOut, RuleRaises
    <3> QED BY <2>1, <2>2, <3>1, <1>1 DEF OtherTypes, mainVars
  <2> QED BY <2>3, <2>4
<1>5. WorkTypes'
  <2> USE <1>1
  <2>1. ASSUME NEW t \in Targets, StartTarget(d, t)
        PROVE  WorkTypes'
    BY <2>1 DEF StartTarget, WorkTypes
  <2>2. CASE Prepare(d)
    BY <2>2 DEF Prepare, WorkTypes, RulesForTarget, OtherTypes
  <2>3. CASE MatchHook(d)
    BY <2>3 DEF MatchHook, WorkTypes
  <2>4. CASE EndTarget(d)
    <3>1. ran[d] \cap Producing(job[d]) \in SUBSET Rules /\ timedOut[d] \in SUBSET Rules
      BY DEF WorkTypes
    <3>2. TimeoutErrors(timedOut[d]) \in SUBSET Errors
      BY <3>1, TimeoutsType
    <3>3. [matches |-> ran[d] \cap Producing(job[d]),
           errors |-> TimeoutErrors(timedOut[d]),
           scanned |-> RulesForTarget(job[d]) # {}] \in Results
      BY <3>1, <3>2, ResultType
    <3> QED BY <2>4, <3>3, StoreTypes DEF EndTarget
  <2>5. CASE ExceedMemory(d)
    <3>1. Blamed("OutOfMemory", lastRule[d]) \in Errors
      BY BlamedType DEF OtherTypes, ErrorKinds
    <3>2. {Blamed("OutOfMemory", lastRule[d])} \in SUBSET Errors
      BY <3>1
    <3> QED BY <2>5, <3>2, StoreErrorsTypes DEF ExceedMemory
  <2>6. ASSUME NEW kind \in RaisedKinds, PrepareRaises(d, kind)
        PROVE  WorkTypes'
    <3>1. Blamed(kind, lastRule[d]) \in Errors
      BY BlamedType DEF OtherTypes, ErrorKinds, RaisedKinds
    <3>2. {Blamed(kind, lastRule[d])} \in SUBSET Errors
      BY <3>1
    <3> QED BY <2>6, <3>2, StoreErrorsTypes DEF PrepareRaises
  <2>7. ASSUME NEW r \in Rules, RuleReturns(d, r)
        PROVE  WorkTypes'
    BY <2>7 DEF RuleReturns, WorkTypes
  <2>8. ASSUME NEW r \in Rules, RuleTimesOut(d, r)
        PROVE  WorkTypes'
    <3> DEFINE S == (timedOut[d] \cup {r}) \cap SameMode(r)
    <3>1. S \in SUBSET Rules
      BY DEF WorkTypes
    <3>2. TimeoutErrors(S) \in SUBSET Errors
      BY <3>1, TimeoutsType
    <3>3. CASE StoreErrors(d, TimeoutErrors(S))
      BY <3>2, <3>3, StoreErrorsTypes
    <3>4. CASE /\ todo' = [todo EXCEPT ![d] = @ \ {r}]
               /\ timedOut' = [timedOut EXCEPT ![d] = @ \cup {r}]
               /\ UNCHANGED <<job, pc, ran, res>>
      BY <3>4 DEF WorkTypes
    <3> QED BY <2>8, <3>3, <3>4 DEF RuleTimesOut
  <2>9. ASSUME NEW r \in Rules, NEW kind \in RaisedKinds, RuleRaises(d, r, kind)
        PROVE  WorkTypes'
    <3>1. Blamed(kind, r) \in Errors
      BY BlamedType DEF ErrorKinds, RaisedKinds
    <3>2. {Blamed(kind, r)} \in SUBSET Errors
      BY <3>1
    <3> QED BY <2>9, <3>2, StoreErrorsTypes DEF RuleRaises
  <2> QED BY <2>1, <2>2, <2>3, <2>4, <2>5, <2>6, <2>7, <2>8, <2>9 DEF DomainStep
<1> QED BY <1>3, <1>4, <1>5 DEF TypeOK, WorkTypes, OtherTypes, FinalTypes

\* The collation builds matches, errors and skipped entries of their types.
LEMMA CollateTypes ==
    ASSUME TypeOK, Collate
    PROVE  FinalTypes'
<1> USE CoreScanAssumption DEF CoreScanAssumption
<1> DEFINE found == UNION {{<<t, r>> : r \in res[t].matches} : t \in targets}
           offending == {f \in Files : Count(FileMatches(found, f)) > MaxMatchPerFile}
           rulesOf(f) == {m[2] : m \in FileMatches(found, f)}
<1>1. \A t \in targets : t \in Targets /\ res[t] \in Results
  BY DEF TypeOK, Collate
<1>2. found \subseteq Targets \X Rules
  BY <1>1 DEF Results
<1>3. \A f : rulesOf(f) \subseteq Rules
  BY <1>2 DEF FileMatches
<1>4. matches' = {m \in found : FileOf[m[1]] \notin offending}
  BY DEF Collate
<1>5. \E blame \in [offending -> Rules] :
          errors' = {[file |-> f, kind |-> "TooManyMatches", rule |-> blame[f]] :
                        f \in offending}
                    \cup UNION {{[file |-> FileOf[t], kind |-> e.kind, rule |-> e.rule] :
                                    e \in res[t].errors} : t \in targets}
  BY DEF Collate
<1>6. skipped' = skipped \cup
          UNION {{[file |-> f, rule |-> r, reason |-> "Too_many_matches"] :
                     r \in rulesOf(f)} : f \in offending}
  BY DEF Collate
<1> HIDE DEF found, rulesOf
<1>7. matches' \subseteq Targets \X Rules
  BY <1>2, <1>4
<1>8. errors' \subseteq [file : Files, kind : ErrorKinds \cup {"TooManyMatches"},
                         rule : Rules \cup {NoRule}]
  BY <1>1, <1>5 DEF Results, Errors
<1>9. skipped' \subseteq [file : Files, rule : Rules \cup {NoRule},
                          reason : {"Nonexistent_file", "Too_many_matches"}]
  BY <1>3, <1>6 DEF TypeOK
<1>10. scanned' \subseteq Targets
  BY <1>1 DEF Collate
<1> QED BY <1>7, <1>8, <1>9, <1>10 DEF FinalTypes

LEMMA TypeStep == TypeOK /\ WorkInv /\ [Next]_vars => TypeOK'
<1> SUFFICES ASSUME TypeOK, WorkInv, [Next]_vars
             PROVE  TypeOK'
  OBVIOUS
<1> USE CoreScanAssumption DEF CoreScanAssumption
<1>1. CASE RulesOfConfig
  BY <1>1 DEF RulesOfConfig, RulesFor, Existing, TypeOK, workVars, finalVars
<1>2. CASE TargetsOfConfig
  BY <1>2 DEF TargetsOfConfig, Existing, TypeOK, workVars
<1>3. CASE SortTargets
  BY <1>3 DEF SortTargets, TypeOK, workVars, finalVars
<1>4. CASE Collate
  <2>1. FinalTypes'
    BY <1>4, CollateTypes
  <2>2. WorkTypes'
    BY <1>4, TypeParts DEF Collate, WorkTypes, workVars
  <2>3. OtherTypes'
    BY <1>4, TypeParts DEF Collate, OtherTypes, workVars
  <2> QED BY <2>1, <2>2, <2>3 DEF TypeOK, WorkTypes, OtherTypes, FinalTypes
<1>5. CASE PostProcess
  BY <1>5 DEF PostProcess, TypeOK, workVars, finalVars
<1>6. ASSUME NEW d \in Domains, DomainStep(d)
      PROVE  TypeOK'
  BY <1>6, DomainTypes
<1>7. ASSUME NEW f \in Unstable, Outside(f)
      PROVE  TypeOK'
  BY <1>7 DEF Outside, Vanish, Appear, Edit, TypeOK, mainVars, workVars, finalVars
<1>8. CASE UNCHANGED vars
  BY <1>8 DEF vars, TypeOK, mainVars, workVars, finalVars
<1> QED BY <1>1, <1>2, <1>3, <1>4, <1>5, <1>6, <1>7, <1>8 DEF Next, MainStep

-----------------------------------------------------------------------------
(* The inductive invariant *)

LEMMA InitInv == Init => IInv
<1> SUFFICES ASSUME Init
             PROVE  IInv
  OBVIOUS
<1>1. TypeOK
  BY DEF Init, TypeOK
<1>2. WorkInv /\ SlotInv
  BY DEF Init, WorkInv, SlotInv
<1>3. FilterInv /\ ReportInv
  BY DEF Init, FilterInv, ReportInv
<1> QED BY <1>1, <1>2, <1>3 DEF IInv

\* What the slots must hold is fixed once the pool has started.
LEMMA WantedFixed ==
    ASSUME validRules' = validRules
    PROVE  \A t : Wanted(t)' = Wanted(t)
BY DEF Wanted, RulesForTarget

\* A domain writes a faithful slot and gives its target back.
LEMMA StoreStep ==
    ASSUME IInv, NEW d \in Domains, job[d] # NoTarget,
           NEW result, Faithful(job[d], result), Store(d, result),
           UNCHANGED <<mainVars, disk>>
    PROVE  WorkInv' /\ SlotInv'
<1> USE CoreScanAssumption DEF CoreScanAssumption
<1>1. TypeOK /\ WorkInv /\ SlotInv
  BY DEF IInv
<1>2. phase = "pool" /\ job[d] \in Targets
  BY <1>1 DEF WorkInv, TypeOK
<1>3. \A t : Wanted(t)' = Wanted(t)
  BY WantedFixed DEF mainVars
<1>4. \A t, x : Faithful(t, x)' = Faithful(t, x)
  BY <1>3 DEF Faithful, Producing
<1>5. SlotInv'
  BY <1>1, <1>2, <1>4 DEF SlotInv, Store, TypeOK, mainVars
<1>6. ASSUME NEW c \in Domains
      PROVE  WorkInv!(c)'
  <2>1. CASE c = d
    BY <2>1, <1>1 DEF WorkInv, Store, TypeOK
  <2>2. CASE c # d
    <3>1. job'[c] = job[c] /\ pc'[c] = pc[c] /\ todo'[c] = todo[c]
             /\ ran'[c] = ran[c] /\ timedOut'[c] = timedOut[c]
      BY <2>2, <1>1 DEF Store, TypeOK
    <3>2. job[c] # NoTarget => res'[job[c]] = res[job[c]]
      BY <2>2, <1>1 DEF Store, TypeOK, WorkInv
    <3>3. \A e \in Domains : job'[e] \in {job[e], NoTarget}
      BY <1>1 DEF Store, TypeOK
    <3> QED BY <1>1, <1>3, <3>1, <3>2, <3>3 DEF WorkInv, mainVars
  <2> QED BY <2>1, <2>2
<1>7. WorkInv'
  BY <1>6 DEF WorkInv
<1> QED BY <1>5, <1>7

LEMMA StoreErrorsStep ==
    ASSUME IInv, NEW d \in Domains, job[d] # NoTarget,
           NEW E, E # {}, StoreErrors(d, E), UNCHANGED <<mainVars, disk>>
    PROVE  WorkInv' /\ SlotInv'
<1>1. Faithful(job[d], [matches |-> {}, errors |-> E, scanned |-> TRUE])
  BY DEF Faithful
<1> QED BY <1>1, StoreStep DEF StoreErrors

\* The steps of a domain that write no slot.
LEMMA QuietStep ==
    ASSUME IInv, NEW d \in Domains,
           UNCHANGED <<mainVars, res, job>>,
           \A c \in Domains : c # d =>
               /\ pc'[c] = pc[c] /\ todo'[c] = todo[c]
               /\ ran'[c] = ran[c] /\ timedOut'[c] = timedOut[c],
           job[d] # NoTarget, pc'[d] # "idle",
           pc'[d] \in {"rules", "return"} =>
               Wanted(job[d]) \subseteq todo'[d] \cup ran'[d] \cup timedOut'[d],
           pc'[d] = "return" => todo'[d] = {}
    PROVE  WorkInv' /\ SlotInv'
<1>1. TypeOK /\ WorkInv /\ SlotInv
  BY DEF IInv
<1>2. \A t : Wanted(t)' = Wanted(t)
  BY WantedFixed DEF mainVars
<1>3. SlotInv'
  BY <1>1, <1>2 DEF SlotInv, Faithful, Producing, mainVars
<1>4. WorkInv'
  BY <1>1, <1>2 DEF WorkInv, mainVars
<1> QED BY <1>3, <1>4

\* No step of a domain disturbs the main domain.
LEMMA DomainFrame ==
    ASSUME NEW d \in Domains, DomainStep(d)
    PROVE  UNCHANGED <<mainVars, disk, finalVars>>
BY DEF DomainStep, StartTarget, Prepare, MatchHook, EndTarget,
       ExceedMemory, PrepareRaises, RuleReturns, RuleTimesOut, RuleRaises

LEMMA DomainInv ==
    ASSUME IInv, NEW d \in Domains, DomainStep(d)
    PROVE  WorkInv' /\ SlotInv'
<1> USE CoreScanAssumption DEF CoreScanAssumption
<1>1. TypeOK /\ WorkInv /\ SlotInv
  BY DEF IInv
<1>2. UNCHANGED <<mainVars, disk>>
  BY DomainFrame
<1>3. ASSUME NEW t \in Targets, StartTarget(d, t)
      PROVE  WorkInv' /\ SlotInv'
  <2>1. \A x : Wanted(x)' = Wanted(x)
    BY <1>2, WantedFixed DEF mainVars
  <2>2. SlotInv'
    BY <1>1, <1>3, <2>1 DEF StartTarget, SlotInv, Faithful, Producing, mainVars
  <2>3. WorkInv'
    BY <1>1, <1>3, <2>1 DEF StartTarget, WorkInv, TypeOK, mainVars
  <2> QED BY <2>2, <2>3
<1>4. CASE Prepare(d)
  BY <1>1, <1>2, <1>4, QuietStep DEF Prepare, WorkInv, TypeOK, Wanted
<1>5. CASE MatchHook(d)
  <2>1. job[d] # NoTarget /\ Wanted(job[d]) \subseteq todo[d] \cup ran[d] \cup timedOut[d]
    BY <1>1, <1>5 DEF MatchHook, WorkInv
  <2> QED BY <1>1, <1>2, <1>5, <2>1, QuietStep DEF MatchHook, TypeOK
<1>6. CASE EndTarget(d)
  <2> DEFINE result == [matches |-> ran[d] \cap Producing(job[d]),
                        errors |-> TimeoutErrors(timedOut[d]),
                        scanned |-> RulesForTarget(job[d]) # {}]
  <2>1. Wanted(job[d]) \subseteq ran[d] \cup timedOut[d] /\ job[d] # NoTarget
    BY <1>1, <1>6 DEF EndTarget, WorkInv, TypeOK
  <2>2. TimeoutErrors(timedOut[d]) = {} => timedOut[d] = {}
    BY TimeoutsSeen
  <2>3. Faithful(job[d], result)
    BY <2>1, <2>2 DEF Faithful
  <2> QED BY <1>2, <1>6, <2>1, <2>3, StoreStep DEF EndTarget
<1>7. CASE ExceedMemory(d)
  <2>1. job[d] # NoTarget
    BY <1>7 DEF ExceedMemory, Busy
  <2> QED BY <1>2, <1>7, <2>1, StoreErrorsStep DEF ExceedMemory
<1>8. ASSUME NEW kind \in RaisedKinds, PrepareRaises(d, kind)
      PROVE  WorkInv' /\ SlotInv'
  <2>1. job[d] # NoTarget
    BY <1>1, <1>8 DEF PrepareRaises, WorkInv
  <2> QED BY <1>2, <1>8, <2>1, StoreErrorsStep DEF PrepareRaises
<1>9. ASSUME NEW r \in Rules, EnterRule(d, r)
      PROVE  job[d] # NoTarget /\ Wanted(job[d]) \subseteq todo[d] \cup ran[d] \cup timedOut[d]
  BY <1>1, <1>9 DEF EnterRule, WorkInv
<1>10. ASSUME NEW r \in Rules, RuleReturns(d, r)
       PROVE  WorkInv' /\ SlotInv'
  <2>1. EnterRule(d, r) /\ pc[d] = "rules"
    BY <1>10 DEF RuleReturns, EnterRule
  <2> QED BY <1>1, <1>2, <1>9, <1>10, <2>1, QuietStep DEF RuleReturns, TypeOK
<1>11. ASSUME NEW r \in Rules, RuleTimesOut(d, r)
       PROVE  WorkInv' /\ SlotInv'
  <2> DEFINE S == (timedOut[d] \cup {r}) \cap SameMode(r)
  <2>1. EnterRule(d, r) /\ pc[d] = "rules"
    BY <1>11 DEF RuleTimesOut, EnterRule
  <2>2. CASE StoreErrors(d, TimeoutErrors(S))
    <3>1. r \in S
      BY DEF SameMode
    <3>2. TimeoutErrors(S) # {}
      BY <3>1, TimeoutsSeen
    <3> QED BY <1>2, <1>9, <2>1, <2>2, <3>2, StoreErrorsStep
  <2>3. CASE /\ todo' = [todo EXCEPT ![d] = @ \ {r}]
             /\ timedOut' = [timedOut EXCEPT ![d] = @ \cup {r}]
             /\ UNCHANGED <<job, pc, ran, res>>
    BY <1>1, <1>2, <1>9, <2>1, <2>3, QuietStep DEF TypeOK
  <2> QED BY <1>11, <2>2, <2>3 DEF RuleTimesOut
<1>12. ASSUME NEW r \in Rules, NEW kind \in RaisedKinds, RuleRaises(d, r, kind)
       PROVE  WorkInv' /\ SlotInv'
  BY <1>2, <1>9, <1>12, StoreErrorsStep DEF RuleRaises
<1> QED BY <1>3, <1>4, <1>5, <1>6, <1>7, <1>8, <1>10, <1>11, <1>12 DEF DomainStep

\* The steps of the main domain: no slot moves, and no domain is busy but
\* in the pool.
LEMMA MainInv ==
    ASSUME IInv, MainStep
    PROVE  WorkInv' /\ SlotInv'
<1> USE CoreScanAssumption DEF CoreScanAssumption
<1>1. TypeOK /\ WorkInv /\ SlotInv
  BY DEF IInv
<1>2. UNCHANGED <<workVars, job, res>>
  BY DEF MainStep, RulesOfConfig, TargetsOfConfig, SortTargets, Collate, PostProcess
<1>3. \A d \in Domains : job[d] = NoTarget
  <2>1. CASE phase = "pool"
    <3>1. Collate
      BY <2>1 DEF MainStep, RulesOfConfig, TargetsOfConfig, SortTargets, PostProcess
    <3>2. \A t \in targets : res[t] # NoResult
      BY <3>1 DEF Collate
    <3> QED BY <3>2, <1>1 DEF WorkInv
  <2>2. CASE phase # "pool"
    BY <1>1, <2>2 DEF WorkInv
  <2> QED BY <2>1, <2>2
<1>4. WorkInv'
  BY <1>1, <1>2, <1>3 DEF WorkInv, workVars
<1>5. CASE phase \in {"rules", "targets", "sort"}
  <2>1. \A t \in Targets : res[t] = NoResult
    BY <1>1, <1>5 DEF SlotInv
  <2> QED BY <1>2, <1>4, <2>1 DEF SlotInv
<1>6. CASE phase \notin {"rules", "targets", "sort"}
  <2>1. Collate \/ PostProcess
    BY <1>6 DEF MainStep, RulesOfConfig, TargetsOfConfig, SortTargets
  <2>2. validRules' = validRules /\ phase' \in {"post", "done", "aborted"}
    BY <2>1 DEF Collate, PostProcess
  <2>3. \A t : Wanted(t)' = Wanted(t)
    BY <2>2, WantedFixed
  <2> QED BY <1>1, <1>2, <1>4, <2>2, <2>3 DEF SlotInv, Faithful, Producing
<1> QED BY <1>5, <1>6

LEMMA FilterStep == IInv /\ [Next]_vars => FilterInv'
<1> SUFFICES ASSUME IInv, [Next]_vars
             PROVE  FilterInv'
  OBVIOUS
<1> USE CoreScanAssumption DEF CoreScanAssumption, IInv
<1>1. CASE RulesOfConfig
  BY <1>1 DEF RulesOfConfig, RulesFor, Existing, FilterInv
<1>2. CASE TargetsOfConfig
  BY <1>2 DEF TargetsOfConfig, FilterInv
<1>3. CASE SortTargets
  BY <1>3 DEF SortTargets, FilterInv
<1>4. CASE Collate
  BY <1>4 DEF Collate, FilterInv
<1>5. CASE PostProcess
  BY <1>5 DEF PostProcess, FilterInv
<1>6. ASSUME NEW d \in Domains, DomainStep(d)
      PROVE  FilterInv'
  BY <1>6, DomainFrame DEF FilterInv, mainVars
<1>7. ASSUME NEW f \in Unstable, Outside(f)
      PROVE  FilterInv'
  BY <1>7 DEF Outside, FilterInv, mainVars
<1>8. CASE UNCHANGED vars
  BY <1>8 DEF vars, mainVars, FilterInv
<1> QED BY <1>1, <1>2, <1>3, <1>4, <1>5, <1>6, <1>7, <1>8 DEF Next, MainStep

\* The collation keeps a match or reports an error on its file.
LEMMA CollateReports ==
    ASSUME IInv, Collate
    PROVE  ReportInv'
<1> USE CoreScanAssumption DEF CoreScanAssumption
<1> DEFINE found == UNION {{<<t, r>> : r \in res[t].matches} : t \in targets}
           offending == {f \in Files : Count(FileMatches(found, f)) > MaxMatchPerFile}
<1>1. matches' = {m \in found : FileOf[m[1]] \notin offending}
  BY DEF Collate
<1>2. PICK blame \in [offending -> Rules] :
          errors' = {[file |-> f, kind |-> "TooManyMatches", rule |-> blame[f]] :
                        f \in offending}
                    \cup UNION {{[file |-> FileOf[t], kind |-> e.kind, rule |-> e.rule] :
                                    e \in res[t].errors} : t \in targets}
  BY DEF Collate
<1> HIDE DEF offending
<1>3. SUFFICES ASSUME NEW t \in targets,
                      NEW r \in Wanted(t) \cap Producing(t)
               PROVE  Reported(t, r)'
  BY DEF Collate, ReportInv, Producing, Wanted, RulesForTarget
<1>4. t \in Targets /\ res[t] # NoResult /\ phase = "pool"
  BY DEF IInv, TypeOK, Collate
<1>5. Faithful(t, res[t])
  BY <1>4 DEF IInv, SlotInv
<1>6. CASE res[t].errors # {}
  <2>1. PICK e \in res[t].errors : TRUE
    BY <1>6
  <2>2. [file |-> FileOf[t], kind |-> e.kind, rule |-> e.rule] \in errors'
    BY <1>2, <2>1
  <2> QED BY <2>2 DEF Reported
<1>7. CASE r \in res[t].matches /\ FileOf[t] \in offending
  <2>1. [file |-> FileOf[t], kind |-> "TooManyMatches", rule |-> blame[FileOf[t]]] \in errors'
    BY <1>2, <1>7
  <2> QED BY <2>1 DEF Reported
<1>8. CASE r \in res[t].matches /\ FileOf[t] \notin offending
  <2>1. <<t, r>> \in matches'
    BY <1>1, <1>8
  <2> QED BY <2>1 DEF Reported
<1> QED BY <1>3, <1>5, <1>6, <1>7, <1>8 DEF Faithful

LEMMA ReportStep == IInv /\ [Next]_vars => ReportInv'
<1> SUFFICES ASSUME IInv, [Next]_vars
             PROVE  ReportInv'
  OBVIOUS
<1> USE DEF IInv
<1>1. CASE RulesOfConfig \/ TargetsOfConfig \/ SortTargets
  BY <1>1 DEF RulesOfConfig, TargetsOfConfig, SortTargets, ReportInv
<1>2. CASE Collate
  BY <1>2, CollateReports
<1>3. CASE PostProcess
  BY <1>3 DEF PostProcess, ReportInv, Reported, Producing, Wanted, RulesForTarget,
        finalVars
<1>4. ASSUME NEW d \in Domains, DomainStep(d)
      PROVE  ReportInv'
  BY <1>4, DomainFrame DEF ReportInv, Reported, Producing, Wanted, RulesForTarget,
        mainVars, finalVars
<1>5. ASSUME NEW f \in Unstable, Outside(f)
      PROVE  ReportInv'
  BY <1>5 DEF Outside, ReportInv, Reported, Producing, Wanted, RulesForTarget,
        mainVars, finalVars
<1>6. CASE UNCHANGED vars
  BY <1>6 DEF vars, mainVars, finalVars, ReportInv, Reported, Producing, Wanted,
              RulesForTarget
<1> QED BY <1>1, <1>2, <1>3, <1>4, <1>5, <1>6 DEF Next, MainStep

LEMMA InvStep == IInv /\ [Next]_vars => IInv'
<1> SUFFICES ASSUME IInv, [Next]_vars
             PROVE  IInv'
  OBVIOUS
<1>1. TypeOK'
  BY TypeStep DEF IInv
<1>2. WorkInv' /\ SlotInv'
  <2>1. ASSUME NEW f \in Unstable, Outside(f)
        PROVE  WorkInv' /\ SlotInv'
    BY <2>1 DEF IInv, Outside, mainVars, workVars, WorkInv, SlotInv, Faithful, Wanted,
                RulesForTarget, Producing
  <2>2. CASE UNCHANGED vars
    BY <2>2 DEF IInv, vars, mainVars, workVars, WorkInv, SlotInv, Faithful, Wanted,
                RulesForTarget, Producing
  <2> QED BY <2>1, <2>2, MainInv, DomainInv DEF Next
<1>3. FilterInv' /\ ReportInv'
  BY FilterStep, ReportStep
<1> QED BY <1>1, <1>2, <1>3 DEF IInv

LEMMA Invariance == Spec => []IInv
BY InitInv, InvStep, PTL DEF Spec

-----------------------------------------------------------------------------
(* The theorems *)

\* The variables of a scan keep their types, for every set of targets, rules
\* and domains and every limit.
THEOREM TypeCorrect == Spec => []TypeOK
<1>1. IInv => TypeOK
  BY DEF IInv
<1> QED BY <1>1, Invariance, PTL

\* A scan that succeeds has no silent loss: every match that a rule has on a
\* target of the pool is reported, or an error names its file, or the target
\* was not there when the rules were filtered, whatever the interleaving of
\* domains, timeouts, exceptions, limits and changes of files was.
THEOREM NothingLostInSilence == Spec => []NoSilentLoss
<1>1. IInv => NoSilentLoss
  BY DEF IInv, FilterInv, ReportInv, Reported, NoSilentLoss, Wanted, RulesForTarget
<1> QED BY <1>1, Invariance, PTL

-----------------------------------------------------------------------------
(* Refinement of the report *)

\* No target is missing before the second look at the disk, and none is
\* pending after the collation.
PhaseInv ==
    /\ phase \in {"rules", "targets"} => targets = Targets
    /\ phase \in {"post", "done"} => \A t \in targets : res[t] # NoResult

\* One result is written, or none.
LEMMA ResStep ==
    ASSUME IInv, NEW d \in Domains, DomainStep(d)
    PROVE  \/ res' = res
           \/ /\ job[d] \in targets /\ res[job[d]] = NoResult
              /\ \E x : res' = [res EXCEPT ![job[d]] = x]
<1>1. pc[d] \in {"prepare", "rules", "return"} \/ d \in Busy =>
          job[d] \in targets /\ res[job[d]] = NoResult
  BY DEF IInv, WorkInv, Busy
<1> QED BY <1>1 DEF DomainStep, StartTarget, Prepare, MatchHook, EndTarget, ExceedMemory,
           PrepareRaises, RuleReturns, RuleTimesOut, RuleRaises, EnterRule, StoreErrors, Store

LEMMA PhaseStep == IInv /\ PhaseInv /\ [Next]_vars => PhaseInv'
<1> SUFFICES ASSUME IInv, PhaseInv, [Next]_vars
             PROVE  PhaseInv'
  OBVIOUS
<1>1. CASE MainStep
  BY <1>1 DEF MainStep, RulesOfConfig, TargetsOfConfig, SortTargets, Collate, PostProcess, PhaseInv
<1>2. ASSUME NEW d \in Domains, DomainStep(d)
      PROVE  PhaseInv'
  <2>1. UNCHANGED mainVars
    BY <1>2, DomainFrame
  <2>2. CASE res' = res
    BY <2>1, <2>2 DEF PhaseInv, mainVars
  <2>3. CASE job[d] \in targets /\ res[job[d]] = NoResult
    <3>1. phase \notin {"post", "done"}
      BY <2>3 DEF PhaseInv
    <3> QED BY <2>1, <3>1 DEF PhaseInv, mainVars
  <2> QED BY <1>2, <2>2, <2>3, ResStep
<1>3. ASSUME NEW f \in Unstable, Outside(f)
      PROVE  PhaseInv'
  BY <1>3 DEF Outside, PhaseInv, mainVars
<1>4. CASE UNCHANGED vars
  BY <1>4 DEF vars, mainVars, PhaseInv
<1> QED BY <1>1, <1>2, <1>3, <1>4 DEF Next

LEMMA PhaseInvariance == Spec => [](IInv /\ PhaseInv)
<1>1. Init => PhaseInv
  BY DEF Init, PhaseInv
<1> QED BY <1>1, InitInv, InvStep, PhaseStep, PTL DEF Spec

LEMMA InitRefines == Init => Report!Init
<1> SUFFICES ASSUME Init
             PROVE  Report!Init
  OBVIOUS
<1>1. Verdict = [t \in Targets |-> "pending"]
  BY DEF Init, Verdict
<1>2. Progress = "running"
  BY DEF Init, Progress
<1>3. Intact \in BOOLEAN
  BY DEF Intact
<1> QED BY <1>1, <1>2, <1>3 DEF Report!Init

LEMMA MainRefines ==
    ASSUME IInv, PhaseInv, MainStep
    PROVE  [Report!Next]_(Report!vars)
<1> USE CoreScanAssumption DEF CoreScanAssumption
<1>1. res' = res /\ Intact' = Intact
  <2>1. res' = res /\ disk' = disk
    BY DEF MainStep, RulesOfConfig, TargetsOfConfig, SortTargets, Collate, PostProcess
  <2> QED BY <2>1 DEF Intact
<1>2. ASSUME targets' = targets
      PROVE  Verdict' = Verdict
  BY <1>1, <1>2 DEF Verdict
<1>3. ASSUME NEW t \in Targets, disk[FileOf[t]] # "same"
      PROVE  ~Intact
  BY <1>3 DEF Intact
<1>4. CASE RulesOfConfig
  <2>1. Progress' = Progress
    BY <1>4 DEF RulesOfConfig, Progress
  <2> QED BY <1>1, <1>2, <1>4, <2>1 DEF RulesOfConfig, Report!vars
<1>5. CASE TargetsOfConfig
  <2> DEFINE S == Targets \ Existing(Targets)
  <2>1. Progress = "running" /\ Progress' = Progress
    BY <1>5 DEF TargetsOfConfig, Progress
  <2>2. \A t \in Targets : res[t] = NoResult /\ t \in targets
    BY <1>5 DEF TargetsOfConfig, IInv, SlotInv, PhaseInv
  <2>3. \A t \in Targets : Verdict[t] = "pending"
    BY <2>2 DEF Verdict
  <2>4. Verdict' = [t \in Targets |-> IF t \in S THEN "missing" ELSE "pending"]
    BY <1>1, <1>5, <2>2 DEF TargetsOfConfig, Verdict, Existing
  <2>5. S # {} => ~Intact
    BY <1>3 DEF Existing
  <2>6. Report!Skip(S)
    BY <1>1, <2>1, <2>3, <2>4, <2>5 DEF Report!Skip
  <2> QED BY <2>6 DEF Report!Next
<1>6. CASE SortTargets
  <2>1. Progress = "running" /\ Verdict' = Verdict
    BY <1>2, <1>6 DEF SortTargets, Progress
  <2>2. CASE Existing(targets) = targets
    <3>1. Progress' = "running"
      BY <1>6, <2>2 DEF SortTargets, Progress
    <3> QED BY <1>1, <2>1, <3>1 DEF Report!vars
  <2>3. CASE Existing(targets) # targets
    <3>1. PICK t \in targets : disk[FileOf[t]] = "absent"
      BY <2>3 DEF Existing
    <3>2. ~Intact
      BY <3>1, <1>3 DEF IInv, TypeOK
    <3>3. Progress' = "aborted"
      BY <1>6, <2>3 DEF SortTargets, Progress
    <3>4. Report!Abort
      BY <1>1, <2>1, <3>2, <3>3 DEF Report!Abort
    <3> QED BY <3>4 DEF Report!Next
  <2> QED BY <2>2, <2>3
<1>7. CASE Collate
  <2>1. Progress' = Progress
    BY <1>7 DEF Collate, Progress
  <2> QED BY <1>1, <1>2, <1>7, <2>1 DEF Collate, Report!vars
<1>8. CASE PostProcess
  <2>1. Progress = "running" /\ Verdict' = Verdict
    BY <1>2, <1>8 DEF PostProcess, Progress
  <2>2. CASE phase' = "done"
    <3>1. Progress' = "published"
      BY <2>2 DEF Progress
    <3>2. \A t \in Targets : Verdict[t] # "pending"
      BY <1>8 DEF PostProcess, PhaseInv, Verdict
    <3>3. Report!Publish
      BY <1>1, <2>1, <3>1, <3>2 DEF Report!Publish
    <3> QED BY <3>3 DEF Report!Next
  <2>3. CASE phase' = "aborted" /\ \E m \in matches : disk[FileOf[m[1]]] # "same"
    <3>1. PICK m \in matches : disk[FileOf[m[1]]] # "same"
      BY <2>3
    <3>2. ~Intact
      BY <3>1, <1>3 DEF IInv, TypeOK
    <3>3. Progress' = "aborted"
      BY <2>3 DEF Progress
    <3>4. Report!Abort
      BY <1>1, <2>1, <3>2, <3>3 DEF Report!Abort
    <3> QED BY <3>4 DEF Report!Next
  <2> QED BY <1>8, <2>2, <2>3 DEF PostProcess
<1> QED BY <1>4, <1>5, <1>6, <1>7, <1>8 DEF MainStep

LEMMA DomainRefines ==
    ASSUME IInv, IInv', NEW d \in Domains, DomainStep(d)
    PROVE  [Report!Next]_(Report!vars)
<1>1. UNCHANGED <<mainVars, disk>>
  BY DomainFrame
<1>2. Progress' = Progress /\ Intact' = Intact
  BY <1>1 DEF mainVars, Progress, Intact
<1>3. CASE res' = res
  <2>1. Verdict' = Verdict
    BY <1>1, <1>3 DEF mainVars, Verdict
  <2> QED BY <1>2, <2>1 DEF Report!vars
<1>4. ASSUME NEW x, job[d] \in targets, res[job[d]] = NoResult,
             res' = [res EXCEPT ![job[d]] = x]
      PROVE  [Report!Next]_(Report!vars)
  <2>1. job[d] \in Targets /\ Verdict[job[d]] = "pending" /\ Progress = "running"
    BY <1>4, CoreScanAssumption
       DEF CoreScanAssumption, IInv, TypeOK, WorkInv, Verdict, Progress
  <2>2. CASE x = NoResult
    <3>1. res' = res
      BY <1>4, <2>2 DEF IInv, TypeOK
    <3> QED BY <3>1, <1>3
  <2>3. CASE x # NoResult
    <3>1. Verdict' = [Verdict EXCEPT ![job[d]] = "settled"]
      BY <1>1, <1>4, <2>1, <2>3 DEF IInv, TypeOK, mainVars, Verdict
    <3>2. Report!Settle(job[d])
      BY <1>2, <2>1, <3>1 DEF Report!Settle
    <3> QED BY <2>1, <3>2 DEF Report!Next
  <2> QED BY <2>2, <2>3
<1> QED BY <1>3, <1>4, ResStep

LEMMA StepRefines ==
    IInv /\ IInv' /\ PhaseInv /\ [Next]_vars => [Report!Next]_(Report!vars)
<1> SUFFICES ASSUME IInv, IInv', PhaseInv, [Next]_vars
             PROVE  [Report!Next]_(Report!vars)
  OBVIOUS
<1>1. ASSUME NEW f \in Unstable, Outside(f)
      PROVE  Report!Next
  <2>1. Progress = "running" /\ Progress' = Progress /\ Verdict' = Verdict
    BY <1>1 DEF Outside, mainVars, Progress, Verdict
  <2>2. Intact' \in BOOLEAN
    BY DEF Intact
  <2>3. Report!Outside
    BY <2>1, <2>2 DEF Report!Outside
  <2> QED BY <2>3 DEF Report!Next
<1>2. CASE UNCHANGED vars
  BY <1>2 DEF vars, mainVars, Progress, Intact, Verdict, Report!vars
<1> QED BY <1>1, <1>2, MainRefines, DomainRefines DEF Next

\* The pool of domains, the collation and the post-processing keep the
\* promise of ScanReport for every set of targets, domains and limits.
THEOREM KeepsReport == Spec => ImplementsScanReport
BY InitRefines, StepRefines, PhaseInvariance, PTL
   DEF Spec, ImplementsScanReport, Report!Spec

-----------------------------------------------------------------------------
(* Targets that are accounted for *)

\* A slot says that its target was scanned, or no rule was left for it.
ScannedSlots ==
    \A t \in Targets : res[t] # NoResult => res[t].scanned \/ RulesForTarget(t) = {}

\* A target that the second look at the disk left out was skipped with its
\* reason, and after the collation every other one is accounted for.
Missing(t) == \E s \in skipped : s.file = FileOf[t] /\ s.reason = "Nonexistent_file"
AccountInv ==
    /\ phase \notin {"rules", "targets"} => \A t \in Targets \ targets : Missing(t)
    /\ phase \in {"post", "done"} =>
           \A t \in targets : t \in scanned \/ RulesForTarget(t) = {}

\* What a step of a domain may write into its slot.
LEMMA SlotWritten ==
    ASSUME IInv, NEW d \in Domains, DomainStep(d), res' # res
    PROVE  /\ job[d] \in Targets /\ job[d] # NoTarget /\ res[job[d]] = NoResult
           /\ \/ /\ EndTarget(d)
                 /\ Store(d, [matches |-> ran[d] \cap Producing(job[d]),
                              errors |-> TimeoutErrors(timedOut[d]),
                              scanned |-> RulesForTarget(job[d]) # {}])
              \/ /\ ExceedMemory(d)
                 /\ StoreErrors(d, {Blamed("OutOfMemory", lastRule[d])})
              \/ \E kind \in RaisedKinds, r \in Rules \cup {NoRule} :
                    pc[d] \in {"prepare", "rules"} /\ StoreErrors(d, {Blamed(kind, r)})
              \/ \E r \in Rules :
                    LET S == (timedOut[d] \cup {r}) \cap SameMode(r)
                    IN /\ pc[d] = "rules" /\ r \in todo[d]
                       /\ StoreErrors(d, TimeoutErrors(S))
<1>1. TypeOK /\ WorkInv
  BY DEF IInv
<1>2. pc[d] \in {"prepare", "rules", "return"} \/ d \in Busy =>
          /\ job[d] \in Targets /\ job[d] # NoTarget /\ res[job[d]] = NoResult
  BY <1>1, CoreScanAssumption DEF CoreScanAssumption, WorkInv, Busy, TypeOK
<1>3. CASE EndTarget(d)
  BY <1>2, <1>3 DEF EndTarget
<1>4. CASE ExceedMemory(d)
  BY <1>2, <1>4 DEF ExceedMemory
<1>5. ASSUME NEW kind \in RaisedKinds, PrepareRaises(d, kind)
      PROVE  /\ pc[d] = "prepare" /\ lastRule[d] \in Rules \cup {NoRule}
             /\ StoreErrors(d, {Blamed(kind, lastRule[d])})
  BY <1>1, <1>5 DEF PrepareRaises, TypeOK
<1>6. ASSUME NEW r \in Rules, NEW kind \in RaisedKinds, RuleRaises(d, r, kind)
      PROVE  pc[d] = "rules" /\ StoreErrors(d, {Blamed(kind, r)})
  BY <1>6 DEF RuleRaises, EnterRule
<1>7. ASSUME NEW r \in Rules, RuleTimesOut(d, r)
      PROVE  /\ pc[d] = "rules" /\ r \in todo[d]
             /\ StoreErrors(d, TimeoutErrors((timedOut[d] \cup {r}) \cap SameMode(r)))
  BY <1>7 DEF RuleTimesOut, EnterRule, NextRules
<1>8. EndTarget(d) \/ ExceedMemory(d)
      \/ (\E kind \in RaisedKinds : PrepareRaises(d, kind))
      \/ (\E r \in Rules : RuleTimesOut(d, r) \/ \E kind \in RaisedKinds : RuleRaises(d, r, kind))
  BY DEF DomainStep, StartTarget, Prepare, MatchHook, RuleReturns
<1>9. QED
  BY <1>2, <1>3, <1>4, <1>5, <1>6, <1>7, <1>8

\* A slot is written by Store alone, and the others stay.
LEMMA OtherSlots ==
    ASSUME IInv, NEW d \in Domains, NEW result, job[d] \in Targets, Store(d, result)
    PROVE  /\ res'[job[d]] = result
           /\ \A t \in Targets : t # job[d] => res'[t] = res[t]
BY DEF Store, IInv, TypeOK

LEMMA RulesFixed ==
    ASSUME validRules' = validRules
    PROVE  \A t : RulesForTarget(t)' = RulesForTarget(t)
BY DEF RulesForTarget

LEMMA ScannedDomain ==
    ASSUME IInv, ScannedSlots, NEW d \in Domains, DomainStep(d)
    PROVE  ScannedSlots'
<1>1. \A t : RulesForTarget(t)' = RulesForTarget(t)
  BY DomainFrame, RulesFixed DEF mainVars
<1>2. CASE res' = res
  BY <1>1, <1>2 DEF ScannedSlots
<1>3. CASE res' # res
  <2>1. job[d] \in Targets
    BY <1>3, SlotWritten
  <2>2. ASSUME NEW result, Store(d, result), result.scanned \/ RulesForTarget(job[d]) = {}
        PROVE  ScannedSlots'
    BY <1>1, <2>1, <2>2, OtherSlots DEF ScannedSlots
  <2>3. ASSUME NEW E, StoreErrors(d, E)
        PROVE  ScannedSlots'
    BY <2>2, <2>3 DEF StoreErrors
  <2>4. QED
    BY <1>3, <2>2, <2>3, SlotWritten
<1>4. QED
  BY <1>2, <1>3

LEMMA AccountMain ==
    ASSUME IInv, ScannedSlots, AccountInv, MainStep
    PROVE  ScannedSlots' /\ AccountInv'
<1> USE CoreScanAssumption DEF CoreScanAssumption
<1>1. TypeOK /\ SlotInv
  BY DEF IInv
<1>2. CASE RulesOfConfig
  <2>1. \A t \in Targets : res'[t] = NoResult
    BY <1>1, <1>2 DEF RulesOfConfig, SlotInv
  <2>2. QED
    BY <1>2, <2>1 DEF RulesOfConfig, ScannedSlots, AccountInv
<1>3. CASE TargetsOfConfig
  <2>1. \A t \in Targets : res'[t] = NoResult
    BY <1>1, <1>3 DEF TargetsOfConfig, SlotInv
  <2>2. ASSUME NEW t \in Targets \ targets'
        PROVE  Missing(t)'
    <3>1. [file |-> FileOf[t], rule |-> NoRule, reason |-> "Nonexistent_file"] \in skipped'
      BY <1>3 DEF TargetsOfConfig
    <3>2. QED
      BY <3>1 DEF Missing
  <2>3. QED
    BY <1>3, <2>1, <2>2 DEF TargetsOfConfig, ScannedSlots, AccountInv
<1>4. CASE SortTargets
  BY <1>4 DEF SortTargets, ScannedSlots, AccountInv, Missing, RulesForTarget, finalVars
<1>5. CASE Collate
  <2>1. \A t : RulesForTarget(t)' = RulesForTarget(t)
    BY <1>5, RulesFixed DEF Collate
  <2>2. skipped \subseteq skipped' /\ targets' = targets /\ res' = res
    BY <1>5 DEF Collate
  <2>3. \A t \in Targets \ targets' : Missing(t)'
    BY <1>5, <2>2 DEF Collate, AccountInv, Missing
  <2>4. \A t \in targets : t \in scanned' \/ RulesForTarget(t) = {}
    BY <1>1, <1>5 DEF Collate, ScannedSlots, TypeOK
  <2>5. QED
    BY <2>1, <2>2, <2>3, <2>4 DEF ScannedSlots, AccountInv
<1>6. CASE PostProcess
  BY <1>6 DEF PostProcess, ScannedSlots, AccountInv, Missing, RulesForTarget, finalVars
<1>7. QED
  BY <1>2, <1>3, <1>4, <1>5, <1>6 DEF MainStep

LEMMA AccountStep ==
    IInv /\ ScannedSlots /\ AccountInv /\ [Next]_vars => ScannedSlots' /\ AccountInv'
<1> SUFFICES ASSUME IInv, ScannedSlots, AccountInv, [Next]_vars
             PROVE  ScannedSlots' /\ AccountInv'
  OBVIOUS
<1>1. ASSUME UNCHANGED <<mainVars, finalVars>>
      PROVE  AccountInv'
  BY <1>1 DEF mainVars, finalVars, AccountInv, Missing, RulesForTarget
<1>2. ASSUME NEW d \in Domains, DomainStep(d)
      PROVE  ScannedSlots' /\ AccountInv'
  BY <1>1, <1>2, DomainFrame, ScannedDomain
<1>3. ASSUME NEW f \in Unstable, Outside(f)
      PROVE  ScannedSlots' /\ AccountInv'
  BY <1>1, <1>3 DEF Outside, ScannedSlots, RulesForTarget, mainVars
<1>4. CASE UNCHANGED vars
  BY <1>1, <1>4 DEF vars, ScannedSlots, RulesForTarget, mainVars
<1>5. QED
  BY <1>2, <1>3, <1>4, AccountMain DEF Next

\* Every target that a scan was asked for is among the scanned ones, or was
\* skipped because it had gone, or has no rule (or came after the rules were
\* filtered): also when its handler raised.
THEOREM TargetsAreAccountedFor == Spec => []TargetsAccountedFor
<1>1. Init => ScannedSlots /\ AccountInv
  BY DEF Init, ScannedSlots, AccountInv
<1>2. IInv /\ AccountInv => TargetsAccountedFor
  BY DEF IInv, FilterInv, AccountInv, TargetsAccountedFor, RulesForTarget, Missing
<1>3. QED
  BY <1>1, <1>2, AccountStep, Invariance, PTL DEF Spec

-----------------------------------------------------------------------------
(* Matches on display *)

\* A match on display is in the slot of its target, or memory ran out there,
\* or the handler of the target is about to return it.
InSlot(m) ==
    /\ res[m[1]] # NoResult
    /\ \/ m[2] \in res[m[1]].matches
       \/ \E e \in res[m[1]].errors : e.kind = "OutOfMemory"
InHand(m) ==
    \E d \in Domains : job[d] = m[1] /\ pc[d] = "return" /\ m[2] \in ran[d] \cap Producing(m[1])
Accounted(m) ==
    \/ m \in matches
    \/ \E e \in errors : e.file = FileOf[m[1]] /\ e.kind \in {"TooManyMatches", "OutOfMemory"}
DisplayInv ==
    /\ \A m \in displayed : m[1] \in targets /\ (InSlot(m) \/ InHand(m))
    /\ phase \in {"post", "done"} => \A m \in displayed : Accounted(m)

\* A slot that a step has changed has been written.
LEMMA WrittenIsResult ==
    ASSUME TypeOK, NEW d \in Domains, NEW result, Store(d, result), res' # res,
           job[d] \in Targets, res[job[d]] = NoResult
    PROVE  result # NoResult
<1>1. res = [t \in Targets |-> res[t]] /\ res' = [res EXCEPT ![job[d]] = result]
  BY DEF TypeOK, Store
<1>2. ASSUME result = NoResult
      PROVE  res' = res
  BY <1>1, <1>2
<1>3. QED
  BY <1>2

\* When a domain writes its slot, what it had in hand is there, or the error.
LEMMA DisplayStored ==
    ASSUME IInv, DisplayInv, NEW d \in Domains, DomainStep(d), res' # res,
           NEW m \in displayed
    PROVE  InSlot(m)' \/ InHand(m)'
<1>1. TypeOK /\ WorkInv
  BY DEF IInv
<1>2. m[1] \in targets /\ m[1] \in Targets /\ (InSlot(m) \/ InHand(m))
  BY <1>1 DEF DisplayInv, TypeOK
<1>3. job[d] \in Targets /\ job[d] # NoTarget /\ res[job[d]] = NoResult
  BY SlotWritten
<1>4. ASSUME NEW result, Store(d, result), m[1] # job[d]
      PROVE  InSlot(m)' \/ InHand(m)'
  <2>1. CASE InSlot(m)
    BY <1>2, <1>3, <1>4, <2>1, OtherSlots DEF InSlot
  <2>2. CASE InHand(m)
    <3>1. PICK c \in Domains : job[c] = m[1] /\ pc[c] = "return"
                               /\ m[2] \in ran[c] \cap Producing(m[1])
      BY <2>2 DEF InHand
    <3>2. c # d
      BY <1>4, <3>1
    <3>3. job'[c] = job[c] /\ pc'[c] = pc[c] /\ ran'[c] = ran[c]
      BY <1>1, <1>4, <3>2 DEF Store, TypeOK
    <3>4. QED
      BY <3>1, <3>3 DEF InHand, Producing
  <2>3. QED
    BY <1>2, <2>1, <2>2
<1>5. ASSUME m[1] = job[d]
      PROVE  pc[d] = "return" /\ m[2] \in ran[d] \cap Producing(job[d])
  <2>1. InHand(m)
    BY <1>2, <1>3, <1>5 DEF InSlot
  <2>2. PICK c \in Domains : job[c] = m[1] /\ pc[c] = "return"
                             /\ m[2] \in ran[c] \cap Producing(m[1])
    BY <2>1 DEF InHand
  <2>3. c = d
    BY <1>1, <1>3, <1>5, <2>2 DEF WorkInv
  <2>4. QED
    BY <1>5, <2>2, <2>3
<1>6. CASE EndTarget(d)
  <2> DEFINE result == [matches |-> ran[d] \cap Producing(job[d]),
                        errors |-> TimeoutErrors(timedOut[d]),
                        scanned |-> RulesForTarget(job[d]) # {}]
  <2>1. Store(d, result)
    BY <1>6 DEF EndTarget
  <2>2. CASE m[1] = job[d]
    <3>1. res'[m[1]] = result
      BY <1>3, <2>1, <2>2, OtherSlots
    <3>2. result # NoResult
      BY <1>1, <1>3, <2>1, WrittenIsResult
    <3>3. QED
      BY <1>5, <2>2, <3>1, <3>2 DEF InSlot
  <2>3. QED
    BY <1>4, <2>1, <2>2
<1>7. ASSUME ExceedMemory(d), StoreErrors(d, {Blamed("OutOfMemory", lastRule[d])})
      PROVE  InSlot(m)' \/ InHand(m)'
  <2> DEFINE e == Blamed("OutOfMemory", lastRule[d])
             result == [matches |-> {}, errors |-> {e}, scanned |-> TRUE]
  <2>1. Store(d, result)
    BY <1>7 DEF StoreErrors
  <2>2. CASE m[1] = job[d]
    <3>1. res'[m[1]] = result
      BY <1>3, <2>1, <2>2, OtherSlots
    <3>2. result # NoResult
      BY <1>1, <1>3, <2>1, WrittenIsResult
    <3>3. e \in result.errors /\ e.kind = "OutOfMemory"
      BY DEF Blamed
    <3>4. QED
      BY <3>1, <3>2, <3>3 DEF InSlot
  <2>3. QED
    BY <1>4, <2>1, <2>2
<1>8. ASSUME NEW E, StoreErrors(d, E), pc[d] \in {"prepare", "rules"}
      PROVE  InSlot(m)' \/ InHand(m)'
  BY <1>4, <1>5, <1>8 DEF StoreErrors
<1>9. QED
  BY <1>6, <1>7, <1>8, SlotWritten

\* The other steps of a domain show at most what they have in hand.
LEMMA DisplayKept ==
    ASSUME IInv, DisplayInv, NEW d \in Domains, DomainStep(d), res' = res,
           NEW m \in displayed'
    PROVE  m[1] \in targets /\ (InSlot(m)' \/ InHand(m)')
<1>1. TypeOK /\ WorkInv
  BY DEF IInv
<1>2. ASSUME m \in displayed, InSlot(m)
      PROVE  m[1] \in targets /\ (InSlot(m)' \/ InHand(m)')
  BY <1>2 DEF InSlot, DisplayInv
<1>3. ASSUME m \in displayed, NEW c \in Domains, job[c] = m[1], pc[c] = "return",
             m[2] \in ran[c] \cap Producing(m[1]), c # d
      PROVE  m[1] \in targets /\ (InSlot(m)' \/ InHand(m)')
  <2>1. job'[c] = job[c] /\ pc'[c] = pc[c] /\ ran'[c] = ran[c]
    BY <1>1, <1>3
       DEF DomainStep, StartTarget, Prepare, MatchHook, EndTarget, ExceedMemory, PrepareRaises,
           RuleReturns, RuleTimesOut, RuleRaises, StoreErrors, Store, TypeOK
  <2>2. QED
    BY <1>3, <2>1 DEF InHand, Producing, DisplayInv
<1>4. CASE MatchHook(d)
  <2>1. pc[d] = "rules" /\ job[d] \in targets
    BY <1>1, <1>4 DEF MatchHook, WorkInv
  <2>2. job'[d] = job[d] /\ pc'[d] = "return" /\ ran'[d] = ran[d]
    BY <1>1, <1>4 DEF MatchHook, TypeOK
  <2>3. CASE m \in displayed
    BY <1>2, <1>3, <2>1, <2>3 DEF DisplayInv, InHand
  <2>4. CASE m \notin displayed
    <3>1. m[1] = job[d] /\ m[2] \in ran[d] \cap Producing(job[d])
      BY <1>4, <2>4 DEF MatchHook
    <3>2. QED
      BY <2>1, <2>2, <3>1 DEF InHand, Producing
  <2>5. QED
    BY <2>3, <2>4
<1>5. CASE ~MatchHook(d)
  <2>1. m \in displayed
    BY <1>5 DEF DomainStep, StartTarget, Prepare, EndTarget, ExceedMemory, PrepareRaises,
                RuleReturns, RuleTimesOut, RuleRaises
  <2>2. CASE pc[d] # "return"
    BY <1>2, <1>3, <2>1, <2>2 DEF DisplayInv, InHand
  <2>3. CASE pc[d] = "return"
    <3>1. EndTarget(d) \/ ExceedMemory(d)
      BY <1>1, <1>5, <2>3
         DEF DomainStep, StartTarget, Prepare, PrepareRaises, RuleReturns, RuleTimesOut,
             RuleRaises, EnterRule, WorkInv
    <3>2. job[d] \in Targets
      BY <1>1, <2>3, CoreScanAssumption DEF WorkInv, TypeOK
    <3>3. PICK result \in Results : Store(d, result)
      <4>1. ran[d] \cap Producing(job[d]) \in SUBSET Rules /\ timedOut[d] \in SUBSET Rules
        BY <1>1 DEF TypeOK
      <4>2. TimeoutErrors(timedOut[d]) \in SUBSET Errors
        BY <4>1, TimeoutsType
      <4>3. Blamed("OutOfMemory", lastRule[d]) \in Errors
        BY <1>1, BlamedType DEF TypeOK, ErrorKinds
      <4>4. QED
        BY <3>1, <4>1, <4>2, <4>3, ResultType DEF EndTarget, ExceedMemory, StoreErrors
    <3>4. res'[job[d]] = result /\ res[job[d]] = NoResult
      BY <1>1, <2>3, <3>2, <3>3, OtherSlots DEF WorkInv
    <3>5. QED
      BY <1>5, <3>3, <3>4, CoreScanAssumption DEF CoreScanAssumption
  <2>4. QED
    BY <2>2, <2>3
<1>6. QED
  BY <1>4, <1>5

LEMMA DisplayDomain ==
    ASSUME IInv, DisplayInv, NEW d \in Domains, DomainStep(d)
    PROVE  DisplayInv'
<1>1. UNCHANGED <<mainVars, finalVars>>
  BY DomainFrame
<1>2. phase' = phase /\ targets' = targets /\ matches' = matches /\ errors' = errors
  BY <1>1 DEF mainVars, finalVars
<1>3. ASSUME NEW m \in displayed'
      PROVE  m[1] \in targets' /\ (InSlot(m)' \/ InHand(m)')
  <2>1. CASE res' = res
    BY <1>2, <2>1, DisplayKept
  <2>2. CASE res' # res
    <3>1. displayed' = displayed
      BY <2>2 DEF DomainStep, StartTarget, Prepare, MatchHook, EndTarget, ExceedMemory,
                  PrepareRaises, RuleReturns, RuleTimesOut, RuleRaises
    <3>2. QED
      BY <1>2, <2>2, <3>1, DisplayStored DEF DisplayInv
  <2>3. QED
    BY <2>1, <2>2
<1>4. phase' \notin {"post", "done"} \/ displayed' = {}
  <2>1. job[d] # NoTarget \/ \E t \in Targets : StartTarget(d, t)
    BY DEF DomainStep, Prepare, MatchHook, EndTarget, ExceedMemory, PrepareRaises, RuleReturns,
           RuleTimesOut, RuleRaises, EnterRule, IInv, WorkInv, Busy
  <2>2. phase = "pool"
    BY <2>1 DEF StartTarget, IInv, WorkInv
  <2>3. QED
    BY <1>2, <2>2
<1>5. QED
  BY <1>3, <1>4 DEF DisplayInv

\* The collation keeps what the slots hold, or leaves the error that says why.
LEMMA DisplayCollated ==
    ASSUME IInv, DisplayInv, Collate, NEW m \in displayed
    PROVE  Accounted(m)'
<1> DEFINE found == UNION {{<<t, r>> : r \in res[t].matches} : t \in targets}
           offending == {f \in Files : Count(FileMatches(found, f)) > MaxMatchPerFile}
<1>1. TypeOK /\ WorkInv
  BY DEF IInv
<1>2. m[1] \in targets /\ m[1] \in Targets /\ m[2] \in Rules /\ m = <<m[1], m[2]>>
  BY <1>1 DEF DisplayInv, TypeOK
<1>3. FileOf[m[1]] \in Files
  BY <1>2, CoreScanAssumption DEF CoreScanAssumption
<1>4. InSlot(m)
  <2>1. res[m[1]] # NoResult
    BY <1>2 DEF Collate
  <2>2. ~InHand(m)
    BY <1>1, <1>2, <2>1, CoreScanAssumption DEF CoreScanAssumption, InHand, WorkInv
  <2>3. QED
    BY <2>2 DEF DisplayInv
<1>5. matches' = {x \in found : FileOf[x[1]] \notin offending}
  BY DEF Collate
<1>6. \E blame \in [offending -> Rules] :
          errors' = {[file |-> f, kind |-> "TooManyMatches", rule |-> blame[f]] :
                        f \in offending}
                    \cup UNION {{[file |-> FileOf[t], kind |-> e.kind, rule |-> e.rule] :
                                    e \in res[t].errors} : t \in targets}
  BY DEF Collate
<1> HIDE DEF offending
<1>7. CASE m[2] \in res[m[1]].matches
  <2>1. m \in found
    BY <1>2, <1>7
  <2> HIDE DEF found
  <2>2. CASE FileOf[m[1]] \notin offending
    BY <1>5, <2>1, <2>2 DEF Accounted
  <2>3. CASE FileOf[m[1]] \in offending
    <3>1. PICK blame \in [offending -> Rules] :
              [file |-> FileOf[m[1]], kind |-> "TooManyMatches", rule |-> blame[FileOf[m[1]]]]
                  \in errors'
      BY <1>6, <2>3
    <3>2. QED
      BY <3>1 DEF Accounted
  <2>4. QED
    BY <2>2, <2>3
<1>8. CASE \E e \in res[m[1]].errors : e.kind = "OutOfMemory"
  <2>1. PICK e \in res[m[1]].errors : e.kind = "OutOfMemory"
    BY <1>8
  <2>2. [file |-> FileOf[m[1]], kind |-> e.kind, rule |-> e.rule] \in errors'
    BY <1>2, <1>6, <2>1
  <2>3. QED
    BY <2>1, <2>2 DEF Accounted
<1>9. QED
  BY <1>4, <1>7, <1>8 DEF InSlot

LEMMA DisplayMain ==
    ASSUME IInv, DisplayInv, MainStep
    PROVE  DisplayInv'
<1>1. UNCHANGED <<job, workVars, res, displayed>>
  BY DEF MainStep, RulesOfConfig, TargetsOfConfig, SortTargets, Collate, PostProcess
<1>2. \A m : InSlot(m)' = InSlot(m) /\ InHand(m)' = InHand(m)
  BY <1>1 DEF InSlot, InHand, Producing, workVars
<1>3. CASE TargetsOfConfig
  <2>1. phase = "targets" /\ phase' = "sort"
    BY <1>3 DEF TargetsOfConfig
  <2>2. displayed = {}
    <3>1. ASSUME NEW m \in displayed
          PROVE  FALSE
      <4>1. m[1] \in Targets
        BY DEF IInv, TypeOK
      <4>2. CASE InSlot(m)
        BY <2>1, <4>1, <4>2 DEF InSlot, IInv, SlotInv
      <4>3. CASE InHand(m)
        BY <2>1, <4>1, <4>3, CoreScanAssumption
           DEF CoreScanAssumption, InHand, IInv, WorkInv
      <4>4. QED
        BY <4>2, <4>3 DEF DisplayInv
    <3>2. QED
      BY <3>1
  <2>3. QED
    BY <1>1, <2>1, <2>2 DEF DisplayInv
<1>4. CASE Collate
  <2>1. targets' = targets
    BY <1>4 DEF Collate
  <2>2. \A m \in displayed' : Accounted(m)'
    BY <1>1, <1>4, DisplayCollated
  <2>3. QED
    BY <1>1, <1>2, <2>1, <2>2 DEF DisplayInv
<1>5. CASE PostProcess
  BY <1>1, <1>2, <1>5 DEF PostProcess, DisplayInv, Accounted, finalVars
<1>6. CASE RulesOfConfig \/ SortTargets
  BY <1>1, <1>2, <1>6 DEF RulesOfConfig, SortTargets, DisplayInv
<1>7. QED
  BY <1>3, <1>4, <1>5, <1>6 DEF MainStep

LEMMA DisplayStep == IInv /\ DisplayInv /\ [Next]_vars => DisplayInv'
<1> SUFFICES ASSUME IInv, DisplayInv, [Next]_vars
             PROVE  DisplayInv'
  OBVIOUS
<1>1. ASSUME UNCHANGED <<mainVars, job, workVars, res, displayed, finalVars>>
      PROVE  DisplayInv'
  BY <1>1 DEF mainVars, workVars, finalVars, DisplayInv, InSlot, InHand, Accounted, Producing
<1>2. ASSUME NEW f \in Unstable, Outside(f)
      PROVE  DisplayInv'
  BY <1>1, <1>2 DEF Outside
<1>3. CASE UNCHANGED vars
  BY <1>1, <1>3 DEF vars
<1>4. QED
  BY <1>2, <1>3, DisplayMain, DisplayDomain DEF Next

\* Whatever the hook of a domain has shown is in the result of the scan, or
\* an error on its file says that it was dropped, and why.
THEOREM WhatWasShownIsAccountedFor == Spec => []DisplayedIsAccountedFor
<1>1. Init => DisplayInv
  BY DEF Init, DisplayInv
<1>2. DisplayInv => DisplayedIsAccountedFor
  BY DEF DisplayInv, DisplayedIsAccountedFor, Accounted
<1>3. QED
  BY <1>1, <1>2, DisplayStep, Invariance, PTL DEF Spec

-----------------------------------------------------------------------------
(* Timeouts *)

Modes == {TaintRules, Rules \ TaintRules}
TimeoutsOf(E, mode) == {e \in E : e.kind = "Timeout" /\ e.rule \in mode}

\* What TimeoutsPerModeBounded says of one slot.
Bounded(result) ==
    \A mode \in Modes :
        LET n == Cardinality(TimeoutsOf(result.errors, mode))
        IN /\ n <= TimeoutThreshold
           /\ n = TimeoutThreshold => result.matches = {}
SlotsBounded == \A t \in Targets : res[t] # NoResult => Bounded(res[t])

\* On the target at hand, fewer rules of a mode than the threshold have timed
\* out: the one that reaches it ends the target.
Few(S) == IsFiniteSet(S) /\ Cardinality(S) < TimeoutThreshold
CountersInv == \A d \in Domains : \A mode \in Modes : Few(timedOut[d] \cap mode)

LEMMA ThresholdType == TimeoutThreshold \in Nat
BY CoreScanAssumption DEF CoreScanAssumption

\* One error per rule that timed out.
LEMMA OneErrorPerRule ==
    ASSUME NEW S, NEW mode, IsFiniteSet(S \cap mode)
    PROVE  Cardinality(TimeoutsOf(TimeoutErrors(S), mode)) = Cardinality(S \cap mode)
<1> DEFINE T == TimeoutsOf(TimeoutErrors(S), mode)
           R == S \cap mode
           error == [r \in R |-> [kind |-> "Timeout", rule |-> r]]
<1>1. error \in [R -> T]
  BY DEF TimeoutsOf, TimeoutErrors
<1>2. \A r \in R, q \in R : error[r] = error[q] => r = q
  <2>1. ASSUME NEW r \in R, NEW q \in R, error[r] = error[q]
        PROVE  r = q
    <3>1. error[r].rule = r /\ error[q].rule = q
      OBVIOUS
    <3>2. QED
      BY <2>1, <3>1
  <2>2. QED
    BY <2>1
<1>3. \A e \in T : \E r \in R : error[r] = e
  BY DEF TimeoutsOf, TimeoutErrors
<1> HIDE DEF error, T, R
<1>4. error \in Injection(R, T)
  BY <1>1, <1>2 DEF Injection, IsInjective
<1>5. error \in Surjection(R, T)
  BY <1>1, <1>3 DEF Surjection
<1>6. ExistsBijection(R, T)
  BY <1>4, <1>5 DEF ExistsBijection, Bijection
<1>7. IsFiniteSet(R)
  BY DEF R
<1>8. Cardinality(T) = Cardinality(R)
  BY <1>6, <1>7, FS_Bijection
<1>9. QED
  BY <1>8 DEF T, R

\* An error of another kind is no timeout.
LEMMA OtherErrorsBounded ==
    ASSUME NEW kind \in ErrorKinds \ {"Timeout"}, NEW r,
           TimeoutThreshold > 0
    PROVE  Bounded([matches |-> {}, errors |-> {Blamed(kind, r)}, scanned |-> TRUE])
<1>1. \A mode : TimeoutsOf({Blamed(kind, r)}, mode) = {}
  BY DEF TimeoutsOf, Blamed
<1>2. \A mode : Cardinality(TimeoutsOf({Blamed(kind, r)}, mode)) = 0
  BY <1>1, FS_EmptySet
<1>3. 0 <= TimeoutThreshold
  BY ThresholdType
<1>4. QED
  BY <1>2, <1>3 DEF Bounded

\* The rules of one mode that have timed out, when one more does.
LEMMA OneMore ==
    ASSUME NEW S, NEW r \in Rules, TimeoutThreshold > 0,
           \A mode \in Modes : Few(S \cap mode)
    PROVE  /\ SameMode(r) \in Modes /\ r \in SameMode(r)
           /\ IsFiniteSet((S \cup {r}) \cap SameMode(r))
           /\ Cardinality((S \cup {r}) \cap SameMode(r)) <= TimeoutThreshold
           /\ Cardinality((S \cup {r}) \cap SameMode(r)) \in Nat
           /\ \A mode \in Modes \ {SameMode(r)} :
                  /\ (S \cup {r}) \cap mode = S \cap mode
                  /\ SameMode(r) \cap mode = {}
<1> DEFINE R == S \cap SameMode(r)
<1>1. SameMode(r) \in Modes /\ r \in SameMode(r)
  BY DEF SameMode, Modes
<1>2. (S \cup {r}) \cap SameMode(r) = R \cup {r}
  BY <1>1
<1>3. IsFiniteSet(R) /\ Cardinality(R) \in Nat /\ Cardinality(R) < TimeoutThreshold
  BY <1>1, FS_CardinalityType DEF Few
<1> HIDE DEF R
<1>4. IsFiniteSet(R \cup {r}) /\ Cardinality(R \cup {r}) \in Nat
      /\ Cardinality(R \cup {r}) <= TimeoutThreshold
  <2>1. IsFiniteSet(R \cup {r})
    BY <1>3, FS_AddElement
  <2>2. Cardinality(R \cup {r}) \in {Cardinality(R), Cardinality(R) + 1}
    BY <1>3, FS_AddElement
  <2>3. QED
    BY <1>3, <2>1, <2>2, ThresholdType
<1>5. \A mode \in Modes \ {SameMode(r)} :
          /\ (S \cup {r}) \cap mode = S \cap mode
          /\ SameMode(r) \cap mode = {}
  BY <1>1 DEF Modes, SameMode
<1>6. QED
  BY <1>1, <1>2, <1>4, <1>5

\* The rule that reaches the threshold leaves that many errors and no match.
LEMMA ThresholdReached ==
    ASSUME NEW S, NEW r \in Rules, TimeoutThreshold > 0,
           \A mode \in Modes : Few(S \cap mode)
    PROVE  Bounded([matches |-> {},
                    errors |-> TimeoutErrors((S \cup {r}) \cap SameMode(r)),
                    scanned |-> TRUE])
<1> DEFINE R == (S \cup {r}) \cap SameMode(r)
<1>1. ASSUME NEW mode \in Modes
      PROVE  Cardinality(TimeoutsOf(TimeoutErrors(R), mode)) <= TimeoutThreshold
  <2>1. CASE mode = SameMode(r)
    <3>1. R \cap mode = R
      BY <2>1
    <3>2. IsFiniteSet(R) /\ Cardinality(R) <= TimeoutThreshold
      BY OneMore
    <3> HIDE DEF R
    <3>3. QED
      BY <3>1, <3>2, OneErrorPerRule
  <2>2. CASE mode # SameMode(r)
    <3>1. R \cap mode = {}
      <4>1. SameMode(r) \cap mode = {}
        BY <2>2 DEF Modes, SameMode
      <4>2. QED
        BY <4>1
    <3>2. Cardinality(R \cap mode) = 0 /\ IsFiniteSet(R \cap mode)
      BY <3>1, FS_EmptySet
    <3> HIDE DEF R
    <3>3. Cardinality(TimeoutsOf(TimeoutErrors(R), mode)) = 0
      BY <3>2, OneErrorPerRule
    <3>4. QED
      BY <3>3, ThresholdType
  <2>3. QED
    BY <2>1, <2>2
<1>2. QED
  BY <1>1 DEF Bounded

\* The slot that a domain writes is bounded.
LEMMA WrittenBounded ==
    ASSUME IInv, TimeoutThreshold > 0, CountersInv, NEW d \in Domains, DomainStep(d),
           res' # res
    PROVE  \E result : Store(d, result) /\ Bounded(result)
<1>1. \A mode \in Modes : Few(timedOut[d] \cap mode)
  BY DEF CountersInv
<1>2. ASSUME Store(d, [matches |-> ran[d] \cap Producing(job[d]),
                       errors |-> TimeoutErrors(timedOut[d]),
                       scanned |-> RulesForTarget(job[d]) # {}])
      PROVE  \E result : Store(d, result) /\ Bounded(result)
  <2> DEFINE result == [matches |-> ran[d] \cap Producing(job[d]),
                        errors |-> TimeoutErrors(timedOut[d]),
                        scanned |-> RulesForTarget(job[d]) # {}]
  <2>1. ASSUME NEW mode \in Modes
        PROVE  LET n == Cardinality(TimeoutsOf(result.errors, mode))
               IN n <= TimeoutThreshold /\ n # TimeoutThreshold
    <3>1. IsFiniteSet(timedOut[d] \cap mode)
          /\ Cardinality(timedOut[d] \cap mode) < TimeoutThreshold
      BY <1>1 DEF Few
    <3>2. Cardinality(timedOut[d] \cap mode) \in Nat
      BY <3>1, FS_CardinalityType
    <3>3. Cardinality(TimeoutsOf(TimeoutErrors(timedOut[d]), mode))
              = Cardinality(timedOut[d] \cap mode)
      BY <3>1, OneErrorPerRule
    <3>4. QED
      BY <3>1, <3>2, <3>3, ThresholdType
  <2>2. Bounded(result)
    BY <2>1 DEF Bounded
  <2>3. QED
    BY <1>2, <2>2
<1>3. ASSUME NEW kind \in ErrorKinds \ {"Timeout"}, NEW r, StoreErrors(d, {Blamed(kind, r)})
      PROVE  \E result : Store(d, result) /\ Bounded(result)
  BY <1>3, OtherErrorsBounded DEF StoreErrors
<1>4. ASSUME NEW r \in Rules,
             StoreErrors(d, TimeoutErrors((timedOut[d] \cup {r}) \cap SameMode(r)))
      PROVE  \E result : Store(d, result) /\ Bounded(result)
  BY <1>1, <1>4, ThresholdReached DEF StoreErrors
<1>5. "OutOfMemory" \in ErrorKinds \ {"Timeout"}
      /\ RaisedKinds \subseteq ErrorKinds \ {"Timeout"}
  BY DEF ErrorKinds, RaisedKinds
<1>6. QED
  BY <1>2, <1>3, <1>4, <1>5, SlotWritten

\* A rule that times out is counted with the others of its mode.
LEMMA CountersKept ==
    ASSUME IInv, TimeoutThreshold > 0, CountersInv, NEW d \in Domains, DomainStep(d)
    PROVE  CountersInv'
<1>1. TypeOK
  BY DEF IInv
<1>2. \A mode \in Modes : Few(timedOut[d] \cap mode)
  BY DEF CountersInv
<1>3. ASSUME \A c \in Domains : timedOut'[c] = timedOut[c]
      PROVE  CountersInv'
  BY <1>3 DEF CountersInv, Few
<1>4. ASSUME NEW S, timedOut' = [timedOut EXCEPT ![d] = S],
             \A mode \in Modes : Few(S \cap mode)
      PROVE  CountersInv'
  BY <1>1, <1>4 DEF CountersInv, TypeOK, Few
<1>5. ASSUME NEW result, Store(d, result)
      PROVE  CountersInv'
  <2>1. timedOut' = [timedOut EXCEPT ![d] = {}]
    BY <1>5 DEF Store
  <2>2. \A mode \in Modes : Few({} \cap mode)
    <3>1. \A mode : {} \cap mode = {}
      OBVIOUS
    <3>2. Few({})
      BY FS_EmptySet DEF Few
    <3>3. QED
      BY <3>1, <3>2
  <2>3. QED
    BY <1>4, <2>1, <2>2
<1>6. ASSUME NEW E, StoreErrors(d, E)
      PROVE  CountersInv'
  BY <1>5, <1>6 DEF StoreErrors
<1>7. ASSUME NEW r \in Rules, RuleTimesOut(d, r)
      PROVE  CountersInv'
  <2> DEFINE R == (timedOut[d] \cup {r}) \cap SameMode(r)
  <2>1. CASE Cardinality(R) >= TimeoutThreshold
    BY <1>6, <1>7, <2>1 DEF RuleTimesOut
  <2>2. CASE ~(Cardinality(R) >= TimeoutThreshold)
    <3>1. timedOut' = [timedOut EXCEPT ![d] = timedOut[d] \cup {r}]
      BY <1>1, <1>7, <2>2 DEF RuleTimesOut, TypeOK
    <3>2. Few(R)
      <4>1. IsFiniteSet(R) /\ Cardinality(R) \in Nat
        BY <1>2, OneMore
      <4>2. Cardinality(R) < TimeoutThreshold
        BY <2>2, <4>1, ThresholdType
      <4>3. QED
        BY <4>1, <4>2 DEF Few
    <3>3. \A mode \in Modes \ {SameMode(r)} : (timedOut[d] \cup {r}) \cap mode = timedOut[d] \cap mode
      BY <1>2, OneMore
    <3>4. \A mode \in Modes : Few((timedOut[d] \cup {r}) \cap mode)
      BY <1>2, <3>2, <3>3
    <3>5. QED
      BY <1>4, <3>1, <3>4
  <2>3. QED
    BY <2>1, <2>2
<1>8. QED
  BY <1>3, <1>5, <1>6, <1>7
     DEF DomainStep, StartTarget, Prepare, MatchHook, EndTarget, ExceedMemory, PrepareRaises,
         RuleReturns, RuleRaises

LEMMA TimeoutsStep ==
    IInv /\ TimeoutThreshold > 0 /\ CountersInv /\ SlotsBounded /\ [Next]_vars
        => CountersInv' /\ SlotsBounded'
<1> SUFFICES ASSUME IInv, TimeoutThreshold > 0, CountersInv, SlotsBounded, [Next]_vars
             PROVE  CountersInv' /\ SlotsBounded'
  OBVIOUS
<1>1. ASSUME UNCHANGED <<timedOut, res>>
      PROVE  CountersInv' /\ SlotsBounded'
  BY <1>1 DEF CountersInv, SlotsBounded
<1>2. ASSUME NEW d \in Domains, DomainStep(d)
      PROVE  CountersInv' /\ SlotsBounded'
  <2>1. CountersInv'
    BY <1>2, CountersKept
  <2>2. CASE res' = res
    BY <2>1, <2>2 DEF SlotsBounded
  <2>3. CASE res' # res
    <3>1. PICK result : Store(d, result) /\ Bounded(result)
      BY <1>2, <2>3, WrittenBounded
    <3>2. job[d] \in Targets
      BY <1>2, <2>3, SlotWritten
    <3>3. res'[job[d]] = result /\ \A t \in Targets : t # job[d] => res'[t] = res[t]
      BY <3>1, <3>2, OtherSlots
    <3>4. QED
      BY <2>1, <3>1, <3>3 DEF SlotsBounded
  <2>4. QED
    BY <2>2, <2>3
<1>3. ASSUME NEW f \in Unstable, Outside(f)
      PROVE  UNCHANGED <<timedOut, res>>
  BY <1>3 DEF Outside, workVars
<1>4. CASE UNCHANGED vars
  BY <1>1, <1>4 DEF vars, workVars
<1>5. MainStep => UNCHANGED <<timedOut, res>>
  BY DEF MainStep, RulesOfConfig, TargetsOfConfig, SortTargets, Collate, PostProcess, workVars
<1>6. QED
  BY <1>1, <1>2, <1>3, <1>4, <1>5 DEF Next

\* However many rules a target has, the timeouts that one mode leaves in its
\* slot never exceed the threshold, and a slot where they reach it holds no
\* match.
THEOREM TimeoutsAreBounded == Spec => []TimeoutsPerModeBounded
<1>1. CASE TimeoutThreshold > 0
  <2>1. Init => CountersInv /\ SlotsBounded
    <3>1. Few({})
      BY <1>1, FS_EmptySet DEF Few
    <3>2. \A mode : {} \cap mode = {}
      OBVIOUS
    <3>3. QED
      BY <3>1, <3>2 DEF Init, CountersInv, SlotsBounded
  <2>2. SlotsBounded => TimeoutsPerModeBounded
    BY DEF SlotsBounded, Bounded, TimeoutsOf, Modes, TimeoutsPerModeBounded
  <2>3. QED
    BY <1>1, <2>1, <2>2, TimeoutsStep, Invariance, PTL DEF Spec
<1>2. CASE ~(TimeoutThreshold > 0)
  <2>1. TimeoutsPerModeBounded
    BY <1>2 DEF TimeoutsPerModeBounded
  <2>2. QED
    BY <2>1, PTL
<1>3. QED
  BY <1>1, <1>2
=============================================================================
