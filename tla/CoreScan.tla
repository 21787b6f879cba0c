------------------------------ MODULE CoreScan ------------------------------
(***************************************************************************)
(* A core scan: Core_scan.scan and what it calls (Core_scan.ml,            *)
(* Parallel_targets.ml, Domainslib_.ml, Match_rules.ml, Memory_limit.ml,   *)
(* Pre_post_core_scan.ml).  The main domain chooses rules and targets,     *)
(* sorts the targets, and runs a pool of domains over the array of         *)
(* targets; every domain runs all the rules of one target at a time and    *)
(* writes one slot of the result array; the main domain then collates the  *)
(* slots, drops the files with too many matches and post-processes what is *)
(* left.  Files may disappear from the disk, come (back) to it or be       *)
(* edited at any moment.                                                   *)
(*                                                                         *)
(* A match is the pair <<target, rule>>: the NMatches[t][r] matches of one *)
(* rule on one target are produced, kept and dropped together.  One file   *)
(* may be several targets, one per language that analyzes it.              *)
(***************************************************************************)
EXTENDS Naturals, FiniteSets, Functions

CONSTANTS
    Targets, Files, Rules, Domains,
    Unstable,           \* the files that others write during the scan
    FileOf,             \* FileOf[t]: the file on disk of target t
    TaintRules,         \* the rules of taint mode; the others are search rules
    Compatible,         \* Compatible[t]: rules for a language of t
    Applies,            \* Applies[t]: those that products and paths: leave
    Relevant,           \* Relevant[t]: rules the prefilter keeps on t
    NMatches,           \* NMatches[t][r]: matches of r on t when r ends
    Footprint,          \* Footprint[t]: heap needed while t is processed
    TimeoutThreshold,   \* config.timeout_threshold, 0 is no threshold
    MaxMemory,          \* config.max_memory_mb, 0 is no limit
    MaxMatchPerFile,    \* config.max_match_per_file
    NoTarget, NoRule, NoResult

ErrorKinds == {"Timeout", "OutOfMemory", "StackOverflow", "Exception"}
RaisedKinds == {"StackOverflow", "Exception"}

\* An error of a target: its kind and the rule it blames, if any.
Errors == [kind : ErrorKinds, rule : Rules \cup {NoRule}]
Results == [matches : SUBSET Rules, errors : SUBSET Errors, scanned : BOOLEAN]

ASSUME CoreScanAssumption ==
    /\ Unstable \subseteq Files
    /\ FileOf \in [Targets -> Files]
    /\ TaintRules \subseteq Rules
    /\ Compatible \in [Targets -> SUBSET Rules]
    /\ Applies \in [Targets -> SUBSET Rules]
    /\ \A t \in Targets : Applies[t] \subseteq Compatible[t]
    /\ Relevant \in [Targets -> SUBSET Rules]
    /\ NMatches \in [Targets -> [Rules -> Nat]]
    /\ Footprint \in [Targets -> Nat]
    /\ {TimeoutThreshold, MaxMemory, MaxMatchPerFile} \subseteq Nat
    /\ NoTarget \notin Targets
    /\ NoRule \notin Rules
    /\ NoResult \notin Results

VARIABLES
    phase,          \* where the main domain is
    disk,           \* disk[f]: file f is absent, the same as when it was
                    \* read (or not read yet), or changed since then
    seen,           \* the targets that rules_of_config finds on disk
    validRules,     \* the rules that rules_of_config keeps
    targets,        \* the targets that filter_existing_targets keeps
    \* the domains
    job,            \* the target a domain works on, or NoTarget
    pc,             \* where the domain is in the target's handler
    todo,           \* rules still to run on it
    ran,            \* rules that have ended on it
    timedOut,       \* rules that have timed out on it
    lastRule,       \* Rule.last_matched_rule, a thread-local of the domain
    \* what the domains write
    res,            \* res[t]: the slot of t in the result array
    displayed,      \* matches that file_match_hook has shown
    \* the final Core_result.t
    matches, errors, skipped, scanned

mainVars == <<phase, seen, validRules, targets>>
workVars == <<pc, todo, ran, timedOut, lastRule>>
finalVars == <<matches, errors, skipped, scanned>>
vars == <<mainVars, disk, job, workVars, res, displayed, finalVars>>

Existing(S) == {t \in S : disk[FileOf[t]] # "absent"}
Producing(t) == {r \in Rules : NMatches[t][r] > 0}

Init ==
    /\ phase = "rules"
    /\ disk \in [Files -> {"absent", "same"}]
    /\ seen = {}
    /\ validRules = Rules
    /\ targets = Targets
    /\ job = [d \in Domains |-> NoTarget]
    /\ pc = [d \in Domains |-> "idle"]
    /\ todo = [d \in Domains |-> {}]
    /\ ran = [d \in Domains |-> {}]
    /\ timedOut = [d \in Domains |-> {}]
    /\ lastRule = [d \in Domains |-> NoRule]
    /\ res = [t \in Targets |-> NoResult]
    /\ displayed = {}
    /\ matches = {} /\ errors = {} /\ skipped = {} /\ scanned = {}

\* A domain has begun to work on the file (or has ended), so that its rules
\* may have matched lines that are not there any more.
Read(f) == \E t \in Targets :
    FileOf[t] = f /\ (res[t] # NoResult \/ \E d \in Domains : job[d] = t)

\* Somebody (an editor, git, a build) removes a file, ...
Vanish(f) ==
    /\ disk[f] # "absent"
    /\ disk' = [disk EXCEPT ![f] = "absent"]

\* ... creates one or puts it back, with any content, ...
Appear(f) ==
    /\ disk[f] = "absent"
    /\ disk' = [disk EXCEPT ![f] = IF Read(f) THEN "changed" ELSE "same"]

\* ... or writes another content into one that was read.
Edit(f) ==
    /\ disk[f] = "same"
    /\ Read(f)
    /\ disk' = [disk EXCEPT ![f] = "changed"]

Outside(f) ==
    /\ phase \notin {"done", "aborted"}
    /\ Vanish(f) \/ Appear(f) \/ Edit(f)
    /\ UNCHANGED <<mainVars, job, workVars, res, displayed, finalVars>>

-----------------------------------------------------------------------------
(* The main domain, before the pool *)

RulesFor(S) == UNION {Compatible[t] : t \in S}

\* rules_of_config ~filter_by_targets:true: a first look at the disk, and
\* only the rules for a language of some existing target are kept.
RulesOfConfig ==
    /\ phase = "rules"
    /\ seen' = Existing(Targets)
    /\ validRules' = RulesFor(seen')
    /\ phase' = "targets"
    /\ UNCHANGED <<targets, disk, job, workVars, res, displayed, finalVars>>

\* targets_of_config in scan_exn: a second look at the disk.
TargetsOfConfig ==
    /\ phase = "targets"
    /\ targets' = Existing(Targets)
    /\ skipped' = {[file |-> FileOf[t], rule |-> NoRule, reason |-> "Nonexistent_file"] :
                      t \in Targets \ Existing(Targets)}
    /\ phase' = "sort"
    /\ UNCHANGED <<seen, validRules, disk, job, workVars, res, displayed,
                   matches, errors, scanned>>

\* Mutant of SortTargets: a file that cannot be measured is dropped.
SortTargetsDropping ==
    /\ phase = "sort"
    /\ phase' = "pool"
    /\ targets' = Existing(targets)
    /\ UNCHANGED <<seen, validRules, disk, job, workVars, res, displayed, finalVars>>

\* sort_targets_by_decreasing_size stats every file; the exception of stat
\* is caught by nobody before Core_scan.scan.
SortTargets ==
    /\ phase = "sort"
    /\ phase' = IF Existing(targets) = targets THEN "pool" ELSE "aborted"
    /\ UNCHANGED <<seen, validRules, targets, disk, job, workVars, res, displayed,
                   finalVars>>

-----------------------------------------------------------------------------
(* The domains: the body of parallel_for *)

Busy == {d \in Domains : job[d] # NoTarget}

\* The contract of Domainslib's parallel_for with a chunk size of 1: a domain
\* that is free takes an index that no domain has had, in no fixed order.
StartTarget(d, t) ==
    /\ phase = "pool"
    /\ job[d] = NoTarget
    /\ t \in targets
    /\ res[t] = NoResult
    /\ \A e \in Domains : job[e] # t
    /\ job' = [job EXCEPT ![d] = t]
    /\ pc' = [pc EXCEPT ![d] = "prepare"]
    /\ UNCHANGED <<mainVars, disk, todo, ran, timedOut, lastRule, res,
                   displayed, finalVars>>

\* Mutant of Store: the domain does not go on to another target.
StoreAndStop(d, result) ==
    /\ res' = [res EXCEPT ![job[d]] = result]
    /\ pc' = [pc EXCEPT ![d] = "idle"]
    /\ todo' = [todo EXCEPT ![d] = {}]
    /\ ran' = [ran EXCEPT ![d] = {}]
    /\ timedOut' = [timedOut EXCEPT ![d] = {}]
    /\ UNCHANGED job

\* The domain writes its slot and takes another target.  lastRule survives.
Store(d, result) ==
    /\ res' = [res EXCEPT ![job[d]] = result]
    /\ job' = [job EXCEPT ![d] = NoTarget]
    /\ pc' = [pc EXCEPT ![d] = "idle"]
    /\ todo' = [todo EXCEPT ![d] = {}]
    /\ ran' = [ran EXCEPT ![d] = {}]
    /\ timedOut' = [timedOut EXCEPT ![d] = {}]

\* Mutants of StoreErrors: without the errors; without the target among the
\* scanned ones.
StoreNoErrors(d, errs) ==
    Store(d, [matches |-> {}, errors |-> {}, scanned |-> TRUE])
StoreUnscanned(d, errs) ==
    Store(d, [matches |-> {}, errors |-> errs, scanned |-> FALSE])

\* The handlers of iter_targets_and_get_matches_and_exn_to_errors: the
\* matches found so far are dropped and the target counts as scanned.
StoreErrors(d, errs) ==
    Store(d, [matches |-> {}, errors |-> errs, scanned |-> TRUE])

RulesForTarget(t) == validRules \cap Applies[t]

\* rules_for_target, then group_rules, whose prefilter reads the file.
Prepare(d) ==
    /\ pc[d] = "prepare"
    /\ LET rules == RulesForTarget(job[d])
       IN /\ rules # {} => disk[FileOf[job[d]]] # "absent"
          /\ todo' = [todo EXCEPT ![d] = rules \cap Relevant[job[d]]]
    /\ pc' = [pc EXCEPT ![d] = "rules"]
    /\ UNCHANGED <<mainVars, disk, job, ran, timedOut, lastRule, res,
                   displayed, finalVars>>

\* The rule blamed for an exception: only memory and stack errors look at
\* Rule.last_matched_rule.
Blamed(kind, rule) == [kind |-> kind,
                       rule |-> IF kind = "Exception" THEN NoRule ELSE rule]

\* The file cannot be read, or preparing it overflows the stack: no rule of
\* this target has been entered yet.
PrepareRaises(d, kind) ==
    /\ pc[d] = "prepare"
    /\ StoreErrors(d, {Blamed(kind, lastRule[d])})
    /\ UNCHANGED <<mainVars, disk, lastRule, displayed, finalVars>>

\* Match_rules.check runs the taint rules before the search rules.
NextRules(d) ==
    IF todo[d] \cap TaintRules # {} THEN todo[d] \cap TaintRules ELSE todo[d]

EnterRule(d, r) ==
    /\ pc[d] = "rules"
    /\ r \in NextRules(d)
    /\ lastRule' = [lastRule EXCEPT ![d] = r]

RuleReturns(d, r) ==
    /\ EnterRule(d, r)
    /\ todo' = [todo EXCEPT ![d] = @ \ {r}]
    /\ ran' = [ran EXCEPT ![d] = @ \cup {r}]
    /\ UNCHANGED <<mainVars, disk, job, pc, timedOut, res, displayed, finalVars>>

\* Mutant of SameMode: every rule has a counter of its own.
SameRule(r) == {r}

\* The rules of one mode share a counter: per_rule_boilerplate_fn_opt counts
\* the taint rules that timed out, per_rule_boilerplate_fn the search rules.
SameMode(r) == IF r \in TaintRules THEN TaintRules ELSE Rules \ TaintRules

\* Mutant of TimeoutErrors: the exception is not turned into an error kind.
FileTimeouts(S) == {[kind |-> "File_timeout", rule |-> r] : r \in S}

TimeoutErrors(S) == {[kind |-> "Timeout", rule |-> r] : r \in S}

\* When the counter reaches the threshold, File_timeout leaves Match_rules.
RuleTimesOut(d, r) ==
    /\ EnterRule(d, r)
    /\ LET ruleTimeouts == (timedOut[d] \cup {r}) \cap SameMode(r)
       IN IF TimeoutThreshold > 0 /\ Cardinality(ruleTimeouts) >= TimeoutThreshold
          THEN StoreErrors(d, TimeoutErrors(ruleTimeouts))
          ELSE /\ todo' = [todo EXCEPT ![d] = @ \ {r}]
               /\ timedOut' = [timedOut EXCEPT ![d] = @ \cup {r}]
               /\ UNCHANGED <<job, pc, ran, res>>
    /\ UNCHANGED <<mainVars, disk, displayed, finalVars>>

RuleRaises(d, r, kind) ==
    /\ EnterRule(d, r)
    /\ StoreErrors(d, {Blamed(kind, r)})
    /\ UNCHANGED <<mainVars, disk, displayed, finalVars>>

\* Mutant of MatchHook: matches of the rules that timed out are shown too.
MatchHookAll(d) ==
    /\ pc[d] = "rules"
    /\ todo[d] = {}
    /\ displayed' = displayed \cup
                        {<<job[d], r>> : r \in (ran[d] \cup timedOut[d]) \cap Producing(job[d])}
    /\ pc' = [pc EXCEPT ![d] = "return"]
    /\ UNCHANGED <<mainVars, disk, job, todo, ran, timedOut, lastRule, res,
                   finalVars>>

\* All the rules have run: collate, and file_match_hook shows the matches.
MatchHook(d) ==
    /\ pc[d] = "rules"
    /\ todo[d] = {}
    /\ displayed' = displayed \cup {<<job[d], r>> : r \in ran[d] \cap Producing(job[d])}
    /\ pc' = [pc EXCEPT ![d] = "return"]
    /\ UNCHANGED <<mainVars, disk, job, todo, ran, timedOut, lastRule, res,
                   finalVars>>

\* The handler returns, and its domain writes the slot.
EndTarget(d) ==
    /\ pc[d] = "return"
    /\ Store(d, [matches |-> ran[d] \cap Producing(job[d]),
                 errors |-> TimeoutErrors(timedOut[d]),
                 scanned |-> RulesForTarget(job[d]) # {}])
    /\ UNCHANGED <<mainVars, disk, lastRule, displayed, finalVars>>

HeapUse == SumFunctionOnSet([d \in Busy |-> Footprint[job[d]]], Busy)

\* memprof-limits watches the heap of the process: above the limit it may
\* raise in any domain, whichever target made the heap grow.
ExceedMemory(d) ==
    /\ d \in Busy
    /\ MaxMemory > 0
    /\ HeapUse > MaxMemory
    /\ StoreErrors(d, {Blamed("OutOfMemory", lastRule[d])})
    /\ UNCHANGED <<mainVars, disk, lastRule, displayed, finalVars>>

DomainStep(d) ==
    \/ \E t \in Targets : StartTarget(d, t)
    \/ Prepare(d) \/ MatchHook(d) \/ EndTarget(d) \/ ExceedMemory(d)
    \/ \E kind \in RaisedKinds : PrepareRaises(d, kind)
    \/ \E r \in Rules :
        \/ RuleReturns(d, r) \/ RuleTimesOut(d, r)
        \/ \E kind \in RaisedKinds : RuleRaises(d, r, kind)

-----------------------------------------------------------------------------
(* The main domain, after the pool *)

FileMatches(S, f) == {m \in S : FileOf[m[1]] = f}
Count(S) == SumFunctionOnSet([m \in S |-> NMatches[m[1]][m[2]]], S)
RuleCount(S, r) == Count({m \in S : m[2] = r})

\* mk_result puts the slots together and
\* filter_files_with_too_many_matches_and_transform_as_timeout takes out, per
\* file, all the matches of a file that has too many; the error blames a
\* rule with the most matches.
Collate ==
    /\ phase = "pool"
    /\ \A t \in targets : res[t] # NoResult
    /\ LET found == UNION {{<<t, r>> : r \in res[t].matches} : t \in targets}
           offending == {f \in Files : Count(FileMatches(found, f)) > MaxMatchPerFile}
           rulesOf(f) == {m[2] : m \in FileMatches(found, f)}
           worst(f) == {r \in rulesOf(f) : \A q \in rulesOf(f) :
                           RuleCount(FileMatches(found, f), r)
                               >= RuleCount(FileMatches(found, f), q)}
       IN /\ matches' = {m \in found : FileOf[m[1]] \notin offending}
          /\ \E blame \in [offending -> Rules] :
                /\ \A f \in offending : blame[f] \in worst(f)
                /\ errors' = {[file |-> f, kind |-> "TooManyMatches", rule |-> blame[f]] :
                                 f \in offending}
                             \cup UNION {{[file |-> FileOf[t], kind |-> e.kind, rule |-> e.rule] :
                                             e \in res[t].errors} : t \in targets}
          /\ skipped' = skipped \cup
                UNION {{[file |-> f, rule |-> r, reason |-> "Too_many_matches"] :
                           r \in rulesOf(f)} : f \in offending}
    /\ scanned' = {t \in targets : res[t].scanned}
    /\ phase' = "post"
    /\ UNCHANGED <<seen, validRules, targets, disk, job, workVars, res, displayed>>

\* The autofix and nosemgrep processors.  Nosemgrep.produce_ignored reads the
\* lines of every match again.  The exception of a file that cannot be read,
\* or in which such a line is not there any more, aborts the scan.
PostProcess ==
    /\ phase = "post"
    /\ \/ /\ \A m \in matches : disk[FileOf[m[1]]] # "absent"
          /\ phase' = "done"
       \/ /\ \E m \in matches : disk[FileOf[m[1]]] # "same"
          /\ phase' = "aborted"
    /\ UNCHANGED <<seen, validRules, targets, disk, job, workVars, res, displayed,
                   finalVars>>

MainStep ==
    RulesOfConfig \/ TargetsOfConfig \/ SortTargets \/ Collate \/ PostProcess

Next ==
    \/ MainStep
    \/ \E d \in Domains : DomainStep(d)
    \/ \E f \in Unstable : Outside(f)

Spec == Init /\ [][Next]_vars

\* Every domain keeps running; a rule ends because set_timeout ends it.
Fairness == WF_vars(MainStep) /\ \A d \in Domains : WF_vars(DomainStep(d))

FairSpec == Spec /\ Fairness

-----------------------------------------------------------------------------
(* Properties *)

TypeOK ==
    /\ phase \in {"rules", "targets", "sort", "pool", "post", "done", "aborted"}
    /\ disk \in [Files -> {"absent", "same", "changed"}]
    /\ seen \subseteq Targets
    /\ validRules \subseteq Rules
    /\ targets \subseteq Targets
    /\ job \in [Domains -> Targets \cup {NoTarget}]
    /\ pc \in [Domains -> {"idle", "prepare", "rules", "return"}]
    /\ todo \in [Domains -> SUBSET Rules]
    /\ ran \in [Domains -> SUBSET Rules]
    /\ timedOut \in [Domains -> SUBSET Rules]
    /\ lastRule \in [Domains -> Rules \cup {NoRule}]
    /\ res \in [Targets -> Results \cup {NoResult}]
    /\ displayed \subseteq Targets \X Rules
    /\ matches \subseteq Targets \X Rules
    /\ errors \subseteq [file : Files, kind : ErrorKinds \cup {"TooManyMatches"},
                         rule : Rules \cup {NoRule}]
    /\ skipped \subseteq [file : Files, rule : Rules \cup {NoRule},
                          reason : {"Nonexistent_file", "Too_many_matches"}]
    /\ scanned \subseteq Targets

\* No finding is lost in silence: when the scan succeeds, a match that some
\* rule has on an existing target is reported, unless an error names the
\* file, whatever was interrupted, timed out or dropped on the way.  Only a
\* target that was not there when the rules were filtered may lack a rule
\* (Core_scan.rules_of_config, scan_exn).
NoSilentLoss ==
    phase = "done" =>
        \A t \in targets : \A r \in Applies[t] \cap Relevant[t] \cap Producing(t) :
            \/ <<t, r>> \in matches
            \/ \E e \in errors : e.file = FileOf[t]
            \/ t \notin seen /\ r \notin validRules

\* What the incremental output has shown is in the final result, or an error
\* or a skipped entry on the file explains why not (file_match_hook runs in
\* the domain before the slot is written and before the last filter).
DisplayedIsAccountedFor ==
    phase = "done" =>
        \A m \in displayed :
            \/ m \in matches
            \/ \E e \in errors : e.file = FileOf[m[1]] /\ e.kind \in {"TooManyMatches", "OutOfMemory"}

\* Every listed target is accounted for: it is reported as scanned, or it is
\* skipped, or no rule applies to it; or it came to the disk after the rules
\* were filtered.
TargetsAccountedFor ==
    phase = "done" =>
        \A t \in Targets :
            \/ t \in scanned
            \/ Applies[t] = {}
            \/ t \notin seen /\ Applies[t] \cap validRules = {}
            \/ \E s \in skipped : s.file = FileOf[t] /\ s.reason = "Nonexistent_file"

\* In one slot, the timeouts of the rules of one mode never exceed the
\* threshold, and a slot whose counter reached it holds nothing else.
TimeoutsPerModeBounded ==
    TimeoutThreshold > 0 =>
        \A t \in Targets : res[t] # NoResult =>
            \A mode \in {TaintRules, Rules \ TaintRules} :
                LET n == Cardinality({e \in res[t].errors :
                                         e.kind = "Timeout" /\ e.rule \in mode})
                IN /\ n <= TimeoutThreshold
                   /\ n = TimeoutThreshold => res[t].matches = {}

\* A scan always ends, with a result or with an exception.
ScanEnds == <>(phase \in {"done", "aborted"})

\* The scan as its caller sees it.
Verdict == [t \in Targets |->
               CASE t \notin targets -> "missing"
                 [] t \in targets /\ res[t] # NoResult -> "settled"
                 [] OTHER -> "pending"]
Progress == CASE phase = "done" -> "published"
              [] phase = "aborted" -> "aborted"
              [] OTHER -> "running"
Intact == \A f \in Files : disk[f] = "same"

Report == INSTANCE ScanReport WITH
    verdict <- Verdict, report <- Progress, intact <- Intact

\* The pool of domains, the collation and the post-processing implement
\* ScanReport: a target gets one verdict and keeps it, the report comes when
\* no target is pending, and only a file that is missing or that was changed
\* since it was read can abort the scan.
ImplementsScanReport == Report!Spec

-----------------------------------------------------------------------------
(* What the documentation says, checked by the runs that expect a violation *)

\* A rule for a language that is not present in any of the targets will not
\* apply, and nothing is lost without it (the comment on
\* filter_rules_by_targets_analyzers).
FilteredRulesDoNotApply ==
    phase \in {"sort", "pool", "post", "done"} =>
        \A t \in targets : Applies[t] \subseteq validRules

\* A file on which the threshold of timeouts is reached is skipped (the
\* documentation of --timeout-threshold).
TimeoutThresholdHonoured ==
    TimeoutThreshold > 0 =>
        \A t \in Targets : res[t] # NoResult =>
            \/ Cardinality({e \in res[t].errors : e.kind = "Timeout"}) < TimeoutThreshold
            \/ res[t].matches = {}

\* An error about memory or the stack blames a rule that the engine was
\* using on that target (the comment on Rule.last_matched_rule).
BlamedRuleWasInUse ==
    \A t \in Targets : res[t] # NoResult =>
        \A e \in res[t].errors : e.rule # NoRule => e.rule \in RulesForTarget(t)
=============================================================================
