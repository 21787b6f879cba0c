----------------------------- MODULE RuleTests -----------------------------
(***************************************************************************)
(* opengrep scan --test: test.py.  A test is                               *)
(*   targets, configs   the paths given: --config is not given when        *)
(*              configs is empty                                           *)
(*   files      every file below them                                      *)
(*   lines      the annotations: [file, line, kinds, ids], the line being  *)
(*              the one after the comment                                  *)
(*   answers    for each config file, what a scan of its targets gives:    *)
(*              [raised, results, errors], a result being [path, rule, line] *)
(*   fixes      the config files that have a fix                           *)
(*   differ     the targets that autofix does not make as expected         *)
(*   strict                                                                *)
(* Hidden files are left out of all this.                                  *)
(***************************************************************************)
EXTENDS Naturals, Sequences, FiniteSets, FiniteSetsExt

CONSTANTS
    StemOf,         \* StemOf[name]: what is before its first dot
    FinalOf,        \* FinalOf[name]: what is after its last dot
    SuffixOf        \* SuffixOf[name]: "config", "test", "fixtest" or "other"

-----------------------------------------------------------------------------
(* Which files test which config *)

RelativeTo(path, parent) == SubSeq(path, Len(parent) + 1, Len(path))

\* The target may lie deeper than the config: a folder named after it.
RelativelyEq(parentTarget, target, parentConfig, config) ==
    LET one   == RelativeTo(target, parentTarget)
        other == RelativeTo(config, parentConfig)
        n     == Len(other)
    IN /\ Len(one) >= n
       /\ SubSeq(one, 1, n - 1) = SubSeq(other, 1, n - 1)
       /\ n > 0 => StemOf[one[n]] = StemOf[other[n]]

LastName(path) == path[Len(path)]

Below(files, path) ==
    {f \in files : Len(f) > Len(path) /\ SubSeq(f, 1, Len(path)) = path}

\* The files a path stands for, and the folder of a path that is a file.
FolderOf(test, path) ==
    IF path \in test.files THEN SubSeq(path, 1, Len(path) - 1) ELSE path

ConfigPath(test) == IF test.configs = <<>> THEN test.targets[1] ELSE test.configs[1]

GetConfigFilenames(test) ==
    LET config == ConfigPath(test)
    IN IF config \in test.files THEN {config}
       ELSE {f \in Below(test.files, config) : SuffixOf[LastName(f)] = "config"}

\* A target that is a file is tested with the whole folder it is in, unless the
\* config is a file too.
TargetsOf(test, config) ==
    LET target == test.targets[1]
        isFile == target \in test.files
    IN IF isFile /\ ConfigPath(test) \in test.files THEN {target}
       ELSE {f \in Below(test.files, FolderOf(test, target)) :
                /\ SuffixOf[LastName(f)] \in {"test", "other"}
                /\ isFile \/ RelativelyEq(target, f, ConfigPath(test), config)}

FixtestsOf(test, target) ==
    LET folder == FolderOf(test, test.targets[1])
    IN {f \in Below(test.files, folder) :
           /\ SuffixOf[LastName(f)] = "fixtest"
           /\ FinalOf[LastName(f)] = FinalOf[LastName(target)]
           /\ RelativelyEq(folder, target, folder, f)}

-----------------------------------------------------------------------------
(* What is expected and what is reported *)

LinesWith(test, file, kinds) ==
    {l \in test.lines : l.file = file /\ l.kinds \cap kinds # {}}

\* The lines with an annotation of one of these kinds for a rule.
Annotated(test, file, rule, kinds) ==
    {l.line : l \in {x \in LinesWith(test, file, kinds) : rule \in x.ids}}

AnnotatedRules(test, file, kinds) == UNION {l.ids : l \in LinesWith(test, file, kinds)}

Reported(answer, file, rule) ==
    {r.line : r \in {x \in answer.results : x.path = file /\ x.rule = rule}}

ReportedRules(answer, file) == {r.rule : r \in {x \in answer.results : x.path = file}}

\* check_rule_id_mismatch: as soon as anything is reported, each annotated file
\* needs a result of each rule that it names, in an "ok" too, and of no other.
RuleIdMismatch(test, config) ==
    LET answer == test.answers[config]
        kinds  == {"ruleid", "todoruleid", "ok"}
    IN /\ answer.results # {}
       /\ \E file \in TargetsOf(test, config) :
              /\ AnnotatedRules(test, file, kinds) # {}
              /\ AnnotatedRules(test, file, kinds) # ReportedRules(answer, file)

\* get_expected_and_reported_lines, less what is marked as to be done.
Passed(test, config, file, rule) ==
    LET todo == Annotated(test, file, rule, {"todook", "todoruleid"})
    IN Annotated(test, file, rule, {"ruleid", "todoruleid"}) \ todo
         = Reported(test.answers[config], file, rule) \ todo

\* The pairs of a rule and a file that make a check.
ChecksOf(test, config) ==
    UNION {(AnnotatedRules(test, f, {"ruleid", "todoruleid"})
            \cup ReportedRules(test.answers[config], f)) \X {f} :
              f \in TargetsOf(test, config)
                    \cup {r.path : r \in test.answers[config].results}}

-----------------------------------------------------------------------------
(* generate_test_results *)

Tested(test) == {c \in GetConfigFilenames(test) : TargetsOf(test, c) # {}}

Answering(test) == {c \in Tested(test) : ~test.answers[c].raised}

\* An error of the scan fails all the checks of its config.
AnyFailure(test) ==
    \E c \in Answering(test) : \E check \in ChecksOf(test, c) :
        test.answers[c].errors \/ ~Passed(test, c, check[2], check[1])

\* The fixes are tried for every target with an expected result, whether its
\* checks passed or not; of several expected results the last one counts.
FixTargets(test) ==
    {f \in UNION {TargetsOf(test, c) : c \in Tested(test)} : FixtestsOf(test, f) # {}}

AnyFixFailure(test) == FixTargets(test) \cap test.differ # {}

\* How test_main ends: it never returns.
TestEnds(test) ==
    CASE Len(test.targets) # 1 \/ Len(test.configs) > 1 -> [kind |-> "crash", code |-> 2]
      [] Len(test.targets) = 1 /\ test.configs = <<>> /\ test.targets[1] \in test.files ->
           [kind |-> "crash", code |-> 2]
      [] OTHER ->
           IF \E c \in Answering(test) : RuleIdMismatch(test, c)
           THEN [kind |-> "exit", code |-> 2]
           ELSE [kind |-> "exit",
                 code |-> IF \/ test.strict /\ Answering(test) # Tested(test)
                             \/ AnyFailure(test) \/ AnyFixFailure(test)
                          THEN 1 ELSE 0]
=============================================================================
