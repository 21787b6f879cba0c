------------------------------ MODULE ScanPlan ------------------------------
(***************************************************************************)
(* What the engine is asked to do: plan_core_run and the command line of   *)
(* core_runner.py, core_targets_plan.py and what scan_report.py says of    *)
(* it.  A plan is [rules, tasks, product]: rules is a sequence, and a task *)
(* is [path, analyzer, nums], nums being the places of its rules.  A rule  *)
(* is one of RuleConfigs with its own includes and excludes.               *)
(***************************************************************************)
EXTENDS Targets, RuleConfigs

CONSTANT TargetLanguages    \* the analyzers that are languages, unlike regex

-----------------------------------------------------------------------------
(* Plan *)

FilesForRule(tree, tm, rule, lang) ==
    GetFilesForRule(tree, tm, lang, RuleProduct(rule), rule)

\* plan_core_run: one task for each file and analyzer that some rule needs.
PlanCoreRun(tree, tm, rules, product) ==
    LET pairs(i) == {pair \in tree.files \X RuleLanguages(rules[i]) :
                        pair[1] \in FilesForRule(tree, tm, rules[i], pair[2])}
        runs == [i \in DOMAIN rules |-> pairs(i)]
        task(pair) == [path |-> pair[1], analyzer |-> pair[2],
                       nums |-> {i \in DOMAIN rules : pair \in runs[i]}]
    IN [rules |-> rules, product |-> product,
        tasks |-> {task(pair) : pair \in UNION {runs[i] : i \in DOMAIN rules}}]

\* The rules for which there is no target at all.
UnusedRules(plan) ==
    {i \in DOMAIN plan.rules : \A t \in plan.tasks : i \notin t.nums}

ExecutedRules(plan) == Len(plan.rules) - Cardinality(UnusedRules(plan))

AllTargets(plan) == {t.path : t \in plan.tasks}

ProductsOf(plan, task) == {RuleProduct(plan.rules[i]) : i \in task.nums}

LanguageLabel(task) ==
    IF task.analyzer \in TargetLanguages THEN task.analyzer ELSE "<multilang>"

\* split_by_lang_label_for_product: the tasks of a label, with the rules of a
\* product; a task stays when it has none of them.
SplitByLangLabel(plan, product) ==
    [label \in {LanguageLabel(t) : t \in plan.tasks} |->
        {[t EXCEPT !.nums = {i \in @ : RuleProduct(plan.rules[i]) = product}] :
            t \in {x \in plan.tasks : LanguageLabel(x) = label}}]

RuleCount(tasks) == Cardinality(UNION {t.nums : t \in tasks})

\* file_count: the files of <<multilang>> are divided by its analyzers.
FileCount(tasks) ==
    IF \E t \in tasks : LanguageLabel(t) = "<multilang>"
    THEN Cardinality(tasks) \div Cardinality({t.analyzer : t \in tasks})
    ELSE Cardinality(tasks)

RuleCountForProduct(plan, product) ==
    Cardinality({i \in UNION {t.nums : t \in plan.tasks} :
                    RuleProduct(plan.rules[i]) = product})

\* The rows of table_by_language: those with a rule of the product.
TableByLanguage(plan, product) ==
    LET split == SplitByLangLabel(plan, product)
    IN {[label |-> l, rules |-> RuleCount(split[l]), files |-> FileCount(split[l])] :
           l \in {x \in DOMAIN split : RuleCount(split[x]) > 0}}

TableByOrigin(plan, product) ==
    LET own == {i \in DOMAIN plan.rules : RuleProduct(plan.rules[i]) = product}
    IN [origin \in {plan.rules[i].metadata.origin : i \in own} |->
           Cardinality({i \in own : plan.rules[i].metadata.origin = origin})]

-----------------------------------------------------------------------------
(* What is printed of the plans *)

\* get_cli_ux_flavor.
UxFlavor(invoked) ==
    CASE ~invoked.newUx -> "legacy"
      [] invoked.newUx /\ invoked.pattern -> "minimal"
      [] OTHER -> IF invoked.command = "scan" /\ invoked.configs \subseteq {"auto", "supply-chain"}
                  THEN "simple" ELSE "detailed"

\* The plans of print_scan_status: that of Code and Secrets leaves out the
\* rules of the previous scan; both take the files named on the command line
\* whatever the excludes, as the default of the parameter has it.
SastPlan(tree, tm, rules) ==
    PlanCoreRun(tree, [tm EXCEPT !.bypass = TRUE],
                SelectSeq(rules, LAMBDA r : RuleProduct(r) # "sca" /\ ~FromTransientScan(r)),
                "code")

ScaPlan(tree, tm, rules, subprojects) ==
    PlanCoreRun(tree, [tm EXCEPT !.bypass = TRUE],
                SelectSeq(rules, LAMBDA r : RuleProduct(r) = "sca"
                    /\ \E s \in subprojects : s.ok /\ s.ecosystem \in Ecosystems(r)),
                "sca")

\* shown is the manager of the files whose number is shown.
ScanPlans(tree, shown, tm, rules, subprojects) ==
    <<SastPlan(tree, shown, rules), ScaPlan(tree, tm, rules, subprojects)>>

\* executed_rule_count.
ExecutedRuleCount(plans) ==
    FoldLeft(LAMBDA n, plan : n + ExecutedRules(plan), 0, plans)

\* _print_degenerate_table, whose plan counts the files of one product.
DegenerateTable(plan, count) ==
    IF count = 0 \/ plan.tasks = {} THEN <<"nothing to scan">>
    ELSE <<[files |-> Cardinality({t \in plan.tasks : plan.product \in ProductsOf(plan, t)})]>>

SastTable(plan, product, count) ==
    LET split == SplitByLangLabel(plan, product)
    IN CASE count <= 1 \/ plan.tasks = {} ->
              DegenerateTable([plan EXCEPT !.product = product], count)
         [] count > 1 /\ Cardinality(DOMAIN split) = 1 ->
              <<[files |-> FileCount(split[CHOOSE l \in DOMAIN split : TRUE])]>>
         [] OTHER -> <<TableByLanguage(plan, product), TableByOrigin(plan, product)>>

\* print_scan_status, without the section on Supply Chain, which is disabled;
\* the files are those of the target, whatever their language.
PrintScanStatus(ux, plans, files) ==
    LET sast    == plans[1]
        code    == RuleCountForProduct(sast, "code")
        secrets == RuleCountForProduct(sast, "secrets")
    IN CASE ux = "minimal" -> <<>>
         [] ux = "simple" -> <<[files |-> Cardinality(files)]>>
         [] OTHER -> <<[files |-> Cardinality(files), rules |-> Len(sast.rules)]>> \o SastTable(sast, "code", code)
                     \o (IF secrets > 0 THEN SastTable(sast, "secrets", secrets) ELSE <<>>)

-----------------------------------------------------------------------------
(* The command *)

\* The steps of the progress bar, three for a target.
ProgressTotal(ux, plan) == IF ux = "minimal" THEN 0 ELSE 3 * Cardinality(plan.tasks)

WithoutBinary(asked) == ~asked.binary

\* Secrets and comparisons across files are those of the proprietary engine,
\* which wants a token, and one root to compare in.
CommandRefused(asked) ==
    \/ asked.secrets /\ ~IsPro(asked.engine)
    \/ IsPro(asked.engine) /\ ~asked.token
    \/ IsInterfile(asked.engine) /\ asked.roots # 1

\* What stops _run_rules_direct_to_semgrep_core_helper before the engine is
\* started: [kind, code], an exit or an error, or "none".
BeforeTheEngine(asked) ==
    IF WithoutBinary(asked) THEN [kind |-> "exit", code |-> 2]
    ELSE IF CommandRefused(asked) THEN [kind |-> "error", code |-> 2]
    ELSE IF asked.dump THEN [kind |-> "exit", code |-> 0]
    ELSE [kind |-> "none", code |-> 0]
=============================================================================
