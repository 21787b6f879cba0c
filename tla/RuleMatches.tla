---------------------------- MODULE RuleMatches ----------------------------
(***************************************************************************)
(* Findings: rule_match.py, core_output.py, nosemgrep.py, and the removal  *)
(* of those of the baseline in run_scan.py.  A finding is                   *)
(*   rule, path, line, code   where it is, and the code without the layout *)
(*                            and the nosemgrep comment (syntactic_context) *)
(*   formula     the formula with what its metavariables bound             *)
(*   severity    what the engine says, or NoSeverity                       *)
(*   ignored     is_ignored            fix     a fix, or NoFix             *)
(*   kind        "code", "sca" or "secrets"                                *)
(*   reachable, dependency    of a "sca" finding, or NotADependency        *)
(*   validation  the validation state of a secret, or NoValidation         *)
(*   priorName   the name of the rule in the previous scan, or NoName      *)
(*   index, matchIndex   0 until RuleMatches numbers it                    *)
(* A rule has an id, a severity and metadata: actions, stateActions and    *)
(* scaKind.                                                                *)
(***************************************************************************)
EXTENDS Integers, Sequences, FiniteSets, SequencesExt, FiniteSetsExt

CONSTANTS
    NoSeverity, NoFix, NoValidation, NoName,
    Rank(_)         \* the order of paths and of ids of rules

NotADependency == [transitivity |-> "none"]

-----------------------------------------------------------------------------
(* Lists *)

IsList(list) == list \in Seq(ToSet(list))

\* The elements of a list that are in a set, in their order.
Only(list, kept) ==
    FlattenSeq([i \in DOMAIN list |-> IF list[i] \in kept THEN <<list[i]>> ELSE <<>>])

-----------------------------------------------------------------------------
(* Keys *)

\* A finding of the rules of the previous scan goes by the name it had there.
NamedBy(match) == IF match.priorName # NoName THEN match.priorName ELSE match.rule

CiUniqueKey(match) ==
    [rule |-> NamedBy(match), path |-> match.path, code |-> match.code,
     index |-> match.index]

\* Mutant of PathChangedCiUniqueKey: the name that the file has now.
UnchangedPathKey(match, renamed) == CiUniqueKey([match EXCEPT !.priorName = NoName])

\* The same with the path the file had in the baseline, and always with the id
\* that the rule has now.
PathChangedCiUniqueKey(match, renamed) ==
    [rule |-> match.rule,
     path |-> IF match.path \in DOMAIN renamed THEN renamed[match.path] ELSE match.path,
     code |-> match.code, index |-> match.index]

MatchBasedKey(match) ==
    [formula |-> match.formula, path |-> match.path, rule |-> NamedBy(match)]

MatchBasedId(match) == [key |-> MatchBasedKey(match), index |-> match.matchIndex]

\* Findings are ordered by path, then place, then rule.
Before(one, other) ==
    \/ Rank(one.path) < Rank(other.path)
    \/ one.path = other.path /\ one.line < other.line
    \/ one.path = other.path /\ one.line = other.line /\ Rank(one.rule) < Rank(other.rule)

\* sorted, which is stable.
Insert(sorted, match) ==
    InsertAt(sorted, 1 + Cardinality({i \in DOMAIN sorted : ~Before(match, sorted[i])}), match)

SortMatches(list) ==
    LET sorted[n \in 0..Len(list)] ==
            IF n = 0 THEN <<>> ELSE Insert(sorted[n - 1], list[n])
    IN sorted[Len(list)]

-----------------------------------------------------------------------------
(* RuleMatches *)

\* What comes before a finding with the same key, the index being 0 yet.
SameBefore(matches, i) ==
    {k \in 1..(i - 1) : CiUniqueKey(matches[k]) = CiUniqueKey(matches[i])}

SimilarBefore(matches, i) ==
    {k \in 1..(i - 1) : MatchBasedKey(matches[k]) = MatchBasedKey(matches[i])}

\* Mutant of RuleMatchesOf: every finding is taken for the first of its kind.
RuleMatchesUnnumbered(matches) == matches

\* add numbers the findings that have the same key in the order they come in.
RuleMatchesOf(matches) ==
    [i \in DOMAIN matches |->
        [matches[i] EXCEPT !.index = Cardinality(SameBefore(matches, i)),
                           !.matchIndex = Cardinality(SimilarBefore(matches, i))]]

\* convert_to_rule_match: the rule gives what the engine leaves out.
ConvertToRuleMatch(match, rule) ==
    [match EXCEPT !.severity = IF @ = NoSeverity THEN rule.severity ELSE @]

\* rule_table: of several rules with an id the last one has it.
IsInRuleTable(rule, rules) ==
    \E i \in DOMAIN rules :
        rules[i] = rule /\ \A k \in DOMAIN rules : rules[k].id = rule.id => k <= i

\* core_matches_to_rule_matches: numbered in the order of the answer of the
\* engine, which the number of jobs changes, and only then sorted.
CoreMatchesToRuleMatches(rules, answer) ==
    [rule \in ToSet(rules) |->
        LET found == Only(answer, {match \in ToSet(answer) :
                                      match.rule = rule.id /\ IsInRuleTable(rule, rules)})
            own   == [i \in DOMAIN found |-> ConvertToRuleMatch(found[i], rule)]
        IN SortMatches(RuleMatchesOf(own))]

\* remove_matches_in_baseline.
RemoveMatchesInBaseline(head, baseline, renamed) ==
    [rule \in {r \in DOMAIN head : head[r] # <<>>} |->
        LET old == IF rule \in DOMAIN baseline
                   THEN {CiUniqueKey(match) : match \in ToSet(baseline[rule])} ELSE {}
        IN Only(head[rule], {match \in ToSet(head[rule]) :
                                PathChangedCiUniqueKey(match, renamed) \notin old})]

\* filter_ignored, what it keeps.
FilterIgnoredMatches(matches, keepIgnored) ==
    [rule \in DOMAIN matches |->
        Only(matches[rule], {match \in ToSet(matches[rule]) : keepIgnored \/ ~match.ignored})]

AllMatches(matches) == UNION {ToSet(matches[rule]) : rule \in DOMAIN matches}

-----------------------------------------------------------------------------
(* What a finding means for CI *)

\* None for a finding that is not one of Supply Chain.
ExposureType(match, rule) ==
    CASE match.kind # "sca" -> "none"
      [] match.kind = "sca" /\ rule.metadata.scaKind = "upgrade-only" -> "reachable"
      [] match.kind = "sca" /\ rule.metadata.scaKind = "legacy" -> "undetermined"
      [] OTHER -> IF match.reachable THEN "reachable" ELSE "unreachable"

\* The action for a state of the validation, but for one without a validator.
IsValidationStateBlocking(match, rule) ==
    CASE match.validation = NoValidation -> FALSE
      [] match.validation = "no_validator" -> "block" \in rule.metadata.actions
      [] OTHER -> /\ match.validation \in DOMAIN rule.metadata.stateActions
                  /\ rule.metadata.stateActions[match.validation] = "block"

IsBlocking(match, rule) ==
    CASE match.kind = "sca" ->
           /\ ~(rule.metadata.scaKind = "upgrade-only" /\ match.dependency.transitivity = "transitive")
           /\ ExposureType(match, rule) = "reachable"
           /\ "block" \in rule.metadata.actions
      [] match.kind # "sca" /\ match.validation # NoValidation ->
           IsValidationStateBlocking(match, rule)
      [] OTHER -> "block" \in rule.metadata.actions

AppSeverity(severity) ==
    CASE severity = "CRITICAL" -> 3
      [] severity \in {"ERROR", "HIGH"} -> 2
      [] severity \in {"WARNING", "MEDIUM"} -> 1
      [] severity = "EXPERIMENT" -> 4
      [] OTHER -> 0

\* to_app_finding_format: the content of a dataflow trace is blanked unless the
\* user asks for it.
ToAppFinding(match, rule, removeContent) ==
    [check_id |-> match.rule, path |-> match.path, line |-> match.line,
     severity |-> AppSeverity(match.severity), index |-> match.index,
     syntactic_id |-> CiUniqueKey(match), match_based_id |-> MatchBasedId(match),
     is_blocking |-> IsBlocking(match, rule),
     content |-> ~removeContent]
=============================================================================
