----------------------------- MODULE TextOutput -----------------------------
(***************************************************************************)
(* The findings as text: formatter/text.py.  The messages of the findings  *)
(* of one rule are taken to be the same, and a finding to be one line.     *)
(***************************************************************************)
EXTENDS RuleMatches

CONSTANT Nameless   \* the ids of rules that have no line: "-" of -e, and ""

SecretsGroup(match, rule) ==
    CASE rule.metadata.generic -> "generic-secrets"
      [] ~rule.metadata.generic /\ match.validation = "valid" -> "valid"
      [] ~rule.metadata.generic /\ match.validation = "invalid" -> "invalid"
      [] ~rule.metadata.generic /\ match.validation = "error" -> "validation error"
      [] OTHER -> "unvalidated"

\* Only ci tells the findings of Code that block from the others.
GroupOf(match, rule, ci) ==
    <<match.kind,
      CASE match.kind = "code" -> IF ~ci THEN "merged"
                                  ELSE IF IsBlocking(match, rule) THEN "blocking"
                                       ELSE "nonblocking"
        [] match.kind = "secrets" -> SecretsGroup(match, rule)
        [] OTHER -> ExposureType(match, rule)>>

\* Mutant of PrintFinding: the rule is not told again in another file.
PrintFindingOfRule(sorted, i) ==
    LET m       == sorted[i]
        newFile == i = 1 \/ sorted[i - 1].path # m.path
        newRule == m.rule \notin Nameless /\ (i = 1 \/ sorted[i - 1].rule # m.rule)
    IN (IF newFile THEN <<[file |-> m.path]>> ELSE <<>>)
       \o (IF newRule THEN <<[rule |-> m.rule]>> ELSE <<>>)
       \o <<[finding |-> m, separator |-> FALSE]>>

\* print_text_output: one line for a file when it changes, one for a rule when
\* it or the file changes and it has a name, and the lines of the finding, with a separator when
\* the next one is of the same file and rule.
PrintFinding(sorted, i) ==
    LET m       == sorted[i]
        newFile == i = 1 \/ sorted[i - 1].path # m.path
        newRule == m.rule \notin Nameless /\ (newFile \/ sorted[i - 1].rule # m.rule)
        joined  == i < Len(sorted) /\ sorted[i + 1].path = m.path
                                   /\ sorted[i + 1].rule = m.rule
    IN (IF newFile THEN <<[file |-> m.path]>> ELSE <<>>)
       \o (IF newRule THEN <<[rule |-> m.rule]>> ELSE <<>>)
       \o <<[finding |-> m, separator |-> joined]>>

PrintTextOutput(sorted) ==
    FlattenSeq([i \in 1..Len(sorted) |-> PrintFinding(sorted, i)])

\* format: a section for each group that has a finding.  Those of generic
\* secrets are counted, not shown.
FormatText(matches, ci) ==
    LET in(group, rule) == {m \in ToSet(matches[rule]) : GroupOf(m, rule, ci) = group}
        groups == UNION {{GroupOf(m, rule, ci) : m \in ToSet(matches[rule])} :
                            rule \in DOMAIN matches}
    IN [group \in {g \in groups : g[2] # "generic-secrets"} |->
           PrintTextOutput(SortMatches(SetToSeq(
               UNION {in(group, rule) : rule \in DOMAIN matches})))]
=============================================================================
