----------------------------- MODULE JoinRules -----------------------------
(***************************************************************************)
(* Rules in join mode: join_rule.py.  A join rule has                      *)
(*   id, severity                                                          *)
(*   refs       a sequence of [rule, renames, alias]; rule names a config  *)
(*   inline     the ids of the rules given in it                           *)
(*   on         a sequence of [a, propertyA, operator, b, propertyB, valid] *)
(* and a result of the inner scan is [rule, path, line, vars]: vars gives   *)
(* each metavariable its content, a sequence.  configs[c] is the sequence  *)
(* of the ids of the rules of the config c.                                *)
(***************************************************************************)
EXTENDS RuleMatches

\* peewee's contains.
ContainsPart(content, part) ==
    \E i \in 0..(Len(content) - Len(part)) :
        SubSeq(content, i + 1, i + Len(part)) = part

\* evaluate_condition; --> is dealt with before.
EvaluateCondition(left, operator, right) ==
    CASE operator = "==" -> left = right
      [] operator = "!=" -> left # right
      [] operator = ">" -> ContainsPart(left, right)
      [] OTHER -> ContainsPart(right, left)

CollectionSet(conditions) ==
    UNION {{conditions[i].a, conditions[i].b} : i \in DOMAIN conditions}

\* create_config_map: the first rule of each config; one without a rule is an
\* IndexError.
ConfigMapRaises(join, configs) ==
    \E i \in DOMAIN join.refs : configs[join.refs[i].rule] = <<>>

\* refs_lookup: the id of a rule to its renames; inline rules have none.
RenamesOf(join, configs, id) ==
    LET refs == {i \in DOMAIN join.refs : configs[join.refs[i].rule][1] = id}
    IN IF id \in join.inline \/ refs = {} THEN <<>> ELSE join.refs[Max(refs)].renames

\* alias_lookup.
AliasLookup(join, configs) ==
    [alias \in {join.refs[i].alias : i \in DOMAIN join.refs} \cup join.inline |->
        IF alias \in join.inline THEN alias
        ELSE configs[join.refs[Max({i \in DOMAIN join.refs :
                                       join.refs[i].alias = alias})].rule][1]]

\* rename_metavars_in_place: of two that get the same name one is left.
RenameMetavars(result, renames) ==
    LET new(v) == IF v \in DOMAIN renames THEN renames[v] ELSE v
    IN [result EXCEPT !.vars =
           [name \in {new(v) : v \in DOMAIN result.vars} |->
               result.vars[CHOOSE v \in DOMAIN result.vars : new(v) = name]]]

\* load_results_into_db: the rows of a model are those of one rule.
Model(results, id) == {r \in results : r.rule = id}

\* A metavariable that a finding does not bind is NULL: no condition on it holds.
Bound(row, property) == property \in DOMAIN row.vars

\* generate_recursive_cte: the pairs that chains of the rows connect.
Closure(rows, a, b) ==
    LET pairs == {<<r.vars[a], r.vars[b]>> : r \in rows}
        reach[n \in 0..Cardinality(pairs)] ==
            IF n = 0 THEN pairs
            ELSE reach[n - 1] \cup {<<pq[1][1], pq[2][2]>> :
                     pq \in {link \in reach[n - 1] \X pairs : link[1][2] = link[2][1]}}
    IN reach[Cardinality(pairs)]

\* handle_recursive_conditions: the rows of the collection are replaced; "and"
\* of two expressions is the second of them, so that a row is joined with every
\* pair that ends as it does.
RecursiveModel(rows, a, b) ==
    {[rp[1] EXCEPT !.vars = [name \in {a, b} |-> IF name = a THEN rp[2][1] ELSE rp[2][2]]] :
        rp \in {link \in rows \X Closure(rows, a, b) : link[1].vars[b] = link[2][2]}}

ModelOfCollection(results, aliases, conditions, collection) ==
    LET rows == Model(results, aliases[collection])
        own  == {i \in DOMAIN conditions : conditions[i].operator = "-->"
                                           /\ conditions[i].a = collection}
    IN IF own = {} THEN rows
       ELSE RecursiveModel(rows, conditions[Max(own)].propertyA,
                           conditions[Max(own)].propertyB)

\* match_on_conditions: the rows of the right of the last condition for which
\* there are rows of the other collections that satisfy all of them.
MatchOnConditions(results, aliases, conditions) ==
    LET normal == Only(conditions, {c \in ToSet(conditions) : c.operator # "-->"})
        names  == CollectionSet(conditions)
        rows   == [n \in names |-> ModelOfCollection(results, aliases, conditions, n)]
        joined == {f \in [names -> UNION {rows[n] : n \in names}] :
                      \A n \in names : f[n] \in rows[n]}
        holds(c, f) == /\ Bound(f[c.a], c.propertyA) /\ Bound(f[c.b], c.propertyB)
                       /\ EvaluateCondition(f[c.a].vars[c.propertyA], c.operator,
                                            f[c.b].vars[c.propertyB])
    IN {[path |-> f[Last(normal).b].path, line |-> f[Last(normal).b].line] :
           f \in {g \in joined : \A i \in DOMAIN normal : holds(normal[i], g)}}

\* The conditions that cannot be run: one that crosses collections, and none
\* that is left to give the finding.
ConditionsRaise(conditions) ==
    \/ \E i \in DOMAIN conditions : conditions[i].operator = "-->"
                                    /\ conditions[i].a # conditions[i].b
    \/ \A i \in DOMAIN conditions : conditions[i].operator = "-->"

\* A collection of a condition has no results.
NothingJoined == [raised |-> FALSE, found |-> {}, invalid |-> FALSE]

\* run_join_rule: what the inner scan found, less what the conditions drop.  Its
\* errors are looked up by a type that was just deleted, and so are all skipped.
RunJoinRule(join, configs, results) ==
    LET invalid == \E i \in DOMAIN join.on : ~join.on[i].valid
        aliases == AliasLookup(join, configs)
        unknown == CollectionSet(join.on) \ DOMAIN aliases
        ids     == {r.rule : r \in results}
        named   == {RenameMetavars(r, RenamesOf(join, configs, r.rule)) : r \in results}
    IN CASE ConfigMapRaises(join, configs) -> [raised |-> TRUE, found |-> {}, invalid |-> FALSE]
         [] ~ConfigMapRaises(join, configs) /\ invalid ->
              [raised |-> FALSE, found |-> {}, invalid |-> TRUE]
         [] ~ConfigMapRaises(join, configs) /\ ~invalid /\ unknown # {} ->
              [raised |-> TRUE, found |-> {}, invalid |-> FALSE]
         [] OTHER ->
              IF {aliases[c] : c \in CollectionSet(join.on)} \subseteq ids
              THEN IF ConditionsRaise(join.on)
                   THEN [raised |-> TRUE, found |-> {}, invalid |-> FALSE]
                   ELSE [raised |-> FALSE, invalid |-> FALSE,
                         found |-> MatchOnConditions(named, aliases, join.on)]
              ELSE NothingJoined

\* json_to_rule_match: the finding is one of the join rule.
JsonToRuleMatch(join, match) ==
    [rule |-> join.id, path |-> match.path, line |-> match.line, code |-> "joined",
     formula |-> join.id, severity |-> join.severity, ignored |-> FALSE, fix |-> NoFix,
     kind |-> "code", reachable |-> FALSE, dependency |-> NotADependency,
     validation |-> NoValidation, priorName |-> NoName, index |-> 0, matchIndex |-> 0]
=============================================================================
