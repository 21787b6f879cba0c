---------------------------- MODULE RuleConfigs ----------------------------
(***************************************************************************)
(* From --config to rules: config_resolver.py, rule_lang.py, rule.py,      *)
(* engine.py and app/project_config.py.  A config is                       *)
(*   kind      r2c, url, products, registry, auto, local, as its text says *)
(*   products  the product names, for that kind                            *)
(*   answers   what the servers say, by address:  "ok", "undecodable",     *)
(*             "unauthorized", "refused", "unreachable"                    *)
(*   files     the files at the place it names, a sequence                 *)
(* A file has                                                              *)
(*   folder    the names above it, from the current folder                 *)
(*   name      its name, or NoName for what a server sent                  *)
(*   host      "registry" or "other", for what a server sent               *)
(*   syntax    "empty", "json", "yaml", "null", "broken", "duplicate"      *)
(*   schema    what validation says: "ok", "rpc_only", "bad", "crash"      *)
(*   mapping   FALSE for a list or a scalar, hasRules, missed, rules       *)
(* and a rule an id (a sequence of names), content, metadata, languages,   *)
(* engine (generic_engine), min and max versions, product, join, and valid *)
(* (TRUE when the constructor accepts it).                                 *)
(***************************************************************************)
EXTENDS ScanOutput, RuleMatches

CONSTANT Version      \* __SEMGREP_VERSION__

ConfigOk == [raised |-> FALSE, code |-> 0]
Raised(code) == [raised |-> TRUE, code |-> code]

UnparseableYaml == 5

-----------------------------------------------------------------------------
(* Where a config comes from *)

IsProductNames(config) == config.kind = "products"

\* ConfigLoader.__init__.
Origin(config) ==
    CASE IsProductNames(config) -> "cloud"
      [] config.kind = "local" -> "local"
      [] OTHER -> "registry"

UsesFallback(config) == IsProductNames(config)

\* _download_config_from_url: an answer that is not the expected JSON is the
\* configuration itself.
DownloadFromUrl(config, address) ==
    IF config.answers[address] \in {"ok", "undecodable"}
    THEN [status |-> ConfigOk, files |-> config.files]
    ELSE [status |-> Raised(2), files |-> <<>>]

\* _download_semgrep_cloud_platform_scan_config.
DownloadScanConfig(config) ==
    CASE config.answers["app"] = "ok" -> [status |-> ConfigOk, files |-> config.files]
      [] config.answers["app"] = "unauthorized" -> [status |-> Raised(13), files |-> <<>>]
      [] OTHER -> [status |-> Raised(2), files |-> <<>>]

\* _download_semgrep_cloud_platform_fallback_scan_config: there is an address
\* for one product and none for a list of them; that of policy needs a token.
DownloadFallback(config) ==
    IF \/ Cardinality(config.products) # 1
       \/ config.products = {"policy"} /\ ~config.token
    THEN [status |-> Raised(2), files |-> <<>>]
    ELSE DownloadFromUrl(config, "fail_open")

\* _fetch_semgrep_cloud_platform_scan_config: the name of the repository is
\* asked for before anything is sent, and the fallback comes with the error of
\* the first attempt.
FetchScanConfig(config) ==
    LET first  == DownloadScanConfig(config)
        second == DownloadFallback(config)
    IN IF config.products \cap {"code", "policy", "secrets"} # {} /\ ~config.repoName
       THEN [status |-> Raised(2), files |-> <<>>]
       ELSE IF first.status.raised /\ UsesFallback(config) /\ ~second.status.raised
            THEN second ELSE first

LoadFromLocalPath(config) ==
    IF config.files = <<>> THEN [status |-> Raised(2), files |-> <<>>]
    ELSE [status |-> ConfigOk, files |-> config.files]

LoadConfig(config) ==
    CASE Origin(config) = "registry" -> DownloadFromUrl(config, "registry")
      [] Origin(config) = "cloud" -> FetchScanConfig(config)
      [] OTHER -> LoadFromLocalPath(config)

-----------------------------------------------------------------------------
(* From text to rules *)

\* parse_config_files gives an id to what a server sent; only the registry is
\* trusted to say that a rule for secrets may run its validators.
ConfigId(file) ==
    IF file.name # "" THEN [folder |-> file.folder, name |-> file.name]
    ELSE [folder |-> <<>>,
          name |-> IF file.host = "registry" THEN "remote-registry" ELSE "remote-url"]

IncompatibleRule(rule) ==
    \/ Version < rule.minVersion
    \/ Version > rule.maxVersion

\* The rules for other versions are removed in place, each with an error that
\* is an information; without their places these errors are one.
RemoveIncompatibleRules(rules) ==
    Only(rules, {rule \in ToSet(rules) : ~IncompatibleRule(rule)})

IncompatibleErrors(rules) ==
    IF \A i \in DOMAIN rules : ~IncompatibleRule(rules[i]) THEN <<>>
    ELSE <<[type |-> "IncompatibleRule", level |-> "info", path |-> NoPath, code |-> Ok,
            rule |-> NoRule]>>

\* A rule or file that is not valid, by the code of the exception.
SchemaError(code) ==
    [type |-> IF code = 4 THEN "InvalidRuleSchemaError" ELSE "SemgrepError",
     level |-> "error", path |-> NoPath, code |-> code, rule |-> NoRule]

\* validate_yaml: the schema in Python has its say when the engine refuses, is
\* not asked, or cannot be; any other exception of the engine goes through.
ValidateYaml(file, forceSchema) ==
    CASE file.schema = "crash" /\ ~forceSchema -> Raised(2)
      [] file.schema = "rpc_only" /\ forceSchema -> Raised(4)
      [] file.schema = "bad" -> Raised(4)
      [] OTHER -> ConfigOk

\* parse_yaml_preserve_spans.
ParseYaml(file) ==
    CASE file.syntax \in {"empty", "null", "broken"} -> Raised(UnparseableYaml)
      [] file.syntax = "duplicate" -> Raised(4)
      [] OTHER -> ConfigOk

\* parse_config_string: JSON, then YAML, then the validation.
ParseConfigString(file, forceSchema) ==
    LET parsed  == ParseYaml(file)
        checked == ValidateYaml(file, forceSchema)
        status  == IF parsed.raised THEN parsed ELSE checked
    IN [status |-> status,
        trees  |-> IF status.raised THEN <<>>
                   ELSE <<[id |-> ConfigId(file), mapping |-> file.mapping,
                           hasRules |-> file.hasRules, missed |-> file.missed,
                           rules |-> RemoveIncompatibleRules(file.rules)]>>,
        errors |-> IF status.raised THEN <<>> ELSE IncompatibleErrors(file.rules)]

\* parse_config_files: the files are parsed at once by several threads and
\* merged in their order; the first that is refused fails them all.
ParseConfigFiles(files, forceSchema) ==
    LET parsed  == [i \in DOMAIN files |-> ParseConfigString(files[i], forceSchema)]
        refused == {i \in DOMAIN files : parsed[i].status.raised}
    IN IF refused # {}
       THEN [status |-> parsed[Min(refused)].status, trees |-> <<>>, errors |-> <<>>]
       ELSE [status |-> ConfigOk,
             trees  |-> FlattenSeq([i \in DOMAIN files |-> parsed[i].trees]),
             errors |-> FlattenSeq([i \in DOMAIN files |-> parsed[i].errors])]

ResolveConfig(config, forceSchema) ==
    LET loaded == LoadConfig(config)
    IN IF loaded.status.raised
       THEN [status |-> loaded.status, trees |-> <<>>, errors |-> <<>>]
       ELSE ParseConfigFiles(loaded.files, forceSchema)

-----------------------------------------------------------------------------
(* Rule *)

\* "generic" stands for the engine of the options, and a rule for JavaScript is
\* one for TypeScript too.
RuleLanguages(rule) ==
    LET named == {IF lang = "generic" THEN rule.engine ELSE lang : lang \in rule.languages}
    IN named \cup IF "js" \in named THEN {"ts"} ELSE {}

RuleMode(rule) == IF rule.join THEN "join" ELSE "search"

\* should_run_on_semgrep_core: some key of the rule is a pattern.
ShouldRunOnCore(rule) == rule.patterns

DependsOn(rule) == rule.dependsOn

Ecosystems(rule) == {d.ecosystem : d \in DependsOn(rule)}

RuleProduct(rule) ==
    CASE DependsOn(rule) # {} -> "sca"
      [] DependsOn(rule) = {} /\ rule.metadata.product = "secrets" -> "secrets"
      [] OTHER -> "code"

RuleIsBlocking(rule) ==
    IF DOMAIN rule.metadata.stateActions # {}
    THEN "block" \in Range(rule.metadata.stateActions)
    ELSE "block" \in rule.metadata.actions

\* A postprocessor runs for rules that the pro registry served.
OriginOf(rule, id) ==
    IF /\ RuleProduct(rule) = "secrets"
       /\ id.name \notin {"remote-registry", "semgrep-app-rules"}
    THEN "local" ELSE rule.metadata.origin

FromTransientScan(rule) == rule.metadata.src = "previous-scan"

\* prepend_rule_path: the names of the folders come before the id.
PrependRulePath(id, ruleId) == id.folder \o ruleId

\* rule_without_metadata: what tells one rule from another.
WithoutMetadata(rule) == [id |-> rule.id, content |-> rule.content]

-----------------------------------------------------------------------------
(* Config *)

\* _validate: the trees that are valid, as pairs of an id and its rules.
ValidTrees(trees) ==
    LET usable(tree) == tree.mapping /\ tree.hasRules
        rulesOf(tree) ==
            LET good == Only(tree.rules, {rule \in ToSet(tree.rules) : rule.valid})
            IN [i \in DOMAIN good |->
                   [good[i] EXCEPT !.metadata.origin = OriginOf(good[i], tree.id)]]
        all == [i \in DOMAIN trees |->
                   [id |-> trees[i].id,
                    rules |-> IF usable(trees[i]) THEN rulesOf(trees[i]) ELSE <<>>]]
    IN Only(all, {tree \in ToSet(all) : tree.rules # <<>>})

\* The errors of the rules of one tree are one without their places.
TreeErrors(tree) ==
    IF ~tree.mapping THEN <<SchemaError(2)>>
    ELSE IF tree.hasRules /\ \A i \in DOMAIN tree.rules : tree.rules[i].valid THEN <<>>
         ELSE <<SchemaError(4)>>

Validate(trees) ==
    [valid  |-> ValidTrees(trees),
     errors |-> FlattenSeq([i \in DOMAIN trees |-> TreeErrors(trees[i])]),
     missed |-> FoldLeft(LAMBDA n, tree : n + IF tree.mapping THEN tree.missed ELSE 0,
                         0, trees)]

\* from_config_list: a config that raises adds its error, one that is empty is
\* skipped, and the others contribute in their order.
FromConfigList(configs, forceSchema) ==
    LET resolved == [i \in DOMAIN configs |-> ResolveConfig(configs[i], forceSchema)]
        checked  == Validate(FlattenSeq([i \in DOMAIN configs |-> resolved[i].trees]))
        found(i) == resolved[i].trees # <<>>
        only(product) == \E i \in DOMAIN configs :
                            found(i) /\ configs[i].products = {product}
    IN [valid  |-> checked.valid,
        missed |-> checked.missed,
        errors |-> FlattenSeq([i \in DOMAIN configs |->
                       IF resolved[i].status.raised
                       THEN <<SchemaError(resolved[i].status.code)>>
                       ELSE resolved[i].errors]) \o checked.errors,
        withSupplyChain |-> only("supply-chain"),
        withSecrets |-> only("secrets"),
        withCode |-> \E i \in DOMAIN configs :
                        found(i) /\ configs[i].products # {"supply-chain"}]

\* from_rules_yaml: the rules that the app sends, as one text.
FromRulesYaml(file, forceSchema) ==
    LET parsed  == ParseConfigString(file, forceSchema)
        trees   == [i \in DOMAIN parsed.trees |->
                       [parsed.trees[i] EXCEPT !.id = [folder |-> <<>>,
                                                       name |-> "semgrep-app-rules"]]]
        checked == Validate(trees)
    IN [valid |-> checked.valid, missed |-> 0,
        errors |-> (IF parsed.status.raised THEN <<SchemaError(parsed.status.code)>>
                    ELSE parsed.errors) \o checked.errors,
        withSupplyChain |-> FALSE, withSecrets |-> FALSE, withCode |-> FALSE]

\* get_config: -e goes with --lang, --replacement with -e.  The pattern is
\* given as the rule that manual_config makes of it.
GetConfig(request) ==
    CASE request.pattern # <<>> /\ request.lang = "none" -> Raised(2)
      [] request.pattern = <<>> /\ request.replacement -> Raised(2)
      [] OTHER -> ConfigOk

ManualConfig(rule) ==
    [id |-> [folder |-> <<>>, name |-> "manual"], mapping |-> TRUE, hasRules |-> TRUE,
     missed |-> 0, rules |-> <<rule>>]

ConfigOf(request) ==
    CASE request.pattern # <<>> ->
           LET checked == Validate(<<ManualConfig(request.pattern[1])>>)
           IN [valid |-> checked.valid, missed |-> checked.missed, errors |-> checked.errors,
               withSupplyChain |-> FALSE, withSecrets |-> FALSE, withCode |-> FALSE]
      [] request.pattern = <<>> /\ request.text # <<>> ->
           FromRulesYaml(request.text[1], request.forceSchema)
      [] OTHER -> FromConfigList(request.configs, request.forceSchema)

\* get_rules: the ids get the folder of their file, then of the rules that
\* differ by their metadata only the first one is kept, at the place of the
\* last one.
GetRules(valid, rewrite) ==
    LET renamed(tree) ==
            [i \in DOMAIN tree.rules |->
                [tree.rules[i] EXCEPT
                    !.id = IF rewrite THEN PrependRulePath(tree.id, @) ELSE @]]
        all == FlattenSeq([i \in DOMAIN valid |-> renamed(valid[i])])
        same(i) == {j \in DOMAIN all : WithoutMetadata(all[j]) = WithoutMetadata(all[i])}
        places == Only([i \in DOMAIN all |-> i], {i \in DOMAIN all : i = Max(same(i))})
    IN [k \in DOMAIN places |-> all[Min(same(places[k]))]]

-----------------------------------------------------------------------------
(* EngineType *)

IsPro(engine) == engine # "OSS"

IsInterfile(engine) == engine = "PRO_INTERFILE"

\* decide_engine_type, before the two overrides.
RequestedEngine(asked) ==
    CASE asked.flag # "none" -> asked.flag
      [] asked.flag = "none" /\ asked.deepByApp -> "PRO_INTERFILE"
      [] asked.flag = "none" /\ ~asked.deepByApp /\ asked.secrets -> "PRO_INTRAFILE"
      [] OTHER -> IF asked.loggedIn /\ asked.ci THEN "PRO_INTRAFILE" ELSE "OSS"

DecideEngineType(asked) ==
    IF /\ RequestedEngine(asked) = "PRO_INTERFILE"
       /\ (asked.diff /\ ~asked.interfileDiff) \/ asked.supplyChainOnly
    THEN "PRO_INTRAFILE" ELSE RequestedEngine(asked)

-----------------------------------------------------------------------------
(* ProjectConfig *)

\* _find_all_config_files: the current folder, and below the root of the
\* repository each parent of the way to it, appended to the one before.
FoldersSearched(cwd) ==
    LET parents == [i \in 1..Len(cwd) |-> SubSeq(cwd, 1, Len(cwd) - i)]
    IN {cwd} \cup {FlattenSeq(SubSeq(parents, 1, n)) : n \in 1..Len(cwd)}

\* load_all: files[folder] has the tags of the one there; the deeper ones take
\* precedence, and one without tags takes them away.
LoadAllTags(files, cwd) ==
    LET found == FoldersSearched(cwd) \cap DOMAIN files
        deepest == CHOOSE folder \in found : \A other \in found : Len(other) <= Len(folder)
    IN IF found = {} THEN {} ELSE files[deepest]
=============================================================================
