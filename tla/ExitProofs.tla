----------------------------- MODULE ExitProofs -----------------------------
(***************************************************************************)
(* What the command line tells and the code it exits with, whatever it is  *)
(* asked: the errors that the output handler has taken are all told of,    *)
(* and their codes are those of the exit.                                  *)
(***************************************************************************)
EXTENDS CliProofs, ScanDataProofs

-----------------------------------------------------------------------------
(* The errors of the output handler *)

IsHandler(told) ==
    {"errors", "shown", "settings"} \subseteq DOMAIN told /\ IsList(told.errors)

LEMMA HandleOne ==
    ASSUME NEW told, IsHandler(told), NEW error
    PROVE  /\ IsHandler(HandleError(told, error))
           /\ HandleError(told, error).settings = told.settings
           /\ ToSet(HandleError(told, error).errors) = ToSet(told.errors) \cup {error}
           /\ error.type = "SemgrepError" =>
                  /\ HandleError(told, error).errors # <<>>
                  /\ Last(HandleError(told, error).errors) = error
<1> DEFINE new == \/ error.type \in {"SemgrepError", "DependencyResolutionError"}
                  \/ error \notin ToSet(told.errors)
           after == HandleError(told, error)
           longer == IF new THEN Append(told.errors, error) ELSE told.errors
<1>1. /\ {"errors", "shown", "settings"} \subseteq DOMAIN after
      /\ after.errors = longer /\ after.settings = told.settings
  BY DEF HandleError, IsHandler
<1> HIDE DEF after
<1>2. /\ IsList(Append(told.errors, error))
      /\ ToSet(Append(told.errors, error)) = ToSet(told.errors) \cup {error}
      /\ Append(told.errors, error) # <<>> /\ Last(Append(told.errors, error)) = error
  BY ListAppend DEF IsHandler
<1>3. /\ IsList(longer) /\ ToSet(longer) = ToSet(told.errors) \cup {error}
      /\ error.type = "SemgrepError" => longer # <<>> /\ Last(longer) = error
  <2>1. CASE new
    BY <1>2, <2>1
  <2>2. CASE ~new
    BY <2>2 DEF IsHandler
  <2>3. QED
    BY <2>1, <2>2
<1>4. QED
  BY <1>1, <1>3 DEF after, IsHandler

\* g folds HandleError over the parts of the list s.
Folds(g, base, s, domain) ==
    g = [t \in SUBSET domain |-> IF t = {} THEN base
                                 ELSE HandleError(g[t \ {Max(t)}], s[Max(t)])]

\* There is such a fold.
LEMMA Iterates ==
    ASSUME NEW base, NEW s, NEW n \in Nat
    PROVE  \E g : Folds(g, base, s, 1..n)
<1> DEFINE Eq(g, k) == g = [t \in SUBSET (1..k) |->
                              IF t = {} THEN base
                              ELSE HandleError(g[t \ {Max(t)}], s[Max(t)])]
           K == {k \in 0..n : \E g : Eq(g, k)}
<1>1. 0 \in K
  <2> DEFINE g == [t \in SUBSET (1..0) |-> base]
  <2>1. Eq(g, 0)
    <3>1. \A t \in SUBSET (1..0) : t = {}
      OBVIOUS
    <3>2. QED
      BY <3>1, Zenon
  <2>2. \E f : Eq(f, 0)
    <3> HIDE DEF g
    <3>1. QED
      BY <2>1
  <2>3. QED
    <3> HIDE DEF Eq
    <3>1. QED
      BY <2>2
<1>2. ASSUME NEW i \in 0..n, i \in K, i < n
      PROVE  i + 1 \in K
  <2>1. PICK f : Eq(f, i)
    BY <1>2
  <2> DEFINE g == [t \in SUBSET (1..(i + 1)) |->
                      IF i + 1 \in t THEN HandleError(f[t \ {i + 1}], s[i + 1]) ELSE f[t]]
  <2>2. ASSUME NEW t \in SUBSET (1..(i + 1))
        PROVE  g[t] = IF t = {} THEN base ELSE HandleError(g[t \ {Max(t)}], s[Max(t)])
    <3>1. CASE t = {}
      <4>1. g[t] = f[t]
        BY <3>1
      <4>2. t \in SUBSET (1..i)
        BY <3>1
      <4>3. f[t] = base
        BY <2>1, <3>1, <4>2, Zenon
      <4>4. QED
        BY <3>1, <4>1, <4>3
    <3>2. CASE i + 1 \in t
      <4>1. Max(t) = i + 1
        <5>1. t \in SUBSET Int /\ \A y \in t : y <= i + 1
          OBVIOUS
        <5>2. QED
          BY <3>2, <5>1, MaxIs
      <4>2. g[t] = HandleError(f[t \ {i + 1}], s[i + 1])
        BY <3>2
      <4>3. t \ {i + 1} \in SUBSET (1..(i + 1)) /\ i + 1 \notin t \ {i + 1}
        OBVIOUS
      <4>4. g[t \ {i + 1}] = f[t \ {i + 1}]
        BY <4>3
      <4>5. QED
        BY <3>2, <4>1, <4>2, <4>4, Zenon
    <3>3. CASE t # {} /\ i + 1 \notin t
      <4>1. t \in SUBSET (1..i)
        BY <3>3
      <4>2. g[t] = f[t]
        BY <3>3
      <4>3. f[t] = HandleError(f[t \ {Max(t)}], s[Max(t)])
        BY <2>1, <3>3, <4>1, Zenon
      <4> DEFINE u == t \ {Max(t)}
      <4>4. u \in SUBSET (1..(i + 1)) /\ i + 1 \notin u
        BY <3>3
      <4>5. g[u] = f[u]
        <5> HIDE DEF u
        <5>1. QED
          BY <4>4
      <4>6. QED
        BY <3>3, <4>2, <4>3, <4>5, Zenon
    <3>4. QED
      BY <3>1, <3>2, <3>3
  <2>3. Eq(g, i + 1)
    <3> DEFINE h == [t \in SUBSET (1..(i + 1)) |->
                        IF t = {} THEN base ELSE HandleError(g[t \ {Max(t)}], s[Max(t)])]
    <3>1. g = [t \in SUBSET (1..(i + 1)) |-> g[t]]
      BY Zenon
    <3>2. h = [t \in SUBSET (1..(i + 1)) |-> g[t]]
      <4> HIDE DEF g
      <4>1. QED
        BY <2>2, Zenon
    <3>3. QED
      BY <3>1, <3>2, Zenon
  <2>4. i + 1 \in 0..n
    BY <1>2
  <2>5. QED
    BY <2>3, <2>4, Zenon
<1>3. n \in K
  <2> HIDE DEF K
  <2>1. 0..n \subseteq K
    BY <1>1, <1>2, CountingUp
  <2>2. QED
    BY <2>1
<1>4. QED
  BY <1>3, Zenon DEF Folds

\* The handler has each error that it is given, and those it had.
LEMMA HandleAll ==
    ASSUME NEW told, IsHandler(told), NEW errors, IsList(errors)
    PROVE  LET after == HandleSemgrepErrors(told, errors)
           IN /\ IsHandler(after) /\ after.settings = told.settings
              /\ ToSet(after.errors) = ToSet(told.errors) \cup ToSet(errors)
              /\ errors # <<>> /\ Last(errors).type = "SemgrepError" =>
                     after.errors # <<>> /\ Last(after.errors) = Last(errors)
<1> DEFINE n == Len(errors)
           Eq(g) == g = [t \in SUBSET DOMAIN errors |->
                            IF t = {} THEN told
                            ELSE HandleError(g[t \ {Max(t)}], errors[Max(t)])]
           iter == CHOOSE g : Eq(g)
<1>1. n \in Nat /\ DOMAIN errors = 1..n
  BY ListDomain
<1>2. \E g : Eq(g)
  <2>1. \E g : Folds(g, told, errors, 1..n)
    <3> HIDE DEF n
    <3>1. QED
      BY <1>1, Iterates
  <2>2. \E g : Folds(g, told, errors, DOMAIN errors)
    BY <1>1, <2>1
  <2>3. QED
    BY <2>2, Zenon DEF Folds
<1>3. Eq(iter)
  BY <1>2, Zenon
<1>4. HandleSemgrepErrors(told, errors) = iter[DOMAIN errors]
  BY Zenon DEF HandleSemgrepErrors, FoldLeft, MapThenFoldSet
<1> HIDE DEF iter
<1>5. iter[1..0] = told
  <2>1. 1..0 = {} /\ {} \in SUBSET DOMAIN errors
    OBVIOUS
  <2>2. iter[{}] = told
    BY <1>3, <2>1, Zenon
  <2>3. QED
    BY <2>1, <2>2
<1>6. ASSUME NEW k \in 0..n, k < n
      PROVE  k + 1 \in 1..n /\ iter[1..(k + 1)] = HandleError(iter[1..k], errors[k + 1])
  <2> DEFINE t == 1..(k + 1)
  <2>1. k + 1 \in 1..n /\ t # {} /\ t \in SUBSET DOMAIN errors /\ t \ {k + 1} = 1..k
    <3> HIDE DEF n
    <3>1. QED
      BY <1>1, <1>6
  <2>2. Max(t) = k + 1
    <3>1. t \in SUBSET Int /\ k + 1 \in t /\ \A y \in t : y <= k + 1
      OBVIOUS
    <3>2. QED
      <4> HIDE DEF t
      <4>1. QED
        BY <3>1, MaxIs
  <2>3. iter[t] = HandleError(iter[t \ {Max(t)}], errors[Max(t)])
    BY <1>3, <2>1, Zenon
  <2>4. QED
    BY <2>1, <2>2, <2>3, Zenon
<1> DEFINE Done(after, k) ==
               /\ IsHandler(after) /\ after.settings = told.settings
               /\ ToSet(after.errors) = ToSet(told.errors) \cup {errors[i] : i \in 1..k}
           M == {k \in 0..n : Done(iter[1..k], k)}
<1>7. 0 \in M
  <2>1. Done(told, 0)
    OBVIOUS
  <2>2. 0 \in 0..n
    <3> HIDE DEF n
    <3>1. QED
      BY <1>1
  <2> HIDE DEF Done
  <2>3. QED
    BY <1>5, <2>1, <2>2
<1>8. ASSUME NEW k \in 0..n, k \in M, k < n
      PROVE  k + 1 \in M
  <2> DEFINE before == iter[1..k]
             after  == HandleError(before, errors[k + 1])
  <2>1. Done(before, k)
    BY <1>8
  <2> HIDE DEF before
  <2>2. /\ IsHandler(after) /\ after.settings = before.settings
        /\ ToSet(after.errors) = ToSet(before.errors) \cup {errors[k + 1]}
    BY <2>1, HandleOne
  <2> HIDE DEF after
  <2>3. {errors[i] : i \in 1..(k + 1)} = {errors[i] : i \in 1..k} \cup {errors[k + 1]}
    <3>1. /\ \A i \in 1..(k + 1) : i \in 1..k \/ i = k + 1
          /\ \A i \in 1..k : i \in 1..(k + 1)
          /\ k + 1 \in 1..(k + 1)
      OBVIOUS
    <3>2. QED
      BY <3>1, Zenon
  <2>4. Done(after, k + 1)
    BY <2>1, <2>2, <2>3, Zenon
  <2> HIDE DEF Done
  <2>5. k + 1 \in 0..n /\ iter[1..(k + 1)] = after
    <3> HIDE DEF n
    <3>1. QED
      BY <1>1, <1>6, <1>8 DEF before, after
  <2>6. QED
    BY <2>4, <2>5
<1>9. Done(iter[1..n], n)
  <2>1. 0..n \subseteq M
    <3> HIDE DEF M, n
    <3>1. QED
      BY <1>1, <1>7, <1>8, CountingUp
  <2>2. n \in 0..n
    <3> HIDE DEF n
    <3>1. QED
      BY <1>1
  <2> HIDE DEF Done
  <2>3. QED
    BY <2>1, <2>2
<1>10. {errors[i] : i \in 1..n} = ToSet(errors)
  BY <1>1 DEF ToSet
<1>11. ASSUME errors # <<>>, Last(errors).type = "SemgrepError"
       PROVE  iter[1..n].errors # <<>> /\ Last(iter[1..n].errors) = Last(errors)
  <2> DEFINE k == n - 1
             before == iter[1..k]
  <2>1. n # 0
    BY <1>11, EmptySeq DEF IsList
  <2>2. k \in 0..n /\ k < n /\ k + 1 = n /\ n \in 0..n
    <3> HIDE DEF n
    <3>1. QED
      BY <1>1, <2>1
  <2>3. iter[1..n] = HandleError(before, errors[n])
    <3> HIDE DEF k, n
    <3>1. iter[1..(k + 1)] = HandleError(iter[1..k], errors[k + 1])
      BY <1>6, <2>2
    <3>2. QED
      BY <2>2, <3>1
  <2>4. IsHandler(before)
    <3>1. 0..n \subseteq M
      <4> HIDE DEF M, n
      <4>1. QED
        BY <1>1, <1>7, <1>8, CountingUp
    <3>2. QED
      BY <2>2, <3>1
  <2>5. errors[n] = Last(errors)
    BY DEF Last
  <2>6. QED
    <3> DEFINE e == errors[n]
    <3>1. e.type = "SemgrepError"
      BY <1>11, <2>5
    <3> HIDE DEF before, e
    <3>2. HandleError(before, e).errors # <<>> /\ Last(HandleError(before, e).errors) = e
      BY <2>4, <3>1, HandleOne
    <3>3. QED
      BY <2>3, <2>5, <3>2 DEF e
<1>12. QED
  BY <1>1, <1>4, <1>9, <1>10, <1>11

-----------------------------------------------------------------------------
(* The errors of the configs *)

AreErrors(list) == IsList(list) /\ \A error \in ToSet(list) : IsError(error)

LEMMA ErrorsConcat ==
    ASSUME NEW s, NEW t, AreErrors(s), AreErrors(t)
    PROVE  AreErrors(s \o t)
BY ListConcat DEF AreErrors

LEMMA NoErrors == AreErrors(<<>>)
BY EmptyList DEF AreErrors

LEMMA OneError ==
    ASSUME NEW error, IsError(error)
    PROVE  AreErrors(<<error>>)
BY ListOfOne DEF AreErrors

LEMMA FlatErrors ==
    ASSUME NEW n \in Nat, NEW s, s = [i \in 1..n |-> s[i]],
           \A i \in 1..n : AreErrors(s[i])
    PROVE  AreErrors(FlattenSeq(s))
<1> DEFINE P == UNION {ToSet(s[i]) : i \in 1..n}
<1>1. ASSUME NEW i \in 1..n
      PROVE  s[i] \in Seq(P)
  <2>1. s[i] \in Seq(ToSet(s[i])) /\ ToSet(s[i]) \subseteq P
    BY DEF AreErrors, IsList
  <2> HIDE DEF P
  <2>2. QED
    BY <2>1, SeqMonotonic
<1>2. \A error \in P : IsError(error)
  BY DEF AreErrors
<1> HIDE DEF P
<1>3. FlattenSeq(s) \in Seq(P)
  BY <1>1, FlatList
<1>4. IsList(FlattenSeq(s)) /\ ToSet(FlattenSeq(s)) \subseteq P
  BY <1>3, ListIn
<1>5. QED
  BY <1>2, <1>4 DEF AreErrors

\* What reading a config can end with.
IsStatus(ending) == ending.raised => ending.code \in ErrorCodes \ {Ok}

LEMMA SchemaErrors ==
    ASSUME NEW code \in ErrorCodes \ {Ok}
    PROVE  AreErrors(<<SchemaError(code)>>)
<1>1. IsError(SchemaError(code))
  BY DEF IsError, SchemaError
<1>2. QED
  BY <1>1, OneError

LEMMA Codes ==
    /\ {2, 4, 5, 7, 13} \subseteq ErrorCodes \ {Ok}
    /\ Fatal \in ErrorCodes \ {Ok} /\ UnparseableYaml \in ErrorCodes \ {Ok}
    /\ MissingConfig \in ErrorCodes \ {Ok} /\ InvalidApiKey \in ErrorCodes \ {Ok}
    /\ Ok \in ErrorCodes /\ Findings \notin ErrorCodes /\ ErrorCodes \subseteq 0..14
    /\ Fatal = 2 /\ Ok = 0
BY DEF ErrorCodes, Ok, Findings, Fatal, TargetParseFailure, RuleParseFailure, UnparseableYaml,
       MissingConfig, InvalidApiKey

LEMMA LoadedConfig ==
    ASSUME NEW config, IsList(config.files)
    PROVE  IsList(LoadConfig(config).files) /\ IsStatus(LoadConfig(config).status)
<1> DEFINE Good(result) == IsList(result.files) /\ IsStatus(result.status)
<1>1. ASSUME NEW code \in {2, 13}
      PROVE  Good([status |-> Raised(code), files |-> <<>>])
  BY Codes, EmptyList DEF IsStatus, Raised
<1>2. Good([status |-> ConfigOk, files |-> config.files])
  BY DEF IsStatus, ConfigOk
<1> HIDE DEF Good
<1>3. \A address : Good(DownloadFromUrl(config, address))
  BY <1>1, <1>2 DEF DownloadFromUrl
<1>4. Good(DownloadScanConfig(config))
  BY <1>1, <1>2 DEF DownloadScanConfig
<1>5. Good(DownloadFallback(config))
  BY <1>1, <1>3 DEF DownloadFallback
<1>6. Good(FetchScanConfig(config))
  BY <1>1, <1>4, <1>5 DEF FetchScanConfig
<1>7. Good(LoadFromLocalPath(config))
  BY <1>1, <1>2 DEF LoadFromLocalPath
<1>8. Good(LoadConfig(config))
  BY <1>3, <1>6, <1>7 DEF LoadConfig
<1>9. QED
  BY <1>8 DEF Good

\* What is made of a config: its trees and its errors.
IsParsed(parsed) ==
    IsList(parsed.trees) /\ AreErrors(parsed.errors) /\ IsStatus(parsed.status)

LEMMA ParsedString ==
    ASSUME NEW file, NEW forceSchema
    PROVE  IsParsed(ParseConfigString(file, forceSchema))
<1> DEFINE parsed  == ParseYaml(file)
           checked == ValidateYaml(file, forceSchema)
           ending  == IF parsed.raised THEN parsed ELSE checked
           all     == ParseConfigString(file, forceSchema)
           tree    == [id |-> ConfigId(file), mapping |-> file.mapping,
                       hasRules |-> file.hasRules, missed |-> file.missed,
                       rules |-> RemoveIncompatibleRules(file.rules)]
<1>1. IsStatus(parsed)
  BY Codes DEF ParseYaml, IsStatus, Raised, ConfigOk
<1>2. IsStatus(checked)
  BY Codes DEF ValidateYaml, IsStatus, Raised, ConfigOk
<1>3. AreErrors(IncompatibleErrors(file.rules))
  <2> DEFINE info == [type |-> "IncompatibleRule", level |-> "info", path |-> NoPath,
                      code |-> Ok, rule |-> NoRule]
  <2>1. IsError(info)
    BY Codes DEF IsError
  <2> HIDE DEF info
  <2>2. AreErrors(<<info>>)
    BY <2>1, OneError
  <2>3. IncompatibleErrors(file.rules) \in {<<>>, <<info>>}
    BY DEF IncompatibleErrors, info
  <2>4. QED
    BY <2>2, <2>3, NoErrors
<1>4. /\ all.status = ending
      /\ all.trees = IF ending.raised THEN <<>> ELSE <<tree>>
      /\ all.errors = IF ending.raised THEN <<>> ELSE IncompatibleErrors(file.rules)
  BY DEF ParseConfigString
<1> HIDE DEF parsed, checked, all, tree
<1>5. QED
  BY <1>1, <1>2, <1>3, <1>4, EmptyList, ListOfOne, NoErrors DEF IsParsed, all

LEMMA ParsedFiles ==
    ASSUME NEW files, IsList(files), NEW forceSchema
    PROVE  IsParsed(ParseConfigFiles(files, forceSchema))
<1> DEFINE n == Len(files)
           parsed  == [i \in DOMAIN files |-> ParseConfigString(files[i], forceSchema)]
           refused == {i \in DOMAIN files : parsed[i].status.raised}
           trees   == [i \in DOMAIN files |-> parsed[i].trees]
           errors  == [i \in DOMAIN files |-> parsed[i].errors]
           all     == ParseConfigFiles(files, forceSchema)
<1>1. n \in Nat /\ DOMAIN files = 1..n
  BY ListDomain
<1>2. \A i \in 1..n : IsParsed(parsed[i])
  BY <1>1, ParsedString
<1>3. all = IF refused # {}
            THEN [status |-> parsed[Min(refused)].status, trees |-> <<>>, errors |-> <<>>]
            ELSE [status |-> ConfigOk, trees |-> FlattenSeq(trees),
                  errors |-> FlattenSeq(errors)]
  BY Zenon DEF ParseConfigFiles
<1> HIDE DEF all
<1>4. refused # {} => Min(refused) \in 1..n
  <2> SUFFICES ASSUME refused # {}
               PROVE  Min(refused) \in 1..n
    OBVIOUS
  <2>1. refused \in SUBSET Nat /\ refused \subseteq 1..n
    <3> HIDE DEF parsed, n
    <3>1. QED
      BY <1>1
  <2> HIDE DEF refused, n
  <2>2. \E i \in refused : \A j \in refused : i <= j
    BY <2>1, LeastElement
  <2>3. Min(refused) \in refused
    BY <2>2, Zenon DEF Min
  <2>4. QED
    BY <2>1, <2>3
<1>5. IsList(FlattenSeq(trees))
  <2>1. trees = [i \in 1..n |-> trees[i]]
    BY <1>1
  <2>2. \A i \in 1..n : IsList(trees[i])
    BY <1>1, <1>2 DEF IsParsed
  <2> HIDE DEF trees, n
  <2>3. QED
    BY <1>1, <2>1, <2>2, FlatLists
<1>6. AreErrors(FlattenSeq(errors))
  <2>1. errors = [i \in 1..n |-> errors[i]]
    BY <1>1
  <2>2. \A i \in 1..n : AreErrors(errors[i])
    BY <1>1, <1>2 DEF IsParsed
  <2> HIDE DEF errors, n
  <2>3. QED
    BY <1>1, <2>1, <2>2, FlatErrors
<1>7. CASE refused # {}
  <2>1. /\ all.status = parsed[Min(refused)].status /\ all.trees = <<>>
        /\ all.errors = <<>>
    BY <1>3, <1>7
  <2>2. IsStatus(parsed[Min(refused)].status)
    <3> HIDE DEF parsed, refused, n
    <3>1. QED
      BY <1>2, <1>4, <1>7 DEF IsParsed
  <2>3. QED
    BY <2>1, <2>2, EmptyList, NoErrors DEF IsParsed, all
<1>8. CASE refused = {}
  <2> HIDE DEF trees, errors, refused
  <2>1. /\ all.status = ConfigOk /\ all.trees = FlattenSeq(trees)
        /\ all.errors = FlattenSeq(errors)
    BY <1>3, <1>8
  <2>2. QED
    BY <1>5, <1>6, <2>1 DEF IsParsed, IsStatus, ConfigOk, all
<1>9. QED
  BY <1>7, <1>8

LEMMA ResolvedConfig ==
    ASSUME NEW config, IsList(config.files), NEW forceSchema
    PROVE  IsParsed(ResolveConfig(config, forceSchema))
<1> DEFINE loaded == LoadConfig(config)
           all    == ResolveConfig(config, forceSchema)
<1>1. IsList(loaded.files) /\ IsStatus(loaded.status)
  BY LoadedConfig
<1>2. all = IF loaded.status.raised
            THEN [status |-> loaded.status, trees |-> <<>>, errors |-> <<>>]
            ELSE ParseConfigFiles(loaded.files, forceSchema)
  BY Zenon DEF ResolveConfig
<1> HIDE DEF all, loaded
<1>3. IsParsed(ParseConfigFiles(loaded.files, forceSchema))
  BY <1>1, ParsedFiles
<1>4. QED
  BY <1>1, <1>2, <1>3, EmptyList, NoErrors DEF IsParsed, all

LEMMA ValidatedTrees ==
    ASSUME NEW trees, IsList(trees)
    PROVE  AreErrors(Validate(trees).errors)
<1> DEFINE n == Len(trees)
           errors == [i \in DOMAIN trees |-> TreeErrors(trees[i])]
<1>1. n \in Nat /\ DOMAIN trees = 1..n
  BY ListDomain
<1>2. \A tree : AreErrors(TreeErrors(tree))
  BY SchemaErrors, NoErrors, Codes DEF TreeErrors
<1>3. errors = [i \in 1..n |-> errors[i]] /\ \A i \in 1..n : AreErrors(errors[i])
  BY <1>1, <1>2
<1>4. Validate(trees).errors = FlattenSeq(errors)
  BY DEF Validate
<1> HIDE DEF errors, n
<1>5. QED
  BY <1>1, <1>3, <1>4, FlatErrors

LEMMA ListedConfigs ==
    ASSUME NEW configs, AreConfigs(configs), NEW forceSchema
    PROVE  AreErrors(FromConfigList(configs, forceSchema).errors)
<1> DEFINE n == Len(configs)
           resolved == [i \in DOMAIN configs |-> ResolveConfig(configs[i], forceSchema)]
           trees == [i \in DOMAIN configs |-> resolved[i].trees]
           errors == [i \in DOMAIN configs |->
                         IF resolved[i].status.raised
                         THEN <<SchemaError(resolved[i].status.code)>>
                         ELSE resolved[i].errors]
<1>1. n \in Nat /\ DOMAIN configs = 1..n
  BY ListDomain DEF AreConfigs
<1>2. \A i \in 1..n : IsParsed(resolved[i])
  BY <1>1, ResolvedConfig DEF AreConfigs, AreFiles
<1>3. FromConfigList(configs, forceSchema).errors
        = FlattenSeq(errors) \o Validate(FlattenSeq(trees)).errors
  BY DEF FromConfigList
<1>4. IsList(FlattenSeq(trees))
  <2>1. trees = [i \in 1..n |-> trees[i]] /\ \A i \in 1..n : IsList(trees[i])
    BY <1>1, <1>2 DEF IsParsed
  <2> HIDE DEF trees, n
  <2>2. QED
    BY <1>1, <2>1, FlatLists
<1>5. AreErrors(FlattenSeq(errors))
  <2>1. \A i \in 1..n : AreErrors(IF resolved[i].status.raised
                                  THEN <<SchemaError(resolved[i].status.code)>>
                                  ELSE resolved[i].errors)
    <3> HIDE DEF resolved
    <3>1. QED
      BY <1>2, SchemaErrors DEF IsParsed, IsStatus
  <2>2. errors = [i \in 1..n |-> errors[i]] /\ \A i \in 1..n : AreErrors(errors[i])
    <3> HIDE DEF resolved
    <3>1. QED
      BY <1>1, <2>1
  <2> HIDE DEF errors, n
  <2>3. QED
    BY <1>1, <2>2, FlatErrors
<1>6. AreErrors(Validate(FlattenSeq(trees)).errors)
  <2> HIDE DEF trees
  <2>1. QED
    BY <1>4, ValidatedTrees
<1> HIDE DEF trees, errors
<1>7. QED
  BY <1>3, <1>5, <1>6, ErrorsConcat

LEMMA ConfigFromYaml ==
    ASSUME NEW file, NEW forceSchema
    PROVE  AreErrors(FromRulesYaml(file, forceSchema).errors)
<1> DEFINE parsed == ParseConfigString(file, forceSchema)
           named(tree) == [tree EXCEPT !.id = [folder |-> <<>>, name |-> "semgrep-app-rules"]]
           trees == [i \in DOMAIN parsed.trees |-> named(parsed.trees[i])]
           errors == IF parsed.status.raised THEN <<SchemaError(parsed.status.code)>>
                     ELSE parsed.errors
<1>1. IsParsed(parsed)
  BY ParsedString
<1>2. FromRulesYaml(file, forceSchema).errors = errors \o Validate(trees).errors
  BY DEF FromRulesYaml
<1> HIDE DEF parsed
<1>3. AreErrors(errors)
  BY <1>1, SchemaErrors DEF IsParsed, IsStatus
<1>4. IsList(trees)
  <2>1. Len(parsed.trees) \in Nat /\ DOMAIN parsed.trees = 1..Len(parsed.trees)
    BY <1>1, ListDomain DEF IsParsed
  <2>2. trees = [i \in 1..Len(parsed.trees) |-> trees[i]]
    <3> HIDE DEF named
    <3>1. QED
      BY <2>1
  <2> HIDE DEF trees
  <2>3. QED
    BY <2>1, <2>2, ListByDomain
<1> HIDE DEF trees, errors
<1>5. QED
  BY <1>2, <1>3, <1>4, ValidatedTrees, ErrorsConcat

\* What reading the configs complains of.
LEMMA ConfigErrors ==
    ASSUME NEW asked, AreConfigs(asked.configs)
    PROVE  AreErrors(ConfigOf(asked).errors)
<1>1. AreErrors(Validate(<<ManualConfig(asked.pattern[1])>>).errors)
  <2> DEFINE tree == ManualConfig(asked.pattern[1])
  <2> HIDE DEF tree
  <2>1. AreErrors(Validate(<<tree>>).errors)
    BY ListOfOne, ValidatedTrees
  <2>2. QED
    BY <2>1 DEF tree
<1>2. CASE asked.pattern # <<>>
  BY <1>1, <1>2 DEF ConfigOf
<1>3. CASE asked.pattern = <<>> /\ asked.text # <<>>
  <2>1. ConfigOf(asked) = FromRulesYaml(asked.text[1], asked.forceSchema)
    BY <1>3 DEF ConfigOf
  <2>2. QED
    BY <2>1, ConfigFromYaml
<1>4. CASE asked.pattern = <<>> /\ ~(asked.text # <<>>)
  <2>1. ConfigOf(asked) = FromConfigList(asked.configs, asked.forceSchema)
    BY <1>4 DEF ConfigOf
  <2>2. QED
    BY <2>1, ListedConfigs
<1>5. QED
  BY <1>2, <1>3, <1>4

-----------------------------------------------------------------------------
(* The errors of the other steps *)

\* One error for each element of a finite set.
LEMMA ErrorsOf ==
    ASSUME NEW S, IsFiniteSet(S), NEW f, DOMAIN f = S, \A x \in S : IsError(f[x])
    PROVE  /\ AreErrors(SetToSeq({f[x] : x \in S}))
           /\ ToSet(SetToSeq({f[x] : x \in S})) = {f[x] : x \in S}
<1> DEFINE T == {f[x] : x \in S}
<1>1. IsFiniteSet(T) /\ \A error \in T : IsError(error)
  BY FiniteRange
<1> HIDE DEF T
<1>2. IsList(SetToSeq(T)) /\ ToSet(SetToSeq(T)) = T
  BY <1>1, SetAsList
<1>3. AreErrors(SetToSeq(T)) /\ ToSet(SetToSeq(T)) = T
  BY <1>1, <1>2 DEF AreErrors
<1>4. QED
  BY <1>3 DEF T

LEMMA FailureIsError == \A code \in ErrorCodes \ {Ok} : IsError(SemgrepErrorOf(code))
BY DEF IsError, SemgrepErrorOf

LEMMA TimeoutIsError ==
    ASSUME NEW path
    PROVE  /\ IsError(TimeoutOf(path)) /\ TimeoutOf(path).type = "Timeout"
           /\ TimeoutOf(path).path = path
BY Codes DEF IsError, TimeoutOf, CoreErrorToSemgrepError

LEMMA TimeoutErrorsAre ==
    ASSUME NEW lost, IsFiniteSet(lost)
    PROVE  /\ AreErrors(TimeoutErrors(lost))
           /\ ToSet(TimeoutErrors(lost)) = {TimeoutOf(path) : path \in lost}
<1> DEFINE f == [path \in lost |-> TimeoutOf(path)]
<1>1. DOMAIN f = lost /\ \A path \in lost : IsError(f[path])
  BY TimeoutIsError
<1>2. {f[path] : path \in lost} = {TimeoutOf(path) : path \in lost}
  OBVIOUS
<1> HIDE DEF f
<1>3. /\ AreErrors(SetToSeq({f[path] : path \in lost}))
      /\ ToSet(SetToSeq({f[path] : path \in lost})) = {f[path] : path \in lost}
  BY <1>1, ErrorsOf
<1>4. QED
  BY <1>2, <1>3 DEF TimeoutErrors

LEMMA JoinErrorsAre == AreErrors(JoinErrors)
<1>1. AreErrors(<<SemgrepErrorOf(Fatal)>>)
  BY FailureIsError, Codes, OneError
<1>2. QED
  BY <1>1, NoErrors DEF JoinErrors

LEMMA MetacheckErrorsAre ==
    ASSUME AreErrors(invocation.metacheck)
    PROVE  AreErrors(MetacheckErrors)
<1> DEFINE errors == invocation.metacheck
           key(i) == <<errors[i].code, errors[i].path, errors[i].type>>
           I == {k \in DOMAIN errors : \A j \in DOMAIN errors : j > k => key(j) # key(k)}
           f == [i \in I |-> errors[i]]
<1>1. IsFiniteSet(DOMAIN errors)
  <2>1. Len(errors) \in Nat /\ DOMAIN errors = 1..Len(errors)
    BY ListDomain DEF AreErrors
  <2>2. 1 \in Int /\ Len(errors) \in Int
    BY <2>1
  <2> HIDE DEF errors
  <2>3. QED
    BY <2>1, <2>2, FS_Interval
<1>2. IsFiniteSet(I)
  <2>1. I \in SUBSET DOMAIN errors
    OBVIOUS
  <2> HIDE DEF I, errors
  <2>2. QED
    BY <1>1, <2>1, FS_Subset
<1>3. DOMAIN f = I /\ \A i \in I : IsError(f[i])
  BY DEF AreErrors, ToSet
<1>4. DedupErrors(errors) = SetToSeq({errors[i] : i \in I})
  BY Zenon DEF DedupErrors
<1>5. {f[i] : i \in I} = {errors[i] : i \in I}
  <2> HIDE DEF I, errors
  <2>1. QED
    OBVIOUS
<1>6. AreErrors(DedupErrors(errors))
  <2> HIDE DEF f, I, errors
  <2>1. QED
    BY <1>2, <1>3, <1>4, <1>5, ErrorsOf
<1>7. AreErrors(<<SemgrepErrorOf(Fatal)>>)
  BY FailureIsError, Codes, OneError
<1>8. QED
  BY <1>6, <1>7 DEF MetacheckErrors

\* The errors that the answers about dependencies may have.
ErrorsAbout(answers) == UNION {answers[file].errors : file \in DOMAIN answers}

LEMMA AnswersAreFinite ==
    ASSUME NEW answers, IsFiniteSet(DOMAIN answers),
           \A file \in DOMAIN answers : IsFiniteSet(answers[file].errors)
    PROVE  IsFiniteSet(ErrorsAbout(answers))
<1> DEFINE f == [file \in DOMAIN answers |-> answers[file].errors]
           S == {f[file] : file \in DOMAIN answers}
<1>1. IsFiniteSet(S)
  <2> DEFINE D == DOMAIN answers
  <2>1. DOMAIN f = D /\ IsFiniteSet(D)
    OBVIOUS
  <2> HIDE DEF f, D
  <2>2. IsFiniteSet({f[file] : file \in D})
    BY <2>1, FiniteRange
  <2>3. QED
    BY <2>2 DEF D
<1>2. \A T \in S : IsFiniteSet(T)
  OBVIOUS
<1>3. UNION S = ErrorsAbout(answers)
  BY DEF ErrorsAbout
<1> HIDE DEF S
<1>4. QED
  BY <1>1, <1>2, <1>3, FS_UNION

LEMMA ResolvedErrors ==
    ASSUME NEW answers, NEW source, NEW dynamic, NEW graph
    PROVE  ResolveDependencySource(answers, source, dynamic, graph).errors
               \subseteq ErrorsAbout(answers)
<1> DEFINE All == ErrorsAbout(answers)
<1>1. \A file : AnswerAbout(answers, file).errors \subseteq All
  BY DEF AnswerAbout, ErrorsAbout
<1> HIDE DEF All
<1>2. \A s : ResolveDynamically(answers, s).errors \subseteq All
  BY <1>1 DEF ResolveDynamically, ResolvedBy, Unresolved
<1>3. \A s, d, g : HandleLockfileSource(answers, s, d, g).errors \subseteq All
  BY <1>1, <1>2 DEF HandleLockfileSource, ResolvedBy, Unresolved
<1>4. HandleMultiSource(answers, source).errors \subseteq All
  <2> DEFINE all == {HandleLockfileSource(answers, s, TRUE, FALSE) : s \in source.sources}
  <2>1. \A r \in all : r.errors \subseteq All
    BY <1>3, Zenon
  <2>2. HandleMultiSource(answers, source).errors = UNION {r.errors : r \in all}
    BY DEF HandleMultiSource, Unresolved
  <2> HIDE DEF all
  <2>3. QED
    BY <2>1, <2>2
<1>5. ResolveDependencySource(answers, source, dynamic, graph).errors \subseteq All
  BY <1>2, <1>3, <1>4 DEF ResolveDependencySource, Unresolved
<1>6. QED
  BY <1>5 DEF All

\* What a request for run_scan has, whatever the commands made of it.
LEMMA SubprojectErrors ==
    ASSUME IsRequest(request)
    PROVE  IsFiniteSet(UNION {s.errors : s \in CurrentSubprojects})
<1> DEFINE S == UNION {s.errors : s \in CurrentSubprojects}
<1>1. IsFiniteSet(ErrorsAbout(request.answers))
  BY AnswersAreFinite DEF IsRequest
<1>2. \A s \in CurrentSubprojects : s.errors \subseteq ErrorsAbout(request.answers)
  <2> TAKE s \in CurrentSubprojects
  <2>1. PICK files, order : s \in ResolveSubprojects(request.answers, files, order,
                                                    request.dynamic, request.graph)
    BY Zenon DEF CurrentSubprojects
  <2>2. PICK source : s.errors = ResolveDependencySource(request.answers, source,
                                     request.dynamic, request.graph).errors
    BY <2>1 DEF ResolveSubprojects
  <2>3. QED
    BY <2>2, ResolvedErrors
<1>3. S \in SUBSET ErrorsAbout(request.answers)
  BY <1>2
<1> HIDE DEF S
<1>4. IsFiniteSet(S)
  BY <1>1, <1>3, FS_Subset
<1>5. QED
  BY <1>4 DEF S

LEMMA HandlerGrows ==
    ASSUME NEW told, IsHandler(told), AreErrors(told.errors), NEW errors, AreErrors(errors)
    PROVE  LET after == HandleSemgrepErrors(told, errors)
           IN /\ IsHandler(after) /\ AreErrors(after.errors)
              /\ after.settings = told.settings
              /\ ToSet(after.errors) = ToSet(told.errors) \cup ToSet(errors)
<1> DEFINE after == HandleSemgrepErrors(told, errors)
<1>1. /\ IsHandler(after) /\ after.settings = told.settings
      /\ ToSet(after.errors) = ToSet(told.errors) \cup ToSet(errors)
  BY HandleAll DEF AreErrors
<1> HIDE DEF after
<1>2. AreErrors(after.errors)
  BY <1>1 DEF AreErrors, IsHandler
<1>3. QED
  BY <1>1, <1>2 DEF after

LEMMA HandlerStarts ==
    ASSUME NEW settings
    PROVE  IsHandler(NewHandler(settings)) /\ AreErrors(NewHandler(settings).errors)
BY NoErrors DEF NewHandler, IsHandler, AreErrors

\* The errors of resolution are told of.
LEMMA ResolutionIsTold ==
    ASSUME IsRequest(request), folder \in {"head", "worktree"},
           IsHandler(handler), AreErrors(handler.errors),
           handler' = HandleSemgrepErrors(handler,
                          SetToSeq(Range(ResolutionErrors(CurrentSubprojects))))
    PROVE  /\ IsHandler(handler') /\ AreErrors(handler'.errors)
           /\ handler'.settings = handler.settings
           /\ ToSet(handler.errors) \subseteq ToSet(handler'.errors)
<1> DEFINE S == UNION {s.errors : s \in CurrentSubprojects}
           told == [path \in S |-> DependencyResolutionError(path)]
           errors == SetToSeq({told[path] : path \in S})
           after == HandleSemgrepErrors(handler, errors)
<1>1. AreErrors(errors)
  <2>1. IsFiniteSet(S)
    BY SubprojectErrors
  <2>2. DOMAIN told = S /\ \A path \in S : IsError(told[path])
    BY Codes DEF IsError, DependencyResolutionError
  <2> HIDE DEF S, told
  <2>3. QED
    BY <2>1, <2>2, ErrorsOf
<1>2. ResolutionErrors(CurrentSubprojects) = told
  BY DEF ResolutionErrors
<1>3. Range(told) = {told[path] : path \in S}
  BY DEF Range
<1>4. handler' = after
  <2> HIDE DEF told, S
  <2>1. QED
    BY <1>2, <1>3
<1> HIDE DEF errors
<1>5. /\ IsHandler(after) /\ AreErrors(after.errors)
      /\ after.settings = handler.settings
      /\ ToSet(after.errors) = ToSet(handler.errors) \cup ToSet(errors)
  BY <1>1, HandlerGrows
<1> HIDE DEF after
<1>6. QED
  BY <1>4, <1>5

\* What run_rules does with the subprojects of the folder.
LEMMA RulesAreRun ==
    ASSUME IsRequest(request), folder \in {"head", "worktree"},
           IsHandler(handler), AreErrors(handler.errors),
           PrepareRules(CurrentSubprojects)
    PROVE  /\ IsHandler(handler') /\ AreErrors(handler'.errors)
           /\ handler'.settings = handler.settings
           /\ ToSet(handler.errors) \subseteq ToSet(handler'.errors)
           /\ IsFiniteSet(AllTargets([tasks |-> job'.plan]))
<1> DEFINE sent == SentRules(CurrentSubprojects)
           tree == request.tree[folder]
           plan == PlanCoreRun(tree, PlanManager, sent, "code")
<1>1. /\ handler' = HandleSemgrepErrors(handler,
                        SetToSeq(Range(ResolutionErrors(CurrentSubprojects))))
      /\ job'.plan = plan.tasks
  BY DEF PrepareRules, RunRules
<1>2. /\ IsHandler(handler') /\ AreErrors(handler'.errors)
      /\ handler'.settings = handler.settings
      /\ ToSet(handler.errors) \subseteq ToSet(handler'.errors)
  BY <1>1, ResolutionIsTold
<1>3. IsFiniteSet(tree.files)
  BY DEF IsRequest
<1>4. AllTargets([tasks |-> plan.tasks]) \in SUBSET tree.files
  <2> HIDE DEF tree, sent
  <2>1. \A t \in plan.tasks : t.path \in tree.files
    BY DEF PlanCoreRun
  <2> HIDE DEF plan
  <2>2. QED
    BY <2>1 DEF AllTargets
<1>5. IsFiniteSet(AllTargets([tasks |-> job'.plan]))
  <2> HIDE DEF plan, tree
  <2>1. QED
    BY <1>1, <1>3, <1>4, FS_Subset
<1>6. QED
  BY <1>2, <1>5

\* What the end of a run of the engine tells of.
LEMMA LostAreTold ==
    ASSUME IsHandler(handler), AreErrors(handler.errors),
           IsFiniteSet(AllTargets([tasks |-> job.plan])),
           NEW lost \in LostFiles,
           handler' = HandleSemgrepErrors(handler, JoinErrors \o TimeoutErrors(lost))
    PROVE  /\ IsHandler(handler') /\ AreErrors(handler'.errors)
           /\ handler'.settings = handler.settings
           /\ ToSet(handler.errors) \subseteq ToSet(handler'.errors)
           /\ \A path \in lost : TimeoutOf(path) \in ToSet(handler'.errors)
<1> DEFINE T == AllTargets([tasks |-> job.plan])
           errors == JoinErrors \o TimeoutErrors(lost)
<1>1. lost \in SUBSET T
  BY DEF LostFiles, kSubset
<1>2. IsFiniteSet(lost)
  <2> HIDE DEF T
  <2>1. IsFiniteSet(T)
    BY DEF T
  <2>2. QED
    BY <1>1, <2>1, FS_Subset
<1>3. /\ AreErrors(TimeoutErrors(lost))
      /\ ToSet(TimeoutErrors(lost)) = {TimeoutOf(path) : path \in lost}
  BY <1>2, TimeoutErrorsAre
<1>4. AreErrors(errors) /\ ToSet(errors) = ToSet(JoinErrors) \cup ToSet(TimeoutErrors(lost))
  BY <1>3, JoinErrorsAre, ErrorsConcat, ListConcat DEF AreErrors
<1> DEFINE after == HandleSemgrepErrors(handler, errors)
<1> HIDE DEF errors
<1>5. /\ IsHandler(after) /\ AreErrors(after.errors)
      /\ after.settings = handler.settings
      /\ ToSet(after.errors) = ToSet(handler.errors) \cup ToSet(errors)
  BY <1>4, HandlerGrows
<1>6. handler' = after
  BY DEF errors
<1> HIDE DEF after
<1>7. QED
  BY <1>3, <1>4, <1>5, <1>6

-----------------------------------------------------------------------------
(* The steps of the command *)

Stages == {"idle", "metacheck", "config", "baseline", "targets", "prepare", "engine",
           "compare", "restore", "finish", "ended"}

CiSteps == {"configure", "environment", "connect", "started", "ci_scan", "ci_history",
            "failed", "results", "upload", "complete", "verdict"}

ScanSteps == {"validate", "scan"}

\* The steps are those of the command that was asked for, and what run_scan
\* raises has a code of an error, which a SemgrepError does not have for nothing.
StepInv ==
    /\ stage \in Stages
    /\ step \in {"idle", "done"} \cup ScanSteps \cup CiSteps
    /\ step \in ScanSteps => ResolveCommand(invocation.word) = "scan"
    /\ step \in CiSteps => ResolveCommand(invocation.word) = "ci"
    /\ raised.kind \in {"none", "error", "exit", "crash"} /\ raised.code \in ErrorCodes
    /\ raised.kind = "error" => raised.code # Ok
    /\ step = "failed" => raised.kind = "error"
    /\ checkout \in {"own", "head"} /\ restore \in {"none", "registered", "done", "failed"}
    /\ "state" \in DOMAIN app /\ app.state \in {"none", "open", "failed", "complete"}
    /\ step = "started" /\ HasHandler => response = invocation.response

LEMMA StepStarts == Init => StepInv
BY Codes DEF Init, CommandInit, CiInit, ScanInit, StepInv, Stages, NotRaised, NoScan, CiSteps,
             ScanSteps

LEMMA StepRest ==
    ASSUME StepInv, UNCHANGED <<invocation, stage, raised, app>>,
           checkout' \in {"own", "head"}, restore' \in {"none", "registered", "done", "failed"},
           step' \in {"idle", "done"} \cup ScanSteps \cup CiSteps,
           step' \in ScanSteps => step \in ScanSteps,
           step' \in CiSteps => step \in CiSteps,
           step' = "failed" => step = "failed" \/ raised.kind = "error",
           step' = "started" => ~HasHandler \/ UNCHANGED <<step, response>>
    PROVE  StepInv'
BY DEF StepInv, HasHandler

\* What may be raised.
LEMMA Raises ==
    /\ \A code \in {Fatal, MissingConfig} :
           /\ Error(code).kind = "error" /\ Error(code).code \in ErrorCodes \ {Ok}
           /\ Exit(code).kind = "exit" /\ Exit(code).code \in ErrorCodes
    /\ Exit(Ok).kind = "exit" /\ Exit(Ok).code \in ErrorCodes
    /\ Crash.kind = "crash" /\ Crash.code \in ErrorCodes
    /\ NotRaised.kind = "none" /\ NotRaised.code \in ErrorCodes
    /\ \A asked : GetConfig(asked).raised => GetConfig(asked).code = Fatal
    /\ \A asked : LET stop == BeforeTheEngine(asked)
                  IN /\ stop.kind \in {"none", "exit", "error"} /\ stop.code \in ErrorCodes
                     /\ stop.kind = "error" => stop.code # Ok
BY Codes DEF Error, Exit, Crash, NotRaised, GetConfig, Raised, ConfigOk, BeforeTheEngine

\* run_scan goes from stage to stage, and ends with what it raised.
LEMMA StagesScan == StepInv /\ ScanStep => /\ stage' \in Stages
                                           /\ raised'.kind \in {"none", "error", "exit", "crash"}
                                           /\ raised'.code \in ErrorCodes
                                           /\ raised'.kind = "error" => raised'.code # Ok
<1> SUFFICES ASSUME StepInv
             PROVE  ScanStep => /\ stage' \in Stages
                                /\ raised'.kind \in {"none", "error", "exit", "crash"}
                                /\ raised'.code \in ErrorCodes
                                /\ raised'.kind = "error" => raised'.code # Ok
  OBVIOUS
<1> DEFINE Good == /\ stage' \in Stages
                   /\ raised'.kind \in {"none", "error", "exit", "crash"}
                   /\ raised'.code \in ErrorCodes
                   /\ raised'.kind = "error" => raised'.code # Ok
<1>1. ASSUME stage' \in Stages, UNCHANGED raised
      PROVE  Good
  BY <1>1 DEF StepInv
<1>2. LoadRules => Good
  BY Raises DEF LoadRules, Ends, StepInv, Stages
<1>3. InitBaseline \/ SelectTargets => Good
  BY Raises DEF InitBaseline, SelectTargets, Ends, StepInv, Stages
<1>4. ASSUME NEW how, RulesRaise(how), how.kind \in {"none", "exit", "error", "crash"},
             how.code \in ErrorCodes, how.kind = "error" => how.code # Ok
      PROVE  Good
  BY <1>4, Raises DEF RulesRaise, Stages
<1>5. Prepare => Good
  <2> SUFFICES ASSUME Prepare
               PROVE  Good
    OBVIOUS
  <2>1. PICK asked : LET stop == BeforeTheEngine(asked)
                     IN IF stop.kind = "none" THEN stage' = "engine" /\ UNCHANGED raised
                        ELSE RulesRaise(stop)
    BY Zenon DEF Prepare, PrepareRules, RunRules
  <2>2. CASE BeforeTheEngine(asked).kind = "none"
    BY <1>1, <2>1, <2>2 DEF Stages
  <2>3. CASE BeforeTheEngine(asked).kind # "none"
    BY <1>4, <2>1, <2>3, Raises
  <2>4. QED
    BY <2>2, <2>3
<1>6. PrepareFails \/ TakeFailure => Good
  BY <1>4, Raises DEF PrepareFails, TakeFailure
<1>7. TakeHead \/ TakeBaseline => Good
  BY <1>1 DEF TakeHead, TakeBaseline, Stages
<1>8. SkipBaseline \/ EnterBaseline => Good
  BY <1>1 DEF SkipBaseline, EnterBaseline, Stages
<1>9. GitLogFails \/ EnterBaselineFails => Good
  BY Raises DEF GitLogFails, EnterBaselineFails, Ends, Stages
<1>10. LeaveBaseline => Good
  BY Raises DEF LeaveBaseline, Ends, Stages, StepInv
<1>11. Finish => Good
  BY Raises DEF Finish, Ends, Stages
<1>12. Engine => Good
  BY <1>1 DEF Engine, scanVars, StepInv
<1>13. QED
  BY <1>2, <1>3, <1>5, <1>6, <1>7, <1>8, <1>9, <1>10, <1>11, <1>12
     DEF ScanStep, ScanAdvance

LEMMA ScanIsUnderWay == FixInv /\ ScanAdvance => step \in InRunScan
<1>1. ScanAdvance => stage \notin {"idle", "metacheck", "ended"}
  BY DEF ScanAdvance, LoadRules, InitBaseline, SelectTargets, Prepare, PrepareFails, TakeFailure,
         TakeHead, SkipBaseline, GitLogFails, EnterBaseline, EnterBaselineFails, TakeBaseline,
         LeaveBaseline, Finish, Answered, Comparing
<1>2. QED
  BY <1>1 DEF FixInv

LEMMA StepScan == FixInv /\ StepInv /\ RunScanStep => StepInv'
<1> SUFFICES ASSUME FixInv, StepInv, RunScanStep
             PROVE  StepInv'
  OBVIOUS
<1>1. ScanStep /\ UNCHANGED <<commandVars, ciVars>>
  BY DEF RunScanStep
<1>2. step \in InRunScan \/ UNCHANGED raised
  BY <1>1, ScanIsUnderWay DEF ScanStep, Engine, scanVars
<1>3. UNCHANGED <<step, invocation, app, checkout, restore, response>>
  BY <1>1 DEF commandVars, ciVars
<1>4. QED
  BY <1>1, <1>2, <1>3, StagesScan DEF StepInv, InRunScan, HasHandler

LEMMA StepCommand == StepInv /\ CommandStep => StepInv'
<1> SUFFICES ASSUME StepInv
             PROVE  CommandStep => StepInv'
  OBVIOUS
<1>1. ASSUME CommandStep
      PROVE  UNCHANGED <<app, checkout, restore>>
  BY <1>1 DEF CommandStep, ciVars
<1>2. UNCHANGED <<app, checkout, restore>> /\ CheckRules => StepInv'
  BY DEF CheckRules, commandVars, StepInv, Stages
<1>3. UNCHANGED <<app, checkout, restore>> /\ Validated => StepInv'
  BY DEF Validated, ErrorsThen, LeaveCommand, StepInv, Stages, ScanSteps, CiSteps
<1>4. UNCHANGED <<app, checkout, restore>> /\ (ValidateWithoutEngine \/ ScanLeft \/ ScanDone) => StepInv'
  BY DEF ValidateWithoutEngine, ScanLeft, ScanDone, LeaveCommand, scanVars, StepInv, ScanSteps,
         CiSteps
<1>5. UNCHANGED <<app, checkout, restore>> /\ ScanFailed => StepInv'
  BY DEF ScanFailed, ErrorsThen, LeaveCommand, StepInv, ScanSteps, CiSteps
<1>6. QED
  BY <1>1, <1>2, <1>3, <1>4, <1>5 DEF CommandStep, ScanCommandStep

LEMMA StepCi == StepInv /\ CiCommandStep => StepInv'
<1> SUFFICES ASSUME StepInv
             PROVE  CiCommandStep => StepInv'
  OBVIOUS
<1> USE DEF ScanSteps, CiSteps
<1>1. ConfigureErrors \/ StartWithoutApp \/ SkipHistory => StepInv'
  BY StepRest DEF ConfigureErrors, StartWithoutApp, SkipHistory, ciVars, scanVars, StepInv
<1>2. ReadEnvironment => StepInv'
  BY StepRest DEF ReadEnvironment, FixHead, LeaveCommand, scanVars, StepInv
<1>3. StartCiScan => StepInv'
  <2> SUFFICES ASSUME StartCiScan
               PROVE  StepInv'
    OBVIOUS
  <2>1. /\ UNCHANGED <<invocation, stage, raised, checkout, restore>> /\ step = "connect"
        /\ step' \in {"connect", "started", "done"}
        /\ step' = "started" => response' = invocation.response
    BY DEF StartCiScan, LeaveCommand, scanVars
  <2>2. UNCHANGED app \/ (\E tags : app' = [app EXCEPT !.state = "open", !.tags = tags])
    BY DEF StartCiScan
  <2>3. "state" \in DOMAIN app' /\ app'.state \in {"none", "open", "failed", "complete"}
    BY <2>2 DEF StepInv
  <2>4. QED
    BY <2>1, <2>3 DEF StepInv
<1>4. RunCiScan => StepInv'
  BY Raises DEF RunCiScan, LeaveCommand, StartScan, Ends, ciVars, scanVars, StepInv, Stages
<1>5. ReportFailure => StepInv'
  BY DEF ReportFailure, LeaveCommand, scanVars, StepInv
<1>6. CiFailed => StepInv'
  BY StepRest DEF CiFailed, ErrorsThen, LeaveCommand, ciVars, StepInv
<1>7. CiLeft \/ ShowFindings \/ Verdict => StepInv'
  BY StepRest DEF CiLeft, ShowFindings, Verdict, LeaveCommand, ciVars, scanVars, StepInv
<1>8. RunHistory => StepInv'
  BY DEF RunHistory, StepInv, Stages
<1>9. TakeHistory => StepInv'
  BY StepRest DEF TakeHistory, LeaveCommand, ciVars, StepInv
<1>10. SendResults => StepInv'
  <2> SUFFICES ASSUME SendResults
               PROVE  StepInv'
    OBVIOUS
  <2>1. /\ UNCHANGED <<invocation, stage, raised, checkout, restore>> /\ step = "upload"
        /\ step' \in {"upload", "verdict", "complete", "done"}
    BY DEF SendResults, LeaveCommand, scanVars
  <2>2. "state" \in DOMAIN app
    BY DEF StepInv
  <2>3. "state" \in DOMAIN app' /\ app'.state = app.state
    BY <2>2 DEF SendResults
  <2>4. QED
    BY <2>1, <2>3 DEF StepInv
<1>11. SendComplete => StepInv'
  BY DEF SendComplete, LeaveCommand, commandVars, scanVars, StepInv
<1>12. RestoreCheckout => StepInv'
  BY DEF RestoreCheckout, commandVars, scanVars, StepInv
<1>13. QED
  BY <1>1, <1>2, <1>3, <1>4, <1>5, <1>6, <1>7, <1>8, <1>9, <1>10, <1>11, <1>12
     DEF CiCommandStep

LEMMA StepStep == FixInv /\ StepInv /\ [Next]_vars => StepInv'
<1> SUFFICES ASSUME FixInv, StepInv, [Next]_vars
             PROVE  StepInv'
  OBVIOUS
<1>1. ASSUME NEW asked \in Invocations, CallScan(asked), UNCHANGED ciVars
      PROVE  StepInv'
  BY <1>1 DEF CallScan, StartScan, ciVars, scanVars, StepInv, Stages, ScanSteps, CiSteps
<1>2. ASSUME NEW asked \in Invocations, CallCi(asked)
      PROVE  StepInv'
  BY <1>2 DEF CallCi, ciVars, scanVars, StepInv, ScanSteps, CiSteps
<1>3. CASE RunScanStep
  BY <1>3, StepScan
<1>4. CASE CommandStep
  BY <1>4, StepCommand
<1>5. CASE CiCommandStep
  BY <1>5, StepCi
<1>6. CASE GiveUpSoon
  BY <1>6, StepRest DEF GiveUpSoon, commandVars, scanVars, StepInv
<1>7. CASE Exited \/ UNCHANGED vars
  BY <1>7 DEF Exited, vars, commandVars, ciVars, scanVars, StepInv, HasHandler
<1>8. QED
  BY <1>1, <1>2, <1>3, <1>4, <1>5, <1>6, <1>7 DEF Next, Call

-----------------------------------------------------------------------------
(* The errors that are told of *)

BeforeTheScan == {"idle", "validate", "configure", "environment", "connect", "started"}

AfterTheOutput == {"upload", "complete", "verdict", "done"}

TimeoutsAreHandled ==
    \A path \in timedOut.head \cup timedOut.worktree : TimeoutOf(path) \in ToSet(handler.errors)

\* The handler has the errors of the timeouts from the moment they happen, and
\* once the output is made of it neither changes.  A timeout is that of a file of
\* the plan, of which there are finitely many.
ToldInv ==
    /\ IsHandler(handler) /\ AreErrors(handler.errors)
    /\ timedOut = [head |-> timedOut.head, worktree |-> timedOut.worktree]
    /\ step \in BeforeTheScan => timedOut.head = {} /\ timedOut.worktree = {}
    /\ step \in InRunScan /\ (stage # "ended" \/ raised = NotRaised) => IsRequest(request)
    /\ stage = "engine" => IsFiniteSet(AllTargets([tasks |-> job.plan]))
    /\ TimeoutsAreHandled
    /\ printed # <<>> => step \in AfterTheOutput
    /\ TimeoutsAreTold

LEMMA ToldStarts == Init => ToldInv
<1> SUFFICES ASSUME Init
             PROVE  ToldInv
  OBVIOUS
<1>1. /\ step = "idle" /\ stage = "idle" /\ printed = <<>> /\ handler = NoHandler
      /\ timedOut = [head |-> {}, worktree |-> {}]
  BY DEF Init, CommandInit, ScanInit, NotPrinted
<1>2. IsHandler(handler) /\ AreErrors(handler.errors)
  BY <1>1, NoErrors DEF NoHandler, IsHandler, AreErrors
<1>3. QED
  BY <1>1, <1>2 DEF ToldInv, BeforeTheScan, InRunScan, TimeoutsAreHandled, TimeoutsAreTold

LEMMA ToldRest ==
    ASSUME ToldInv, UNCHANGED <<printed, scanVars>>,
           step' \in BeforeTheScan => step \in BeforeTheScan,
           step' \in InRunScan => step \in InRunScan,
           step \in AfterTheOutput => step' \in AfterTheOutput
    PROVE  ToldInv'
<1>1. /\ UNCHANGED <<printed, stage, request, handler, job, timedOut, raised>>
  BY DEF scanVars
<1>2. TimeoutsAreHandled' /\ TimeoutsAreTold'
  BY <1>1 DEF ToldInv, TimeoutsAreHandled, TimeoutsAreTold, Succeeded
<1>3. QED
  BY <1>1, <1>2 DEF ToldInv

\* Before the output nothing is told, and the handler may have more errors.
LEMMA ToldMore ==
    ASSUME ToldInv, UNCHANGED <<step, printed, timedOut>>, printed = <<>>,
           step \in InRunScan /\ (stage' # "ended" \/ raised' = NotRaised) => IsRequest(request'),
           stage' = "engine" => IsFiniteSet(AllTargets([tasks |-> job'.plan])),
           IsHandler(handler'), AreErrors(handler'.errors),
           ToSet(handler.errors) \subseteq ToSet(handler'.errors)
    PROVE  ToldInv'
<1>1. TimeoutsAreHandled'
  BY DEF ToldInv, TimeoutsAreHandled, TimeoutOf
<1>2. TimeoutsAreTold'
  BY DEF TimeoutsAreTold
<1>3. QED
  BY <1>1, <1>2 DEF ToldInv

\* An output tells of the timeouts that the handler has.
LEMMA OutputTells ==
    ASSUME NEW told, NEW found, NEW targets, NEW skips, NEW ci, NEW path,
           TimeoutOf(path) \in ToSet(told.errors)
    PROVE  path \in {e.path : e \in {x \in Outputs(told, found, targets, skips, ci).errors :
                                        x.type = "Timeout"}}
<1> DEFINE e == CliError(TimeoutOf(path))
           all == Outputs(told, found, targets, skips, ci).errors
<1>1. e.type = "Timeout" /\ e.path = path
  BY TimeoutIsError DEF CliError
<1>2. all = {CliError(error) : error \in ToSet(told.errors)}
  BY DEF Outputs, BuildOutput
<1>3. e \in all
  BY <1>2
<1> HIDE DEF e, all
<1>4. QED
  BY <1>1, <1>3 DEF all

\* Taking the answer of the engine.
LEMMA ToldAnswer ==
    ASSUME ToldInv, UNCHANGED <<step, printed, request, raised>>, printed = <<>>, stage = "engine",
           stage' # "engine", stage' # "ended", step \in InRunScan,
           NEW lost \in LostFiles,
           \/ timedOut' = [timedOut EXCEPT !.head = lost]
           \/ timedOut' = [timedOut EXCEPT !.worktree = lost],
           handler' = HandleSemgrepErrors(handler, JoinErrors \o TimeoutErrors(lost))
    PROVE  ToldInv'
<1>1. IsFiniteSet(AllTargets([tasks |-> job.plan])) /\ IsRequest(request)
  BY DEF ToldInv
<1>2. /\ IsHandler(handler') /\ AreErrors(handler'.errors)
      /\ ToSet(handler.errors) \subseteq ToSet(handler'.errors)
      /\ \A path \in lost : TimeoutOf(path) \in ToSet(handler'.errors)
  BY <1>1, LostAreTold DEF ToldInv
<1>3. /\ timedOut' = [head |-> timedOut'.head, worktree |-> timedOut'.worktree]
      /\ timedOut'.head \cup timedOut'.worktree
             \subseteq lost \cup (timedOut.head \cup timedOut.worktree)
  BY DEF ToldInv
<1>4. TimeoutsAreHandled'
  BY <1>2, <1>3 DEF ToldInv, TimeoutsAreHandled, TimeoutOf
<1>5. TimeoutsAreTold'
  BY DEF TimeoutsAreTold
<1>6. QED
  BY <1>1, <1>2, <1>3, <1>4, <1>5 DEF ToldInv, InRunScan, BeforeTheScan

LEMMA ToldScan == FolderInv /\ FixInv /\ ToldInv /\ RunScanStep => ToldInv'
<1> SUFFICES ASSUME FolderInv, FixInv, ToldInv, RunScanStep
             PROVE  ToldInv'
  OBVIOUS
<1>1. UNCHANGED <<step, printed, invocation>>
  BY DEF RunScanStep, commandVars
<1>2. CASE Engine
  BY <1>1, <1>2, ToldRest DEF Engine
<1> SUFFICES ASSUME ScanAdvance
             PROVE  ToldInv'
  BY <1>2 DEF RunScanStep, ScanStep
<1>3. step \in InRunScan /\ printed = <<>>
  BY ScanIsUnderWay DEF ToldInv, InRunScan, AfterTheOutput
<1>4. IsHandler(handler) /\ AreErrors(handler.errors)
  BY DEF ToldInv
<1>5. ASSUME stage # "ended", UNCHANGED <<request, job, handler, timedOut>>,
             stage' = "engine" => stage = "engine"
      PROVE  ToldInv'
  BY <1>1, <1>3, <1>4, <1>5, ToldMore DEF ToldInv
<1>6. LoadRules => ToldInv'
  <2> SUFFICES ASSUME LoadRules
               PROVE  ToldInv'
    OBVIOUS
  <2>1. /\ stage # "ended" /\ stage' # "engine" /\ UNCHANGED <<request, job, timedOut>>
        /\ \/ UNCHANGED handler
           \/ handler' = HandleSemgrepErrors(handler, ConfigOf(request.config).errors)
    BY DEF LoadRules, Ends
  <2>2. IsRequest(request)
    BY <1>3, <2>1 DEF ToldInv
  <2> DEFINE errors == ConfigOf(request.config).errors
             after  == HandleSemgrepErrors(handler, errors)
  <2>3. AreErrors(errors)
    BY <2>2, ConfigErrors DEF IsRequest
  <2>4. /\ IsHandler(after) /\ AreErrors(after.errors)
        /\ ToSet(handler.errors) \subseteq ToSet(after.errors)
    <3> HIDE DEF errors
    <3>1. /\ IsHandler(after) /\ AreErrors(after.errors)
          /\ after.settings = handler.settings
          /\ ToSet(after.errors) = ToSet(handler.errors) \cup ToSet(errors)
      BY <1>4, <2>3, HandlerGrows
    <3> HIDE DEF after
    <3>2. QED
      BY <3>1
  <2>5. handler' = handler \/ handler' = after
    BY <2>1
  <2> HIDE DEF after
  <2>6. /\ IsHandler(handler') /\ AreErrors(handler'.errors)
        /\ ToSet(handler.errors) \subseteq ToSet(handler'.errors)
    BY <1>4, <2>4, <2>5
  <2>7. QED
    BY <1>1, <1>3, <2>1, <2>2, <2>6, ToldMore
<1>7. InitBaseline \/ SelectTargets => ToldInv'
  BY <1>5 DEF InitBaseline, SelectTargets, Ends
<1>8. Prepare => ToldInv'
  <2> SUFFICES ASSUME Prepare
               PROVE  ToldInv'
    OBVIOUS
  <2>1. stage = "prepare" /\ PrepareRules(CurrentSubprojects) /\ UNCHANGED <<request, timedOut>>
    BY DEF Prepare
  <2>2. IsRequest(request)
    BY <1>3, <2>1 DEF ToldInv
  <2>3. /\ IsHandler(handler') /\ AreErrors(handler'.errors)
        /\ ToSet(handler.errors) \subseteq ToSet(handler'.errors)
        /\ IsFiniteSet(AllTargets([tasks |-> job'.plan]))
    BY <1>4, <2>1, <2>2, RulesAreRun DEF FolderInv
  <2>4. QED
    BY <1>1, <1>3, <2>1, <2>2, <2>3, ToldMore
<1>9. TakeFailure => ToldInv'
  BY <1>5 DEF TakeFailure, RulesRaise
<1>9a. PrepareFails => ToldInv'
  <2> SUFFICES ASSUME PrepareFails
               PROVE  ToldInv'
    OBVIOUS
  <2>1. /\ stage = "prepare" /\ stage' \in {"ended", "restore"}
        /\ UNCHANGED <<request, timedOut, job>>
    BY DEF PrepareFails, RulesRaise
  <2>2. IsRequest(request)
    BY <1>3, <2>1 DEF ToldInv
  <2>3. /\ IsHandler(handler') /\ AreErrors(handler'.errors)
        /\ ToSet(handler.errors) \subseteq ToSet(handler'.errors)
    BY <1>4, <2>2, ResolutionIsTold DEF PrepareFails, FolderInv
  <2>4. QED
    BY <1>1, <1>3, <2>1, <2>2, <2>3, ToldMore
<1>10. TakeHead => ToldInv'
  <2> SUFFICES ASSUME TakeHead
               PROVE  ToldInv'
    OBVIOUS
  <2>1. /\ stage = "engine" /\ stage' = "compare" /\ UNCHANGED <<request, raised>>
        /\ \E lost \in LostFiles :
               /\ timedOut' = [timedOut EXCEPT !.head = lost]
               /\ handler' = HandleSemgrepErrors(handler, JoinErrors \o TimeoutErrors(lost))
    BY DEF TakeHead, Answered
  <2>2. QED
    BY <1>1, <1>3, <2>1, ToldAnswer
<1>11. TakeBaseline => ToldInv'
  <2> SUFFICES ASSUME TakeBaseline
               PROVE  ToldInv'
    OBVIOUS
  <2>1. /\ stage = "engine" /\ stage' = "restore" /\ UNCHANGED <<request, raised>>
        /\ \E lost \in LostFiles :
               /\ timedOut' = [timedOut EXCEPT !.worktree = lost]
               /\ handler' = HandleSemgrepErrors(handler, JoinErrors \o TimeoutErrors(lost))
    BY DEF TakeBaseline, Answered
  <2>2. QED
    BY <1>1, <1>3, <2>1, ToldAnswer
<1>12. SkipBaseline \/ EnterBaseline => ToldInv'
  BY <1>5 DEF SkipBaseline, EnterBaseline, Comparing
<1>13. GitLogFails \/ EnterBaselineFails => ToldInv'
  BY <1>5 DEF GitLogFails, EnterBaselineFails, Comparing, Ends
<1>14. LeaveBaseline => ToldInv'
  BY <1>5 DEF LeaveBaseline, Ends
<1>15. Finish => ToldInv'
  BY <1>5 DEF Finish, Ends
<1>16. QED
  BY <1>6, <1>7, <1>8, <1>9, <1>10, <1>11, <1>12, <1>13, <1>14, <1>15, <1>9a DEF ScanAdvance

\* A step that makes the output, of what the handler has then.
LEMMA ToldOutput ==
    ASSUME ToldInv, UNCHANGED timedOut, step' \in AfterTheOutput,
           IsHandler(handler'), AreErrors(handler'.errors),
           ToSet(handler.errors) \subseteq ToSet(handler'.errors),
           stage' # "engine",
           NEW found, NEW targets, NEW skips, NEW ci,
           printed' = <<Outputs(handler', found, targets, skips, ci)>>
    PROVE  ToldInv'
<1>1. \A path \in timedOut.head \cup timedOut.worktree :
          TimeoutOf(path) \in ToSet(handler'.errors)
  BY DEF ToldInv, TimeoutsAreHandled
<1>2. TimeoutsAreHandled'
  BY <1>1 DEF TimeoutsAreHandled, TimeoutOf
<1> DEFINE told == Outputs(handler', found, targets, skips, ci)
<1>3. timedOut.head \cup timedOut.worktree
          \subseteq {e.path : e \in {x \in told.errors : x.type = "Timeout"}}
  BY <1>1, OutputTells
<1>4. printed'[1] = told
  BY ListOfOne
<1> HIDE DEF told
<1>5. TimeoutsAreTold'
  BY <1>3, <1>4 DEF TimeoutsAreTold
<1>6. step' \notin BeforeTheScan /\ step' \notin InRunScan
  BY DEF AfterTheOutput, BeforeTheScan, InRunScan
<1>7. QED
  BY <1>2, <1>5, <1>6 DEF ToldInv

\* The handler is told of what run_scan raised.
LEMMA FailureIsTold ==
    ASSUME ToldInv, StepInv, raised.kind = "error",
           handler' = HandleSemgrepErrors(handler, <<SemgrepErrorOf(raised.code)>>)
    PROVE  /\ IsHandler(handler') /\ AreErrors(handler'.errors)
           /\ handler'.settings = handler.settings
           /\ ToSet(handler.errors) \subseteq ToSet(handler'.errors)
           /\ handler'.errors # <<>> /\ Last(handler'.errors) = SemgrepErrorOf(raised.code)
<1> DEFINE error == SemgrepErrorOf(raised.code)
<1>1. IsError(error) /\ error.type = "SemgrepError"
  <2>1. raised.code \in ErrorCodes \ {Ok}
    BY DEF StepInv
  <2>2. error.type = "SemgrepError"
    BY DEF SemgrepErrorOf
  <2> HIDE DEF error
  <2>3. QED
    BY <2>1, <2>2, FailureIsError DEF error
<1> DEFINE list == <<error>>
           after == HandleSemgrepErrors(handler, list)
<1>2. handler' = after
  OBVIOUS
<1> HIDE DEF error
<1>3. AreErrors(list) /\ IsList(list) /\ list # <<>> /\ Last(list) = error
  <2>1. Len(<<error>>) = 1
    OBVIOUS
  <2>2. QED
    BY <1>1, <2>1, OneError, ListOfOne DEF Last
<1> HIDE DEF list
<1>4. /\ IsHandler(after) /\ AreErrors(after.errors) /\ after.settings = handler.settings
      /\ ToSet(after.errors) = ToSet(handler.errors) \cup ToSet(list)
  BY <1>3, HandlerGrows DEF ToldInv
<1>5. after.errors # <<>> /\ Last(after.errors) = error
  <2>1. IsHandler(handler)
    BY DEF ToldInv
  <2>2. list # <<>> /\ Last(list).type = "SemgrepError"
          => after.errors # <<>> /\ Last(after.errors) = Last(list)
    BY <1>3, <2>1, HandleAll
  <2>3. QED
    BY <1>1, <1>3, <2>2
<1> HIDE DEF after
<1>6. QED
  BY <1>2, <1>4, <1>5 DEF error

\* What --validate tells the handler of.
LEMMA ValidationIsTold ==
    ASSUME FixInv, StepInv, ToldInv, Validated
    PROVE  /\ IsHandler(handler') /\ AreErrors(handler'.errors)
           /\ ToSet(handler.errors) \subseteq ToSet(handler'.errors)
<1> DEFINE configs == [Configs EXCEPT !.forceSchema = TRUE]
           errors == ConfigOf(configs).errors \o MetacheckErrors
           after == HandleSemgrepErrors(handler, errors)
<1>1. /\ invocation \in Invocations /\ ResolveCommand(invocation.word) = "scan"
      /\ UNCHANGED handler \/ handler' = after
  BY DEF Validated, FixInv, StepInv, ScanSteps
<1>2. IsRequest(invocation.request) /\ AreErrors(invocation.metacheck)
  BY <1>1, CliAssumption DEF AreErrors
<1>3. configs.configs = Configs.configs /\ AreConfigs(Configs.configs)
  BY <1>2 DEF IsRequest, Configs
<1>4. AreErrors(ConfigOf(configs).errors)
  <2> HIDE DEF configs
  <2>1. QED
    BY <1>3, ConfigErrors
<1>5. AreErrors(errors)
  <2> HIDE DEF configs
  <2>1. QED
    BY <1>2, <1>4, MetacheckErrorsAre, ErrorsConcat
<1> HIDE DEF errors
<1>6. IsHandler(handler) /\ AreErrors(handler.errors)
  BY DEF ToldInv
<1>7. /\ IsHandler(after) /\ AreErrors(after.errors)
      /\ after.settings = handler.settings
      /\ ToSet(after.errors) = ToSet(handler.errors) \cup ToSet(errors)
  BY <1>5, <1>6, HandlerGrows
<1> HIDE DEF after
<1>8. QED
  BY <1>1, <1>6, <1>7

LEMMA ToldCommand == FixInv /\ StepInv /\ ToldInv /\ CommandStep => ToldInv'
<1> SUFFICES ASSUME FixInv, StepInv, ToldInv
             PROVE  CommandStep => ToldInv'
  OBVIOUS
<1> USE DEF BeforeTheScan, InRunScan, AfterTheOutput
<1>1. ValidateWithoutEngine \/ ScanLeft => ToldInv'
  BY ToldRest DEF ValidateWithoutEngine, ScanLeft, LeaveCommand
<1>2. CheckRules => ToldInv'
  <2> SUFFICES ASSUME CheckRules
               PROVE  ToldInv'
    OBVIOUS
  <2>1. /\ UNCHANGED <<step, printed, timedOut, request, handler, job, raised>>
        /\ step = "validate" /\ stage' = "metacheck"
    BY DEF CheckRules, commandVars
  <2>2. QED
    BY <2>1, ToldMore DEF ToldInv
<1>3. Validated => ToldInv'
  <2> SUFFICES ASSUME Validated
               PROVE  ToldInv'
    OBVIOUS
  <2>1. /\ step = "validate" /\ step' = "done" /\ stage' = "idle" /\ UNCHANGED timedOut
        /\ \/ UNCHANGED <<handler, printed>>
           \/ printed' = <<Outputs(handler', <<>>, {}, EmptyLog, FALSE)>>
    BY DEF Validated, ErrorsThen, LeaveCommand
  <2>2. /\ IsHandler(handler') /\ AreErrors(handler'.errors)
        /\ ToSet(handler.errors) \subseteq ToSet(handler'.errors)
    BY ValidationIsTold DEF ToldInv
  <2>3. CASE printed' = <<Outputs(handler', <<>>, {}, EmptyLog, FALSE)>>
    BY <2>1, <2>2, <2>3, ToldOutput
  <2>4. CASE UNCHANGED <<handler, printed>>
    <3>1. TimeoutsAreHandled' /\ TimeoutsAreTold'
      BY <2>1, <2>4 DEF ToldInv, TimeoutsAreHandled, TimeoutsAreTold, TimeoutOf, Succeeded
    <3>2. QED
      BY <2>1, <2>2, <2>4, <3>1 DEF ToldInv
  <2>5. QED
    BY <2>1, <2>3, <2>4
<1>4. ScanFailed => ToldInv'
  <2> SUFFICES ASSUME ScanFailed
               PROVE  ToldInv'
    OBVIOUS
  <2>1. /\ raised.kind = "error" /\ step' = "done" /\ stage' = "ended" /\ UNCHANGED timedOut
        /\ handler' = HandleSemgrepErrors(handler, <<SemgrepErrorOf(raised.code)>>)
        /\ printed' = <<Outputs(handler', <<>>, {}, EmptyLog, FALSE)>>
    BY DEF ScanFailed, ErrorsThen, LeaveCommand
  <2>2. /\ IsHandler(handler') /\ AreErrors(handler'.errors)
        /\ ToSet(handler.errors) \subseteq ToSet(handler'.errors)
    BY <2>1, FailureIsTold
  <2>3. QED
    BY <2>1, <2>2, ToldOutput
<1>5. ScanDone => ToldInv'
  <2> SUFFICES ASSUME ScanDone
               PROVE  ToldInv'
    OBVIOUS
  <2>1. /\ step' = "done" /\ stage' = "ended" /\ UNCHANGED <<timedOut, handler>>
        /\ printed' = <<Outputs(handler', matches, scanned, log, FALSE)>>
    BY DEF ScanDone, LeaveCommand, scanVars
  <2>2. IsHandler(handler') /\ AreErrors(handler'.errors)
    BY <2>1 DEF ToldInv
  <2>3. QED
    BY <2>1, <2>2, ToldOutput
<1>6. QED
  BY <1>1, <1>2, <1>3, <1>4, <1>5 DEF CommandStep, ScanCommandStep

\* A request that differs from one in its rules, or in what the engine finds in
\* the tree that was asked about, is a request.
LEMMA SameRequest ==
    ASSUME NEW asked, IsRequest(asked), NEW other, DOMAIN other = DOMAIN asked,
           {"configs", "text"} \subseteq DOMAIN other.config,
           AreConfigs(other.config.configs), AreFiles(other.config.text),
           DOMAIN other.tm = DOMAIN asked.tm,
           other.tree = asked.tree, other.answers = asked.answers, other.joins = asked.joins,
           other.found = asked.found
           \/ (\E found : AreFindings(found) /\ other.found = [asked.found EXCEPT !["head"] = found])
    PROVE  IsRequest(other)
<1>1. /\ {"head", "worktree"} \subseteq DOMAIN other.found
      /\ \A place \in {"head", "worktree"} : AreFindings(other.found[place])
  BY DEF IsRequest
<1>2. QED
  BY <1>1 DEF IsRequest

\* ci makes requests of the same fields for run_scan.
LEMMA CiRequestIs ==
    ASSUME FixInv, StepInv, step = "started"
    PROVE  IsRequest(CiRequest)
<1> DEFINE asked == invocation.request
<1>1. invocation \in Invocations /\ ResolveCommand(invocation.word) = "ci"
  BY DEF FixInv, StepInv, CiSteps, ScanSteps
<1>2. IsRequest(asked) /\ AreConfigs(invocation.partialConfig)
  BY <1>1, CliAssumption DEF IsCiInvocation
<1>3. HasHandler => AreFiles(<<response.rules>>)
  <2> SUFFICES ASSUME HasHandler
               PROVE  AreFiles(<<response.rules>>)
    OBVIOUS
  <2>1. IsList(response.rules.rules)
    BY <1>1, CliAssumption DEF IsCiInvocation, HasHandler, StepInv
  <2>2. QED
    BY <2>1, ListOfOne DEF AreFiles
<1>4. AreFiles(<<>>)
  BY EmptyList DEF AreFiles
<1> HIDE DEF asked
<1>5. /\ {"configs", "text"} \subseteq DOMAIN CiConfig
      /\ AreConfigs(CiConfig.configs) /\ AreFiles(CiConfig.text)
  <2>1. {"configs", "text"} \subseteq DOMAIN asked.config /\ AreConfigs(asked.config.configs)
    BY <1>2 DEF IsRequest
  <2>2. DOMAIN CiConfig = DOMAIN asked.config
    BY DEF CiConfig, asked
  <2>3. /\ CiConfig.configs = IF ~HasHandler THEN asked.config.configs ELSE invocation.partialConfig
        /\ CiConfig.text = IF HasHandler /\ invocation.partialConfig = <<>>
                           THEN <<response.rules>> ELSE <<>>
    BY <2>1 DEF CiConfig, asked
  <2>4. QED
    BY <1>2, <1>3, <1>4, <2>1, <2>2, <2>3
<1>6. {"config", "tree", "answers", "dryrun", "found", "joins", "baseline", "tm"}
          \subseteq DOMAIN asked
  BY <1>2 DEF IsRequest
<1>7. /\ DOMAIN CiRequest = DOMAIN asked /\ CiRequest.tree = asked.tree
      /\ CiRequest.answers = asked.answers /\ CiRequest.joins = asked.joins
      /\ CiRequest.found = asked.found
      /\ DOMAIN CiRequest.tm = DOMAIN asked.tm
  BY <1>6 DEF CiRequest, asked
<1>8. CiRequest.config = CiConfig
  BY <1>6 DEF CiRequest, asked
<1> DEFINE other == CiRequest
<1> HIDE DEF other
<1>9. IsRequest(other)
  BY <1>2, <1>5, <1>7, <1>8, SameRequest DEF other
<1>10. QED
  BY <1>9 DEF other

LEMMA ToldCi == FixInv /\ StepInv /\ ToldInv /\ CiCommandStep => ToldInv'
<1> SUFFICES ASSUME FixInv, StepInv, ToldInv
             PROVE  CiCommandStep => ToldInv'
  OBVIOUS
<1> USE DEF BeforeTheScan, InRunScan, AfterTheOutput
<1>1. ConfigureErrors \/ ReadEnvironment \/ StartWithoutApp => ToldInv'
  BY ToldRest DEF ConfigureErrors, ReadEnvironment, FixHead, StartWithoutApp, LeaveCommand
<1>2. StartCiScan => ToldInv'
  <2> SUFFICES ASSUME StartCiScan
               PROVE  ToldInv'
    OBVIOUS
  <2>1. /\ UNCHANGED <<printed, scanVars>> /\ step = "connect"
        /\ step' \in {"connect", "started", "done"}
    BY DEF StartCiScan, LeaveCommand
  <2>2. QED
    BY <2>1, ToldRest
<1>3. RunCiScan => ToldInv'
  <2> SUFFICES ASSUME RunCiScan
               PROVE  ToldInv'
    OBVIOUS
  <2>1. /\ step = "started" /\ UNCHANGED printed
        /\ \/ step' = "done" /\ UNCHANGED scanVars
           \/ /\ step' = "ci_scan" /\ UNCHANGED timedOut /\ handler' = NewHandler(CiSettings)
              /\ \/ stage' = "ended" /\ raised' = Error(Fatal)
                 \/ stage' = "config" /\ request' = CiRequest
    BY DEF RunCiScan, LeaveCommand, StartScan, Ends
  <2>2. CASE step' = "done" /\ UNCHANGED scanVars
    BY <2>1, <2>2, ToldRest
  <2>3. CASE step' = "ci_scan"
    <3>1. timedOut.head = {} /\ timedOut.worktree = {} /\ printed = <<>> /\ UNCHANGED timedOut
      BY <2>1, <2>3 DEF ToldInv
    <3>2. IsHandler(handler') /\ AreErrors(handler'.errors)
      BY <2>1, <2>3, HandlerStarts
    <3>3. TimeoutsAreHandled' /\ TimeoutsAreTold'
      BY <2>1, <3>1 DEF TimeoutsAreHandled, TimeoutsAreTold
    <3>4. IsRequest(CiRequest)
      BY <2>1, CiRequestIs
    <3>5. raised' = Error(Fatal) => raised' # NotRaised
      BY DEF Error, NotRaised
    <3>6. QED
      BY <2>1, <2>3, <3>1, <3>2, <3>3, <3>4, <3>5 DEF ToldInv
  <2>4. QED
    BY <2>1, <2>2, <2>3
<1>4. ReportFailure \/ CiLeft \/ SkipHistory \/ Verdict => ToldInv'
  BY ToldRest DEF ReportFailure, CiLeft, SkipHistory, Verdict, LeaveCommand
<1>5. CiFailed => ToldInv'
  <2> SUFFICES ASSUME CiFailed
               PROVE  ToldInv'
    OBVIOUS
  <2>1. /\ step = "failed" /\ step' = "done" /\ UNCHANGED <<stage, timedOut>>
        /\ handler' = HandleSemgrepErrors(handler, <<SemgrepErrorOf(raised.code)>>)
        /\ printed' = <<Outputs(handler', <<>>, {}, EmptyLog, FALSE)>>
    BY DEF CiFailed, ErrorsThen, LeaveCommand
  <2>2. raised.kind = "error" /\ stage # "engine"
    BY <2>1 DEF StepInv, FixInv
  <2>3. /\ IsHandler(handler') /\ AreErrors(handler'.errors)
        /\ ToSet(handler.errors) \subseteq ToSet(handler'.errors)
    BY <2>1, <2>2, FailureIsTold
  <2>4. QED
    BY <2>1, <2>2, <2>3, ToldOutput
<1>6. RunHistory => ToldInv'
  <2> SUFFICES ASSUME RunHistory
               PROVE  ToldInv'
    OBVIOUS
  <2>1. /\ step = "ci_scan" /\ step' = "ci_history" /\ stage' = "config"
        /\ raised = NotRaised /\ UNCHANGED <<printed, handler, timedOut>>
    BY DEF RunHistory
  <2>2. IsRequest(request) /\ printed = <<>>
    BY <2>1 DEF ToldInv
  <2>3. IsRequest(request')
    <3>1. {"config", "tree", "answers", "dryrun", "found", "joins", "baseline", "tm"}
              \subseteq DOMAIN request
      BY <2>2 DEF IsRequest
    <3>2. /\ DOMAIN request' = DOMAIN request /\ request'.tree = request.tree
          /\ request'.answers = request.answers /\ request'.config = request.config
          /\ request'.joins = request.joins /\ request'.tm = request.tm
          /\ request'.found = [request.found EXCEPT !["head"] = invocation.history]
      BY <3>1 DEF RunHistory
    <3>3. invocation \in Invocations /\ ResolveCommand(invocation.word) = "ci"
      BY <2>1 DEF FixInv, StepInv, CiSteps, ScanSteps
    <3>4. AreFindings(invocation.history)
      BY <3>3, CliAssumption DEF IsCiInvocation
    <3>5. /\ {"configs", "text"} \subseteq DOMAIN request.config
          /\ AreConfigs(request.config.configs) /\ AreFiles(request.config.text)
      BY <2>2 DEF IsRequest
    <3> DEFINE before == request
               after  == request'
    <3> HIDE DEF before, after
    <3>6. IsRequest(after)
      BY <2>2, <3>2, <3>4, <3>5, SameRequest DEF before, after
    <3>7. QED
      BY <3>6 DEF after
  <2>4. TimeoutsAreHandled' /\ TimeoutsAreTold'
    BY <2>1, <2>2 DEF ToldInv, TimeoutsAreHandled, TimeoutsAreTold, TimeoutOf
  <2>5. QED
    BY <2>1, <2>2, <2>3, <2>4 DEF ToldInv
<1>7. TakeHistory => ToldInv'
  <2> SUFFICES ASSUME TakeHistory
               PROVE  ToldInv'
    OBVIOUS
  <2>1. /\ step = "ci_history" /\ stage = "ended" /\ step' \in {"results", "done"}
        /\ UNCHANGED <<printed, timedOut, stage>>
        /\ \/ UNCHANGED handler
           \/ /\ raised.kind = "error"
              /\ handler' = HandleSemgrepErrors(handler, <<SemgrepErrorOf(raised.code)>>)
    BY DEF TakeHistory, LeaveCommand
  <2>2. /\ IsHandler(handler') /\ AreErrors(handler'.errors)
        /\ ToSet(handler.errors) \subseteq ToSet(handler'.errors)
    BY <2>1, FailureIsTold DEF ToldInv
  <2>3. printed = <<>>
    BY <2>1 DEF ToldInv
  <2>4. TimeoutsAreHandled' /\ TimeoutsAreTold'
    BY <2>1, <2>2, <2>3 DEF ToldInv, TimeoutsAreHandled, TimeoutsAreTold, TimeoutOf
  <2>5. QED
    BY <2>1, <2>2, <2>3, <2>4 DEF ToldInv
<1>8. ShowFindings => ToldInv'
  <2> SUFFICES ASSUME ShowFindings
               PROVE  ToldInv'
    OBVIOUS
  <2>1. /\ step = "results" /\ step' \in {"upload", "verdict", "done"} /\ UNCHANGED scanVars
        /\ \/ UNCHANGED printed
           \/ printed' = <<Outputs(handler, ShownMatches, scanned, log, TRUE)>>
    BY DEF ShowFindings, LeaveCommand
  <2>2. CASE UNCHANGED printed
    BY <2>1, <2>2, ToldRest
  <2>3. CASE printed' = <<Outputs(handler, ShownMatches, scanned, log, TRUE)>>
    <3>1. UNCHANGED <<timedOut, handler, stage>> /\ stage # "engine"
      BY <2>1 DEF scanVars, FixInv
    <3>2. IsHandler(handler') /\ AreErrors(handler'.errors)
          /\ ToSet(handler.errors) \subseteq ToSet(handler'.errors)
      BY <3>1 DEF ToldInv
    <3>3. printed' = <<Outputs(handler', ShownMatches, scanned, log, TRUE)>>
      BY <2>3, <3>1
    <3>4. QED
      BY <2>1, <3>1, <3>2, <3>3, ToldOutput
  <2>4. QED
    BY <2>1, <2>2, <2>3
<1>9. SendResults => ToldInv'
  BY ToldRest DEF SendResults, LeaveCommand
<1>10. SendComplete => ToldInv'
  BY ToldRest DEF SendComplete, LeaveCommand, commandVars
<1>11. RestoreCheckout => ToldInv'
  BY ToldRest DEF RestoreCheckout, commandVars
<1>12. QED
  BY <1>1, <1>2, <1>3, <1>4, <1>5, <1>6, <1>7, <1>8, <1>9, <1>10, <1>11 DEF CiCommandStep

LEMMA ToldStep == FolderInv /\ FixInv /\ StepInv /\ ToldInv /\ [Next]_vars => ToldInv'
<1> SUFFICES ASSUME FolderInv, FixInv, StepInv, ToldInv, [Next]_vars
             PROVE  ToldInv'
  OBVIOUS
<1> USE DEF BeforeTheScan, InRunScan, AfterTheOutput
<1>1. ASSUME NEW asked \in Invocations, CallScan(asked)
      PROVE  ToldInv'
  <2> DEFINE request1 == [asked.request EXCEPT !.engine = ScanEngine(asked)]
  <2>1. /\ step = "idle" /\ step' \in {"done", "validate", "scan"} /\ UNCHANGED <<printed, timedOut>>
        /\ step' = "scan" => request' = request1 /\ stage' = "config"
        /\ step' # "scan" => stage' = stage
        /\ UNCHANGED handler \/ handler' = NewHandler(asked.settings)
    BY <1>1 DEF CallScan, StartScan, scanVars
  <2>2. IsRequest(request1)
    <3> DEFINE r == asked.request
    <3>1. IsRequest(r)
      BY CliAssumption
    <3> HIDE DEF r
    <3>2. /\ {"config", "tree", "answers", "dryrun", "found", "joins", "baseline", "tm"}
                  \subseteq DOMAIN r
          /\ {"configs", "text"} \subseteq DOMAIN r.config
          /\ AreConfigs(r.config.configs) /\ AreFiles(r.config.text)
      BY <3>1 DEF IsRequest
    <3>3. /\ DOMAIN request1 = DOMAIN r /\ request1.tree = r.tree
          /\ request1.answers = r.answers /\ request1.config = r.config
          /\ request1.joins = r.joins /\ request1.found = r.found /\ request1.tm = r.tm
      BY <3>2 DEF r
    <3> HIDE DEF request1
    <3>4. QED
      BY <3>1, <3>2, <3>3, SameRequest
  <2> HIDE DEF request1
  <2>3. IsHandler(handler') /\ AreErrors(handler'.errors)
    BY <2>1, HandlerStarts DEF ToldInv
  <2>4. printed = <<>> /\ timedOut.head = {} /\ timedOut.worktree = {} /\ stage = "idle"
    BY <2>1 DEF ToldInv, FolderInv
  <2>5. TimeoutsAreHandled' /\ TimeoutsAreTold'
    BY <2>1, <2>4 DEF TimeoutsAreHandled, TimeoutsAreTold
  <2>6. QED
    BY <2>1, <2>2, <2>3, <2>4, <2>5 DEF ToldInv
<1>2. ASSUME NEW asked \in Invocations, CallCi(asked)
      PROVE  ToldInv'
  BY <1>2, ToldRest DEF CallCi
<1>3. CASE RunScanStep
  BY <1>3, ToldScan
<1>4. CASE CommandStep
  BY <1>4, ToldCommand
<1>5. CASE CiCommandStep
  BY <1>5, ToldCi
<1>6. CASE GiveUpSoon
  BY <1>6, ToldRest DEF GiveUpSoon, commandVars
<1>7. CASE Exited \/ UNCHANGED vars
  BY <1>7, ToldRest DEF Exited, vars, commandVars
<1>8. QED
  BY <1>1, <1>2, <1>3, <1>4, <1>5, <1>6, <1>7 DEF Next, Call

\* No file of which a rule timed out, in the first scan or in that of the baseline,
\* goes missing between the answer of the engine and the output: the handler takes
\* an error for each, whatever errors it has, keeps them until the output, and the
\* output tells of them all.
THEOREM TimeoutsAreAlwaysTold == Spec => []TimeoutsAreTold
<1>1. ToldInv => TimeoutsAreTold
  BY DEF ToldInv
<1>2. QED
  BY <1>1, FolderStarts, FolderStep, FixStarts, FixStep, StepStarts, StepStep, ToldStarts,
     ToldStep, PTL DEF Spec

-----------------------------------------------------------------------------
(* The exit code *)

ExitCodes == {Findings} \cup ErrorCodes

\* Whatever a command ends with, the code that is sent is one of those.
LEMMA CodesAreSent ==
    ASSUME NEW how, how.kind = "crash" \/ how.code \in ExitCodes
    PROVE  Send(WrapperCode(how)) \in ExitCodes
BY Codes DEF Send, SendIf, WrapperCode, ExitCodes

\* What is not Ok is sent as Ok only with --suppress-errors.
LEMMA OkIsSuppressed ==
    ASSUME NEW how, how.kind = "crash" \/ how.code # Ok, Send(WrapperCode(how)) = Ok
    PROVE  suppress
BY DEF Send, SendIf, WrapperCode, Fatal, Ok

LEMMA LastIsIn ==
    ASSUME NEW list, IsList(list), list # <<>>
    PROVE  Last(list) \in ToSet(list)
<1>1. /\ list \in Seq(ToSet(list)) /\ Len(list) \in Nat /\ DOMAIN list = 1..Len(list)
  BY ListDomain DEF IsList
<1>2. Len(list) # 0
  BY <1>1
<1>3. Len(list) \in DOMAIN list
  BY <1>1, <1>2
<1>4. QED
  BY <1>3 DEF Last, ToSet

\* The final error is none, that of findings, or one that was handled.
LEMMA FinalErrorIs ==
    ASSUME NEW told, AreErrors(told.errors), NEW found
    PROVE  LET error == FinalError(told, found)
           IN error = NoError \/ error = SemgrepErrorOf(Findings) \/ IsError(error)
<1>1. told.errors # <<>> => IsError(Last(told.errors))
  BY LastIsIn DEF AreErrors
<1>2. QED
  BY <1>1 DEF FinalError

LEMMA OutputCodes ==
    ASSUME NEW told, AreErrors(told.errors), NEW found
    PROVE  OutputCode(told, found) \in ExitCodes
<1> DEFINE error == FinalError(told, found)
<1>1. error = NoError \/ error = SemgrepErrorOf(Findings) \/ IsError(error)
  BY FinalErrorIs
<1>2. error = NoError \/ error.code \in ExitCodes
  BY <1>1 DEF IsError, SemgrepErrorOf, ExitCodes
<1>3. OutputCode(told, found)
          = IF told.settings.slow # {} THEN Fatal ELSE FinalRaise(told, error)
  BY DEF OutputCode
<1> HIDE DEF error
<1>4. FinalRaise(told, error) \in ExitCodes
  BY <1>2, Codes DEF FinalRaise, ExitCodes
<1>5. QED
  BY <1>3, <1>4, Codes DEF ExitCodes

\* Without --strict output() does not raise a code of success.
LEMMA RaisingIsNotOk ==
    ASSUME NEW told, AreErrors(told.errors), told.settings.strict = FALSE, NEW found,
           OutputRaises(told, found)
    PROVE  OutputCode(told, found) # Ok
<1> DEFINE error == FinalError(told, found)
<1>1. error = NoError \/ error = SemgrepErrorOf(Findings) \/ IsError(error)
  BY FinalErrorIs
<1>2. CASE told.settings.slow # {}
  BY <1>2 DEF OutputCode, Fatal, Ok
<1>3. CASE ~(told.settings.slow # {})
  <2>1. error # NoError /\ error.level = "error" /\ ~IsSpecialInterfileError(error)
    BY <1>3 DEF OutputRaises
  <2>2. OutputCode(told, found) = FinalRaise(told, error)
    BY <1>3 DEF OutputCode
  <2>3. error.code # Ok
    BY <1>1, <2>1 DEF SemgrepErrorOf, IsError, Findings, Ok
  <2> HIDE DEF error
  <2>4. FinalRaise(told, error) = error.code
    BY <2>1 DEF FinalRaise
  <2>5. QED
    BY <2>2, <2>3, <2>4
<1>4. QED
  BY <1>2, <1>3

\* Once a SemgrepError was handled last output() raises.
LEMMA FailureRaises ==
    ASSUME NEW told, told.settings.errorOnFindings = FALSE, told.errors # <<>>,
           NEW code \in ErrorCodes, Last(told.errors) = SemgrepErrorOf(code), NEW found
    PROVE  OutputRaises(told, found)
<1>1. FinalError(told, found) = SemgrepErrorOf(code)
  BY DEF FinalError
<1>2. SemgrepErrorOf(code) # NoError
  <2>1. code \in 0..14
    BY DEF ErrorCodes, Ok, Fatal, TargetParseFailure, RuleParseFailure, UnparseableYaml,
           MissingConfig, InvalidApiKey
  <2>2. QED
    BY <2>1, ScanOutputAssumption
<1>3. SemgrepErrorOf(code).level = "error" /\ ~IsSpecialInterfileError(SemgrepErrorOf(code))
  BY DEF SemgrepErrorOf, IsSpecialInterfileError
<1>4. QED
  BY <1>1, <1>2, <1>3 DEF OutputRaises

\* What the user is shown is what the scan made and the app answered.
LEMMA FindingsStay ==
    ASSUME UNCHANGED <<matches, response, invocation, handler>>
    PROVE  ShownMatches' = ShownMatches /\ BlockingMatches' = BlockingMatches
<1> DEFINE kept == {m \in AllMatches(matches) : ~IsTriaged(m) /\ (CiKeepsIgnored \/ ~m.ignored)}
<1>1. kept' = kept
  BY Zenon DEF IsTriaged, CiKeepsIgnored, HasHandler
<1>2. CiMatches = [rule \in {r \in DOMAIN matches : ~FromTransientScan(r)} |->
                       Only(matches[rule], kept)]
  BY DEF CiMatches
<1>3. CiMatches' = [rule \in {r \in DOMAIN matches' : ~FromTransientScan(r)} |->
                        Only(matches'[rule], kept')]
  BY DEF CiMatches
<1> HIDE DEF kept
<1>4. CiMatches' = CiMatches
  BY <1>1, <1>2, <1>3
<1>5. ShownMatches' = ShownMatches
  BY <1>4 DEF ShownMatches
<1>6. QED
  BY <1>5 DEF BlockingMatches

WithHandler == {"ci_scan", "ci_history", "failed", "results", "upload", "complete", "verdict"}

\* The code that a command exits with is that of findings or of an error; ci makes
\* its output without --strict and --error, and asks the app for the end of a scan
\* only when it talks to the app at all.
ExitInv ==
    /\ exit \in {NoExit} \cup ExitCodes
    /\ Len(printed) <= 1
    /\ step \in WithHandler =>
           handler.settings.strict = FALSE /\ handler.settings.errorOnFindings = FALSE
    /\ step = "complete" => ~DryRun
    /\ BlockingFindingsFail

LEMMA ExitStarts == Init => ExitInv
<1>1. Init => step = "idle" /\ exit = NoExit /\ printed = <<>>
  BY DEF Init, CommandInit, NotPrinted
<1>2. Len(<<>>) = 0
  OBVIOUS
<1>3. QED
  BY <1>1, <1>2 DEF ExitInv, WithHandler, BlockingFindingsFail

\* A step by which the command does not end, and no output is made.
LEMMA ExitRest ==
    ASSUME ExitInv, UNCHANGED <<exit, printed, invocation>>,
           step' \in WithHandler =>
               step \in WithHandler /\ handler'.settings = handler.settings,
           step' = "complete" => step = "complete",
           step' = "done" => UNCHANGED <<step, suppress, matches, response, handler>>
    PROVE  ExitInv'
<1>1. UNCHANGED DryRun
  BY DEF DryRun
<1>2. BlockingFindingsFail'
  <2>1. CASE step' # "done"
    BY <2>1 DEF BlockingFindingsFail
  <2>2. CASE step' = "done"
    <3>1. UNCHANGED <<ShownMatches, BlockingMatches>>
      BY <2>2, FindingsStay
    <3>2. QED
      BY <1>1, <2>2, <3>1 DEF ExitInv, BlockingFindingsFail
  <2>3. QED
    BY <2>1, <2>2
<1>3. QED
  BY <1>1, <1>2 DEF ExitInv

\* A command ends before it has made an output, or is not ci.
LEMMA ExitEarly ==
    ASSUME ExitInv, step' = "done", exit' \in ExitCodes,
           printed' = <<>> \/ invocation'.word # "ci",
           Len(printed') <= 1
    PROVE  ExitInv'
BY DEF ExitInv, BlockingFindingsFail, WithHandler

\* Each output is one.
LEMMA OneOutput ==
    ASSUME NEW output
    PROVE  Len(<<output>>) <= 1
OBVIOUS

\* run_scan does not change what is asked of the output.
LEMMA SettingsStay ==
    ASSUME FolderInv, FixInv, ToldInv, ScanStep
    PROVE  handler'.settings = handler.settings
<1>1. CASE Engine
  BY <1>1 DEF Engine, scanVars
<1> SUFFICES ASSUME ScanAdvance
             PROVE  handler'.settings = handler.settings
  BY <1>1 DEF ScanStep
<1>2. IsHandler(handler) /\ AreErrors(handler.errors)
  BY DEF ToldInv
<1>3. stage # "ended" => IsRequest(request)
  BY ScanIsUnderWay DEF ToldInv
<1>4. CASE LoadRules
  <2> DEFINE errors == ConfigOf(request.config).errors
             after  == HandleSemgrepErrors(handler, errors)
  <2>1. stage # "ended" /\ (handler' = handler \/ handler' = after)
    BY <1>4 DEF LoadRules, Ends
  <2>2. AreErrors(errors)
    BY <1>3, <2>1, ConfigErrors DEF IsRequest
  <2> HIDE DEF errors
  <2>3. /\ IsHandler(after) /\ AreErrors(after.errors)
        /\ after.settings = handler.settings
        /\ ToSet(after.errors) = ToSet(handler.errors) \cup ToSet(errors)
    BY <1>2, <2>2, HandlerGrows
  <2> HIDE DEF after
  <2>4. QED
    BY <2>1, <2>3
<1>5. CASE Prepare
  <2>1. stage = "prepare" /\ PrepareRules(CurrentSubprojects)
    BY <1>5 DEF Prepare
  <2>2. QED
    BY <1>2, <1>3, <2>1, RulesAreRun DEF FolderInv
<1>6. CASE TakeHead \/ TakeBaseline
  <2>1. /\ stage = "engine"
        /\ \E lost \in LostFiles :
               handler' = HandleSemgrepErrors(handler, JoinErrors \o TimeoutErrors(lost))
    BY <1>6 DEF TakeHead, TakeBaseline, Answered
  <2>2. IsFiniteSet(AllTargets([tasks |-> job.plan]))
    BY <2>1 DEF ToldInv
  <2>3. QED
    BY <1>2, <2>1, <2>2, LostAreTold
<1>7. CASE InitBaseline \/ SelectTargets
  BY <1>7 DEF InitBaseline, SelectTargets
<1>8. CASE TakeFailure
  BY <1>8 DEF TakeFailure
<1>8a. CASE PrepareFails
  <2>1. stage = "prepare"
    BY <1>8a DEF PrepareFails
  <2>2. QED
    BY <1>2, <1>3, <1>8a, <2>1, ResolutionIsTold DEF PrepareFails, FolderInv
<1>9. CASE SkipBaseline \/ EnterBaseline \/ GitLogFails \/ EnterBaselineFails
  BY <1>9 DEF SkipBaseline, EnterBaseline, GitLogFails, EnterBaselineFails, Comparing
<1>10. CASE LeaveBaseline \/ Finish
  BY <1>10 DEF LeaveBaseline, Finish
<1>11. QED
  BY <1>4, <1>5, <1>6, <1>7, <1>8, <1>9, <1>10, <1>8a DEF ScanAdvance

LEMMA ExitScan == FolderInv /\ FixInv /\ ToldInv /\ ExitInv /\ RunScanStep => ExitInv'
<1> SUFFICES ASSUME FolderInv, FixInv, ToldInv, ExitInv, RunScanStep
             PROVE  ExitInv'
  OBVIOUS
<1>1. UNCHANGED <<step, exit, printed, invocation, suppress, response>>
  BY DEF RunScanStep, commandVars, ciVars
<1>2. handler'.settings = handler.settings
  BY SettingsStay DEF RunScanStep
<1>3. CASE step # "done"
  BY <1>1, <1>2, <1>3, ExitRest
<1>4. CASE step = "done"
  <2>1. UNCHANGED <<matches, handler>>
    BY <1>4, ScanIsUnderWay DEF RunScanStep, ScanStep, Engine, scanVars, InRunScan
  <2>2. QED
    BY <1>1, <1>2, <2>1, ExitRest
<1>5. QED
  BY <1>3, <1>4

LEMMA ExitCommand == FixInv /\ StepInv /\ ToldInv /\ ExitInv /\ CommandStep => ExitInv'
<1> SUFFICES ASSUME FixInv, StepInv, ToldInv, ExitInv
             PROVE  CommandStep => ExitInv'
  OBVIOUS
<1>1. CheckRules => ExitInv'
  BY ExitRest DEF CheckRules, commandVars, WithHandler
<1>2. ASSUME step \in ScanSteps
      PROVE  invocation.word # "ci"
  BY <1>2 DEF StepInv, ResolveCommand
<1>3. ASSUME step \in ScanSteps, NEW how, LeaveCommand(how),
             how.kind = "crash" \/ how.code \in ExitCodes,
             Len(printed') <= 1
      PROVE  ExitInv'
  <2>1. exit' \in ExitCodes /\ step' = "done" /\ invocation' = invocation
    BY <1>3, CodesAreSent DEF LeaveCommand
  <2>2. QED
    BY <1>2, <1>3, <2>1, ExitEarly
<1>4. ASSUME NEW told, AreErrors(told.errors), NEW how, ErrorsThen(told, how),
             step \in ScanSteps, how.kind = "crash" \/ how.code \in ExitCodes
      PROVE  ExitInv'
  <2> DEFINE code == OutputCode(told, {})
             ends == IF OutputRaises(told, {}) THEN Error(code) ELSE how
  <2>1. LeaveCommand(ends) /\ Len(printed') <= 1
    BY <1>4, OneOutput DEF ErrorsThen
  <2>2. code \in ExitCodes
    BY <1>4, OutputCodes
  <2> HIDE DEF code
  <2>3. ends.kind = "crash" \/ ends.code \in ExitCodes
    BY <1>4, <2>2 DEF Error
  <2> HIDE DEF ends
  <2>4. QED
    BY <1>3, <1>4, <2>1, <2>3
<1>5. /\ Error(Fatal).code \in ExitCodes /\ NotRaised.code \in ExitCodes
      /\ \A asked : GetConfig(asked).raised => Error(GetConfig(asked).code).code \in ExitCodes
  BY Raises, Codes DEF Error, ExitCodes
<1>6. ValidateWithoutEngine => ExitInv'
  <2> SUFFICES ASSUME ValidateWithoutEngine
               PROVE  ExitInv'
    OBVIOUS
  <2>1. step \in ScanSteps /\ UNCHANGED printed
    BY DEF ValidateWithoutEngine, ScanSteps
  <2>2. \E how : LeaveCommand(how) /\ (how.kind = "crash" \/ how.code \in ExitCodes)
    <3> DEFINE nothing == Configs.pattern = <<>> /\ Configs.lang = "none" /\ Configs.configs = <<>>
               how == CASE nothing -> NotRaised
                        [] GetConfig(Configs).raised -> Error(GetConfig(Configs).code)
                        [] OTHER -> Crash
    <3>1. LeaveCommand(how)
      BY Zenon DEF ValidateWithoutEngine
    <3> HIDE DEF nothing
    <3>2. how = NotRaised \/ how = Crash
          \/ (GetConfig(Configs).raised /\ how = Error(GetConfig(Configs).code))
      OBVIOUS
    <3> HIDE DEF how
    <3>3. how.kind = "crash" \/ how.code \in ExitCodes
      BY <1>5, <3>2, Raises
    <3>4. QED
      BY <3>1, <3>3
  <2>3. QED
    BY <1>3, <2>1, <2>2 DEF ExitInv
<1>7. Validated => ExitInv'
  <2> SUFFICES ASSUME Validated
               PROVE  ExitInv'
    OBVIOUS
  <2>1. /\ step \in ScanSteps
        /\ \/ LeaveCommand(NotRaised) /\ UNCHANGED <<handler, printed>>
           \/ ErrorsThen(handler', Error(Fatal))
    BY DEF Validated, ScanSteps
  <2>2. AreErrors(handler'.errors)
    BY ValidationIsTold DEF ToldInv
  <2>3. QED
    BY <1>3, <1>4, <1>5, <2>1, <2>2 DEF ExitInv
<1>8. ScanFailed => ExitInv'
  <2> SUFFICES ASSUME ScanFailed
               PROVE  ExitInv'
    OBVIOUS
  <2>1. /\ step \in ScanSteps /\ raised.kind = "error" /\ ErrorsThen(handler', raised)
        /\ handler' = HandleSemgrepErrors(handler, <<SemgrepErrorOf(raised.code)>>)
    BY DEF ScanFailed, ScanSteps
  <2>2. AreErrors(handler'.errors)
    BY <2>1, FailureIsTold
  <2>3. raised.code \in ExitCodes
    BY DEF StepInv, ExitCodes
  <2>4. QED
    BY <1>4, <2>1, <2>2, <2>3
<1>9. ScanLeft => ExitInv'
  BY <1>3 DEF ScanLeft, ScanSteps, StepInv, ExitCodes, ExitInv
<1>10. ScanDone => ExitInv'
  <2> SUFFICES ASSUME ScanDone
               PROVE  ExitInv'
    OBVIOUS
  <2> DEFINE code == OutputCode(handler, AllMatches(matches))
             how == IF OutputRaises(handler, AllMatches(matches)) THEN Error(code) ELSE NotRaised
  <2>1. step \in ScanSteps /\ LeaveCommand(how) /\ Len(printed') <= 1
    BY OneOutput DEF ScanDone, ScanSteps
  <2>2. code \in ExitCodes
    BY OutputCodes DEF ToldInv
  <2> HIDE DEF code
  <2>3. how.kind = "crash" \/ how.code \in ExitCodes
    BY <1>5, <2>2 DEF Error
  <2> HIDE DEF how
  <2>4. QED
    BY <1>3, <2>1, <2>3
<1>11. QED
  BY <1>1, <1>6, <1>7, <1>8, <1>9, <1>10 DEF CommandStep, ScanCommandStep

LEMMA ExitCi == FixInv /\ StepInv /\ ToldInv /\ ExitInv /\ CiCommandStep => ExitInv'
<1> SUFFICES ASSUME FixInv, StepInv, ToldInv, ExitInv
             PROVE  CiCommandStep => ExitInv'
  OBVIOUS
<1> USE DEF WithHandler
<1>1. printed # <<>> => step \in AfterTheOutput
  BY DEF ToldInv
<1>2. ASSUME NEW how, LeaveCommand(how), UNCHANGED printed, printed = <<>>,
             how.kind = "crash" \/ how.code \in ExitCodes
      PROVE  ExitInv'
  <2>1. exit' \in ExitCodes /\ step' = "done"
    BY <1>2, CodesAreSent DEF LeaveCommand
  <2>2. QED
    BY <1>2, <2>1, ExitEarly DEF ExitInv
<1>3. /\ \A code \in {Fatal, MissingConfig, InvalidApiKey} :
             Exit(code).code \in ExitCodes /\ Error(code).code \in ExitCodes
      /\ Refused.kind = "crash" /\ raised.code \in ExitCodes
  BY Codes DEF Exit, Error, Refused, Crash, ExitCodes, StepInv
<1>4. ConfigureErrors \/ StartWithoutApp \/ SkipHistory => ExitInv'
  BY ExitRest DEF ConfigureErrors, StartWithoutApp, SkipHistory, scanVars
<1>5. ReadEnvironment => ExitInv'
  <2> SUFFICES ASSUME ReadEnvironment
               PROVE  ExitInv'
    OBVIOUS
  <2>1. /\ step = "environment" /\ UNCHANGED printed
        /\ \/ LeaveCommand(Error(Fatal))
           \/ LeaveCommand(Refused)
           \/ step' = "connect" /\ UNCHANGED <<invocation, exit>>
    BY DEF ReadEnvironment, FixHead, Refused
  <2>2. printed = <<>>
    BY <1>1, <2>1 DEF AfterTheOutput
  <2>3. QED
    BY <1>2, <1>3, <2>1, <2>2, ExitRest
<1>6. StartCiScan => ExitInv'
  <2> SUFFICES ASSUME StartCiScan
               PROVE  ExitInv'
    OBVIOUS
  <2>1. /\ step = "connect" /\ UNCHANGED printed
        /\ \/ \E code \in {Fatal, MissingConfig, InvalidApiKey} : LeaveCommand(Exit(code))
           \/ step' \in {"connect", "started"} /\ UNCHANGED <<invocation, exit>>
    BY DEF StartCiScan
  <2>2. printed = <<>>
    BY <1>1, <2>1 DEF AfterTheOutput
  <2>3. CASE step' \in {"connect", "started"} /\ UNCHANGED <<invocation, exit>>
    BY <2>1, <2>3, ExitRest
  <2>4. ASSUME NEW code \in {Fatal, MissingConfig, InvalidApiKey}, LeaveCommand(Exit(code))
        PROVE  ExitInv'
    BY <1>2, <1>3, <2>1, <2>2, <2>4
  <2>5. QED
    BY <2>1, <2>3, <2>4
<1>7. RunCiScan => ExitInv'
  <2> SUFFICES ASSUME RunCiScan
               PROVE  ExitInv'
    OBVIOUS
  <2>1. /\ step = "started" /\ UNCHANGED printed
        /\ \/ LeaveCommand(Exit(Fatal))
           \/ step' = "ci_scan" /\ handler' = NewHandler(CiSettings) /\ UNCHANGED exit
    BY DEF RunCiScan, StartScan
  <2>2. printed = <<>>
    BY <1>1, <2>1 DEF AfterTheOutput
  <2>3. {"strict", "errorOnFindings"} \subseteq DOMAIN invocation.settings
    BY <2>1, CliAssumption DEF FixInv
  <2>4. CiSettings.strict = FALSE /\ CiSettings.errorOnFindings = FALSE
    BY <2>3 DEF CiSettings
  <2>5. LET settings == NewHandler(CiSettings).settings
        IN settings.strict = FALSE /\ settings.errorOnFindings = FALSE
    BY <2>4 DEF NewHandler
  <2>6. CASE step' = "ci_scan" /\ handler' = NewHandler(CiSettings) /\ UNCHANGED exit
    BY <2>1, <2>2, <2>5, <2>6 DEF ExitInv, BlockingFindingsFail
  <2>7. QED
    BY <1>2, <1>3, <2>1, <2>2, <2>6
<1>8. ReportFailure => ExitInv'
  <2> SUFFICES ASSUME ReportFailure
               PROVE  ExitInv'
    OBVIOUS
  <2>1. /\ step = "ci_scan" /\ UNCHANGED <<printed, handler>>
        /\ \/ LeaveCommand(Refused)
           \/ step' \in {"ci_scan", "failed"} /\ UNCHANGED <<invocation, exit>>
    BY DEF ReportFailure, scanVars
  <2>2. printed = <<>>
    BY <1>1, <2>1 DEF AfterTheOutput
  <2>3. QED
    BY <1>2, <1>3, <2>1, <2>2, ExitRest
<1>9. CiFailed => ExitInv'
  <2> SUFFICES ASSUME CiFailed
               PROVE  ExitInv'
    OBVIOUS
  <2> DEFINE code == OutputCode(handler', {})
  <2>1. /\ step = "failed" /\ ErrorsThen(handler', Exit(raised.code))
        /\ handler' = HandleSemgrepErrors(handler, <<SemgrepErrorOf(raised.code)>>)
    BY DEF CiFailed
  <2>2. raised.kind = "error" /\ raised.code \in ErrorCodes
    BY <2>1 DEF StepInv
  <2>3. /\ AreErrors(handler'.errors) /\ handler'.settings = handler.settings
        /\ handler'.errors # <<>> /\ Last(handler'.errors) = SemgrepErrorOf(raised.code)
    BY <2>1, <2>2, FailureIsTold
  <2>4. handler'.settings.strict = FALSE /\ handler'.settings.errorOnFindings = FALSE
    BY <2>1, <2>3 DEF ExitInv
  <2>5. \A found : OutputRaises(handler', found)
    BY <2>2, <2>3, <2>4, FailureRaises
  <2>6. code \in ExitCodes /\ code # Ok
    BY <2>3, <2>4, <2>5, OutputCodes, RaisingIsNotOk
  <2>7. LeaveCommand(Error(code)) /\ Len(printed') <= 1
    BY <2>1, <2>5, OneOutput DEF ErrorsThen
  <2> HIDE DEF code
  <2>8. Error(code).code = code
    BY DEF Error
  <2>9. exit' \in ExitCodes /\ (exit' = Ok => suppress)
    BY <2>6, <2>7, <2>8, CodesAreSent, OkIsSuppressed DEF LeaveCommand
  <2>10. step' = "done" /\ suppress' = suppress
    BY <2>7 DEF LeaveCommand
  <2>11. BlockingFindingsFail'
    BY <2>5, <2>9, <2>10 DEF BlockingFindingsFail
  <2>12. QED
    BY <2>7, <2>9, <2>10, <2>11 DEF ExitInv
<1>10. CiLeft => ExitInv'
  <2> SUFFICES ASSUME CiLeft
               PROVE  ExitInv'
    OBVIOUS
  <2>1. step = "ci_scan" /\ UNCHANGED printed /\ LeaveCommand(raised)
    BY DEF CiLeft
  <2>2. printed = <<>>
    BY <1>1, <2>1 DEF AfterTheOutput
  <2>3. QED
    BY <1>2, <1>3, <2>1, <2>2
<1>11. RunHistory => ExitInv'
  BY ExitRest DEF RunHistory
<1>12. TakeHistory => ExitInv'
  <2> SUFFICES ASSUME TakeHistory
               PROVE  ExitInv'
    OBVIOUS
  <2>1. /\ step = "ci_history" /\ UNCHANGED printed
        /\ \/ LeaveCommand(raised)
           \/ /\ step' = "results" /\ UNCHANGED <<invocation, exit>>
              /\ \/ UNCHANGED handler
                 \/ /\ raised.kind = "error"
                    /\ handler' = HandleSemgrepErrors(handler, <<SemgrepErrorOf(raised.code)>>)
    BY DEF TakeHistory
  <2>2. printed = <<>>
    BY <1>1, <2>1 DEF AfterTheOutput
  <2>3. CASE LeaveCommand(raised)
    BY <1>2, <1>3, <2>1, <2>2, <2>3
  <2>4. CASE ~LeaveCommand(raised)
    <3>1. handler'.settings = handler.settings
      BY <2>1, <2>4, FailureIsTold
    <3>2. QED
      BY <2>1, <2>4, <3>1, ExitRest
  <2>5. QED
    BY <2>3, <2>4
<1>13. ShowFindings => ExitInv'
  <2> SUFFICES ASSUME ShowFindings
               PROVE  ExitInv'
    OBVIOUS
  <2> DEFINE found == AllMatches(ShownMatches)
             code  == OutputCode(handler, found)
  <2>1. /\ step = "results" /\ UNCHANGED <<matches, response, handler, invocation>>
        /\ \/ step' \in {"upload", "verdict"} /\ UNCHANGED <<exit, printed>>
           \/ /\ printed' = <<Outputs(handler, ShownMatches, scanned, log, TRUE)>>
              /\ step' \in {"upload", "verdict"} /\ UNCHANGED exit
           \/ /\ printed' = <<Outputs(handler, ShownMatches, scanned, log, TRUE)>>
              /\ OutputRaises(handler, found) /\ LeaveCommand(Error(code))
    BY DEF ShowFindings, LeaveCommand, ciVars, scanVars
  <2>2. Len(printed') <= 1
    BY <2>1, OneOutput DEF ExitInv
  <2>3. CASE step' \in {"upload", "verdict"} /\ UNCHANGED exit
    BY <2>1, <2>2, <2>3 DEF ExitInv, BlockingFindingsFail
  <2>4. CASE OutputRaises(handler, found) /\ LeaveCommand(Error(code))
    <3>1. AreErrors(handler.errors) /\ handler.settings.strict = FALSE
      BY <2>1 DEF ToldInv, ExitInv
    <3>2. code \in ExitCodes /\ code # Ok
      BY <2>4, <3>1, OutputCodes, RaisingIsNotOk
    <3>3. OutputRaises(handler', AllMatches(ShownMatches)')
      <4>1. ShownMatches' = ShownMatches /\ handler' = handler
        BY <2>1, FindingsStay
      <4>2. QED
        BY <2>4, <4>1
    <3> HIDE DEF code, found
    <3>4. Error(code).code = code
      BY DEF Error
    <3>5. exit' \in ExitCodes /\ (exit' = Ok => suppress)
      BY <2>4, <3>2, <3>4, CodesAreSent, OkIsSuppressed DEF LeaveCommand
    <3>6. step' = "done" /\ suppress' = suppress
      BY <2>4 DEF LeaveCommand
    <3>7. BlockingFindingsFail'
      BY <3>3, <3>5, <3>6 DEF BlockingFindingsFail
    <3>8. QED
      BY <2>2, <3>5, <3>6, <3>7 DEF ExitInv
  <2>5. QED
    BY <2>1, <2>3, <2>4
<1>14. ASSUME LeaveCommand(Refused), UNCHANGED printed, ~DryRun,
              (invocation.app.results \cup invocation.app.complete)
                  \cap {"refused", "lost", "unreachable"} # {}
       PROVE  ExitInv'
  <2>1. exit' \in ExitCodes /\ (exit' = Ok => suppress)
    BY <1>3, <1>14, CodesAreSent, OkIsSuppressed DEF LeaveCommand
  <2>2. step' = "done" /\ UNCHANGED <<suppress, invocation>>
    BY <1>14 DEF LeaveCommand
  <2>3. ~DryRun'
    BY <1>14, <2>2 DEF DryRun
  <2>4. BlockingFindingsFail'
    BY <1>14, <2>1, <2>2, <2>3 DEF BlockingFindingsFail
  <2>5. QED
    BY <1>14, <2>1, <2>2, <2>4 DEF ExitInv
<1>15. ASSUME step \in CiSteps
       PROVE  IsCiInvocation(invocation)
  BY <1>15, CliAssumption DEF FixInv, StepInv, CiSteps
<1>16. SendResults => ExitInv'
  <2> SUFFICES ASSUME SendResults
               PROVE  ExitInv'
    OBVIOUS
  <2>1. /\ step = "upload" /\ UNCHANGED <<printed, handler>>
        /\ \/ step' \in {"upload", "verdict"} /\ UNCHANGED <<invocation, exit>>
           \/ step' = "complete" /\ ~DryRun /\ UNCHANGED <<invocation, exit>>
           \/ /\ ~DryRun /\ LeaveCommand(Refused)
              /\ \E answer \in invocation.app.results : answer # "ok"
    BY DEF SendResults, scanVars
  <2>2. CASE step' \in {"upload", "verdict"} /\ UNCHANGED <<invocation, exit>>
    BY <2>1, <2>2, ExitRest
  <2>3. CASE step' = "complete" /\ ~DryRun /\ UNCHANGED <<invocation, exit>>
    <3>1. ~DryRun'
      BY <2>3 DEF DryRun
    <3>2. QED
      BY <2>1, <2>3, <3>1 DEF ExitInv, BlockingFindingsFail
  <2>4. CASE /\ ~DryRun /\ LeaveCommand(Refused)
             /\ \E answer \in invocation.app.results : answer # "ok"
    <3>1. IsCiInvocation(invocation)
      BY <1>15, <2>1 DEF CiSteps
    <3>2. (invocation.app.results \cup invocation.app.complete)
              \cap {"refused", "lost", "unreachable"} # {}
      BY <2>4, <3>1 DEF IsCiInvocation
    <3>3. QED
      BY <1>14, <2>1, <2>4, <3>2
  <2>5. QED
    BY <2>1, <2>2, <2>3, <2>4
<1>17. SendComplete => ExitInv'
  <2> SUFFICES ASSUME SendComplete
               PROVE  ExitInv'
    OBVIOUS
  <2>0. invocation.app.complete \subseteq {"ok", "processing", "refused", "lost", "unreachable"}
    <3>1. step \in CiSteps
      BY DEF SendComplete, CiSteps
    <3>2. QED
      BY <1>15, <3>1 DEF IsCiInvocation
  <2>1. /\ step = "complete" /\ UNCHANGED <<printed, handler>>
        /\ \/ step' \in {"complete", "verdict"} /\ UNCHANGED <<invocation, exit>>
           \/ /\ LeaveCommand(Refused)
              /\ invocation.app.complete \cap {"refused", "lost", "unreachable"} # {}
    BY <2>0 DEF SendComplete, scanVars
  <2>2. ~DryRun
    BY <2>1 DEF ExitInv
  <2>3. CASE step' \in {"complete", "verdict"} /\ UNCHANGED <<invocation, exit>>
    BY <2>1, <2>3, ExitRest
  <2>4. CASE LeaveCommand(Refused) /\ invocation.app.complete \cap {"refused", "lost", "unreachable"} # {}
    BY <1>14, <2>1, <2>2, <2>4
  <2>5. QED
    BY <2>1, <2>3, <2>4
<1>18. Verdict => ExitInv'
  <2> SUFFICES ASSUME Verdict
               PROVE  ExitInv'
    OBVIOUS
  <2> DEFINE blocked == BlockingMatches # {} \/ BlockedByApp
             code == IF ~invocation.meta.audit /\ blocked THEN Findings ELSE Ok
  <2>1. UNCHANGED <<printed, matches, response, handler>>
    BY DEF Verdict, ciVars, scanVars
  <2>2. LeaveCommand(Exit(code))
    BY DEF Verdict, SuggestedExitCode, Findings, Ok
  <2>3. step' = "done" /\ UNCHANGED invocation /\ exit' = code
    BY <2>2 DEF LeaveCommand, Exit, Send, SendIf, WrapperCode
  <2>4. exit' = Ok => BlockingMatches = {} \/ invocation.meta.audit
    BY <2>3 DEF Findings, Ok
  <2>5. BlockingMatches' = BlockingMatches
    BY <2>1, <2>3, FindingsStay
  <2>6. BlockingFindingsFail'
    BY <2>3, <2>4, <2>5 DEF BlockingFindingsFail
  <2>7. exit' \in ExitCodes
    BY <2>3, Codes DEF ExitCodes, ErrorCodes
  <2>8. QED
    BY <2>1, <2>3, <2>6, <2>7 DEF ExitInv
<1>19. RestoreCheckout => ExitInv'
  BY ExitRest DEF RestoreCheckout, commandVars, scanVars
<1>20. QED
  BY <1>4, <1>5, <1>6, <1>7, <1>8, <1>9, <1>10, <1>11, <1>12, <1>13, <1>16, <1>17, <1>18, <1>19
     DEF CiCommandStep

\* What ends a command before it does anything.
LEMMA PreflightCodes ==
    \A asked : /\ PreflightOf(asked).kind = "crash" \/ PreflightOf(asked).code \in ExitCodes
               /\ CiPreflight(asked).code \in ExitCodes
<1>1. \A test : TestEnds(test).kind = "crash" \/ TestEnds(test).code \in ExitCodes
  BY DEF TestEnds, ExitCodes, ErrorCodes, Ok, Findings, Fatal
<1>2. /\ \A code \in {Ok, Fatal, InvalidApiKey} : Exit(code).code \in ExitCodes
      /\ Crash.kind = "crash" /\ NotRaised.code \in ExitCodes
  BY DEF Exit, Crash, NotRaised, ExitCodes, ErrorCodes, Ok
<1>3. \A asked : PreflightOf(asked).kind = "crash" \/ PreflightOf(asked).code \in ExitCodes
  BY <1>1, <1>2 DEF PreflightOf
<1>4. \A asked : CiPreflight(asked).code \in ExitCodes
  BY <1>2 DEF CiPreflight
<1>5. QED
  BY <1>3, <1>4

LEMMA ExitStep ==
    FolderInv /\ FixInv /\ StepInv /\ ToldInv /\ ExitInv /\ [Next]_vars => ExitInv'
<1> SUFFICES ASSUME FolderInv, FixInv, StepInv, ToldInv, ExitInv, [Next]_vars
             PROVE  ExitInv'
  OBVIOUS
<1>1. ASSUME step = "idle"
      PROVE  printed = <<>>
  BY <1>1 DEF ToldInv, AfterTheOutput
<1>2. ASSUME NEW asked \in Invocations, CallScan(asked)
      PROVE  ExitInv'
  <2>1. /\ step = "idle" /\ UNCHANGED printed
        /\ \/ step' = "done" /\ exit' = Send(WrapperCode(PreflightOf(asked)))
           \/ step' \in {"validate", "scan"} /\ UNCHANGED exit
    BY <1>2 DEF CallScan
  <2>2. CASE step' = "done" /\ exit' = Send(WrapperCode(PreflightOf(asked)))
    <3>1. exit' \in ExitCodes
      BY <2>2, PreflightCodes, CodesAreSent
    <3>2. QED
      BY <1>1, <2>1, <2>2, <3>1, ExitEarly DEF ExitInv
  <2>3. CASE step' \in {"validate", "scan"} /\ UNCHANGED exit
    BY <2>1, <2>3 DEF ExitInv, BlockingFindingsFail, WithHandler
  <2>4. QED
    BY <2>1, <2>2, <2>3
<1>3. ASSUME NEW asked \in Invocations, CallCi(asked)
      PROVE  ExitInv'
  <2>1. /\ step = "idle" /\ UNCHANGED printed
        /\ \/ /\ step' = "done"
              /\ exit' = SendIf(asked.suppressErrors, WrapperCode(CiPreflight(asked)))
           \/ step' = "configure" /\ UNCHANGED exit
    BY <1>3 DEF CallCi
  <2>2. CASE step' = "done" /\ exit' = SendIf(asked.suppressErrors, WrapperCode(CiPreflight(asked)))
    <3>1. exit' \in ExitCodes
      BY <2>2, PreflightCodes, Codes DEF SendIf, WrapperCode, ExitCodes
    <3>2. QED
      BY <1>1, <2>1, <2>2, <3>1, ExitEarly DEF ExitInv
  <2>3. CASE step' = "configure" /\ UNCHANGED exit
    BY <2>1, <2>3 DEF ExitInv, BlockingFindingsFail, WithHandler
  <2>4. QED
    BY <2>1, <2>2, <2>3
<1>4. CASE RunScanStep
  BY <1>4, ExitScan
<1>5. CASE CommandStep
  BY <1>5, ExitCommand
<1>6. CASE CiCommandStep
  BY <1>6, ExitCi
<1>7. CASE GiveUpSoon
  BY <1>7, ExitRest DEF GiveUpSoon, commandVars, scanVars
<1>8. CASE Exited \/ UNCHANGED vars
  BY <1>8, ExitRest DEF Exited, vars, commandVars, ciVars, scanVars
<1>9. QED
  BY <1>2, <1>3, <1>4, <1>5, <1>6, <1>7, <1>8 DEF Next, Call

\* A build with a blocking finding that the user was shown does not succeed unless
\* it is audited, or --suppress-errors hides that output() raised or that a request
\* to the app failed: whatever the app, the network and the scan of the history do
\* between the output and the verdict.
THEOREM BlockingFindingsAlwaysFail == Spec => []BlockingFindingsFail
<1>1. ExitInv => BlockingFindingsFail
  BY DEF ExitInv
<1>2. QED
  BY <1>1, FolderStarts, FolderStep, FixStarts, FixStep, StepStarts, StepStep, ToldStarts,
     ToldStep, ExitStarts, ExitStep, PTL DEF Spec

\* The variables of the commands, of run_scan and of the engine are what they may
\* be, and the command exits with no code but those of findings and of its errors.
THEOREM CliTypeOK == Spec => []TypeOK
<1>1. CoreInv => CoreTypeOK
  BY DEF CoreInv, ProcessInv, PipeInv, CallInv, CoreTypeOK
<1>2. CoreTypeOK /\ FolderInv /\ StepInv /\ ExitInv => TypeOK
  BY DEF FolderInv, StepInv, ExitInv, ExitCodes, Stages, ScanSteps, CiSteps, TypeOK
<1>3. QED
  BY <1>1, <1>2, CoreSafety, FolderStarts, FolderStep, FixStarts, FixStep, StepStarts,
     StepStep, ToldStarts, ToldStep, ExitStarts, ExitStep, PTL DEF Spec
=============================================================================
