------------------------------ MODULE Versions ------------------------------
(***************************************************************************)
(* Versions of packages and the ranges of them that a rule names:          *)
(* golang_version.py, maven_version.py, package_restrictions.py.           *)
(*                                                                         *)
(* A version is [core, kind, ids, time, hash, raw, dashes]: the numbers    *)
(* before the first dash; for Go, kind "release", "pre" with its           *)
(* identifiers ids, or "pseudo" with a time and the hash of a commit; for  *)
(* Maven, kind "release", "snapshot", "qualified" with one identifier;     *)
(* for the others, kind "release", or "pre" and "post" with one identifier *)
(* for their place among those of the release.  "raw" is a text that does  *)
(* not parse: Maven compares it as a string, of which raw is the place in  *)
(* the order of all of them.  dashes is how many dashes its text has.  An  *)
(* identifier is [number |-> n], written without a leading zero, or        *)
(* [word |-> w], w being the place of the word in the order of the words.  *)
(* A range is a set of [op, version]; op is "invalid" when it is no        *)
(* specifier.                                                              *)
(***************************************************************************)
EXTENDS Integers, Sequences, FiniteSets

Sign(n) == IF n > 0 THEN 1 ELSE IF n < 0 THEN -1 ELSE 0

\* The first place at which two sequences differ, or 0.
Differs(one, other, n) ==
    LET places == {i \in 1..n : one[i] # other[i]}
    IN IF places = {} THEN 0 ELSE CHOOSE i \in places : \A j \in places : i <= j

-----------------------------------------------------------------------------
(* Go *)

CmpCore(one, other) ==
    LET i == Differs(one, other, 3) IN IF i = 0 THEN 0 ELSE Sign(one[i] - other[i])

\* One commit is one version, whatever the time.
CmpPseudo(one, other) ==
    IF one.hash = other.hash THEN 0 ELSE Sign(one.time - other.time)

IsNumber(id) == "number" \in DOMAIN id

CmpIdentifier(one, other) ==
    CASE IsNumber(one) /\ IsNumber(other) -> Sign(one.number - other.number)
      [] IsNumber(one) /\ ~IsNumber(other) -> -1
      [] ~IsNumber(one) /\ IsNumber(other) -> 1
      [] OTHER -> Sign(one.word - other.word)

\* What both have decides, then the one with more identifiers comes after.
CmpPreRelease(one, other) ==
    LET both == IF Len(one.ids) < Len(other.ids) THEN Len(one.ids) ELSE Len(other.ids)
        i    == Differs(one.ids, other.ids, both)
    IN IF i = 0 THEN Sign(Len(one.ids) - Len(other.ids))
       ELSE CmpIdentifier(one.ids[i], other.ids[i])

\* A pre-release that is compared with one that is not comes after it.
CmpGolang(one, other) ==
    CASE CmpCore(one.core, other.core) # 0 -> CmpCore(one.core, other.core)
      [] OTHER ->
           CASE one.kind = "pre" /\ other.kind = "pre" -> CmpPreRelease(one, other)
             [] one.kind = "pre" /\ other.kind # "pre" -> 1
             [] one.kind # "pre" /\ other.kind = "pre" -> -1
             [] one.kind = "pseudo" /\ other.kind = "pseudo" -> CmpPseudo(one, other)
             [] one.kind = "pseudo" /\ other.kind = "release" -> 1
             [] one.kind = "release" /\ other.kind = "pseudo" -> -1
             [] OTHER -> 0

-----------------------------------------------------------------------------
(* Maven *)

\* Incrementals that are not there are 0.
Padded(core, n) == [i \in 1..n |-> IF i <= Len(core) THEN core[i] ELSE 0]

CmpMavenCore(one, other) ==
    LET n == IF Len(one) < Len(other) THEN Len(other) ELSE Len(one)
        i == Differs(Padded(one, n), Padded(other, n), n)
    IN IF i = 0 THEN 0 ELSE Sign(Padded(one, n)[i] - Padded(other, n)[i])

QualifierRank(kind) ==
    CASE kind = "release" -> 2 [] kind = "snapshot" -> 1 [] OTHER -> 0

\* When one of them does not follow the standard both are strings.
CmpMaven(one, other) ==
    IF one.kind = "raw" \/ other.kind = "raw" THEN Sign(one.raw - other.raw)
    ELSE CASE CmpMavenCore(one.core, other.core) # 0 -> CmpMavenCore(one.core, other.core)
           [] OTHER -> IF one.kind = "qualified" /\ other.kind = "qualified"
                       THEN Sign(one.ids[1].word - other.ids[1].word)
                       ELSE Sign(QualifierRank(one.kind) - QualifierRank(other.kind))

-----------------------------------------------------------------------------
(* Ranges *)

Holds(op, sign) ==
    CASE op = "==" -> sign = 0 [] op = "!=" -> sign # 0
      [] op = "<=" -> sign <= 0 [] op = "<" -> sign < 0
      [] op = ">=" -> sign >= 0 [] OTHER -> sign > 0

\* Version, of the vendored packaging: a pre-release comes before its release, a
\* post-release after it.
Stage(kind) == CASE kind = "pre" -> 0 [] kind = "release" -> 1 [] OTHER -> 2

CmpRelease(one, other) ==
    CASE CmpMavenCore(one.core, other.core) # 0 -> CmpMavenCore(one.core, other.core)
      [] one.kind = other.kind /\ one.kind # "release" ->
           Sign(one.ids[1].word - other.ids[1].word)
      [] OTHER -> Sign(Stage(one.kind) - Stage(other.kind))

\* ~=: not before the version named, and like it in all numbers but the last.
Compatible(version, named) ==
    LET n == Len(named.core) - 1
    IN /\ CmpRelease(version, named) >= 0
       /\ Padded(SubSeq(version.core, 1, n), n) = SubSeq(named.core, 1, n)

\* Specifier: "<" has no pre-release of the release that it names, and ">" no
\* post-release.
Specifies(op, version, named) ==
    IF op = "~=" THEN Compatible(version, named)
    ELSE /\ Holds(op, CmpRelease(version, named))
         /\ CmpMavenCore(version.core, named.core) = 0 =>
                /\ op = "<" /\ version.kind = "pre" => named.kind = "pre"
                /\ op = ">" /\ version.kind = "post" => named.kind = "post"

\* SpecifierSet.filter of one version: a version that does not parse is in no
\* range, and a pre-release is, as there is no other version.
InSpecifierSet(range, version) ==
    version.kind # "raw" /\ \A s \in range : Specifies(s.op, version, s.version)

\* is_in_range: a Go version with fewer than three parts is not one of Go's.
IsInRange(ecosystem, range, version) ==
    CASE ecosystem = "maven" ->
           \A s \in range : Holds(s.op, CmpMaven(version, s.version))
      [] ecosystem = "gomod" /\ version.dashes >= 2 ->
           \A s \in range : Holds(s.op, CmpGolang(version, s.version))
      [] OTHER -> InSpecifierSet(range, version)

IsOf(have, wanted) ==
    have.ecosystem = wanted.ecosystem /\ have.package = wanted.package

\* It raises instead: for a version of Go that does not parse.
IsRaised(wanted, have) ==
    IsOf(have, wanted) /\ have.ecosystem = "gomod" /\ have.version.dashes >= 2
    /\ have.version.kind = "raw"

\* dependencies_range_match_any: the pairs of what a rule looks for and what
\* there is of it.
RangeMatches(wanted, have) ==
    {pair \in wanted \X have :
        /\ IsOf(pair[2], pair[1])
        /\ IsInRange(pair[1].ecosystem, pair[1].range, pair[2].version)}
=============================================================================
