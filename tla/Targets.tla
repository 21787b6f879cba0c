------------------------------ MODULE Targets ------------------------------
(***************************************************************************)
(* Which files a scan looks at: target_manager.py, ignores.py, and the     *)
(* part of git.py that lists the changed files.  A path is the sequence of *)
(* the names on it, from the current folder.  A tree is the content of the *)
(* folder:                                                                 *)
(*   files      every file, symbolic links included                       *)
(*   links      the symbolic links                                         *)
(*   repo       TRUE when git can list the files                           *)
(*   listed     what "git ls-files" lists, with --others or without        *)
(* and tm is a TargetManager:                                              *)
(*   targets    target_strings          git        respect_git_ignore      *)
(*   status     the GitStatus of the baseline handler, or NoStatus         *)
(*   includes   --include               excludes   --exclude, by product   *)
(*   ignore     patterns of the ignore profile, by product                 *)
(*   rulePaths  respect_rule_paths      unknown    allow_unknown_extensions *)
(*   bypass     bypass_includes_excludes_for_files                         *)
(***************************************************************************)
EXTENDS Naturals, Sequences, SequencesExt

CONSTANTS
    Products,
    Languages,
    LanguagesOf,    \* LanguagesOf[f]: those with the extension or the shebang of f
    Big,            \* files larger than --max-target-bytes
    Unreadable,     \* files without read permission
    Lockfiles,      \* files that a subproject matcher knows
    Matching,       \* Matching[n]: the names that the pattern n of one name matches
    DotGit,         \* the name ".git"
    Sentinel,       \* the name ".__check__"
    NoStatus,
    AnyLanguage,    \* the language None
    Dependencies    \* the "language" dependency_source_files

-----------------------------------------------------------------------------
(* Patterns *)

\* A pattern of --include, --exclude or a rule matches the names in it
\* anywhere on the path (preprocess_path_patterns).
GlobMatch(path, pattern) ==
    \E i \in 1..(Len(path) - Len(pattern) + 1) :
        \A k \in 1..Len(pattern) : path[i + k - 1] \in Matching[pattern[k]]

\* A line of .semgrepignore has names, a slash before or after them, or none.
\* A slash before or in between anchors it; one after asks for a folder.
Anchored(line) == line.slashBefore \/ Len(line.names) > 1

Ignores(line, path) ==
    \E i \in 1..(Len(path) - Len(line.names) + 1) :
        /\ Anchored(line) => i = 1
        /\ line.folder => i + Len(line.names) - 1 < Len(path)
        /\ \A k \in 1..Len(line.names) : path[i + k - 1] \in Matching[line.names[k]]

Survives(lines, path) == ~\E line \in lines : Ignores(line, path)

-----------------------------------------------------------------------------
(* Target: the files below one path *)

Under(path, file) == IsPrefix(path, file)

IsFile(tree, path) == path \in tree.files

IsDir(tree, path) == \E f \in tree.files : f # path /\ Under(path, f)

\* A Target is not made of anything else: FilesNotFoundError.
ValidTarget(tree, path) ==
    /\ IsFile(tree, path) \/ IsDir(tree, path)
    /\ path \notin tree.links \cup Unreadable

FilesFromGitDiff(tm) == tm.status.added \cup tm.status.modified

FilesFromGitLs(tree, path) ==
    {f \in tree.listed \cap tree.files :
        Under(path, f) /\ f \notin tree.links \cup Unreadable}

FilesFromFilesystem(tree, path) ==
    {f \in tree.files \ tree.links : Under(path, f)}

\* Target.files.
FilesOfTarget(tree, tm, path, ignoreBaseline) ==
    IF IsFile(tree, path) THEN {path}
    ELSE IF tm.status # NoStatus
         THEN IF ignoreBaseline THEN FilesFromFilesystem(tree, path)
              ELSE FilesFromGitDiff(tm)
         ELSE IF tm.git /\ tree.repo THEN FilesFromGitLs(tree, path)
              ELSE FilesFromFilesystem(tree, path)

GetAllFiles(tree, tm, ignoreBaseline) ==
    UNION {FilesOfTarget(tree, tm, path, ignoreBaseline) : path \in tm.targets}

\* The walk does not go into a folder that a pattern of --exclude matches, or
\* in which a file called .__check__ would be ignored.
PrunesDir(tm, product, path, dir) ==
    \/ \E pattern \in tm.excludes[product] \cup {<<DotGit>>} :
           GlobMatch(SubSeq(dir, Len(path) + 1, Len(dir)), pattern)
    \/ ~Survives(tm.ignore[product], Append(dir, Sentinel))

PrunedWalk(tree, tm, product, path) ==
    {f \in FilesFromFilesystem(tree, path) :
        \A n \in (Len(path) + 1)..(Len(f) - 1) :
            ~PrunesDir(tm, product, path, SubSeq(f, 1, n))}

PrunedFilesOfTarget(tree, tm, product, path, ignoreBaseline) ==
    IF ~IsDir(tree, path) THEN FilesOfTarget(tree, tm, path, ignoreBaseline)
    ELSE IF tm.status # NoStatus
         THEN IF ignoreBaseline THEN PrunedWalk(tree, tm, product, path)
              ELSE FilesFromGitDiff(tm)
         ELSE IF tm.git /\ tree.repo
              THEN FilesFromGitLs(tree, path) \cap PrunedWalk(tree, tm, product, path)
              ELSE PrunedWalk(tree, tm, product, path)

GetAllFilesWithDirPruning(tree, tm, product, ignoreBaseline) ==
    UNION {PrunedFilesOfTarget(tree, tm, product, path, ignoreBaseline) :
              path \in tm.targets}

-----------------------------------------------------------------------------
(* TargetManager: the filters *)

FilterByLanguage(files, lang) ==
    {f \in files : CASE lang = AnyLanguage -> TRUE
                     [] lang = Dependencies -> f \in Lockfiles
                     [] OTHER -> lang \in LanguagesOf[f]}

FilterKnownExtensions(files) == {f \in files : LanguagesOf[f] = {}}

FilterIncludes(files, patterns) ==
    {f \in files : patterns = {} \/ \E p \in patterns : GlobMatch(f, p)}

FilterExcludes(files, patterns) ==
    {f \in files : ~\E p \in patterns : GlobMatch(f, p)}

FilterByPermission(tree, files) == (files \cap tree.files) \ Unreadable

FilterBySize(files) == files \ Big

FilterIgnored(tree, tm, product, files) ==
    {f \in files : IsFile(tree, f) /\ Survives(tm.ignore[product], f)}

\* The files named on the command line.
ExplicitFiles(tree, tm) == {path \in tm.targets : IsFile(tree, path)}

\* The filters of get_files_for_language in their order, from the files given:
\* what is left after each of them, the reason in the log being its name.
Filtered(tree, tm, lang, product, files) ==
    LET byLanguage == FilterByLanguage(files, lang)
        included   == FilterIncludes(byLanguage, tm.includes)
        unexcluded == FilterExcludes(included, tm.excludes[product])
        unskipped  == FilterExcludes(unexcluded, {<<DotGit>>})
        permitted  == FilterByPermission(tree, unskipped)
        small      == IF lang = Dependencies THEN permitted ELSE FilterBySize(permitted)
        unignored  == FilterIgnored(tree, tm, product, small)
    IN [kept |-> unignored,
        log |-> [by_language |-> files \ byLanguage,
                 cli_includes |-> byLanguage \ included,
                 cli_excludes |-> included \ unexcluded,
                 always_skipped |-> unexcluded \ unskipped,
                 insufficient_permissions |-> unskipped \ permitted,
                 size_limit |-> permitted \ small,
                 semgrepignored |-> small \ unignored]]

Reasons == {"by_language", "cli_includes", "cli_excludes", "always_skipped",
            "insufficient_permissions", "size_limit", "semgrepignored"}

\* What is added for the files named on the command line.
Restored(tree, tm, lang) ==
    LET explicit == ExplicitFiles(tree, tm)
    IN (IF tm.bypass
        THEN FilterByLanguage(explicit, IF lang = Dependencies THEN AnyLanguage ELSE lang)
        ELSE {})
       \cup (IF tm.unknown /\ lang # Dependencies
             THEN FilterKnownExtensions(explicit) ELSE {})

GetFilesForLanguage(tree, tm, lang, product, ignoreBaseline) ==
    Filtered(tree, tm, lang, product,
             GetAllFilesWithDirPruning(tree, tm, product, ignoreBaseline)).kept
    \cup Restored(tree, tm, lang)

\* The entries that the same call adds to ignore_log.
LogForLanguage(tree, tm, lang, product, ignoreBaseline) ==
    Filtered(tree, tm, lang, product,
             GetAllFilesWithDirPruning(tree, tm, product, ignoreBaseline)).log

\* A rule has its own paths; lang is one of its languages.
GetFilesForRule(tree, tm, lang, product, rule) ==
    LET files == GetFilesForLanguage(tree, tm, lang, product, FALSE)
    IN IF tm.rulePaths
       THEN FilterExcludes(FilterIncludes(files, rule.includes), rule.excludes)
       ELSE files

GetAllDependencySourceFiles(tree, tm, product, ignoreBaseline) ==
    GetFilesForLanguage(tree, tm, Dependencies, product, ignoreBaseline)

-----------------------------------------------------------------------------
(* What the log of one scan says (yield_json_objects) *)

EmptyLog == [reason \in Reasons |-> {}]

MergeLogs(one, other) == [reason \in Reasons |-> one[reason] \cup other[reason]]

\* by_language is not shown: unsupported_lang_paths needs all the languages.
Skipped(log) == UNION {log[reason] : reason \in Reasons \ {"by_language"}}
=============================================================================
