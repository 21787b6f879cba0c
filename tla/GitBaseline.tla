---------------------------- MODULE GitBaseline ----------------------------
(***************************************************************************)
(* What git says of the repository and of the baseline commit: git.py.     *)
(* A git is                                                                *)
(*   repo, commit     is this a repository, does the commit exist          *)
(*   isMergeBase      --is-mergebase: the commit is taken as it is         *)
(*   mergeBases       how many best common ancestors there are             *)
(*   direct, sinceMergeBase   what "git diff" prints against the commit,   *)
(*                    and against the one merge base: a sequence of        *)
(*                    [code, name, new, link, folder]                      *)
(*   head, base, ancestor     commits                                      *)
(***************************************************************************)
EXTENDS Integers, Sequences, FiniteSets, SequencesExt

\* The entries that _get_git_status reads past.
PassedOver(entry) ==
    \/ entry.code \in {" ", "?", "!"}
    \/ entry.link /\ entry.folder

\* _get_git_status, the parsing; renamed maps the new names to the old.
ParseStatus(entries) ==
    LET read == ToSet(SelectSeq(entries, LAMBDA e : ~PassedOver(e)))
        names(codes) == {e.name : e \in {x \in read : x.code \in codes}}
        renames == {e \in read : e.code = "R"}
    IN [added    |-> names({"A"}) \cup {e.new : e \in renames},
        modified |-> names({"M"})
                     \cup {e.name : e \in {x \in read : x.code = "T" /\ ~x.link}},
        removed  |-> names({"D", "R"}),
        unmerged |-> names({"U"}),
        renamed  |-> [new \in {e.new : e \in renames} |->
                         (CHOOSE e \in renames : e.new = new).name]]

\* BaselineHandler.__init__ raises: not a repository, no such commit, no common
\* ancestor to compare with.
BaselineRaises(git) ==
    ~git.repo \/ ~git.commit \/ (~git.isMergeBase /\ git.mergeBases = 0)

\* With several merge bases the commit itself is compared.
StatusOf(git) ==
    ParseStatus(IF git.isMergeBase \/ git.mergeBases > 1 THEN git.direct
                ELSE git.sinceMergeBase)

\* _get_git_merge_base.
MergeBaseOf(git) == IF git.isMergeBase THEN git.base ELSE git.ancestor
=============================================================================
