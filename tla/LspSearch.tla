----------------------------- MODULE LspSearch -----------------------------
(***************************************************************************)
(* The streaming search of the language server (custom_requests/Search.ml  *)
(* with RPC_server.handle_client_message around it).  semgrep/search puts  *)
(* the files of the workspace in a queue; that request and each            *)
(* semgrep/searchOngoing after it answer with the matches of the next file *)
(* that has some.  A handler runs to its end before the next message; when *)
(* it raises, the server from before the message is kept.                  *)
(***************************************************************************)
EXTENDS Naturals, Sequences, SequencesExt

CONSTANTS
    InitialFiles,   \* env.initial_files, in the order of the queue
    NoSearch,
    MaxSearches,    \* bound: searches started
    MaxEdits        \* bound: changes to files

Files == ToSet(InitialFiles)

ASSUME LspSearchAssumption ==
    /\ InitialFiles \in Seq(Files) /\ IsInjective(InitialFiles)
    /\ NoSearch \notin [search : Nat, files : Seq(Files)]
    /\ {MaxSearches, MaxEdits} \subseteq Nat

\* What run_core_search makes of a file: matches, no match (or a file that is
\* not for the rules, or does not parse), or an exception.
Contents == {"match", "nomatch", "gone"}

VARIABLES
    content,    \* content[f]
    edits,      \* changes made so far
    search,     \* the number of the last search started, 0 before the first
    config,     \* search_config: the number and the queue of a search, or NoSearch
    answer,     \* the last response: its kind, and for matches the file and
                \* the search they are from
    \* history of the last search whose queue was stored
    sent,       \* files whose matches were sent
    changed     \* files that have changed since (all, before the first)

vars == <<content, edits, search, config, answer, sent, changed>>

Init ==
    /\ content \in [Files -> {"match", "nomatch"}]
    /\ edits = 0
    /\ search = 0
    /\ config = NoSearch
    /\ answer = [kind |-> "none"]
    /\ sent = {} /\ changed = Files

-----------------------------------------------------------------------------

\* Mutants of Rest: a file is passed over; the file stays in the queue.
RestSkips(files, i) == SubSeq(files, i + 2, Len(files))
RestKeeps(files, i) == SubSeq(files, i, Len(files))

\* next_rules_and_file, once it has come to the i-th file.
Rest(files, i) == SubSeq(files, i + 1, Len(files))

\* search_single_target on a stored queue: files without matches are passed
\* over in the same request.  sentBefore and answered are histories.
SearchSingleTarget(number, files, sentBefore) ==
    LET stops == {i \in 1..Len(files) : content[files[i]] # "nomatch"}
        next == CHOOSE i \in stops : \A j \in stops : i <= j
    IN \/ /\ stops = {}
          /\ config' = NoSearch
          /\ answer' = [kind |-> "end"]
          /\ sent' = sentBefore
          /\ UNCHANGED <<content, edits>>
       \/ /\ stops # {}
          /\ content[files[next]] = "match"
          /\ config' = [search |-> number, files |-> Rest(files, next)]
          /\ answer' = [kind |-> "matches", file |-> files[next], search |-> number]
          /\ sent' = sentBefore \cup {files[next]}
          /\ UNCHANGED <<content, edits>>

\* Mutant of SearchRaises: the queue is stored although the search raises.
SearchRaisesStoring(files) ==
    /\ \E i \in 1..Len(files) : content[files[i]] = "gone"
    /\ config' = [search |-> search, files |-> files]
    /\ answer' = [kind |-> "error"]
    /\ UNCHANGED <<content, edits, sent, changed>>

\* The file cannot be read, or it goes away before json_of_matches has made
\* the previews: handle_client_message keeps the old server.
SearchRaises(files) ==
    LET stops == {i \in 1..Len(files) : content[files[i]] # "nomatch"}
        next == CHOOSE i \in stops : \A j \in stops : i <= j
    IN /\ stops # {}
       /\ \/ content[files[next]] = "gone" /\ UNCHANGED <<content, edits>>
          \/ /\ content[files[next]] = "match" /\ edits < MaxEdits
             /\ content' = [content EXCEPT ![files[next]] = "gone"]
             /\ edits' = edits + 1
       /\ answer' = [kind |-> "error"]
       /\ UNCHANGED <<config, sent, changed>>

\* No parameters, or a pattern that parses in no language: the session is
\* unchanged, and there is no response.
SearchRefused ==
    /\ answer' = [kind |-> "none"]
    /\ UNCHANGED <<content, edits, config, sent, changed>>

StartSearch ==
    /\ search < MaxSearches
    /\ search' = search + 1
    /\ \/ SearchRefused
       \/ SearchSingleTarget(search', InitialFiles, {}) /\ changed' = {}
       \/ SearchRaises(InitialFiles)

Queue == IF config = NoSearch THEN <<>> ELSE config.files

\* The client asks for more until it is told that the search is over.
SearchNextFile ==
    /\ answer.kind \in {"matches", "error"}
    /\ \/ /\ SearchSingleTarget(IF config = NoSearch THEN 0 ELSE config.search, Queue, sent)
          /\ UNCHANGED changed
       \/ SearchRaises(Queue)
    /\ UNCHANGED search

\* Somebody changes or removes a file.
Edit(f) ==
    /\ edits < MaxEdits
    /\ edits' = edits + 1
    /\ \E c \in Contents : content' = [content EXCEPT ![f] = c]
    /\ changed' = changed \cup {f}
    /\ UNCHANGED <<search, config, answer, sent>>

Next == StartSearch \/ SearchNextFile \/ \E f \in Files : Edit(f)

Spec == Init /\ [][Next]_vars

\* The client of the protocol described at the top of Search.ml.
FairSpec == Spec /\ WF_vars(SearchNextFile)

-----------------------------------------------------------------------------
(* Properties *)

TypeOK ==
    /\ content \in [Files -> Contents]
    /\ edits \in 0..MaxEdits
    /\ search \in 0..MaxSearches
    /\ config = NoSearch \/ config \in [search : 1..MaxSearches, files : Seq(Files)]
    /\ answer \in [kind : {"none", "end", "error"}]
                  \cup [kind : {"matches"}, file : Files, search : 1..MaxSearches]
    /\ sent \subseteq Files
    /\ changed \subseteq Files

\* No match is lost, whatever is edited, removed or asked again meanwhile: a
\* file that has had matches since the queue was stored is in the queue, or
\* its matches have been sent (Search.next_rules_and_file and the server
\* that handle_client_message keeps on an exception).
NoMatchLost ==
    \A f \in Files \ changed :
        content[f] = "match" => f \in sent \cup ToSet(Queue)

\* The matches of a file are sent at most once by one search: a file that
\* was sent is never in the queue again, even when a request raised in
\* between and the server of before was kept.
SentOnce == sent \cap ToSet(Queue) = {}

\* A client that keeps asking comes to the end of the search, or starts one
\* that is refused and waits for a response that is never sent, unless a file
\* vanishes: then the request may fail on that file for ever, because the
\* queue kept is that of before the request.
SearchEnds ==
    \/ <>(\E f \in Files : content[f] = "gone")
    \/ (answer.kind \in {"matches", "error"}) ~> (answer.kind \in {"end", "none"})

\* After a new search is started, responses are about that search (the
\* comment at the top of Search.ml).
AnswersAreForLastSearch ==
    answer.kind = "matches" => answer.search = search
=============================================================================
