-------------------------- MODULE LspSearchProofs --------------------------
(***************************************************************************)
(* The streaming search loses no match and sends none twice, for every     *)
(* workspace, every number of searches and every edit in between.          *)
(***************************************************************************)
EXTENDS LspSearch, WellFoundedInduction, SequenceTheorems, TLAPS

\* The queue holds each file once, as the workspace does.
QueueInv == IsInjective(Queue)

IInv == TypeOK /\ QueueInv /\ NoMatchLost /\ SentOnce

-----------------------------------------------------------------------------
(* Queues *)

LEMMA LeastElement ==
    ASSUME NEW S \in SUBSET Nat, S # {}
    PROVE  \E i \in S : \A j \in S : i <= j
<1>1. PICK i \in S : \A j \in S : <<j, i>> \notin OpToRel(<, Nat)
  BY NatLessThanWellFounded, WFMin
<1>2. \A j \in S : ~(j < i)
  BY <1>1 DEF OpToRel
<1>3. QED
  BY <1>2

\* The places of a queue at which next_rules_and_file stops, and the first one.
Stops(files) == {i \in 1..Len(files) : content[files[i]] # "nomatch"}
First(files) == CHOOSE i \in Stops(files) : \A j \in Stops(files) : i <= j

LEMMA FirstStop ==
    ASSUME NEW files \in Seq(Files), Stops(files) # {}
    PROVE  First(files) \in Stops(files) /\ \A j \in Stops(files) : First(files) <= j
<1>1. Stops(files) \in SUBSET Nat
  BY DEF Stops
<1>2. \E i \in Stops(files) : \A j \in Stops(files) : i <= j
  BY <1>1, LeastElement
<1>3. QED
  BY <1>2 DEF First

LEMMA InQueue ==
    ASSUME NEW files \in Seq(Files)
    PROVE  ToSet(files) = {files[i] : i \in 1..Len(files)}
BY LenProperties DEF ToSet

\* What is left of a queue from its i-th place on.
LEMMA RestOfQueue ==
    ASSUME NEW files \in Seq(Files), NEW i \in 1..Len(files)
    PROVE  /\ Rest(files, i) \in Seq(Files)
           /\ ToSet(Rest(files, i)) = {files[j] : j \in (i + 1)..Len(files)}
           /\ IsInjective(files) => /\ IsInjective(Rest(files, i))
                                    /\ files[i] \notin ToSet(Rest(files, i))
<1> DEFINE rest == Rest(files, i)
<1>1. Len(files) \in Nat /\ \A j \in 1..Len(files) : files[j] \in Files
  BY LenProperties
<1>2. /\ rest \in Seq(Files)
      /\ Len(rest) = Len(files) - i
      /\ \A j \in 1..Len(rest) : rest[j] = files[i + j]
  <2>1. \A j \in (i + 1)..Len(files) : files[j] \in Files
    BY <1>1
  <2>2. /\ rest \in Seq(Files)
        /\ Len(rest) = IF i + 1 <= Len(files) THEN Len(files) - (i + 1) + 1 ELSE 0
        /\ \A j \in 1..(Len(files) - (i + 1) + 1) : rest[j] = files[(i + 1) + j - 1]
    BY <1>1, <2>1, SubSeqProperties DEF Rest
  <2>3. QED
    BY <1>1, <2>2
<1>3. DOMAIN rest = 1..Len(rest) /\ DOMAIN files = 1..Len(files)
  BY <1>2, LenProperties
<1> HIDE DEF rest
<1>4. ToSet(rest) = {files[j] : j \in (i + 1)..Len(files)}
  <2>1. \A j \in (i + 1)..Len(files) : j - i \in 1..Len(rest) /\ rest[j - i] = files[j]
    BY <1>1, <1>2
  <2>2. \A j \in 1..Len(rest) : i + j \in (i + 1)..Len(files)
    BY <1>1, <1>2
  <2>3. ToSet(rest) = {rest[j] : j \in 1..Len(rest)}
    BY <1>3, Zenon DEF ToSet
  <2>4. ASSUME NEW x \in ToSet(rest)
        PROVE  x \in {files[j] : j \in (i + 1)..Len(files)}
    BY <1>2, <2>2, <2>3
  <2>5. ASSUME NEW j \in (i + 1)..Len(files)
        PROVE  files[j] \in ToSet(rest)
    BY <2>1, <2>3
  <2>6. QED
    BY <2>4, <2>5
<1>5. ASSUME IsInjective(files)
      PROVE  IsInjective(rest) /\ files[i] \notin ToSet(rest)
  <2>1. ASSUME NEW a \in 1..Len(rest), NEW b \in 1..Len(rest), rest[a] = rest[b]
        PROVE  a = b
    <3>1. i + a \in 1..Len(files) /\ i + b \in 1..Len(files) /\ files[i + a] = files[i + b]
      BY <1>1, <1>2, <2>1
    <3>2. i + a = i + b
      BY <1>3, <1>5, <3>1, Zenon DEF IsInjective
    <3>3. QED
      BY <1>1, <1>2, <3>2
  <2>2. files[i] \notin ToSet(rest)
    <3>1. \A j \in (i + 1)..Len(files) : j \in 1..Len(files) /\ j # i
      BY <1>1
    <3>2. \A j \in (i + 1)..Len(files) : files[j] # files[i]
      BY <1>3, <1>5, <3>1, Zenon DEF IsInjective
    <3>3. QED
      BY <1>4, <3>2, Zenon
  <2>3. QED
    BY <1>3, <2>1, <2>2, Zenon DEF IsInjective
<1>6. QED
  BY <1>2, <1>4, <1>5 DEF rest

LEMMA EmptyQueue ==
    ToSet(<<>>) = {} /\ IsInjective(<<>>) /\ <<>> \in Seq(Files)
<1>1. <<>> \in Seq(Files) /\ Len(<<>>) = 0
  BY EmptySeq
<1>2. DOMAIN <<>> = {}
  BY <1>1, LenProperties
<1>3. QED
  BY <1>1, <1>2 DEF ToSet, IsInjective

-----------------------------------------------------------------------------
(* The request *)

Answers == [kind : {"none", "end", "error"}]
           \cup [kind : {"matches"}, file : Files, search : 1..MaxSearches]
Searches == [search : 1..MaxSearches, files : Seq(Files)]

\* A request that answers goes on with a queue: what it leaves behind has no
\* matches or is sent, and what it sends is not in the queue any more.
LEMMA SingleTarget ==
    ASSUME NEW files \in Seq(Files), IsInjective(files),
           NEW number, files # <<>> => number \in 1..MaxSearches,
           NEW before \in SUBSET Files, before \cap ToSet(files) = {},
           SearchSingleTarget(number, files, before)
    PROVE  /\ config' = NoSearch \/ config' \in Searches
           /\ answer' \in Answers
           /\ before \subseteq sent' /\ sent' \subseteq Files
           /\ IsInjective(Queue') /\ sent' \cap ToSet(Queue') = {}
           /\ \A f \in ToSet(files) : content[f] = "match" => f \in sent' \cup ToSet(Queue')
           /\ content' = content /\ edits' = edits
<1>1. ToSet(files) = {files[i] : i \in 1..Len(files)} /\ Len(files) \in Nat
  BY InQueue, LenProperties
<1>2. CASE Stops(files) = {}
  <2>1. /\ config' = NoSearch /\ answer' = [kind |-> "end"] /\ sent' = before
        /\ content' = content /\ edits' = edits
    BY <1>2 DEF SearchSingleTarget, Stops
  <2>2. Queue' = <<>>
    BY <2>1 DEF Queue
  <2>3. \A f \in ToSet(files) : content[f] = "nomatch"
    BY <1>1, <1>2 DEF Stops
  <2>4. answer' \in Answers
    BY <2>1 DEF Answers
  <2>5. QED
    BY <2>1, <2>2, <2>3, <2>4, EmptyQueue
<1>3. CASE Stops(files) # {}
  <2> DEFINE n == First(files)
             rest == Rest(files, n)
  <2>1. /\ config' = [search |-> number, files |-> rest]
        /\ answer' = [kind |-> "matches", file |-> files[n], search |-> number]
        /\ sent' = before \cup {files[n]}
        /\ content' = content /\ edits' = edits
    BY <1>3, Zenon DEF SearchSingleTarget, Stops, First
  <2>2. n \in Stops(files) /\ \A j \in Stops(files) : n <= j
    BY <1>3, FirstStop
  <2>3. n \in 1..Len(files) /\ files[n] \in Files /\ files[n] \in ToSet(files)
    BY <1>1, <2>2, ElementOfSeq DEF Stops
  <2>4. number \in 1..MaxSearches
    BY <2>3, EmptySeq
  <2> HIDE DEF n
  <2>5. /\ rest \in Seq(Files) /\ ToSet(rest) = {files[j] : j \in (n + 1)..Len(files)}
        /\ IsInjective(rest) /\ files[n] \notin ToSet(rest)
    BY <2>3, RestOfQueue
  <2> HIDE DEF rest
  <2>6. config' \in Searches /\ Queue' = rest
    <3>1. MaxSearches \in Nat
      BY LspSearchAssumption DEF LspSearchAssumption
    <3>2. config' \in [search : Nat, files : Seq(Files)] /\ config' \in Searches
      BY <2>1, <2>4, <2>5, <3>1 DEF Searches
    <3>3. config' # NoSearch
      BY <3>2, LspSearchAssumption DEF LspSearchAssumption
    <3>4. QED
      BY <2>1, <3>2, <3>3 DEF Queue
  <2>7. ToSet(rest) \subseteq ToSet(files)
    BY <1>1, <2>3, <2>5
  <2>8. ASSUME NEW f \in ToSet(files), content[f] = "match"
        PROVE  f \in sent' \cup ToSet(Queue')
    <3>1. PICK i \in 1..Len(files) : f = files[i]
      BY <1>1
    <3>2. i \in Stops(files)
      BY <2>8, <3>1 DEF Stops
    <3>3. i = n \/ i \in (n + 1)..Len(files)
      BY <1>1, <2>2, <2>3, <3>2
    <3>4. QED
      BY <2>1, <2>5, <2>6, <3>1, <3>3
  <2>9. answer' \in Answers
    BY <2>1, <2>3, <2>4 DEF Answers
  <2>10. sent' \cap ToSet(Queue') = {}
    BY <2>1, <2>5, <2>6, <2>7
  <2>11. QED
    BY <2>1, <2>3, <2>5, <2>6, <2>8, <2>9, <2>10
<1>4. QED
  BY <1>2, <1>3

-----------------------------------------------------------------------------
(* The inductive invariant *)

LEMMA InitInv == Init => IInv
<1> SUFFICES ASSUME Init
             PROVE  IInv
  OBVIOUS
<1>1. Queue = <<>>
  BY DEF Init, Queue
<1>2. TypeOK
  BY LspSearchAssumption DEF Init, TypeOK, LspSearchAssumption, Contents
<1>3. QueueInv /\ SentOnce
  BY <1>1, EmptyQueue DEF Init, QueueInv, SentOnce
<1>4. NoMatchLost
  BY DEF Init, NoMatchLost
<1>5. QED
  BY <1>2, <1>3, <1>4 DEF IInv

LEMMA QueueType ==
    ASSUME IInv
    PROVE  Queue \in Seq(Files) /\ (Queue # <<>> => config # NoSearch)
<1>1. config = NoSearch \/ config.files \in Seq(Files)
  BY DEF IInv, TypeOK
<1>2. QED
  BY <1>1, EmptyQueue DEF Queue

\* A request that raises leaves the queue of before, and at most one file less.
LEMMA RaisesStep ==
    ASSUME IInv, search' \in 0..MaxSearches, NEW files \in Seq(Files), SearchRaises(files)
    PROVE  IInv'
<1>1. Stops(files) # {}
  BY DEF SearchRaises, Stops
<1>2. First(files) \in 1..Len(files)
  BY <1>1, FirstStop DEF Stops
<1>3. files[First(files)] \in Files
  BY <1>2, ElementOfSeq
<1>4. /\ UNCHANGED <<config, sent, changed>> /\ answer' = [kind |-> "error"]
      /\ \/ content' = content /\ edits' = edits
         \/ /\ edits < MaxEdits /\ edits' = edits + 1
            /\ content' = [content EXCEPT ![files[First(files)]] = "gone"]
  BY Zenon DEF SearchRaises, Stops, First
<1>5. TypeOK
  BY DEF IInv
<1>6. /\ content' \in [Files -> Contents]
      /\ \A f \in Files : content'[f] = "match" => content[f] = "match"
  BY <1>3, <1>4, <1>5 DEF TypeOK, Contents
<1>7. edits' \in 0..MaxEdits
  BY <1>4, <1>5, LspSearchAssumption DEF TypeOK, LspSearchAssumption
<1>8. TypeOK'
  BY <1>4, <1>5, <1>6, <1>7 DEF TypeOK
<1>9. Queue' = Queue
  BY <1>4 DEF Queue
<1>10. QueueInv' /\ SentOnce' /\ NoMatchLost'
  BY <1>4, <1>6, <1>9 DEF IInv, QueueInv, SentOnce, NoMatchLost
<1>11. QED
  BY <1>8, <1>10 DEF IInv

LEMMA StartSearchStep ==
    ASSUME IInv, StartSearch
    PROVE  IInv'
<1>1. TypeOK
  BY DEF IInv
<1>2. search' \in 1..MaxSearches /\ search' \in 0..MaxSearches
  BY <1>1, LspSearchAssumption DEF StartSearch, TypeOK, LspSearchAssumption
<1>3. InitialFiles \in Seq(Files) /\ IsInjective(InitialFiles) /\ ToSet(InitialFiles) = Files
  BY LspSearchAssumption DEF LspSearchAssumption, Files
<1>4. CASE SearchRefused
  <2>1. Queue' = Queue
    BY <1>4 DEF SearchRefused, Queue
  <2>2. QED
    BY <1>1, <1>2, <1>4, <2>1
       DEF IInv, SearchRefused, TypeOK, QueueInv, NoMatchLost, SentOnce
<1>5. CASE SearchSingleTarget(search', InitialFiles, {}) /\ changed' = {}
  <2>1. /\ config' = NoSearch \/ config' \in Searches
        /\ answer' \in Answers /\ sent' \subseteq Files
        /\ IsInjective(Queue') /\ sent' \cap ToSet(Queue') = {}
        /\ \A f \in Files : content[f] = "match" => f \in sent' \cup ToSet(Queue')
        /\ content' = content /\ edits' = edits
    BY <1>2, <1>3, <1>5, SingleTarget
  <2>2. TypeOK'
    BY <1>1, <1>2, <1>5, <2>1 DEF TypeOK, Searches, Answers
  <2>3. NoMatchLost'
    BY <2>1 DEF NoMatchLost
  <2>4. QED
    BY <2>1, <2>2, <2>3 DEF IInv, QueueInv, SentOnce
<1>6. CASE SearchRaises(InitialFiles)
  BY <1>2, <1>3, <1>6, RaisesStep
<1>7. QED
  BY <1>4, <1>5, <1>6 DEF StartSearch

LEMMA SearchNextFileStep ==
    ASSUME IInv, SearchNextFile
    PROVE  IInv'
<1>1. TypeOK /\ search' \in 0..MaxSearches
  BY DEF IInv, TypeOK, SearchNextFile
<1>2. Queue \in Seq(Files) /\ (Queue # <<>> => config # NoSearch)
  BY QueueType
<1> DEFINE number == IF config = NoSearch THEN 0 ELSE config.search
<1>3. Queue # <<>> => number \in 1..MaxSearches
  BY <1>1, <1>2 DEF TypeOK
<1>4. CASE SearchSingleTarget(number, Queue, sent) /\ UNCHANGED changed
  <2>1. /\ config' = NoSearch \/ config' \in Searches
        /\ answer' \in Answers /\ sent \subseteq sent' /\ sent' \subseteq Files
        /\ IsInjective(Queue') /\ sent' \cap ToSet(Queue') = {}
        /\ \A f \in ToSet(Queue) : content[f] = "match" => f \in sent' \cup ToSet(Queue')
        /\ content' = content /\ edits' = edits
    <3>1. IsInjective(Queue) /\ sent \in SUBSET Files /\ sent \cap ToSet(Queue) = {}
      BY DEF IInv, QueueInv, SentOnce, TypeOK
    <3> HIDE DEF number
    <3>2. QED
      BY <1>2, <1>3, <1>4, <3>1, SingleTarget
  <2>2. TypeOK'
    BY <1>1, <1>4, <2>1 DEF TypeOK, Searches, Answers
  <2>3. NoMatchLost'
    BY <1>4, <2>1 DEF IInv, NoMatchLost
  <2>4. QED
    BY <2>1, <2>2, <2>3 DEF IInv, QueueInv, SentOnce
<1>5. CASE SearchRaises(Queue)
  BY <1>1, <1>2, <1>5, RaisesStep
<1>6. QED
  BY <1>4, <1>5 DEF SearchNextFile

LEMMA EditStep ==
    ASSUME IInv, NEW f \in Files, Edit(f)
    PROVE  IInv'
<1>1. TypeOK
  BY DEF IInv
<1>2. Queue' = Queue
  BY DEF Edit, Queue
<1>3. edits' \in 0..MaxEdits
  BY <1>1, LspSearchAssumption DEF Edit, TypeOK, LspSearchAssumption
<1>4. content' \in [Files -> Contents] /\ \A g \in Files \ {f} : content'[g] = content[g]
  BY <1>1 DEF Edit, TypeOK
<1>5. TypeOK'
  BY <1>1, <1>3, <1>4 DEF Edit, TypeOK
<1>6. NoMatchLost'
  BY <1>2, <1>4 DEF IInv, Edit, NoMatchLost
<1>7. QueueInv' /\ SentOnce'
  BY <1>2 DEF IInv, Edit, QueueInv, SentOnce
<1>8. QED
  BY <1>5, <1>6, <1>7 DEF IInv

LEMMA InvStep == IInv /\ [Next]_vars => IInv'
<1> SUFFICES ASSUME IInv, [Next]_vars
             PROVE  IInv'
  OBVIOUS
<1>1. CASE UNCHANGED vars
  <2>1. Queue' = Queue
    BY <1>1 DEF vars, Queue
  <2>2. QED
    BY <1>1, <2>1 DEF vars, IInv, TypeOK, QueueInv, NoMatchLost, SentOnce
<1>2. QED
  BY <1>1, StartSearchStep, SearchNextFileStep, EditStep DEF Next

LEMMA Invariance == Spec => []IInv
BY InitInv, InvStep, PTL DEF Spec

-----------------------------------------------------------------------------
(* The theorems *)

\* The variables of the search keep their types, for every workspace.
THEOREM TypeCorrect == Spec => []TypeOK
<1>1. IInv => TypeOK
  BY DEF IInv
<1>2. QED
  BY <1>1, Invariance, PTL

\* The streaming search passes over no file with matches, however many requests
\* raise, and whatever is edited or asked again in between.
THEOREM MatchesAreNotLost == Spec => []NoMatchLost
<1>1. IInv => NoMatchLost
  BY DEF IInv
<1>2. QED
  BY <1>1, Invariance, PTL

\* A file whose matches were sent does not come back to the queue, not even by
\* the server that handle_client_message keeps when a request raises.
THEOREM MatchesAreSentOnce == Spec => []SentOnce
<1>1. IInv => SentOnce
  BY DEF IInv
<1>2. QED
  BY <1>1, Invariance, PTL
=============================================================================
