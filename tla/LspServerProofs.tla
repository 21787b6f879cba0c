-------------------------- MODULE LspServerProofs --------------------------
(***************************************************************************)
(* The language server keeps its promises for every number of files, of    *)
(* replies in progress and of messages: what is on display can be cleared, *)
(* progress circles are those of the work in progress and of the replies   *)
(* that raised and, for every number of workers, the cache catches up with *)
(* the disk unless a scan is overtaken.                                    *)
(***************************************************************************)
EXTENDS LspServer, FiniteSetTheorems, WellFoundedInduction, SequenceTheorems, TLAPS

Task == [pc : {"free", "fetching", "stored", "refreshed", "queued",
               "scanning", "opened", "recorded", "publish"},
         kind : {"none", "file", "open", "docs", "all"},
         file : Files \cup {NoFile}, targets : SUBSET Files,
         ignored : SUBSET Files, read : [Files -> 0..MaxVersion]]

\* What a reply still has to do is known from where it is: what it will
\* publish has been recorded, and only a refresh of the rules fetches them.
TaskInv ==
    \A s \in Slots :
        /\ tasks[s].pc = "free" => tasks[s].kind = "none"
        /\ tasks[s].kind \in {"file", "open"} => tasks[s].file \in Files
        /\ tasks[s].pc = "opened" => tasks[s].kind = "open"
        /\ tasks[s].pc \in {"fetching", "stored", "refreshed"} => tasks[s].kind = "docs"
        /\ tasks[s].pc \in {"recorded", "publish"} => tasks[s].targets \subseteq DOMAIN cached

\* DisplayedIsScanned, in every phase.
DisplayInv == \A f \in Files : diags[f] # {} => f \in DOMAIN cached

IInv == TypeOK /\ TaskInv /\ DisplayInv /\ WorkShowsProgress

\* CacheIsFresh, while replies are in progress: a file that was saved waits
\* for its scan; or its last version is being scanned; or else no scan that
\* runs has read an older version, and the result that is kept is fresh.
OfFile(s, f) == tasks[s].kind \in {"file", "open"} /\ tasks[s].file = f
Waiting(f) == \E s \in Slots : tasks[s].pc = "queued" /\ OfFile(s, f)
Scanned(f) == \E s \in Scanning : OfFile(s, f) /\ tasks[s].read[f] \in {0, disk[f]}
UpToDate(f) ==
    /\ \A s \in Scanning : tasks[s].read[f] \in {0, disk[f]}
    /\ f \in DOMAIN cached => cached[f] \in {{}, {disk[f]}}
InTime(f) == Waiting(f) \/ Scanned(f) \/ UpToDate(f)
FreshInv == \A f \in Files \ (excused \cup overtaken) : disk[f] # 0 => InTime(f)

-----------------------------------------------------------------------------
(* Tasks *)

LEMMA LeastElement ==
    ASSUME NEW S \in SUBSET Nat, S # {}
    PROVE  \E i \in S : \A j \in S : i <= j
<1>1. PICK i \in S : \A j \in S : <<j, i>> \notin OpToRel(<, Nat)
  BY NatLessThanWellFounded, WFMin
<1>2. \A j \in S : ~(j < i)
  BY <1>1 DEF OpToRel
<1>3. QED
  BY <1>2

LEMMA FreeSlotIsFree ==
    ASSUME FreeSlots # {}
    PROVE  FreeSlot \in Slots /\ tasks[FreeSlot].pc = "free"
<1>1. FreeSlots \in SUBSET Nat
  BY LspServerAssumption DEF LspServerAssumption, FreeSlots, Slots
<1>2. FreeSlot \in FreeSlots
  BY <1>1, LeastElement DEF FreeSlot
<1>3. QED
  BY <1>2 DEF FreeSlots

LEMMA FreeTaskType ==
    FreeTask \in Task /\ FreeTask.kind = "none" /\ FreeTask.pc = "free"
<1>1. NothingRead \in [Files -> 0..MaxVersion]
  BY LspServerAssumption DEF LspServerAssumption, NothingRead
<1>2. QED
  BY <1>1 DEF FreeTask, Task

\* A new task that scans many files.
LEMMA ManyTaskType ==
    ASSUME NEW kind \in {"docs", "all"}, NEW skipped \in SUBSET Files,
           NEW p \in {"queued", "fetching"}
    PROVE  LET t == [FreeTask EXCEPT !.pc = p, !.kind = kind, !.ignored = skipped]
           IN t \in Task /\ t.pc = p /\ t.kind = kind
BY FreeTaskType DEF FreeTask, Task

\* A reply begins: its task is put in a slot that was free.
Begins(q, t) == tasks[q].pc = "free" /\ tasks' = [tasks EXCEPT ![q] = t]

LEMMA Enqueued ==
    ASSUME TypeOK, NEW task, Enqueue(task)
    PROVE  \E q \in Slots : Begins(q, [task EXCEPT !.pc = "queued"]) /\ queue' \in Seq(Slots)
<1>1. FreeSlot \in Slots /\ tasks[FreeSlot].pc = "free"
  BY FreeSlotIsFree DEF Enqueue
<1>2. tasks' = [tasks EXCEPT ![FreeSlot] = [task EXCEPT !.pc = "queued"]]
  BY DEF Enqueue
<1>3. queue' \in Seq(Slots)
  BY <1>1, AppendProperties DEF Enqueue, TypeOK
<1>4. QED
  BY <1>1, <1>2, <1>3 DEF Begins

LEMMA FileScanned ==
    ASSUME TypeOK, NEW kind \in {"file", "open"}, NEW f \in Files,
           NEW skipped \in SUBSET Files, ScanFile(kind, f, skipped)
    PROVE  \E q \in Slots, t \in Task :
               /\ Begins(q, t) /\ queue' \in Seq(Slots)
               /\ t.pc = "queued" /\ t.kind = kind /\ t.file = f
<1> DEFINE t == [FileTask(kind, f, skipped) EXCEPT !.pc = "queued"]
<1>1. PICK q \in Slots : Begins(q, t) /\ queue' \in Seq(Slots)
  BY Enqueued DEF ScanFile
<1>2. t \in Task /\ t.pc = "queued" /\ t.kind = kind /\ t.file = f
  BY FreeTaskType DEF FileTask, FreeTask, Task
<1>3. QED
  BY <1>1, <1>2

LEMMA RulesRefreshed ==
    ASSUME TypeOK, NEW skipped \in SUBSET Files, RefreshRules(skipped)
    PROVE  \E q \in Slots, t \in Task :
               /\ Begins(q, t) /\ queue' = queue /\ progress' = progress + 1
               /\ t.pc = "fetching" /\ t.kind = "docs"
<1> DEFINE t == [FreeTask EXCEPT !.pc = "fetching", !.kind = "docs", !.ignored = skipped]
<1>1. FreeSlot \in Slots /\ tasks[FreeSlot].pc = "free"
  BY FreeSlotIsFree DEF RefreshRules
<1>2. t \in Task /\ t.pc = "fetching" /\ t.kind = "docs"
  BY ManyTaskType
<1>3. QED
  BY <1>1, <1>2 DEF RefreshRules, Begins

LEMMA WorkspaceScanned ==
    ASSUME TypeOK, ScanWorkspace
    PROVE  \E q \in Slots, t \in Task :
               /\ Begins(q, t) /\ queue' \in Seq(Slots) /\ progress' = progress + 1
               /\ t.pc = "queued" /\ t.kind = "all"
<1> DEFINE task == [FreeTask EXCEPT !.kind = "all", !.ignored = ignored]
           t == [FreeTask EXCEPT !.pc = "queued", !.kind = "all", !.ignored = ignored]
<1>1. PICK q \in Slots : Begins(q, [task EXCEPT !.pc = "queued"]) /\ queue' \in Seq(Slots)
  BY Enqueued DEF ScanWorkspace
<1>2. [task EXCEPT !.pc = "queued"] = t
  BY DEF FreeTask
<1>3. t \in Task /\ t.pc = "queued" /\ t.kind = "all"
  BY ManyTaskType DEF TypeOK
<1>4. QED
  BY <1>1, <1>2, <1>3 DEF ScanWorkspace

\* A message from the client begins at most one reply.
Steady == tasks' = tasks /\ queue' = queue /\ progress' = progress /\ leaked' = leaked
BeginsOne ==
    \E q \in Slots, t \in Task :
        /\ Begins(q, t) /\ queue' \in Seq(Slots) /\ leaked' = leaked
        /\ t.pc = "fetching" => t.kind = "docs"
        /\ \/ /\ t.pc = "queued" /\ t.kind \in {"file", "open"} /\ t.file \in Files
              /\ progress' = progress
           \/ /\ t.pc \in {"queued", "fetching"} /\ t.kind \in {"docs", "all"}
              /\ progress' = progress + 1

LEMMA ClientTasks ==
    ASSUME TypeOK, ClientStep
    PROVE  Steady \/ BeginsOne \/ Restart
<1>1. ignored \in SUBSET Files /\ queue \in Seq(Slots)
  BY DEF TypeOK
<1>2. ASSUME Initialize \/ Shutdown \/ Exit \/ \E f \in Files :
                 DidClose(f) \/ DidCreateFile(f) \/ CreateOutside(f) \/ DidDeleteFile(f)
      PROVE  Steady
  BY <1>2 DEF Initialize, Shutdown, Exit, DidClose, DidCreateFile, CreateOutside, DidDeleteFile,
              clientVars, taskVars, Steady
<1>3. ASSUME Initialized \/ RefreshRulesNotification
      PROVE  BeginsOne
  <2>1. leaked' = leaked /\ \E skipped \in SUBSET Files : RefreshRules(skipped)
    BY <1>1, <1>3 DEF Initialized, RefreshRulesNotification
  <2>2. QED
    BY <1>1, <2>1, RulesRefreshed DEF BeginsOne
<1>4. ASSUME ScanWorkspace
      PROVE  BeginsOne
  <2>1. leaked' = leaked
    BY <1>4 DEF ScanWorkspace
  <2>2. QED
    BY <1>4, <2>1, WorkspaceScanned DEF BeginsOne
<1>5. ASSUME NEW f \in Files, DidOpen(f) \/ DidSave(f) \/ Ignore(f)
      PROVE  BeginsOne
  <2>1. progress' = progress /\ leaked' = leaked
    BY <1>5 DEF DidOpen, DidSave, Ignore, clientVars
  <2>2. \E kind \in {"file", "open"}, skipped \in SUBSET Files : ScanFile(kind, f, skipped)
    BY <1>1, <1>5 DEF DidOpen, DidSave, Ignore
  <2>3. QED
    BY <2>1, <2>2, FileScanned DEF BeginsOne
<1>6. QED
  BY <1>2, <1>3, <1>4, <1>5 DEF ClientStep

\* What a step of a reply makes of its task, and of the progress circles:
\* one begins, one ends, one is left behind, or they stay.
Circles(t, u) ==
    \/ /\ AtWork(u) <=> AtWork(t)
       /\ progress' = progress /\ leaked' = leaked
    \/ /\ ~AtWork(t) /\ AtWork(u)
       /\ progress' = progress + 1 /\ leaked' = leaked
    \/ /\ AtWork(t) /\ ~AtWork(u)
       /\ progress' = progress - 1 /\ leaked' = leaked
    \/ /\ AtWork(t) /\ ~AtWork(u)
       /\ progress' = progress /\ leaked' = leaked + 1
Becomes(s, t) ==
    /\ \/ t = FreeTask
       \/ /\ t.kind = tasks[s].kind /\ t.file = tasks[s].file /\ t.pc # "free"
          /\ t.pc = "opened" => t.kind = "open"
          /\ t.pc \in {"fetching", "stored", "refreshed"} => t.kind = "docs"
          /\ t.pc \in {"recorded", "publish"} => t.targets \subseteq DOMAIN cached'
    /\ Circles(tasks[s], t)

LEMMA FreeIsIdle == ~AtWork(FreeTask)
BY FreeTaskType DEF AtWork

LEMMA TaskEdits ==
    ASSUME NEW t \in Task, NEW p \in {"queued", "scanning", "opened", "publish"},
           NEW T \in SUBSET Files, NEW R \in [Files -> 0..MaxVersion]
    PROVE  /\ [t EXCEPT !.pc = p, !.targets = T] \in Task
           /\ [t EXCEPT !.pc = p, !.read = R] \in Task
           /\ [t EXCEPT !.pc = p] \in Task
BY DEF Task

LEMMA RecordTypes ==
    ASSUME TypeOK, NEW task \in Task, NEW S \in SUBSET Files, Record(task, S)
    PROVE  /\ DOMAIN cached' = DOMAIN cached \cup S
           /\ \A f \in Files : Found(task, f) \subseteq 1..MaxVersion
           /\ \A f \in S : cached'[f] = Found(task, f)
           /\ \A f \in DOMAIN cached \ S : cached'[f] = cached[f]
<1>1. \A f \in Files : Found(task, f) \subseteq 1..MaxVersion
  BY LspServerAssumption DEF LspServerAssumption, Found, Task
<1>2. QED
  BY <1>1 DEF Record

LEMMA TaskChange ==
    ASSUME TypeOK, TaskInv, NEW s \in Slots, TaskStep(s)
    PROVE  \E t \in Task :
               /\ tasks' = [tasks EXCEPT ![s] = t]
               /\ queue' \in Seq(Slots)
               /\ Becomes(s, t)
<1>1. tasks \in [Slots -> Task] /\ tasks[s] \in Task /\ queue \in Seq(Slots)
  BY DEF TypeOK, Task
<1>2. CASE ScanOpenDocuments(s)
  <2> DEFINE t == [tasks[s] EXCEPT !.pc = "queued", !.targets = targets \cap openDocs]
  <2>1. tasks' = [tasks EXCEPT ![s] = t]
    BY <1>1, <1>2 DEF ScanOpenDocuments
  <2>2. t \in Task
    BY <1>1, TaskEdits DEF TypeOK
  <2>3. queue' \in Seq(Slots)
    BY <1>1, <1>2, AppendProperties DEF ScanOpenDocuments
  <2>4. tasks[s].pc = "refreshed" /\ tasks[s].kind = "docs"
    BY <1>2 DEF ScanOpenDocuments, TaskInv
  <2>6. progress' = progress + 1 /\ leaked' = leaked
    BY <1>2 DEF ScanOpenDocuments
  <2>7. Becomes(s, t)
    BY <1>1, <2>4, <2>6 DEF Becomes, Circles, AtWork, Task
  <2>5. QED
    BY <2>1, <2>2, <2>3, <2>7
<1>9. CASE StoreRules(s)
  <2> DEFINE t == [tasks[s] EXCEPT !.pc = "stored"]
  <2>1. /\ tasks' = [tasks EXCEPT ![s] = t] /\ queue' = queue
        /\ progress' = progress /\ leaked' = leaked /\ tasks[s].pc = "fetching"
    BY <1>1, <1>9 DEF StoreRules, clientVars
  <2>2. t \in Task
    BY <1>1 DEF Task
  <2>3. Becomes(s, t)
    BY <1>1, <2>1 DEF Becomes, Circles, AtWork, Task, TaskInv
  <2>4. QED
    BY <1>1, <2>1, <2>2, <2>3
<1>10. CASE EndProgress(s)
  <2>1. PICK p \in {"refreshed", "publish"} :
            /\ tasks' = [tasks EXCEPT ![s].pc = p] /\ AtWork(tasks[s])
            /\ tasks[s].pc = IF p = "publish" THEN "recorded" ELSE "stored"
    BY <1>10 DEF EndProgress, AtWork
  <2> DEFINE t == [tasks[s] EXCEPT !.pc = p]
  <2>2. tasks' = [tasks EXCEPT ![s] = t]
    BY <1>1, <2>1
  <2>3. t \in Task /\ ~AtWork(t)
    BY <1>1 DEF Task, AtWork
  <2>4. queue' = queue /\ progress' = progress - 1 /\ leaked' = leaked /\ cached' = cached
    BY <1>10 DEF EndProgress, cacheVars
  <2>5. Becomes(s, t)
    BY <1>1, <2>1, <2>3, <2>4 DEF Becomes, Circles, Task, TaskInv
  <2>6. QED
    BY <1>1, <2>2, <2>3, <2>4, <2>5
<1>3. CASE StartScan(s)
  <2> DEFINE scanned == CASE ~initialized -> {}
                          [] tasks[s].kind = "all" -> targets
                          [] OTHER -> tasks[s].targets
             R == [f \in Files |-> IF f \in scanned THEN disk[f] ELSE 0]
             t == [tasks[s] EXCEPT !.pc = "scanning", !.read = R]
  <2>1. tasks' = [tasks EXCEPT ![s].pc = "scanning", ![s].read = R]
    BY <1>3, Zenon DEF StartScan
  <2>2. R \in [Files -> 0..MaxVersion]
    BY LspServerAssumption DEF LspServerAssumption, TypeOK
  <2> HIDE DEF R
  <2>3. tasks' = [tasks EXCEPT ![s] = t]
    BY <1>1, <2>1
  <2>4. t \in Task
    BY <1>1, <2>2, TaskEdits
  <2>5. queue' \in Seq(Slots)
    BY <1>1, <1>3, HeadTailProperties DEF StartScan
  <2>6. progress' = progress /\ leaked' = leaked
    BY <1>3, Zenon DEF StartScan, clientVars
  <2>7. Becomes(s, t)
    <3>1. t.kind = tasks[s].kind /\ t.file = tasks[s].file
      BY <1>1 DEF Task
    <3>2. t.pc = "scanning"
      BY <1>1 DEF Task
    <3>3. tasks[s].pc = "queued"
      BY <1>3, Zenon DEF StartScan
    <3>4. AtWork(t) <=> AtWork(tasks[s])
      BY <3>1, <3>2, <3>3 DEF AtWork
    <3>5. QED
      BY <1>1, <2>6, <3>1, <3>2, <3>4 DEF Becomes, Circles
  <2>8. QED
    BY <2>3, <2>4, <2>5, <2>7
<1>4. CASE FinishFile(s)
  <2>1. /\ queue' = queue /\ progress' = progress /\ leaked' = leaked
        /\ ~AtWork(tasks[s])
    BY <1>4 DEF FinishFile, Scanning, AtWork
  <2>2. CASE tasks[s].kind = "open"
    <3> DEFINE t == [tasks[s] EXCEPT !.pc = "opened"]
    <3>1. tasks' = [tasks EXCEPT ![s] = t]
      BY <1>1, <1>4, <2>2 DEF FinishFile
    <3>2. t \in Task
      BY <1>1 DEF Task
    <3>3. Becomes(s, t)
      BY <1>1, <2>1, <2>2 DEF Becomes, Circles, AtWork, Task
    <3>4. QED
      BY <1>1, <2>1, <3>1, <3>2, <3>3
  <2>3. CASE tasks[s].kind # "open"
    BY <1>1, <1>4, <2>1, <2>3, FreeTaskType, FreeIsIdle DEF FinishFile, End, Becomes, Circles
  <2>4. QED
    BY <2>2, <2>3
<1>5. CASE FinishScan(s)
  <2> DEFINE t == [tasks[s] EXCEPT !.pc = "recorded", !.targets = DOMAIN cached']
  <2>1. tasks' = [tasks EXCEPT ![s] = t]
    BY <1>1, <1>5 DEF FinishScan
  <2>2. DOMAIN cached' \in SUBSET Files
    <3>1. Existing(tasks[s].read) \in SUBSET Files /\ DOMAIN cached \in SUBSET Files
      BY DEF Existing, TypeOK
    <3>2. Record(tasks[s], Existing(tasks[s].read))
      BY <1>5 DEF FinishScan
    <3>3. DOMAIN cached' = DOMAIN cached \cup Existing(tasks[s].read)
      BY <1>1, <3>1, <3>2, RecordTypes
    <3>4. QED
      BY <3>1, <3>3
  <2>3. t \in Task
    BY <1>1, <2>2 DEF Task
  <2>4. Becomes(s, t)
    BY <1>1, <1>5 DEF FinishScan, Scanning, clientVars, Becomes, Circles, AtWork, Task
  <2>5. QED
    BY <1>1, <1>5, <2>1, <2>3, <2>4 DEF FinishScan
<1>6. CASE Publish(s) \/ AddOpenDocument(s)
  <2>1. /\ tasks' = [tasks EXCEPT ![s] = FreeTask] /\ queue' = queue
        /\ progress' = progress /\ leaked' = leaked /\ tasks[s].pc \in {"publish", "opened"}
    BY <1>6 DEF Publish, AddOpenDocument, End, clientVars
  <2>2. ~AtWork(tasks[s])
    BY <2>1 DEF AtWork
  <2>3. QED
    BY <1>1, <2>1, <2>2, FreeTaskType, FreeIsIdle DEF Becomes, Circles
<1>7. CASE ReplyRaises(s) \/ ScanRaises(s)
  <2>1. /\ tasks' = [tasks EXCEPT ![s] = FreeTask] /\ queue' = queue /\ progress' = progress
        /\ leaked' = IF AtWork(tasks[s]) THEN leaked + 1 ELSE leaked
    BY <1>7 DEF ReplyRaises, ScanRaises, Raise, End, clientVars
  <2>2. QED
    BY <1>1, <2>1, FreeTaskType, FreeIsIdle DEF Becomes, Circles
<1>8. QED
  BY <1>2, <1>3, <1>4, <1>5, <1>6, <1>7, <1>9, <1>10 DEF TaskStep

-----------------------------------------------------------------------------
(* Types *)

TaskTypes ==
    /\ tasks \in [Slots -> Task]
    /\ queue \in Seq(Slots)
    /\ progress \in Nat /\ leaked \in Nat
WorldTypes ==
    /\ disk \in [Files -> 0..MaxVersion]
    /\ phase \in {"start", "initializing", "ready", "shutdown", "stopped"}
    /\ clientOpen \subseteq Files
    /\ asked \subseteq Files
    /\ messages \in 0..MaxMessages
    /\ targets \subseteq Files
    /\ openDocs \subseteq Files
    /\ initialized \in BOOLEAN
    /\ ignored \subseteq Files
    /\ saved \in [Dirs -> SUBSET Files]
    /\ excused \subseteq Files /\ overtaken \subseteq Files
ResultTypes ==
    /\ diags \in [Files -> SUBSET (1..MaxVersion)]
    /\ DOMAIN cached \subseteq Files
    /\ \A f \in DOMAIN cached : cached[f] \subseteq 1..MaxVersion

LEMMA TypeParts == TypeOK <=> TaskTypes /\ WorldTypes /\ ResultTypes
BY DEF TypeOK, Task, TaskTypes, WorldTypes, ResultTypes

LEMMA WorldStep ==
    ASSUME TypeOK, TaskInv, Next
    PROVE  WorldTypes'
<1> USE LspServerAssumption DEF LspServerAssumption
<1>1. WorldTypes /\ TaskTypes
  BY TypeParts
<1>2. CASE Initialize \/ Initialized \/ RefreshRulesNotification \/ ScanWorkspace
           \/ Shutdown \/ Exit \/ Restart
  <2>1. messages' \in 0..MaxMessages
    BY <1>1, <1>2
       DEF WorldTypes, Sent, Initialize, Initialized, RefreshRulesNotification, ScanWorkspace,
           Shutdown, Exit, Restart
  <2>2. CASE Initialize
    BY <1>1, <2>1, <2>2 DEF WorldTypes, Initialize, Existing
  <2>3. CASE Initialized
    BY <1>1, <2>1, <2>3 DEF WorldTypes, Initialized, cacheVars, Dirs
  <2>4. CASE RefreshRulesNotification \/ ScanWorkspace
    BY <1>1, <2>1, <2>4 DEF WorldTypes, RefreshRulesNotification, ScanWorkspace, cacheVars
  <2>5. CASE Shutdown \/ Exit
    BY <1>1, <2>1, <2>5 DEF WorldTypes, Shutdown, Exit, cacheVars
  <2>6. CASE Restart
    BY <1>1, <2>1, <2>6 DEF WorldTypes, Restart
  <2>7. QED
    BY <1>2, <2>2, <2>3, <2>4, <2>5, <2>6
<1>3. ASSUME NEW f \in Files, DidOpen(f) \/ DidSave(f) \/ Ignore(f)
      PROVE  WorldTypes'
  <2>1. disk' \in [Files -> 0..MaxVersion] /\ Existing(disk') \subseteq Files
    BY <1>1, <1>3 DEF WorldTypes, DidOpen, DidSave, Ignore, Existing
  <2>2. targets' \subseteq Files
    BY <1>1, <1>3, <2>1 DEF WorldTypes, DidOpen, DidSave, Ignore, ScanFile
  <2>3. QED
    BY <1>1, <1>3, <2>1, <2>2 DEF WorldTypes, Sent, DidOpen, DidSave, Ignore, clientVars
<1>4. ASSUME NEW f \in Files,
             DidClose(f) \/ DidCreateFile(f) \/ CreateOutside(f) \/ DidDeleteFile(f)
      PROVE  WorldTypes'
  BY <1>1, <1>4 DEF WorldTypes, Sent, DidClose, DidCreateFile, CreateOutside, DidDeleteFile,
                    clientVars, cacheVars, Existing
<1>5. ASSUME NEW s \in Slots, TaskStep(s)
      PROVE  WorldTypes'
  <2>1. tasks[s].kind \in {"file", "open"} => tasks[s].file \in Files
    BY DEF TaskInv
  <2>2. tasks[s].file = NoFile \/ tasks[s].file \in Files
    BY <1>1 DEF TaskTypes, Task
  <2>3. openDocs' \subseteq Files /\ excused' \subseteq Files /\ initialized' \in BOOLEAN
    BY <1>1, <1>5, <2>1, <2>2
       DEF WorldTypes, TaskStep, StoreRules, EndProgress, ScanOpenDocuments, StartScan, FinishFile,
           AddOpenDocument, FinishScan, Publish, ScanRaises, ReplyRaises, cacheVars, Existing,
           TaskInv
  <2>6. overtaken' \subseteq Files
    <3>1. CASE FinishFile(s)
      BY <1>1, <2>1, <3>1 DEF WorldTypes, FinishFile
    <3>2. CASE ~FinishFile(s)
      BY <1>1, <1>5, <3>2
         DEF WorldTypes, TaskStep, StoreRules, EndProgress, ScanOpenDocuments, StartScan,
             AddOpenDocument, FinishScan, Publish, ScanRaises, ReplyRaises
    <3>3. QED
      BY <3>1, <3>2
  <2>4. UNCHANGED <<disk, phase, clientOpen, asked, messages, targets, ignored, saved>>
    BY <1>5 DEF TaskStep, StoreRules, EndProgress, ScanOpenDocuments, StartScan, FinishFile,
                AddOpenDocument, FinishScan, Publish, ScanRaises, ReplyRaises,
                clientVars, cacheVars
  <2>5. QED
    BY <1>1, <2>3, <2>4, <2>6 DEF WorldTypes
<1>6. QED
  BY <1>2, <1>3, <1>4, <1>5 DEF Next, ClientStep

\* Only the end of a scan records results, of files; only Restart forgets.
LEMMA ResultsStep ==
    ASSUME TypeOK, TaskInv, DisplayInv, Next
    PROVE  /\ ResultTypes' /\ DisplayInv'
           /\ Restart \/ DOMAIN cached \subseteq DOMAIN cached'
<1> USE LspServerAssumption DEF LspServerAssumption
<1>1. TaskTypes /\ ResultTypes
  BY TypeParts
<1>2. CASE UNCHANGED <<diags, cached>>
  BY <1>1, <1>2 DEF ResultTypes, DisplayInv
<1>3. ASSUME NEW f \in Files, DidDeleteFile(f)
      PROVE  /\ ResultTypes' /\ DisplayInv'
             /\ DOMAIN cached \subseteq DOMAIN cached'
  BY <1>1, <1>3 DEF ResultTypes, DisplayInv, DidDeleteFile
<1>4. CASE Restart
  <2>1. DOMAIN NothingScanned = {}
    BY DEF NothingScanned
  <2>2. QED
    BY <1>4, <2>1 DEF Restart, ResultTypes, DisplayInv
<1>5. ASSUME NEW s \in Slots, FinishFile(s)
      PROVE  /\ ResultTypes' /\ DisplayInv'
             /\ DOMAIN cached \subseteq DOMAIN cached'
  <2> DEFINE task == tasks[s]
  <2>1. task \in Task /\ task.file \in Files
    BY <1>1, <1>5 DEF TaskTypes, FinishFile, TaskInv
  <2>2. {task.file} \in SUBSET Files /\ Record(task, {task.file})
    BY <1>5, <2>1 DEF FinishFile
  <2>3. diags' = [diags EXCEPT ![task.file] = Found(task, task.file)]
    BY <1>5 DEF FinishFile
  <2> HIDE DEF task
  <2>4. /\ DOMAIN cached' = DOMAIN cached \cup {task.file}
        /\ \A f \in Files : Found(task, f) \subseteq 1..MaxVersion
        /\ cached'[task.file] = Found(task, task.file)
        /\ \A f \in DOMAIN cached \ {task.file} : cached'[f] = cached[f]
    BY <2>1, <2>2, RecordTypes
  <2>5. QED
    BY <1>1, <2>1, <2>3, <2>4 DEF ResultTypes, DisplayInv
<1>6. ASSUME NEW s \in Slots, FinishScan(s)
      PROVE  /\ ResultTypes' /\ DisplayInv'
             /\ DOMAIN cached \subseteq DOMAIN cached'
  <2> DEFINE task == tasks[s]
             S == Existing(task.read)
  <2>1. task \in Task /\ S \in SUBSET Files
    BY <1>1 DEF TaskTypes, Existing
  <2>2. Record(task, S) /\ diags' = diags
    BY <1>6 DEF FinishScan, clientVars
  <2> HIDE DEF task, S
  <2>3. /\ DOMAIN cached' = DOMAIN cached \cup S
        /\ \A f \in Files : Found(task, f) \subseteq 1..MaxVersion
        /\ \A f \in S : cached'[f] = Found(task, f)
        /\ \A f \in DOMAIN cached \ S : cached'[f] = cached[f]
    BY <2>1, <2>2, RecordTypes
  <2>4. QED
    BY <1>1, <2>1, <2>2, <2>3 DEF ResultTypes, DisplayInv
<1>7. ASSUME NEW s \in Slots, Publish(s)
      PROVE  /\ ResultTypes' /\ DisplayInv'
             /\ DOMAIN cached \subseteq DOMAIN cached'
  <2>1. tasks[s] \in Task /\ tasks[s].targets \subseteq DOMAIN cached /\ cached' = cached
    BY <1>1, <1>7 DEF TaskTypes, Publish, TaskInv, cacheVars
  <2>2. \A f \in Files : Found(tasks[s], f) \subseteq 1..MaxVersion
    BY <2>1 DEF Found, Task
  <2>3. diags' = [f \in Files |-> IF f \in tasks[s].targets THEN Found(tasks[s], f)
                                                             ELSE diags[f]]
    BY <1>7 DEF Publish
  <2>4. QED
    BY <1>1, <2>1, <2>2, <2>3 DEF ResultTypes, DisplayInv
<1>8. ASSUME NEW s \in Slots, StoreRules(s) \/ EndProgress(s) \/ ScanOpenDocuments(s)
                              \/ StartScan(s) \/ AddOpenDocument(s) \/ ScanRaises(s)
                              \/ ReplyRaises(s)
      PROVE  UNCHANGED <<diags, cached>>
  BY <1>8 DEF StoreRules, EndProgress, ScanOpenDocuments, StartScan, AddOpenDocument, ScanRaises,
              ReplyRaises, clientVars, cacheVars
<1>9. ClientStep => \/ Restart \/ UNCHANGED <<diags, cached>>
                    \/ \E f \in Files : DidDeleteFile(f)
  BY DEF ClientStep, Initialize, Initialized, RefreshRulesNotification, ScanWorkspace, Shutdown,
         Exit, DidOpen, DidSave, DidClose, Ignore, DidCreateFile, CreateOutside,
         clientVars, cacheVars
<1>10. QED
  BY <1>2, <1>3, <1>4, <1>5, <1>6, <1>7, <1>8, <1>9 DEF Next, TaskStep

-----------------------------------------------------------------------------
(* Work in progress *)

Working == {s \in Slots : AtWork(tasks[s])}

LEMMA SlotsAreFinite ==
    ASSUME NEW S \in SUBSET Slots
    PROVE  IsFiniteSet(S) /\ Cardinality(S) \in Nat
<1>1. IsFiniteSet(Slots)
  BY FS_Interval, LspServerAssumption DEF LspServerAssumption, Slots
<1>2. IsFiniteSet(S)
  BY <1>1, FS_Subset
<1>3. QED
  BY <1>2, FS_CardinalityType

LEMMA OneMoreAtWork ==
    ASSUME NEW S \in SUBSET Slots, NEW q \in Slots, q \notin S
    PROVE  Cardinality(S \cup {q}) = Cardinality(S) + 1
BY SlotsAreFinite, FS_AddElement

LEMMA OneLessAtWork ==
    ASSUME NEW S \in SUBSET Slots, NEW q \in S
    PROVE  Cardinality(S \ {q}) = Cardinality(S) - 1
BY SlotsAreFinite, FS_RemoveElement

\* The circles after a task has changed.
LEMMA CirclesStep ==
    ASSUME TypeOK, WorkShowsProgress, NEW q \in Slots, NEW t \in Task,
           tasks'[q] = t, \A s \in Slots \ {q} : tasks'[s] = tasks[s],
           Circles(tasks[q], t)
    PROVE  progress' \in Nat /\ leaked' \in Nat /\ WorkShowsProgress'
<1>1. progress = Cardinality(Working) + leaked /\ leaked \in Nat
  BY DEF WorkShowsProgress, Working, TypeOK
<1>2. WorkShowsProgress' <=> progress' = Cardinality(Working') + leaked'
  BY DEF WorkShowsProgress, Working
<1>3. /\ Working \in SUBSET Slots /\ Cardinality(Working) \in Nat
      /\ Working' \in SUBSET Slots /\ Cardinality(Working') \in Nat
  <2>1. Working \in SUBSET Slots /\ Working' \in SUBSET Slots
    BY DEF Working
  <2>2. QED
    BY <2>1, SlotsAreFinite
<1>4. CASE AtWork(t) <=> AtWork(tasks[q])
  <2>1. Working' = Working
    BY <1>4 DEF Working
  <2>2. progress' = progress /\ leaked' = leaked
    BY <1>4 DEF Circles
  <2>3. QED
    BY <1>1, <1>2, <1>3, <2>1, <2>2
<1>5. CASE ~AtWork(tasks[q]) /\ AtWork(t)
  <2>1. q \notin Working /\ Working' = Working \cup {q}
    BY <1>5 DEF Working
  <2>2. Cardinality(Working') = Cardinality(Working) + 1
    BY <1>3, <2>1, OneMoreAtWork
  <2>3. progress' = progress + 1 /\ leaked' = leaked
    BY <1>5 DEF Circles
  <2>4. QED
    BY <1>1, <1>2, <1>3, <2>2, <2>3
<1>6. CASE AtWork(tasks[q]) /\ ~AtWork(t)
  <2>1. q \in Working /\ Working' = Working \ {q}
    BY <1>6 DEF Working
  <2>2. Cardinality(Working') = Cardinality(Working) - 1
    BY <1>3, <2>1, OneLessAtWork
  <2>3. \/ progress' = progress - 1 /\ leaked' = leaked
        \/ progress' = progress /\ leaked' = leaked + 1
    BY <1>6 DEF Circles
  <2>4. QED
    BY <1>1, <1>2, <1>3, <2>2, <2>3
<1>7. QED
  BY <1>4, <1>5, <1>6

\* What TaskInv says of one task.
Kept(t, recorded) ==
    /\ t.pc = "free" => t.kind = "none"
    /\ t.kind \in {"file", "open"} => t.file \in Files
    /\ t.pc = "opened" => t.kind = "open"
    /\ t.pc \in {"fetching", "stored", "refreshed"} => t.kind = "docs"
    /\ t.pc \in {"recorded", "publish"} => t.targets \subseteq recorded

\* One task changes.
LEMMA OneTask ==
    ASSUME TypeOK, TaskInv, DOMAIN cached \subseteq DOMAIN cached', NEW q \in Slots,
           NEW t \in Task, tasks' = [tasks EXCEPT ![q] = t], Kept(t, DOMAIN cached')
    PROVE  /\ tasks' \in [Slots -> Task] /\ TaskInv'
           /\ tasks'[q] = t /\ \A s \in Slots \ {q} : tasks'[s] = tasks[s]
<1>1. tasks \in [Slots -> Task]
  BY DEF TypeOK, Task
<1>2. /\ tasks' \in [Slots -> Task]
      /\ tasks'[q] = t /\ \A s \in Slots \ {q} : tasks'[s] = tasks[s]
  BY <1>1
<1>3. \A s \in Slots : Kept(tasks'[s], DOMAIN cached')
  BY <1>2 DEF TaskInv, Kept
<1>4. QED
  BY <1>2, <1>3 DEF TaskInv, Kept

LEMMA TasksStep ==
    ASSUME TypeOK, TaskInv, DisplayInv, WorkShowsProgress, Next
    PROVE  TaskTypes' /\ TaskInv' /\ WorkShowsProgress'
<1>1. TaskTypes
  BY TypeParts
<1>2. Restart \/ DOMAIN cached \subseteq DOMAIN cached'
  BY ResultsStep
<1>6. CASE Restart
  <2>1. tasks' = NoTasks /\ queue' = <<>> /\ progress' = 0 /\ leaked' = 0
    BY <1>6 DEF Restart
  <2>2. \A s \in Slots : tasks'[s] = FreeTask
    BY <2>1 DEF NoTasks
  <2>3. tasks' \in [Slots -> Task]
    BY <2>1, FreeTaskType DEF NoTasks
  <2>4. queue' \in Seq(Slots)
    BY <2>1, EmptySeq
  <2>5. TaskInv'
    BY <2>2, FreeTaskType DEF TaskInv
  <2>6. {s \in Slots : AtWork(tasks'[s])} = {}
    BY <2>2, FreeIsIdle
  <2>7. WorkShowsProgress'
    <3>1. Cardinality({s \in Slots : AtWork(tasks'[s])}) = 0
      BY <2>6, FS_EmptySet
    <3>2. QED
      BY <2>1, <3>1 DEF WorkShowsProgress, AtWork
  <2>8. QED
    BY <2>1, <2>3, <2>4, <2>5, <2>7 DEF TaskTypes
<1>7. CASE Steady /\ DOMAIN cached \subseteq DOMAIN cached'
  BY <1>1, <1>7 DEF Steady, TaskTypes, TaskInv, WorkShowsProgress
<1>8. CASE BeginsOne /\ DOMAIN cached \subseteq DOMAIN cached'
  <2>1. PICK q \in Slots, t \in Task :
            /\ Begins(q, t) /\ queue' \in Seq(Slots) /\ leaked' = leaked
            /\ t.pc = "fetching" => t.kind = "docs"
            /\ \/ /\ t.pc = "queued" /\ t.kind \in {"file", "open"} /\ t.file \in Files
                  /\ progress' = progress
               \/ /\ t.pc \in {"queued", "fetching"} /\ t.kind \in {"docs", "all"}
                  /\ progress' = progress + 1
    BY <1>8 DEF BeginsOne
  <2>2. Kept(t, DOMAIN cached')
    BY <2>1 DEF Kept
  <2>3. /\ tasks' \in [Slots -> Task] /\ TaskInv'
        /\ tasks'[q] = t /\ \A s \in Slots \ {q} : tasks'[s] = tasks[s]
    BY <1>8, <2>1, <2>2, OneTask DEF Begins
  <2>4. ~AtWork(tasks[q])
    BY <2>1 DEF Begins, TaskInv, AtWork
  <2>5. Circles(tasks[q], t)
    BY <2>1, <2>4 DEF Circles, AtWork
  <2>6. QED
    BY <2>1, <2>3, <2>5, CirclesStep DEF TaskTypes
<1>9. ASSUME NEW s \in Slots, TaskStep(s), DOMAIN cached \subseteq DOMAIN cached'
      PROVE  TaskTypes' /\ TaskInv' /\ WorkShowsProgress'
  <2>1. PICK t \in Task : /\ tasks' = [tasks EXCEPT ![s] = t]
                          /\ queue' \in Seq(Slots)
                          /\ Becomes(s, t)
    BY <1>9, TaskChange
  <2>2. Kept(t, DOMAIN cached')
    <3>1. tasks[s].kind \in {"file", "open"} => tasks[s].file \in Files
      BY DEF TaskInv
    <3>2. QED
      BY <2>1, <3>1, FreeTaskType DEF Kept, Becomes
  <2>3. /\ tasks' \in [Slots -> Task] /\ TaskInv'
        /\ tasks'[s] = t /\ \A q \in Slots \ {s} : tasks'[q] = tasks[q]
    BY <1>9, <2>1, <2>2, OneTask
  <2>4. QED
    BY <2>1, <2>3, CirclesStep DEF TaskTypes, Becomes
<1>10. QED
  BY <1>2, <1>6, <1>7, <1>8, <1>9, ClientTasks DEF Next

LEMMA InitInv == Init => IInv
<1> SUFFICES ASSUME Init
             PROVE  IInv
  OBVIOUS
<1> USE LspServerAssumption DEF LspServerAssumption
<1>1. \A s \in Slots : tasks[s] = FreeTask
  BY DEF Init, NoTasks
<1>2. TaskTypes
  <2>1. tasks \in [Slots -> Task]
    BY FreeTaskType DEF Init, NoTasks
  <2>2. QED
    BY <2>1, EmptySeq DEF Init, TaskTypes
<1>3. WorldTypes
  <2>1. MaxVersion \in Nat /\ 1 <= MaxVersion
    OBVIOUS
  <2>2. disk \in [Files -> 0..MaxVersion] /\ messages \in 0..MaxMessages
    BY <2>1 DEF Init
  <2>3. /\ phase = "start" /\ initialized = FALSE /\ saved = [d \in Dirs |-> {}]
        /\ clientOpen = {} /\ asked = {} /\ targets = {} /\ openDocs = {}
        /\ ignored = {} /\ excused = {} /\ overtaken = {}
    BY DEF Init
  <2>4. QED
    BY <2>2, <2>3 DEF WorldTypes
<1>4. ResultTypes /\ DisplayInv
  <2>1. DOMAIN NothingScanned = {}
    BY DEF NothingScanned
  <2>2. QED
    BY <2>1 DEF Init, ResultTypes, DisplayInv
<1>5. TaskInv
  BY <1>1, FreeTaskType DEF TaskInv
<1>6. WorkShowsProgress
  <2>1. {s \in Slots : AtWork(tasks[s])} = {}
    BY <1>1, FreeIsIdle
  <2>2. Cardinality({s \in Slots : AtWork(tasks[s])}) = 0
    BY <2>1, FS_EmptySet
  <2>3. QED
    BY <2>2 DEF Init, WorkShowsProgress
<1>7. QED
  BY <1>2, <1>3, <1>4, <1>5, <1>6, TypeParts DEF IInv

LEMMA NextInv == IInv /\ [Next]_vars => IInv'
<1> SUFFICES ASSUME IInv, [Next]_vars
             PROVE  IInv'
  OBVIOUS
<1>1. CASE Next
  <2>1. WorldTypes' /\ ResultTypes' /\ DisplayInv' /\ TaskTypes' /\ TaskInv' /\ WorkShowsProgress'
    BY <1>1, WorldStep, ResultsStep, TasksStep DEF IInv
  <2>2. TypeOK'
    BY <2>1 DEF TypeOK, Task, TaskTypes, WorldTypes, ResultTypes
  <2>3. QED
    BY <2>1, <2>2 DEF IInv
<1>2. CASE UNCHANGED vars
  BY <1>2 DEF vars, clientVars, cacheVars, taskVars, IInv, TypeOK, TaskInv, DisplayInv,
              WorkShowsProgress
<1>3. QED
  BY <1>1, <1>2

LEMMA Invariance == Spec => []IInv
BY InitInv, NextInv, PTL DEF Spec

\* The state of the server and of its client has its types.
THEOREM TypeCorrect == Spec => []TypeOK
BY Invariance, PTL DEF IInv

\* However the replies interleave, a finding on display is of a scanned file,
\* so that a later scan of many files can clear it.
THEOREM WhatIsDisplayedWasScanned == Spec => []DisplayedIsScanned
<1>1. DisplayInv => DisplayedIsScanned
  BY DEF DisplayInv, DisplayedIsScanned
<1>2. QED
  BY <1>1, Invariance, PTL DEF IInv

\* The progress circles on display are those of the replies at work, and of
\* those that raised before they could end theirs.
THEOREM WorkIsShown == Spec => []WorkShowsProgress
BY Invariance, PTL DEF IInv

-----------------------------------------------------------------------------
(* The cache *)

\* A step that lets the scans of a file be, those that run and those that
\* wait, and its result.
Untouched(f) ==
    /\ disk'[f] = disk[f]
    /\ f \in DOMAIN cached' => f \in DOMAIN cached /\ cached'[f] = cached[f]
    /\ Scanning' = Scanning
    /\ \A s \in Slots : tasks[s].pc \in {"queued", "scanning"} => tasks'[s] = tasks[s]

LEMMA UntouchedIsFresh ==
    ASSUME NEW f \in Files, InTime(f), Untouched(f)
    PROVE  InTime(f)'
<1>1. \A s \in Scanning : tasks'[s] = tasks[s]
  BY DEF Untouched, Scanning
<1>2. CASE Waiting(f)
  BY <1>2 DEF Waiting, OfFile, Untouched, InTime
<1>3. CASE Scanned(f)
  BY <1>1, <1>3 DEF Scanned, OfFile, Untouched, InTime
<1>4. CASE UpToDate(f)
  BY <1>1, <1>4 DEF UpToDate, Untouched, InTime
<1>5. QED
  BY <1>2, <1>3, <1>4 DEF InTime

\* The reply of a slot that neither waits nor scans goes on, or begins.
LEMMA OtherSlotChanges ==
    ASSUME TypeOK, NEW q \in Slots, NEW t \in Task, tasks' = [tasks EXCEPT ![q] = t],
           tasks[q].pc \notin {"queued", "scanning"}, t.pc # "scanning"
    PROVE  /\ Scanning' = Scanning
           /\ \A s \in Slots : tasks[s].pc \in {"queued", "scanning"} => tasks'[s] = tasks[s]
<1>1. tasks'[q] = t /\ \A s \in Slots \ {q} : tasks'[s] = tasks[s]
  BY DEF TypeOK, Task
<1>2. QED
  BY <1>1 DEF Scanning

LEMMA ClientFresh ==
    ASSUME IInv, FreshInv, ClientStep, NEW f \in Files \ (excused' \cup overtaken'),
           disk'[f] # 0
    PROVE  InTime(f)'
<1>1. TypeOK /\ TaskTypes
  BY TypeParts DEF IInv
<1>2. CASE Restart
  <2>1. Scanning' = {}
    BY <1>2, FreeTaskType DEF Restart, Scanning, NoTasks
  <2>2. DOMAIN cached' = {}
    BY <1>2 DEF Restart, NothingScanned
  <2>3. QED
    BY <2>1, <2>2 DEF UpToDate, InTime
<1>3. CASE DidSave(f)
  <2>1. PICK q \in Slots, t \in Task :
            /\ Begins(q, t) /\ t.pc = "queued" /\ t.kind = "file" /\ t.file = f
    <3>1. ScanFile("file", f, ignored)
      BY <1>3 DEF DidSave
    <3>2. ignored \in SUBSET Files
      BY <1>1 DEF TypeOK
    <3>3. QED
      BY <1>1, <3>1, <3>2, FileScanned
  <2>2. tasks'[q] = t
    BY <1>1, <2>1 DEF Begins, TaskTypes
  <2>3. QED
    BY <2>1, <2>2 DEF Waiting, OfFile, InTime
<1>4. CASE ~Restart /\ ~DidSave(f)
  <2>1. cached' = cached /\ disk'[f] = disk[f] /\ f \notin excused /\ f \notin overtaken
    BY <1>1, <1>4
       DEF ClientStep, Initialize, Initialized, RefreshRulesNotification, ScanWorkspace,
           Shutdown, Exit, DidOpen, DidSave, DidClose, Ignore, DidCreateFile, CreateOutside,
           DidDeleteFile, cacheVars, TypeOK
  <2>2. InTime(f)
    BY <2>1 DEF FreshInv
  <2>3. CASE Steady
    BY <2>1, <2>2, <2>3, UntouchedIsFresh DEF Steady, Untouched, Scanning
  <2>4. CASE BeginsOne
    <3>1. PICK q \in Slots, t \in Task : Begins(q, t) /\ t.pc \in {"queued", "fetching"}
      BY <2>4 DEF BeginsOne
    <3>2. Untouched(f)
      BY <1>1, <2>1, <3>1, OtherSlotChanges DEF Begins, Untouched
    <3>3. QED
      BY <2>2, <3>2, UntouchedIsFresh
  <2>5. QED
    BY <1>1, <1>4, <2>3, <2>4, ClientTasks
<1>5. QED
  BY <1>2, <1>3, <1>4

\* A scan reads what is on the disk when it starts.
LEMMA StartFresh ==
    ASSUME IInv, NEW s \in Slots, StartScan(s), NEW f \in Files, InTime(f)
    PROVE  InTime(f)'
<1> DEFINE scanned == CASE ~initialized -> {}
                        [] tasks[s].kind = "all" -> targets
                        [] OTHER -> tasks[s].targets
           R == [g \in Files |-> IF g \in scanned THEN disk[g] ELSE 0]
<1>1. TaskTypes
  BY TypeParts DEF IInv
<1>2. tasks' = [tasks EXCEPT ![s].pc = "scanning", ![s].read = R]
  BY Zenon DEF StartScan
<1>3. R[f] \in {0, disk[f]}
  BY Zenon
<1> HIDE DEF R
<1>4. /\ tasks'[s].pc = "scanning" /\ tasks'[s].read = R
      /\ tasks'[s].kind = tasks[s].kind /\ tasks'[s].file = tasks[s].file
      /\ \A q \in Slots \ {s} : tasks'[q] = tasks[q]
  BY <1>1, <1>2 DEF TaskTypes, Task
<1>5. Scanning' = Scanning \cup {s}
  BY <1>4 DEF Scanning
<1>6. cached' = cached /\ disk' = disk
  BY DEF StartScan, cacheVars
<1>7. tasks'[s].read[f] \in {0, disk'[f]}
  BY <1>3, <1>4, <1>6
<1>8. CASE Waiting(f)
  <2>1. PICK q \in Slots : tasks[q].pc = "queued" /\ OfFile(q, f)
    BY <1>8 DEF Waiting
  <2>2. CASE q = s
    BY <1>4, <1>5, <1>7, <2>1, <2>2 DEF Scanned, OfFile, InTime
  <2>3. CASE q # s
    BY <1>4, <2>1, <2>3 DEF Waiting, OfFile, InTime
  <2>4. QED
    BY <2>2, <2>3
<1>9. CASE Scanned(f)
  <2>1. PICK q \in Scanning : OfFile(q, f) /\ tasks[q].read[f] \in {0, disk[f]}
    BY <1>9 DEF Scanned
  <2>2. q \in Slots /\ q \in Scanning'
    BY <1>5 DEF Scanning
  <2>3. OfFile(q, f)' /\ tasks'[q].read[f] \in {0, disk'[f]}
    BY <1>4, <1>6, <1>7, <2>1, <2>2 DEF OfFile
  <2>4. QED
    BY <2>2, <2>3 DEF Scanned, InTime
<1>10. CASE UpToDate(f)
  <2>1. \A q \in Scanning' : tasks'[q].read[f] \in {0, disk'[f]}
    BY <1>4, <1>5, <1>6, <1>7, <1>10 DEF UpToDate, Scanning
  <2>2. QED
    BY <1>6, <1>10, <2>1 DEF UpToDate, InTime
<1>11. QED
  BY <1>8, <1>9, <1>10 DEF InTime

\* A scan ends: of a file that is not overtaken, it leaves a fresh result or
\* a scan that is still to come.
LEMMA EndFresh ==
    ASSUME IInv, FreshInv, NEW s \in Scanning,
           FinishFile(s) \/ FinishScan(s) \/ ScanRaises(s),
           NEW f \in Files \ (excused' \cup overtaken'), disk[f] # 0
    PROVE  InTime(f)'
<1>1. TypeOK /\ TaskTypes /\ TaskInv /\ s \in Slots /\ tasks[s].pc = "scanning"
  BY TypeParts DEF IInv, Scanning
<1>2. tasks'[s].pc # "scanning" /\ \A q \in Slots \ {s} : tasks'[q] = tasks[q]
  BY <1>1, FreeTaskType DEF FinishFile, FinishScan, ScanRaises, Raise, End, TaskTypes, Task
<1>3. Scanning' = Scanning \ {s}
  BY <1>2 DEF Scanning
<1>4. disk' = disk /\ f \notin excused /\ f \notin overtaken
  BY DEF FinishFile, FinishScan, ScanRaises
<1>5. InTime(f)
  BY <1>4 DEF FreshInv
<1>6. CASE Waiting(f)
  BY <1>1, <1>2, <1>6 DEF Waiting, OfFile, InTime
<1>7. CASE Scanned(f) /\ ~(OfFile(s, f) /\ tasks[s].read[f] \in {0, disk[f]})
  <2>1. PICK q \in Scanning \ {s} : OfFile(q, f) /\ tasks[q].read[f] \in {0, disk[f]}
    BY <1>7 DEF Scanned
  <2>2. q \in Scanning' /\ tasks'[q] = tasks[q]
    BY <1>2, <1>3 DEF Scanning
  <2>3. QED
    BY <1>4, <2>1, <2>2 DEF Scanned, OfFile, InTime
<1>8. CASE OfFile(s, f) /\ tasks[s].read[f] \in {0, disk[f]}
  <2>1. FinishFile(s) /\ tasks[s].file = f
    BY <1>1, <1>4, <1>8, LspServerAssumption
       DEF LspServerAssumption, OfFile, FinishScan, ScanRaises
  <2>2. Record(tasks[s], {f}) /\ ~Overtakes(s, f)
    BY <1>8, <2>1 DEF FinishFile
  <2>3. \A q \in Scanning \ {s} : tasks[q].read[f] \in {0, disk[f]}
    BY <2>2 DEF Overtakes
  <2>4. \A q \in Scanning' : tasks'[q].read[f] \in {0, disk'[f]}
    BY <1>2, <1>3, <1>4, <2>3 DEF Scanning
  <2>5. cached'[f] = Found(tasks[s], f)
    BY <2>2 DEF Record
  <2>6. Found(tasks[s], f) \in {{}, {disk'[f]}}
    BY <1>4, <1>8 DEF Found
  <2>7. QED
    BY <2>4, <2>5, <2>6 DEF UpToDate, InTime
<1>9. CASE UpToDate(f)
  <2>1. \A q \in Scanning' : tasks'[q].read[f] \in {0, disk'[f]}
    BY <1>2, <1>3, <1>4, <1>9 DEF UpToDate, Scanning
  <2>2. Found(tasks[s], f) \in {{}, {disk[f]}}
    BY <1>9 DEF UpToDate, Found
  <2>3. ASSUME NEW S, Record(tasks[s], S)
        PROVE  f \in DOMAIN cached' => cached'[f] \in {{}, {disk[f]}}
    BY <1>9, <2>2, <2>3 DEF Record, UpToDate
  <2>4. (\E S : Record(tasks[s], S)) \/ cached' = cached
    BY DEF FinishFile, FinishScan, ScanRaises, cacheVars
  <2>5. f \in DOMAIN cached' => cached'[f] \in {{}, {disk[f]}}
    BY <1>9, <2>3, <2>4 DEF UpToDate
  <2>6. QED
    BY <1>4, <2>1, <2>5 DEF UpToDate, InTime
<1>10. QED
  BY <1>5, <1>6, <1>7, <1>8, <1>9 DEF InTime

LEMMA FreshStep ==
    ASSUME IInv, FreshInv, Next
    PROVE  FreshInv'
<1>1. TypeOK /\ TaskInv
  BY DEF IInv
<1>2. ASSUME NEW s \in Slots, TaskStep(s), NEW f \in Files \ (excused' \cup overtaken'),
             disk'[f] # 0
      PROVE  InTime(f)'
  <2>1. disk' = disk /\ f \notin excused /\ f \notin overtaken
    BY <1>2 DEF TaskStep, StoreRules, EndProgress, ScanOpenDocuments, StartScan, FinishFile,
                AddOpenDocument, FinishScan, Publish, ScanRaises, ReplyRaises
  <2>2. InTime(f)
    BY <1>2, <2>1 DEF FreshInv
  <2>3. CASE StartScan(s)
    BY <2>2, <2>3, StartFresh
  <2>4. CASE FinishFile(s) \/ FinishScan(s) \/ ScanRaises(s)
    <3>1. s \in Scanning
      BY <2>4 DEF FinishFile, FinishScan, ScanRaises
    <3>2. QED
      BY <1>2, <2>1, <2>4, <3>1, EndFresh
  <2>5. CASE \/ StoreRules(s) \/ EndProgress(s) \/ ScanOpenDocuments(s) \/ AddOpenDocument(s)
             \/ Publish(s) \/ ReplyRaises(s)
    <3>1. PICK t \in Task : tasks' = [tasks EXCEPT ![s] = t]
      BY <1>1, <1>2, TaskChange
    <3>2. t = tasks'[s]
      BY <1>1, <3>1 DEF TypeOK, Task
    <3>3. tasks[s].pc \notin {"queued", "scanning"} /\ tasks'[s].pc # "scanning"
      BY <1>1, <2>5, FreeTaskType
         DEF StoreRules, EndProgress, ScanOpenDocuments, AddOpenDocument, Publish, ReplyRaises,
             Raise, End, TypeOK
    <3>4. cached' = cached
      BY <2>5 DEF StoreRules, EndProgress, ScanOpenDocuments, AddOpenDocument, Publish,
                  ReplyRaises, cacheVars
    <3>5. Untouched(f)
      BY <1>1, <2>1, <3>1, <3>2, <3>3, <3>4, OtherSlotChanges DEF Untouched
    <3>6. QED
      BY <2>2, <3>5, UntouchedIsFresh
  <2>6. QED
    BY <1>2, <2>3, <2>4, <2>5 DEF TaskStep
<1>3. QED
  BY <1>2, ClientFresh DEF Next, FreshInv

\* Whatever the number of workers, the cache catches up with the disk: once
\* no reply is in progress, the result kept for a saved file is that of its
\* last version, unless its scan overtook that of an older one.
THEOREM CacheCatchesUp == Spec => []CacheIsFresh
<1>1. Init => FreshInv
  <2>1. Init => Scanning = {} /\ DOMAIN cached = {}
    BY FreeTaskType DEF Init, Scanning, NoTasks, NothingScanned
  <2>2. QED
    BY <2>1 DEF FreshInv, InTime, UpToDate
<1>2. IInv /\ FreshInv /\ [Next]_vars => FreshInv'
  <2>1. UNCHANGED vars /\ FreshInv => FreshInv'
    BY DEF vars, clientVars, cacheVars, taskVars, FreshInv, InTime, Waiting, Scanned, UpToDate,
           OfFile, Scanning
  <2>2. QED
    BY <2>1, FreshStep
<1>3. IInv /\ FreshInv => CacheIsFresh
  <2>1. Quiet => Scanning = {} /\ \A f : ~Waiting(f) /\ ~Scanned(f)
    BY DEF Quiet, FreeSlots, Scanning, Waiting, Scanned
  <2>2. IInv => DOMAIN cached \subseteq Files
    BY DEF IInv, TypeOK
  <2>3. QED
    BY <2>1, <2>2 DEF FreshInv, InTime, UpToDate, CacheIsFresh
<1>4. QED
  BY <1>1, <1>2, <1>3, Invariance, PTL DEF Spec
=============================================================================
