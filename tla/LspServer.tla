----------------------------- MODULE LspServer -----------------------------
(***************************************************************************)
(* The language server (src/osemgrep/language_server).  RPC_server.start   *)
(* reads one client message at a time; its handler runs at once and        *)
(* returns the new server and a reply, and Lwt.dont_wait runs the reply up *)
(* to its first blocking point before the next message is read.  A reply   *)
(* that scans is a task: it waits for one of the preemptive workers, scans *)
(* in it, and goes on in the main thread.  A task keeps the immutable part *)
(* of the session it was created with (the fingerprints to skip) and       *)
(* shares the mutable part (rules, open documents, results of scans).      *)
(*                                                                         *)
(* One workspace folder, only_git_dirty off.  Each version of a file has   *)
(* one finding; its fingerprint does not change from one version to the    *)
(* next, so the file stands for it.                                        *)
(***************************************************************************)
EXTENDS Naturals, Sequences, FiniteSets

CONSTANTS
    Files,
    InitialFiles,   \* the files on disk when the editor starts
    NoFile,
    Jobs,           \* user_settings.jobs, the most workers at once
    MaxVersion,     \* bound: versions of a file
    MaxTasks,       \* bound: replies in progress
    MaxMessages     \* bound: messages and outside events

ASSUME LspServerAssumption ==
    /\ InitialFiles \subseteq Files
    /\ NoFile \notin Files
    /\ {Jobs, MaxVersion, MaxTasks} \subseteq Nat \ {0}
    /\ MaxMessages \in Nat

Slots == 1..MaxTasks

VARIABLES
    disk,           \* disk[f]: version of f, 0 when there is no such file
    \* the client
    phase,          \* where the client is in the protocol; server.state is
                    \* Uninitialized in "start" and Stopped in "stopped"
    clientOpen,     \* documents open in the editor
    diags,          \* diags[f]: the version whose finding is displayed, if any
    progress,       \* progress circles displayed
    asked,          \* findings that the user asked to ignore
    messages,       \* messages sent so far
    \* the session
    targets,        \* cached_workspace_targets
    cached,         \* cached_scans, a function on the files scanned so far
    openDocs,       \* cached_session.open_documents
    initialized,    \* cached_session.initialized, with rules loaded
    ignored,        \* skipped_local_fingerprints
    \* the replies in progress
    tasks, queue,   \* queue: the tasks that wait for a worker
    \* the rest of the world
    saved,          \* saved[d]: fingerprints in the file of cache directory d
    excused,        \* files that changed without a save, or whose scan
                    \* raised (the client got a message about it)
    overtaken,      \* history: files whose scan after the last save ended
                    \* before that of an older version by another worker
    leaked          \* history: replies that raised under a progress circle

clientVars == <<phase, clientOpen, diags, progress, asked>>
cacheVars == <<targets, cached, openDocs, initialized>>
taskVars == <<tasks, queue>>
vars == <<disk, clientVars, messages, cacheVars, ignored, taskVars, saved, excused, overtaken,
          leaked>>

Dirs == {"fingerprinted_ignored_findings", "fingerprints"}
Existing(d) == {f \in Files : d[f] # 0}
NothingRead == [f \in Files |-> 0]
FreeTask == [pc |-> "free", kind |-> "none", file |-> NoFile, targets |-> {},
             ignored |-> {}, read |-> NothingRead]

NothingScanned == [f \in {} |-> {}]
NoTasks == [s \in Slots |-> FreeTask]

Init ==
    /\ disk = [f \in Files |-> IF f \in InitialFiles THEN 1 ELSE 0]
    /\ phase = "start"
    /\ clientOpen = {} /\ progress = 0 /\ asked = {}
    /\ diags = [f \in Files |-> {}]
    /\ messages = 0
    /\ targets = {} /\ cached = NothingScanned /\ openDocs = {}
    /\ initialized = FALSE /\ ignored = {}
    /\ tasks = NoTasks /\ queue = <<>>
    /\ saved = [d \in Dirs |-> {}]
    /\ excused = {} /\ overtaken = {} /\ leaked = 0

-----------------------------------------------------------------------------
(* Replies *)

Sent == messages < MaxMessages /\ messages' = messages + 1

FreeSlots == {s \in Slots : tasks[s].pc = "free"}
FreeSlot == CHOOSE s \in FreeSlots : \A q \in FreeSlots : s <= q

\* Lwt.dont_wait starts a reply that waits for a worker.
Enqueue(task) ==
    /\ FreeSlots # {}
    /\ tasks' = [tasks EXCEPT ![FreeSlot] = [task EXCEPT !.pc = "queued"]]
    /\ queue' = Append(queue, FreeSlot)

\* Scan_helpers.scan_file, up to the detached scan: the targets are computed
\* again when the file is not one, but the file is looked up in the old ones.
FileTask(kind, f, skipped) ==
    [FreeTask EXCEPT !.kind = kind, !.file = f, !.ignored = skipped,
                     !.targets = IF f \in targets THEN {f} ELSE {}]
ScanFile(kind, f, skipped) ==
    /\ Enqueue(FileTask(kind, f, skipped))
    /\ targets' = IF f \in targets THEN targets ELSE Existing(disk')

\* Scan_helpers.refresh_rules, up to the fetch of the rules.
RefreshRules(skipped) ==
    /\ FreeSlots # {}
    /\ tasks' = [tasks EXCEPT ![FreeSlot] =
                    [FreeTask EXCEPT !.pc = "fetching", !.kind = "docs", !.ignored = skipped]]
    /\ progress' = progress + 1
    /\ UNCHANGED queue

-----------------------------------------------------------------------------
(* Messages from the client, each with the whole of its handler *)

Initialize ==
    /\ phase = "start" /\ Sent
    /\ phase' = "initializing"
    /\ targets' = Existing(disk)
    /\ UNCHANGED <<disk, clientOpen, diags, progress, asked, cached,
                   openDocs, initialized, ignored, taskVars, saved, excused, overtaken, leaked>>

\* The reply is made with the session as it was before the load.
Initialized ==
    /\ phase = "initializing" /\ Sent
    /\ phase' = "ready"
    /\ RefreshRules(ignored)
    /\ ignored' = IF saved["fingerprints"] = {} THEN ignored ELSE saved["fingerprints"]
    /\ UNCHANGED <<disk, clientOpen, diags, asked, cacheVars, saved, excused, overtaken, leaked>>

DidOpen(f) ==
    /\ phase = "ready" /\ Sent
    /\ f \notin clientOpen /\ disk[f] # 0
    /\ clientOpen' = clientOpen \cup {f}
    /\ UNCHANGED disk
    /\ ScanFile("open", f, ignored)
    /\ UNCHANGED <<phase, diags, progress, asked, cached, openDocs,
                   initialized, ignored, saved, excused, overtaken, leaked>>

\* The user saves a new version, and the client says so.
DidSave(f) ==
    /\ phase = "ready" /\ Sent
    /\ f \in clientOpen /\ disk[f] \in 1..(MaxVersion - 1)
    /\ disk' = [disk EXCEPT ![f] = @ + 1]
    /\ excused' = excused \ {f} /\ overtaken' = overtaken \ {f}
    /\ ScanFile("file", f, ignored)
    /\ UNCHANGED <<clientVars, cached, openDocs, initialized, ignored, saved, leaked>>

DidClose(f) ==
    /\ phase = "ready" /\ Sent
    /\ f \in clientOpen
    /\ clientOpen' = clientOpen \ {f}
    /\ openDocs' = openDocs \ {f}
    /\ UNCHANGED <<disk, phase, diags, progress, asked, targets, cached,
                   initialized, ignored, taskVars, saved, excused, overtaken, leaked>>

DidCreateFile(f) ==
    /\ phase = "ready" /\ Sent
    /\ disk[f] = 0
    /\ disk' = [disk EXCEPT ![f] = 1]
    /\ excused' = excused \cup {f}
    /\ targets' = Existing(disk')
    /\ UNCHANGED <<clientVars, cached, openDocs, initialized, ignored, taskVars, saved,
                   overtaken, leaked>>

\* A file created outside the editor: the server is told nothing.
CreateOutside(f) ==
    /\ phase = "ready" /\ Sent
    /\ disk[f] = 0
    /\ disk' = [disk EXCEPT ![f] = 1]
    /\ excused' = excused \cup {f}
    /\ UNCHANGED <<clientVars, cacheVars, ignored, taskVars, saved, overtaken, leaked>>

\* Only the files scanned before lose their diagnostics and are closed.
DidDeleteFile(f) ==
    /\ phase = "ready" /\ Sent
    /\ disk[f] # 0
    /\ disk' = [disk EXCEPT ![f] = 0]
    /\ targets' = Existing(disk')
    /\ IF f \in DOMAIN cached
       THEN /\ diags' = [diags EXCEPT ![f] = {}]
            /\ openDocs' = openDocs \ {f}
       ELSE UNCHANGED <<diags, openDocs>>
    /\ UNCHANGED <<phase, clientOpen, progress, asked, cached,
                   initialized, ignored, taskVars, saved, excused, overtaken, leaked>>

RefreshRulesNotification ==
    /\ phase = "ready" /\ Sent
    /\ RefreshRules(ignored)
    /\ UNCHANGED <<disk, phase, clientOpen, diags, asked, cacheVars,
                   ignored, saved, excused, overtaken, leaked>>

\* semgrep/scanWorkspace: without rules the client only gets a message.
ScanWorkspace ==
    /\ phase = "ready" /\ Sent
    /\ initialized
    /\ Enqueue([FreeTask EXCEPT !.kind = "all", !.ignored = ignored])
    /\ progress' = progress + 1
    /\ UNCHANGED <<disk, phase, clientOpen, diags, asked, cacheVars,
                   ignored, saved, excused, overtaken, leaked>>

\* The command semgrep/ignore, offered on a finding that is displayed and of
\* which there is a result in the cache.
Ignore(f) ==
    /\ phase = "ready" /\ Sent
    /\ diags[f] # {}
    /\ f \in DOMAIN cached /\ cached[f] # {}
    /\ ignored' = ignored \cup {f}
    /\ asked' = asked \cup {f}
    /\ UNCHANGED disk
    /\ ScanFile("file", f, ignored')
    /\ UNCHANGED <<phase, clientOpen, diags, progress, cached, openDocs,
                   initialized, saved, excused, overtaken, leaked>>

Shutdown ==
    /\ phase = "ready" /\ Sent
    /\ phase' = "shutdown"
    /\ saved' = [saved EXCEPT !["fingerprinted_ignored_findings"] = ignored]
    /\ UNCHANGED <<disk, clientOpen, diags, progress, asked, cacheVars, ignored,
                   taskVars, excused, overtaken, leaked>>

\* rpc_loop stops and the process ends, whatever its tasks are doing.
Exit ==
    /\ phase = "shutdown" /\ Sent
    /\ phase' = "stopped"
    /\ UNCHANGED <<disk, clientOpen, diags, progress, asked, cacheVars,
                   ignored, taskVars, saved, excused, overtaken, leaked>>

\* The editor starts a new server, with a session from Session.create, and
\* forgets what the old one displayed.
Restart ==
    /\ phase = "stopped" /\ Sent
    /\ phase' = "start"
    /\ clientOpen' = {} /\ progress' = 0
    /\ diags' = [f \in Files |-> {}]
    /\ targets' = {} /\ cached' = NothingScanned /\ openDocs' = {}
    /\ initialized' = FALSE /\ ignored' = {}
    /\ tasks' = NoTasks /\ queue' = <<>>
    /\ leaked' = 0
    /\ UNCHANGED <<disk, asked, saved, excused, overtaken>>

ClientStep ==
    \/ Initialize \/ Initialized \/ RefreshRulesNotification \/ ScanWorkspace
    \/ Shutdown \/ Exit \/ Restart
    \/ \E f \in Files :
        \/ DidOpen(f) \/ DidSave(f) \/ DidClose(f) \/ Ignore(f)
        \/ DidCreateFile(f) \/ CreateOutside(f) \/ DidDeleteFile(f)

-----------------------------------------------------------------------------
(* The tasks *)

Alive == phase # "stopped"
Scanning == {s \in Slots : tasks[s].pc = "scanning"}
End(s) == tasks' = [tasks EXCEPT ![s] = FreeTask]

\* From create_progress to end_progress.
AtWork(task) ==
    \/ task.pc \in {"fetching", "stored", "recorded"}
    \/ task.kind \in {"docs", "all"} /\ task.pc \in {"queued", "scanning"}

\* A reply raises: it ends without end_progress, if that is still to come.
Raise(s) ==
    /\ End(s)
    /\ leaked' = IF AtWork(tasks[s]) THEN leaked + 1 ELSE leaked

\* cache_session stores the rules that were fetched.
StoreRules(s) ==
    /\ Alive
    /\ tasks[s].pc = "fetching"
    /\ initialized' = TRUE
    /\ tasks' = [tasks EXCEPT ![s].pc = "stored"]
    /\ UNCHANGED <<disk, clientVars, messages, targets, cached, openDocs, ignored,
                   queue, saved, excused, overtaken, leaked>>

\* Mutant of EndProgress: the circle of a scan stays.
EndProgressOfRules(s) ==
    /\ Alive
    /\ \/ /\ tasks[s].pc = "stored"
          /\ tasks' = [tasks EXCEPT ![s].pc = "refreshed"]
          /\ progress' = progress - 1
       \/ /\ tasks[s].pc = "recorded"
          /\ tasks' = [tasks EXCEPT ![s].pc = "publish"]
          /\ UNCHANGED progress
    /\ UNCHANGED <<disk, phase, clientOpen, diags, asked, messages, cacheVars, ignored,
                   queue, saved, excused, overtaken, leaked>>

\* end_progress is sent, before rulesRefreshed or the diagnostics.
EndProgress(s) ==
    /\ Alive
    /\ \/ /\ tasks[s].pc = "stored"
          /\ tasks' = [tasks EXCEPT ![s].pc = "refreshed"]
       \/ /\ tasks[s].pc = "recorded"
          /\ tasks' = [tasks EXCEPT ![s].pc = "publish"]
    /\ progress' = progress - 1
    /\ UNCHANGED <<disk, phase, clientOpen, diags, asked, messages, cacheVars, ignored,
                   queue, saved, excused, overtaken, leaked>>

\* Mutant of ScanOpenDocuments: the scan is not submitted.
ScanOpenDocumentsLost(s) ==
    /\ Alive
    /\ tasks[s].pc = "refreshed"
    /\ progress' = progress + 1
    /\ tasks' = [tasks EXCEPT ![s].pc = "queued", ![s].targets = targets \cap openDocs]
    /\ UNCHANGED <<disk, phase, clientOpen, diags, asked, messages, cacheVars, ignored,
                   queue, saved, excused, overtaken, leaked>>

\* scan_open_documents, with the session of the task and under a progress
\* circle of its own.
ScanOpenDocuments(s) ==
    /\ Alive
    /\ tasks[s].pc = "refreshed"
    /\ progress' = progress + 1
    /\ tasks' = [tasks EXCEPT ![s].pc = "queued", ![s].targets = targets \cap openDocs]
    /\ queue' = Append(queue, s)
    /\ UNCHANGED <<disk, phase, clientOpen, diags, asked, messages, cacheVars, ignored,
                   saved, excused, overtaken, leaked>>

\* Outside a worker a reply raises too, in the fetch of the rules, in
\* Session.targets or while it sends a packet: it ends there, and what is
\* displayed stays.
ReplyRaises(s) ==
    /\ Alive
    /\ tasks[s].pc \in {"fetching", "stored", "refreshed", "recorded", "publish"}
    /\ Raise(s)
    /\ UNCHANGED <<disk, clientVars, messages, cacheVars, ignored, queue, saved, excused,
                   overtaken>>

\* Lwt_platform.init_preemptive 1 user_settings.jobs
WorkerIsFree == Cardinality(Scanning) < Jobs

\* A worker takes the task: run_semgrep looks at the rules and the targets
\* now, and scans nothing as long as there are no rules.
StartScan(s) ==
    /\ Alive
    /\ tasks[s].pc = "queued"
    /\ queue # <<>> /\ s = Head(queue)
    /\ WorkerIsFree
    /\ queue' = Tail(queue)
    /\ LET scanned == CASE ~initialized -> {}
                        [] tasks[s].kind = "all" -> targets
                        [] OTHER -> tasks[s].targets
       IN tasks' = [tasks EXCEPT ![s].pc = "scanning",
                        ![s].read = [f \in Files |-> IF f \in scanned THEN disk[f] ELSE 0]]
    /\ UNCHANGED <<disk, clientVars, messages, cacheVars, ignored, saved, excused, overtaken,
                   leaked>>

\* Mutant of Found: a file that was not scanned has a finding too.
FoundAnyway(task, f) == IF f \in task.ignored THEN {} ELSE {task.read[f]}

\* What the scan found in f, less the fingerprints of the task's session.
Found(task, f) ==
    IF task.read[f] = 0 \/ f \in task.ignored THEN {} ELSE {task.read[f]}

\* Mutants of Record: the results of the other files are forgotten; a file
\* without a finding keeps the one of before (there is no Hashtbl.replace).
RecordOnly(task, files) == cached' = [f \in files |-> Found(task, f)]
RecordAdded(task, files) ==
    cached' = [f \in DOMAIN cached \cup files |->
                  IF f \in files /\ (Found(task, f) # {} \/ f \notin DOMAIN cached)
                  THEN Found(task, f) ELSE cached[f]]

\* Session.record_results
Record(task, files) ==
    cached' = [f \in DOMAIN cached \cup files |->
                  IF f \in files THEN Found(task, f) ELSE cached[f]]

\* Another worker is still scanning an older version of f.
Overtakes(s, f) == \E q \in Scanning \ {s} : tasks[q].read[f] \notin {0, disk[f]}

\* The rest of scan_file: record and display the results of one file.
FinishFile(s) ==
    /\ Alive
    /\ s \in Scanning /\ tasks[s].kind \in {"file", "open"}
    /\ LET task == tasks[s]
       IN /\ Record(task, {task.file})
          /\ diags' = [diags EXCEPT ![task.file] = Found(task, task.file)]
          /\ IF task.kind = "open"
             THEN tasks' = [tasks EXCEPT ![s].pc = "opened"]
             ELSE End(s)
          /\ overtaken' = IF task.read[task.file] \in {0, disk[task.file]} /\ Overtakes(s, task.file)
                          THEN overtaken \cup {task.file} ELSE overtaken
    /\ UNCHANGED <<disk, phase, clientOpen, progress, asked, messages,
                   targets, openDocs, initialized, ignored, queue, saved, excused, leaked>>

\* The end of the reply to DidOpen, after the diagnostics have been sent.
AddOpenDocument(s) ==
    /\ Alive
    /\ tasks[s].pc = "opened"
    /\ openDocs' = openDocs \cup {tasks[s].file}
    /\ End(s)
    /\ UNCHANGED <<disk, clientVars, messages, targets, cached, initialized, ignored,
                   queue, saved, excused, overtaken, leaked>>

\* scan_something: record the results, and choose the files whose
\* diagnostics will be sent, those scanned at any time.
FinishScan(s) ==
    /\ Alive
    /\ s \in Scanning /\ tasks[s].kind \in {"docs", "all"}
    /\ Record(tasks[s], Existing(tasks[s].read))
    /\ tasks' = [tasks EXCEPT ![s].pc = "recorded", ![s].targets = DOMAIN cached']
    /\ UNCHANGED <<disk, clientVars, messages, targets, openDocs, initialized, ignored,
                   queue, saved, excused, overtaken, leaked>>

\* The diagnostics are sent, for files that other replies may have scanned.
Publish(s) ==
    /\ Alive
    /\ tasks[s].pc = "publish"
    /\ diags' = [f \in Files |-> IF f \in tasks[s].targets THEN Found(tasks[s], f)
                                                           ELSE diags[f]]
    /\ End(s)
    /\ UNCHANGED <<disk, phase, clientOpen, progress, asked, messages, cacheVars,
                   ignored, queue, saved, excused, overtaken, leaked>>

\* The scan raises: the reply ends there and the client gets a message.
ScanRaises(s) ==
    /\ Alive
    /\ s \in Scanning
    /\ excused' = excused \cup (IF tasks[s].file = NoFile THEN Existing(tasks[s].read)
                                                          ELSE {tasks[s].file})
    /\ Raise(s)
    /\ UNCHANGED <<disk, clientVars, messages, cacheVars, ignored, queue, saved, overtaken>>

TaskStep(s) ==
    \/ StoreRules(s) \/ EndProgress(s) \/ ScanOpenDocuments(s) \/ StartScan(s)
    \/ FinishFile(s) \/ AddOpenDocument(s) \/ FinishScan(s) \/ Publish(s)
    \/ ScanRaises(s) \/ ReplyRaises(s)

Next == ClientStep \/ \E s \in Slots : TaskStep(s)

Spec == Init /\ [][Next]_vars

\* Lwt resumes every promise that is ready, and a scan ends; the client owes
\* nothing.
FairSpec == Spec /\ \A s \in Slots : WF_vars(TaskStep(s))

-----------------------------------------------------------------------------
(* Properties *)

Quiet == phase = "ready" /\ FreeSlots = Slots

TypeOK ==
    /\ disk \in [Files -> 0..MaxVersion]
    /\ phase \in {"start", "initializing", "ready", "shutdown", "stopped"}
    /\ clientOpen \subseteq Files
    /\ diags \in [Files -> SUBSET (1..MaxVersion)]
    /\ progress \in Nat
    /\ asked \subseteq Files
    /\ messages \in 0..MaxMessages
    /\ targets \subseteq Files
    /\ DOMAIN cached \subseteq Files
    /\ \A f \in DOMAIN cached : cached[f] \subseteq 1..MaxVersion
    /\ openDocs \subseteq Files
    /\ initialized \in BOOLEAN
    /\ ignored \subseteq Files
    /\ tasks \in [Slots -> [pc : {"free", "fetching", "stored", "refreshed", "queued",
                                  "scanning", "opened", "recorded", "publish"},
                            kind : {"none", "file", "open", "docs", "all"},
                            file : Files \cup {NoFile}, targets : SUBSET Files,
                            ignored : SUBSET Files, read : [Files -> 0..MaxVersion]]]
    /\ queue \in Seq(Slots)
    /\ saved \in [Dirs -> SUBSET Files]
    /\ excused \subseteq Files
    /\ overtaken \subseteq Files
    /\ leaked \in Nat

\* The results that are kept (Session.cached_scans, which code actions read)
\* catch up with the disk: once no reply is in progress, the one of a file
\* that was saved is of its last version, whatever the order of saves,
\* refreshes and scans and however many workers there are.  Only a scan that
\* was overtaken leaves an older one: it was still running when the scan
\* after the save ended, and Session.record_results takes what comes last.
CacheIsFresh ==
    Quiet => \A f \in DOMAIN cached \ (excused \cup overtaken) :
                 cached[f] # {} /\ disk[f] # 0 => cached[f] = {disk[f]}

\* A finding on display can be cleared: its file is among the scanned files,
\* to which every later scan_something sends diagnostics, although results
\* are recorded and displayed in different steps of several tasks.
DisplayedIsScanned ==
    phase = "ready" => \A f \in Files : diags[f] # {} => f \in DOMAIN cached

\* The progress circles on display are those of the replies that fetch rules
\* or scan many files (Lsp_.create_progress, end_progress, in different steps
\* of several replies), and one more for each reply that raised before its
\* end_progress, which no handler sends in its place.
WorkShowsProgress ==
    progress = Cardinality({s \in Slots : AtWork(tasks[s])}) + leaked

\* Every reply ends, or the server is stopped.
RepliesEnd ==
    \A s \in Slots : (tasks[s].pc # "free") ~> (tasks[s].pc = "free" \/ ~Alive)

-----------------------------------------------------------------------------
(* What the documentation says, checked by the runs that expect a violation *)

\* A file that turns out to be a target when the targets are computed again
\* is scanned (the comment in Scan_helpers.scan_file).
OpenedTargetIsScanned ==
    [][\A s \in Slots :
          tasks[s].pc = "free" /\ tasks'[s].pc = "queued" /\ tasks'[s].file \in targets'
              => tasks'[s].targets # {}]_vars

\* The fingerprints saved by Shutdown are loaded by the next Initialized
\* (Session.mli).
IgnoresSurviveRestart ==
    phase = "ready" => asked \subseteq ignored
=============================================================================
