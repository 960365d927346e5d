--------------------------- MODULE WatcherDispatch ---------------------------
(***************************************************************************)
(* The credential files' way from the disk into the manager: the fsnotify  *)
(* events and full scans of internal/watcher, the revisions they stamp,    *)
(* the dispatch loop with its pending map, and the two consumers of        *)
(* sdk/cliproxy/service_auth.go (the queue's goroutine and the hook that   *)
(* runs inside an upload), which check a file snapshot against the disk    *)
(* before they commit it.                                                  *)
(*                                                                         *)
(* One credential file that holds one credential.  A content is a number;  *)
(* every write stores a content not used before.  clientsMutex is held for *)
(* the length of one action; authRescanMu, authUpdateMu and the            *)
(* credential's mutation gate are held across actions and are variables.   *)
(***************************************************************************)
EXTENDS Integers, Sequences, FiniteSets, SequencesExt

CONSTANTS
    Scanners,       \* goroutines that may reload clients
    Uploads,        \* upload requests of the management API
    MaxChanges,     \* bound on writes, removals, uploads, saves and reloads
    QueueSize,      \* capacity of the service's channel
    Assumed         \* what is assumed of the programs that change the file:
                    \*   "published"  a file is removed once the watcher has it,
                    \*   "spaced"     two removals are a second apart,
                    \*   "rescan"     no removal meets a rebuild of the hashes,
                    \*   "alone"      nothing else writes during an upload

ASSUME BoundsAssumption ==
    /\ MaxChanges \in Nat
    /\ QueueSize \in Nat \ {0}
    /\ Assumed \subseteq {"published", "spaced", "rescan", "alone"}

Loop == "loop"
Consumers == {Loop} \cup Uploads

NoFile == 0
Torn == -1          \* empty or cut short: no valid JSON
Contents == 1 .. MaxChanges + 1
Unknown == 0        \* the path is not a key of lastAuthHashes
Stale == -1         \* the path is known, its hash is ""

\* A file snapshot carries the digest it was read with ("snapshot"), or the
\* mark of a discarded one ("invalid"); a persisted auth carries a version.
NilAuth == [c |-> 0, kind |-> "none"]
Snapshot(c) == [c |-> c, kind |-> "snapshot"]
Versioned(c) == [c |-> c, kind |-> "versioned"]
NoUpdate == [action |-> "none", auth |-> NilAuth, rev |-> 0, removal |-> FALSE]
VARIABLES
    disk,           \* the file: NoFile, Torn or a content
    changes,        \* writes, removals, uploads, saves and reloads so far
    writer,         \* content another program is in the middle of writing
    events,         \* fsnotify events not yet handled
    recent,         \* a removal was handled within authRemoveDebounceWindow
    hash,           \* lastAuthHashes
    index,          \* fileAuthsByPath lists the credential
    cur,            \* currentAuths
    reload,         \* pendingProviderReloadAuths
    rev,            \* authRevisions
    persisted,      \* persistedAuthRevisions
    seen,           \* fileObservations: scans during which the file was observed
    rescan,         \* the holder of authRescanMu and where it is
    scan,           \* per scanner: where refreshAuthState is
    pend,           \* pendingUpdates
    queue,          \* the service's authUpdates channel
    mgr,            \* content of the manager's credential, 0 for none
    gate,           \* holder of the credential's mutation gate
    saving,         \* content a save of the manager is writing
    updating,       \* holder of the service's authUpdateMu
    cons,           \* per consumer: where handleAuthUpdates is
    processed,      \* the service's authRevisions
    waiter,         \* authRegWaiters: the revision being registered
    registered      \* highest revision whose registration has finished

files == <<disk, changes, writer, events, recent>>
state == <<hash, index, cur, reload, rev, persisted, seen>>
pipe == <<pend, queue>>
manager == <<mgr, gate, saving>>
service == <<updating, cons, processed, waiter, registered>>
watcherVars == <<files, state, rescan, scan, pipe, manager, service>>

NoOne == [owner |-> "free", pc |-> "free", data |-> 0, upd |-> NoUpdate]
IdleScan == [pc |-> "idle", force |-> FALSE, rev |-> 0, data |-> 0,
             upd |-> NoUpdate, reread |-> FALSE]
IdleConsumer == [pc |-> "idle", c |-> 0, upd |-> NoUpdate, waits |-> 0]

\* The manager has loaded the file.  Either the watcher has published it, or
\* Start has just begun the first reload, which runs beside the event loop.
WatcherInit ==
    /\ disk \in {NoFile, 1} /\ writer = 0
    /\ events = <<>> /\ recent = FALSE
    /\ reload = NilAuth /\ rev = 0 /\ persisted = 0 /\ seen = {}
    /\ rescan = NoOne
    /\ \/ /\ hash = disk /\ index = (disk # NoFile)
          /\ cur = IF disk = NoFile THEN NilAuth ELSE Snapshot(disk)
          /\ scan = [s \in Scanners |-> IdleScan]
          /\ changes = 0
       \/ /\ hash = Unknown /\ index = FALSE /\ cur = NilAuth
          /\ \E s \in Scanners :
                scan = [t \in Scanners |->
                          IF t = s THEN [IdleScan EXCEPT !.pc = "hashes"] ELSE IdleScan]
          /\ changes = 1
    /\ pend = NoUpdate /\ queue = <<>>
    /\ mgr = disk /\ gate = "free" /\ saving = 0
    /\ updating = "free" /\ cons = [c \in Consumers |-> IdleConsumer]
    /\ processed = 0 /\ waiter = 0 /\ registered = 0

-----------------------------------------------------------------------------
(* The disk and its events *)

Counted(n) == changes + n <= MaxChanges /\ changes' = changes + n
Fresh == changes + 2

\* The kernel does not queue an event equal to the last one it queued.
Notified(op) ==
    IF events # <<>> /\ Last(events) = op THEN events ELSE Append(events, op)

\* An upload has written the file and has not told the watcher yet.
UploadOpen ==
    \E u \in Uploads : cons[u].pc \in {"write", "upsert", "persist"}

\* In place; an atomic replacement is the two steps at once.
BeginWrite ==
    /\ writer = 0 /\ saving = 0
    /\ "alone" \in Assumed => ~UploadOpen
    /\ Counted(1)
    /\ writer' = Fresh
    /\ disk' = Torn
    /\ events' = Notified("write")
    /\ UNCHANGED <<recent, state, rescan, scan, pipe, manager, service>>

EndWrite ==
    /\ writer # 0
    /\ disk' = writer
    /\ writer' = 0
    /\ events' = Notified("write")
    /\ UNCHANGED <<changes, recent, state, rescan, scan, pipe, manager, service>>

\* The watcher knows the path and has the credential.
Published == hash # Unknown /\ (cur # NilAuth \/ reload # NilAuth)

\* A removal is on its way through the event goroutine.
Removing == "remove" \in Range(events) \/ rescan.pc \in {"stat", "remove"}

Rehashing == \E s \in Scanners : scan[s].pc \in {"hashes", "rescan"}

RemoveFile ==
    /\ disk # NoFile /\ writer = 0 /\ saving = 0
    /\ "published" \in Assumed => Published
    /\ "spaced" \in Assumed => ~recent /\ ~Removing
    /\ "rescan" \in Assumed => ~Rehashing
    /\ "alone" \in Assumed => ~UploadOpen
    /\ Counted(1)
    /\ disk' = NoFile
    /\ events' = Notified("remove")
    /\ UNCHANGED <<writer, recent, state, rescan, scan, pipe, manager, service>>

WindowPasses ==
    /\ recent
    /\ recent' = FALSE
    /\ UNCHANGED <<disk, changes, writer, events, state, rescan, scan, pipe, manager, service>>

-----------------------------------------------------------------------------
(* Shared parts of the watcher *)

\* activeAuthScans
ActiveScans == {s \in Scanners : scan[s].pc \in {"read", "commit"}}

\* Mutant: an event during a scan leaves the cached hash alone.
ObserveKeepsHash ==
    /\ seen' = seen \cup ActiveScans
    /\ UNCHANGED hash

\* Every running scan learns of the event, and the hash of a known path is
\* dropped while one runs.
observeAuthFile ==
    /\ seen' = seen \cup ActiveScans
    /\ hash' = IF ActiveScans # {} /\ hash # Unknown THEN Stale ELSE hash

authEqual(a, b) == a = b /\ a.kind # "invalid"
SameFileSnapshot(a, b) == a.kind = "snapshot" /\ b.kind = "snapshot" /\ a.c = b.c

Put(a) == [action |-> "put", auth |-> a, rev |-> rev + 1, removal |-> FALSE]
Delete(removal) ==
    [action |-> "delete", auth |-> NilAuth, rev |-> rev + 1, removal |-> removal]

\* An update that a later revision has overtaken is dropped.
dispatchAuthUpdates(u) == pend' = IF u.rev < rev THEN pend ELSE u

-----------------------------------------------------------------------------
(* The event goroutine, and addOrUpdateClientLocked under authRescanMu *)

HandleEvent ==
    /\ events # <<>> /\ rescan = NoOne
    /\ events' = Tail(events)
    /\ observeAuthFile
    /\ \/ /\ Head(events) = "write"
          /\ rescan' = [NoOne EXCEPT !.owner = "events", !.pc = "check"]
          /\ UNCHANGED recent
       \/ /\ Head(events) = "remove" /\ recent
          /\ UNCHANGED <<rescan, recent>>
       \/ /\ Head(events) = "remove" /\ ~recent
          /\ recent' = TRUE
          /\ rescan' = [NoOne EXCEPT !.owner = "events", !.pc = "stat"]
    /\ UNCHANGED <<disk, changes, writer, index, cur, reload, rev, persisted,
                   scan, pipe, manager, service>>

StatAfterRemove ==
    /\ rescan.pc = "stat"
    /\ rescan' = IF disk # NoFile THEN [rescan EXCEPT !.pc = "check"]
                 ELSE IF hash # Unknown THEN [rescan EXCEPT !.pc = "remove"]
                 ELSE NoOne
    /\ UNCHANGED <<files, state, scan, pipe, manager, service>>

\* authFileUnchanged, then observeAuthFile of addOrUpdateClientLocked
CheckFile ==
    /\ rescan.pc = "check"
    /\ IF disk \in Contents /\ disk = hash
       THEN rescan' = NoOne /\ UNCHANGED <<seen, hash>>
       ELSE /\ rescan' = [rescan EXCEPT !.pc = "read"]
            /\ observeAuthFile
    /\ UNCHANGED <<files, index, cur, reload, rev, persisted, scan, pipe, manager, service>>

ReadFile ==
    /\ rescan.pc = "read"
    /\ rescan' = IF disk \in Contents
                 THEN [rescan EXCEPT !.pc = "hash", !.data = disk]
                 ELSE NoOne
    /\ UNCHANGED <<files, state, scan, pipe, manager, service>>

CacheHash ==
    /\ rescan.pc = "hash"
    /\ IF hash = rescan.data
       THEN rescan' = NoOne /\ UNCHANGED hash
       ELSE rescan' = [rescan EXCEPT !.pc = "commit"] /\ hash' = rescan.data
    /\ UNCHANGED <<files, index, cur, reload, rev, persisted, seen, scan, pipe, manager, service>>

\* computePerPathUpdatesLocked for a file that holds the credential
CommitFile ==
    /\ rescan.pc = "commit"
    /\ LET new == Snapshot(rescan.data) IN
       /\ index' = TRUE
       /\ persisted' = 0
       /\ cur' = new
       /\ IF authEqual(cur, new)
          THEN rescan' = NoOne /\ UNCHANGED rev
          ELSE /\ rev' = rev + 1
               /\ rescan' = [rescan EXCEPT !.pc = "dispatch", !.upd = Put(new)]
    /\ UNCHANGED <<files, hash, reload, seen, scan, pipe, manager, service>>

\* removeClientLocked
CommitRemoval ==
    /\ rescan.pc = "remove"
    /\ seen' = seen \cup ActiveScans
    /\ hash' = Unknown
    /\ index' = FALSE
    /\ IF index
       THEN /\ persisted' = 0 /\ cur' = NilAuth /\ reload' = NilAuth
            /\ rev' = rev + 1
            /\ rescan' = [rescan EXCEPT !.pc = "dispatch", !.upd = Delete(TRUE)]
       ELSE rescan' = NoOne /\ UNCHANGED <<persisted, cur, reload, rev>>
    /\ UNCHANGED <<files, scan, pipe, manager, service>>

DispatchFile ==
    /\ rescan.pc = "dispatch"
    /\ dispatchAuthUpdates(rescan.upd)
    /\ rescan' = NoOne
    /\ UNCHANGED <<files, state, scan, queue, manager, service>>

-----------------------------------------------------------------------------
(* reloadClients and refreshAuthState *)

GoTo(s, pc) == scan' = [scan EXCEPT ![s].pc = pc]

\* A reload of affected providers moves the credential out of currentAuths.
ReloadClients(s, setting) ==
    /\ scan[s].pc = "idle"
    /\ "rescan" \in Assumed /\ setting = "authDir" => ~Removing
    /\ Counted(1)
    /\ scan' = [scan EXCEPT ![s] = [IdleScan EXCEPT
                    !.pc = IF setting = "authDir" THEN "hashes" ELSE "start",
                    !.force = (setting = "force")]]
    /\ IF setting = "provider" THEN reload' = cur /\ cur' = NilAuth ELSE UNCHANGED <<reload, cur>>
    /\ UNCHANGED <<disk, writer, events, recent, hash, index, rev, persisted, seen,
                   rescan, pipe, manager, service>>

RescanRead(s) ==
    /\ scan[s].pc = "hashes" /\ rescan = NoOne
    /\ rescan' = [NoOne EXCEPT !.owner = s, !.pc = "hashes", !.data = disk]
    /\ GoTo(s, "rescan")
    /\ UNCHANGED <<files, state, pipe, manager, service>>

\* The hash cache is rebuilt; a path that could not be read stays known and
\* stays indexed, as does a credential that is still current.
RescanCommit(s) ==
    /\ scan[s].pc = "rescan"
    /\ hash' = IF rescan.data \in Contents THEN rescan.data
               ELSE IF rescan.data = Torn /\ hash # Unknown THEN Stale ELSE Unknown
    /\ index' = \/ rescan.data \in Contents
                \/ index /\ (rescan.data = Torn \/ cur # NilAuth \/ reload # NilAuth)
    /\ rescan' = NoOne
    /\ GoTo(s, "start")
    /\ UNCHANGED <<files, cur, reload, rev, persisted, seen, pipe, manager, service>>

ScanStart(s) ==
    /\ scan[s].pc = "start"
    /\ scan' = [scan EXCEPT ![s].pc = "read", ![s].rev = rev]
    /\ seen' = seen \ {s}
    /\ UNCHANGED <<files, hash, index, cur, reload, rev, persisted, rescan, pipe, manager, service>>

ScanRead(s) ==
    /\ scan[s].pc = "read"
    /\ scan' = [scan EXCEPT ![s].pc = "commit", ![s].data = disk]
    /\ UNCHANGED <<files, state, rescan, pipe, manager, service>>

\* The scan's result is merged with what changed while it read the disk.
ScanCommit(s) ==
    /\ scan[s].pc = "commit"
    /\ LET changed == scan[s].rev # rev \/ s \in seen
           incomplete == scan[s].data = Torn
           scanned == IF scan[s].data \in Contents /\ ~changed
                      THEN Snapshot(scan[s].data) ELSE NilAuth
           \* a credential moved out for a provider reload
           reloaded == IF scan[s].rev = rev /\ cur = NilAuth THEN reload ELSE NilAuth
           kept == IF reloaded # NilAuth /\ incomplete THEN reloaded ELSE NilAuth
           now == IF reloaded # NilAuth /\ ~incomplete /\ scanned = NilAuth THEN reloaded ELSE cur
           retained == now # NilAuth /\ (changed \/ incomplete)
           \* saved while the scan ran: read the file once more
           reread == /\ retained /\ ~incomplete /\ scan[s].rev # rev
                     /\ \/ now.kind = "versioned"
                        \/ persisted = rev
           new == IF retained THEN now ELSE IF kept # NilAuth THEN kept ELSE scanned
           upd == IF new # NilAuth /\ (now = NilAuth \/ scan[s].force \/ ~authEqual(now, new))
                  THEN Put(new)
                  ELSE IF new = NilAuth /\ now # NilAuth THEN Delete(FALSE) ELSE NoUpdate
       IN /\ cur' = new
          /\ reload' = NilAuth
          /\ index' = (new # NilAuth)
          /\ rev' = IF upd = NoUpdate THEN rev ELSE rev + 1
          /\ persisted' = IF reread THEN 0 ELSE persisted
          /\ hash' = IF \/ reread
                        \/ incomplete /\ s \notin seen /\ hash # Unknown
                     THEN Stale ELSE hash
          /\ scan' = [scan EXCEPT ![s].pc = "dispatch", ![s].upd = upd, ![s].reread = reread]
    /\ UNCHANGED <<files, seen, rescan, pipe, manager, service>>

ScanDispatch(s) ==
    /\ scan[s].pc = "dispatch"
    /\ IF scan[s].upd = NoUpdate THEN UNCHANGED pend ELSE dispatchAuthUpdates(scan[s].upd)
    /\ scan' = [scan EXCEPT ![s] = [IdleScan EXCEPT
                    !.pc = IF scan[s].reread THEN "reread" ELSE "idle"]]
    /\ UNCHANGED <<files, state, rescan, queue, manager, service>>

\* addOrUpdateClient of a path to read again
ScanReread(s) ==
    /\ scan[s].pc = "reread" /\ rescan = NoOne
    /\ observeAuthFile
    /\ rescan' = [NoOne EXCEPT !.owner = s, !.pc = "read"]
    /\ GoTo(s, "rereading")
    /\ UNCHANGED <<files, index, cur, reload, rev, persisted, pipe, manager, service>>

ScanDone(s) ==
    /\ scan[s].pc = "rereading" /\ rescan.owner # s
    /\ GoTo(s, "idle")
    /\ UNCHANGED <<files, state, rescan, pipe, manager, service>>

-----------------------------------------------------------------------------
(* dispatchLoop *)

\* nextPendingBatch takes what is pending, and the channel takes it from there.
DispatchLoop ==
    /\ pend # NoUpdate /\ Len(queue) < QueueSize
    /\ queue' = Append(queue, pend)
    /\ pend' = NoUpdate
    /\ UNCHANGED <<files, state, rescan, scan, manager, service>>

-----------------------------------------------------------------------------
(* The manager's own saves of the credential, under its gate *)

BeginSave ==
    /\ gate = "free" /\ mgr # 0 /\ saving = 0 /\ writer = 0
    /\ "alone" \in Assumed => ~UploadOpen
    /\ gate' = "saver"
    /\ Counted(1)
    /\ saving' = Fresh
    /\ disk' = Torn
    /\ events' = Notified("write")
    /\ UNCHANGED <<writer, recent, state, rescan, scan, pipe, mgr, service>>

WriteSave ==
    /\ gate = "saver" /\ disk # saving
    /\ disk' = saving
    /\ events' = Notified("write")
    /\ UNCHANGED <<changes, writer, recent, state, rescan, scan, pipe, manager, service>>

PublishSave ==
    /\ gate = "saver" /\ disk = saving
    /\ mgr' = saving
    /\ gate' = "free" /\ saving' = 0
    /\ UNCHANGED <<files, state, rescan, scan, pipe, service>>

-----------------------------------------------------------------------------
(* An upload: file, manager record, then runtimeAuthSyncHook *)

Step(c, pc) == cons' = [cons EXCEPT ![c].pc = pc]

BeginUpload(u) ==
    /\ cons[u].pc = "idle" /\ writer = 0 /\ saving = 0
    /\ Counted(2)
    /\ cons' = [cons EXCEPT ![u].pc = "write", ![u].c = Fresh]
    /\ disk' = Torn
    /\ events' = Notified("write")
    /\ UNCHANGED <<writer, recent, state, rescan, scan, pipe, manager,
                   updating, processed, waiter, registered>>

EndUpload(u) ==
    /\ cons[u].pc = "write"
    /\ disk' = cons[u].c
    /\ events' = Notified("write")
    /\ Step(u, "upsert")
    /\ UNCHANGED <<changes, writer, recent, state, rescan, scan, pipe, manager,
                   updating, processed, waiter, registered>>

\* upsertAuthRecord: the manager saves the record too, which writes the file
\* only when it differs.
UpsertRecord(u) ==
    /\ cons[u].pc = "upsert" /\ gate = "free"
    /\ mgr' = cons[u].c
    /\ disk' = cons[u].c
    /\ events' = IF disk = cons[u].c THEN events ELSE Notified("write")
    /\ cons' = [cons EXCEPT ![u].pc = "persist",
                    ![u].upd = [action |-> "put", rev |-> 0, removal |-> FALSE,
                                 auth |-> Versioned(cons[u].c)]]
    /\ UNCHANGED <<changes, writer, recent, state, rescan, scan, pipe, gate, saving,
                   updating, processed, waiter, registered>>

\* dispatchPersistedAuthUpdateWithRevision
DispatchPersisted(u) ==
    /\ cons[u].pc = "persist"
    /\ index' = TRUE
    /\ cur' = cons[u].upd.auth
    /\ rev' = rev + 1
    /\ persisted' = rev + 1
    /\ cons' = [cons EXCEPT ![u].pc = "dispatch", ![u].upd.rev = rev + 1]
    /\ UNCHANGED <<files, hash, reload, seen, rescan, scan, pipe, manager,
                   updating, processed, waiter, registered>>

EnqueuePersisted(u) ==
    /\ cons[u].pc = "dispatch"
    /\ dispatchAuthUpdates(cons[u].upd)
    /\ Step(u, "arrive")
    /\ UNCHANGED <<files, state, rescan, scan, queue, manager,
                   updating, processed, waiter, registered>>

-----------------------------------------------------------------------------
(* handleAuthUpdates, by the queue's goroutine or inside an upload *)

\* Updates at the head of handleAuthUpdates: the goroutine drains the channel,
\* and of the updates of one ID the last wins; an upload brings its own.
Arrives(c) ==
    /\ updating = "free"
    /\ \/ c = Loop /\ cons[c].pc = "idle" /\ queue # <<>> /\ queue' = <<>>
       \/ c # Loop /\ cons[c].pc = "arrive" /\ UNCHANGED queue

Arrived(c) == IF c = Loop THEN Last(queue) ELSE cons[c].upd

\* The goroutine takes the next updates; an upload answers its request.
Returned(c) ==
    IF c = Loop THEN IdleConsumer
    ELSE [IdleConsumer EXCEPT !.pc = "returned", !.upd.rev = cons[c].upd.rev]

\* Mutant: an upload whose update the goroutine has claimed returns at once.
SkipAtOnce(c) ==
    /\ Arrives(c) /\ Arrived(c).rev <= processed
    /\ cons' = [cons EXCEPT ![c] = Returned(c)]
    /\ UNCHANGED <<files, state, rescan, scan, pend, manager,
                   updating, processed, waiter, registered>>

\* An update already claimed is skipped, after the claimer's registration.
SkipClaimed(c) ==
    /\ Arrives(c) /\ Arrived(c).rev <= processed
    /\ cons' = [cons EXCEPT ![c] = IF waiter = 0 THEN Returned(c)
                                   ELSE [@ EXCEPT !.pc = "wait", !.waits = waiter]]
    /\ UNCHANGED <<files, state, rescan, scan, pend, manager,
                   updating, processed, waiter, registered>>

Claim(c) ==
    /\ Arrives(c) /\ Arrived(c).rev > processed
    /\ processed' = Arrived(c).rev
    /\ waiter' = Arrived(c).rev
    /\ updating' = c
    /\ cons' = [cons EXCEPT ![c].pc = "apply", ![c].upd = Arrived(c)]
    /\ UNCHANGED <<files, state, rescan, scan, pend, manager, registered>>

Applying(c, action) == cons[c].pc = "apply" /\ cons[c].upd.action = action

\* authUpdateMu is released and the models are registered outside it.
Applied(c) == Step(c, "register") /\ updating' = "free"

RegisterAuth(c) ==
    /\ Applying(c, "put") /\ mgr = 0 /\ gate = "free"
    /\ mgr' = cons[c].upd.auth.c
    /\ Applied(c)
    /\ UNCHANGED <<files, state, rescan, scan, pipe, gate, saving,
                   processed, waiter, registered>>

\* A versioned auth is older than the manager's once the manager has committed
\* another content (to commit the same content again changes nothing here).
isStaleCoreAuth(a) == a.kind = "versioned" /\ a.c # mgr

SkipStale(c) ==
    /\ Applying(c, "put") /\ mgr # 0 /\ isStaleCoreAuth(cons[c].upd.auth)
    /\ Applied(c)
    /\ UNCHANGED <<files, state, rescan, scan, pipe, manager, processed, waiter, registered>>

\* FileSnapshotMatchesDisk under the credential's gate
FileSnapshotMatchesDisk(a) ==
    a.kind = "versioned" \/ (a.kind = "snapshot" /\ disk = a.c)

CheckSnapshot(c) ==
    /\ Applying(c, "put") /\ mgr # 0 /\ ~isStaleCoreAuth(cons[c].upd.auth)
    /\ gate = "free"
    /\ IF FileSnapshotMatchesDisk(cons[c].upd.auth)
       THEN gate' = c /\ Step(c, "commit")
       ELSE UNCHANGED gate /\ Step(c, "discard")
    /\ UNCHANGED <<files, state, rescan, scan, pipe, mgr, saving,
                   updating, processed, waiter, registered>>

CommitUpdate(c) ==
    /\ cons[c].pc = "commit"
    /\ mgr' = cons[c].upd.auth.c
    /\ gate' = "free"
    /\ Applied(c)
    /\ UNCHANGED <<files, state, rescan, scan, pipe, saving, processed, waiter, registered>>

\* rereadDiscardedFileSnapshot: unless the watcher has seen another content
RereadDiscarded(c) ==
    /\ cons[c].pc = "discard" /\ rescan = NoOne
    /\ IF SameFileSnapshot(cur, cons[c].upd.auth)
       THEN /\ hash' = Stale
            /\ cur' = [cur EXCEPT !.kind = "invalid"]
            /\ seen' = seen \cup ActiveScans
            /\ rescan' = [NoOne EXCEPT !.owner = c, !.pc = "read"]
            /\ Step(c, "rereading")
            /\ UNCHANGED updating
       ELSE Applied(c) /\ UNCHANGED <<hash, cur, seen, rescan>>
    /\ UNCHANGED <<files, index, reload, rev, persisted, scan, pipe, manager,
                   processed, waiter, registered>>

RereadEnds(c) ==
    /\ cons[c].pc = "rereading" /\ rescan.owner # c
    /\ Applied(c)
    /\ UNCHANGED <<files, state, rescan, scan, pipe, manager, processed, waiter, registered>>

\* shouldSkipFileAuthDelete: the file is back, or cannot be read
shouldSkipDelete(c) == mgr # 0 /\ cons[c].upd.removal /\ disk # NoFile

CheckDelete(c) ==
    /\ Applying(c, "delete")
    /\ IF shouldSkipDelete(c) THEN Applied(c) ELSE Step(c, "delete") /\ UNCHANGED updating
    /\ UNCHANGED <<files, state, rescan, scan, pipe, manager, processed, waiter, registered>>

ApplyRemoval(c) ==
    /\ cons[c].pc = "delete" /\ gate = "free"
    /\ mgr' = 0
    /\ Applied(c)
    /\ UNCHANGED <<files, state, rescan, scan, pipe, gate, saving, processed, waiter, registered>>

FinishRegistration(c) ==
    /\ cons[c].pc = "register"
    /\ registered' = IF cons[c].upd.rev > registered THEN cons[c].upd.rev ELSE registered
    /\ waiter' = IF waiter = cons[c].upd.rev THEN 0 ELSE waiter
    /\ cons' = [cons EXCEPT ![c] = Returned(c)]
    /\ UNCHANGED <<files, state, rescan, scan, pipe, manager, updating, processed>>

\* The channel waited for is closed when its claimer has finished.
WaitEnds(c) ==
    /\ cons[c].pc = "wait"
    /\ \A d \in Consumers :
          cons[d].upd.rev = cons[c].waits => cons[d].pc \in {"idle", "returned", "wait", "arrive"}
    /\ cons' = [cons EXCEPT ![c] = Returned(c)]
    /\ UNCHANGED <<files, state, rescan, scan, pipe, manager,
                   updating, processed, waiter, registered>>

-----------------------------------------------------------------------------
Consumer(c) ==
    \/ SkipClaimed(c) \/ Claim(c) \/ RegisterAuth(c) \/ SkipStale(c)
    \/ CheckSnapshot(c) \/ CommitUpdate(c) \/ RereadDiscarded(c) \/ RereadEnds(c)
    \/ CheckDelete(c) \/ ApplyRemoval(c) \/ FinishRegistration(c) \/ WaitEnds(c)

Scanner(s) ==
    \/ RescanRead(s) \/ RescanCommit(s) \/ ScanStart(s) \/ ScanRead(s)
    \/ ScanCommit(s) \/ ScanDispatch(s) \/ ScanReread(s) \/ ScanDone(s)

Rescanner ==
    \/ StatAfterRemove \/ CheckFile \/ ReadFile \/ CacheHash
    \/ CommitFile \/ CommitRemoval \/ DispatchFile

Uploader(u) ==
    EndUpload(u) \/ UpsertRecord(u) \/ DispatchPersisted(u) \/ EnqueuePersisted(u)

WatcherNext ==
    \/ BeginWrite \/ EndWrite \/ RemoveFile \/ WindowPasses
    \/ HandleEvent \/ Rescanner
    \/ \E s \in Scanners :
          \/ Scanner(s)
          \/ \E setting \in {"authDir", "provider", "force", "other"} : ReloadClients(s, setting)
    \/ DispatchLoop
    \/ BeginSave \/ WriteSave \/ PublishSave
    \/ \E u \in Uploads : BeginUpload(u) \/ Uploader(u)
    \/ \E c \in Consumers : Consumer(c)

Fairness ==
    /\ WF_watcherVars(HandleEvent) /\ WF_watcherVars(Rescanner)
    /\ \A s \in Scanners : WF_watcherVars(Scanner(s))
    /\ WF_watcherVars(DispatchLoop)
    /\ WF_watcherVars(WriteSave) /\ WF_watcherVars(PublishSave)
    /\ \A u \in Uploads : WF_watcherVars(Uploader(u))
    /\ \A c \in Consumers : WF_watcherVars(Consumer(c))

WatcherSpec == WatcherInit /\ [][WatcherNext]_watcherVars /\ Fairness

-----------------------------------------------------------------------------
\* What the manager serves is what the file holds; nothing is said while the
\* file cannot be parsed.
Agrees ==
    /\ disk \in Contents => mgr = disk
    /\ disk = NoFile => mgr = 0

(* After the last change the manager comes to serve what the file holds and   *)
(* keeps to it, whatever events, scans, uploads and the manager's own saves   *)
(* crossed on the way: the revisions, the hash cache, the retained states of  *)
(* refreshAuthState and the check against the disk lose no change for good.   *)
Converges == <>[]Agrees

(* When an upload's hook returns, the registration of its revision, or of a   *)
(* later one of the same credential, has finished, also when the queue's      *)
(* goroutine claimed the revision first ("handleAuthUpdate waits for that     *)
(* registration to finish", builder.go:335).                                  *)
UploadSeesItsModels ==
    \A u \in Uploads : cons[u].pc = "returned" => registered >= cons[u].upd.rev
=============================================================================
