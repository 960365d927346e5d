---------------------------- MODULE AutoRefresh ----------------------------
(***************************************************************************)
(* The background refresh of credentials: authAutoRefreshLoop              *)
(* (sdk/cliproxy/auth/auto_refresh_loop.go), the refresh jobs of the       *)
(* Manager (conductor_refresh.go) and the operations that register,        *)
(* change and remove credentials (conductor_lifecycle.go).                 *)
(*                                                                         *)
(* Goroutines: the dispatcher of every loop, its workers, whoever calls    *)
(* StartAutoRefresh and StopAutoRefresh, and clients.  A step is one       *)
(* critical section of Manager.mu or of the loop's mu, or one channel      *)
(* operation.  After most critical sections of Manager.mu the goroutine    *)
(* notifies the loop: it reads Manager.refreshLoop, then calls             *)
(* queueReschedule or remove on it; that is the variable note.             *)
(*                                                                         *)
(* Time is abstracted: any entries of the heap may be the due ones,        *)
(* NextRefreshAfter passes at any moment, and whether a credential is so   *)
(* close to its expiry that it needs a refresh is open when it is looked   *)
(* at.                                                                     *)
(***************************************************************************)
EXTENDS Integers, Sequences, FiniteSets

CONSTANTS
    Auths,       \* credential ids
    NoAuth,      \* not one of them
    Clients,     \* goroutines that register, change or remove credentials
    Operations,  \* what the clients do, a subset of AllOperations
    Workers,     \* the workers of one loop
    JobBuffer,   \* capacity of authAutoRefreshLoop.jobs
    MaxLoops,    \* bound: calls of StartAutoRefresh
    MaxCalls,    \* bound: calls of StartAutoRefresh and StopAutoRefresh, and
                 \* operations of clients
    MaxJobs,     \* bound: job objects that exist at the same time
    MaxEnds,     \* bound: removals, and refreshes rejected for good
    LateRounds,  \* bound: whether a loop that is cancelled may begin another
                 \* round, as its select allows; if not, what it is told is lost
    Spaced       \* assumption: a credential is not registered or changed while its
                 \* removal, or rejection, is on its way to the loop

AllOperations == {"register", "remove", "modify", "register executor", "unregister executor"}

ASSUME AutoRefreshAssumption ==
    /\ Operations \subseteq AllOperations
    /\ NoAuth \notin Auths
    /\ "dispatcher" \notin Workers
    /\ Clients \cap ((1..MaxLoops) \X (Workers \cup {"dispatcher"})) = {}
    /\ JobBuffer \in Nat \ {0}
    /\ {MaxLoops, MaxCalls, MaxJobs, MaxEnds} \subseteq Nat
    /\ {LateRounds, Spaced} \subseteq BOOLEAN

Loops == 1..MaxLoops
Jobs == 1..MaxJobs
NoLoop == 0
NoJob == 0
Backoff == -1     \* a NextRefreshAfter that no pending job has set

VARIABLES
    auth,         \* Manager.auths
    epochs,       \* Manager.authEpochs
    executor,     \* an executor for the credentials is registered
    refreshJobs,  \* Manager.refreshJobs
    job,          \* the authRefreshJobs
    refreshLoop,  \* Manager.refreshLoop
    cancelled,    \* loops whose context is cancelled
    starter,      \* progress of StartAutoRefresh
    loop,         \* progress of the dispatchers
    heap,         \* refreshMinHeap and index
    dirty,        \* authAutoRefreshLoop.dirty
    wakeCh,       \* wakeCh holds its token
    jobsCh,       \* authAutoRefreshLoop.jobs
    worker,       \* progress of the workers
    note,         \* the notification a goroutine has yet to make
    client,       \* progress of Modify
    calls,        \* calls of MaxCalls so far
    ends          \* removals and rejected refreshes so far

mgrVars == <<auth, epochs, executor, refreshJobs, job>>
loopVars == <<loop, heap, dirty, wakeCh, jobsCh>>
boundVars == <<calls, ends>>
vars == <<mgrVars, refreshLoop, cancelled, starter, loopVars, worker, note, client, boundVars>>

(* The goroutines that notify.                                             *)
Dispatcher(l) == <<l, "dispatcher">>
Pool == Loops \X Workers
Actors == Clients \cup {Dispatcher(l) : l \in Loops} \cup Pool

NoNote == [kind |-> "none", auths |-> {}, loop |-> NoLoop]
Reschedule(as) == [kind |-> "reschedule", auths |-> as, loop |-> NoLoop]
Unschedule(a) == [kind |-> "unschedule", auths |-> {a}, loop |-> NoLoop]
Free(x) == note[x] = NoNote

Absent == [present |-> FALSE, epoch |-> 0, ok |-> FALSE, nra |-> NoJob, passed |-> FALSE]
Loaded == [Absent EXCEPT !.present = TRUE, !.epoch = 1, !.ok = TRUE]
IdleLoop == [pc |-> "off", list |-> "due", todo |-> {}, cur |-> NoAuth, epoch |-> 0,
             decision |-> "none", job |-> NoJob, release |-> {}]
IdleWorker == [pc |-> "idle", job |-> NoJob, current |-> FALSE]
NewJob == [auth |-> NoAuth, epoch |-> 0, loop |-> NoLoop, running |-> FALSE]
IdleClient == [pc |-> "idle", cur |-> NoAuth, ok |-> FALSE, nra |-> NoJob, passed |-> FALSE]

Init ==
    /\ auth \in [Auths -> {Absent, Loaded}]
    /\ epochs = [a \in Auths |-> auth[a].epoch]
    /\ executor \in BOOLEAN
    /\ refreshJobs = [a \in Auths |-> NoJob]
    /\ job = [j \in Jobs |-> NewJob]
    /\ refreshLoop = NoLoop
    /\ cancelled = {}
    /\ starter = [pc |-> "idle", loop |-> NoLoop, prev |-> NoLoop, entries |-> {}]
    /\ loop = [l \in Loops |-> IdleLoop]
    /\ heap = [l \in Loops |-> {}]
    /\ dirty = [l \in Loops |-> {}]
    /\ wakeCh = [l \in Loops |-> FALSE]
    /\ jobsCh = [l \in Loops |-> <<>>]
    /\ worker = [x \in Pool |-> IdleWorker]
    /\ note = [x \in Actors |-> NoNote]
    /\ client = [c \in Clients |-> IdleClient]
    /\ calls = 0
    /\ ends = 0

-----------------------------------------------------------------------------
(* Decisions about one credential                                          *)

(* now.Before(auth.NextRefreshAfter)                                       *)
Throttled(a) == auth[a].nra # NoJob /\ ~ auth[a].passed

(* nextRefreshCheckAt has a time for it: it exists, and its last refresh   *)
(* was not rejected for good.                                              *)
Schedulable(a) == auth[a].present /\ auth[a].ok

(* shouldRefresh, of a credential that needs a refresh                     *)
ShouldRefresh(a) == Schedulable(a) /\ ~ Throttled(a)

Decision(a) == IF Schedulable(a) THEN "upsert" ELSE "remove"

(* Time passes.  A NextRefreshAfter in the past is as good as none, but    *)
(* for the job that has set it.                                            *)
ThrottlePasses(a) ==
    /\ Throttled(a)
    /\ auth' = [auth EXCEPT ![a] = IF @.nra = Backoff THEN [@ EXCEPT !.nra = NoJob]
                                   ELSE [@ EXCEPT !.passed = TRUE]]
    /\ UNCHANGED <<epochs, executor, refreshJobs, job, refreshLoop, cancelled, starter,
                   loopVars, worker, note, client, boundVars>>

-----------------------------------------------------------------------------
(* The schedule of a loop                                                  *)

(* Nobody will read the loop's schedule any more.                          *)
Deaf(l) == loop[l].pc = "ended" \/ (l \in cancelled /\ ~ LateRounds)

(* A plausible slip: only an entry that is there gets its new time.        *)
UpdateOnly(l, a) == heap' = heap

(* upsert: the entry gets its new time, or is added.                       *)
Upsert(l, a) == heap' = [heap EXCEPT ![l] = IF Deaf(l) THEN {} ELSE @ \cup {a}]

(* remove: not dirty any more and not in the heap.                         *)
RemoveEntry(l, a) ==
    /\ dirty' = [dirty EXCEPT ![l] = @ \ {a}]
    /\ heap' = [heap EXCEPT ![l] = @ \ {a}]

(* What is left of the schedule of a loop that ends.                       *)
Discard(l, gone) ==
    /\ heap' = [heap EXCEPT ![l] = IF gone THEN {} ELSE @]
    /\ dirty' = [dirty EXCEPT ![l] = IF gone THEN {} ELSE @]
    /\ wakeCh' = [wakeCh EXCEPT ![l] = @ /\ ~ gone]

-----------------------------------------------------------------------------
(* Notifications                                                           *)

(* queueRefreshReschedule and queueRefreshUnschedule read the loop; with   *)
(* no loop there is nothing to do.                                         *)
NoteRead(x) ==
    /\ note[x].kind # "none"
    /\ note[x].loop = NoLoop
    /\ note' = [note EXCEPT ![x] =
                  IF refreshLoop = NoLoop THEN NoNote ELSE [@ EXCEPT !.loop = refreshLoop]]
    /\ UNCHANGED <<mgrVars, refreshLoop, cancelled, starter, loopVars, worker, client, boundVars>>

(* A plausible slip: a loop that is busy is not woken.                     *)
QueueRescheduleIdle(x, a) ==
    LET l == note[x].loop IN
    /\ note[x].kind = "reschedule"
    /\ l # NoLoop
    /\ a \in note[x].auths
    /\ note' = [note EXCEPT ![x] = IF @.auths = {a} THEN NoNote ELSE Reschedule(@.auths \ {a})]
    /\ dirty' = [dirty EXCEPT ![l] = @ \cup {a}]
    /\ wakeCh' = [wakeCh EXCEPT ![l] = @ \/ loop[l].pc = "idle"]
    /\ UNCHANGED <<mgrVars, refreshLoop, cancelled, starter, loop, heap, jobsCh, worker, client,
                   boundVars>>

(* queueReschedule marks the credential dirty under the loop's mutex and   *)
(* leaves a token in wakeCh, which cannot block; what a loop that has      *)
(* ended is told is lost.  RegisterExecutor reads the loop anew for each   *)
(* credential of its list.                                                 *)
QueueReschedule(x, a) ==
    LET l == note[x].loop IN
    /\ note[x].kind = "reschedule"
    /\ l # NoLoop
    /\ a \in note[x].auths
    /\ note' = [note EXCEPT ![x] = IF @.auths = {a} THEN NoNote ELSE Reschedule(@.auths \ {a})]
    /\ \/ /\ ~ Deaf(l)
          /\ dirty' = [dirty EXCEPT ![l] = @ \cup {a}]
          /\ wakeCh' = [wakeCh EXCEPT ![l] = TRUE]
       \/ /\ Deaf(l)
          /\ UNCHANGED <<dirty, wakeCh>>
    /\ UNCHANGED <<mgrVars, refreshLoop, cancelled, starter, loop, heap, jobsCh, worker, client,
                   boundVars>>

(* queueRefreshUnschedule calls remove.                                    *)
RemoveFromLoop(x, a) ==
    /\ note[x].kind = "unschedule"
    /\ note[x].loop # NoLoop
    /\ a \in note[x].auths
    /\ RemoveEntry(note[x].loop, a)
    /\ note' = [note EXCEPT ![x] = NoNote]
    /\ UNCHANGED <<mgrVars, refreshLoop, cancelled, starter, loop, wakeCh, jobsCh, worker,
                   client, boundVars>>

-----------------------------------------------------------------------------
(* Refresh jobs                                                            *)

(* finishRefreshJob by goroutine x: forget the job if it is still the      *)
(* current one of its credential, clear its own pending marker, notify.    *)
FinishJob(x, j, retryAt) ==
    LET a == job[j].auth
        pending == auth[a].present /\ auth[a].epoch = job[j].epoch /\ auth[a].nra = j
    IN \/ /\ refreshJobs[a] = j
          /\ refreshJobs' = [refreshJobs EXCEPT ![a] = NoJob]
          /\ auth' = IF pending THEN [auth EXCEPT ![a].nra = retryAt, ![a].passed = FALSE]
                     ELSE auth
          /\ note' = [note EXCEPT ![x] = Reschedule({a})]
       \/ /\ refreshJobs[a] # j
          /\ UNCHANGED <<refreshJobs, auth, note>>

(* Job objects that nothing refers to; a queue nobody receives from any    *)
(* more does not count.                                                    *)
Queued(j) == \E l \in Loops : \E w \in Workers :
                 /\ worker[<<l, w>>].pc # "ended"
                 /\ \E i \in DOMAIN jobsCh[l] : jobsCh[l][i] = j
Unused ==
    {j \in Jobs : /\ \A a \in Auths : refreshJobs[a] # j /\ auth[a].nra # j
                  /\ \A l \in Loops : loop[l].job # j /\ j \notin loop[l].release
                  /\ \A x \in Pool : worker[x].job # j
                  /\ \A c \in Clients : client[c].nra # j
                  /\ ~ Queued(j)}

(* The last reference to a finished job is dropped, unless a loop that     *)
(* ends still has it.                                                      *)
Forget(j) == IF \E l \in Loops : j \in loop[l].release THEN job
             ELSE [job EXCEPT ![j] = NewJob]

-----------------------------------------------------------------------------
(* StartAutoRefresh and StopAutoRefresh                                    *)

StartFrame == <<mgrVars, jobsCh, worker, note, client, ends>>

Call == calls < MaxCalls /\ calls' = calls + 1

StartAutoRefresh ==
    /\ starter.pc = "idle"
    /\ starter.loop < MaxLoops
    /\ Call
    /\ refreshLoop' = NoLoop
    /\ starter' = [starter EXCEPT !.pc = "cancel", !.loop = @ + 1,
                                  !.prev = refreshLoop]
    /\ UNCHANGED <<StartFrame, cancelled, loop, heap, dirty, wakeCh>>

Cancel(l) ==
    \/ /\ l = NoLoop
       /\ UNCHANGED <<cancelled, heap, dirty, wakeCh>>
    \/ /\ l # NoLoop
       /\ cancelled' = cancelled \cup {l}
       /\ Discard(l, ~ LateRounds)

CancelPrevious ==
    /\ starter.pc = "cancel"
    /\ starter' = [starter EXCEPT !.pc = "publish", !.prev = NoLoop]
    /\ Cancel(starter.prev)
    /\ UNCHANGED <<StartFrame, calls, refreshLoop, loop>>

PublishLoop ==
    /\ starter.pc = "publish"
    /\ refreshLoop' = starter.loop
    /\ starter' = [starter EXCEPT !.pc = "read"]
    /\ UNCHANGED <<StartFrame, calls, cancelled, loop, heap, dirty, wakeCh>>

(* rebuild reads the credentials under Manager.mu ...                      *)
RebuildRead ==
    /\ starter.pc = "read"
    /\ starter' = [starter EXCEPT !.pc = "rebuild", !.entries = {a \in Auths : Schedulable(a)}]
    /\ UNCHANGED <<StartFrame, calls, refreshLoop, cancelled, loop, heap, dirty, wakeCh>>

(* ... and fills the heap under the loop's mutex; then run starts.         *)
Rebuild ==
    /\ starter.pc = "rebuild"
    /\ heap' = [heap EXCEPT ![starter.loop] = IF Deaf(starter.loop) THEN {} ELSE starter.entries]
    /\ loop' = [loop EXCEPT ![starter.loop].pc = "idle"]
    /\ starter' = [starter EXCEPT !.pc = "idle", !.entries = {}]
    /\ UNCHANGED <<StartFrame, calls, refreshLoop, cancelled, dirty, wakeCh>>

StopAutoRefresh ==
    /\ refreshLoop # NoLoop
    /\ Call
    /\ Cancel(refreshLoop)
    /\ refreshLoop' = NoLoop
    /\ UNCHANGED <<StartFrame, starter, loop>>

-----------------------------------------------------------------------------
(* The dispatcher: authAutoRefreshLoop.loop                                *)

DispatcherFrame == <<epochs, executor, refreshLoop, cancelled, starter, worker, client, boundVars>>

(* The select, in which a cancelled context is one of the ready cases.     *)
Selects(l) == loop[l].pc = "idle" /\ (l \in cancelled => LateRounds)

(* <-wakeCh                                                                *)
LoopWake(l) ==
    /\ Selects(l)
    /\ wakeCh[l]
    /\ wakeCh' = [wakeCh EXCEPT ![l] = FALSE]
    /\ loop' = [loop EXCEPT ![l].pc = "drain"]
    /\ UNCHANGED <<DispatcherFrame, auth, refreshJobs, job, heap, dirty, jobsCh, note>>

(* The list with credential a done or left out: after the due ones comes   *)
(* applyDirty, after the dirty ones the select.                            *)
Rest(l, a) ==
    [loop[l] EXCEPT !.todo = @ \ {a}, !.cur = NoAuth, !.epoch = 0, !.decision = "none",
                    !.job = NoJob,
                    !.pc = CASE loop[l].todo \ {a} # {} -> "each"
                             [] loop[l].todo \ {a} = {} /\ loop[l].list = "due" -> "drain"
                             [] OTHER -> "idle"]

(* applyDirty starts with drainDirty.                                      *)
Drain(l) ==
    /\ loop[l].pc = "drain"
    /\ loop' = [loop EXCEPT ![l].pc = IF dirty[l] = {} THEN "idle" ELSE "each",
                            ![l].list = "dirty", ![l].todo = dirty[l]]
    /\ dirty' = [dirty EXCEPT ![l] = {}]
    /\ UNCHANGED <<DispatcherFrame, auth, refreshJobs, job, heap, wakeCh, jobsCh, note>>

(* <-timerCh, and popDue takes the due entries out of the heap.            *)
LoopTimer(l, due) ==
    /\ Selects(l)
    /\ due \subseteq heap[l]
    /\ due # {}
    /\ heap' = [heap EXCEPT ![l] = @ \ due]
    /\ loop' = [loop EXCEPT ![l].pc = "each", ![l].list = "due", ![l].todo = due]
    /\ UNCHANGED <<DispatcherFrame, auth, refreshJobs, job, dirty, wakeCh, jobsCh, note>>

(* The body of applyDirty's loop reads the credential under Manager.mu.    *)
DirtyRead(l, a) ==
    /\ loop[l].pc = "each" /\ loop[l].list = "dirty"
    /\ a \in loop[l].todo
    /\ loop' = [loop EXCEPT ![l].pc = "apply", ![l].cur = a, ![l].decision = Decision(a)]
    /\ UNCHANGED <<DispatcherFrame, auth, refreshJobs, job, heap, dirty, wakeCh, jobsCh, note>>

(* So does handleDueAuth, which decides more and leaves out what is gone.  *)
DueRead(l, a, needsRefresh) ==
    /\ loop[l].pc = "each" /\ loop[l].list = "due"
    /\ a \in loop[l].todo
    /\ loop' = [loop EXCEPT ![l] =
         IF ~ auth[a].present THEN Rest(l, a)
         ELSE [@ EXCEPT !.pc = IF needsRefresh /\ ShouldRefresh(a) /\ executor
                               THEN "mark" ELSE "apply",
                        !.cur = a, !.epoch = auth[a].epoch, !.decision = Decision(a)]]
    /\ UNCHANGED <<DispatcherFrame, auth, refreshJobs, job, heap, dirty, wakeCh, jobsCh, note>>

(* upsert or remove, as decided before the loop's mutex was taken.         *)
Apply(l) ==
    /\ loop[l].pc = "apply"
    /\ Free(Dispatcher(l))
    /\ \/ /\ loop[l].decision = "upsert"
          /\ Upsert(l, loop[l].cur)
          /\ UNCHANGED dirty
       \/ /\ loop[l].decision = "remove"
          /\ RemoveEntry(l, loop[l].cur)
    /\ loop' = [loop EXCEPT ![l] = Rest(l, loop[l].cur)]
    /\ UNCHANGED <<DispatcherFrame, auth, refreshJobs, job, wakeCh, jobsCh, note>>

(* markRefreshPending looks at the credential again: it may be another     *)
(* one by now, rejected, pending or throttled.                             *)
MayMark(l, a) ==
    /\ auth[a].epoch = loop[l].epoch
    /\ Schedulable(a)
    /\ refreshJobs[a] = NoJob
    /\ ~ Throttled(a)

MarkPending(l, j) ==
    LET a == loop[l].cur IN
    /\ loop[l].pc = "mark"
    /\ MayMark(l, a)
    /\ job' = [job EXCEPT ![j] = [auth |-> a, epoch |-> loop[l].epoch, loop |-> l,
                                  running |-> FALSE]]
    /\ refreshJobs' = [refreshJobs EXCEPT ![a] = j]
    /\ auth' = [auth EXCEPT ![a].nra = j, ![a].passed = FALSE]
    /\ note' = [note EXCEPT ![Dispatcher(l)] = Reschedule({a})]
    /\ loop' = [loop EXCEPT ![l].pc = "enqueue", ![l].job = j]
    /\ UNCHANGED <<DispatcherFrame, heap, dirty, wakeCh, jobsCh>>

MarkRefused(l) ==
    /\ loop[l].pc = "mark"
    /\ ~ MayMark(l, loop[l].cur)
    /\ loop' = [loop EXCEPT ![l].pc = "reread"]
    /\ UNCHANGED <<DispatcherFrame, auth, refreshJobs, job, heap, dirty, wakeCh, jobsCh, note>>

(* No job: the credential is scheduled from what it is now.                *)
Reread(l) ==
    /\ loop[l].pc = "reread"
    /\ loop' = [loop EXCEPT ![l].pc = "apply", ![l].decision = Decision(loop[l].cur)]
    /\ UNCHANGED <<DispatcherFrame, auth, refreshJobs, job, heap, dirty, wakeCh, jobsCh, note>>

(* ctx.Err() == nil?                                                       *)
EnqueueCheck(l) ==
    /\ loop[l].pc = "enqueue"
    /\ Free(Dispatcher(l))
    /\ loop' = [loop EXCEPT ![l].pc = IF l \in cancelled THEN "refuse" ELSE "send"]
    /\ UNCHANGED <<DispatcherFrame, auth, refreshJobs, job, heap, dirty, wakeCh, jobsCh, note>>

(* The select: the job goes into the queue, even if the loop has just been *)
(* cancelled ...                                                           *)
Enqueue(l) ==
    /\ loop[l].pc = "send"
    /\ Len(jobsCh[l]) < JobBuffer
    /\ jobsCh' = [jobsCh EXCEPT ![l] = Append(@, loop[l].job)]
    /\ loop' = [loop EXCEPT ![l] = Rest(l, loop[l].cur)]
    /\ UNCHANGED <<DispatcherFrame, auth, refreshJobs, job, heap, dirty, wakeCh, note>>

(* ... or not, since the queue is full or the loop cancelled.              *)
NotEnqueued(l) ==
    \/ loop[l].pc = "refuse"
    \/ loop[l].pc = "send" /\ (l \in cancelled \/ Len(jobsCh[l]) = JobBuffer)

(* Then it is finished at once and the credential tried again later.       *)
EnqueueFails(l) ==
    /\ NotEnqueued(l)
    /\ FinishJob(Dispatcher(l), loop[l].job, Backoff)
    /\ loop' = [loop EXCEPT ![l].pc = "apply", ![l].decision = "upsert", ![l].job = NoJob]
    /\ job' = Forget(loop[l].job)
    /\ UNCHANGED <<DispatcherFrame, heap, dirty, wakeCh, jobsCh>>

(* A plausible slip: a loop ends without a look at its jobs.               *)
LoopExitForgets(l) ==
    /\ loop[l].pc = "idle"
    /\ l \in cancelled
    /\ loop' = [loop EXCEPT ![l].pc = "release"]
    /\ UNCHANGED <<DispatcherFrame, auth, refreshJobs, job, heap, dirty, wakeCh, jobsCh, note>>

(* <-ctx.Done, and releaseQueuedJobs collects the jobs nobody runs ...     *)
LoopExit(l) ==
    /\ loop[l].pc = "idle"
    /\ l \in cancelled
    /\ loop' = [loop EXCEPT ![l].pc = "release",
                  ![l].release = {j \in {refreshJobs[a] : a \in Auths} \ {NoJob} :
                                     job[j].loop = l /\ ~ job[j].running}]
    /\ UNCHANGED <<DispatcherFrame, auth, refreshJobs, job, heap, dirty, wakeCh, jobsCh, note>>

(* ... and finishes those that have not started meanwhile.                 *)
Release(l, j) ==
    /\ loop[l].pc = "release"
    /\ Free(Dispatcher(l))
    /\ j \in loop[l].release
    /\ loop' = [loop EXCEPT ![l].release = @ \ {j}]
    /\ \/ job[j].running /\ UNCHANGED <<refreshJobs, auth, note>>
       \/ ~ job[j].running /\ FinishJob(Dispatcher(l), j, NoJob)
    /\ UNCHANGED <<DispatcherFrame, job, heap, dirty, wakeCh, jobsCh>>

LoopEnds(l) ==
    /\ loop[l].pc = "release"
    /\ Free(Dispatcher(l))
    /\ loop[l].release = {}
    /\ loop' = [loop EXCEPT ![l].pc = "ended"]
    /\ Discard(l, TRUE)
    /\ UNCHANGED <<DispatcherFrame, auth, refreshJobs, job, jobsCh, note>>

-----------------------------------------------------------------------------
(* The workers                                                             *)

WorkerFrame == <<epochs, executor, refreshLoop, cancelled, starter, loop, heap, dirty, wakeCh,
                 client, calls>>

TakeJob(l, w) ==
    /\ worker[<<l, w>>].pc = "idle"
    /\ Free(<<l, w>>)
    /\ jobsCh[l] # <<>>
    /\ worker' = [worker EXCEPT ![<<l, w>>].pc = "begin", ![<<l, w>>].job = Head(jobsCh[l])]
    /\ jobsCh' = [jobsCh EXCEPT ![l] = Tail(@)]
    /\ UNCHANGED <<WorkerFrame, auth, refreshJobs, job, note, ends>>

WorkerExit(l, w) ==
    /\ worker[<<l, w>>].pc = "idle"
    /\ Free(<<l, w>>)
    /\ l \in cancelled
    /\ loop[l].pc # "off"
    /\ worker' = [worker EXCEPT ![<<l, w>>].pc = "ended"]
    /\ UNCHANGED <<WorkerFrame, auth, refreshJobs, job, jobsCh, note, ends>>

(* A plausible slip: the job taken from the channel is not checked again.  *)
BeginJobUnchecked(l, w) ==
    LET j == worker[<<l, w>>].job
    IN /\ worker[<<l, w>>].pc = "begin"
       /\ job' = [job EXCEPT ![j].running = TRUE]
       /\ worker' = [worker EXCEPT ![<<l, w>>].pc = "refresh"]
       /\ UNCHANGED <<WorkerFrame, auth, refreshJobs, jobsCh, note, ends>>

(* beginRefreshJob                                                         *)
BeginJob(l, w) ==
    LET j == worker[<<l, w>>].job
        a == job[j].auth
        begins == /\ l \notin cancelled
                  /\ refreshJobs[a] = j
                  /\ auth[a].present /\ auth[a].epoch = job[j].epoch
    IN /\ worker[<<l, w>>].pc = "begin"
       /\ job' = [job EXCEPT ![j].running = @ \/ begins]
       /\ worker' = [worker EXCEPT ![<<l, w>>].pc = IF begins THEN "refresh" ELSE "finish"]
       /\ UNCHANGED <<WorkerFrame, auth, refreshJobs, jobsCh, note, ends>>

(* refreshAuthForRequestAtEpoch reads the credential and checks the epoch. *)
RefreshRead(l, w) ==
    LET j == worker[<<l, w>>].job
        a == job[j].auth
    IN /\ worker[<<l, w>>].pc = "refresh"
       /\ worker' = [worker EXCEPT ![<<l, w>>] =
            IF Schedulable(a) /\ executor /\ auth[a].epoch = job[j].epoch
            THEN [@ EXCEPT !.pc = "commit", !.current = TRUE]
            ELSE [@ EXCEPT !.pc = "finish"]]
       /\ UNCHANGED <<WorkerFrame, auth, refreshJobs, job, jobsCh, note, ends>>

(* Modify, Update, Register and Remove hold the mutation gate of their     *)
(* credential from the read to the commit.                                 *)
GateFree(a) == \A c \in Clients : client[c].cur # a

(* CredentialVersion moves on: what the refreshes under way have read is   *)
(* not current any more.  (The version itself grows without end, and only  *)
(* this comparison is made.)                                               *)
NextVersion(a) ==
    [x \in Pool |-> IF worker[x].pc = "commit" /\ job[worker[x].job].auth = a
                    THEN [worker[x] EXCEPT !.current = FALSE] ELSE worker[x]]

(* The credential is still the one whose refresh was started.              *)
SameCredential(l, w, a) ==
    /\ auth[a].present
    /\ auth[a].epoch = job[worker[<<l, w>>].job].epoch
    /\ worker[<<l, w>>].current

CommitStep(l, w, a, workers) ==
    /\ worker[<<l, w>>].pc = "commit"
    /\ a = job[worker[<<l, w>>].job].auth
    /\ worker' = [workers EXCEPT ![<<l, w>>].pc = "finish", ![<<l, w>>].current = FALSE]
    /\ UNCHANGED <<WorkerFrame, refreshJobs, job, jobsCh>>

(* The executor returns new tokens, UpdateRefreshedAuth commits them; an   *)
(* ineffective refresh is not repeated at once.                            *)
RefreshSucceeds(l, w, a, effective) ==
    /\ CommitStep(l, w, a, NextVersion(a))
    /\ GateFree(a)
    /\ SameCredential(l, w, a)
    /\ auth' = [auth EXCEPT ![a].ok = TRUE, ![a].passed = FALSE,
                            ![a].nra = IF effective THEN NoJob ELSE Backoff]
    /\ note' = [note EXCEPT ![<<l, w>>] = Reschedule({a})]
    /\ UNCHANGED ends

(* The refresh fails: try again later ...                                  *)
RefreshFails(l, w, a) ==
    /\ CommitStep(l, w, a, worker)
    /\ SameCredential(l, w, a) /\ auth[a].ok
    /\ auth' = [auth EXCEPT ![a].nra = Backoff, ![a].passed = FALSE]
    /\ note' = [note EXCEPT ![<<l, w>>] = Reschedule({a})]
    /\ UNCHANGED ends

(* ... or never, until the credential changes.                             *)
RefreshRejected(l, w, a) ==
    /\ CommitStep(l, w, a, worker)
    /\ SameCredential(l, w, a) /\ auth[a].ok
    /\ ends < MaxEnds
    /\ ends' = ends + 1
    /\ auth' = [auth EXCEPT ![a].ok = FALSE, ![a].nra = NoJob, ![a].passed = FALSE]
    /\ note' = [note EXCEPT ![<<l, w>>] = Unschedule(a)]

(* The credential has changed or gone meanwhile: the result is dropped.    *)
RefreshStale(l, w, a) ==
    /\ CommitStep(l, w, a, worker)
    /\ ~ (SameCredential(l, w, a) /\ auth[a].ok)
    /\ UNCHANGED <<auth, note, ends>>

(* context.Canceled, after which the epoch is not checked.                 *)
RefreshCancelled(l, w, a) ==
    /\ CommitStep(l, w, a, worker)
    /\ l \in cancelled
    /\ auth' = IF auth[a].present /\ (auth[a].nra = NoJob \/ auth[a].passed)
               THEN [auth EXCEPT ![a].nra = Backoff, ![a].passed = FALSE] ELSE auth
    /\ note' = [note EXCEPT ![<<l, w>>] = Reschedule({a})]
    /\ UNCHANGED ends

(* finishRefreshJob, and back to the select.                               *)
WorkerFinish(l, w) ==
    /\ worker[<<l, w>>].pc = "finish"
    /\ Free(<<l, w>>)
    /\ FinishJob(<<l, w>>, worker[<<l, w>>].job, NoJob)
    /\ worker' = [worker EXCEPT ![<<l, w>>] = IdleWorker]
    /\ job' = Forget(worker[<<l, w>>].job)
    /\ UNCHANGED <<WorkerFrame, jobsCh, ends>>

-----------------------------------------------------------------------------
(* Clients                                                                 *)

ClientFrame == <<refreshJobs, job, refreshLoop, cancelled, starter, loopVars>>

Op(c, operation) ==
    /\ operation \in Operations
    /\ client[c].pc = "idle"
    /\ Free(c)
    /\ Call

(* A removal of the credential is on its way to a loop: the goroutine that *)
(* made it has yet to say so, or the dispatcher has found it gone and has  *)
(* yet to act on that.  It takes what was marked dirty since with it.      *)
RemovalUnderWay(a) ==
    \/ \E x \in Actors : note[x].kind = "unschedule" /\ a \in note[x].auths
    \/ \E l \in Loops : loop[l].cur = a /\ loop[l].decision = "remove"

(* Register, also of a credential that exists.                             *)
Register(c, a) ==
    /\ Op(c, "register")
    /\ GateFree(a)
    /\ Spaced => ~ RemovalUnderWay(a)
    /\ epochs' = [epochs EXCEPT ![a] = @ + 1]
    /\ auth' = [auth EXCEPT ![a] = [Absent EXCEPT !.present = TRUE, !.ok = TRUE,
                                      !.epoch = epochs[a] + 1]]
    /\ worker' = NextVersion(a)
    /\ note' = [note EXCEPT ![c] = Reschedule({a})]
    /\ UNCHANGED <<ClientFrame, executor, client, ends>>

(* RemoveIf: the epoch moves on, and the loop is told after the gate is    *)
(* released.                                                               *)
RemoveAuth(c, a) ==
    /\ Op(c, "remove")
    /\ GateFree(a)
    /\ auth[a].present
    /\ ends < MaxEnds
    /\ ends' = ends + 1
    /\ epochs' = [epochs EXCEPT ![a] = @ + 1]
    /\ auth' = [auth EXCEPT ![a] = Absent]
    /\ note' = [note EXCEPT ![c] = Unschedule(a)]
    /\ UNCHANGED <<ClientFrame, worker, executor, client>>

(* Modify edits a clone under the gate ...                                 *)
ModifyRead(c, a) ==
    /\ Op(c, "modify")
    /\ GateFree(a)
    /\ auth[a].present
    /\ client' = [client EXCEPT ![c] = [pc |-> "modify", cur |-> a, ok |-> auth[a].ok,
                                        nra |-> auth[a].nra, passed |-> auth[a].passed]]
    /\ UNCHANGED <<ClientFrame, worker, auth, epochs, executor, note, ends>>

(* ... and commits it.  The jobs do not take the gate: the clone may carry *)
(* an old NextRefreshAfter.  New credentials are schedulable again.        *)
ModifyCommit(c, a, newCredentials) ==
    /\ client[c].pc = "modify"
    /\ client[c].cur = a
    /\ Spaced => ~ RemovalUnderWay(a)
    /\ client' = [client EXCEPT ![c] = IdleClient]
    /\ auth' = [auth EXCEPT ![a] =
         IF newCredentials
         THEN [@ EXCEPT !.ok = TRUE,
                        !.nra = IF auth[a].nra = client[c].nra THEN NoJob ELSE client[c].nra,
                        !.passed = auth[a].nra # client[c].nra /\ client[c].passed]
         ELSE [@ EXCEPT !.ok = client[c].ok, !.nra = client[c].nra, !.passed = client[c].passed]]
    /\ worker' = IF newCredentials THEN NextVersion(a) ELSE worker
    /\ note' = [note EXCEPT ![c] = Reschedule({a})]
    /\ UNCHANGED <<ClientFrame, epochs, executor, calls, ends>>

RegisterExecutor(c) ==
    LET present == {a \in Auths : auth[a].present} IN
    /\ Op(c, "register executor")
    /\ executor' = TRUE
    /\ note' = [note EXCEPT ![c] = IF present = {} THEN NoNote ELSE Reschedule(present)]
    /\ UNCHANGED <<ClientFrame, worker, auth, epochs, client, ends>>

UnregisterExecutor(c) ==
    /\ Op(c, "unregister executor")
    /\ executor
    /\ executor' = FALSE
    /\ UNCHANGED <<ClientFrame, worker, auth, epochs, client, note, ends>>

-----------------------------------------------------------------------------
LoopStep(l) ==
    \/ LoopWake(l) \/ Drain(l)
    \/ \E due \in SUBSET heap[l] : LoopTimer(l, due)
    \/ \E a \in Auths : \/ DirtyRead(l, a)
                        \/ \E needsRefresh \in BOOLEAN : DueRead(l, a, needsRefresh)
    \/ \E j \in Unused : (\A i \in Unused : j <= i) /\ MarkPending(l, j)
    \/ MarkRefused(l) \/ Reread(l) \/ Apply(l) \/ EnqueueCheck(l) \/ Enqueue(l) \/ EnqueueFails(l)
    \/ \E j \in Jobs : Release(l, j)
    \/ LoopEnds(l)

WorkerStep(l, w) ==
    \/ TakeJob(l, w) \/ BeginJob(l, w) \/ RefreshRead(l, w) \/ WorkerFinish(l, w)
    \/ \E a \in Auths :
        \/ \E effective \in BOOLEAN : RefreshSucceeds(l, w, a, effective)
        \/ RefreshFails(l, w, a) \/ RefreshRejected(l, w, a)
        \/ RefreshCancelled(l, w, a) \/ RefreshStale(l, w, a)

NoteStep(x) ==
    \/ NoteRead(x)
    \/ \E a \in Auths : QueueReschedule(x, a) \/ RemoveFromLoop(x, a)

StartStep == CancelPrevious \/ PublishLoop \/ RebuildRead \/ Rebuild

ModifyStep(c) == \E a \in Auths, newCredentials \in BOOLEAN : ModifyCommit(c, a, newCredentials)

ClientStep(c) ==
    \/ RegisterExecutor(c) \/ UnregisterExecutor(c)
    \/ \E a \in Auths : Register(c, a) \/ RemoveAuth(c, a) \/ ModifyRead(c, a)

Next ==
    \/ StartAutoRefresh \/ StopAutoRefresh \/ StartStep
    \/ \E l \in Loops : LoopStep(l) \/ LoopExit(l)
    \/ \E l \in Loops, w \in Workers : WorkerStep(l, w) \/ WorkerExit(l, w)
    \/ \E x \in Actors : NoteStep(x)
    \/ \E c \in Clients : ClientStep(c) \/ ModifyStep(c)
    \/ \E a \in Auths : ThrottlePasses(a)

Spec == Init /\ [][Next]_vars

(* Every goroutine that has something to do does it, refreshes return and  *)
(* clients finish what they began.  Strong fairness for the exit of a      *)
(* cancelled loop: Go's select chooses at random among the ready cases.    *)
FairSpec ==
    /\ Spec
    /\ WF_vars(StartStep)
    /\ \A l \in Loops : WF_vars(LoopStep(l)) /\ SF_vars(LoopExit(l))
    /\ \A x \in Pool : WF_vars(WorkerStep(x[1], x[2]) \/ WorkerExit(x[1], x[2]))
    /\ \A x \in Actors : WF_vars(NoteStep(x))
    /\ \A c \in Clients : WF_vars(ModifyStep(c))

-----------------------------------------------------------------------------
(* Properties                                                              *)

(* A job whose refresh runs is the current job of its credential, also     *)
(* when its loop was replaced meanwhile: no credential is refreshed by     *)
(* two workers at a time.                                                  *)
RunningJobIsCurrent ==
    \A x \in Pool :
        worker[x].pc \in {"refresh", "commit"} =>
            refreshJobs[job[worker[x].job].auth] = worker[x].job

(* "leave a phantom pending job": a credential's current job is with the   *)
(* dispatcher, with a worker, in a queue that somebody still receives      *)
(* from, or about to be released by the loop that ends.                    *)
NoPhantomJob ==
    \A a \in Auths :
        LET j == refreshJobs[a]
            l == job[j].loop
        IN j # NoJob =>
            \/ loop[l].job = j
            \/ \E x \in Pool : worker[x].job = j
            \/ /\ \E i \in DOMAIN jobsCh[l] : jobsCh[l][i] = j
               /\ \/ loop[l].pc \notin {"release", "ended"}
                  \/ j \in loop[l].release
                  \/ \E w \in Workers : worker[<<l, w>>].pc # "ended"

(* Every job is where somebody will end it, and only the current job of a  *)
(* credential runs.                                                        *)
JobsAccountedFor == RunningJobIsCurrent /\ NoPhantomJob

(* The credential is in loop l's schedule or will get into it.             *)
Scheduled(l, a) ==
    \/ a \in heap[l]
    \/ a \in dirty[l]
    \/ a \in loop[l].todo /\ (loop[l].cur = a => loop[l].decision # "remove")
    \/ refreshJobs[a] # NoJob
    \/ \E x \in Actors : /\ note[x].kind = "reschedule"
                         /\ a \in note[x].auths
                         /\ note[x].loop \in {NoLoop, l}
    \/ starter.loop = l /\ starter.pc = "read"
    \/ starter.loop = l /\ a \in starter.entries

(* "evaluates auth freshness every few seconds and triggers refresh        *)
(* operations when required": the loop does not lose sight of a credential *)
(* that it could refresh.                                                  *)
NotForgotten ==
    \A a \in Auths : refreshLoop # NoLoop /\ Schedulable(a) => Scheduled(refreshLoop, a)

(* While a loop is there, a credential that can be refreshed is looked at  *)
(* again and again: after a wake, a restart, a failed refresh or a full    *)
(* queue it becomes due.                                                   *)
EvaluatedAgain ==
    \A a \in Auths, l \in Loops :
        refreshLoop = l /\ Schedulable(a) ~>
            \/ refreshLoop # l \/ ~ Schedulable(a)
            \/ loop[l].list = "due" /\ a \in loop[l].todo

(* Every job comes to an end: run, refused, released with its loop or left *)
(* to the loop that follows.                                               *)
JobsEnd == \A a \in Auths, j \in Jobs : refreshJobs[a] = j ~> refreshJobs[a] # j
=============================================================================
