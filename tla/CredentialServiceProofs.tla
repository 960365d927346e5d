----------------------- MODULE CredentialServiceProofs -----------------------
(***************************************************************************)
(* Proofs about the two ways a credential moves through the running        *)
(* service, for every value of the constants: the auto refresh             *)
(* (AutoRefresh) and the watcher's updates (WatcherDispatch).              *)
(*                                                                         *)
(* AutoRefresh.  Two arguments.  A refresh job is in the hands of one      *)
(* dispatcher, in one queue or in the hands of one worker, and only there  *)
(* does a credential's current job come to its end.  And while a loop is   *)
(* published, whatever takes a schedulable credential out of one place of  *)
(* the schedule puts it into the next, because credentials become          *)
(* schedulable only with a notification.                                   *)
(*                                                                         *)
(* WatcherDispatch.  A revision that handleAuthUpdate has claimed is       *)
(* registered, or a consumer is at it; who waits, waits for a revision no  *)
(* earlier than its own.  And of the updates under way to the dispatch     *)
(* only one has the current revision.                                      *)
(***************************************************************************)
EXTENDS AutoRefresh, WatcherDispatch, TLAPS

(***************************************************************************)
(* Types                                                                   *)
(***************************************************************************)
Credentials == [present : BOOLEAN, epoch : Nat, ok : BOOLEAN,
                nra : Jobs \cup {NoJob, Backoff}, passed : BOOLEAN]
JobObjects == [auth : Auths \cup {NoAuth}, epoch : Nat, loop : Loops \cup {NoLoop},
               running : BOOLEAN]

Outside == {"off", "idle", "drain", "each", "release", "ended"}
WithJob == {"enqueue", "send", "refuse"}
Looking == {"apply", "mark", "reread"} \cup WithJob

LoopStates == [pc : Outside \cup Looking, list : {"due", "dirty"}, todo : SUBSET Auths,
               cur : Auths \cup {NoAuth}, epoch : Nat, decision : {"none", "upsert", "remove"},
               job : Jobs \cup {NoJob}, release : SUBSET Jobs]
Starters == [pc : {"idle", "cancel", "publish", "read", "rebuild"}, loop : Loops \cup {NoLoop},
             prev : Loops \cup {NoLoop}, entries : SUBSET Auths]

Working == {"begin", "refresh", "commit", "finish"}
WorkerStates == [pc : {"idle", "ended"} \cup Working, job : Jobs \cup {NoJob}, current : BOOLEAN]
Notes == [kind : {"none", "reschedule", "unschedule"}, auths : SUBSET Auths,
          loop : Loops \cup {NoLoop}]
ClientStates == [pc : {"idle", "modify"}, cur : Auths \cup {NoAuth}, ok : BOOLEAN,
                 nra : Jobs \cup {NoJob, Backoff}, passed : BOOLEAN]

ManagerTypes ==
    /\ auth \in [Auths -> Credentials]
    /\ epochs \in [Auths -> Nat]
    /\ executor \in BOOLEAN
    /\ refreshJobs \in [Auths -> Jobs \cup {NoJob}]
    /\ job \in [Jobs -> JobObjects]
    /\ refreshLoop \in Loops \cup {NoLoop}
    /\ cancelled \subseteq Loops
    /\ starter \in Starters

LoopTypes ==
    /\ loop \in [Loops -> LoopStates]
    /\ heap \in [Loops -> SUBSET Auths]
    /\ dirty \in [Loops -> SUBSET Auths]
    /\ wakeCh \in [Loops -> BOOLEAN]
    /\ jobsCh \in [Loops -> Seq(Jobs)]

ActorTypes ==
    /\ worker \in [Pool -> WorkerStates]
    /\ note \in [Actors -> Notes]
    /\ client \in [Clients -> ClientStates]
    /\ calls \in Nat
    /\ ends \in Nat

TypeOK == ManagerTypes /\ LoopTypes /\ ActorTypes

(***************************************************************************)
(* Where a job is                                                          *)
(***************************************************************************)
Exited(l) == loop[l].pc \in {"release", "ended"}
Received(l) == \E w \in Workers : worker[<<l, w>>].pc # "ended"
InQueue(l, j) == \E i \in DOMAIN jobsCh[l] : jobsCh[l][i] = j
Idling(j) == \A x \in Pool : worker[x].job # j

\* The job that a dispatcher has made and not handed over yet.
DispatcherJob(l) ==
    /\ loop[l].pc \in WithJob <=> loop[l].job # NoJob
    /\ \A j \in Jobs : loop[l].job = j =>
          /\ job[j].loop = l /\ job[j].auth = loop[l].cur /\ ~ job[j].running
          /\ refreshJobs[loop[l].cur] = j
          /\ ~ InQueue(l, j) /\ Idling(j)

\* A job in a queue, which may be that of a loop that has ended: then nobody
\* receives from it and the object may serve again.
QueuedJob(l, j) ==
    /\ job[j].loop = l /\ job[j].auth \in Auths /\ ~ job[j].running /\ Idling(j)
    /\ ~ Exited(l) => refreshJobs[job[j].auth] = j

Queue(l) ==
    ~ Exited(l) \/ Received(l) =>
        /\ \A j \in Jobs : InQueue(l, j) => QueuedJob(l, j)
        /\ \A i, k \in DOMAIN jobsCh[l] : jobsCh[l][i] = jobsCh[l][k] => i = k

\* The job that a worker has taken.
WorkerJob(x) ==
    /\ worker[x].pc \in Working <=> worker[x].job # NoJob
    /\ \A j \in Jobs : worker[x].job = j =>
          /\ job[j].loop = x[1] /\ job[j].auth \in Auths
          /\ \A y \in Pool : worker[y].job = j => x = y
          /\ worker[x].pc \in {"refresh", "commit"} =>
                job[j].running /\ refreshJobs[job[j].auth] = j

ReleasedJobs(l) == \A j \in loop[l].release : job[j].loop = l /\ job[j].auth \in Auths

\* A credential's current job is its own, and in one of these places.
Placed(l, j) ==
    \/ loop[l].job = j
    \/ \E x \in Pool : worker[x].job = j
    \/ InQueue(l, j) /\ ~ job[j].running /\ (Exited(l) => j \in loop[l].release)

CurrentJob(a) ==
    \A j \in Jobs : refreshJobs[a] = j =>
        job[j].auth = a /\ \E l \in Loops : job[j].loop = l /\ Placed(l, j)

JobInv ==
    /\ \A l \in Loops : DispatcherJob(l) /\ Queue(l) /\ ReleasedJobs(l)
    /\ \A x \in Pool : WorkerJob(x)
    /\ \A a \in Auths : CurrentJob(a)

(***************************************************************************)
(* What the goroutines are at                                              *)
(***************************************************************************)
Dispatching(l) ==
    /\ loop[l].pc \in Looking => loop[l].cur \in loop[l].todo
    /\ loop[l].pc \notin Looking => loop[l].cur = NoAuth /\ loop[l].decision = "none"
    /\ loop[l].pc \notin Looking \cup {"each"} => loop[l].todo = {}
    /\ loop[l].pc = "off" => heap[l] = {}
    /\ Exited(l) => l \in cancelled

\* The published loop is the one started last, and nobody has cancelled it.
StarterInv ==
    /\ refreshLoop # NoLoop =>
          /\ refreshLoop = starter.loop /\ starter.pc \notin {"cancel", "publish"}
          /\ refreshLoop \notin cancelled
    /\ starter.pc # "idle" => starter.loop \in Loops /\ loop[starter.loop].pc = "off"
    /\ starter.pc \in {"cancel", "publish"} => starter.loop \notin cancelled
    /\ starter.prev < starter.loop \/ starter.prev = NoLoop
    /\ \A l \in Loops : l > starter.loop => l \notin cancelled /\ loop[l].pc = "off"

\* Goroutines owe at most one notification.
NoteInv ==
    /\ \A l \in Loops : ~ Free(Dispatcher(l)) => loop[l].pc \in {"enqueue", "apply", "release"}
    /\ \A x \in Pool : ~ Free(x) => worker[x].pc \in {"idle", "finish"}
    /\ \A c \in Clients : client[c].pc = "modify" => Free(c)

\* The gate is exclusive, and nobody makes a rejected credential good meanwhile.
GateInv ==
    /\ \A c \in Clients : client[c].pc = "modify" <=> client[c].cur # NoAuth
    /\ \A c \in Clients : client[c].cur # NoAuth /\ auth[client[c].cur].ok => client[c].ok
    /\ \A c, d \in Clients : client[c].cur # NoAuth /\ client[c].cur = client[d].cur => c = d

\* What a refresh is going to replace was not rejected since it was read.
Committing(x) ==
    LET j == worker[x].job
        a == job[j].auth
    IN  worker[x].pc = "commit" /\ worker[x].current
        /\ auth[a].present /\ auth[a].epoch = job[j].epoch => auth[a].ok

CommitInv == \A x \in Pool : Committing(x)

ControlInv ==
    /\ \A l \in Loops : Dispatching(l)
    /\ StarterInv /\ NoteInv /\ GateInv /\ CommitInv

\* Who is about to take a credential out of a schedule has found it gone or
\* rejected, and it still is.
RemovalInv == \A a \in Auths : RemovalUnderWay(a) => ~ Schedulable(a)

IInv == TypeOK /\ JobInv /\ ControlInv /\ (Spaced => RemovalInv /\ NotForgotten)

-----------------------------------------------------------------------------
(***************************************************************************)
(* Goroutines and records                                                  *)
(***************************************************************************)
LEMMA ActorFacts ==
    /\ \A l \in Loops : Dispatcher(l) \in Actors /\ Dispatcher(l) \notin Clients \cup Pool
    /\ \A l, k \in Loops : Dispatcher(l) = Dispatcher(k) => l = k
    /\ \A l \in Loops, w \in Workers : <<l, w>> \in Pool
    /\ Pool \subseteq Actors /\ Clients \subseteq Actors /\ Clients \cap Pool = {}
<1>. USE AutoRefreshAssumption DEF AutoRefreshAssumption, Actors, Pool, Dispatcher, Loops
<1>1. \A l \in Loops : Dispatcher(l) \in Actors /\ Dispatcher(l) \notin Clients
  OBVIOUS
<1>2. \A l \in Loops : Dispatcher(l) \notin Pool
  OBVIOUS
<1>3. \A l, k \in Loops : Dispatcher(l) = Dispatcher(k) => l = k
  OBVIOUS
<1>4. Clients \cap Pool = {}
  OBVIOUS
<1>. QED
  BY <1>1, <1>2, <1>3, <1>4

LEMMA Numbers ==
    /\ Loops \subseteq Nat /\ NoLoop = 0 /\ NoLoop \notin Loops
    /\ Jobs \subseteq Nat /\ NoJob = 0 /\ NoJob \notin Jobs
    /\ Backoff = -1 /\ Backoff \notin Jobs
BY AutoRefreshAssumption DEF AutoRefreshAssumption, Loops, Jobs, NoLoop, NoJob, Backoff

LEMMA Notifications ==
    /\ NoNote \in Notes /\ NoNote.kind = "none" /\ NoNote.auths = {}
    /\ \A as \in SUBSET Auths :
          /\ Reschedule(as) \in Notes /\ Reschedule(as).kind = "reschedule"
          /\ Reschedule(as).auths = as /\ Reschedule(as).loop = NoLoop
          /\ Reschedule(as) # NoNote
    /\ \A a \in Auths :
          /\ Unschedule(a) \in Notes /\ Unschedule(a).kind = "unschedule"
          /\ Unschedule(a).auths = {a} /\ Unschedule(a).loop = NoLoop
          /\ Unschedule(a) # NoNote
BY DEF Notes, NoNote, Reschedule, Unschedule

\* The list without credential a: the dispatcher looks at no credential now.
LEMMA RestIs ==
    ASSUME TypeOK, NEW l \in Loops, NEW a \in Auths
    PROVE  /\ Rest(l, a) \in LoopStates
           /\ Rest(l, a).pc \in {"each", "drain", "idle"}
           /\ Rest(l, a).todo = loop[l].todo \ {a}
           /\ Rest(l, a).pc = "each" <=> Rest(l, a).todo # {}
           /\ Rest(l, a).cur = NoAuth /\ Rest(l, a).decision = "none"
           /\ Rest(l, a).job = NoJob /\ Rest(l, a).release = loop[l].release
<1>1. loop[l] \in LoopStates
  BY DEF TypeOK, LoopTypes
<1>. QED
  BY <1>1 DEF Rest, LoopStates, Outside

LEMMA NextVersionIs ==
    ASSUME TypeOK, NEW a \in Auths
    PROVE  /\ NextVersion(a) \in [Pool -> WorkerStates]
           /\ \A x \in Pool :
                 /\ NextVersion(a)[x].pc = worker[x].pc /\ NextVersion(a)[x].job = worker[x].job
                 /\ NextVersion(a)[x].current => worker[x].current
                 /\ worker[x].pc = "commit" /\ job[worker[x].job].auth = a
                       => ~ NextVersion(a)[x].current
<1>1. worker \in [Pool -> WorkerStates]
  BY DEF TypeOK, ActorTypes
<1>. QED
  BY <1>1 DEF NextVersion, WorkerStates

\* Finishing a job is forgetting it, if it is still the current one.
LEMMA FinishJobIs ==
    ASSUME TypeOK, NEW x \in Actors, NEW j \in Jobs, job[j].auth \in Auths,
           NEW retryAt \in {NoJob, Backoff}, FinishJob(x, j, retryAt)
    PROVE  /\ auth' \in [Auths -> Credentials]
           /\ \A a \in Auths : /\ auth'[a].present = auth[a].present
                               /\ auth'[a].epoch = auth[a].epoch /\ auth'[a].ok = auth[a].ok
           /\ \/ /\ refreshJobs[job[j].auth] = j
                 /\ refreshJobs' = [refreshJobs EXCEPT ![job[j].auth] = NoJob]
                 /\ note' = [note EXCEPT ![x] = Reschedule({job[j].auth})]
              \/ /\ refreshJobs[job[j].auth] # j
                 /\ refreshJobs' = refreshJobs /\ auth' = auth /\ note' = note
<1>1. auth \in [Auths -> Credentials]
  BY DEF TypeOK, ManagerTypes
<1>. QED
  BY <1>1 DEF FinishJob, Credentials

-----------------------------------------------------------------------------
(***************************************************************************)
(* What the dispatcher's steps do                                          *)
(***************************************************************************)
\* Loop l moves to that place; the other loops stay.
Moves(l, pc, todo, a, decision, j, release) ==
    /\ loop' \in [Loops -> LoopStates]
    /\ \A k \in Loops \ {l} : loop'[k] = loop[k]
    /\ loop'[l].pc = pc /\ loop'[l].todo = todo /\ loop'[l].cur = a
    /\ loop'[l].decision = decision /\ loop'[l].job = j /\ loop'[l].release = release

\* Loop l is done with credential a.
Rests(l, a) ==
    /\ Moves(l, loop'[l].pc, loop[l].todo \ {a}, NoAuth, "none", NoJob, loop[l].release)
    /\ loop'[l].pc \in {"each", "drain", "idle"}
    /\ loop'[l].pc = "each" <=> loop'[l].todo # {}

MovesTo(l, pc) ==
    Moves(l, pc, loop[l].todo, loop[l].cur, loop[l].decision, loop[l].job, loop[l].release)

ManagerStays == UNCHANGED <<auth, epochs, executor, refreshJobs, job>>
OthersStay == UNCHANGED <<refreshLoop, cancelled, starter, worker, client, calls, ends>>

LEMMA LoopWakeIs ==
    ASSUME TypeOK, NEW l \in Loops, LoopWake(l)
    PROVE  /\ loop[l].pc = "idle"
           /\ MovesTo(l, "drain")
           /\ wakeCh' \in [Loops -> BOOLEAN]
           /\ UNCHANGED <<heap, dirty, jobsCh, note>> /\ ManagerStays /\ OthersStay
<1>1. loop \in [Loops -> LoopStates] /\ wakeCh \in [Loops -> BOOLEAN]
  BY DEF TypeOK, LoopTypes
<1>2. loop[l].pc = "idle" /\ loop' = [loop EXCEPT ![l].pc = "drain"]
      /\ wakeCh' = [wakeCh EXCEPT ![l] = FALSE]
  BY DEF LoopWake, Selects
<1>3. loop'[l] = [loop[l] EXCEPT !.pc = "drain"] /\ loop'[l] \in LoopStates
  BY <1>1, <1>2 DEF LoopStates, Outside
<1>4. MovesTo(l, "drain")
  BY <1>1, <1>2, <1>3 DEF MovesTo, Moves, LoopStates
<1>. QED
  BY <1>1, <1>2, <1>4 DEF LoopWake, DispatcherFrame, boundVars, ManagerStays, OthersStay

LEMMA DrainIs ==
    ASSUME TypeOK, NEW l \in Loops, Drain(l)
    PROVE  /\ loop[l].pc = "drain"
           /\ Moves(l, IF dirty[l] = {} THEN "idle" ELSE "each", dirty[l], loop[l].cur,
                    loop[l].decision, loop[l].job, loop[l].release)
           /\ dirty' = [dirty EXCEPT ![l] = {}]
           /\ UNCHANGED <<heap, wakeCh, jobsCh, note>> /\ ManagerStays /\ OthersStay
<1>1. loop \in [Loops -> LoopStates] /\ dirty[l] \in SUBSET Auths
  BY DEF TypeOK, LoopTypes
<1>2. loop'[l] = [loop[l] EXCEPT !.pc = IF dirty[l] = {} THEN "idle" ELSE "each",
                                 !.list = "dirty", !.todo = dirty[l]]
      /\ loop'[l] \in LoopStates
  BY <1>1 DEF Drain, LoopStates, Outside
<1>3. loop' = [loop EXCEPT ![l] = loop'[l]]
  BY <1>1 DEF Drain
<1>4. Moves(l, IF dirty[l] = {} THEN "idle" ELSE "each", dirty[l], loop[l].cur,
            loop[l].decision, loop[l].job, loop[l].release)
  BY <1>1, <1>2, <1>3 DEF Moves, LoopStates
<1>. QED
  BY <1>4 DEF Drain, DispatcherFrame, boundVars, ManagerStays, OthersStay

LEMMA LoopTimerIs ==
    ASSUME TypeOK, NEW l \in Loops, NEW due \in SUBSET heap[l], LoopTimer(l, due)
    PROVE  /\ loop[l].pc = "idle"
           /\ Moves(l, "each", due, loop[l].cur, loop[l].decision, loop[l].job, loop[l].release)
           /\ heap' = [heap EXCEPT ![l] = @ \ due]
           /\ UNCHANGED <<dirty, wakeCh, jobsCh, note>> /\ ManagerStays /\ OthersStay
<1>1. loop \in [Loops -> LoopStates] /\ due \in SUBSET Auths
  BY DEF TypeOK, LoopTypes
<1>2. loop'[l] = [loop[l] EXCEPT !.pc = "each", !.list = "due", !.todo = due]
      /\ loop'[l] \in LoopStates
  BY <1>1 DEF LoopTimer, LoopStates, Outside
<1>3. loop' = [loop EXCEPT ![l] = loop'[l]]
  BY <1>1 DEF LoopTimer
<1>4. /\ loop'[l].pc = "each" /\ loop'[l].todo = due /\ loop'[l].cur = loop[l].cur
      /\ loop'[l].decision = loop[l].decision /\ loop'[l].job = loop[l].job
      /\ loop'[l].release = loop[l].release
  BY <1>1, <1>2 DEF LoopStates
<1>5. Moves(l, "each", due, loop[l].cur, loop[l].decision, loop[l].job, loop[l].release)
  BY <1>1, <1>2, <1>3, <1>4 DEF Moves
<1>. QED
  BY <1>5 DEF LoopTimer, Selects, DispatcherFrame, boundVars, ManagerStays, OthersStay

LEMMA LoopExitIs ==
    ASSUME TypeOK, NEW l \in Loops, LoopExit(l)
    PROVE  /\ loop[l].pc = "idle" /\ l \in cancelled
           /\ Moves(l, "release", loop[l].todo, loop[l].cur, loop[l].decision, loop[l].job,
                    loop'[l].release)
           /\ \A j \in Jobs : j \in loop'[l].release <=>
                 /\ job[j].loop = l /\ ~ job[j].running
                 /\ \E a \in Auths : refreshJobs[a] = j
           /\ UNCHANGED <<heap, dirty, wakeCh, jobsCh, note>> /\ ManagerStays /\ OthersStay
<1> DEFINE collected == {j \in {refreshJobs[a] : a \in Auths} \ {NoJob} :
                            job[j].loop = l /\ ~ job[j].running}
<1>1. loop \in [Loops -> LoopStates] /\ refreshJobs \in [Auths -> Jobs \cup {NoJob}]
  BY DEF TypeOK, LoopTypes, ManagerTypes
<1>2. collected \in SUBSET Jobs
  BY <1>1
<1>3. loop'[l] = [loop[l] EXCEPT !.pc = "release", !.release = collected]
  BY <1>1 DEF LoopExit
<1>4. loop'[l] \in LoopStates
  BY <1>1, <1>2, <1>3 DEF LoopStates, Outside
<1>5. loop' = [loop EXCEPT ![l] = loop'[l]]
  BY <1>1 DEF LoopExit
<1>6. loop'[l].release = collected
  BY <1>1, <1>3 DEF LoopStates
<1>7. Moves(l, "release", loop[l].todo, loop[l].cur, loop[l].decision, loop[l].job,
            loop'[l].release)
  BY <1>1, <1>3, <1>4, <1>5 DEF Moves, LoopStates
<1>8. \A j \in Jobs : j # NoJob
  BY Numbers
<1>. QED
  BY <1>6, <1>7, <1>8 DEF LoopExit, DispatcherFrame, boundVars, ManagerStays, OthersStay

LEMMA LoopEndsIs ==
    ASSUME TypeOK, NEW l \in Loops, LoopEnds(l)
    PROVE  /\ loop[l].pc = "release" /\ Free(Dispatcher(l)) /\ loop[l].release = {}
           /\ MovesTo(l, "ended")
           /\ heap' = [heap EXCEPT ![l] = {}] /\ dirty' = [dirty EXCEPT ![l] = {}]
           /\ wakeCh' \in [Loops -> BOOLEAN]
           /\ UNCHANGED <<jobsCh, note>> /\ ManagerStays /\ OthersStay
<1>1. loop \in [Loops -> LoopStates] /\ wakeCh \in [Loops -> BOOLEAN]
  BY DEF TypeOK, LoopTypes
<1>2. loop'[l] = [loop[l] EXCEPT !.pc = "ended"] /\ loop'[l] \in LoopStates
  BY <1>1 DEF LoopEnds, LoopStates, Outside
<1>3. loop' = [loop EXCEPT ![l] = loop'[l]]
  BY <1>1 DEF LoopEnds
<1>4. MovesTo(l, "ended")
  BY <1>1, <1>2, <1>3 DEF MovesTo, Moves, LoopStates
<1>. QED
  BY <1>1, <1>4 DEF LoopEnds, Discard, DispatcherFrame, boundVars, ManagerStays, OthersStay

LEMMA DirtyReadIs ==
    ASSUME TypeOK, NEW l \in Loops, NEW a \in Auths, DirtyRead(l, a)
    PROVE  /\ loop[l].pc = "each" /\ a \in loop[l].todo
           /\ Moves(l, "apply", loop[l].todo, a, Decision(a), loop[l].job, loop[l].release)
           /\ UNCHANGED <<heap, dirty, wakeCh, jobsCh, note>> /\ ManagerStays /\ OthersStay
<1>1. loop \in [Loops -> LoopStates] /\ Decision(a) \in {"upsert", "remove"}
  BY DEF TypeOK, LoopTypes, Decision
<1>2. loop'[l] = [loop[l] EXCEPT !.pc = "apply", !.cur = a, !.decision = Decision(a)]
      /\ loop'[l] \in LoopStates
  BY <1>1 DEF DirtyRead, LoopStates, Looking
<1>3. loop' = [loop EXCEPT ![l] = loop'[l]]
  BY <1>1 DEF DirtyRead
<1>4. Moves(l, "apply", loop[l].todo, a, Decision(a), loop[l].job, loop[l].release)
  BY <1>1, <1>2, <1>3 DEF Moves, LoopStates
<1>. QED
  BY <1>4 DEF DirtyRead, DispatcherFrame, boundVars, ManagerStays, OthersStay

LEMMA RestsIs ==
    ASSUME TypeOK, NEW l \in Loops, NEW a \in Auths, loop' = [loop EXCEPT ![l] = Rest(l, a)]
    PROVE  Rests(l, a)
<1>1. loop \in [Loops -> LoopStates]
  BY DEF TypeOK, LoopTypes
<1>2. loop'[l] = Rest(l, a)
  BY <1>1
<1>. QED
  BY <1>1, <1>2, RestIs DEF Rests, Moves

LEMMA DueReadIs ==
    ASSUME TypeOK, NEW l \in Loops, NEW a \in Auths, NEW needsRefresh \in BOOLEAN,
           DueRead(l, a, needsRefresh)
    PROVE  /\ loop[l].pc = "each" /\ a \in loop[l].todo
           /\ \/ ~ auth[a].present /\ Rests(l, a)
              \/ /\ loop'[l].pc \in {"mark", "apply"}
                 /\ Moves(l, loop'[l].pc, loop[l].todo, a, Decision(a), loop[l].job,
                          loop[l].release)
           /\ UNCHANGED <<heap, dirty, wakeCh, jobsCh, note>> /\ ManagerStays /\ OthersStay
<1>1. loop \in [Loops -> LoopStates] /\ Decision(a) \in {"upsert", "remove"}
      /\ auth[a] \in Credentials
  BY DEF TypeOK, LoopTypes, ManagerTypes, Decision
<1>2. CASE ~ auth[a].present
  <2>1. Rests(l, a)
    BY <1>2, RestsIs DEF DueRead
  <2>. QED
    BY <1>2, <2>1 DEF DueRead, DispatcherFrame, boundVars, ManagerStays, OthersStay
<1>3. CASE auth[a].present
  <2> DEFINE pc == IF needsRefresh /\ ShouldRefresh(a) /\ executor THEN "mark" ELSE "apply"
             to == [loop[l] EXCEPT !.pc = pc, !.cur = a, !.epoch = auth[a].epoch,
                                   !.decision = Decision(a)]
  <2>1. loop' = [loop EXCEPT ![l] = to]
    BY <1>3 DEF DueRead
  <2>2. pc \in {"mark", "apply"}
    OBVIOUS
  <2> HIDE DEF pc
  <2>3. to \in LoopStates
    <3>1. auth[a].epoch \in Nat
      BY <1>1 DEF Credentials
    <3>2. pc \in Outside \cup Looking
      BY <2>2 DEF Looking
    <3>3. loop[l] \in LoopStates /\ a \in Auths \cup {NoAuth}
      BY <1>1
    <3>. QED
      BY <1>1, <3>1, <3>2, <3>3 DEF LoopStates
  <2>4. to.pc = pc /\ to.todo = loop[l].todo /\ to.cur = a /\ to.decision = Decision(a)
        /\ to.job = loop[l].job /\ to.release = loop[l].release
    BY <1>1 DEF LoopStates
  <2> HIDE DEF to
  <2>5. loop'[l] = to
    BY <1>1, <2>1
  <2>6. Moves(l, loop'[l].pc, loop[l].todo, a, Decision(a), loop[l].job, loop[l].release)
    BY <1>1, <2>1, <2>3, <2>4, <2>5 DEF Moves
  <2>. QED
    BY <2>2, <2>4, <2>5, <2>6 DEF DueRead, DispatcherFrame, boundVars, ManagerStays, OthersStay
<1>. QED
  BY <1>2, <1>3

LEMMA LookingAt ==
    ASSUME TypeOK, NEW l \in Loops, Dispatching(l), loop[l].pc \in Looking
    PROVE  loop[l].cur \in Auths /\ loop[l].cur \in loop[l].todo
BY DEF TypeOK, LoopTypes, LoopStates, Dispatching

LEMMA HasJob ==
    ASSUME TypeOK, NEW l \in Loops, Dispatching(l), DispatcherJob(l), loop[l].pc \in WithJob
    PROVE  /\ loop[l].cur \in Auths /\ loop[l].job \in Jobs
           /\ job[loop[l].job].auth = loop[l].cur /\ job[loop[l].job].loop = l
           /\ ~ job[loop[l].job].running /\ refreshJobs[loop[l].cur] = loop[l].job
           /\ ~ InQueue(l, loop[l].job) /\ Idling(loop[l].job)
BY LookingAt DEF DispatcherJob, TypeOK, LoopTypes, LoopStates, Looking

LEMMA ApplyIs ==
    ASSUME TypeOK, NEW l \in Loops, Dispatching(l), Apply(l)
    PROVE  LET a == loop[l].cur IN
           /\ loop[l].pc = "apply" /\ Free(Dispatcher(l)) /\ a \in Auths
           /\ Rests(l, a)
           /\ \/ /\ loop[l].decision = "upsert"
                 /\ heap' = [heap EXCEPT ![l] = IF Deaf(l) THEN {} ELSE @ \cup {a}]
                 /\ dirty' = dirty
              \/ /\ loop[l].decision = "remove"
                 /\ heap' = [heap EXCEPT ![l] = @ \ {a}]
                 /\ dirty' = [dirty EXCEPT ![l] = @ \ {a}]
           /\ UNCHANGED <<wakeCh, jobsCh, note>> /\ ManagerStays /\ OthersStay
<1>1. loop[l].cur \in Auths
  BY LookingAt DEF Apply, Looking
<1>2. Rests(l, loop[l].cur)
  BY <1>1, RestsIs DEF Apply
<1>. QED
  BY <1>1, <1>2 DEF Apply, Upsert, RemoveEntry, DispatcherFrame, boundVars, ManagerStays, OthersStay

LEMMA RereadIs ==
    ASSUME TypeOK, NEW l \in Loops, Reread(l)
    PROVE  /\ loop[l].pc = "reread"
           /\ Moves(l, "apply", loop[l].todo, loop[l].cur, Decision(loop[l].cur), loop[l].job,
                    loop[l].release)
           /\ UNCHANGED <<heap, dirty, wakeCh, jobsCh, note>> /\ ManagerStays /\ OthersStay
<1> DEFINE d == Decision(loop[l].cur)
<1>1. loop \in [Loops -> LoopStates] /\ d \in {"upsert", "remove"}
  BY DEF TypeOK, LoopTypes, Decision
<1>2. loop' = [loop EXCEPT ![l].pc = "apply", ![l].decision = d]
  BY DEF Reread
<1> HIDE DEF d
<1>3. loop'[l] = [loop[l] EXCEPT !.pc = "apply", !.decision = d] /\ loop'[l] \in LoopStates
  BY <1>1, <1>2 DEF LoopStates, Looking
<1>4. loop' = [loop EXCEPT ![l] = loop'[l]]
  BY <1>1, <1>2
<1>5. Moves(l, "apply", loop[l].todo, loop[l].cur, d, loop[l].job, loop[l].release)
  BY <1>1, <1>3, <1>4 DEF Moves, LoopStates
<1>. QED
  BY <1>5 DEF Reread, DispatcherFrame, boundVars, ManagerStays, OthersStay, d

LEMMA MarkRefusedIs ==
    ASSUME TypeOK, NEW l \in Loops, MarkRefused(l)
    PROVE  /\ loop[l].pc = "mark"
           /\ MovesTo(l, "reread")
           /\ UNCHANGED <<heap, dirty, wakeCh, jobsCh, note>> /\ ManagerStays /\ OthersStay
<1>1. loop \in [Loops -> LoopStates]
  BY DEF TypeOK, LoopTypes
<1>2. loop'[l] = [loop[l] EXCEPT !.pc = "reread"] /\ loop'[l] \in LoopStates
  BY <1>1 DEF MarkRefused, LoopStates, Looking
<1>3. loop' = [loop EXCEPT ![l] = loop'[l]]
  BY <1>1 DEF MarkRefused
<1>4. MovesTo(l, "reread")
  BY <1>1, <1>2, <1>3 DEF MovesTo, Moves, LoopStates
<1>. QED
  BY <1>4 DEF MarkRefused, DispatcherFrame, boundVars, ManagerStays, OthersStay

LEMMA EnqueueCheckIs ==
    ASSUME TypeOK, NEW l \in Loops, EnqueueCheck(l)
    PROVE  /\ loop[l].pc = "enqueue" /\ Free(Dispatcher(l))
           /\ loop'[l].pc \in {"refuse", "send"} /\ MovesTo(l, loop'[l].pc)
           /\ UNCHANGED <<heap, dirty, wakeCh, jobsCh, note>> /\ ManagerStays /\ OthersStay
<1> DEFINE pc == IF l \in cancelled THEN "refuse" ELSE "send"
<1>1. loop \in [Loops -> LoopStates] /\ pc \in {"refuse", "send"}
  BY DEF TypeOK, LoopTypes
<1>2. loop' = [loop EXCEPT ![l].pc = pc]
  BY DEF EnqueueCheck
<1> HIDE DEF pc
<1>3. loop'[l] = [loop[l] EXCEPT !.pc = pc] /\ loop'[l] \in LoopStates /\ loop'[l].pc = pc
  BY <1>1, <1>2 DEF LoopStates, Looking, WithJob
<1>4. loop' = [loop EXCEPT ![l] = loop'[l]]
  BY <1>1, <1>2
<1>5. MovesTo(l, loop'[l].pc)
  BY <1>1, <1>3, <1>4 DEF MovesTo, Moves, LoopStates
<1>. QED
  BY <1>1, <1>3, <1>5 DEF EnqueueCheck, DispatcherFrame, boundVars, ManagerStays, OthersStay

LEMMA MarkPendingIs ==
    ASSUME TypeOK, NEW l \in Loops, NEW j \in Jobs, Dispatching(l), MarkPending(l, j)
    PROVE  LET a == loop[l].cur IN
           /\ loop[l].pc = "mark" /\ a \in Auths /\ refreshJobs[a] = NoJob
           /\ Moves(l, "enqueue", loop[l].todo, a, loop[l].decision, j, loop[l].release)
           /\ job' \in [Jobs -> JobObjects]
           /\ job'[j].auth = a /\ job'[j].loop = l /\ ~ job'[j].running
           /\ \A i \in Jobs \ {j} : job'[i] = job[i]
           /\ refreshJobs' = [refreshJobs EXCEPT ![a] = j]
           /\ auth' \in [Auths -> Credentials]
           /\ \A b \in Auths : /\ auth'[b].present = auth[b].present
                               /\ auth'[b].epoch = auth[b].epoch /\ auth'[b].ok = auth[b].ok
           /\ note' = [note EXCEPT ![Dispatcher(l)] = Reschedule({a})]
           /\ UNCHANGED <<epochs, executor, heap, dirty, wakeCh, jobsCh>> /\ OthersStay
<1> DEFINE a == loop[l].cur
<1>1. /\ loop \in [Loops -> LoopStates] /\ auth \in [Auths -> Credentials]
      /\ job \in [Jobs -> JobObjects]
  BY DEF TypeOK, LoopTypes, ManagerTypes
<1>2. loop[l].cur \in Auths
  BY LookingAt DEF MarkPending, Looking
<1>3. loop'[l] = [loop[l] EXCEPT !.pc = "enqueue", !.job = j] /\ loop'[l] \in LoopStates
  BY <1>1 DEF MarkPending, LoopStates, Looking, WithJob
<1>4. loop' = [loop EXCEPT ![l] = loop'[l]]
  BY <1>1 DEF MarkPending
<1>5. Moves(l, "enqueue", loop[l].todo, a, loop[l].decision, j, loop[l].release)
  BY <1>1, <1>3, <1>4 DEF Moves, LoopStates
<1>6. /\ auth' \in [Auths -> Credentials]
      /\ \A b \in Auths : /\ auth'[b].present = auth[b].present
                          /\ auth'[b].epoch = auth[b].epoch /\ auth'[b].ok = auth[b].ok
  BY <1>1, <1>2 DEF MarkPending, Credentials
<1>7. [auth |-> a, epoch |-> loop[l].epoch, loop |-> l, running |-> FALSE] \in JobObjects
  BY <1>1, <1>2 DEF JobObjects, LoopStates
<1>8. /\ job' \in [Jobs -> JobObjects]
      /\ job'[j].auth = a /\ job'[j].loop = l /\ ~ job'[j].running
      /\ \A i \in Jobs \ {j} : job'[i] = job[i]
  BY <1>1, <1>7 DEF MarkPending
<1>. QED
  BY <1>2, <1>5, <1>6, <1>8 DEF MarkPending, MayMark, DispatcherFrame, boundVars, OthersStay

LEMMA EnqueueIs ==
    ASSUME TypeOK, NEW l \in Loops, Dispatching(l), DispatcherJob(l), Enqueue(l)
    PROVE  /\ loop[l].pc = "send" /\ loop[l].cur \in Auths /\ loop[l].job \in Jobs
           /\ Rests(l, loop[l].cur)
           /\ jobsCh' = [jobsCh EXCEPT ![l] = Append(@, loop[l].job)]
           /\ jobsCh' \in [Loops -> Seq(Jobs)]
           /\ UNCHANGED <<heap, dirty, wakeCh, note>> /\ ManagerStays /\ OthersStay
<1>1. loop[l].cur \in Auths /\ loop[l].job \in Jobs
  BY HasJob DEF Enqueue, WithJob
<1>2. Rests(l, loop[l].cur)
  BY <1>1, RestsIs DEF Enqueue
<1>3. jobsCh' \in [Loops -> Seq(Jobs)]
  BY <1>1 DEF Enqueue, TypeOK, LoopTypes
<1>. QED
  BY <1>1, <1>2, <1>3 DEF Enqueue, DispatcherFrame, boundVars, ManagerStays, OthersStay

\* Job object j may be there no longer.
Forgets(j) ==
    /\ job' \in [Jobs -> JobObjects]
    /\ \A i \in Jobs \ {j} : job'[i] = job[i]
    /\ (\E l \in Loops : j \in loop[l].release) => job' = job

LEMMA ForgetIs ==
    ASSUME TypeOK, NEW j \in Jobs, job' = Forget(j)
    PROVE  Forgets(j)
BY DEF TypeOK, ManagerTypes, Forget, Forgets, NewJob, JobObjects

LEMMA EnqueueFailsIs ==
    ASSUME TypeOK, NEW l \in Loops, Dispatching(l), DispatcherJob(l), EnqueueFails(l)
    PROVE  LET j == loop[l].job
               a == loop[l].cur
           IN  /\ loop[l].pc \in {"refuse", "send"} /\ a \in Auths /\ j \in Jobs
               /\ Moves(l, "apply", loop[l].todo, a, "upsert", NoJob, loop[l].release)
               /\ refreshJobs' = [refreshJobs EXCEPT ![a] = NoJob]
               /\ auth' \in [Auths -> Credentials]
               /\ \A b \in Auths : /\ auth'[b].present = auth[b].present
                                   /\ auth'[b].epoch = auth[b].epoch
                                   /\ auth'[b].ok = auth[b].ok
               /\ note' = [note EXCEPT ![Dispatcher(l)] = Reschedule({a})]
               /\ Forgets(j)
               /\ UNCHANGED <<epochs, executor, heap, dirty, wakeCh, jobsCh>> /\ OthersStay
<1>1. loop \in [Loops -> LoopStates]
  BY DEF TypeOK, LoopTypes
<1>2. loop[l].pc \in {"refuse", "send"}
  BY DEF EnqueueFails, NotEnqueued
<1>3. /\ loop[l].cur \in Auths /\ loop[l].job \in Jobs
      /\ job[loop[l].job].auth = loop[l].cur /\ refreshJobs[loop[l].cur] = loop[l].job
  BY <1>2, HasJob DEF WithJob
<1>4. /\ auth' \in [Auths -> Credentials]
      /\ \A b \in Auths : /\ auth'[b].present = auth[b].present
                          /\ auth'[b].epoch = auth[b].epoch /\ auth'[b].ok = auth[b].ok
      /\ refreshJobs' = [refreshJobs EXCEPT ![loop[l].cur] = NoJob]
      /\ note' = [note EXCEPT ![Dispatcher(l)] = Reschedule({loop[l].cur})]
  <2> DEFINE j == loop[l].job
  <2>1. FinishJob(Dispatcher(l), j, Backoff) /\ Dispatcher(l) \in Actors
    BY ActorFacts DEF EnqueueFails
  <2>2. j \in Jobs /\ job[j].auth = loop[l].cur /\ refreshJobs[job[j].auth] = j
    BY <1>3
  <2>3. Backoff \in {NoJob, Backoff} /\ job[j].auth \in Auths
    BY <1>3
  <2> HIDE DEF j
  <2>. QED
    BY <2>1, <2>2, <2>3, FinishJobIs
<1>5. loop'[l] = [loop[l] EXCEPT !.pc = "apply", !.decision = "upsert", !.job = NoJob]
      /\ loop'[l] \in LoopStates
  BY <1>1 DEF EnqueueFails, LoopStates, Looking
<1>6. loop' = [loop EXCEPT ![l] = loop'[l]]
  BY <1>1 DEF EnqueueFails
<1>7. Moves(l, "apply", loop[l].todo, loop[l].cur, "upsert", NoJob, loop[l].release)
  <2>1. /\ loop'[l].pc = "apply" /\ loop'[l].todo = loop[l].todo
        /\ loop'[l].cur = loop[l].cur /\ loop'[l].decision = "upsert"
        /\ loop'[l].job = NoJob /\ loop'[l].release = loop[l].release
    BY <1>1, <1>5 DEF LoopStates
  <2>. QED
    BY <1>1, <1>5, <1>6, <2>1 DEF Moves
<1>8. Forgets(loop[l].job)
  BY <1>3, ForgetIs DEF EnqueueFails
<1>. QED
  BY <1>2, <1>3, <1>4, <1>7, <1>8 DEF EnqueueFails, DispatcherFrame, boundVars, OthersStay

LEMMA ReleaseIs ==
    ASSUME TypeOK, NEW l \in Loops, NEW j \in Jobs, ReleasedJobs(l), Release(l, j)
    PROVE  LET a == job[j].auth IN
           /\ loop[l].pc = "release" /\ Free(Dispatcher(l)) /\ j \in loop[l].release /\ a \in Auths
           /\ Moves(l, "release", loop[l].todo, loop[l].cur, loop[l].decision, loop[l].job,
                    loop[l].release \ {j})
           /\ auth' \in [Auths -> Credentials]
           /\ \A b \in Auths : /\ auth'[b].present = auth[b].present
                               /\ auth'[b].epoch = auth[b].epoch /\ auth'[b].ok = auth[b].ok
           /\ \/ /\ ~ job[j].running /\ refreshJobs[a] = j
                 /\ refreshJobs' = [refreshJobs EXCEPT ![a] = NoJob]
                 /\ note' = [note EXCEPT ![Dispatcher(l)] = Reschedule({a})]
              \/ /\ job[j].running \/ refreshJobs[a] # j
                 /\ UNCHANGED <<refreshJobs, auth, note>>
           /\ UNCHANGED <<epochs, executor, job, heap, dirty, wakeCh, jobsCh>> /\ OthersStay
<1>1. loop \in [Loops -> LoopStates] /\ auth \in [Auths -> Credentials]
  BY DEF TypeOK, LoopTypes, ManagerTypes
<1>2. loop[l].pc = "release" /\ j \in loop[l].release /\ job[j].auth \in Auths
  BY DEF Release, ReleasedJobs
<1>3. loop'[l] = [loop[l] EXCEPT !.release = loop[l].release \ {j}] /\ loop'[l] \in LoopStates
  BY <1>1 DEF Release, LoopStates
<1>4. loop' = [loop EXCEPT ![l] = loop'[l]]
  BY <1>1 DEF Release
<1>5. Moves(l, "release", loop[l].todo, loop[l].cur, loop[l].decision, loop[l].job,
            loop[l].release \ {j})
  BY <1>1, <1>2, <1>3, <1>4 DEF Moves, LoopStates
<1>6. CASE job[j].running /\ UNCHANGED <<refreshJobs, auth, note>>
  BY <1>1, <1>2, <1>5, <1>6 DEF Release, DispatcherFrame, boundVars, OthersStay
<1>7. CASE ~ job[j].running /\ FinishJob(Dispatcher(l), j, NoJob)
  BY <1>1, <1>2, <1>5, <1>7, FinishJobIs, ActorFacts
     DEF Release, DispatcherFrame, boundVars, OthersStay
<1>. QED
  BY <1>6, <1>7 DEF Release

-----------------------------------------------------------------------------
(***************************************************************************)
(* What the workers' steps do                                              *)
(***************************************************************************)
\* Worker x comes to that place with job j; nobody's version gets current.
Turns(x, pc, j) ==
    /\ worker' \in [Pool -> WorkerStates]
    /\ worker'[x].pc = pc /\ worker'[x].job = j
    /\ \A y \in Pool \ {x} : /\ worker'[y].pc = worker[y].pc /\ worker'[y].job = worker[y].job
                             /\ worker'[y].current => worker[y].current

PoolFrame == UNCHANGED <<epochs, executor, refreshLoop, cancelled, starter, loop, heap, dirty,
                         wakeCh, client, calls>>

\* Worker x becomes that, and nobody else changes.
LEMMA TurnsIs ==
    ASSUME TypeOK, NEW x \in Pool, NEW s \in WorkerStates, worker' = [worker EXCEPT ![x] = s]
    PROVE  Turns(x, s.pc, s.job) /\ worker'[x].current = s.current
BY DEF TypeOK, ActorTypes, Turns

LEMMA TakeJobIs ==
    ASSUME TypeOK, NEW l \in Loops, NEW w \in Workers, TakeJob(l, w)
    PROVE  LET x == <<l, w>> IN
           /\ worker[x].pc = "idle" /\ Free(x) /\ jobsCh[l] # <<>>
           /\ Turns(x, "begin", Head(jobsCh[l])) /\ worker'[x].current = worker[x].current
           /\ jobsCh' = [jobsCh EXCEPT ![l] = Tail(@)] /\ jobsCh' \in [Loops -> Seq(Jobs)]
           /\ UNCHANGED <<auth, refreshJobs, job, note, ends>> /\ PoolFrame
<1> DEFINE x == <<l, w>>
           s == [worker[x] EXCEPT !.pc = "begin", !.job = Head(jobsCh[l])]
<1>1. x \in Pool /\ worker \in [Pool -> WorkerStates] /\ jobsCh[l] \in Seq(Jobs)
  BY ActorFacts DEF TypeOK, ActorTypes, LoopTypes
<1>2. worker' = [worker EXCEPT ![x] = s]
  BY <1>1 DEF TakeJob
<1>3. Head(jobsCh[l]) \in Jobs /\ Tail(jobsCh[l]) \in Seq(Jobs)
  BY <1>1 DEF TakeJob
<1>4. s \in WorkerStates /\ s.pc = "begin" /\ s.job = Head(jobsCh[l])
      /\ s.current = worker[x].current
  BY <1>1, <1>3 DEF WorkerStates, Working
<1>5. jobsCh' \in [Loops -> Seq(Jobs)]
  BY <1>3 DEF TakeJob, TypeOK, LoopTypes
<1> HIDE DEF x, s
<1>6. Turns(x, "begin", Head(jobsCh[l])) /\ worker'[x].current = worker[x].current
  BY <1>1, <1>2, <1>4, TurnsIs
<1>. QED
  BY <1>5, <1>6 DEF TakeJob, WorkerFrame, PoolFrame, x

LEMMA WorkerExitIs ==
    ASSUME TypeOK, NEW l \in Loops, NEW w \in Workers, WorkerExit(l, w)
    PROVE  LET x == <<l, w>> IN
           /\ worker[x].pc = "idle" /\ Free(x) /\ l \in cancelled
           /\ Turns(x, "ended", worker[x].job) /\ worker'[x].current = worker[x].current
           /\ UNCHANGED <<auth, refreshJobs, job, jobsCh, note, ends>> /\ PoolFrame
<1> DEFINE x == <<l, w>>
           s == [worker[x] EXCEPT !.pc = "ended"]
<1>1. x \in Pool /\ worker \in [Pool -> WorkerStates]
  BY ActorFacts DEF TypeOK, ActorTypes
<1>2. worker' = [worker EXCEPT ![x] = s]
  BY <1>1 DEF WorkerExit
<1>3. s \in WorkerStates /\ s.pc = "ended" /\ s.job = worker[x].job
      /\ s.current = worker[x].current
  BY <1>1 DEF WorkerStates
<1> HIDE DEF x, s
<1>4. Turns(x, "ended", worker[x].job) /\ worker'[x].current = worker[x].current
  BY <1>1, <1>2, <1>3, TurnsIs
<1>. QED
  BY <1>4 DEF WorkerExit, WorkerFrame, PoolFrame, x

LEMMA BeginJobIs ==
    ASSUME TypeOK, NEW l \in Loops, NEW w \in Workers, WorkerJob(<<l, w>>), BeginJob(l, w)
    PROVE  LET x == <<l, w>>
               j == worker[x].job
           IN  /\ worker[x].pc = "begin" /\ j \in Jobs
               /\ worker'[x].pc \in {"refresh", "finish"} /\ Turns(x, worker'[x].pc, j)
               /\ worker'[x].pc = "refresh" => refreshJobs[job[j].auth] = j /\ job'[j].running
               /\ job' \in [Jobs -> JobObjects]
               /\ \A i \in Jobs : /\ job'[i].auth = job[i].auth /\ job'[i].loop = job[i].loop
                                  /\ job'[i].epoch = job[i].epoch
                                  /\ i # j => job'[i] = job[i]
               /\ UNCHANGED <<auth, refreshJobs, jobsCh, note, ends>> /\ PoolFrame
<1> DEFINE x == <<l, w>>
           j == worker[x].job
           begins == /\ l \notin cancelled
                     /\ refreshJobs[job[j].auth] = j
                     /\ auth[job[j].auth].present /\ auth[job[j].auth].epoch = job[j].epoch
           pc == IF begins THEN "refresh" ELSE "finish"
           s == [worker[x] EXCEPT !.pc = pc]
<1>1. /\ x \in Pool /\ worker \in [Pool -> WorkerStates] /\ job \in [Jobs -> JobObjects]
      /\ pc \in {"refresh", "finish"} /\ begins \in BOOLEAN
  BY ActorFacts DEF TypeOK, ActorTypes, ManagerTypes
<1>2. worker' = [worker EXCEPT ![x] = s] /\ worker[x].pc = "begin"
      /\ job' = [job EXCEPT ![j].running = @ \/ begins]
  BY <1>1 DEF BeginJob
<1>3. j \in Jobs
  BY <1>1, <1>2 DEF WorkerJob, WorkerStates, Working
<1>4. pc = "refresh" => begins /\ refreshJobs[job[j].auth] = j
  OBVIOUS
<1> HIDE DEF pc, j, begins
<1>5. s \in WorkerStates /\ s.pc = pc /\ s.job = j
  BY <1>1 DEF WorkerStates, Working, j
<1> HIDE DEF s, x
<1>6. Turns(x, pc, j) /\ worker'[x].pc = pc
  BY <1>1, <1>2, <1>5, TurnsIs DEF Turns
<1>7. job' \in [Jobs -> JobObjects]
      /\ \A i \in Jobs : /\ job'[i].auth = job[i].auth /\ job'[i].loop = job[i].loop
                         /\ job'[i].epoch = job[i].epoch
                         /\ i # j => job'[i] = job[i]
  <2>1. [job[j] EXCEPT !.running = @ \/ begins] \in JobObjects
    BY <1>1, <1>3 DEF JobObjects
  <2>. QED
    BY <1>1, <1>2, <1>3, <2>1 DEF JobObjects
<1>8. begins => job'[j].running
  BY <1>1, <1>2, <1>3 DEF JobObjects
<1>. QED
  BY <1>1, <1>2, <1>3, <1>4, <1>6, <1>7, <1>8 DEF BeginJob, WorkerFrame, PoolFrame, x, j

LEMMA RefreshReadIs ==
    ASSUME TypeOK, NEW l \in Loops, NEW w \in Workers, RefreshRead(l, w)
    PROVE  LET x == <<l, w>> IN
           /\ worker[x].pc = "refresh"
           /\ \/ Turns(x, "commit", worker[x].job) /\ Schedulable(job[worker[x].job].auth)
              \/ Turns(x, "finish", worker[x].job)
           /\ UNCHANGED <<auth, refreshJobs, job, jobsCh, note, ends>> /\ PoolFrame
<1> DEFINE x == <<l, w>>
           reads == /\ Schedulable(job[worker[x].job].auth) /\ executor
                    /\ auth[job[worker[x].job].auth].epoch = job[worker[x].job].epoch
           c == [worker[x] EXCEPT !.pc = "commit", !.current = TRUE]
           f == [worker[x] EXCEPT !.pc = "finish"]
<1>1. x \in Pool /\ worker \in [Pool -> WorkerStates]
  BY ActorFacts DEF TypeOK, ActorTypes
<1>2. worker' = [worker EXCEPT ![x] = IF reads THEN c ELSE f]
  BY <1>1 DEF RefreshRead
<1>3. /\ c \in WorkerStates /\ c.pc = "commit" /\ c.job = worker[x].job
      /\ f \in WorkerStates /\ f.pc = "finish" /\ f.job = worker[x].job
  BY <1>1 DEF WorkerStates, Working
<1>4. reads => Schedulable(job[worker[x].job].auth)
  OBVIOUS
<1> HIDE DEF x, c, f, reads
<1>5. \/ Turns(x, "commit", worker[x].job) /\ Schedulable(job[worker[x].job].auth)
      \/ Turns(x, "finish", worker[x].job)
  <2>1. CASE reads
    BY <1>1, <1>2, <1>3, <1>4, <2>1, TurnsIs
  <2>2. CASE ~ reads
    BY <1>1, <1>2, <1>3, <2>2, TurnsIs
  <2>. QED
    BY <2>1, <2>2
<1>. QED
  BY <1>5 DEF RefreshRead, WorkerFrame, PoolFrame, x

\* What a commit may do to the credential and leave to be notified.
Commits(x, a) ==
    /\ auth' \in [Auths -> Credentials]
    /\ \A b \in Auths : /\ auth'[b].present = auth[b].present
                        /\ auth'[b].epoch = auth[b].epoch
                        /\ b # a => auth'[b].ok = auth[b].ok
    /\ \/ auth' = auth /\ note' = note
       \/ /\ note' = [note EXCEPT ![x] = Reschedule({a})]
          /\ auth'[a].ok = auth[a].ok \/ (auth'[a].ok /\ GateFree(a))
       \/ /\ note' = [note EXCEPT ![x] = Unschedule(a)]
          /\ auth[a].ok /\ ~ auth'[a].ok

CommitAction(l, w, a) ==
    \/ \E effective \in BOOLEAN : RefreshSucceeds(l, w, a, effective)
    \/ RefreshFails(l, w, a) \/ RefreshRejected(l, w, a)
    \/ RefreshCancelled(l, w, a) \/ RefreshStale(l, w, a)

LEMMA CommitIs ==
    ASSUME TypeOK, NEW l \in Loops, NEW w \in Workers, NEW a \in Auths, CommitInv,
           CommitAction(l, w, a)
    PROVE  LET x == <<l, w>> IN
           /\ worker[x].pc = "commit" /\ a = job[worker[x].job].auth
           /\ Turns(x, "finish", worker[x].job)
           /\ Commits(x, a) /\ (auth'[a].ok => auth[a].ok \/ auth' = auth)
           /\ ends' \in Nat
           /\ UNCHANGED <<refreshJobs, job, jobsCh>> /\ PoolFrame
<1> DEFINE x == <<l, w>>
<1>1. /\ x \in Pool /\ worker \in [Pool -> WorkerStates] /\ auth \in [Auths -> Credentials]
      /\ ends \in Nat
  BY ActorFacts DEF TypeOK, ActorTypes, ManagerTypes
<1>2. ASSUME NEW workers \in [Pool -> WorkerStates], CommitStep(l, w, a, workers),
             \A y \in Pool : /\ workers[y].pc = worker[y].pc /\ workers[y].job = worker[y].job
                             /\ workers[y].current => worker[y].current
      PROVE  /\ worker[x].pc = "commit" /\ a = job[worker[x].job].auth
             /\ Turns(x, "finish", worker[x].job)
             /\ UNCHANGED <<refreshJobs, job, jobsCh>> /\ PoolFrame
  <2>1. /\ worker'[x] = [workers[x] EXCEPT !.pc = "finish", !.current = FALSE]
        /\ worker' = [workers EXCEPT ![x] = worker'[x]]
    BY <1>1, <1>2 DEF CommitStep
  <2>2. worker'[x] \in WorkerStates /\ worker'[x].pc = "finish"
        /\ worker'[x].job = worker[x].job
    <3>1. workers[x] \in WorkerStates /\ workers[x].job = worker[x].job
      BY <1>1, <1>2
    <3>2. [workers[x] EXCEPT !.pc = "finish", !.current = FALSE] \in WorkerStates
      BY <3>1 DEF WorkerStates, Working
    <3>3. /\ [workers[x] EXCEPT !.pc = "finish", !.current = FALSE].pc = "finish"
          /\ [workers[x] EXCEPT !.pc = "finish", !.current = FALSE].job = workers[x].job
      BY <3>1 DEF WorkerStates
    <3>. QED
      BY <2>1, <3>1, <3>2, <3>3
  <2>3. Turns(x, "finish", worker[x].job)
    BY <1>1, <1>2, <2>1, <2>2 DEF Turns
  <2>. QED
    BY <1>2, <2>2, <2>3 DEF CommitStep, WorkerFrame, PoolFrame
<1>3. ASSUME CommitStep(l, w, a, worker) \/ CommitStep(l, w, a, NextVersion(a))
      PROVE  /\ worker[x].pc = "commit" /\ a = job[worker[x].job].auth
             /\ Turns(x, "finish", worker[x].job)
             /\ UNCHANGED <<refreshJobs, job, jobsCh>> /\ PoolFrame
  BY <1>1, <1>2, <1>3, NextVersionIs
<1>4. ASSUME NEW effective \in BOOLEAN, RefreshSucceeds(l, w, a, effective)
      PROVE  Commits(x, a) /\ auth[a].ok /\ ends' \in Nat
  <2>1. worker[x].pc = "commit" /\ a = job[worker[x].job].auth
    BY <1>3, <1>4 DEF RefreshSucceeds
  <2>2. auth[a].ok
    BY <1>1, <1>4, <2>1 DEF RefreshSucceeds, SameCredential, CommitInv, Committing
  <2>3. auth' \in [Auths -> Credentials]
        /\ \A b \in Auths : /\ auth'[b].present = auth[b].present
                            /\ auth'[b].epoch = auth[b].epoch
                            /\ b # a => auth'[b].ok = auth[b].ok
        /\ auth'[a].ok
    BY <1>1, <1>4 DEF RefreshSucceeds, Credentials
  <2>. QED
    BY <1>1, <1>4, <2>2, <2>3 DEF RefreshSucceeds, Commits
<1>5. CASE RefreshFails(l, w, a)
  <2>1. auth' \in [Auths -> Credentials]
        /\ \A b \in Auths : /\ auth'[b].present = auth[b].present
                            /\ auth'[b].epoch = auth[b].epoch
                            /\ auth'[b].ok = auth[b].ok
    BY <1>1, <1>5 DEF RefreshFails, Credentials
  <2>2. Commits(x, a) /\ auth[a].ok /\ ends' \in Nat
    BY <1>1, <1>5, <2>1 DEF RefreshFails, Commits
  <2>. QED
    BY <1>3, <1>5, <2>2 DEF RefreshFails
<1>6. CASE RefreshRejected(l, w, a)
  <2>1. auth' \in [Auths -> Credentials]
        /\ \A b \in Auths : /\ auth'[b].present = auth[b].present
                            /\ auth'[b].epoch = auth[b].epoch
                            /\ b # a => auth'[b].ok = auth[b].ok
        /\ ~ auth'[a].ok
    BY <1>1, <1>6 DEF RefreshRejected, Credentials
  <2>2. Commits(x, a) /\ auth[a].ok
    BY <1>6, <2>1 DEF RefreshRejected, Commits
  <2>3. ends' \in Nat
    BY <1>1, <1>6 DEF RefreshRejected
  <2>. QED
    BY <1>3, <1>6, <2>2, <2>3 DEF RefreshRejected
<1>7. CASE RefreshCancelled(l, w, a)
  <2>1. auth' \in [Auths -> Credentials]
        /\ \A b \in Auths : /\ auth'[b].present = auth[b].present
                            /\ auth'[b].epoch = auth[b].epoch
                            /\ auth'[b].ok = auth[b].ok
    BY <1>1, <1>7 DEF RefreshCancelled, Credentials
  <2>2. Commits(x, a) /\ (auth'[a].ok => auth[a].ok) /\ ends' \in Nat
    BY <1>1, <1>7, <2>1 DEF RefreshCancelled, Commits
  <2>. QED
    BY <1>3, <1>7, <2>2 DEF RefreshCancelled
<1>8. CASE RefreshStale(l, w, a)
  BY <1>1, <1>3, <1>8 DEF RefreshStale, Commits
<1>. QED
  BY <1>3, <1>4, <1>5, <1>6, <1>7, <1>8 DEF CommitAction, RefreshSucceeds

LEMMA WorkerFinishIs ==
    ASSUME TypeOK, NEW l \in Loops, NEW w \in Workers, WorkerJob(<<l, w>>), WorkerFinish(l, w)
    PROVE  LET x == <<l, w>>
               j == worker[x].job
               a == job[j].auth
           IN  /\ worker[x].pc = "finish" /\ Free(x) /\ j \in Jobs /\ a \in Auths
               /\ Turns(x, "idle", NoJob)
               /\ auth' \in [Auths -> Credentials]
               /\ \A b \in Auths : /\ auth'[b].present = auth[b].present
                                   /\ auth'[b].epoch = auth[b].epoch
                                   /\ auth'[b].ok = auth[b].ok
               /\ \/ /\ refreshJobs[a] = j
                     /\ refreshJobs' = [refreshJobs EXCEPT ![a] = NoJob]
                     /\ note' = [note EXCEPT ![x] = Reschedule({a})]
                  \/ /\ refreshJobs[a] # j
                     /\ UNCHANGED <<refreshJobs, auth, note>>
               /\ Forgets(j)
               /\ UNCHANGED <<jobsCh, ends>> /\ PoolFrame
<1> DEFINE x == <<l, w>>
           j == worker[x].job
<1>1. /\ x \in Pool /\ x \in Actors /\ worker \in [Pool -> WorkerStates]
      /\ auth \in [Auths -> Credentials]
  BY ActorFacts DEF TypeOK, ActorTypes, ManagerTypes
<1>2. worker[x].pc = "finish" /\ Free(x) /\ FinishJob(x, j, NoJob)
      /\ worker' = [worker EXCEPT ![x] = IdleWorker] /\ job' = Forget(j)
  BY DEF WorkerFinish
<1>3. j \in Jobs /\ job[j].auth \in Auths
  BY <1>1, <1>2 DEF WorkerJob, WorkerStates, Working
<1>4. IdleWorker \in WorkerStates /\ IdleWorker.pc = "idle" /\ IdleWorker.job = NoJob
  BY DEF IdleWorker, WorkerStates
<1> HIDE DEF x, j
<1>5. Turns(x, "idle", NoJob)
  BY <1>1, <1>2, <1>4, TurnsIs
<1>6. Forgets(j)
  BY <1>2, <1>3, ForgetIs
<1>7. /\ auth' \in [Auths -> Credentials]
      /\ \A b \in Auths : /\ auth'[b].present = auth[b].present
                          /\ auth'[b].epoch = auth[b].epoch /\ auth'[b].ok = auth[b].ok
      /\ \/ /\ refreshJobs[job[j].auth] = j
            /\ refreshJobs' = [refreshJobs EXCEPT ![job[j].auth] = NoJob]
            /\ note' = [note EXCEPT ![x] = Reschedule({job[j].auth})]
         \/ /\ refreshJobs[job[j].auth] # j
            /\ refreshJobs' = refreshJobs /\ auth' = auth /\ note' = note
  BY <1>1, <1>2, <1>3, FinishJobIs
<1>. QED
  BY <1>2, <1>3, <1>5, <1>6, <1>7 DEF WorkerFinish, WorkerFrame, PoolFrame, x, j

-----------------------------------------------------------------------------
(***************************************************************************)
(* What notifications, clients and the starter do                          *)
(***************************************************************************)
LoopsStay == UNCHANGED <<loop, heap, dirty, wakeCh, jobsCh>>
StarterStays == UNCHANGED <<refreshLoop, cancelled, starter>>

\* Versions may move on, no worker does.
VersionsOnly ==
    /\ worker' \in [Pool -> WorkerStates]
    /\ \A x \in Pool : /\ worker'[x].pc = worker[x].pc /\ worker'[x].job = worker[x].job
                       /\ worker'[x].current => worker[x].current

LEMMA NoteReadIs ==
    ASSUME TypeOK, NEW x \in Actors, NoteRead(x)
    PROVE  /\ ~ Free(x)
           /\ note' \in [Actors -> Notes] /\ \A y \in Actors \ {x} : note'[y] = note[y]
           /\ \/ refreshLoop = NoLoop /\ note'[x] = NoNote
              \/ /\ refreshLoop # NoLoop /\ note[x].loop = NoLoop
                 /\ note'[x].loop = refreshLoop
                 /\ note'[x].kind = note[x].kind /\ note'[x].auths = note[x].auths
           /\ UNCHANGED <<worker, client, calls, ends>>
           /\ ManagerStays /\ LoopsStay /\ StarterStays
<1>1. note \in [Actors -> Notes] /\ refreshLoop \in Loops \cup {NoLoop}
  BY DEF TypeOK, ActorTypes, ManagerTypes
<1>2. ~ Free(x)
  BY DEF NoteRead, Free, NoNote
<1>3. /\ UNCHANGED <<worker, client, calls, ends>>
      /\ ManagerStays /\ LoopsStay /\ StarterStays
  BY DEF NoteRead, mgrVars, loopVars, boundVars, ManagerStays, LoopsStay, StarterStays
<1>4. CASE refreshLoop = NoLoop
  BY <1>1, <1>2, <1>3, <1>4, Notifications DEF NoteRead
<1>5. CASE refreshLoop # NoLoop
  <2>1. note'[x] = [note[x] EXCEPT !.loop = refreshLoop] /\ note' = [note EXCEPT ![x] = note'[x]]
        /\ note[x].loop = NoLoop
    BY <1>1, <1>5 DEF NoteRead
  <2>2. /\ note'[x] \in Notes /\ note'[x].loop = refreshLoop
        /\ note'[x].kind = note[x].kind /\ note'[x].auths = note[x].auths
    BY <1>1, <2>1 DEF Notes
  <2>. QED
    BY <1>1, <1>2, <1>3, <1>5, <2>1, <2>2
<1>. QED
  BY <1>4, <1>5

LEMMA QueueRescheduleIs ==
    ASSUME TypeOK, NEW x \in Actors, NEW a \in Auths, QueueReschedule(x, a)
    PROVE  LET l == note[x].loop IN
           /\ ~ Free(x) /\ note[x].kind = "reschedule" /\ a \in note[x].auths /\ l \in Loops
           /\ note' \in [Actors -> Notes] /\ \A y \in Actors \ {x} : note'[y] = note[y]
           /\ \/ note'[x] = NoNote /\ note[x].auths = {a}
              \/ note'[x] = Reschedule(note[x].auths \ {a})
           /\ wakeCh' \in [Loops -> BOOLEAN]
           /\ \/ ~ Deaf(l) /\ dirty' = [dirty EXCEPT ![l] = @ \cup {a}]
              \/ Deaf(l) /\ dirty' = dirty
           /\ UNCHANGED <<loop, heap, jobsCh, worker, client, calls, ends>>
           /\ ManagerStays /\ StarterStays
<1>1. note \in [Actors -> Notes] /\ wakeCh \in [Loops -> BOOLEAN]
  BY DEF TypeOK, ActorTypes, LoopTypes
<1>2. ~ Free(x) /\ note[x].auths \in SUBSET Auths /\ note[x].loop \in Loops
  BY <1>1 DEF QueueReschedule, Free, NoNote, Notes
<1>3. /\ UNCHANGED <<loop, heap, jobsCh, worker, client, calls, ends>>
      /\ ManagerStays /\ StarterStays
  BY DEF QueueReschedule, mgrVars, boundVars, ManagerStays, StarterStays
<1>4. note[x].auths \ {a} \in SUBSET Auths
  BY <1>2
<1>5. note' \in [Actors -> Notes] /\ (\A y \in Actors \ {x} : note'[y] = note[y])
      /\ \/ note'[x] = NoNote /\ note[x].auths = {a}
         \/ note'[x] = Reschedule(note[x].auths \ {a})
  BY <1>1, <1>4, Notifications DEF QueueReschedule
<1>6. wakeCh' \in [Loops -> BOOLEAN]
  BY <1>1 DEF QueueReschedule
<1>. QED
  BY <1>2, <1>3, <1>5, <1>6 DEF QueueReschedule

LEMMA RemoveFromLoopIs ==
    ASSUME TypeOK, NEW x \in Actors, NEW a \in Auths, RemoveFromLoop(x, a)
    PROVE  LET l == note[x].loop IN
           /\ ~ Free(x) /\ note[x].kind = "unschedule" /\ a \in note[x].auths /\ l \in Loops
           /\ note' = [note EXCEPT ![x] = NoNote]
           /\ heap' = [heap EXCEPT ![l] = @ \ {a}] /\ dirty' = [dirty EXCEPT ![l] = @ \ {a}]
           /\ UNCHANGED <<loop, wakeCh, jobsCh, worker, client, calls, ends>>
           /\ ManagerStays /\ StarterStays
<1>1. note \in [Actors -> Notes]
  BY DEF TypeOK, ActorTypes
<1>2. ~ Free(x) /\ note[x].loop \in Loops
  BY <1>1 DEF RemoveFromLoop, Free, NoNote, Notes
<1>. QED
  BY <1>2 DEF RemoveFromLoop, RemoveEntry, mgrVars, boundVars, ManagerStays, StarterStays

LEMMA ThrottlePassesIs ==
    ASSUME TypeOK, NEW a \in Auths, ThrottlePasses(a)
    PROVE  /\ auth' \in [Auths -> Credentials]
           /\ \A b \in Auths : /\ auth'[b].present = auth[b].present
                               /\ auth'[b].epoch = auth[b].epoch /\ auth'[b].ok = auth[b].ok
           /\ UNCHANGED <<epochs, executor, refreshJobs, job, worker, note, client, calls, ends>>
           /\ LoopsStay /\ StarterStays
<1>1. auth \in [Auths -> Credentials]
  BY DEF TypeOK, ManagerTypes
<1>2. auth'[a] \in Credentials /\ auth'[a].present = auth[a].present
      /\ auth'[a].epoch = auth[a].epoch /\ auth'[a].ok = auth[a].ok
  BY <1>1 DEF ThrottlePasses, Credentials
<1>3. auth' = [auth EXCEPT ![a] = auth'[a]]
  BY <1>1 DEF ThrottlePasses
<1>. QED
  BY <1>1, <1>2, <1>3 DEF ThrottlePasses, loopVars, boundVars, LoopsStay, StarterStays

LEMMA RegisterIs ==
    ASSUME TypeOK, NEW c \in Clients, NEW a \in Auths, Register(c, a)
    PROVE  /\ client[c].pc = "idle" /\ Free(c) /\ GateFree(a)
           /\ Spaced => ~ RemovalUnderWay(a)
           /\ epochs' \in [Auths -> Nat] /\ auth' \in [Auths -> Credentials]
           /\ \A b \in Auths \ {a} : auth'[b] = auth[b]
           /\ auth'[a].ok
           /\ VersionsOnly
           /\ \A x \in Pool : worker[x].pc = "commit" /\ job[worker[x].job].auth = a
                                  => ~ worker'[x].current
           /\ note' = [note EXCEPT ![c] = Reschedule({a})] /\ calls' \in Nat
           /\ UNCHANGED <<executor, refreshJobs, job, client, ends>> /\ LoopsStay /\ StarterStays
<1>1. /\ auth \in [Auths -> Credentials] /\ epochs \in [Auths -> Nat] /\ calls \in Nat
  BY DEF TypeOK, ManagerTypes, ActorTypes
<1>2. [Absent EXCEPT !.present = TRUE, !.ok = TRUE, !.epoch = epochs[a] + 1] \in Credentials
      /\ [Absent EXCEPT !.present = TRUE, !.ok = TRUE, !.epoch = epochs[a] + 1].ok
  <2>1. Absent \in Credentials /\ epochs[a] + 1 \in Nat
    BY <1>1 DEF Absent, Credentials
  <2>. QED
    BY <2>1 DEF Credentials
<1>3. auth' \in [Auths -> Credentials] /\ (\A b \in Auths \ {a} : auth'[b] = auth[b])
      /\ auth'[a].ok
  BY <1>1, <1>2 DEF Register
<1>4. VersionsOnly /\ \A x \in Pool : worker[x].pc = "commit" /\ job[worker[x].job].auth = a
                                  => ~ worker'[x].current
  BY NextVersionIs DEF Register, VersionsOnly
<1>5. epochs' \in [Auths -> Nat] /\ calls' \in Nat
  BY <1>1 DEF Register, Op, Call
<1>. QED
  BY <1>3, <1>4, <1>5 DEF Register, Op, ClientFrame, loopVars, LoopsStay, StarterStays

LEMMA RemoveAuthIs ==
    ASSUME TypeOK, NEW c \in Clients, NEW a \in Auths, RemoveAuth(c, a)
    PROVE  /\ client[c].pc = "idle" /\ Free(c)
           /\ epochs' \in [Auths -> Nat] /\ auth' \in [Auths -> Credentials]
           /\ \A b \in Auths \ {a} : auth'[b] = auth[b]
           /\ ~ auth'[a].present /\ ~ auth'[a].ok
           /\ note' = [note EXCEPT ![c] = Unschedule(a)] /\ calls' \in Nat /\ ends' \in Nat
           /\ UNCHANGED <<executor, refreshJobs, job, worker, client>> /\ LoopsStay
           /\ StarterStays
<1>1. /\ auth \in [Auths -> Credentials] /\ epochs \in [Auths -> Nat] /\ calls \in Nat
      /\ ends \in Nat
  BY DEF TypeOK, ManagerTypes, ActorTypes
<1>2. Absent \in Credentials /\ ~ Absent.present /\ ~ Absent.ok
  BY Numbers DEF Absent, Credentials
<1>3. auth' \in [Auths -> Credentials] /\ (\A b \in Auths \ {a} : auth'[b] = auth[b])
      /\ ~ auth'[a].present /\ ~ auth'[a].ok
  BY <1>1, <1>2 DEF RemoveAuth
<1>4. epochs' \in [Auths -> Nat]
  BY <1>1 DEF RemoveAuth
<1>5. calls' \in Nat /\ ends' \in Nat
  BY <1>1 DEF RemoveAuth, Op, Call
<1>. QED
  BY <1>3, <1>4, <1>5 DEF RemoveAuth, Op, ClientFrame, loopVars, LoopsStay, StarterStays

LEMMA ModifyReadIs ==
    ASSUME TypeOK, NEW c \in Clients, NEW a \in Auths, ModifyRead(c, a)
    PROVE  /\ client[c].pc = "idle" /\ Free(c) /\ GateFree(a)
           /\ client' \in [Clients -> ClientStates]
           /\ \A d \in Clients \ {c} : client'[d] = client[d]
           /\ client'[c].pc = "modify" /\ client'[c].cur = a /\ client'[c].ok = auth[a].ok
           /\ calls' \in Nat
           /\ UNCHANGED <<worker, note, ends>> /\ ManagerStays /\ LoopsStay /\ StarterStays
<1>1. /\ auth \in [Auths -> Credentials] /\ client \in [Clients -> ClientStates] /\ calls \in Nat
  BY DEF TypeOK, ManagerTypes, ActorTypes
<1> DEFINE s == [pc |-> "modify", cur |-> a, ok |-> auth[a].ok, nra |-> auth[a].nra,
                 passed |-> auth[a].passed]
<1>2. s \in ClientStates /\ s.pc = "modify" /\ s.cur = a /\ s.ok = auth[a].ok
  BY <1>1 DEF ClientStates, Credentials
<1>3. client' = [client EXCEPT ![c] = s]
  BY DEF ModifyRead
<1> HIDE DEF s
<1>4. calls' \in Nat
  BY <1>1 DEF ModifyRead, Op, Call
<1>. QED
  BY <1>1, <1>2, <1>3, <1>4
     DEF ModifyRead, Op, ClientFrame, loopVars, ManagerStays, LoopsStay, StarterStays

LEMMA ModifyCommitIs ==
    ASSUME TypeOK, NEW c \in Clients, NEW a \in Auths, NEW newCredentials \in BOOLEAN,
           ModifyCommit(c, a, newCredentials)
    PROVE  /\ client[c].pc = "modify" /\ client[c].cur = a
           /\ Spaced => ~ RemovalUnderWay(a)
           /\ client' = [client EXCEPT ![c] = IdleClient]
           /\ auth' \in [Auths -> Credentials]
           /\ \A b \in Auths \ {a} : auth'[b] = auth[b]
           /\ client[c].ok => auth'[a].ok
           /\ auth'[a].present = auth[a].present /\ auth'[a].epoch = auth[a].epoch
           /\ VersionsOnly
           /\ note' = [note EXCEPT ![c] = Reschedule({a})]
           /\ UNCHANGED <<epochs, executor, refreshJobs, job, calls, ends>> /\ LoopsStay
           /\ StarterStays
<1>1. /\ auth \in [Auths -> Credentials] /\ client \in [Clients -> ClientStates]
      /\ worker \in [Pool -> WorkerStates]
  BY DEF TypeOK, ManagerTypes, ActorTypes
<1>2. client[c].ok \in BOOLEAN /\ client[c].passed \in BOOLEAN
      /\ client[c].nra \in Jobs \cup {NoJob, Backoff}
  BY <1>1 DEF ClientStates
<1>3. /\ auth'[a] \in Credentials /\ auth' = [auth EXCEPT ![a] = auth'[a]]
      /\ auth'[a].ok = (newCredentials \/ client[c].ok)
      /\ auth'[a].present = auth[a].present /\ auth'[a].epoch = auth[a].epoch
  <2>1. auth' = [auth EXCEPT ![a] = auth'[a]]
    BY <1>1 DEF ModifyCommit
  <2>2. CASE newCredentials
    <3> DEFINE p == auth[a].nra # client[c].nra /\ client[c].passed
               n == IF auth[a].nra = client[c].nra THEN NoJob ELSE client[c].nra
    <3>1. auth'[a] = [auth[a] EXCEPT !.ok = TRUE, !.nra = n, !.passed = p]
      <4>1. auth[a] \in Credentials
        BY <1>1
      <4>. QED
        BY <1>1, <2>2, <4>1 DEF ModifyCommit, Credentials
    <3>2. p \in BOOLEAN /\ n \in Jobs \cup {NoJob, Backoff} /\ auth[a] \in Credentials
      BY <1>1, <1>2
    <3> HIDE DEF p, n
    <3>. QED
      BY <2>1, <2>2, <3>1, <3>2 DEF Credentials
  <2>3. CASE ~ newCredentials
    <3>1. auth'[a] = [auth[a] EXCEPT !.ok = client[c].ok, !.nra = client[c].nra,
                                     !.passed = client[c].passed]
      BY <1>1, <2>3 DEF ModifyCommit
    <3>2. auth[a] \in Credentials
      BY <1>1
    <3>. QED
      BY <1>2, <2>1, <2>3, <3>1, <3>2 DEF Credentials
  <2>. QED
    BY <2>2, <2>3
<1>4. VersionsOnly
  BY <1>1, NextVersionIs DEF ModifyCommit, VersionsOnly
<1>. QED
  BY <1>1, <1>3, <1>4 DEF ModifyCommit, ClientFrame, loopVars, LoopsStay, StarterStays

LEMMA ExecutorIs ==
    ASSUME TypeOK, NEW c \in Clients, RegisterExecutor(c) \/ UnregisterExecutor(c)
    PROVE  /\ client[c].pc = "idle" /\ Free(c)
           /\ executor' \in BOOLEAN /\ calls' \in Nat
           /\ \/ note' = note
              \/ note' = [note EXCEPT ![c] = NoNote]
              \/ \E as \in SUBSET Auths : note' = [note EXCEPT ![c] = Reschedule(as)]
           /\ UNCHANGED <<auth, epochs, refreshJobs, job, worker, client, ends>> /\ LoopsStay
           /\ StarterStays
<1>1. calls \in Nat
  BY DEF TypeOK, ActorTypes
<1>2. calls' \in Nat
  <2>1. Call
    BY DEF RegisterExecutor, UnregisterExecutor, Op
  <2>. QED
    BY <1>1, <2>1 DEF Call
<1>3. {a \in Auths : auth[a].present} \in SUBSET Auths
  OBVIOUS
<1>. QED
  BY <1>2, <1>3 DEF RegisterExecutor, UnregisterExecutor, Op, ClientFrame, loopVars, LoopsStay,
     StarterStays

\* The loop that is cancelled may lose its schedule, no other does.
LEMMA CancelIs ==
    ASSUME TypeOK, NEW l \in Loops \cup {NoLoop}, Cancel(l)
    PROVE  /\ cancelled' \subseteq Loops /\ cancelled' = cancelled \cup ({l} \cap Loops)
           /\ heap' \in [Loops -> SUBSET Auths] /\ dirty' \in [Loops -> SUBSET Auths]
           /\ wakeCh' \in [Loops -> BOOLEAN]
           /\ \A k \in Loops : /\ heap'[k] \subseteq heap[k]
                               /\ k # l => heap'[k] = heap[k] /\ dirty'[k] = dirty[k]
<1>1. /\ heap \in [Loops -> SUBSET Auths] /\ dirty \in [Loops -> SUBSET Auths]
      /\ wakeCh \in [Loops -> BOOLEAN] /\ cancelled \subseteq Loops
  BY DEF TypeOK, LoopTypes, ManagerTypes
<1>2. CASE l = NoLoop
  BY <1>1, <1>2, Numbers DEF Cancel
<1>3. CASE l # NoLoop
  BY <1>1, <1>3 DEF Cancel, Discard
<1>. QED
  BY <1>2, <1>3

StartFrameStays == UNCHANGED <<auth, epochs, executor, refreshJobs, job, jobsCh, worker, note,
                               client, ends>>

LEMMA StartAutoRefreshIs ==
    ASSUME TypeOK, StartAutoRefresh
    PROVE  /\ starter.pc = "idle" /\ starter' \in Starters /\ refreshLoop' = NoLoop
           /\ starter'.pc = "cancel" /\ starter'.loop = starter.loop + 1
           /\ starter'.loop \in Loops /\ starter'.prev = refreshLoop
           /\ starter'.entries = starter.entries /\ calls' \in Nat
           /\ UNCHANGED <<cancelled, loop, heap, dirty, wakeCh>> /\ StartFrameStays
<1>1. starter \in Starters /\ refreshLoop \in Loops \cup {NoLoop} /\ calls \in Nat
      /\ MaxLoops \in Nat
  BY AutoRefreshAssumption DEF TypeOK, ManagerTypes, ActorTypes, AutoRefreshAssumption
<1>2. starter' = [starter EXCEPT !.pc = "cancel", !.loop = starter.loop + 1,
                                 !.prev = refreshLoop]
      /\ starter.loop < MaxLoops
  BY <1>1 DEF StartAutoRefresh, Starters
<1>3. starter.loop + 1 \in Loops
  BY <1>1, <1>2 DEF Starters, Loops, NoLoop
<1>4. starter' \in Starters
      /\ starter'.pc = "cancel" /\ starter'.loop = starter.loop + 1
      /\ starter'.prev = refreshLoop /\ starter'.entries = starter.entries
  BY <1>1, <1>2, <1>3 DEF Starters
<1>5. calls' \in Nat
  BY <1>1 DEF StartAutoRefresh, Call
<1>. QED
  BY <1>3, <1>4, <1>5 DEF StartAutoRefresh, StartFrame, mgrVars, StartFrameStays

LEMMA CancelPreviousIs ==
    ASSUME TypeOK, CancelPrevious
    PROVE  /\ starter.pc = "cancel" /\ starter' \in Starters
           /\ starter'.pc = "publish" /\ starter'.loop = starter.loop /\ starter'.prev = NoLoop
           /\ starter'.entries = starter.entries
           /\ starter.prev \in Loops \cup {NoLoop} /\ Cancel(starter.prev)
           /\ UNCHANGED <<refreshLoop, loop, calls>> /\ StartFrameStays
<1>1. starter \in Starters
  BY DEF TypeOK, ManagerTypes
<1>2. starter' \in Starters
      /\ starter'.pc = "publish" /\ starter'.loop = starter.loop /\ starter'.prev = NoLoop
      /\ starter'.entries = starter.entries /\ starter.prev \in Loops \cup {NoLoop}
  BY <1>1 DEF CancelPrevious, Starters
<1>. QED
  BY <1>2 DEF CancelPrevious, StartFrame, mgrVars, StartFrameStays

LEMMA PublishLoopIs ==
    ASSUME TypeOK, PublishLoop
    PROVE  /\ starter.pc = "publish" /\ starter' \in Starters /\ refreshLoop' = starter.loop
           /\ starter'.pc = "read" /\ starter'.loop = starter.loop
           /\ starter'.prev = starter.prev /\ starter'.entries = starter.entries
           /\ refreshLoop' \in Loops \cup {NoLoop}
           /\ UNCHANGED <<cancelled, loop, heap, dirty, wakeCh, calls>> /\ StartFrameStays
<1>1. starter \in Starters
  BY DEF TypeOK, ManagerTypes
<1>2. starter' \in Starters
      /\ starter'.pc = "read" /\ starter'.loop = starter.loop
      /\ starter'.prev = starter.prev /\ starter'.entries = starter.entries
      /\ starter.loop \in Loops \cup {NoLoop}
  BY <1>1 DEF PublishLoop, Starters
<1>. QED
  BY <1>2 DEF PublishLoop, StartFrame, mgrVars, StartFrameStays

LEMMA RebuildReadIs ==
    ASSUME TypeOK, RebuildRead
    PROVE  /\ starter.pc = "read" /\ starter' \in Starters
           /\ starter'.pc = "rebuild" /\ starter'.loop = starter.loop
           /\ starter'.prev = starter.prev
           /\ starter'.entries = {a \in Auths : Schedulable(a)}
           /\ UNCHANGED <<refreshLoop, cancelled, loop, heap, dirty, wakeCh, calls>>
           /\ StartFrameStays
<1>1. starter \in Starters /\ {a \in Auths : Schedulable(a)} \in SUBSET Auths
  BY DEF TypeOK, ManagerTypes
<1>2. starter' = [starter EXCEPT !.pc = "rebuild", !.entries = {a \in Auths : Schedulable(a)}]
  BY DEF RebuildRead
<1>3. starter' \in Starters
      /\ starter'.pc = "rebuild" /\ starter'.loop = starter.loop /\ starter'.prev = starter.prev
      /\ starter'.entries = {a \in Auths : Schedulable(a)}
  BY <1>1, <1>2 DEF Starters
<1>. QED
  BY <1>3 DEF RebuildRead, StartFrame, mgrVars, StartFrameStays

LEMMA RebuildIs ==
    ASSUME TypeOK, Rebuild, starter.loop \in Loops
    PROVE  LET l == starter.loop IN
           /\ starter.pc = "rebuild" /\ starter' \in Starters
           /\ starter'.pc = "idle" /\ starter'.loop = l /\ starter'.prev = starter.prev
           /\ starter'.entries = {}
           /\ MovesTo(l, "idle")
           /\ heap' = [heap EXCEPT ![l] = IF Deaf(l) THEN {} ELSE starter.entries]
           /\ heap' \in [Loops -> SUBSET Auths]
           /\ UNCHANGED <<refreshLoop, cancelled, dirty, wakeCh, calls>> /\ StartFrameStays
<1> DEFINE l == starter.loop
<1>1. /\ starter \in Starters /\ heap \in [Loops -> SUBSET Auths]
      /\ loop \in [Loops -> LoopStates]
  BY DEF TypeOK, ManagerTypes, LoopTypes
<1>2. starter' \in Starters /\ starter'.pc = "idle" /\ starter'.loop = l
      /\ starter'.prev = starter.prev /\ starter'.entries = {} /\ starter.entries \in SUBSET Auths
  BY <1>1 DEF Rebuild, Starters
<1>3. loop'[l] = [loop[l] EXCEPT !.pc = "idle"] /\ loop'[l] \in LoopStates
      /\ loop' = [loop EXCEPT ![l] = loop'[l]]
  <2>1. loop' = [loop EXCEPT ![l].pc = "idle"] /\ l \in Loops
    BY DEF Rebuild
  <2> HIDE DEF l
  <2>. QED
    BY <1>1, <2>1 DEF LoopStates, Outside
<1>4. MovesTo(l, "idle")
  BY <1>1, <1>3 DEF MovesTo, Moves, LoopStates
<1>5. heap' \in [Loops -> SUBSET Auths]
  BY <1>1, <1>2 DEF Rebuild
<1>. QED
  BY <1>2, <1>4, <1>5 DEF Rebuild, StartFrame, mgrVars, StartFrameStays

LEMMA StopAutoRefreshIs ==
    ASSUME TypeOK, StopAutoRefresh
    PROVE  /\ refreshLoop' = NoLoop /\ Cancel(refreshLoop) /\ refreshLoop \in Loops
           /\ calls' \in Nat /\ UNCHANGED <<starter, loop>> /\ StartFrameStays
<1>1. refreshLoop \in Loops \cup {NoLoop} /\ calls \in Nat
  BY DEF TypeOK, ManagerTypes, ActorTypes
<1>2. calls' \in Nat
  BY <1>1 DEF StopAutoRefresh, Call
<1>. QED
  BY <1>1, <1>2 DEF StopAutoRefresh, StartFrame, mgrVars, StartFrameStays

\* The steps by who takes them.
SelectStep(l) ==
    \/ LoopWake(l) \/ Drain(l) \/ LoopEnds(l)
    \/ \E due \in SUBSET heap[l] : LoopTimer(l, due)

LookStep(l) ==
    \/ Apply(l) \/ Reread(l) \/ MarkRefused(l) \/ EnqueueCheck(l)
    \/ \E a \in Auths : \/ DirtyRead(l, a)
                        \/ \E needsRefresh \in BOOLEAN : DueRead(l, a, needsRefresh)

JobStep(l) ==
    \/ Enqueue(l) \/ EnqueueFails(l)
    \/ \E j \in Jobs : j \in Unused /\ MarkPending(l, j)
    \/ \E j \in Jobs : Release(l, j)

LEMMA StepKinds ==
    ASSUME Next
    PROVE  \/ StartAutoRefresh \/ StopAutoRefresh \/ StartStep
           \/ \E l \in Loops : SelectStep(l) \/ LookStep(l) \/ JobStep(l) \/ LoopExit(l)
           \/ \E l \in Loops, w \in Workers :
                 \/ TakeJob(l, w) \/ BeginJob(l, w) \/ RefreshRead(l, w) \/ WorkerFinish(l, w)
                 \/ WorkerExit(l, w)
                 \/ \E a \in Auths : CommitAction(l, w, a)
           \/ \E x \in Actors : NoteStep(x)
           \/ \E c \in Clients : ClientStep(c) \/ ModifyStep(c)
           \/ \E a \in Auths : ThrottlePasses(a)
<1>1. ASSUME NEW l \in Loops, LoopStep(l) PROVE SelectStep(l) \/ LookStep(l) \/ JobStep(l)
  <2>1. \A j \in Unused : j \in Jobs
    BY DEF Unused
  <2>. QED
    BY <1>1, <2>1 DEF LoopStep, SelectStep, LookStep, JobStep
<1>2. ASSUME NEW l \in Loops, NEW w \in Workers, WorkerStep(l, w)
      PROVE  \/ TakeJob(l, w) \/ BeginJob(l, w) \/ RefreshRead(l, w) \/ WorkerFinish(l, w)
             \/ \E a \in Auths : CommitAction(l, w, a)
  BY <1>2 DEF WorkerStep, CommitAction
<1>. QED
  BY <1>1, <1>2 DEF Next

-----------------------------------------------------------------------------
(***************************************************************************)
(* Types                                                                   *)
(***************************************************************************)
LEMMA NoteTypes ==
    ASSUME TypeOK, NEW x \in Actors, NEW a \in Auths,
           \/ note' = note
           \/ note' = [note EXCEPT ![x] = NoNote]
           \/ note' = [note EXCEPT ![x] = Reschedule({a})]
           \/ note' = [note EXCEPT ![x] = Unschedule(a)]
    PROVE  note' \in [Actors -> Notes]
<1>1. note \in [Actors -> Notes] /\ {a} \in SUBSET Auths
  BY DEF TypeOK, ActorTypes
<1>. QED
  BY <1>1, Notifications

LEMMA ScheduleTypes ==
    ASSUME TypeOK, NEW l \in Loops, NEW as \in SUBSET Auths,
           \/ heap' = heap \/ heap' = [heap EXCEPT ![l] = as]
           \/ heap' = [heap EXCEPT ![l] = @ \ as] \/ heap' = [heap EXCEPT ![l] = @ \cup as],
           \/ dirty' = dirty \/ dirty' = [dirty EXCEPT ![l] = as]
           \/ dirty' = [dirty EXCEPT ![l] = @ \ as] \/ dirty' = [dirty EXCEPT ![l] = @ \cup as]
    PROVE  heap' \in [Loops -> SUBSET Auths] /\ dirty' \in [Loops -> SUBSET Auths]
<1>1. heap \in [Loops -> SUBSET Auths] /\ dirty \in [Loops -> SUBSET Auths]
  BY DEF TypeOK, LoopTypes
<1>. QED
  BY <1>1

LEMMA LoopTypesStep ==
    ASSUME TypeOK, JobInv, NEW l \in Loops, Dispatching(l),
           SelectStep(l) \/ LookStep(l) \/ JobStep(l) \/ LoopExit(l)
    PROVE  TypeOK'
<1>1. DispatcherJob(l) /\ ReleasedJobs(l)
  BY DEF JobInv
<1>2. Dispatcher(l) \in Actors
  BY ActorFacts
<1>3. CASE LoopWake(l)
  BY <1>3, LoopWakeIs
     DEF Moves, MovesTo, ManagerStays, OthersStay, TypeOK, ManagerTypes, LoopTypes, ActorTypes
<1>4. CASE Drain(l)
  BY <1>4, DrainIs
     DEF Moves, ManagerStays, OthersStay, TypeOK, ManagerTypes, LoopTypes, ActorTypes
<1>5. ASSUME NEW due \in SUBSET heap[l], LoopTimer(l, due) PROVE TypeOK'
  <2>1. due \in SUBSET Auths
    BY DEF TypeOK, LoopTypes
  <2>2. heap' \in [Loops -> SUBSET Auths] /\ dirty' \in [Loops -> SUBSET Auths]
    BY <1>5, <2>1, LoopTimerIs, ScheduleTypes
  <2>. QED
    BY <1>5, <2>2, LoopTimerIs
       DEF Moves, ManagerStays, OthersStay, TypeOK, ManagerTypes, LoopTypes, ActorTypes
<1>6. CASE LoopExit(l)
  BY <1>6, LoopExitIs
     DEF Moves, ManagerStays, OthersStay, TypeOK, ManagerTypes, LoopTypes, ActorTypes
<1>7. CASE LoopEnds(l)
  BY <1>7, LoopEndsIs
     DEF Moves, MovesTo, ManagerStays, OthersStay, TypeOK, ManagerTypes, LoopTypes, ActorTypes
<1>8. ASSUME NEW a \in Auths, DirtyRead(l, a) PROVE TypeOK'
  BY <1>8, DirtyReadIs
     DEF Moves, ManagerStays, OthersStay, TypeOK, ManagerTypes, LoopTypes, ActorTypes
<1>9. ASSUME NEW a \in Auths, NEW needsRefresh \in BOOLEAN, DueRead(l, a, needsRefresh)
      PROVE  TypeOK'
  BY <1>9, DueReadIs
     DEF Moves, Rests, ManagerStays, OthersStay, TypeOK, ManagerTypes, LoopTypes, ActorTypes
<1>10. CASE Apply(l)
  <2> DEFINE a == loop[l].cur
  <2>1. a \in Auths
    BY <1>10, ApplyIs
  <2>2. \/ heap' = [heap EXCEPT ![l] = {}] /\ dirty' = dirty
        \/ heap' = [heap EXCEPT ![l] = @ \cup {a}] /\ dirty' = dirty
        \/ heap' = [heap EXCEPT ![l] = @ \ {a}] /\ dirty' = [dirty EXCEPT ![l] = @ \ {a}]
    BY <1>10, ApplyIs
  <2>3. {} \in SUBSET Auths /\ {a} \in SUBSET Auths
    BY <2>1
  <2> HIDE DEF a
  <2>4. heap' \in [Loops -> SUBSET Auths] /\ dirty' \in [Loops -> SUBSET Auths]
    BY <2>2, <2>3, ScheduleTypes
  <2>. QED
    BY <1>10, <2>4, ApplyIs
       DEF Moves, Rests, ManagerStays, OthersStay, TypeOK, ManagerTypes, LoopTypes, ActorTypes
<1>11. CASE Reread(l)
  BY <1>11, RereadIs
     DEF Moves, ManagerStays, OthersStay, TypeOK, ManagerTypes, LoopTypes, ActorTypes
<1>12. CASE MarkRefused(l)
  BY <1>12, MarkRefusedIs
     DEF Moves, MovesTo, ManagerStays, OthersStay, TypeOK, ManagerTypes, LoopTypes, ActorTypes
<1>13. CASE EnqueueCheck(l)
  BY <1>13, EnqueueCheckIs
     DEF Moves, MovesTo, ManagerStays, OthersStay, TypeOK, ManagerTypes, LoopTypes, ActorTypes
<1>14. ASSUME NEW j \in Jobs, MarkPending(l, j) PROVE TypeOK'
  <2>1. note' \in [Actors -> Notes]
    <3>1. /\ loop[l].cur \in Auths
          /\ note' = [note EXCEPT ![Dispatcher(l)] = Reschedule({loop[l].cur})]
      BY <1>14, MarkPendingIs
    <3>. QED
      BY <1>2, <3>1, NoteTypes
  <2>2. refreshJobs' \in [Auths -> Jobs \cup {NoJob}]
    <3>1. refreshJobs' = [refreshJobs EXCEPT ![loop[l].cur] = j]
      BY <1>14, MarkPendingIs
    <3>. QED
      BY <3>1 DEF TypeOK, ManagerTypes
  <2>3. loop' \in [Loops -> LoopStates] /\ auth' \in [Auths -> Credentials]
        /\ job' \in [Jobs -> JobObjects]
        /\ UNCHANGED <<epochs, executor, heap, dirty, wakeCh, jobsCh>> /\ OthersStay
    BY <1>14, MarkPendingIs DEF Moves
  <2>. QED
    BY <2>1, <2>2, <2>3
       DEF OthersStay, TypeOK, ManagerTypes, LoopTypes, ActorTypes
<1>15. CASE Enqueue(l)
  BY <1>1, <1>15, EnqueueIs
     DEF Moves, Rests, ManagerStays, OthersStay, TypeOK, ManagerTypes, LoopTypes, ActorTypes
<1>16. CASE EnqueueFails(l)
  <2>1. note' \in [Actors -> Notes]
    BY <1>1, <1>2, <1>16, EnqueueFailsIs, NoteTypes
  <2>. QED
    BY <1>1, <1>16, <2>1, EnqueueFailsIs
       DEF Moves, Forgets, ManagerStays, OthersStay, TypeOK, ManagerTypes, LoopTypes, ActorTypes
<1>17. ASSUME NEW j \in Jobs, Release(l, j) PROVE TypeOK'
  <2>1. note' \in [Actors -> Notes]
    BY <1>1, <1>2, <1>17, ReleaseIs, NoteTypes
  <2>2. refreshJobs' \in [Auths -> Jobs \cup {NoJob}]
    <3>1. \/ refreshJobs' = refreshJobs
          \/ refreshJobs' = [refreshJobs EXCEPT ![job[j].auth] = NoJob]
      BY <1>1, <1>17, ReleaseIs
    <3>. QED
      BY <3>1 DEF TypeOK, ManagerTypes
  <2>3. loop' \in [Loops -> LoopStates]
    <3>1. Moves(l, "release", loop[l].todo, loop[l].cur, loop[l].decision, loop[l].job,
                loop[l].release \ {j})
      BY <1>1, <1>17, ReleaseIs
    <3>. QED
      BY <3>1 DEF Moves
  <2>4. auth' \in [Auths -> Credentials]
        /\ UNCHANGED <<epochs, executor, job, heap, dirty, wakeCh, jobsCh>> /\ OthersStay
    BY <1>1, <1>17, ReleaseIs
  <2>. QED
    BY <2>1, <2>2, <2>3, <2>4 DEF OthersStay, TypeOK, ManagerTypes, LoopTypes, ActorTypes
<1>. QED
  BY <1>3, <1>4, <1>5, <1>6, <1>7, <1>8, <1>9, <1>10, <1>11, <1>12, <1>13, <1>14, <1>15, <1>16,
     <1>17 DEF SelectStep, LookStep, JobStep

LEMMA WorkerTypesStep ==
    ASSUME TypeOK, JobInv, CommitInv, NEW l \in Loops, NEW w \in Workers,
           \/ TakeJob(l, w) \/ BeginJob(l, w) \/ RefreshRead(l, w) \/ WorkerFinish(l, w)
           \/ WorkerExit(l, w)
           \/ \E a \in Auths : CommitAction(l, w, a)
    PROVE  TypeOK'
<1>1. WorkerJob(<<l, w>>) /\ <<l, w>> \in Actors
  BY ActorFacts DEF JobInv
<1>2. CASE TakeJob(l, w)
  BY <1>2, TakeJobIs DEF Turns, PoolFrame, TypeOK, ManagerTypes, LoopTypes, ActorTypes
<1>3. CASE BeginJob(l, w)
  BY <1>1, <1>3, BeginJobIs DEF Turns, PoolFrame, TypeOK, ManagerTypes, LoopTypes, ActorTypes
<1>4. CASE RefreshRead(l, w)
  BY <1>4, RefreshReadIs DEF Turns, PoolFrame, TypeOK, ManagerTypes, LoopTypes, ActorTypes
<1>5. CASE WorkerFinish(l, w)
  <2> DEFINE a == job[worker[<<l, w>>].job].auth
  <2>1. a \in Auths /\ (note' = note \/ note' = [note EXCEPT ![<<l, w>>] = Reschedule({a})])
        /\ (refreshJobs' = refreshJobs \/ refreshJobs' = [refreshJobs EXCEPT ![a] = NoJob])
    BY <1>1, <1>5, WorkerFinishIs
  <2>2. worker' \in [Pool -> WorkerStates] /\ auth' \in [Auths -> Credentials]
        /\ job' \in [Jobs -> JobObjects]
        /\ UNCHANGED <<jobsCh, ends>> /\ PoolFrame
    BY <1>1, <1>5, WorkerFinishIs DEF Turns, Forgets
  <2> HIDE DEF a
  <2>3. note' \in [Actors -> Notes]
    BY <1>1, <2>1, NoteTypes
  <2>4. refreshJobs' \in [Auths -> Jobs \cup {NoJob}]
    BY <2>1 DEF TypeOK, ManagerTypes
  <2>. QED
    BY <2>2, <2>3, <2>4
       DEF PoolFrame, TypeOK, ManagerTypes, LoopTypes, ActorTypes
<1>6. CASE WorkerExit(l, w)
  BY <1>6, WorkerExitIs DEF Turns, PoolFrame, TypeOK, ManagerTypes, LoopTypes, ActorTypes
<1>7. ASSUME NEW a \in Auths, CommitAction(l, w, a) PROVE TypeOK'
  <2>1. /\ worker' \in [Pool -> WorkerStates] /\ Commits(<<l, w>>, a)
        /\ ends' \in Nat /\ UNCHANGED <<refreshJobs, job, jobsCh>> /\ PoolFrame
    BY <1>7, CommitIs DEF Turns
  <2>2. note' \in [Actors -> Notes]
    BY <1>1, <2>1, NoteTypes DEF Commits
  <2>. QED
    BY <2>1, <2>2
       DEF Commits, PoolFrame, TypeOK, ManagerTypes, LoopTypes, ActorTypes
<1>. QED
  BY <1>2, <1>3, <1>4, <1>5, <1>6, <1>7

LEMMA ClientTypesStep ==
    ASSUME TypeOK, NEW c \in Clients, ClientStep(c) \/ ModifyStep(c)
    PROVE  TypeOK'
<1>1. c \in Actors
  BY ActorFacts
<1>2. CASE RegisterExecutor(c) \/ UnregisterExecutor(c)
  <2>1. note' \in [Actors -> Notes]
    BY <1>1, <1>2, ExecutorIs, Notifications DEF TypeOK, ActorTypes
  <2>. QED
    BY <1>2, <2>1, ExecutorIs
       DEF LoopsStay, StarterStays, TypeOK, ManagerTypes, LoopTypes, ActorTypes
<1>3. ASSUME NEW a \in Auths, Register(c, a) PROVE TypeOK'
  <2>1. note' \in [Actors -> Notes]
    BY <1>1, <1>3, RegisterIs, NoteTypes
  <2>. QED
    BY <1>3, <2>1, RegisterIs
       DEF VersionsOnly, ManagerStays, LoopsStay, StarterStays, TypeOK, ManagerTypes, LoopTypes,
           ActorTypes
<1>4. ASSUME NEW a \in Auths, RemoveAuth(c, a) PROVE TypeOK'
  <2>1. note' \in [Actors -> Notes]
    BY <1>1, <1>4, RemoveAuthIs, NoteTypes
  <2>. QED
    BY <1>4, <2>1, RemoveAuthIs
       DEF ManagerStays, LoopsStay, StarterStays, TypeOK, ManagerTypes, LoopTypes, ActorTypes
<1>5. ASSUME NEW a \in Auths, ModifyRead(c, a) PROVE TypeOK'
  BY <1>5, ModifyReadIs
     DEF ManagerStays, LoopsStay, StarterStays, TypeOK, ManagerTypes, LoopTypes, ActorTypes
<1>6. ASSUME NEW a \in Auths, NEW n \in BOOLEAN, ModifyCommit(c, a, n) PROVE TypeOK'
  <2>1. /\ client' = [client EXCEPT ![c] = IdleClient]
        /\ note' = [note EXCEPT ![c] = Reschedule({a})]
        /\ auth' \in [Auths -> Credentials] /\ worker' \in [Pool -> WorkerStates]
        /\ UNCHANGED <<epochs, executor, refreshJobs, job, calls, ends>> /\ LoopsStay
        /\ StarterStays
    BY <1>6, ModifyCommitIs DEF VersionsOnly
  <2>2. note' \in [Actors -> Notes]
    BY <1>1, <2>1, NoteTypes
  <2>3. IdleClient \in ClientStates
    BY DEF IdleClient, ClientStates
  <2>4. client' \in [Clients -> ClientStates]
    BY <2>1, <2>3 DEF TypeOK, ActorTypes
  <2>. QED
    BY <2>1, <2>2, <2>4
       DEF LoopsStay, StarterStays, TypeOK, ManagerTypes, LoopTypes, ActorTypes
<1>. QED
  BY <1>2, <1>3, <1>4, <1>5, <1>6 DEF ClientStep, ModifyStep

LEMMA NoteTypesStep ==
    ASSUME TypeOK, NEW x \in Actors, NoteStep(x)
    PROVE  TypeOK'
<1>1. CASE NoteRead(x)
  BY <1>1, NoteReadIs
     DEF ManagerStays, LoopsStay, StarterStays, TypeOK, ManagerTypes, LoopTypes, ActorTypes
<1>2. ASSUME NEW a \in Auths, QueueReschedule(x, a) PROVE TypeOK'
  <2> DEFINE l == note[x].loop
  <2>1. /\ l \in Loops /\ wakeCh' \in [Loops -> BOOLEAN] /\ note' \in [Actors -> Notes]
        /\ dirty' = dirty \/ dirty' = [dirty EXCEPT ![l] = @ \cup {a}]
        /\ UNCHANGED <<loop, heap, jobsCh, worker, client, calls, ends>>
        /\ ManagerStays /\ StarterStays
    BY <1>2, QueueRescheduleIs
  <2>2. {a} \in SUBSET Auths
    OBVIOUS
  <2> HIDE DEF l
  <2>3. heap' \in [Loops -> SUBSET Auths] /\ dirty' \in [Loops -> SUBSET Auths]
    BY <2>1, <2>2, ScheduleTypes
  <2>. QED
    BY <2>1, <2>3
       DEF ManagerStays, StarterStays, TypeOK, ManagerTypes, LoopTypes, ActorTypes
<1>3. ASSUME NEW a \in Auths, RemoveFromLoop(x, a) PROVE TypeOK'
  <2> DEFINE l == note[x].loop
  <2>1. /\ l \in Loops /\ note' = [note EXCEPT ![x] = NoNote]
        /\ heap' = [heap EXCEPT ![l] = @ \ {a}] /\ dirty' = [dirty EXCEPT ![l] = @ \ {a}]
        /\ UNCHANGED <<loop, wakeCh, jobsCh, worker, client, calls, ends>>
        /\ ManagerStays /\ StarterStays
    BY <1>3, RemoveFromLoopIs
  <2>2. {a} \in SUBSET Auths
    OBVIOUS
  <2> HIDE DEF l
  <2>3. heap' \in [Loops -> SUBSET Auths] /\ dirty' \in [Loops -> SUBSET Auths]
    BY <2>1, <2>2, ScheduleTypes
  <2>4. note' \in [Actors -> Notes]
    BY <2>1, NoteTypes
  <2>. QED
    BY <2>1, <2>3, <2>4
       DEF ManagerStays, StarterStays, TypeOK, ManagerTypes, LoopTypes, ActorTypes
<1>. QED
  BY <1>1, <1>2, <1>3 DEF NoteStep

LEMMA StarterTypesStep ==
    ASSUME TypeOK, StarterInv, StartAutoRefresh \/ StopAutoRefresh \/ StartStep
    PROVE  TypeOK'
<1>1. CASE StartAutoRefresh
  BY <1>1, StartAutoRefreshIs DEF StartFrameStays, TypeOK, ManagerTypes, LoopTypes, ActorTypes
<1>2. CASE StopAutoRefresh
  BY <1>2, StopAutoRefreshIs, CancelIs
     DEF StartFrameStays, TypeOK, ManagerTypes, LoopTypes, ActorTypes
<1>3. CASE CancelPrevious
  BY <1>3, CancelPreviousIs, CancelIs
     DEF StartFrameStays, TypeOK, ManagerTypes, LoopTypes, ActorTypes
<1>4. CASE PublishLoop
  BY <1>4, PublishLoopIs DEF StartFrameStays, TypeOK, ManagerTypes, LoopTypes, ActorTypes
<1>5. CASE RebuildRead
  BY <1>5, RebuildReadIs DEF StartFrameStays, TypeOK, ManagerTypes, LoopTypes, ActorTypes
<1>6. CASE Rebuild
  <2>1. starter.loop \in Loops
    BY <1>6 DEF Rebuild, StarterInv
  <2>. QED
    BY <1>6, <2>1, RebuildIs
       DEF MovesTo, Moves, StartFrameStays, TypeOK, ManagerTypes, LoopTypes, ActorTypes
<1>. QED
  BY <1>1, <1>2, <1>3, <1>4, <1>5, <1>6 DEF StartStep

LEMMA TypeStep ==
    ASSUME IInv, Next
    PROVE  TypeOK'
<1>1. TypeOK /\ JobInv /\ ControlInv
  BY DEF IInv
<1>2. ASSUME NEW a \in Auths, ThrottlePasses(a) PROVE TypeOK'
  BY <1>1, <1>2, ThrottlePassesIs
     DEF LoopsStay, StarterStays, TypeOK, ManagerTypes, LoopTypes, ActorTypes
<1>. QED
  BY <1>1, <1>2, StepKinds, LoopTypesStep, WorkerTypesStep, ClientTypesStep, NoteTypesStep,
     StarterTypesStep DEF ControlInv

-----------------------------------------------------------------------------
(***************************************************************************)
(* Where the jobs are                                                      *)
(***************************************************************************)
LEMMA JobInvIs ==
    ASSUME \A l \in Loops : DispatcherJob(l)', \A l \in Loops : Queue(l)',
           \A l \in Loops : ReleasedJobs(l)', \A x \in Pool : WorkerJob(x)',
           \A a \in Auths : CurrentJob(a)'
    PROVE  JobInv'
BY DEF JobInv

\* What it says in terms of numbers that are jobs.
LEMMA JobFacts ==
    ASSUME TypeOK, JobInv
    PROVE  /\ \A l \in Loops : loop[l].job \in Jobs \cup {NoJob}
           /\ \A l \in Loops : loop[l].release \subseteq Jobs
           /\ \A x \in Pool : worker[x].job \in Jobs \cup {NoJob}
           /\ \A a \in Auths : refreshJobs[a] \in Jobs \cup {NoJob}
           /\ \A l \in Loops : jobsCh[l] \in Seq(Jobs)
           /\ \A l \in Loops : loop[l].pc \in WithJob <=> loop[l].job # NoJob
           /\ \A x \in Pool : worker[x].pc \in Working <=> worker[x].job # NoJob
           /\ NoJob \notin Jobs
<1>1. \A l \in Loops : loop[l] \in LoopStates
  BY DEF TypeOK, LoopTypes
<1>2. \A x \in Pool : worker[x] \in WorkerStates
  BY DEF TypeOK, ActorTypes
<1>3. \A l \in Loops : loop[l].job \in Jobs \cup {NoJob} /\ loop[l].release \subseteq Jobs
  BY <1>1 DEF LoopStates
<1>4. \A x \in Pool : worker[x].job \in Jobs \cup {NoJob}
  BY <1>2 DEF WorkerStates
<1>5. \A a \in Auths : refreshJobs[a] \in Jobs \cup {NoJob}
  BY DEF TypeOK, ManagerTypes
<1>6. \A l \in Loops : jobsCh[l] \in Seq(Jobs)
  BY DEF TypeOK, LoopTypes
<1>. QED
  BY <1>3, <1>4, <1>5, <1>6, Numbers DEF JobInv, DispatcherJob, WorkerJob

\* Steps that move no job.
LEMMA JobsStay ==
    ASSUME TypeOK, JobInv,
           UNCHANGED <<refreshJobs, job, jobsCh>>,
           \A l \in Loops : /\ loop'[l].job = loop[l].job /\ loop'[l].release = loop[l].release
                            /\ loop'[l].pc \in WithJob <=> loop[l].pc \in WithJob
                            /\ loop[l].pc \in WithJob => loop'[l].cur = loop[l].cur
                            /\ Exited(l)' <=> Exited(l),
           \A x \in Pool : worker'[x].job = worker[x].job /\ worker'[x].pc = worker[x].pc
    PROVE  JobInv'
<1>1. \A l \in Loops, w \in Workers : <<l, w>> \in Pool
  BY ActorFacts
<1>2. \A l \in Loops : Received(l)' <=> Received(l)
  BY <1>1 DEF Received
<1>3. \A j \in Jobs : Idling(j)' <=> Idling(j)
  BY DEF Idling
<1>4. \A l \in Loops, j \in Jobs : InQueue(l, j)' <=> InQueue(l, j)
  BY DEF InQueue
<1>5. ASSUME NEW l \in Loops PROVE DispatcherJob(l)'
  <2>1. loop[l].job # NoJob => loop[l].pc \in WithJob /\ loop[l].job \in Jobs
    BY JobFacts
  <2>. QED
    BY <1>3, <1>4, <2>1, Numbers DEF JobInv, DispatcherJob
<1>6. ASSUME NEW l \in Loops PROVE Queue(l)'
  <2>1. \A j \in Jobs : QueuedJob(l, j)' <=> QueuedJob(l, j)
    BY <1>3 DEF QueuedJob
  <2>. QED
    BY <1>2, <1>4, <2>1 DEF JobInv, Queue
<1>7. ASSUME NEW l \in Loops PROVE ReleasedJobs(l)'
  BY DEF JobInv, ReleasedJobs
<1>8. ASSUME NEW x \in Pool PROVE WorkerJob(x)'
  BY DEF JobInv, WorkerJob
<1>9. ASSUME NEW a \in Auths PROVE CurrentJob(a)'
  <2>1. \A l \in Loops, j \in Jobs : Placed(l, j)' <=> Placed(l, j)
    BY <1>4 DEF Placed
  <2>. QED
    BY <2>1 DEF JobInv, CurrentJob
<1>. QED
  BY <1>5, <1>6, <1>7, <1>8, <1>9, JobInvIs

LEMMA LoopExitJobs ==
    ASSUME TypeOK, JobInv, NEW l \in Loops, LoopExit(l)
    PROVE  JobInv'
<1>1. /\ loop[l].pc = "idle"
      /\ Moves(l, "release", loop[l].todo, loop[l].cur, loop[l].decision, loop[l].job,
               loop'[l].release)
      /\ \A j \in Jobs : j \in loop'[l].release <=>
            /\ job[j].loop = l /\ ~ job[j].running
            /\ \E a \in Auths : refreshJobs[a] = j
      /\ UNCHANGED <<refreshJobs, job, jobsCh, worker>>
  BY LoopExitIs DEF ManagerStays, OthersStay
<1>2. \A k \in Loops : loop'[k].job = loop[k].job /\ loop'[k].cur = loop[k].cur
      /\ (loop'[k].pc \in WithJob <=> loop[k].pc \in WithJob)
      /\ (Exited(k)' <=> Exited(k) \/ k = l)
      /\ (k # l => loop'[k] = loop[k])
  BY <1>1 DEF Moves, WithJob, Exited
<1>3. \A j \in Jobs : Idling(j)' <=> Idling(j)
  BY <1>1 DEF Idling
<1>4. \A k \in Loops, j \in Jobs : InQueue(k, j)' <=> InQueue(k, j)
  BY <1>1 DEF InQueue
<1>5. ~ Exited(l)
  BY <1>1 DEF Exited
<1>6. ASSUME NEW k \in Loops PROVE DispatcherJob(k)'
  BY <1>1, <1>2, <1>3, <1>4 DEF JobInv, DispatcherJob
<1>7. ASSUME NEW k \in Loops PROVE Queue(k)'
  <2>1. \A j \in Jobs : QueuedJob(k, j) => QueuedJob(k, j)'
    BY <1>1, <1>2, <1>3 DEF QueuedJob
  <2>2. (~ Exited(k) \/ Received(k))' => ~ Exited(k) \/ Received(k)
    BY <1>1, <1>2, <1>5 DEF Received
  <2>. QED
    BY <1>1, <1>4, <2>1, <2>2 DEF JobInv, Queue
<1>8. ASSUME NEW k \in Loops PROVE ReleasedJobs(k)'
  <2>1. CASE k # l
    BY <1>1, <1>2, <2>1 DEF JobInv, ReleasedJobs
  <2>2. CASE k = l
    <3>1. loop'[l].release \subseteq Jobs
      BY <1>1 DEF Moves, LoopStates
    <3>2. \A j \in loop'[l].release : job[j].loop = l /\ job[j].auth \in Auths
      BY <1>1, <3>1 DEF JobInv, CurrentJob
    <3>. QED
      BY <1>1, <2>2, <3>2 DEF ReleasedJobs
  <2>. QED
    BY <2>1, <2>2
<1>9. ASSUME NEW x \in Pool PROVE WorkerJob(x)'
  BY <1>1 DEF JobInv, WorkerJob
<1>10. ASSUME NEW a \in Auths PROVE CurrentJob(a)'
  <2>1. ASSUME NEW j \in Jobs, refreshJobs[a] = j, NEW k \in Loops, job[j].loop = k, Placed(k, j)
        PROVE  Placed(k, j)'
    <3>1. k = l /\ ~ job[j].running => j \in loop'[k].release
      BY <1>1, <2>1
    <3>. QED
      BY <1>1, <1>2, <1>4, <2>1, <3>1 DEF Placed
  <2>. QED
    BY <1>1, <2>1 DEF JobInv, CurrentJob
<1>. QED
  BY <1>6, <1>7, <1>8, <1>9, <1>10, JobInvIs

LEMMA MarkPendingJobs ==
    ASSUME TypeOK, JobInv, NEW l \in Loops, NEW j \in Jobs, Dispatching(l), j \in Unused,
           MarkPending(l, j)
    PROVE  JobInv'
<1> DEFINE a == loop[l].cur
<1>1. /\ loop[l].pc = "mark" /\ a \in Auths /\ refreshJobs[a] = NoJob
      /\ Moves(l, "enqueue", loop[l].todo, a, loop[l].decision, j, loop[l].release)
      /\ job'[j].auth = a /\ job'[j].loop = l /\ ~ job'[j].running
      /\ \A i \in Jobs \ {j} : job'[i] = job[i]
      /\ refreshJobs' = [refreshJobs EXCEPT ![a] = j]
      /\ UNCHANGED <<jobsCh, worker>>
  BY MarkPendingIs DEF OthersStay
<1>2. /\ \A b \in Auths : refreshJobs[b] # j
      /\ \A k \in Loops : loop[k].job # j /\ j \notin loop[k].release
      /\ Idling(j) /\ ~ Queued(j)
  BY DEF Unused, Idling
<1>3. \A k \in Loops : (Exited(k)' <=> Exited(k)) /\ (k # l => loop'[k] = loop[k])
      /\ loop'[k].release = loop[k].release
  BY <1>1 DEF Moves, Exited
<1>4. \A i \in Jobs : Idling(i)' <=> Idling(i)
  BY <1>1 DEF Idling
<1>5. \A k \in Loops, i \in Jobs : InQueue(k, i)' <=> InQueue(k, i)
  BY <1>1 DEF InQueue
<1>6. refreshJobs \in [Auths -> Jobs \cup {NoJob}] /\ loop[l].job = NoJob
  BY <1>1, JobFacts DEF TypeOK, ManagerTypes, WithJob
<1>7. \A b \in Auths : \A i \in Jobs : refreshJobs[b] = i => refreshJobs'[b] = i
  BY <1>1, <1>6, JobFacts
<1>8. ASSUME NEW k \in Loops, ~ Exited(k) \/ Received(k), InQueue(k, j) PROVE FALSE
  <2>1. QueuedJob(k, j)
    BY <1>8 DEF JobInv, Queue
  <2>2. CASE ~ Exited(k)
    BY <1>2, <2>1, <2>2 DEF QueuedJob
  <2>3. CASE Received(k)
    BY <1>2, <1>8, <2>3 DEF Received, InQueue, Queued
  <2>. QED
    BY <1>8, <2>2, <2>3
<1> HIDE DEF a
<1>9. ASSUME NEW k \in Loops PROVE DispatcherJob(k)'
  <2>1. CASE k = l
    <3>1. ~ InQueue(l, j)
      BY <1>1, <1>8 DEF Exited
    <3>2. loop'[l].pc \in WithJob /\ loop'[l].job = j /\ loop'[l].cur = a
      BY <1>1 DEF Moves, WithJob
    <3>3. refreshJobs'[a] = j
      BY <1>1, <1>6
    <3>. QED
      BY <1>1, <1>2, <1>4, <1>5, <2>1, <3>1, <3>2, <3>3, JobFacts DEF DispatcherJob
  <2>2. CASE k # l
    <3>1. loop[k].pc \in Looking => loop[k].cur \in Auths \cup {NoAuth}
      BY DEF TypeOK, LoopTypes, LoopStates
    <3>2. \A i \in Jobs : loop[k].job = i => i # j /\ refreshJobs'[loop[k].cur] = i
      <4>1. \A i \in Jobs : loop[k].job = i => refreshJobs[loop[k].cur] = i
        BY DEF JobInv, DispatcherJob
      <4>2. \A i \in Jobs : i # NoJob
        BY JobFacts
      <4>. QED
        BY <1>1, <1>2, <1>6, <4>1, <4>2
    <3>. QED
      BY <1>1, <1>3, <1>4, <1>5, <2>2, <3>2 DEF JobInv, DispatcherJob
  <2>. QED
    BY <2>1, <2>2
<1>10. ASSUME NEW k \in Loops PROVE Queue(k)'
  <2>1. SUFFICES ASSUME ~ Exited(k) \/ Received(k) PROVE Queue(k)'
    BY <1>1, <1>3 DEF Queue, Received
  <2>2. ASSUME NEW i \in Jobs, InQueue(k, i) PROVE QueuedJob(k, i)'
    <3>1. QueuedJob(k, i) /\ i # j
      BY <1>8, <2>1, <2>2 DEF JobInv, Queue
    <3>. QED
      BY <1>1, <1>3, <1>4, <1>7, <3>1 DEF QueuedJob
  <2>. QED
    BY <1>1, <1>5, <2>1, <2>2 DEF JobInv, Queue
<1>11. ASSUME NEW k \in Loops PROVE ReleasedJobs(k)'
  BY <1>1, <1>2, <1>3, JobFacts DEF JobInv, ReleasedJobs
<1>12. ASSUME NEW x \in Pool PROVE WorkerJob(x)'
  <2>1. worker[x].job # j
    BY <1>2 DEF Idling
  <2>. QED
    BY <1>1, <1>7, <2>1 DEF JobInv, WorkerJob
<1>13. ASSUME NEW b \in Auths PROVE CurrentJob(b)'
  <2>1. CASE b = a
    <3>1. refreshJobs'[b] = j /\ loop'[l].job = j
      BY <1>1, <1>6, <2>1 DEF Moves
    <3>. QED
      BY <1>1, <2>1, <3>1 DEF CurrentJob, Placed
  <2>2. CASE b # a
    <3>1. refreshJobs'[b] = refreshJobs[b]
      BY <1>1, <1>6, <2>2
    <3>2. ASSUME NEW i \in Jobs, refreshJobs[b] = i, NEW k \in Loops, Placed(k, i)
          PROVE  Placed(k, i)' /\ job'[i] = job[i]
      <4>1. i # j /\ i # NoJob
        BY <1>2, <3>2, JobFacts
      <4>2. loop[k].job = i => loop'[k].job = i
        BY <1>3, <1>6, <4>1
      <4>. QED
        BY <1>1, <1>3, <1>5, <3>2, <4>1, <4>2 DEF Placed
    <3>3. CurrentJob(b)
      BY DEF JobInv
    <3>4. ASSUME NEW i \in Jobs, refreshJobs'[b] = i
          PROVE  job'[i].auth = b /\ \E k \in Loops : job'[i].loop = k /\ Placed(k, i)'
      <4>1. job[i].auth = b
        BY <3>1, <3>3, <3>4 DEF CurrentJob
      <4>2. PICK k \in Loops : job[i].loop = k /\ Placed(k, i)
        BY <3>1, <3>3, <3>4 DEF CurrentJob
      <4>. QED
        BY <3>1, <3>2, <3>4, <4>1, <4>2
    <3>. QED
      BY <3>4 DEF CurrentJob
  <2>. QED
    BY <2>1, <2>2
<1>. QED
  BY <1>9, <1>10, <1>11, <1>12, <1>13, JobInvIs

LEMMA EnqueueJobs ==
    ASSUME TypeOK, JobInv, NEW l \in Loops, Dispatching(l), Enqueue(l)
    PROVE  JobInv'
<1> DEFINE q == jobsCh[l]
<1>0. DispatcherJob(l)
  BY DEF JobInv
<1>1. PICK j \in Jobs : j = loop[l].job
  BY <1>0, EnqueueIs
<1>2. /\ loop[l].pc = "send" /\ loop[l].cur \in Auths
      /\ Rests(l, loop[l].cur)
      /\ jobsCh' = [jobsCh EXCEPT ![l] = Append(q, j)]
      /\ UNCHANGED <<refreshJobs, job, worker>>
  BY <1>0, <1>1, EnqueueIs DEF ManagerStays, OthersStay
<1>3. /\ job[j].auth = loop[l].cur /\ job[j].loop = l /\ ~ job[j].running
      /\ refreshJobs[loop[l].cur] = j /\ ~ InQueue(l, j) /\ Idling(j)
  BY <1>0, <1>1, <1>2, HasJob DEF WithJob
<1>4. \A k \in Loops : (Exited(k)' <=> Exited(k)) /\ (k # l => loop'[k] = loop[k])
      /\ loop'[k].release = loop[k].release
  BY <1>2 DEF Rests, Moves, Exited
<1>5. loop'[l].job = NoJob /\ loop'[l].pc \notin WithJob /\ ~ Exited(l)
  BY <1>2 DEF Rests, Moves, WithJob, Exited
<1>6. \A i \in Jobs : Idling(i)' <=> Idling(i)
  BY <1>2 DEF Idling
<1>7. jobsCh \in [Loops -> Seq(Jobs)] /\ q \in Seq(Jobs)
  BY DEF TypeOK, LoopTypes
<1>8. jobsCh'[l] = Append(q, j) /\ \A k \in Loops \ {l} : jobsCh'[k] = jobsCh[k]
  BY <1>2, <1>7
<1>9. /\ DOMAIN Append(q, j) = 1..(Len(q) + 1) /\ DOMAIN q = 1..Len(q) /\ Len(q) \in Nat
      /\ \A i \in DOMAIN q : Append(q, j)[i] = q[i]
      /\ Append(q, j)[Len(q) + 1] = j
  BY <1>7
<1>10. \A k \in Loops, i \in Jobs : InQueue(k, i)' <=> InQueue(k, i) \/ (k = l /\ i = j)
  <2>1. \A k \in Loops \ {l}, i \in Jobs : InQueue(k, i)' <=> InQueue(k, i)
    BY <1>8 DEF InQueue
  <2>2. \A i \in Jobs : InQueue(l, i)' <=> InQueue(l, i) \/ i = j
    BY <1>8, <1>9 DEF InQueue
  <2>. QED
    BY <2>1, <2>2
<1> HIDE DEF q
<1>11. ASSUME NEW k \in Loops PROVE DispatcherJob(k)'
  <2>1. CASE k = l
    BY <1>5, <2>1, JobFacts DEF DispatcherJob
  <2>2. CASE k # l
    BY <1>2, <1>4, <1>6, <1>10, <2>2 DEF JobInv, DispatcherJob
  <2>. QED
    BY <2>1, <2>2
<1>12. ASSUME NEW k \in Loops PROVE Queue(k)'
  <2>1. \A i \in Jobs : QueuedJob(k, i)' <=> QueuedJob(k, i)
    BY <1>2, <1>4, <1>6 DEF QueuedJob
  <2>2. Received(k)' <=> Received(k)
    BY <1>2 DEF Received
  <2>3. CASE k # l
    BY <1>4, <1>8, <1>10, <2>1, <2>2, <2>3 DEF JobInv, Queue
  <2>4. CASE k = l
    <3>1. /\ \A i \in Jobs : InQueue(l, i) => QueuedJob(l, i)
          /\ \A i, m \in DOMAIN q : q[i] = q[m] => i = m
      BY <1>5 DEF JobInv, Queue, q
    <3>2. QueuedJob(l, j)
      BY <1>2, <1>3 DEF QueuedJob
    <3>3. \A i \in DOMAIN q : q[i] # j
      BY <1>3 DEF InQueue, q
    <3>4. \A i, m \in DOMAIN jobsCh'[l] : jobsCh'[l][i] = jobsCh'[l][m] => i = m
      BY <1>8, <1>9, <3>1, <3>3
    <3>. QED
      BY <1>10, <2>1, <2>4, <3>1, <3>2, <3>4 DEF Queue
  <2>. QED
    BY <2>3, <2>4
<1>13. ASSUME NEW k \in Loops PROVE ReleasedJobs(k)'
  BY <1>2, <1>4 DEF JobInv, ReleasedJobs
<1>14. ASSUME NEW x \in Pool PROVE WorkerJob(x)'
  BY <1>2 DEF JobInv, WorkerJob
<1>15. ASSUME NEW a \in Auths PROVE CurrentJob(a)'
  <2>1. ASSUME NEW i \in Jobs, refreshJobs[a] = i, NEW k \in Loops, job[i].loop = k, Placed(k, i)
        PROVE  Placed(k, i)'
    <3>1. CASE k = l /\ loop[l].job = i
      BY <1>1, <1>2, <1>3, <1>4, <1>5, <1>10, <3>1 DEF Placed
    <3>2. CASE ~ (k = l /\ loop[l].job = i)
      BY <1>2, <1>4, <1>10, <2>1, <3>2 DEF Placed
    <3>. QED
      BY <3>1, <3>2
  <2>. QED
    BY <1>2, <2>1 DEF JobInv, CurrentJob
<1>. QED
  BY <1>11, <1>12, <1>13, <1>14, <1>15, JobInvIs

LEMMA EnqueueFailsJobs ==
    ASSUME TypeOK, JobInv, NEW l \in Loops, Dispatching(l), EnqueueFails(l)
    PROVE  JobInv'
<1>0. DispatcherJob(l)
  BY DEF JobInv
<1>1. PICK j \in Jobs : j = loop[l].job
  BY <1>0, EnqueueFailsIs
<1>2. PICK a \in Auths : a = loop[l].cur
  BY <1>0, EnqueueFailsIs
<1>3. /\ loop[l].pc \in WithJob
      /\ Moves(l, "apply", loop[l].todo, a, "upsert", NoJob, loop[l].release)
      /\ refreshJobs' = [refreshJobs EXCEPT ![a] = NoJob]
      /\ Forgets(j)
      /\ UNCHANGED <<jobsCh, worker>>
  BY <1>0, <1>1, <1>2, EnqueueFailsIs DEF OthersStay, WithJob
<1>4. /\ job[j].auth = a /\ job[j].loop = l /\ ~ job[j].running
      /\ refreshJobs[a] = j /\ ~ InQueue(l, j) /\ Idling(j)
  BY <1>0, <1>1, <1>2, <1>3, HasJob
<1>5. \A k \in Loops : (Exited(k)' <=> Exited(k)) /\ (k # l => loop'[k] = loop[k])
      /\ loop'[k].release = loop[k].release
  BY <1>3 DEF Moves, Exited, WithJob
<1>6. \A i \in Jobs : Idling(i)' <=> Idling(i)
  BY <1>3 DEF Idling
<1>7. \A k \in Loops, i \in Jobs : InQueue(k, i)' <=> InQueue(k, i)
  BY <1>3 DEF InQueue
<1>8. /\ \A i \in Jobs \ {j} : job'[i] = job[i]
      /\ \A k \in Loops : j \in loop[k].release => job'[j] = job[j]
  BY <1>3 DEF Forgets
<1>9. \A b : \A i \in Jobs \ {j} : refreshJobs[b] = i => refreshJobs'[b] = i
  <2>1. refreshJobs \in [Auths -> Jobs \cup {NoJob}]
    BY DEF TypeOK, ManagerTypes
  <2>. QED
    BY <1>3, <1>4, <2>1
<1>10. \A b \in Auths : \A i \in Jobs : refreshJobs'[b] = i => refreshJobs[b] = i /\ b # a
  <2>1. refreshJobs \in [Auths -> Jobs \cup {NoJob}]
    BY DEF TypeOK, ManagerTypes
  <2>. QED
    BY <1>3, <2>1, JobFacts
<1>11. ASSUME NEW k \in Loops PROVE DispatcherJob(k)'
  <2>1. CASE k = l
    BY <1>3, <2>1, JobFacts DEF DispatcherJob, Moves, WithJob
  <2>2. CASE k # l
    <3>1. \A i \in Jobs : loop[k].job = i => i # j
      BY <1>4, <2>2 DEF JobInv, DispatcherJob
    <3>. QED
      BY <1>5, <1>6, <1>7, <1>8, <1>9, <2>2, <3>1 DEF JobInv, DispatcherJob
  <2>. QED
    BY <2>1, <2>2
<1>12. ASSUME NEW k \in Loops PROVE Queue(k)'
  <2>1. SUFFICES ASSUME ~ Exited(k) \/ Received(k) PROVE Queue(k)'
    BY <1>3, <1>5 DEF Queue, Received
  <2>2. ASSUME NEW i \in Jobs, InQueue(k, i) PROVE QueuedJob(k, i)'
    <3>1. QueuedJob(k, i)
      BY <2>1, <2>2 DEF JobInv, Queue
    <3>2. i # j
      BY <1>4, <2>2, <3>1 DEF QueuedJob
    <3>. QED
      BY <1>5, <1>6, <1>8, <1>9, <3>1, <3>2 DEF QueuedJob
  <2>. QED
    BY <1>3, <1>7, <2>1, <2>2 DEF JobInv, Queue
<1>13. ASSUME NEW k \in Loops PROVE ReleasedJobs(k)'
  <2>1. \A i \in loop[k].release : i \in Jobs /\ job'[i] = job[i]
    BY <1>8, JobFacts
  <2>. QED
    BY <1>5, <2>1 DEF JobInv, ReleasedJobs
<1>14. ASSUME NEW x \in Pool PROVE WorkerJob(x)'
  <2>1. worker[x].job # j
    BY <1>4 DEF Idling
  <2>. QED
    BY <1>3, <1>8, <1>9, <2>1 DEF JobInv, WorkerJob
<1>15. ASSUME NEW b \in Auths PROVE CurrentJob(b)'
  <2>1. CurrentJob(b)
    BY DEF JobInv
  <2>2. ASSUME NEW i \in Jobs, refreshJobs'[b] = i
        PROVE  job'[i].auth = b /\ \E k \in Loops : job'[i].loop = k /\ Placed(k, i)'
    <3>1. refreshJobs[b] = i /\ b # a
      BY <1>10, <2>2
    <3>2. job[i].auth = b /\ i # j
      BY <1>4, <2>1, <3>1 DEF CurrentJob
    <3>3. PICK k \in Loops : job[i].loop = k /\ Placed(k, i)
      BY <2>1, <3>1 DEF CurrentJob
    <3>4. loop[k].job = i => loop'[k].job = i
      BY <1>1, <1>5, <3>2
    <3>5. Placed(k, i)'
      BY <1>3, <1>5, <1>7, <1>8, <3>2, <3>3, <3>4 DEF Placed
    <3>. QED
      BY <1>8, <3>2, <3>3, <3>5
  <2>. QED
    BY <2>2 DEF CurrentJob
<1>. QED
  BY <1>11, <1>12, <1>13, <1>14, <1>15, JobInvIs

LEMMA ReleaseJobs ==
    ASSUME TypeOK, JobInv, NEW l \in Loops, NEW j \in Jobs, Release(l, j)
    PROVE  JobInv'
<1>0. ReleasedJobs(l)
  BY DEF JobInv
<1>1. PICK a \in Auths : a = job[j].auth
  BY <1>0, ReleaseIs
<1>2. /\ loop[l].pc = "release" /\ j \in loop[l].release
      /\ Moves(l, "release", loop[l].todo, loop[l].cur, loop[l].decision, loop[l].job,
               loop[l].release \ {j})
      /\ \/ /\ ~ job[j].running /\ refreshJobs[a] = j
            /\ refreshJobs' = [refreshJobs EXCEPT ![a] = NoJob]
         \/ /\ job[j].running \/ refreshJobs[a] # j
            /\ refreshJobs' = refreshJobs
      /\ UNCHANGED <<job, jobsCh, worker>>
  BY <1>0, <1>1, ReleaseIs DEF OthersStay
<1>3. job[j].loop = l /\ loop[l].job = NoJob /\ Exited(l)
  BY <1>0, <1>2, JobFacts DEF ReleasedJobs, Exited, WithJob
<1>4. \A k \in Loops : /\ Exited(k)' <=> Exited(k)
                       /\ loop'[k].job = loop[k].job /\ loop'[k].cur = loop[k].cur
                       /\ loop'[k].pc = loop[k].pc
                       /\ k # l => loop'[k] = loop[k]
  BY <1>2 DEF Moves, Exited
<1>5. \A i \in Jobs : Idling(i)' <=> Idling(i)
  BY <1>2 DEF Idling
<1>6. \A k \in Loops, i \in Jobs : InQueue(k, i)' <=> InQueue(k, i)
  BY <1>2 DEF InQueue
<1>7. /\ \A b : \A i \in Jobs : refreshJobs[b] = i /\ (i = j => job[j].running)
                    => refreshJobs'[b] = i
      /\ \A b \in Auths : \A i \in Jobs : refreshJobs'[b] = i => refreshJobs[b] = i
      /\ job[j].running \/ \A b \in Auths : refreshJobs'[b] # j
  <2>1. refreshJobs \in [Auths -> Jobs \cup {NoJob}]
    BY DEF TypeOK, ManagerTypes
  <2>2. \A b \in Auths : refreshJobs[b] = j => b = a
    BY <1>1 DEF JobInv, CurrentJob
  <2>3. CASE ~ job[j].running /\ refreshJobs[a] = j
             /\ refreshJobs' = [refreshJobs EXCEPT ![a] = NoJob]
    BY <2>1, <2>2, <2>3, JobFacts
  <2>4. CASE (job[j].running \/ refreshJobs[a] # j) /\ refreshJobs' = refreshJobs
    BY <2>2, <2>4
  <2>. QED
    BY <1>2, <2>3, <2>4
<1>8. ASSUME NEW k \in Loops PROVE DispatcherJob(k)'
  <2>1. \A i \in Jobs : loop[k].job = i => i # j
    BY <1>3, JobFacts DEF JobInv, DispatcherJob
  <2>. QED
    BY <1>2, <1>4, <1>5, <1>6, <1>7, <2>1 DEF JobInv, DispatcherJob
<1>9. ASSUME NEW k \in Loops PROVE Queue(k)'
  <2>1. \A i \in Jobs : QueuedJob(k, i) => QueuedJob(k, i)'
    <3>1. ASSUME NEW i \in Jobs, QueuedJob(k, i), ~ Exited(k) PROVE i # j
      BY <1>3, <3>1 DEF QueuedJob
    <3>. QED
      BY <1>2, <1>4, <1>5, <1>7, <3>1 DEF QueuedJob
  <2>2. Received(k)' <=> Received(k)
    BY <1>2 DEF Received
  <2>. QED
    BY <1>2, <1>4, <1>6, <2>1, <2>2 DEF JobInv, Queue
<1>10. ASSUME NEW k \in Loops PROVE ReleasedJobs(k)'
  BY <1>2, <1>4 DEF JobInv, ReleasedJobs, Moves
<1>11. ASSUME NEW x \in Pool PROVE WorkerJob(x)'
  BY <1>2, <1>7 DEF JobInv, WorkerJob
<1>12. ASSUME NEW b \in Auths PROVE CurrentJob(b)'
  <2>1. CurrentJob(b)
    BY DEF JobInv
  <2>2. ASSUME NEW i \in Jobs, refreshJobs'[b] = i, NEW k \in Loops, Placed(k, i)
        PROVE  Placed(k, i)'
    <3>1. ~ job[i].running /\ i \in loop[k].release => i \in loop'[k].release
      BY <1>2, <1>4, <1>7, <2>2 DEF Moves
    <3>. QED
      BY <1>2, <1>4, <1>6, <2>2, <3>1 DEF Placed
  <2>. QED
    BY <1>2, <1>7, <2>1, <2>2 DEF CurrentJob
<1>. QED
  BY <1>8, <1>9, <1>10, <1>11, <1>12, JobInvIs

LEMMA TakeJobJobs ==
    ASSUME TypeOK, JobInv, NEW l \in Loops, NEW w \in Workers, TakeJob(l, w)
    PROVE  JobInv'
<1> DEFINE x == <<l, w>>
           q == jobsCh[l]
<1>1. x \in Pool /\ x[1] = l
  BY ActorFacts
<1>2. q \in Seq(Jobs) /\ q # <<>> /\ jobsCh \in [Loops -> Seq(Jobs)]
  BY TakeJobIs DEF TypeOK, LoopTypes
<1>3. PICK j \in Jobs : j = Head(q)
  BY <1>2
<1>4. /\ worker[x].pc = "idle" /\ Turns(x, "begin", j)
      /\ jobsCh' = [jobsCh EXCEPT ![l] = Tail(q)]
      /\ UNCHANGED <<refreshJobs, job, loop>>
  BY <1>3, TakeJobIs DEF PoolFrame
<1>5. /\ DOMAIN Tail(q) = 1..(Len(q) - 1) /\ DOMAIN q = 1..Len(q) /\ Len(q) \in Nat \ {0}
      /\ \A i \in DOMAIN Tail(q) : Tail(q)[i] = q[i + 1]
      /\ q[1] = j
  BY <1>2, <1>3
<1>6. jobsCh'[l] = Tail(q) /\ \A k \in Loops \ {l} : jobsCh'[k] = jobsCh[k]
  BY <1>2, <1>4
<1>7. Received(l) /\ InQueue(l, j)
  BY <1>4, <1>5 DEF Received, InQueue
<1>8. /\ \A i \in Jobs : InQueue(l, i) => QueuedJob(l, i)
      /\ \A i, k \in DOMAIN q : q[i] = q[k] => i = k
  BY <1>7 DEF JobInv, Queue
<1>9. job[j].loop = l /\ job[j].auth \in Auths /\ ~ job[j].running /\ Idling(j)
  BY <1>7, <1>8 DEF QueuedJob
<1>10. \A k \in Loops, i \in Jobs : InQueue(k, i)' <=> InQueue(k, i) /\ (k = l => i # j)
  <2>1. \A k \in Loops \ {l}, i \in Jobs : InQueue(k, i)' <=> InQueue(k, i)
    BY <1>6 DEF InQueue
  <2>2. ASSUME NEW i \in Jobs, InQueue(l, i)' PROVE InQueue(l, i) /\ i # j
    <3>1. PICK m \in DOMAIN Tail(q) : Tail(q)[m] = i
      BY <1>6, <2>2 DEF InQueue
    <3>2. m + 1 \in DOMAIN q /\ q[m + 1] = i /\ m + 1 # 1
      BY <1>5, <3>1
    <3>3. 1 \in DOMAIN q
      BY <1>5
    <3>. QED
      BY <1>5, <1>8, <3>2, <3>3 DEF InQueue
  <2>3. ASSUME NEW i \in Jobs, InQueue(l, i), i # j PROVE InQueue(l, i)'
    <3>1. PICK m \in DOMAIN q : q[m] = i
      BY <2>3 DEF InQueue
    <3>2. m - 1 \in DOMAIN Tail(q) /\ Tail(q)[m - 1] = i
      BY <1>5, <2>3, <3>1
    <3>. QED
      BY <1>6, <3>2 DEF InQueue
  <2>. QED
    BY <2>1, <2>2, <2>3
<1>11. \A i \in Jobs \ {j} : Idling(i)' <=> Idling(i)
  <2>1. worker[x].job = NoJob
    BY <1>1, <1>4, JobFacts DEF Working
  <2>. QED
    BY <1>1, <1>4, <2>1, JobFacts DEF Idling, Turns
<1>12. \A y \in Pool : worker[y].job # j
  BY <1>9 DEF Idling
<1>13. \A i, m \in DOMAIN jobsCh'[l] : jobsCh'[l][i] = jobsCh'[l][m] => i = m
  <2>1. SUFFICES ASSUME NEW i \in DOMAIN Tail(q), NEW m \in DOMAIN Tail(q),
                        Tail(q)[i] = Tail(q)[m]
                 PROVE  i = m
    BY <1>6
  <2>2. i + 1 \in DOMAIN q /\ m + 1 \in DOMAIN q /\ q[i + 1] = q[m + 1]
    BY <1>5, <2>1
  <2>3. i + 1 = m + 1
    BY <1>8, <2>2
  <2>. QED
    BY <1>5, <2>3
<1> HIDE DEF q
<1>14. ASSUME NEW k \in Loops PROVE DispatcherJob(k)'
  <2>1. \A i \in Jobs : loop[k].job = i => i # j
    BY <1>7, <1>9 DEF JobInv, DispatcherJob
  <2>. QED
    BY <1>4, <1>10, <1>11, <2>1 DEF JobInv, DispatcherJob
<1>15. ASSUME NEW k \in Loops PROVE Queue(k)'
  <2>1. Received(k)' => Received(k)
    <3>1. \A v \in Workers : <<k, v>> \in Pool
      BY ActorFacts
    <3>. QED
      BY <1>4, <3>1 DEF Received, Turns
  <2>2. ASSUME ~ Exited(k) \/ Received(k), NEW i \in Jobs, InQueue(k, i)'
        PROVE  QueuedJob(k, i)'
    <3>1. QueuedJob(k, i)
      BY <1>10, <2>2 DEF JobInv, Queue
    <3>2. i # j
      BY <1>9, <1>10, <2>2, <3>1 DEF QueuedJob
    <3>. QED
      BY <1>4, <1>11, <3>1, <3>2 DEF QueuedJob, Exited
  <2>3. CASE k = l
    BY <1>4, <1>13, <2>1, <2>2, <2>3 DEF Queue, Exited
  <2>4. CASE k # l
    BY <1>4, <1>6, <2>1, <2>2, <2>4 DEF JobInv, Queue, Exited
  <2>. QED
    BY <2>3, <2>4
<1>16. ASSUME NEW k \in Loops PROVE ReleasedJobs(k)'
  BY <1>4 DEF JobInv, ReleasedJobs
<1>17. ASSUME NEW y \in Pool PROVE WorkerJob(y)'
  <2>1. \A i \in Jobs \ {j} : \A z \in Pool : worker'[z].job = i => worker[z].job = i /\ z # x
    BY <1>4 DEF Turns
  <2>2. CASE y = x
    <3>1. worker'[y].job = j /\ worker'[y].pc = "begin"
      BY <1>4, <2>2 DEF Turns
    <3>2. \A z \in Pool : worker'[z].job = j => z = x
      BY <1>4, <1>12 DEF Turns
    <3>. QED
      BY <1>1, <1>4, <1>9, <2>2, <3>1, <3>2, JobFacts DEF WorkerJob, Working
  <2>3. CASE y # x
    <3>1. worker'[y].job = worker[y].job /\ worker'[y].pc = worker[y].pc
      BY <1>4, <2>3 DEF Turns
    <3>. QED
      BY <1>4, <1>12, <2>1, <3>1 DEF JobInv, WorkerJob
  <2>. QED
    BY <2>2, <2>3
<1>18. ASSUME NEW a \in Auths PROVE CurrentJob(a)'
  <2>1. ASSUME NEW i \in Jobs, NEW k \in Loops, Placed(k, i) PROVE Placed(k, i)'
    <3>1. CASE i = j
      <4>1. \E y \in Pool : worker'[y].job = i
        BY <1>1, <1>4, <3>1 DEF Turns
      <4>. QED
        BY <4>1 DEF Placed
    <3>2. CASE i # j
      <4>1. worker[x].job = NoJob /\ NoJob # i
        BY <1>1, <1>4, JobFacts DEF Working
      <4>2. (\E y \in Pool : worker[y].job = i) => \E y \in Pool : worker'[y].job = i
        BY <1>4, <4>1 DEF Turns
      <4>. QED
        BY <1>4, <1>10, <2>1, <3>2, <4>2 DEF Placed, Exited
    <3>. QED
      BY <3>1, <3>2
  <2>. QED
    BY <1>4, <2>1 DEF JobInv, CurrentJob
<1>. QED
  BY <1>14, <1>15, <1>16, <1>17, <1>18, JobInvIs

\* Steps of a worker that keep its job, or leave it idle.
LEMMA WorkerKeepsJob ==
    ASSUME TypeOK, JobInv, NEW x \in Pool, NEW j \in Jobs \cup {NoJob}, NEW pc,
           j = worker[x].job, Turns(x, pc, j),
           pc \in Working <=> j # NoJob,
           pc \in {"refresh", "commit"} /\ j # NoJob =>
               job'[j].running /\ refreshJobs[job[j].auth] = j,
           worker[x].pc = "ended" => pc = "ended",
           UNCHANGED <<refreshJobs, jobsCh, loop>>,
           \A i \in Jobs : /\ job'[i].auth = job[i].auth /\ job'[i].loop = job[i].loop
                           /\ i # j => job'[i] = job[i]
    PROVE  JobInv'
<1>1. \A y \in Pool : worker'[y].job = worker[y].job /\ (y # x => worker'[y].pc = worker[y].pc)
  BY DEF Turns
<1>2. \A i \in Jobs : Idling(i)' <=> Idling(i)
  BY <1>1 DEF Idling
<1>3. \A k \in Loops, i \in Jobs : InQueue(k, i)' <=> InQueue(k, i)
  BY DEF InQueue
<1>4. \A i \in Jobs : Idling(i) => job'[i] = job[i]
  BY DEF Idling
<1>5. ASSUME NEW k \in Loops PROVE DispatcherJob(k)'
  BY <1>2, <1>3, <1>4 DEF JobInv, DispatcherJob
<1>6. ASSUME NEW k \in Loops PROVE Queue(k)'
  <2>1. \A i \in Jobs : QueuedJob(k, i) => QueuedJob(k, i)'
    BY <1>2, <1>4 DEF QueuedJob, Exited
  <2>2. Received(k)' => Received(k)
    <3>1. \A v \in Workers : <<k, v>> \in Pool
      BY ActorFacts
    <3>. QED
      BY <1>1, <3>1 DEF Received, Turns
  <2>. QED
    BY <1>3, <2>1, <2>2 DEF JobInv, Queue, Exited
<1>7. ASSUME NEW k \in Loops PROVE ReleasedJobs(k)'
  BY JobFacts DEF JobInv, ReleasedJobs
<1>8. ASSUME NEW y \in Pool PROVE WorkerJob(y)'
  <2>1. CASE y = x
    <3>1. worker'[y].pc = pc /\ worker'[y].job = j
      BY <2>1 DEF Turns
    <3>2. \A i \in Jobs : worker[x].job = i =>
             /\ job[i].loop = x[1] /\ job[i].auth \in Auths
             /\ \A z \in Pool : worker[z].job = i => x = z
      BY DEF JobInv, WorkerJob
    <3>. QED
      BY <1>1, <2>1, <3>1, <3>2, JobFacts DEF WorkerJob
  <2>2. CASE y # x
    <3>1. \A i \in Jobs : worker[y].job = i => i # j
      BY <2>2 DEF JobInv, WorkerJob
    <3>. QED
      BY <1>1, <2>2, <3>1 DEF JobInv, WorkerJob
  <2>. QED
    BY <2>1, <2>2
<1>9. ASSUME NEW a \in Auths PROVE CurrentJob(a)'
  <2>1. ASSUME NEW i \in Jobs, NEW k \in Loops, Placed(k, i) PROVE Placed(k, i)'
    <3>1. CASE i = j
      BY <1>1, <3>1 DEF Placed
    <3>2. CASE i # j
      BY <1>1, <1>3, <2>1, <3>2 DEF Placed, Exited
    <3>. QED
      BY <3>1, <3>2
  <2>. QED
    BY <2>1 DEF JobInv, CurrentJob
<1>. QED
  BY <1>5, <1>6, <1>7, <1>8, <1>9, JobInvIs

LEMMA WorkerFinishJobs ==
    ASSUME TypeOK, JobInv, NEW l \in Loops, NEW w \in Workers, WorkerFinish(l, w)
    PROVE  JobInv'
<1>0. WorkerJob(<<l, w>>) /\ <<l, w>> \in Pool
  BY ActorFacts DEF JobInv
<1>1. PICK x \in Pool : x = <<l, w>>
  BY <1>0
<1>2. PICK j \in Jobs : j = worker[x].job
  BY <1>0, <1>1, WorkerFinishIs
<1>3. PICK a \in Auths : a = job[j].auth
  BY <1>0, <1>1, <1>2, WorkerFinishIs
<1>4. /\ worker[x].pc = "finish" /\ Turns(x, "idle", NoJob)
      /\ \/ refreshJobs[a] = j /\ refreshJobs' = [refreshJobs EXCEPT ![a] = NoJob]
         \/ refreshJobs[a] # j /\ refreshJobs' = refreshJobs
      /\ Forgets(j)
      /\ UNCHANGED <<jobsCh, loop>>
  BY <1>0, <1>1, <1>2, <1>3, WorkerFinishIs DEF PoolFrame
<1>5. \A y \in Pool : worker[y].job = j => y = x
  BY <1>2 DEF JobInv, WorkerJob
<1>6. \A y \in Pool \ {x} : worker'[y].pc = worker[y].pc /\ worker'[y].job = worker[y].job
  BY <1>4 DEF Turns
<1>7. worker'[x].pc = "idle" /\ worker'[x].job = NoJob
  BY <1>4 DEF Turns
<1>8. \A i \in Jobs : Idling(i) => Idling(i)' /\ i # j
  BY <1>2, <1>6, <1>7, JobFacts DEF Idling
<1>9. \A k \in Loops, i \in Jobs : InQueue(k, i)' <=> InQueue(k, i)
  BY <1>4 DEF InQueue
<1>10. /\ \A i \in Jobs \ {j} : job'[i] = job[i]
       /\ \A k \in Loops : j \in loop[k].release => job'[j] = job[j]
  BY <1>4 DEF Forgets
<1>11. /\ \A b : \A i \in Jobs \ {j} : refreshJobs[b] = i => refreshJobs'[b] = i
       /\ \A b \in Auths : \A i \in Jobs : refreshJobs'[b] = i => refreshJobs[b] = i /\ i # j
  <2>1. refreshJobs \in [Auths -> Jobs \cup {NoJob}]
    BY DEF TypeOK, ManagerTypes
  <2>2. \A b \in Auths : refreshJobs[b] = j => b = a
    BY <1>3 DEF JobInv, CurrentJob
  <2>3. CASE refreshJobs[a] = j /\ refreshJobs' = [refreshJobs EXCEPT ![a] = NoJob]
    BY <2>1, <2>2, <2>3, JobFacts
  <2>4. CASE refreshJobs[a] # j /\ refreshJobs' = refreshJobs
    BY <2>2, <2>4
  <2>. QED
    BY <1>4, <2>3, <2>4
<1>12. ASSUME NEW k \in Loops PROVE DispatcherJob(k)'
  BY <1>4, <1>8, <1>9, <1>10, <1>11 DEF JobInv, DispatcherJob
<1>13. ASSUME NEW k \in Loops PROVE Queue(k)'
  <2>1. \A i \in Jobs : QueuedJob(k, i) => QueuedJob(k, i)'
    BY <1>4, <1>8, <1>10, <1>11 DEF QueuedJob, Exited
  <2>2. Received(k)' => Received(k)
    <3>1. \A v \in Workers : <<k, v>> \in Pool
      BY ActorFacts
    <3>. QED
      BY <1>4, <1>6, <3>1 DEF Received
  <2>. QED
    BY <1>4, <1>9, <2>1, <2>2 DEF JobInv, Queue, Exited
<1>14. ASSUME NEW k \in Loops PROVE ReleasedJobs(k)'
  <2>1. \A i \in loop[k].release : i \in Jobs /\ job'[i] = job[i]
    BY <1>10, JobFacts
  <2>. QED
    BY <1>4, <2>1 DEF JobInv, ReleasedJobs
<1>15. ASSUME NEW y \in Pool PROVE WorkerJob(y)'
  <2>1. CASE y = x
    BY <1>7, <2>1, JobFacts DEF WorkerJob, Working
  <2>2. CASE y # x
    <3>1. worker[y].job # j
      BY <1>5, <2>2
    <3>2. \A z \in Pool : \A i \in Jobs : worker'[z].job = i => worker[z].job = i
      BY <1>6, <1>7, JobFacts
    <3>. QED
      BY <1>6, <1>10, <1>11, <2>2, <3>1, <3>2 DEF JobInv, WorkerJob
  <2>. QED
    BY <2>1, <2>2
<1>16. ASSUME NEW b \in Auths PROVE CurrentJob(b)'
  <2>1. CurrentJob(b)
    BY DEF JobInv
  <2>2. ASSUME NEW i \in Jobs, i # j, NEW k \in Loops, Placed(k, i) PROVE Placed(k, i)'
    <3>1. (\E y \in Pool : worker[y].job = i) => \E y \in Pool : worker'[y].job = i
      BY <1>2, <1>6, <2>2
    <3>. QED
      BY <1>4, <1>9, <1>10, <2>2, <3>1 DEF Placed, Exited
  <2>. QED
    BY <1>10, <1>11, <2>1, <2>2 DEF CurrentJob
<1>. QED
  BY <1>12, <1>13, <1>14, <1>15, <1>16, JobInvIs

LEMMA WorkerJobsStep ==
    ASSUME TypeOK, JobInv, CommitInv, NEW l \in Loops, NEW w \in Workers,
           \/ TakeJob(l, w) \/ BeginJob(l, w) \/ RefreshRead(l, w) \/ WorkerFinish(l, w)
           \/ WorkerExit(l, w)
           \/ \E a \in Auths : CommitAction(l, w, a)
    PROVE  JobInv'
<1>0. WorkerJob(<<l, w>>) /\ <<l, w>> \in Pool
  BY ActorFacts DEF JobInv
<1>1. PICK x \in Pool : x = <<l, w>>
  BY <1>0
<1>2. PICK j \in Jobs \cup {NoJob} : j = worker[x].job
  BY JobFacts
<1>3. CASE BeginJob(l, w)
  <2>1. PICK pc \in {"refresh", "finish"} : pc = worker'[x].pc
    BY <1>0, <1>1, <1>3, BeginJobIs
  <2>2. /\ worker[x].pc = "begin" /\ j \in Jobs /\ Turns(x, pc, j)
        /\ pc = "refresh" => refreshJobs[job[j].auth] = j /\ job'[j].running
        /\ \A i \in Jobs : /\ job'[i].auth = job[i].auth /\ job'[i].loop = job[i].loop
                           /\ i # j => job'[i] = job[i]
        /\ UNCHANGED <<refreshJobs, jobsCh, loop>>
    BY <1>0, <1>1, <1>2, <1>3, <2>1, BeginJobIs DEF PoolFrame
  <2>3. pc \in Working /\ j # NoJob /\ pc # "commit"
    BY <2>1, <2>2, JobFacts DEF Working
  <2>. QED
    BY <1>2, <2>2, <2>3, WorkerKeepsJob
<1>4. ASSUME NEW pc \in {"commit", "finish"}, worker[x].pc \in {"refresh", "commit"},
             Turns(x, pc, j), UNCHANGED <<refreshJobs, jobsCh, loop, job>>
      PROVE  JobInv'
  <2>1. j \in Jobs /\ j # NoJob /\ pc \in Working
    BY <1>2, <1>4, JobFacts DEF Working
  <2>2. job'[j].running /\ refreshJobs[job[j].auth] = j
    BY <1>2, <1>4, <2>1 DEF JobInv, WorkerJob
  <2>. QED
    BY <1>2, <1>4, <2>1, <2>2, WorkerKeepsJob
<1>5. CASE RefreshRead(l, w)
  BY <1>1, <1>2, <1>4, <1>5, RefreshReadIs DEF PoolFrame
<1>6. ASSUME NEW a \in Auths, CommitAction(l, w, a) PROVE JobInv'
  BY <1>1, <1>2, <1>4, <1>6, CommitIs DEF PoolFrame
<1>7. CASE WorkerExit(l, w)
  <2>1. worker[x].pc = "idle" /\ Turns(x, "ended", j)
        /\ UNCHANGED <<refreshJobs, jobsCh, loop, job>>
    BY <1>1, <1>2, <1>7, WorkerExitIs DEF PoolFrame
  <2>2. j = NoJob /\ "ended" \notin Working
    BY <1>2, <2>1, JobFacts DEF Working
  <2>. QED
    BY <1>2, <2>1, <2>2, WorkerKeepsJob
<1>. QED
  BY <1>3, <1>5, <1>6, <1>7, TakeJobJobs, WorkerFinishJobs

LEMMA LoopJobsStep ==
    ASSUME TypeOK, JobInv, NEW l \in Loops, Dispatching(l),
           SelectStep(l) \/ LookStep(l) \/ JobStep(l) \/ LoopExit(l)
    PROVE  JobInv'
<1>1. DispatcherJob(l)
  BY DEF JobInv
<1>2. ASSUME loop[l].pc \in WithJob <=> loop'[l].pc \in WithJob,
             loop[l].pc \in {"release", "ended"} <=> loop'[l].pc \in {"release", "ended"},
             loop'[l].job = loop[l].job, loop'[l].release = loop[l].release,
             loop[l].pc \in WithJob => loop'[l].cur = loop[l].cur,
             \A k \in Loops \ {l} : loop'[k] = loop[k],
             ManagerStays, OthersStay, UNCHANGED jobsCh
      PROVE  JobInv'
  BY <1>2, JobsStay DEF Exited, ManagerStays, OthersStay
<1>3. ASSUME NEW a \in Auths, Rests(l, a), loop[l].pc \in {"each", "apply"},
             ManagerStays, OthersStay, UNCHANGED jobsCh
      PROVE  JobInv'
  <2>1. loop[l].job = NoJob
    BY <1>1, <1>3 DEF DispatcherJob, WithJob
  <2>. QED
    BY <1>2, <1>3, <2>1 DEF Rests, Moves, WithJob
<1>4. CASE LoopWake(l)
  BY <1>2, <1>4, LoopWakeIs DEF MovesTo, Moves, WithJob
<1>5. CASE Drain(l)
  BY <1>2, <1>5, DrainIs DEF Moves, WithJob
<1>6. ASSUME NEW due \in SUBSET heap[l], LoopTimer(l, due) PROVE JobInv'
  BY <1>2, <1>6, LoopTimerIs DEF Moves, WithJob
<1>7. CASE LoopEnds(l)
  BY <1>2, <1>7, LoopEndsIs DEF MovesTo, Moves, WithJob
<1>8. CASE Apply(l)
  BY <1>3, <1>8, ApplyIs
<1>9. CASE Reread(l)
  BY <1>2, <1>9, RereadIs DEF Moves, WithJob
<1>10. CASE MarkRefused(l)
  BY <1>2, <1>10, MarkRefusedIs DEF MovesTo, Moves, WithJob
<1>11. CASE EnqueueCheck(l)
  BY <1>2, <1>11, EnqueueCheckIs DEF MovesTo, Moves, WithJob
<1>12. ASSUME NEW a \in Auths, DirtyRead(l, a) PROVE JobInv'
  BY <1>2, <1>12, DirtyReadIs DEF Moves, WithJob
<1>13. ASSUME NEW a \in Auths, NEW needsRefresh \in BOOLEAN, DueRead(l, a, needsRefresh)
       PROVE  JobInv'
  <2>1. CASE Rests(l, a)
    BY <1>3, <1>13, <2>1, DueReadIs
  <2>2. CASE ~ Rests(l, a)
    BY <1>2, <1>13, <2>2, DueReadIs DEF Moves, WithJob
  <2>. QED
    BY <2>1, <2>2
<1>. QED
  BY <1>4, <1>5, <1>6, <1>7, <1>8, <1>9, <1>10, <1>11, <1>12, <1>13, LoopExitJobs,
     MarkPendingJobs, EnqueueJobs, EnqueueFailsJobs, ReleaseJobs
     DEF SelectStep, LookStep, JobStep

LEMMA StartJobs ==
    ASSUME TypeOK, JobInv, StarterInv, StartAutoRefresh \/ StopAutoRefresh \/ StartStep
    PROVE  JobInv'
<1>1. StartFrameStays
      /\ (loop' = loop \/ (/\ starter.loop \in Loops /\ loop[starter.loop].pc = "off"
                           /\ MovesTo(starter.loop, "idle")))
  <2>1. CASE Rebuild
    <3>1. starter.loop \in Loops /\ loop[starter.loop].pc = "off"
      BY <2>1 DEF Rebuild, StarterInv
    <3>. QED
      BY <2>1, <3>1, RebuildIs
  <2>. QED
    BY <2>1, StartAutoRefreshIs, StopAutoRefreshIs, CancelPreviousIs, PublishLoopIs,
       RebuildReadIs DEF StartStep
<1>. QED
  BY <1>1, JobsStay DEF StartFrameStays, MovesTo, Moves, WithJob, Exited

LEMMA OutsideJobs ==
    ASSUME TypeOK, JobInv,
           \/ \E x \in Actors : NoteStep(x)
           \/ \E c \in Clients : ClientStep(c) \/ ModifyStep(c)
           \/ \E a \in Auths : ThrottlePasses(a)
    PROVE  JobInv'
<1>1. ASSUME VersionsOnly \/ UNCHANGED worker, UNCHANGED <<refreshJobs, job, jobsCh, loop>>
      PROVE  JobInv'
  BY <1>1, JobsStay DEF VersionsOnly, Exited
<1>2. ASSUME NEW x \in Actors, NoteStep(x) PROVE JobInv'
  <2>1. UNCHANGED <<worker, refreshJobs, job, jobsCh, loop>>
    BY <1>2, NoteReadIs, QueueRescheduleIs, RemoveFromLoopIs
       DEF NoteStep, ManagerStays, LoopsStay
  <2>. QED
    BY <1>1, <2>1
<1>3. ASSUME NEW c \in Clients, ClientStep(c) \/ ModifyStep(c) PROVE JobInv'
  <2>1. (VersionsOnly \/ UNCHANGED worker) /\ UNCHANGED <<refreshJobs, job, jobsCh, loop>>
    BY <1>3, RegisterIs, RemoveAuthIs, ModifyReadIs, ModifyCommitIs, ExecutorIs
       DEF ClientStep, ModifyStep, ManagerStays, LoopsStay
  <2>. QED
    BY <1>1, <2>1
<1>4. ASSUME NEW a \in Auths, ThrottlePasses(a) PROVE JobInv'
  BY <1>1, <1>4, ThrottlePassesIs DEF LoopsStay
<1>. QED
  BY <1>2, <1>3, <1>4

LEMMA JobInvStep ==
    ASSUME IInv, Next
    PROVE  JobInv'
<1>1. TypeOK /\ JobInv /\ CommitInv /\ StarterInv /\ \A l \in Loops : Dispatching(l)
  BY DEF IInv, ControlInv
<1>. QED
  BY <1>1, StepKinds, LoopJobsStep, WorkerJobsStep, StartJobs, OutsideJobs

-----------------------------------------------------------------------------
(***************************************************************************)
(* What the goroutines are at                                              *)
(***************************************************************************)
LEMMA DispatchingStays ==
    ASSUME NEW k \in Loops, Dispatching(k), loop'[k] = loop[k], heap'[k] \subseteq heap[k],
           cancelled \subseteq cancelled'
    PROVE  Dispatching(k)'
BY DEF Dispatching, Exited

LEMMA LoopDispatching ==
    ASSUME TypeOK, JobInv, NEW l \in Loops, NEW k \in Loops, Dispatching(l), Dispatching(k),
           SelectStep(l) \/ LookStep(l) \/ JobStep(l) \/ LoopExit(l)
    PROVE  Dispatching(k)'
<1>1. DispatcherJob(l) /\ ReleasedJobs(l)
  BY DEF JobInv
<1>2. ASSUME k # l, \A i \in Loops \ {l} : loop'[i] = loop[i], UNCHANGED cancelled,
             \/ UNCHANGED heap
             \/ \E as : heap' = [heap EXCEPT ![l] = as]
      PROVE  Dispatching(k)'
  <2>1. heap'[k] = heap[k]
    BY <1>2 DEF TypeOK, LoopTypes
  <2>. QED
    BY <1>2, <2>1, DispatchingStays
<1>3. ASSUME loop'[l].pc \notin {"off", "release", "ended"},
             loop'[l].pc \in Looking => loop'[l].cur \in loop'[l].todo,
             loop'[l].pc \notin Looking => loop'[l].cur = NoAuth /\ loop'[l].decision = "none",
             loop'[l].pc \notin Looking \cup {"each"} => loop'[l].todo = {}
      PROVE  Dispatching(l)'
  BY <1>3 DEF Dispatching, Exited
<1>4. ASSUME NEW a \in Auths, Rests(l, a) PROVE Dispatching(l)'
  <2>1. "each" \notin Looking /\ "drain" \notin Looking /\ "idle" \notin Looking
    BY DEF Looking, WithJob
  <2>2. loop'[l].pc \in {"each", "drain", "idle"} /\ loop'[l].cur = NoAuth
        /\ loop'[l].decision = "none" /\ (loop'[l].pc = "each" <=> loop'[l].todo # {})
    BY <1>4 DEF Rests, Moves
  <2>. QED
    BY <1>3, <2>1, <2>2
<1>5. loop[l].pc \in Looking => loop[l].cur \in loop[l].todo
  BY DEF Dispatching
<1>6. loop[l].pc \notin Looking => loop[l].cur = NoAuth /\ loop[l].decision = "none"
  BY DEF Dispatching
<1>7. loop[l].pc \notin Looking \cup {"each"} => loop[l].todo = {}
  BY DEF Dispatching
<1>8. CASE LoopWake(l)
  BY <1>2, <1>3, <1>6, <1>7, <1>8, LoopWakeIs DEF MovesTo, Moves, Looking, WithJob, OthersStay
<1>9. CASE Drain(l)
  BY <1>2, <1>3, <1>6, <1>9, DrainIs DEF Moves, Looking, WithJob, OthersStay
<1>10. ASSUME NEW due \in SUBSET heap[l], LoopTimer(l, due) PROVE Dispatching(k)'
  <2>1. \E as : heap' = [heap EXCEPT ![l] = as]
    BY <1>10, LoopTimerIs
  <2>. QED
    BY <1>2, <1>3, <1>6, <1>10, <2>1, LoopTimerIs DEF Moves, Looking, WithJob, OthersStay
<1>11. CASE LoopExit(l)
  <2>1. k = l => Dispatching(k)'
    BY <1>6, <1>7, <1>11, LoopExitIs DEF Moves, Looking, WithJob, Dispatching, OthersStay
  <2>. QED
    BY <1>2, <1>11, <2>1, LoopExitIs DEF Moves, OthersStay
<1>12. CASE LoopEnds(l)
  <2>1. k = l => Dispatching(k)'
    BY <1>6, <1>7, <1>12, LoopEndsIs
       DEF MovesTo, Moves, Looking, WithJob, Dispatching, Exited, OthersStay
  <2>2. \E as : heap' = [heap EXCEPT ![l] = as]
    BY <1>12, LoopEndsIs
  <2>. QED
    BY <1>2, <1>12, <2>1, <2>2, LoopEndsIs DEF MovesTo, Moves, OthersStay
<1>13. ASSUME NEW a \in Auths, DirtyRead(l, a) PROVE Dispatching(k)'
  BY <1>2, <1>3, <1>13, DirtyReadIs DEF Moves, Looking, OthersStay
<1>14. ASSUME NEW a \in Auths, NEW needsRefresh \in BOOLEAN, DueRead(l, a, needsRefresh)
       PROVE  Dispatching(k)'
  <2>1. CASE Rests(l, a)
    BY <1>2, <1>4, <1>14, <2>1, DueReadIs DEF Rests, Moves, OthersStay
  <2>2. CASE ~ Rests(l, a)
    BY <1>2, <1>3, <1>14, <2>2, DueReadIs DEF Moves, Looking, OthersStay
  <2>. QED
    BY <2>1, <2>2
<1>15. CASE Apply(l)
  <2>1. UNCHANGED heap \/ \E as : heap' = [heap EXCEPT ![l] = as]
    BY <1>15, ApplyIs
  <2>. QED
    BY <1>2, <1>4, <1>15, <2>1, ApplyIs DEF Rests, Moves, OthersStay
<1>16. CASE Reread(l)
  BY <1>2, <1>3, <1>5, <1>16, RereadIs DEF Moves, Looking, OthersStay
<1>17. CASE MarkRefused(l)
  BY <1>2, <1>3, <1>5, <1>17, MarkRefusedIs DEF MovesTo, Moves, Looking, OthersStay
<1>18. CASE EnqueueCheck(l)
  BY <1>2, <1>3, <1>5, <1>18, EnqueueCheckIs DEF MovesTo, Moves, Looking, WithJob, OthersStay
<1>19. ASSUME NEW j \in Jobs, MarkPending(l, j) PROVE Dispatching(k)'
  BY <1>2, <1>3, <1>5, <1>19, MarkPendingIs DEF Moves, Looking, WithJob, OthersStay
<1>20. CASE Enqueue(l)
  BY <1>1, <1>2, <1>4, <1>20, EnqueueIs DEF Rests, Moves, OthersStay
<1>21. CASE EnqueueFails(l)
  BY <1>1, <1>2, <1>3, <1>5, <1>21, EnqueueFailsIs DEF Moves, Looking, WithJob, OthersStay
<1>22. ASSUME NEW j \in Jobs, Release(l, j) PROVE Dispatching(k)'
  <2>1. k = l => Dispatching(k)'
    BY <1>1, <1>6, <1>7, <1>22, ReleaseIs
       DEF Moves, Looking, WithJob, Dispatching, Exited, OthersStay
  <2>. QED
    BY <1>1, <1>2, <1>22, <2>1, ReleaseIs DEF Moves, OthersStay
<1>. QED
  BY <1>8, <1>9, <1>10, <1>11, <1>12, <1>13, <1>14, <1>15, <1>16, <1>17, <1>18, <1>19, <1>20,
     <1>21, <1>22 DEF SelectStep, LookStep, JobStep

LEMMA DispatchingStep ==
    ASSUME IInv, Next, NEW k \in Loops
    PROVE  Dispatching(k)'
<1>1. TypeOK /\ JobInv /\ StarterInv /\ CommitInv /\ \A l \in Loops : Dispatching(l)
  BY DEF IInv, ControlInv
<1>2. ASSUME UNCHANGED <<loop, heap, cancelled>> PROVE Dispatching(k)'
  BY <1>1, <1>2, DispatchingStays
<1>3. CASE StartAutoRefresh \/ PublishLoop \/ RebuildRead
  BY <1>1, <1>2, <1>3, StartAutoRefreshIs, PublishLoopIs, RebuildReadIs
<1>4. ASSUME NEW l \in Loops \cup {NoLoop}, Cancel(l), UNCHANGED loop PROVE Dispatching(k)'
  BY <1>1, <1>4, CancelIs, DispatchingStays
<1>5. CASE StopAutoRefresh \/ CancelPrevious
  BY <1>1, <1>4, <1>5, StopAutoRefreshIs, CancelPreviousIs
<1>6. CASE Rebuild
  <2>1. starter.loop \in Loops /\ loop[starter.loop].pc = "off"
    BY <1>1, <1>6 DEF Rebuild, StarterInv
  <2>2. k # starter.loop => loop'[k] = loop[k] /\ heap'[k] = heap[k] /\ cancelled' = cancelled
    BY <1>1, <1>6, <2>1, RebuildIs DEF MovesTo, Moves, TypeOK, LoopTypes
  <2>3. CASE k # starter.loop
    BY <1>1, <2>2, <2>3, DispatchingStays
  <2>4. CASE k = starter.loop
    BY <1>1, <1>6, <2>1, <2>4, RebuildIs
       DEF MovesTo, Moves, Dispatching, Exited, Looking, WithJob
  <2>. QED
    BY <2>3, <2>4
<1>7. ASSUME NEW l \in Loops, NEW w \in Workers,
             \/ TakeJob(l, w) \/ BeginJob(l, w) \/ RefreshRead(l, w) \/ WorkerFinish(l, w)
             \/ WorkerExit(l, w)
             \/ \E a \in Auths : CommitAction(l, w, a)
      PROVE  Dispatching(k)'
  <2>1. WorkerJob(<<l, w>>)
    BY <1>1, ActorFacts DEF JobInv
  <2>2. PoolFrame
    BY <1>1, <1>7, <2>1, TakeJobIs, BeginJobIs, RefreshReadIs, WorkerFinishIs, WorkerExitIs,
       CommitIs
  <2>. QED
    BY <1>2, <2>2 DEF PoolFrame
<1>8. ASSUME NEW x \in Actors, NoteStep(x) PROVE Dispatching(k)'
  <2>1. CASE NoteRead(x)
    BY <1>1, <1>2, <2>1, NoteReadIs DEF LoopsStay, StarterStays
  <2>2. ASSUME NEW a \in Auths, QueueReschedule(x, a) PROVE Dispatching(k)'
    BY <1>1, <1>2, <2>2, QueueRescheduleIs DEF StarterStays
  <2>3. ASSUME NEW a \in Auths, RemoveFromLoop(x, a) PROVE Dispatching(k)'
    <3>1. heap' = [heap EXCEPT ![note[x].loop] = @ \ {a}] /\ loop' = loop
          /\ cancelled' = cancelled
      BY <1>1, <2>3, RemoveFromLoopIs DEF StarterStays
    <3>2. heap'[k] \subseteq heap[k]
      BY <1>1, <3>1 DEF TypeOK, LoopTypes
    <3>. QED
      BY <1>1, <3>1, <3>2, DispatchingStays
  <2>. QED
    BY <1>8, <2>1, <2>2, <2>3 DEF NoteStep
<1>9. ASSUME NEW c \in Clients, ClientStep(c) \/ ModifyStep(c) PROVE Dispatching(k)'
  <2>1. LoopsStay /\ StarterStays
    BY <1>1, <1>9, RegisterIs, RemoveAuthIs, ModifyReadIs, ModifyCommitIs, ExecutorIs
       DEF ClientStep, ModifyStep
  <2>. QED
    BY <1>2, <2>1 DEF LoopsStay, StarterStays
<1>10. ASSUME NEW a \in Auths, ThrottlePasses(a) PROVE Dispatching(k)'
  BY <1>1, <1>2, <1>10, ThrottlePassesIs DEF LoopsStay, StarterStays
<1>. QED
  BY <1>1, <1>3, <1>5, <1>6, <1>7, <1>8, <1>9, <1>10, StepKinds, LoopDispatching DEF StartStep

\* What the steps of a dispatcher leave to the others.
SameStanding ==
    \A b \in Auths : /\ auth'[b].present = auth[b].present /\ auth'[b].epoch = auth[b].epoch
                     /\ auth'[b].ok = auth[b].ok

\* Dispatcher l may owe a notification then.
OwesAt(l) == loop[l].pc \in {"enqueue", "apply", "release"}

LEMMA LoopFacts ==
    ASSUME TypeOK, JobInv, NEW l \in Loops, Dispatching(l),
           SelectStep(l) \/ LookStep(l) \/ JobStep(l) \/ LoopExit(l)
    PROVE  /\ OthersStay /\ SameStanding
           /\ \A k \in Loops \ {l} : loop'[k] = loop[k]
           /\ loop[l].pc # "off" /\ loop'[l].pc # "off"
           /\ Free(Dispatcher(l)) \/ ~ OwesAt(l)
           /\ \/ note' = note
              \/ OwesAt(l)' /\ \E a \in Auths : note' = [note EXCEPT ![Dispatcher(l)] = Reschedule({a})]
           /\ \A x \in Pool : worker[x].job # NoJob => job'[worker[x].job] = job[worker[x].job]
           /\ \A a \in Auths :
                 loop'[l].cur = a /\ loop'[l].decision = "remove" =>
                     ~ Schedulable(a) \/ (loop[l].cur = a /\ loop[l].decision = "remove")
<1>1. DispatcherJob(l) /\ ReleasedJobs(l)
  BY DEF JobInv
<1>2. NoAuth \notin Auths
  BY AutoRefreshAssumption
<1>3. \A x \in Pool : worker[x].job \in Jobs \cup {NoJob}
  BY DEF TypeOK, ActorTypes, WorkerStates
<1>a. \A a : Decision(a) = "remove" => ~ Schedulable(a)
  BY DEF Decision
<1>. USE DEF OwesAt, SameStanding
<1>4. CASE LoopWake(l)
  BY <1>4, LoopWakeIs DEF MovesTo, Moves, ManagerStays
<1>5. CASE Drain(l)
  BY <1>5, DrainIs DEF Moves, ManagerStays
<1>7. CASE \E due \in SUBSET heap[l] : LoopTimer(l, due)
  BY <1>7, LoopTimerIs DEF Moves, ManagerStays
<1>8. CASE LoopExit(l)
  BY <1>8, LoopExitIs DEF Moves, ManagerStays
<1>9. CASE LoopEnds(l)
  BY <1>9, LoopEndsIs DEF MovesTo, Moves, ManagerStays
<1>10. CASE \E a \in Auths : DirtyRead(l, a)
  <2>1. PICK a \in Auths : DirtyRead(l, a)
    BY <1>10
  <2>. QED
    BY <1>a, <2>1, DirtyReadIs DEF Moves, ManagerStays
<1>11. CASE \E a \in Auths, needsRefresh \in BOOLEAN : DueRead(l, a, needsRefresh)
  <2>1. PICK a \in Auths, needsRefresh \in BOOLEAN : DueRead(l, a, needsRefresh)
    BY <1>11
  <2>2. CASE Rests(l, a)
    BY <1>2, <2>1, <2>2, DueReadIs DEF Rests, Moves, ManagerStays
  <2>3. CASE ~ Rests(l, a)
    BY <1>a, <2>1, <2>3, DueReadIs DEF Moves, ManagerStays
  <2>. QED
    BY <2>2, <2>3
<1>12. CASE Apply(l)
  BY <1>2, <1>12, ApplyIs DEF Rests, Moves, ManagerStays
<1>13. CASE Reread(l)
  BY <1>a, <1>13, RereadIs DEF Moves, ManagerStays
<1>14. CASE MarkRefused(l)
  BY <1>14, MarkRefusedIs DEF MovesTo, Moves, ManagerStays
<1>15. CASE EnqueueCheck(l)
  BY <1>15, EnqueueCheckIs DEF MovesTo, Moves, ManagerStays
<1>16. CASE \E j \in Jobs : j \in Unused /\ MarkPending(l, j)
  <2>1. PICK j \in Jobs : j \in Unused /\ MarkPending(l, j)
    BY <1>16
  <2>2. \A x \in Pool : worker[x].job # j
    BY <2>1 DEF Unused
  <2>3. \A x \in Pool : worker[x].job # NoJob => job'[worker[x].job] = job[worker[x].job]
    <3>1. \A i \in Jobs \ {j} : job'[i] = job[i]
      BY <2>1, MarkPendingIs
    <3>. QED
      BY <1>3, <2>2, <3>1
  <2>4. /\ loop[l].pc = "mark" /\ Moves(l, "enqueue", loop[l].todo, loop[l].cur, loop[l].decision, j, loop[l].release)
        /\ note' = [note EXCEPT ![Dispatcher(l)] = Reschedule({loop[l].cur})]
        /\ loop[l].cur \in Auths
        /\ SameStanding /\ OthersStay
    BY <2>1, MarkPendingIs
  <2>. QED
    BY <2>3, <2>4 DEF Moves
<1>17. CASE Enqueue(l)
  BY <1>1, <1>2, <1>17, EnqueueIs DEF Rests, Moves, ManagerStays
<1>18. CASE EnqueueFails(l)
  <2>1. \A x \in Pool : worker[x].job # loop[l].job
    BY <1>1, <1>18, EnqueueFailsIs DEF DispatcherJob, Idling
  <2>2. \A x \in Pool : worker[x].job # NoJob => job'[worker[x].job] = job[worker[x].job]
    BY <1>1, <1>3, <1>18, <2>1, EnqueueFailsIs DEF Forgets
  <2>. QED
    BY <1>1, <1>18, <2>2, EnqueueFailsIs DEF Moves
<1>19. CASE \E j \in Jobs : Release(l, j)
  BY <1>1, <1>19, ReleaseIs DEF Moves
<1>. QED
  BY <1>4, <1>5, <1>7, <1>8, <1>9, <1>10, <1>11, <1>12, <1>13, <1>14, <1>15, <1>16, <1>17, <1>18,
     <1>19 DEF SelectStep, LookStep, JobStep

\* What the steps of a worker leave to the others.
LEMMA WorkerFacts ==
    ASSUME TypeOK, JobInv, CommitInv, NEW l \in Loops, NEW w \in Workers,
           \/ TakeJob(l, w) \/ BeginJob(l, w) \/ RefreshRead(l, w) \/ WorkerFinish(l, w)
           \/ WorkerExit(l, w)
           \/ \E a \in Auths : CommitAction(l, w, a)
    PROVE  LET x == <<l, w>> IN
           /\ PoolFrame
           /\ \A y \in Pool \ {x} : /\ worker'[y].pc = worker[y].pc /\ worker'[y].job = worker[y].job
                                    /\ worker'[y].current => worker[y].current
           /\ worker'[x].pc # "commit" \/ Committing(x)'
           /\ Free(x) \/ worker[x].pc \notin {"idle", "finish"}
           /\ \/ note' = note
              \/ /\ worker'[x].pc \in {"idle", "finish"}
                 /\ \E a \in Auths : \/ note' = [note EXCEPT ![x] = Reschedule({a})]
                                     \/ note' = [note EXCEPT ![x] = Unschedule(a)] /\ ~ auth'[a].ok
           /\ \A b \in Auths : /\ auth'[b].present = auth[b].present
                               /\ auth'[b].epoch = auth[b].epoch
                               /\ auth'[b].ok => auth[b].ok
           /\ \A y \in Pool \ {x} : worker[y].pc = "commit" =>
                 LET i == worker[y].job IN
                 /\ job'[i].auth = job[i].auth /\ job'[i].epoch = job[i].epoch
                 /\ auth'[job[i].auth].ok = auth[job[i].auth].ok \/ auth'[job[i].auth].ok
<1> DEFINE x == <<l, w>>
<1>1. x \in Pool /\ WorkerJob(x)
  BY ActorFacts DEF JobInv
<1>2. ASSUME NEW y \in Pool, worker[y].pc = "commit"
      PROVE  /\ worker[y].job \in Jobs /\ job[worker[y].job].auth \in Auths
             /\ refreshJobs[job[worker[y].job].auth] = worker[y].job
             /\ \A z \in Pool : worker[z].job = worker[y].job => z = y
  <2>1. WorkerJob(y) /\ worker[y].job \in Jobs \cup {NoJob}
    BY DEF JobInv, TypeOK, ActorTypes, WorkerStates
  <2>2. worker[y].job \in Jobs
    BY <1>2, <2>1 DEF WorkerJob, Working
  <2>. QED
    BY <1>2, <2>1, <2>2 DEF WorkerJob
<1>3. ASSUME auth' = auth, job' = job
      PROVE  \A y \in Pool \ {x} : worker[y].pc = "commit" =>
                 LET i == worker[y].job IN
                 /\ job'[i].auth = job[i].auth /\ job'[i].epoch = job[i].epoch
                 /\ auth'[job[i].auth].ok = auth[job[i].auth].ok \/ auth'[job[i].auth].ok
  BY <1>3
<1>4. CASE TakeJob(l, w)
  BY <1>3, <1>4, TakeJobIs DEF Turns
<1>5. CASE WorkerExit(l, w)
  BY <1>3, <1>5, WorkerExitIs DEF Turns
<1>6. CASE BeginJob(l, w)
  BY <1>1, <1>2, <1>6, BeginJobIs DEF Turns
<1>7. CASE RefreshRead(l, w)
  <2>1. worker'[x].pc = "commit" => Committing(x)'
    BY <1>1, <1>7, RefreshReadIs DEF Turns, Committing, Schedulable
  <2>. QED
    BY <1>3, <1>7, <2>1, RefreshReadIs DEF Turns
<1>8. CASE WorkerFinish(l, w)
  <2>1. ASSUME NEW y \in Pool \ {x}, worker[y].pc = "commit"
        PROVE  job'[worker[y].job] = job[worker[y].job]
    <3>1. Forgets(worker[x].job) /\ worker[y].job # worker[x].job
      BY <1>1, <1>2, <1>8, <2>1, WorkerFinishIs
    <3>. QED
      BY <1>2, <2>1, <3>1 DEF Forgets
  <2>2. /\ PoolFrame /\ Turns(x, "idle", NoJob) /\ Free(x)
        /\ SameStanding
        /\ \/ note' = note
           \/ \E a \in Auths : note' = [note EXCEPT ![x] = Reschedule({a})]
    <3> DEFINE a == job[worker[x].job].auth
    <3>1. a \in Auths /\ (note' = note \/ note' = [note EXCEPT ![x] = Reschedule({a})])
      BY <1>1, <1>8, WorkerFinishIs
    <3>2. PoolFrame /\ Turns(x, "idle", NoJob) /\ Free(x) /\ SameStanding
      BY <1>1, <1>8, WorkerFinishIs DEF SameStanding
    <3> HIDE DEF a
    <3>. QED
      BY <3>1, <3>2
  <2>3. ASSUME NEW y \in Pool \ {x}, worker[y].pc = "commit"
        PROVE  LET i == worker[y].job IN auth'[job[i].auth].ok = auth[job[i].auth].ok
    BY <1>2, <2>2, <2>3 DEF SameStanding
  <2>. HIDE DEF x
  <2>. QED
    BY <2>1, <2>2, <2>3 DEF Turns, SameStanding, x
<1>9. ASSUME NEW a \in Auths, CommitAction(l, w, a)
      PROVE  /\ worker[x].pc = "commit" /\ a = job[worker[x].job].auth
             /\ Turns(x, "finish", worker[x].job)
             /\ Commits(x, a) /\ (auth'[a].ok => auth[a].ok \/ auth' = auth)
             /\ UNCHANGED <<refreshJobs, job, jobsCh>> /\ PoolFrame
  BY <1>9, CommitIs
<1>10. ASSUME NEW a \in Auths, CommitAction(l, w, a), NEW y \in Pool \ {x},
              worker[y].pc = "commit"
       PROVE  LET i == worker[y].job IN auth'[job[i].auth].ok = auth[job[i].auth].ok
  <2>1. job[worker[y].job].auth # a
    BY <1>1, <1>2, <1>9, <1>10
  <2>. QED
    BY <1>2, <1>9, <1>10, <2>1 DEF Commits
<1>11. CASE \E a \in Auths : CommitAction(l, w, a)
  <2>1. PICK a \in Auths : CommitAction(l, w, a)
    BY <1>11
  <2>. HIDE DEF x
  <2>2. PoolFrame /\ job' = job /\ worker[x].pc = "commit" /\ worker'[x].pc = "finish"
        /\ \A y \in Pool \ {x} : /\ worker'[y].pc = worker[y].pc /\ worker'[y].job = worker[y].job
                                 /\ worker'[y].current => worker[y].current
    BY <1>9, <2>1 DEF Turns
  <2>3. \A b \in Auths : /\ auth'[b].present = auth[b].present
                         /\ auth'[b].epoch = auth[b].epoch
                         /\ auth'[b].ok => auth[b].ok
    BY <1>9, <2>1 DEF Commits
  <2>4. \/ note' = note \/ note' = [note EXCEPT ![x] = Reschedule({a})]
        \/ note' = [note EXCEPT ![x] = Unschedule(a)] /\ ~ auth'[a].ok
    BY <1>9, <2>1 DEF Commits
  <2>. QED
    BY <1>10, <2>1, <2>2, <2>3, <2>4 DEF x
<1>. QED
  BY <1>4, <1>5, <1>6, <1>7, <1>8, <1>11

LEMMA StarterInvStays ==
    ASSUME StarterInv, TypeOK, StarterStays,
           \A l \in Loops : loop[l].pc = "off" => loop'[l].pc = "off"
    PROVE  StarterInv'
BY DEF StarterInv, StarterStays

LEMMA StarterInvStep ==
    ASSUME IInv, Next
    PROVE  StarterInv'
<1>1. TypeOK /\ JobInv /\ StarterInv /\ CommitInv /\ \A l \in Loops : Dispatching(l)
  BY DEF IInv, ControlInv
<1>2. /\ starter \in Starters /\ refreshLoop \in Loops \cup {NoLoop} /\ cancelled \subseteq Loops
      /\ starter.loop \in Nat /\ starter.prev \in Nat /\ Loops \subseteq Nat /\ NoLoop = 0
      /\ NoLoop \notin Loops
  <2>1. starter \in Starters /\ refreshLoop \in Loops \cup {NoLoop} /\ cancelled \subseteq Loops
    BY <1>1 DEF TypeOK, ManagerTypes
  <2>2. starter.loop \in Loops \cup {NoLoop} /\ starter.prev \in Loops \cup {NoLoop}
    BY <2>1 DEF Starters
  <2>3. starter.loop \in Nat /\ starter.prev \in Nat
    <3>1. \A l \in Loops \cup {NoLoop} : l \in Nat
      BY Numbers
    <3>. QED
      BY <2>2, <3>1
  <2>. QED
    BY <2>1, <2>3, Numbers
<1>3. CASE StartAutoRefresh
  BY <1>1, <1>2, <1>3, StartAutoRefreshIs DEF StarterInv
<1>4. CASE StopAutoRefresh
  <2>1. cancelled' = cancelled \cup {refreshLoop} /\ refreshLoop' = NoLoop /\ refreshLoop \in Loops
        /\ UNCHANGED <<starter, loop>>
    BY <1>1, <1>2, <1>4, StopAutoRefreshIs, CancelIs
  <2>. QED
    BY <1>1, <1>2, <2>1 DEF StarterInv
<1>5. CASE CancelPrevious
  <2>1. cancelled' = cancelled \cup ({starter.prev} \cap Loops)
        /\ starter.pc = "cancel" /\ starter'.pc = "publish" /\ starter'.loop = starter.loop
        /\ starter'.prev = NoLoop /\ UNCHANGED <<refreshLoop, loop>>
    BY <1>1, <1>2, <1>5, CancelPreviousIs, CancelIs
  <2>. QED
    BY <1>1, <1>2, <2>1 DEF StarterInv
<1>6. CASE PublishLoop
  BY <1>1, <1>2, <1>6, PublishLoopIs DEF StarterInv
<1>7. CASE RebuildRead
  BY <1>1, <1>2, <1>7, RebuildReadIs DEF StarterInv
<1>8. CASE Rebuild
  <2>1. starter.loop \in Loops
    BY <1>1, <1>8 DEF Rebuild, StarterInv
  <2>2. /\ starter'.pc = "idle" /\ starter'.loop = starter.loop /\ starter'.prev = starter.prev
        /\ starter.pc = "rebuild"
        /\ \A k \in Loops \ {starter.loop} : loop'[k] = loop[k]
        /\ UNCHANGED <<refreshLoop, cancelled>>
    BY <1>1, <1>8, <2>1, RebuildIs DEF MovesTo, Moves
  <2>. QED
    BY <1>1, <1>2, <2>1, <2>2 DEF StarterInv
<1>9. ASSUME NEW l \in Loops, SelectStep(l) \/ LookStep(l) \/ JobStep(l) \/ LoopExit(l)
      PROVE  StarterInv'
  BY <1>1, <1>9, LoopFacts, StarterInvStays DEF OthersStay, StarterStays
<1>10. ASSUME NEW l \in Loops, NEW w \in Workers,
              \/ TakeJob(l, w) \/ BeginJob(l, w) \/ RefreshRead(l, w) \/ WorkerFinish(l, w)
              \/ WorkerExit(l, w)
              \/ \E a \in Auths : CommitAction(l, w, a)
       PROVE  StarterInv'
  BY <1>1, <1>10, WorkerFacts, StarterInvStays DEF PoolFrame, StarterStays
<1>11. ASSUME NEW x \in Actors, NoteStep(x) PROVE StarterInv'
  <2>1. StarterStays /\ loop' = loop
    BY <1>1, <1>11, NoteReadIs, QueueRescheduleIs, RemoveFromLoopIs
       DEF NoteStep, ManagerStays, LoopsStay
  <2>. QED
    BY <1>1, <2>1, StarterInvStays
<1>12. ASSUME NEW c \in Clients, ClientStep(c) \/ ModifyStep(c) PROVE StarterInv'
  <2>1. StarterStays /\ loop' = loop
    BY <1>1, <1>12, RegisterIs, RemoveAuthIs, ModifyReadIs, ModifyCommitIs, ExecutorIs
       DEF ClientStep, ModifyStep, LoopsStay
  <2>. QED
    BY <1>1, <2>1, StarterInvStays
<1>13. ASSUME NEW a \in Auths, ThrottlePasses(a) PROVE StarterInv'
  BY <1>1, <1>13, ThrottlePassesIs, StarterInvStays DEF LoopsStay
<1>. QED
  BY <1>3, <1>4, <1>5, <1>6, <1>7, <1>8, <1>9, <1>10, <1>11, <1>12, <1>13, StepKinds
     DEF StartStep

\* What everybody but dispatchers and workers leaves to them.
LEMMA OutsideFacts ==
    ASSUME TypeOK, StarterInv,
           \/ StartAutoRefresh \/ StopAutoRefresh \/ StartStep
           \/ \E x \in Actors : NoteStep(x)
           \/ \E c \in Clients : ClientStep(c) \/ ModifyStep(c)
           \/ \E a \in Auths : ThrottlePasses(a)
    PROVE  /\ job' = job /\ refreshJobs' = refreshJobs
           /\ \A l \in Loops : /\ loop'[l].cur = loop[l].cur /\ loop'[l].decision = loop[l].decision
                               /\ loop'[l].todo = loop[l].todo
                               /\ OwesAt(l) => OwesAt(l)'
           /\ VersionsOnly
<1>1. worker' = worker => VersionsOnly
  BY DEF VersionsOnly, TypeOK, ActorTypes
<1>2. CASE StartAutoRefresh \/ StopAutoRefresh \/ StartStep
  <2>1. CASE Rebuild
    <3>1. starter.loop \in Loops /\ loop[starter.loop].pc = "off"
      BY <2>1 DEF Rebuild, StarterInv
    <3>. QED
      BY <1>1, <2>1, <3>1, RebuildIs DEF MovesTo, Moves, StartFrameStays, OwesAt
  <2>2. CASE ~ Rebuild
    <3>1. StartFrameStays /\ loop' = loop
      BY <1>2, <2>2, StartAutoRefreshIs, StopAutoRefreshIs, CancelPreviousIs, PublishLoopIs,
         RebuildReadIs DEF StartStep
    <3>. QED
      BY <1>1, <3>1 DEF StartFrameStays, OwesAt
  <2>. QED
    BY <2>1, <2>2
<1>3. ASSUME NEW x \in Actors, NoteStep(x)
      PROVE  UNCHANGED <<worker, refreshJobs, job, loop>>
  BY <1>3, NoteReadIs, QueueRescheduleIs, RemoveFromLoopIs
     DEF NoteStep, ManagerStays, LoopsStay
<1>4. ASSUME NEW c \in Clients, ClientStep(c) \/ ModifyStep(c)
      PROVE  (VersionsOnly \/ worker' = worker) /\ UNCHANGED <<refreshJobs, job, loop>>
  BY <1>4, RegisterIs, RemoveAuthIs, ModifyReadIs, ModifyCommitIs, ExecutorIs
     DEF ClientStep, ModifyStep, ManagerStays, LoopsStay
<1>5. ASSUME NEW a \in Auths, ThrottlePasses(a)
      PROVE  UNCHANGED <<worker, refreshJobs, job, loop>>
  BY <1>5, ThrottlePassesIs DEF LoopsStay
<1>. QED
  BY <1>1, <1>2, <1>3, <1>4, <1>5 DEF OwesAt

\* A goroutine's notification is the only one that changes, or all stay.
NotesStay(x) == note' \in [Actors -> Notes] /\ \A y \in Actors \ {x} : note'[y] = note[y]

LEMMA ModifyCommitEnds ==
    ASSUME TypeOK, NEW c \in Clients, NEW a \in Auths, NEW n \in BOOLEAN, ModifyCommit(c, a, n)
    PROVE  /\ client'[c].pc = "idle" /\ client'[c].cur = NoAuth
           /\ \A d \in Clients \ {c} : client'[d] = client[d]
           /\ note' = [note EXCEPT ![c] = Reschedule({a})]
<1>1. client' = [client EXCEPT ![c] = IdleClient] /\ client \in [Clients -> ClientStates]
  <2>1. client' = [client EXCEPT ![c] = IdleClient]
    BY ModifyCommitIs
  <2>. QED
    BY <2>1 DEF TypeOK, ActorTypes
<1>2. client'[c] = IdleClient /\ \A d \in Clients \ {c} : client'[d] = client[d]
  BY <1>1
<1>3. note' = [note EXCEPT ![c] = Reschedule({a})]
  BY ModifyCommitIs
<1>. QED
  BY <1>2, <1>3 DEF IdleClient

\* What the steps of a client leave to the others.
LEMMA ClientFacts ==
    ASSUME TypeOK, NEW c \in Clients, ClientStep(c) \/ ModifyStep(c)
    PROVE  /\ \A y \in Actors \ {c} : note'[y] = note[y]
           /\ \A d \in Clients \ {c} : client'[d] = client[d]
           /\ client'[c].pc = "modify" => note' = note /\ Free(c)
<1>1. note \in [Actors -> Notes] /\ client \in [Clients -> ClientStates]
  BY DEF TypeOK, ActorTypes
<1>2. CASE RegisterExecutor(c) \/ UnregisterExecutor(c)
  BY <1>1, <1>2, ExecutorIs
<1>3. ASSUME NEW a \in Auths, Register(c, a)
      PROVE  client' = client /\ client[c].pc = "idle" /\ \A y \in Actors \ {c} : note'[y] = note[y]
  BY <1>1, <1>3, RegisterIs
<1>4. ASSUME NEW a \in Auths, RemoveAuth(c, a)
      PROVE  client' = client /\ client[c].pc = "idle" /\ \A y \in Actors \ {c} : note'[y] = note[y]
  BY <1>1, <1>4, RemoveAuthIs
<1>5. ASSUME NEW a \in Auths, ModifyRead(c, a)
      PROVE  note' = note /\ Free(c) /\ \A d \in Clients \ {c} : client'[d] = client[d]
  BY <1>1, <1>5, ModifyReadIs
<1>6. ASSUME NEW a \in Auths, NEW n \in BOOLEAN, ModifyCommit(c, a, n)
      PROVE  /\ client'[c].pc = "idle" /\ \A d \in Clients \ {c} : client'[d] = client[d]
             /\ \A y \in Actors \ {c} : note'[y] = note[y]
  <2>1. note' = [note EXCEPT ![c] = Reschedule({a})]
    BY <1>6, ModifyCommitEnds
  <2>2. client'[c].pc = "idle" /\ \A d \in Clients \ {c} : client'[d] = client[d]
    BY <1>6, ModifyCommitEnds
  <2>. QED
    BY <1>1, <2>1, <2>2
<1>. QED
  BY <1>2, <1>3, <1>4, <1>5, <1>6 DEF ClientStep, ModifyStep

LEMMA NoteInvStep ==
    ASSUME IInv, Next, TypeOK'
    PROVE  NoteInv'
<1>1. /\ TypeOK /\ JobInv /\ StarterInv /\ CommitInv /\ NoteInv
      /\ \A l \in Loops : Dispatching(l)
  BY DEF IInv, ControlInv
<1>2. \A x \in Actors : Free(x)' <=> note'[x] = NoNote
  BY DEF Free
<1>3. ASSUME NEW l \in Loops, SelectStep(l) \/ LookStep(l) \/ JobStep(l) \/ LoopExit(l)
      PROVE  NoteInv'
  <2>1. /\ OthersStay /\ \A k \in Loops \ {l} : loop'[k] = loop[k]
        /\ Free(Dispatcher(l)) \/ ~ OwesAt(l)
        /\ \/ note' = note
           \/ OwesAt(l)' /\ \E a \in Auths : note' = [note EXCEPT ![Dispatcher(l)] = Reschedule({a})]
    BY <1>1, <1>3, LoopFacts
  <2>2. Free(Dispatcher(l))
    BY <1>1, <2>1 DEF NoteInv, OwesAt
  <2>3. \A x \in Actors \ {Dispatcher(l)} : note'[x] = note[x]
    BY <2>1 DEF TypeOK, ActorTypes
  <2>4. ASSUME NEW k \in Loops, ~ Free(Dispatcher(k))' PROVE OwesAt(k)'
    <3>1. CASE k = l
      BY <2>1, <2>2, <2>4, <3>1 DEF Free
    <3>2. CASE k # l
      BY <1>1, <2>1, <2>3, <2>4, <3>2, ActorFacts DEF Free, NoteInv, OwesAt
    <3>. QED
      BY <3>1, <3>2
  <2>5. \A x \in Pool \cup Clients : note'[x] = note[x]
    BY <2>3, ActorFacts
  <2>. QED
    BY <1>1, <2>1, <2>4, <2>5 DEF NoteInv, Free, OwesAt, OthersStay
<1>4. ASSUME NEW l \in Loops, NEW w \in Workers,
             \/ TakeJob(l, w) \/ BeginJob(l, w) \/ RefreshRead(l, w) \/ WorkerFinish(l, w)
             \/ WorkerExit(l, w)
             \/ \E a \in Auths : CommitAction(l, w, a)
      PROVE  NoteInv'
  <2> DEFINE x == <<l, w>>
  <2>1. /\ PoolFrame /\ \A y \in Pool \ {x} : worker'[y].pc = worker[y].pc
        /\ Free(x) \/ worker[x].pc \notin {"idle", "finish"}
        /\ \/ note' = note
           \/ /\ worker'[x].pc \in {"idle", "finish"}
              /\ \E a \in Auths : \/ note' = [note EXCEPT ![x] = Reschedule({a})]
                                  \/ note' = [note EXCEPT ![x] = Unschedule(a)]
    <3>1. PoolFrame /\ \A y \in Pool \ {x} : worker'[y].pc = worker[y].pc
      BY <1>1, <1>4, WorkerFacts
    <3>2. Free(x) \/ worker[x].pc \notin {"idle", "finish"}
      BY <1>1, <1>4, WorkerFacts
    <3>3. \/ note' = note
          \/ /\ worker'[x].pc \in {"idle", "finish"}
             /\ \E a \in Auths : \/ note' = [note EXCEPT ![x] = Reschedule({a})]
                                 \/ note' = [note EXCEPT ![x] = Unschedule(a)]
      <4>1. \/ note' = note
            \/ /\ worker'[x].pc \in {"idle", "finish"}
               /\ \E a \in Auths : \/ note' = [note EXCEPT ![x] = Reschedule({a})]
                                   \/ note' = [note EXCEPT ![x] = Unschedule(a)] /\ ~ auth'[a].ok
        BY <1>1, <1>4, WorkerFacts
      <4>. QED
        BY <4>1
    <3>. QED
      BY <3>1, <3>2, <3>3
  <2>2. x \in Pool /\ x \in Actors
    BY ActorFacts
  <2>. HIDE DEF x
  <2>3. Free(x)
    BY <1>1, <2>1, <2>2 DEF NoteInv
  <2>4. \A y \in Actors \ {x} : note'[y] = note[y]
    BY <2>1 DEF TypeOK, ActorTypes
  <2>5. ASSUME NEW y \in Pool, ~ Free(y)' PROVE worker'[y].pc \in {"idle", "finish"}
    <3>1. CASE y = x
      BY <2>1, <2>3, <2>5, <3>1 DEF Free
    <3>2. CASE y # x
      BY <1>1, <2>1, <2>4, <2>5, <3>2, ActorFacts DEF Free, NoteInv
    <3>. QED
      BY <3>1, <3>2
  <2>6. \A y \in Clients : note'[y] = note[y]
    BY <2>2, <2>4, ActorFacts
  <2>7. \A k \in Loops : note'[Dispatcher(k)] = note[Dispatcher(k)]
    BY <2>2, <2>4, ActorFacts
  <2>. QED
    BY <1>1, <2>1, <2>5, <2>6, <2>7 DEF NoteInv, Free, PoolFrame
<1>5. ASSUME \/ StartAutoRefresh \/ StopAutoRefresh \/ StartStep
             \/ \E x \in Actors : NoteStep(x)
             \/ \E c \in Clients : ClientStep(c) \/ ModifyStep(c)
             \/ \E a \in Auths : ThrottlePasses(a)
      PROVE  NoteInv'
  <2>1. /\ \A l \in Loops : OwesAt(l) => OwesAt(l)'
        /\ \A x \in Pool : worker'[x].pc = worker[x].pc
    BY <1>1, <1>5, OutsideFacts DEF VersionsOnly
  <2>2. ASSUME \A x \in Actors \ Clients : Free(x) => Free(x)',
               \A c \in Clients : client'[c].pc = "modify" => Free(c)'
        PROVE  NoteInv'
    BY <1>1, <2>1, <2>2, ActorFacts DEF NoteInv, OwesAt
  <2>3. CASE StartAutoRefresh \/ StopAutoRefresh \/ StartStep
    <3>1. note' = note /\ client' = client
      BY <1>1, <2>3, StartAutoRefreshIs, StopAutoRefreshIs, CancelPreviousIs, PublishLoopIs,
         RebuildReadIs DEF StartStep, StartFrameStays, Rebuild, StartFrame
    <3>. QED
      BY <1>1, <2>2, <3>1 DEF NoteInv, Free
  <2>4. ASSUME NEW x \in Actors, NoteStep(x) PROVE NoteInv'
    <3>1. ~ Free(x) /\ client' = client /\ \A y \in Actors \ {x} : note'[y] = note[y]
      BY <1>1, <2>4, NoteReadIs, QueueRescheduleIs, RemoveFromLoopIs
         DEF NoteStep, TypeOK, ActorTypes
    <3>2. \A y \in Actors : Free(y) => Free(y)'
      BY <3>1 DEF Free
    <3>. QED
      BY <1>1, <2>2, <3>1, <3>2, ActorFacts DEF NoteInv
  <2>5. ASSUME NEW c \in Clients, ClientStep(c) \/ ModifyStep(c) PROVE NoteInv'
    BY <1>1, <2>2, <2>5, ClientFacts, ActorFacts DEF NoteInv, Free
  <2>6. CASE \E a \in Auths : ThrottlePasses(a)
    <3>1. note' = note /\ client' = client
      BY <1>1, <2>6, ThrottlePassesIs
    <3>. QED
      BY <1>1, <2>2, <3>1 DEF NoteInv, Free
  <2>. QED
    BY <1>5, <2>3, <2>4, <2>5, <2>6
<1>. QED
  BY <1>3, <1>4, <1>5, StepKinds

\* Nobody but a client that holds the gate, or for whom it is free, makes a
\* credential good.
LEMMA GateInvStep ==
    ASSUME IInv, Next
    PROVE  GateInv'
<1>1. /\ TypeOK /\ JobInv /\ StarterInv /\ CommitInv /\ GateInv
      /\ \A l \in Loops : Dispatching(l)
  BY DEF IInv, ControlInv
<1>2. /\ \A c \in Clients : client[c].cur \in Auths \cup {NoAuth}
      /\ NoAuth \notin Auths
  BY <1>1, AutoRefreshAssumption DEF TypeOK, ActorTypes, ClientStates
<1>3. ASSUME client' = client, \A b \in Auths : auth'[b].ok => auth[b].ok PROVE GateInv'
  BY <1>1, <1>2, <1>3 DEF GateInv
<1>4. ASSUME NEW l \in Loops, SelectStep(l) \/ LookStep(l) \/ JobStep(l) \/ LoopExit(l)
      PROVE  GateInv'
  BY <1>1, <1>3, <1>4, LoopFacts DEF OthersStay, SameStanding
<1>5. ASSUME NEW l \in Loops, NEW w \in Workers,
             \/ TakeJob(l, w) \/ BeginJob(l, w) \/ RefreshRead(l, w) \/ WorkerFinish(l, w)
             \/ WorkerExit(l, w)
             \/ \E a \in Auths : CommitAction(l, w, a)
      PROVE  GateInv'
  BY <1>1, <1>3, <1>5, WorkerFacts DEF PoolFrame
<1>6. CASE StartAutoRefresh \/ StopAutoRefresh \/ StartStep
  <2>1. auth' = auth /\ client' = client
    BY <1>1, <1>6, StartAutoRefreshIs, StopAutoRefreshIs, CancelPreviousIs, PublishLoopIs,
       RebuildReadIs DEF StartStep, StartFrameStays, Rebuild, StartFrame, mgrVars
  <2>. QED
    BY <1>3, <2>1
<1>7. ASSUME NEW x \in Actors, NoteStep(x) PROVE GateInv'
  BY <1>1, <1>3, <1>7, NoteReadIs, QueueRescheduleIs, RemoveFromLoopIs
     DEF NoteStep, ManagerStays
<1>8. ASSUME NEW a \in Auths, ThrottlePasses(a) PROVE GateInv'
  BY <1>1, <1>3, <1>8, ThrottlePassesIs
<1>9. ASSUME NEW c \in Clients, RegisterExecutor(c) \/ UnregisterExecutor(c) PROVE GateInv'
  BY <1>1, <1>3, <1>9, ExecutorIs
<1>10. ASSUME NEW c \in Clients, NEW a \in Auths, Register(c, a) PROVE GateInv'
  <2>1. /\ client' = client /\ GateFree(a) /\ \A b \in Auths \ {a} : auth'[b] = auth[b]
    BY <1>1, <1>10, RegisterIs
  <2>. QED
    BY <1>1, <1>2, <2>1 DEF GateInv, GateFree
<1>11. ASSUME NEW c \in Clients, NEW a \in Auths, RemoveAuth(c, a) PROVE GateInv'
  BY <1>1, <1>3, <1>11, RemoveAuthIs
<1>12. ASSUME NEW c \in Clients, NEW a \in Auths, ModifyRead(c, a) PROVE GateInv'
  <2>1. /\ auth' = auth /\ GateFree(a) /\ \A d \in Clients \ {c} : client'[d] = client[d]
        /\ client'[c].pc = "modify" /\ client'[c].cur = a /\ client'[c].ok = auth[a].ok
    BY <1>1, <1>12, ModifyReadIs DEF ManagerStays
  <2>. QED
    BY <1>1, <1>2, <2>1 DEF GateInv, GateFree
<1>13. ASSUME NEW c \in Clients, NEW a \in Auths, NEW n \in BOOLEAN, ModifyCommit(c, a, n)
       PROVE  GateInv'
  <2>1. /\ client[c].cur = a /\ \A d \in Auths \ {a} : auth'[d] = auth[d]
    BY <1>1, <1>13, ModifyCommitIs
  <2>2. /\ \A d \in Clients \ {c} : client'[d] = client[d]
        /\ client'[c].pc = "idle" /\ client'[c].cur = NoAuth
    BY <1>1, <1>13, ModifyCommitEnds
  <2>. QED
    BY <1>1, <1>2, <2>1, <2>2 DEF GateInv
<1>. QED
  BY <1>4, <1>5, <1>6, <1>7, <1>8, <1>9, <1>10, <1>11, <1>12, <1>13, StepKinds
     DEF ClientStep, ModifyStep

LEMMA CommitInvStep ==
    ASSUME IInv, Next, NEW x \in Pool
    PROVE  Committing(x)'
<1>1. /\ TypeOK /\ JobInv /\ StarterInv /\ CommitInv /\ GateInv
      /\ \A l \in Loops : Dispatching(l)
  BY DEF IInv, ControlInv
<1> DEFINE i == worker[x].job
<1>2. worker[x].pc = "commit" => i \in Jobs /\ job[i].auth \in Auths
  <2>1. WorkerJob(x) /\ i \in Jobs \cup {NoJob}
    BY <1>1 DEF JobInv, TypeOK, ActorTypes, WorkerStates
  <2>. QED
    BY <2>1 DEF WorkerJob, Working
<1>3. Committing(x)
  BY <1>1 DEF CommitInv
<1>. HIDE DEF i
<1>4. ASSUME worker'[x].pc = worker[x].pc, worker'[x].job = i, worker'[x].current => worker[x].current,
             worker[x].pc = "commit" =>
                 /\ job'[i].auth = job[i].auth /\ job'[i].epoch = job[i].epoch
                 /\ worker'[x].current /\ auth'[job[i].auth].present => 
                       /\ auth[job[i].auth].present
                       /\ auth'[job[i].auth].epoch = auth[job[i].auth].epoch
                       /\ auth[job[i].auth].ok => auth'[job[i].auth].ok
      PROVE  Committing(x)'
  BY <1>2, <1>3, <1>4 DEF Committing, i
<1>5. ASSUME NEW l \in Loops, SelectStep(l) \/ LookStep(l) \/ JobStep(l) \/ LoopExit(l)
      PROVE  Committing(x)'
  <2>1. OthersStay /\ SameStanding /\ (i # NoJob => job'[i] = job[i])
    BY <1>1, <1>5, LoopFacts DEF i
  <2>. QED
    BY <1>2, <1>4, <2>1, Numbers DEF OthersStay, SameStanding, i
<1>6. ASSUME NEW l \in Loops, NEW w \in Workers,
             \/ TakeJob(l, w) \/ BeginJob(l, w) \/ RefreshRead(l, w) \/ WorkerFinish(l, w)
             \/ WorkerExit(l, w)
             \/ \E a \in Auths : CommitAction(l, w, a)
      PROVE  Committing(x)'
  <2>1. CASE x = <<l, w>>
    <3>1. worker'[x].pc # "commit" \/ Committing(x)'
      BY <1>1, <1>6, <2>1, WorkerFacts
    <3>. QED
      BY <3>1 DEF Committing
  <2>2. CASE x # <<l, w>>
    <3>1. /\ worker'[x].pc = worker[x].pc /\ worker'[x].job = i
          /\ worker'[x].current => worker[x].current
          /\ worker[x].pc = "commit" =>
                /\ job'[i].auth = job[i].auth /\ job'[i].epoch = job[i].epoch
                /\ auth'[job[i].auth].ok = auth[job[i].auth].ok \/ auth'[job[i].auth].ok
      <4>1. x \in Pool \ {<<l, w>>}
        BY <2>2
      <4>2. /\ worker'[x].pc = worker[x].pc /\ worker'[x].job = worker[x].job
            /\ worker'[x].current => worker[x].current
        BY <1>1, <1>6, <4>1, WorkerFacts
      <4>3. worker[x].pc = "commit" =>
                /\ job'[i].auth = job[i].auth /\ job'[i].epoch = job[i].epoch
                /\ auth'[job[i].auth].ok = auth[job[i].auth].ok \/ auth'[job[i].auth].ok
        BY <1>1, <1>6, <4>1, WorkerFacts DEF i
      <4>. QED
        BY <4>2, <4>3 DEF i
    <3>2. \A b \in Auths : auth'[b].present = auth[b].present /\ auth'[b].epoch = auth[b].epoch
      BY <1>1, <1>6, WorkerFacts
    <3>. QED
      BY <1>2, <1>4, <3>1, <3>2
  <2>. QED
    BY <2>1, <2>2
<1>7. ASSUME \/ StartAutoRefresh \/ StopAutoRefresh \/ StartStep
             \/ \E y \in Actors : NoteStep(y)
             \/ \E c \in Clients : ClientStep(c) \/ ModifyStep(c)
             \/ \E a \in Auths : ThrottlePasses(a)
      PROVE  Committing(x)'
  <2>1. job' = job /\ worker'[x].pc = worker[x].pc /\ worker'[x].job = i
        /\ (worker'[x].current => worker[x].current)
    BY <1>1, <1>7, OutsideFacts DEF VersionsOnly, i
  <2>2. ASSUME SameStanding PROVE Committing(x)'
    BY <1>2, <1>4, <2>1, <2>2 DEF SameStanding
  <2>3. CASE StartAutoRefresh \/ StopAutoRefresh \/ StartStep
    <3>1. auth' = auth
      BY <1>1, <2>3, StartAutoRefreshIs, StopAutoRefreshIs, CancelPreviousIs, PublishLoopIs,
         RebuildReadIs DEF StartStep, StartFrameStays, Rebuild, StartFrame, mgrVars
    <3>. QED
      BY <2>2, <3>1 DEF SameStanding
  <2>4. ASSUME NEW y \in Actors, NoteStep(y) PROVE Committing(x)'
    BY <1>1, <2>2, <2>4, NoteReadIs, QueueRescheduleIs, RemoveFromLoopIs
       DEF NoteStep, ManagerStays, SameStanding
  <2>5. ASSUME NEW a \in Auths, ThrottlePasses(a) PROVE Committing(x)'
    BY <1>1, <2>2, <2>5, ThrottlePassesIs DEF SameStanding
  <2>6. ASSUME NEW c \in Clients, RegisterExecutor(c) \/ UnregisterExecutor(c)
        PROVE  Committing(x)'
    BY <1>1, <2>2, <2>6, ExecutorIs DEF SameStanding
  <2>7. ASSUME NEW c \in Clients, NEW a \in Auths, ModifyRead(c, a) PROVE Committing(x)'
    BY <1>1, <2>2, <2>7, ModifyReadIs DEF ManagerStays, SameStanding
  <2>8. ASSUME NEW c \in Clients, NEW a \in Auths, Register(c, a) PROVE Committing(x)'
    <3>1. /\ \A b \in Auths \ {a} : auth'[b] = auth[b]
          /\ worker[x].pc = "commit" /\ job[i].auth = a => ~ worker'[x].current
      BY <1>1, <2>8, RegisterIs DEF i
    <3>. QED
      BY <1>2, <1>4, <2>1, <3>1
  <2>9. ASSUME NEW c \in Clients, NEW a \in Auths, RemoveAuth(c, a) PROVE Committing(x)'
    <3>1. \A b \in Auths \ {a} : auth'[b] = auth[b]
      BY <1>1, <2>9, RemoveAuthIs
    <3>2. ~ auth'[a].present
      BY <1>1, <2>9, RemoveAuthIs
    <3>. QED
      BY <1>2, <1>4, <2>1, <3>1, <3>2
  <2>10. ASSUME NEW c \in Clients, NEW a \in Auths, NEW n \in BOOLEAN, ModifyCommit(c, a, n)
         PROVE  Committing(x)'
    <3>1. /\ \A d \in Auths \ {a} : auth'[d] = auth[d]
          /\ auth'[a].present = auth[a].present /\ auth'[a].epoch = auth[a].epoch
          /\ client[c].cur = a
      BY <1>1, <2>10, ModifyCommitIs
    <3>2. auth[a].ok => auth'[a].ok
      <4>1. client[c].ok => auth'[a].ok
        BY <1>1, <2>10, ModifyCommitIs
      <4>2. a # NoAuth
        BY AutoRefreshAssumption
      <4>. QED
        BY <1>1, <3>1, <4>1, <4>2 DEF GateInv
    <3>. QED
      BY <1>2, <1>4, <2>1, <3>1, <3>2
  <2>. QED
    BY <1>7, <2>3, <2>4, <2>5, <2>6, <2>7, <2>8, <2>9, <2>10 DEF ClientStep, ModifyStep
<1>. QED
  BY <1>5, <1>6, <1>7, StepKinds

-----------------------------------------------------------------------------
(***************************************************************************)
(* Nothing is forgotten                                                    *)
(***************************************************************************)
\* Somebody is going to tell loop k of credential a.
Told(k, a) == \E x \in Actors : /\ note[x].kind = "reschedule" /\ a \in note[x].auths
                                /\ note[x].loop \in {NoLoop, k}

\* The loop, or a job, has it.
Held(k, a) == a \in heap[k] \/ a \in dirty[k] \/ a \in loop[k].todo \/ refreshJobs[a] # NoJob

Starting(k, a) == starter.loop = k /\ (starter.pc = "read" \/ a \in starter.entries)

LEMMA ScheduledIs ==
    ASSUME NEW k \in Loops, NEW a \in Auths, ~ RemovalUnderWay(a)
    PROVE  Scheduled(k, a) <=> Held(k, a) \/ Told(k, a) \/ Starting(k, a)
BY DEF Scheduled, Held, Told, Starting, RemovalUnderWay

LEMMA ToldIs ==
    ASSUME TypeOK, NEW k \in Loops, NEW a \in Auths, NEW x \in Actors,
           note' = [note EXCEPT ![x] = Reschedule({a})]
    PROVE  Told(k, a)'
<1>1. note'[x] = Reschedule({a})
  BY DEF TypeOK, ActorTypes
<1>. QED
  BY <1>1, Notifications DEF Told

\* Who is free to notify can take up a notification without losing another.
LEMMA ToldStays ==
    ASSUME NEW k, NEW a, NEW x \in Actors, Free(x), Told(k, a),
           \A y \in Actors \ {x} : note'[y] = note[y]
    PROVE  Told(k, a)'
<1>1. PICK y \in Actors : /\ note[y].kind = "reschedule" /\ a \in note[y].auths
                          /\ note[y].loop \in {NoLoop, k}
  BY DEF Told
<1>2. y # x
  BY <1>1, Notifications DEF Free
<1>. QED
  BY <1>1, <1>2 DEF Told

\* Only a registration, or a change, makes a credential schedulable, with a
\* notification, and as the schedules are told of no removal of it.
LEMMA GetsSchedulable ==
    ASSUME IInv, Next, NEW a \in Auths, ~ Schedulable(a), Schedulable(a)'
    PROVE  /\ Spaced => ~ RemovalUnderWay(a)
           /\ \E c \in Clients : note' = [note EXCEPT ![c] = Reschedule({a})]
<1>1. /\ TypeOK /\ JobInv /\ StarterInv /\ CommitInv /\ \A l \in Loops : Dispatching(l)
  BY DEF IInv, ControlInv
<1>2. ~ (auth'[a].present = auth[a].present /\ (auth'[a].ok => auth[a].ok))
  BY DEF Schedulable
<1>3. ASSUME NEW l \in Loops, SelectStep(l) \/ LookStep(l) \/ JobStep(l) \/ LoopExit(l)
      PROVE  FALSE
  BY <1>1, <1>2, <1>3, LoopFacts DEF SameStanding
<1>4. ASSUME NEW l \in Loops, NEW w \in Workers,
             \/ TakeJob(l, w) \/ BeginJob(l, w) \/ RefreshRead(l, w) \/ WorkerFinish(l, w)
             \/ WorkerExit(l, w)
             \/ \E b \in Auths : CommitAction(l, w, b)
      PROVE  FALSE
  BY <1>1, <1>2, <1>4, WorkerFacts
<1>5. ASSUME StartAutoRefresh \/ StopAutoRefresh \/ StartStep PROVE FALSE
  <2>1. auth' = auth
    BY <1>1, <1>5, StartAutoRefreshIs, StopAutoRefreshIs, CancelPreviousIs, PublishLoopIs,
       RebuildReadIs DEF StartStep, StartFrameStays, Rebuild, StartFrame, mgrVars
  <2>. QED
    BY <1>2, <2>1
<1>6. ASSUME NEW x \in Actors, NoteStep(x) PROVE FALSE
  BY <1>1, <1>2, <1>6, NoteReadIs, QueueRescheduleIs, RemoveFromLoopIs
     DEF NoteStep, ManagerStays
<1>7. ASSUME NEW b \in Auths, ThrottlePasses(b) PROVE FALSE
  BY <1>1, <1>2, <1>7, ThrottlePassesIs
<1>8. ASSUME NEW c \in Clients, RegisterExecutor(c) \/ UnregisterExecutor(c) PROVE FALSE
  BY <1>1, <1>2, <1>8, ExecutorIs
<1>9. ASSUME NEW c \in Clients, NEW b \in Auths, RemoveAuth(c, b) PROVE FALSE
  BY <1>1, <1>9, RemoveAuthIs DEF Schedulable
<1>10. ASSUME NEW c \in Clients, NEW b \in Auths, ModifyRead(c, b) PROVE FALSE
  BY <1>1, <1>2, <1>10, ModifyReadIs DEF ManagerStays
<1>11. ASSUME NEW c \in Clients, NEW b \in Auths, Register(c, b)
       PROVE  /\ Spaced => ~ RemovalUnderWay(a)
              /\ note' = [note EXCEPT ![c] = Reschedule({a})]
  <2>1. a = b
    BY <1>1, <1>2, <1>11, RegisterIs
  <2>. QED
    BY <1>1, <1>11, <2>1, RegisterIs
<1>12. ASSUME NEW c \in Clients, NEW b \in Auths, NEW n \in BOOLEAN, ModifyCommit(c, b, n)
       PROVE  /\ Spaced => ~ RemovalUnderWay(a)
              /\ note' = [note EXCEPT ![c] = Reschedule({a})]
  <2>1. a = b
    BY <1>1, <1>2, <1>12, ModifyCommitIs
  <2>. QED
    <3>1. (Spaced => ~ RemovalUnderWay(b)) /\ note' = [note EXCEPT ![c] = Reschedule({b})]
      BY <1>1, <1>12, ModifyCommitIs
    <3>. QED
      BY <2>1, <3>1
<1>. QED
  BY <1>3, <1>4, <1>5, <1>6, <1>7, <1>8, <1>9, <1>10, <1>11, <1>12, StepKinds
     DEF ClientStep, ModifyStep

\* Who sets about removing a credential has found it gone or rejected.
LEMMA GetsRemoved ==
    ASSUME IInv, Next, NEW a \in Auths, ~ RemovalUnderWay(a), RemovalUnderWay(a)'
    PROVE  ~ Schedulable(a)'
<1>1. /\ TypeOK /\ JobInv /\ StarterInv /\ CommitInv /\ \A l \in Loops : Dispatching(l)
  BY DEF IInv, ControlInv
<1>2. note \in [Actors -> Notes]
  BY <1>1 DEF TypeOK, ActorTypes
<1>3. \A x \in Actors : ~ (note[x].kind = "unschedule" /\ a \in note[x].auths)
  BY DEF RemovalUnderWay
<1>4. \A l \in Loops : ~ (loop[l].cur = a /\ loop[l].decision = "remove")
  BY DEF RemovalUnderWay
<1>5. ASSUME \A l \in Loops : ~ (loop'[l].cur = a /\ loop'[l].decision = "remove"),
             \A x \in Actors : note'[x].kind = "unschedule" => note'[x] = note[x]
      PROVE  FALSE
  BY <1>3, <1>5 DEF RemovalUnderWay
<1>6. ASSUME NEW x \in Actors, NEW as \in SUBSET Auths, NEW y \in Actors,
             \/ note' = note \/ note' = [note EXCEPT ![x] = NoNote]
             \/ note' = [note EXCEPT ![x] = Reschedule(as)]
      PROVE  note'[y].kind = "unschedule" => note'[y] = note[y]
  BY <1>2, <1>6, Notifications
<1>7. ASSUME NEW x \in Actors, NEW b \in Auths, NEW y \in Actors, b # a,
             note' = [note EXCEPT ![x] = Unschedule(b)]
      PROVE  ~ (note'[y].kind = "unschedule" /\ a \in note'[y].auths)
  <2>1. note'[y] = IF y = x THEN Unschedule(b) ELSE note[y]
    BY <1>2, <1>7
  <2>. QED
    BY <1>3, <1>7, <2>1, Notifications
<1>8. ASSUME NEW x \in Actors, NEW b \in Auths, UNCHANGED loop, b # a,
             note' = [note EXCEPT ![x] = Unschedule(b)]
      PROVE  FALSE
  BY <1>4, <1>7, <1>8 DEF RemovalUnderWay
<1>9. ASSUME NEW l \in Loops, SelectStep(l) \/ LookStep(l) \/ JobStep(l) \/ LoopExit(l),
             Schedulable(a)'
      PROVE  FALSE
  <2>1. /\ SameStanding /\ \A k \in Loops \ {l} : loop'[k] = loop[k]
        /\ loop'[l].cur = a /\ loop'[l].decision = "remove" =>
               ~ Schedulable(a) \/ (loop[l].cur = a /\ loop[l].decision = "remove")
        /\ \/ note' = note
           \/ \E b \in Auths : note' = [note EXCEPT ![Dispatcher(l)] = Reschedule({b})]
    BY <1>1, <1>9, LoopFacts
  <2>2. Schedulable(a)
    BY <1>9, <2>1 DEF SameStanding, Schedulable
  <2>3. \A k \in Loops : ~ (loop'[k].cur = a /\ loop'[k].decision = "remove")
    BY <1>4, <2>1, <2>2
  <2>4. \A x \in Actors : note'[x].kind = "unschedule" => note'[x] = note[x]
    <3>1. Dispatcher(l) \in Actors
      BY ActorFacts
    <3>2. \A b \in Auths : {b} \in SUBSET Auths
      OBVIOUS
    <3>. QED
      BY <1>6, <2>1, <3>1, <3>2
  <2>. QED
    BY <1>5, <2>3, <2>4
<1>10. ASSUME NEW l \in Loops, NEW w \in Workers,
              \/ TakeJob(l, w) \/ BeginJob(l, w) \/ RefreshRead(l, w) \/ WorkerFinish(l, w)
              \/ WorkerExit(l, w)
              \/ \E b \in Auths : CommitAction(l, w, b),
              Schedulable(a)'
       PROVE  FALSE
  <2>1. /\ PoolFrame
        /\ \/ note' = note
           \/ \E b \in Auths : \/ note' = [note EXCEPT ![<<l, w>>] = Reschedule({b})]
                               \/ note' = [note EXCEPT ![<<l, w>>] = Unschedule(b)] /\ ~ auth'[b].ok
    BY <1>1, <1>10, WorkerFacts
  <2>2. <<l, w>> \in Actors
    BY ActorFacts
  <2>3. loop' = loop
    BY <2>1 DEF PoolFrame
  <2>4. CASE note' = note \/ \E b \in Auths : note' = [note EXCEPT ![<<l, w>>] = Reschedule({b})]
    BY <1>4, <1>5, <1>6, <2>2, <2>3, <2>4
  <2>5. ASSUME NEW b \in Auths, note' = [note EXCEPT ![<<l, w>>] = Unschedule(b)], ~ auth'[b].ok
        PROVE  FALSE
    <3>1. b # a
      BY <1>10, <2>5 DEF Schedulable
    <3>. QED
      BY <1>8, <2>2, <2>3, <2>5, <3>1
  <2>. QED
    BY <2>1, <2>4, <2>5
<1>11. ASSUME \A l \in Loops : loop'[l].cur = loop[l].cur /\ loop'[l].decision = loop[l].decision,
              \E x \in Actors, as \in SUBSET Auths :
                 \/ note' = note \/ note' = [note EXCEPT ![x] = NoNote]
                 \/ note' = [note EXCEPT ![x] = Reschedule(as)]
       PROVE  FALSE
  BY <1>4, <1>5, <1>6, <1>11
<1>12. ASSUME StartAutoRefresh \/ StopAutoRefresh \/ StartStep PROVE FALSE
  <2>1. note' = note
    BY <1>1, <1>12, StartAutoRefreshIs, StopAutoRefreshIs, CancelPreviousIs, PublishLoopIs,
       RebuildReadIs DEF StartStep, StartFrameStays, Rebuild, StartFrame
  <2>2. \A l \in Loops : loop'[l].cur = loop[l].cur /\ loop'[l].decision = loop[l].decision
    BY <1>1, <1>12, OutsideFacts
  <2>. QED
    BY <1>4, <1>5, <2>1, <2>2
<1>13. ASSUME NEW x \in Actors, NoteStep(x) PROVE FALSE
  <2>1. loop' = loop
    BY <1>1, <1>13, NoteReadIs, QueueRescheduleIs, RemoveFromLoopIs DEF NoteStep, LoopsStay
  <2>2. \A y \in Actors \ {x} : note'[y] = note[y]
    BY <1>1, <1>2, <1>13, NoteReadIs, QueueRescheduleIs, RemoveFromLoopIs DEF NoteStep
  <2>3. CASE NoteRead(x)
    <3>1. ~ (note'[x].kind = "unschedule" /\ a \in note'[x].auths)
      BY <1>1, <1>3, <2>3, NoteReadIs, Notifications
    <3>. QED
      BY <1>3, <1>4, <2>1, <2>2, <3>1 DEF RemovalUnderWay
  <2>4. ASSUME NEW b \in Auths, QueueReschedule(x, b) PROVE FALSE
    <3>1. note[x].auths \ {b} \in SUBSET Auths
      BY <1>2 DEF Notes
    <3>2. note'[x].kind # "unschedule"
      BY <1>1, <2>4, <3>1, QueueRescheduleIs, Notifications
    <3>. QED
      BY <1>4, <1>5, <2>1, <2>2, <3>2
  <2>5. ASSUME NEW b \in Auths, RemoveFromLoop(x, b) PROVE FALSE
    BY <1>1, <1>11, <2>1, <2>5, RemoveFromLoopIs
  <2>. QED
    BY <1>13, <2>3, <2>4, <2>5 DEF NoteStep
<1>14. ASSUME NEW b \in Auths, ThrottlePasses(b) PROVE FALSE
  BY <1>1, <1>4, <1>5, <1>14, ThrottlePassesIs DEF LoopsStay
<1>15. ASSUME NEW c \in Clients, NEW b \in Auths, RemoveAuth(c, b), Schedulable(a)' PROVE FALSE
  <2>1. b # a /\ loop' = loop /\ note' = [note EXCEPT ![c] = Unschedule(b)]
    BY <1>1, <1>15, RemoveAuthIs DEF Schedulable, LoopsStay
  <2>. QED
    BY <1>8, <2>1, ActorFacts
<1>16. ASSUME NEW c \in Clients,
              \/ RegisterExecutor(c) \/ UnregisterExecutor(c)
              \/ \E b \in Auths : \/ Register(c, b) \/ ModifyRead(c, b)
                                  \/ \E n \in BOOLEAN : ModifyCommit(c, b, n)
       PROVE  FALSE
  <2>1. c \in Actors
    BY ActorFacts
  <2>2. CASE RegisterExecutor(c) \/ UnregisterExecutor(c)
    BY <1>1, <1>11, <2>1, <2>2, ExecutorIs DEF LoopsStay
  <2>3. ASSUME NEW b \in Auths, Register(c, b) PROVE FALSE
    <3>1. loop' = loop /\ note' = [note EXCEPT ![c] = Reschedule({b})]
      BY <1>1, <2>3, RegisterIs DEF LoopsStay
    <3>2. {b} \in SUBSET Auths
      OBVIOUS
    <3>. QED
      BY <1>11, <2>1, <3>1, <3>2
  <2>4. ASSUME NEW b \in Auths, ModifyRead(c, b) PROVE FALSE
    BY <1>1, <1>11, <2>1, <2>4, ModifyReadIs DEF LoopsStay
  <2>5. ASSUME NEW b \in Auths, NEW n \in BOOLEAN, ModifyCommit(c, b, n) PROVE FALSE
    <3>1. LoopsStay /\ note' = [note EXCEPT ![c] = Reschedule({b})]
      BY <1>1, <2>5, ModifyCommitIs
    <3>2. {b} \in SUBSET Auths
      OBVIOUS
    <3>. QED
      BY <1>11, <2>1, <3>1, <3>2 DEF LoopsStay
  <2>. QED
    BY <1>16, <2>2, <2>3, <2>4, <2>5
<1>. QED
  BY <1>9, <1>10, <1>12, <1>13, <1>14, <1>15, <1>16, StepKinds DEF ClientStep, ModifyStep

LEMMA RemovalInvStep ==
    ASSUME IInv, Next, Spaced, NEW a \in Auths, RemovalUnderWay(a)'
    PROVE  ~ Schedulable(a)'
<1>1. RemovalUnderWay(a) => ~ Schedulable(a)
  BY DEF IInv, RemovalInv
<1>. QED
  BY <1>1, GetsSchedulable, GetsRemoved

\* What the dispatcher of l takes a schedulable credential out of, be it for
\* its own loop k or another's, it puts it into the next place.
LEMMA LoopHolds ==
    ASSUME TypeOK, JobInv, NEW l \in Loops, NEW k \in Loops, Dispatching(l),
           SelectStep(l) \/ LookStep(l) \/ JobStep(l), l = k => ~ Exited(l),
           ~ Deaf(k), NEW a \in Auths, Schedulable(a), ~ RemovalUnderWay(a), Held(k, a)
    PROVE  Held(k, a)' \/ note' = [note EXCEPT ![Dispatcher(l)] = Reschedule({a})]
<1>1. DispatcherJob(l) /\ ReleasedJobs(l)
  BY DEF JobInv
<1>2. /\ heap \in [Loops -> SUBSET Auths] /\ dirty \in [Loops -> SUBSET Auths]
      /\ refreshJobs \in [Auths -> Jobs \cup {NoJob}] /\ NoJob \notin Jobs
  BY Numbers DEF TypeOK, LoopTypes, ManagerTypes
<1>3. ASSUME UNCHANGED <<heap, dirty, refreshJobs>>,
             a \in loop[l].todo => a \in loop'[l].todo,
             \A i \in Loops \ {l} : loop'[i] = loop[i]
      PROVE  Held(k, a)'
  BY <1>3 DEF Held
<1>4. CASE LoopWake(l)
  BY <1>3, <1>4, LoopWakeIs DEF MovesTo, Moves, ManagerStays
<1>5. CASE Drain(l)
  <2>1. /\ loop[l].todo = {}
        /\ loop'[l].todo = dirty[l] /\ \A i \in Loops \ {l} : loop'[i] = loop[i]
        /\ dirty' = [dirty EXCEPT ![l] = {}] /\ UNCHANGED <<heap, refreshJobs>>
    BY <1>5, DrainIs DEF Moves, ManagerStays, Dispatching, Looking, WithJob
  <2>. QED
    BY <1>2, <2>1 DEF Held
<1>6. ASSUME NEW due \in SUBSET heap[l], LoopTimer(l, due) PROVE Held(k, a)'
  <2>1. /\ loop[l].todo = {}
        /\ loop'[l].todo = due /\ \A i \in Loops \ {l} : loop'[i] = loop[i]
        /\ heap' = [heap EXCEPT ![l] = @ \ due] /\ UNCHANGED <<dirty, refreshJobs>>
    BY <1>6, LoopTimerIs DEF Moves, ManagerStays, Dispatching, Looking, WithJob
  <2>. QED
    BY <1>2, <2>1 DEF Held
<1>7. CASE LoopEnds(l)
  <2>1. /\ Exited(l) /\ \A i \in Loops \ {l} : loop'[i] = loop[i]
        /\ heap' = [heap EXCEPT ![l] = {}] /\ dirty' = [dirty EXCEPT ![l] = {}]
        /\ refreshJobs' = refreshJobs
    BY <1>7, LoopEndsIs DEF MovesTo, Moves, ManagerStays, Exited
  <2>. QED
    BY <1>2, <2>1 DEF Held
<1>8. ASSUME NEW b \in Auths, DirtyRead(l, b) PROVE Held(k, a)'
  BY <1>3, <1>8, DirtyReadIs DEF Moves, ManagerStays
<1>9. ASSUME NEW b \in Auths, NEW needsRefresh \in BOOLEAN, DueRead(l, b, needsRefresh)
      PROVE  Held(k, a)'
  <2>1. UNCHANGED <<heap, dirty, refreshJobs>>
    BY <1>9, DueReadIs DEF ManagerStays
  <2>2. CASE ~ auth[b].present /\ Rests(l, b)
    BY <1>3, <2>1, <2>2 DEF Rests, Moves, Schedulable
  <2>3. CASE ~ (~ auth[b].present /\ Rests(l, b))
    <3>1. /\ loop'[l].todo = loop[l].todo /\ \A i \in Loops \ {l} : loop'[i] = loop[i]
      BY <1>9, <2>3, DueReadIs DEF Moves
    <3>. QED
      BY <1>3, <2>1, <3>1
  <2>. QED
    BY <2>2, <2>3
<1>10. CASE Apply(l)
  <2> DEFINE b == loop[l].cur
  <2>1. /\ b \in Auths /\ loop'[l].todo = loop[l].todo \ {b}
        /\ \A i \in Loops \ {l} : loop'[i] = loop[i]
        /\ \/ /\ loop[l].decision = "upsert"
              /\ heap' = [heap EXCEPT ![l] = IF Deaf(l) THEN {} ELSE @ \cup {b}]
              /\ dirty' = dirty
           \/ /\ loop[l].decision = "remove"
              /\ heap' = [heap EXCEPT ![l] = @ \ {b}]
              /\ dirty' = [dirty EXCEPT ![l] = @ \ {b}]
        /\ refreshJobs' = refreshJobs
    BY <1>10, ApplyIs DEF Rests, Moves, ManagerStays
  <2>2. loop[l].decision = "remove" => b # a
    BY DEF RemovalUnderWay
  <2>. HIDE DEF b
  <2>. QED
    BY <1>2, <2>1, <2>2 DEF Held
<1>11. CASE Reread(l)
  BY <1>3, <1>11, RereadIs DEF Moves, ManagerStays
<1>12. CASE MarkRefused(l)
  BY <1>3, <1>12, MarkRefusedIs DEF MovesTo, Moves, ManagerStays
<1>13. CASE EnqueueCheck(l)
  BY <1>3, <1>13, EnqueueCheckIs DEF MovesTo, Moves, ManagerStays
<1>14. ASSUME NEW j \in Jobs, MarkPending(l, j) PROVE Held(k, a)'
  <2> DEFINE b == loop[l].cur
  <2>1. /\ b \in Auths /\ loop'[l].todo = loop[l].todo
        /\ \A i \in Loops \ {l} : loop'[i] = loop[i]
        /\ refreshJobs' = [refreshJobs EXCEPT ![b] = j] /\ UNCHANGED <<heap, dirty>>
    <3>1. /\ b \in Auths /\ Moves(l, "enqueue", loop[l].todo, b, loop[l].decision, j, loop[l].release)
          /\ refreshJobs' = [refreshJobs EXCEPT ![b] = j] /\ UNCHANGED <<heap, dirty>>
      BY <1>14, MarkPendingIs
    <3>. HIDE DEF b
    <3>. QED
      BY <3>1 DEF Moves
  <2>. HIDE DEF b
  <2>. QED
    BY <1>2, <2>1 DEF Held
<1>15. CASE Enqueue(l)
  <2> DEFINE b == loop[l].cur
  <2>1. /\ b \in Auths /\ loop'[l].todo = loop[l].todo \ {b}
        /\ \A i \in Loops \ {l} : loop'[i] = loop[i]
        /\ UNCHANGED <<heap, dirty, refreshJobs>>
    BY <1>1, <1>15, EnqueueIs DEF Rests, Moves, ManagerStays
  <2>2. refreshJobs[b] # NoJob
    BY <1>1, <1>2, <1>15, EnqueueIs DEF DispatcherJob
  <2>. HIDE DEF b
  <2>. QED
    BY <1>2, <2>1, <2>2 DEF Held
<1>16. CASE EnqueueFails(l)
  <2> DEFINE b == loop[l].cur
  <2>1. /\ b \in Auths /\ loop'[l].todo = loop[l].todo
        /\ \A i \in Loops \ {l} : loop'[i] = loop[i]
        /\ refreshJobs' = [refreshJobs EXCEPT ![b] = NoJob] /\ UNCHANGED <<heap, dirty>>
        /\ note' = [note EXCEPT ![Dispatcher(l)] = Reschedule({b})]
    BY <1>1, <1>16, EnqueueFailsIs DEF Moves
  <2>. HIDE DEF b
  <2>2. CASE b = a
    BY <2>1, <2>2
  <2>3. CASE b # a
    BY <1>2, <2>1, <2>3 DEF Held
  <2>. QED
    BY <2>2, <2>3
<1>17. ASSUME NEW j \in Jobs, Release(l, j)
       PROVE  Held(k, a)' \/ note' = [note EXCEPT ![Dispatcher(l)] = Reschedule({a})]
  <2> DEFINE b == job[j].auth
  <2>1. /\ b \in Auths /\ loop'[l].todo = loop[l].todo
        /\ \A i \in Loops \ {l} : loop'[i] = loop[i]
        /\ UNCHANGED <<heap, dirty>>
        /\ \/ /\ refreshJobs' = [refreshJobs EXCEPT ![b] = NoJob]
              /\ note' = [note EXCEPT ![Dispatcher(l)] = Reschedule({b})]
           \/ refreshJobs' = refreshJobs
    BY <1>1, <1>17, ReleaseIs DEF Moves
  <2>. HIDE DEF b
  <2>2. CASE refreshJobs' = refreshJobs
    BY <1>3, <2>1, <2>2
  <2>3. CASE b = a /\ refreshJobs' # refreshJobs
    BY <2>1, <2>3
  <2>4. CASE b # a /\ refreshJobs' # refreshJobs
    BY <1>2, <2>1, <2>4 DEF Held
  <2>. QED
    BY <2>2, <2>3, <2>4
<1>. QED
  BY <1>4, <1>5, <1>6, <1>7, <1>8, <1>9, <1>10, <1>11, <1>12, <1>13, <1>14, <1>15, <1>16, <1>17
     DEF SelectStep, LookStep, JobStep

\* A worker that has ended the credential's job says so.
LEMMA WorkerHolds ==
    ASSUME TypeOK, JobInv, CommitInv, NEW l \in Loops, NEW w \in Workers, NEW k \in Loops,
           \/ TakeJob(l, w) \/ BeginJob(l, w) \/ RefreshRead(l, w) \/ WorkerFinish(l, w)
           \/ WorkerExit(l, w)
           \/ \E b \in Auths : CommitAction(l, w, b),
           NEW a \in Auths, Held(k, a)
    PROVE  Held(k, a)' \/ note' = [note EXCEPT ![<<l, w>>] = Reschedule({a})]
<1>1. WorkerJob(<<l, w>>)
  BY ActorFacts DEF JobInv
<1>2. UNCHANGED <<loop, heap, dirty>>
  BY WorkerFacts DEF PoolFrame
<1>3. refreshJobs' = refreshJobs => Held(k, a)'
  BY <1>2 DEF Held
<1>4. CASE WorkerFinish(l, w)
  <2> DEFINE b == job[worker[<<l, w>>].job].auth
  <2>1. /\ b \in Auths
        /\ \/ /\ refreshJobs' = [refreshJobs EXCEPT ![b] = NoJob]
              /\ note' = [note EXCEPT ![<<l, w>>] = Reschedule({b})]
           \/ refreshJobs' = refreshJobs
    BY <1>1, <1>4, WorkerFinishIs
  <2>. HIDE DEF b
  <2>2. CASE b = a
    BY <1>3, <2>1, <2>2
  <2>3. CASE b # a
    BY <1>2, <1>3, <2>1, <2>3 DEF Held, TypeOK, ManagerTypes
  <2>. QED
    BY <2>2, <2>3
<1>5. CASE ~ WorkerFinish(l, w)
  BY <1>1, <1>3, <1>5, TakeJobIs, BeginJobIs, RefreshReadIs, WorkerExitIs, CommitIs
<1>. QED
  BY <1>4, <1>5

\* A notification moves on to the schedule of the loop that is published.
LEMMA NoteHolds ==
    ASSUME TypeOK, NEW x \in Actors, NEW k \in Loops, refreshLoop = k, ~ Deaf(k), NoteStep(x),
           NEW a \in Auths, ~ RemovalUnderWay(a), Held(k, a) \/ Told(k, a)
    PROVE  Held(k, a)' \/ Told(k, a)'
<1>1. /\ heap \in [Loops -> SUBSET Auths] /\ dirty \in [Loops -> SUBSET Auths]
      /\ note \in [Actors -> Notes] /\ NoLoop \notin Loops
  BY Numbers DEF TypeOK, LoopTypes, ActorTypes
<1>2. \A y \in Actors : ~ (note[y].kind = "unschedule" /\ a \in note[y].auths)
  BY DEF RemovalUnderWay
<1>3. /\ UNCHANGED <<loop, refreshJobs>>
      /\ \A y \in Actors \ {x} : note'[y] = note[y]
  BY <1>1, NoteReadIs, QueueRescheduleIs, RemoveFromLoopIs
     DEF NoteStep, ManagerStays, LoopsStay
<1>4. CASE NoteRead(x)
  <2>1. /\ UNCHANGED <<heap, dirty>>
        /\ note[x].loop = NoLoop /\ note'[x].loop = k
        /\ note'[x].kind = note[x].kind /\ note'[x].auths = note[x].auths
    BY <1>1, <1>4, NoteReadIs DEF LoopsStay
  <2>2. Held(k, a) => Held(k, a)'
    BY <1>3, <2>1 DEF Held
  <2>3. Told(k, a) => Told(k, a)'
    BY <1>3, <2>1 DEF Told
  <2>. QED
    BY <2>2, <2>3
<1>5. ASSUME NEW b \in Auths, QueueReschedule(x, b) PROVE Held(k, a)' \/ Told(k, a)'
  <2> DEFINE l == note[x].loop
  <2>1. /\ heap' = heap /\ note[x].kind = "reschedule" /\ b \in note[x].auths /\ l \in Loops
        /\ \/ ~ Deaf(l) /\ dirty' = [dirty EXCEPT ![l] = @ \cup {b}]
           \/ Deaf(l) /\ dirty' = dirty
        /\ \/ note'[x] = NoNote /\ note[x].auths = {b}
           \/ note'[x] = Reschedule(note[x].auths \ {b})
    BY <1>5, QueueRescheduleIs
  <2>. HIDE DEF l
  <2>2. Held(k, a) => Held(k, a)'
    BY <1>1, <1>3, <2>1 DEF Held
  <2>3. ASSUME Told(k, a) PROVE Held(k, a)' \/ Told(k, a)'
    <3>1. PICK y \in Actors : /\ note[y].kind = "reschedule" /\ a \in note[y].auths
                              /\ note[y].loop \in {NoLoop, k}
      BY <2>3 DEF Told
    <3>2. CASE y # x
      BY <1>3, <3>1, <3>2 DEF Told
    <3>3. CASE y = x /\ a = b
      <4>1. l = k
        BY <1>1, <2>1, <3>1, <3>3 DEF l
      <4>2. a \in dirty'[k]
        BY <1>1, <2>1, <3>3, <4>1
      <4>. QED
        BY <4>2 DEF Held
    <3>4. CASE y = x /\ a # b
      <4>1. note'[x] = Reschedule(note[x].auths \ {b}) /\ a \in note[x].auths \ {b}
        BY <2>1, <3>1, <3>4
      <4>2. note[x].auths \ {b} \in SUBSET Auths
        BY <1>1 DEF Notes
      <4>3. note'[x].kind = "reschedule" /\ a \in note'[x].auths /\ note'[x].loop = NoLoop
        BY <4>1, <4>2, Notifications
      <4>. QED
        BY <4>3 DEF Told
    <3>. QED
      BY <3>2, <3>3, <3>4
  <2>. QED
    BY <2>2, <2>3
<1>6. ASSUME NEW b \in Auths, RemoveFromLoop(x, b) PROVE Held(k, a)' \/ Told(k, a)'
  <2> DEFINE l == note[x].loop
  <2>1. /\ note[x].kind = "unschedule" /\ b \in note[x].auths /\ l \in Loops
        /\ heap' = [heap EXCEPT ![l] = @ \ {b}] /\ dirty' = [dirty EXCEPT ![l] = @ \ {b}]
    BY <1>6, RemoveFromLoopIs
  <2>2. b # a
    BY <1>2, <2>1
  <2>. HIDE DEF l
  <2>3. Held(k, a) => Held(k, a)'
    BY <1>1, <1>3, <2>1, <2>2 DEF Held
  <2>4. Told(k, a) => Told(k, a)'
    BY <1>3, <2>1 DEF Told
  <2>. QED
    BY <2>3, <2>4
<1>. QED
  BY <1>4, <1>5, <1>6 DEF NoteStep

LEMMA NotForgottenStep ==
    ASSUME IInv, Next, Spaced, TypeOK', RemovalInv',
           NEW a \in Auths, NEW k \in Loops, refreshLoop' = k, Schedulable(a)'
    PROVE  Scheduled(k, a)'
<1>1. /\ TypeOK /\ JobInv /\ StarterInv /\ CommitInv /\ NoteInv /\ RemovalInv
      /\ \A l \in Loops : Dispatching(l)
  BY DEF IInv, ControlInv
<1>3. ~ RemovalUnderWay(a)'
  BY DEF RemovalInv
<1>4. SUFFICES ASSUME ~ (Held(k, a)' \/ Told(k, a)' \/ Starting(k, a)') PROVE FALSE
  <2>1. Held(k, a)' \/ Told(k, a)' \/ Starting(k, a)' => Scheduled(k, a)'
    BY <1>3 DEF Scheduled, Held, Told, Starting, RemovalUnderWay
  <2>. QED
    BY <2>1
<1>5. \A x \in Actors : note' # [note EXCEPT ![x] = Reschedule({a})]
  BY <1>1, <1>4, ToldIs
<1>6. Schedulable(a)
  BY <1>5, GetsSchedulable, ActorFacts
<1>7. ~ PublishLoop
  BY <1>1, <1>4, PublishLoopIs DEF Starting
<1>8. ~ StartAutoRefresh /\ ~ StopAutoRefresh
  BY <1>1, StartAutoRefreshIs, StopAutoRefreshIs, Numbers
<1>9. refreshLoop = k
  <2>1. refreshLoop' = refreshLoop
    <3>1. ASSUME StartStep PROVE refreshLoop' = refreshLoop
      BY <1>1, <1>7, <3>1, CancelPreviousIs, RebuildReadIs DEF StartStep, Rebuild
    <3>2. ASSUME NEW l \in Loops, SelectStep(l) \/ LookStep(l) \/ JobStep(l) \/ LoopExit(l)
          PROVE  refreshLoop' = refreshLoop
      BY <1>1, <3>2, LoopFacts DEF OthersStay
    <3>3. ASSUME NEW l \in Loops, NEW w \in Workers,
                 \/ TakeJob(l, w) \/ BeginJob(l, w) \/ RefreshRead(l, w) \/ WorkerFinish(l, w)
                 \/ WorkerExit(l, w)
                 \/ \E b \in Auths : CommitAction(l, w, b)
          PROVE  refreshLoop' = refreshLoop
      BY <1>1, <3>3, WorkerFacts DEF PoolFrame
    <3>4. ASSUME NEW x \in Actors, NoteStep(x) PROVE refreshLoop' = refreshLoop
      BY <1>1, <3>4, NoteReadIs, QueueRescheduleIs, RemoveFromLoopIs
         DEF NoteStep, StarterStays
    <3>5. ASSUME NEW c \in Clients, ClientStep(c) \/ ModifyStep(c)
          PROVE  refreshLoop' = refreshLoop
      BY <1>1, <3>5, RegisterIs, RemoveAuthIs, ModifyReadIs, ModifyCommitIs, ExecutorIs
         DEF ClientStep, ModifyStep, StarterStays
    <3>6. ASSUME NEW b \in Auths, ThrottlePasses(b) PROVE refreshLoop' = refreshLoop
      BY <1>1, <3>6, ThrottlePassesIs DEF StarterStays
    <3>. QED
      BY <1>8, <3>1, <3>2, <3>3, <3>4, <3>5, <3>6, StepKinds
  <2>. QED
    BY <2>1
<1>10. /\ k \notin cancelled /\ k = starter.loop /\ starter.pc \notin {"cancel", "publish"}
       /\ NoLoop \notin Loops
  BY <1>1, <1>9, Numbers DEF StarterInv
<1>11. ~ Exited(k) /\ ~ Deaf(k)
  BY <1>1, <1>10 DEF Dispatching, Exited, Deaf
<1>12. ~ RemovalUnderWay(a)
  BY <1>1, <1>6 DEF RemovalInv
<1>13. Held(k, a) \/ Told(k, a) \/ Starting(k, a)
  <2>1. Scheduled(k, a)
    BY <1>6, <1>9, <1>10 DEF IInv, NotForgotten
  <2>. QED
    BY <1>12, <2>1, ScheduledIs
<1>14. ASSUME NEW x \in Actors, Free(x), \A y \in Actors \ {x} : note'[y] = note[y],
              Held(k, a) => Held(k, a)', starter' = starter
       PROVE  FALSE
  BY <1>4, <1>13, <1>14, ToldStays DEF Starting
<1>15. ASSUME NEW l \in Loops, SelectStep(l) \/ LookStep(l) \/ JobStep(l) \/ LoopExit(l)
       PROVE  FALSE
  <2>1. /\ OthersStay
        /\ Free(Dispatcher(l)) \/ ~ OwesAt(l)
        /\ \/ note' = note
           \/ \E b \in Auths : note' = [note EXCEPT ![Dispatcher(l)] = Reschedule({b})]
    BY <1>1, <1>15, LoopFacts
  <2>2. Dispatcher(l) \in Actors /\ Free(Dispatcher(l))
    BY <1>1, <2>1, ActorFacts DEF NoteInv, OwesAt
  <2>3. \A y \in Actors \ {Dispatcher(l)} : note'[y] = note[y]
    BY <1>1, <2>1 DEF TypeOK, ActorTypes
  <2>4. Held(k, a) => Held(k, a)'
    <3>1. CASE LoopExit(l)
      BY <1>1, <3>1, LoopExitIs DEF Moves, ManagerStays, Held
    <3>2. CASE ~ LoopExit(l)
      BY <1>1, <1>5, <1>6, <1>11, <1>12, <1>15, <2>2, <3>2, LoopHolds
    <3>. QED
      BY <3>1, <3>2
  <2>. QED
    BY <1>14, <2>1, <2>2, <2>3, <2>4 DEF OthersStay
<1>16. ASSUME NEW l \in Loops, NEW w \in Workers,
              \/ TakeJob(l, w) \/ BeginJob(l, w) \/ RefreshRead(l, w) \/ WorkerFinish(l, w)
              \/ WorkerExit(l, w)
              \/ \E b \in Auths : CommitAction(l, w, b)
       PROVE  FALSE
  <2> DEFINE x == <<l, w>>
  <2>1. x \in Actors /\ x \in Pool
    BY ActorFacts
  <2>2. /\ PoolFrame
        /\ Free(x) \/ worker[x].pc \notin {"idle", "finish"}
        /\ \/ note' = note
           \/ \E b \in Auths : \/ note' = [note EXCEPT ![x] = Reschedule({b})]
                               \/ note' = [note EXCEPT ![x] = Unschedule(b)] /\ ~ auth'[b].ok
    BY <1>1, <1>16, WorkerFacts
  <2>3. Held(k, a) => Held(k, a)'
    BY <1>1, <1>5, <1>16, <2>1, WorkerHolds
  <2>. HIDE DEF x
  <2>4. Free(x)
    BY <1>1, <2>1, <2>2 DEF NoteInv
  <2>5. \A y \in Actors \ {x} : note'[y] = note[y]
    BY <1>1, <2>2 DEF TypeOK, ActorTypes
  <2>. QED
    BY <1>14, <2>1, <2>2, <2>3, <2>4, <2>5 DEF PoolFrame
<1>17. ASSUME NEW x \in Actors, NoteStep(x) PROVE FALSE
  <2>1. starter' = starter
    BY <1>1, <1>17, NoteReadIs, QueueRescheduleIs, RemoveFromLoopIs DEF NoteStep, StarterStays
  <2>2. ~ (Held(k, a) \/ Told(k, a))
    BY <1>1, <1>4, <1>9, <1>11, <1>12, <1>17, NoteHolds
  <2>. QED
    BY <1>4, <1>13, <2>1, <2>2 DEF Starting
<1>18. ASSUME NEW c \in Clients, ClientStep(c) \/ ModifyStep(c) PROVE FALSE
  <2>1. LoopsStay /\ StarterStays /\ refreshJobs' = refreshJobs
    BY <1>1, <1>18, RegisterIs, RemoveAuthIs, ModifyReadIs, ModifyCommitIs, ExecutorIs
       DEF ClientStep, ModifyStep, ManagerStays
  <2>2. Free(c)
    <3>1. ASSUME NEW b \in Auths, NEW n \in BOOLEAN, ModifyCommit(c, b, n) PROVE Free(c)
      BY <1>1, <3>1 DEF NoteInv, ModifyCommit
    <3>. QED
      BY <1>1, <1>18, <3>1, RegisterIs, RemoveAuthIs, ModifyReadIs, ExecutorIs
         DEF ClientStep, ModifyStep
  <2>3. Held(k, a) => Held(k, a)'
    BY <2>1 DEF LoopsStay, Held
  <2>4. \A y \in Actors \ {c} : note'[y] = note[y]
    BY <1>1, <1>18, ClientFacts
  <2>. QED
    BY <1>14, <2>1, <2>2, <2>3, <2>4, ActorFacts DEF StarterStays
<1>19. ASSUME NEW b \in Auths, ThrottlePasses(b) PROVE FALSE
  <2>1. LoopsStay /\ StarterStays /\ refreshJobs' = refreshJobs /\ note' = note
    BY <1>1, <1>19, ThrottlePassesIs
  <2>. QED
    BY <1>4, <1>13, <2>1 DEF LoopsStay, StarterStays, Held, Told, Starting
<1>20. CASE RebuildRead
  <2>1. starter'.loop = starter.loop /\ a \in starter'.entries
    BY <1>1, <1>6, <1>20, RebuildReadIs
  <2>. QED
    BY <1>4, <1>10, <2>1 DEF Starting
<1>21. CASE Rebuild
  <2>1. starter.loop \in Loops /\ loop[starter.loop].pc = "off"
    BY <1>1, <1>21 DEF Rebuild, StarterInv
  <2>2. heap[k] = {}
    BY <1>1, <1>10, <2>1 DEF Dispatching
  <2>3. /\ starter.pc = "rebuild" /\ starter'.entries = {}
        /\ heap' = [heap EXCEPT ![k] = IF Deaf(k) THEN {} ELSE starter.entries]
        /\ MovesTo(k, "idle") /\ dirty' = dirty /\ note' = note /\ refreshJobs' = refreshJobs
    BY <1>1, <1>10, <1>21, <2>1, RebuildIs DEF StartFrameStays
  <2>4. heap'[k] = starter.entries
    BY <1>1, <1>11, <2>3 DEF TypeOK, LoopTypes
  <2>5. Told(k, a) => Told(k, a)'
    BY <2>3 DEF Told
  <2>6. Held(k, a) => Held(k, a)'
    BY <2>2, <2>3 DEF Held, MovesTo, Moves
  <2>7. Starting(k, a) => Held(k, a)'
    BY <2>3, <2>4 DEF Starting, Held
  <2>. QED
    BY <1>4, <1>13, <2>5, <2>6, <2>7
<1>22. ~ CancelPrevious
  BY <1>1, <1>10, CancelPreviousIs
<1>. QED
  BY <1>7, <1>8, <1>15, <1>16, <1>17, <1>18, <1>19, <1>20, <1>21, <1>22, StepKinds
     DEF StartStep

-----------------------------------------------------------------------------
(***************************************************************************)
(* The theorems                                                            *)
(***************************************************************************)
LEMMA InitIInv ==
    ASSUME Init
    PROVE  IInv
<1>1. \A l \in Loops : /\ loop[l] = IdleLoop /\ heap[l] = {} /\ dirty[l] = {} /\ jobsCh[l] = <<>>
                       /\ ~ wakeCh[l]
  BY DEF Init
<1>2. /\ \A x \in Pool : worker[x] = IdleWorker
      /\ \A x \in Actors : note[x] = NoNote
      /\ \A c \in Clients : client[c] = IdleClient
      /\ \A a \in Auths : refreshJobs[a] = NoJob
      /\ \A j \in Jobs : job[j] = NewJob
  BY DEF Init
<1>3. TypeOK
  <2>1. /\ Absent \in Credentials /\ Loaded \in Credentials
        /\ Absent.epoch \in Nat /\ Loaded.epoch \in Nat
    BY DEF Absent, Loaded, Credentials
  <2>2. auth \in [Auths -> Credentials] /\ epochs \in [Auths -> Nat]
    BY <2>1 DEF Init
  <2>3. IdleLoop \in LoopStates /\ IdleWorker \in WorkerStates /\ IdleClient \in ClientStates
        /\ NewJob \in JobObjects /\ <<>> \in Seq(Jobs)
    BY DEF IdleLoop, LoopStates, Outside, IdleWorker, WorkerStates, IdleClient, ClientStates,
           NewJob, JobObjects
  <2>4. starter \in Starters
    BY DEF Init, Starters
  <2>5. ManagerTypes
    BY <2>2, <2>3, <2>4 DEF Init, ManagerTypes
  <2>6. LoopTypes
    BY <2>3 DEF Init, LoopTypes
  <2>7. ActorTypes
    BY <2>3, Notifications DEF Init, ActorTypes
  <2>. QED
    BY <2>5, <2>6, <2>7 DEF TypeOK
<1>4. JobInv
  <2>1. \A l \in Loops : loop[l].job = NoJob /\ loop[l].pc = "off" /\ loop[l].release = {}
    BY <1>1 DEF IdleLoop
  <2>2. \A x \in Pool : worker[x].job = NoJob /\ worker[x].pc = "idle"
    BY <1>2 DEF IdleWorker
  <2>3. \A l \in Loops : DispatcherJob(l) /\ Queue(l) /\ ReleasedJobs(l)
    BY <1>1, <2>1, Numbers DEF DispatcherJob, WithJob, Queue, InQueue, ReleasedJobs
  <2>4. \A x \in Pool : WorkerJob(x)
    BY <2>2, Numbers DEF WorkerJob, Working
  <2>5. \A a \in Auths : CurrentJob(a)
    BY <1>2, Numbers DEF CurrentJob
  <2>. QED
    BY <2>3, <2>4, <2>5 DEF JobInv
<1>5. ControlInv
  <2>1. \A l \in Loops : Dispatching(l)
    BY <1>1 DEF Dispatching, IdleLoop, Looking, WithJob, Exited
  <2>2. StarterInv
    BY <1>1 DEF Init, StarterInv, IdleLoop
  <2>3. NoteInv
    BY <1>2, ActorFacts DEF NoteInv, Free
  <2>4. GateInv
    BY <1>2 DEF GateInv, IdleClient
  <2>5. CommitInv
    BY <1>2 DEF CommitInv, Committing, IdleWorker
  <2>. QED
    BY <2>1, <2>2, <2>3, <2>4, <2>5 DEF ControlInv
<1>6. RemovalInv
  <2>1. \A l \in Loops : loop[l].decision = "none"
    BY <1>1 DEF IdleLoop
  <2>. QED
    BY <1>2, <2>1, Notifications DEF RemovalInv, RemovalUnderWay
<1>7. NotForgotten
  BY DEF Init, NotForgotten
<1>. QED
  BY <1>3, <1>4, <1>5, <1>6, <1>7 DEF IInv

LEMMA IInvStep ==
    ASSUME IInv, [Next]_vars
    PROVE  IInv'
<1>1. CASE Next
  <2>1. TypeOK' /\ JobInv'
    BY <1>1, TypeStep, JobInvStep
  <2>2. ControlInv'
    BY <1>1, <2>1, DispatchingStep, StarterInvStep, NoteInvStep, GateInvStep, CommitInvStep
       DEF ControlInv, CommitInv
  <2>3. ASSUME Spaced PROVE RemovalInv' /\ NotForgotten'
    <3>1. RemovalInv'
      BY <1>1, <2>3, RemovalInvStep DEF RemovalInv
    <3>2. ASSUME NEW a \in Auths, refreshLoop' # NoLoop, Schedulable(a)'
          PROVE  Scheduled(refreshLoop, a)'
      <4>1. PICK k \in Loops : refreshLoop' = k
        BY <2>1, <3>2 DEF TypeOK, ManagerTypes
      <4>2. Scheduled(k, a)'
        BY <1>1, <2>1, <2>3, <3>1, <3>2, <4>1, NotForgottenStep
      <4>. QED
        BY <4>1, <4>2 DEF Scheduled
    <3>. QED
      BY <3>1, <3>2 DEF NotForgotten
  <2>. QED
    BY <2>1, <2>2, <2>3 DEF IInv
<1>2. CASE UNCHANGED vars
  <2>. USE <1>2 DEF vars, mgrVars, loopVars, boundVars
  <2>1. TypeOK'
    BY DEF IInv, TypeOK, ManagerTypes, LoopTypes, ActorTypes
  <2>2. JobInv'
    BY DEF IInv, JobInv, DispatcherJob, Queue, QueuedJob, ReleasedJobs, WorkerJob, CurrentJob,
           Placed, Exited, Received, InQueue, Idling
  <2>3. ControlInv'
    BY DEF IInv, ControlInv, Dispatching, StarterInv, NoteInv, GateInv, CommitInv, Committing,
           Free, Exited
  <2>4. RemovalInv => RemovalInv'
    BY DEF RemovalInv, RemovalUnderWay, Schedulable
  <2>5. NotForgotten => NotForgotten'
    BY DEF NotForgotten, Scheduled, Schedulable
  <2>. QED
    BY <2>1, <2>2, <2>3, <2>4, <2>5 DEF IInv
<1>. QED
  BY <1>1, <1>2

\* What follows is about every reachable state of the manager, its loops,
\* workers and clients.
THEOREM Invariance == Spec => []IInv
<1>1. Init => IInv
  BY InitIInv
<1>2. IInv /\ [Next]_vars => IInv'
  BY IInvStep
<1>. QED
  BY <1>1, <1>2, PTL DEF Spec

\* Every variable keeps its type, in every state: in particular the queue of a
\* loop holds jobs only, and a notification is for credentials of one loop.
THEOREM TypeCorrect == Spec => []TypeOK
<1>1. IInv => TypeOK
  BY DEF IInv
<1>. QED
  BY <1>1, Invariance, PTL

\* A job whose refresh runs is the current job of its credential, whatever
\* loops were started and stopped meanwhile, and a credential's current job is
\* with a dispatcher, a worker, in a queue that is received from or about to
\* be released: no phantom job keeps a credential from being refreshed.
THEOREM JobsAccounted == Spec => []JobsAccountedFor
<1>1. IInv => RunningJobIsCurrent
  <2>. SUFFICES ASSUME IInv, NEW x \in Pool, worker[x].pc \in {"refresh", "commit"}
                PROVE  refreshJobs[job[worker[x].job].auth] = worker[x].job
    BY DEF RunningJobIsCurrent
  <2>1. WorkerJob(x) /\ worker[x].job \in Jobs \cup {NoJob}
    BY DEF IInv, JobInv, TypeOK, ActorTypes, WorkerStates
  <2>2. worker[x].job \in Jobs
    BY <2>1 DEF WorkerJob, Working
  <2>. QED
    BY <2>1, <2>2 DEF WorkerJob
<1>2. IInv => NoPhantomJob
  <2>. SUFFICES ASSUME IInv, NEW a \in Auths, NEW j, j = refreshJobs[a], j # NoJob,
                       NEW l, l = job[j].loop
                PROVE  \/ loop[l].job = j
                       \/ \E x \in Pool : worker[x].job = j
                       \/ /\ InQueue(l, j)
                          /\ ~ Exited(l) \/ j \in loop[l].release \/ Received(l)
    BY DEF NoPhantomJob, InQueue, Exited, Received
  <2>1. j \in Jobs /\ CurrentJob(a)
    BY DEF IInv, JobInv, TypeOK, ManagerTypes
  <2>2. l \in Loops /\ Placed(l, j)
    BY <2>1 DEF CurrentJob
  <2>. QED
    BY <2>2 DEF Placed
<1>. QED
  BY <1>1, <1>2, Invariance, PTL DEF JobsAccountedFor

\* As long as nobody registers or changes a credential whose removal is still
\* on its way to the loop, the published loop does not lose sight of a
\* credential that it could refresh: it is in the heap, dirty, being looked
\* at, refreshed, about to be notified or about to be read by rebuild.
THEOREM NeverForgotten == ASSUME Spaced PROVE Spec => []NotForgotten
<1>1. IInv => NotForgotten
  BY DEF IInv
<1>. QED
  BY <1>1, Invariance, PTL

(***************************************************************************)
(* The watcher's updates                                                   *)
(***************************************************************************)
FileAuths == [c : Int, kind : {"none", "snapshot", "versioned", "invalid"}]
Updates == [action : {"none", "put", "delete"}, auth : FileAuths, rev : Nat, removal : BOOLEAN]
Registering == {"apply", "commit", "discard", "rereading", "delete", "register"}
ScanPcs == {"idle", "hashes", "rescan", "start", "read", "commit", "dispatch", "reread", "rereading"}
ScanStates == [pc : ScanPcs, force : BOOLEAN, rev : Nat, data : Int, upd : Updates,
               reread : BOOLEAN]
RescanPcs == {"free", "stat", "check", "read", "hash", "commit", "remove", "dispatch", "hashes"}
RescanOwners == {"free", "events"} \cup Scanners \cup Consumers
RescanStates == [owner : RescanOwners, pc : RescanPcs, data : Int, upd : Updates]
ConsumerPcs == {"idle", "write", "upsert", "persist", "dispatch", "arrive", "wait", "returned"}
                  \cup Registering
ConsumerStates == [pc : ConsumerPcs, c : Int, upd : Updates, waits : Nat]

FileTypes ==
    /\ disk \in Int /\ changes \in Nat /\ writer \in Int
    /\ events \in Seq({"write", "remove"}) /\ recent \in BOOLEAN

WatcherTypes ==
    /\ hash \in Int /\ index \in BOOLEAN
    /\ cur \in FileAuths /\ reload \in FileAuths
    /\ rev \in Nat /\ persisted \in Nat /\ seen \subseteq Scanners
    /\ rescan \in RescanStates /\ scan \in [Scanners -> ScanStates]
    /\ pend \in Updates /\ queue \in Seq(Updates)

ServiceTypes ==
    /\ mgr \in Int /\ saving \in Int
    /\ gate \in {"free", "saver"} \cup Consumers
    /\ updating \in {"free"} \cup Consumers
    /\ cons \in [Consumers -> ConsumerStates]
    /\ processed \in Nat /\ waiter \in Nat /\ registered \in Nat

DispatchTypeOK == FileTypes /\ WatcherTypes /\ ServiceTypes

\* In the consumers' states k somebody registers the models of revision r.
Claimed(k, r) == \E d \in Consumers : k[d].pc \in Registering /\ k[d].upd.rev = r

\* Who waits, waits for a revision no earlier than its own that is registered
\* up to n or being registered; who has returned has its own within n.
Served(k, n, c) ==
    /\ k[c].pc = "idle" => k[c].upd.rev = 0
    /\ k[c].pc = "wait" => k[c].waits >= k[c].upd.rev /\ (n >= k[c].waits \/ Claimed(k, k[c].waits))
    /\ k[c].pc = "returned" => n >= k[c].upd.rev

\* What is processed is registered, or the waiter's channel is that of the
\* consumer at it.
ClaimInv ==
    /\ waiter = 0 => registered >= processed
    /\ waiter # 0 => waiter = processed /\ Claimed(cons, waiter)
    /\ \A c \in Consumers : Served(cons, registered, c)

DispatchInv == DispatchTypeOK /\ ClaimInv

-----------------------------------------------------------------------------
LEMMA UpdateFacts ==
    /\ NilAuth \in FileAuths /\ NoUpdate \in Updates
    /\ NoUpdate.rev = 0
    /\ NoOne \in RescanStates /\ IdleScan \in ScanStates /\ IdleConsumer \in ConsumerStates
    /\ IdleConsumer.pc = "idle" /\ IdleConsumer.upd.rev = 0
    /\ \A c \in Int : Snapshot(c) \in FileAuths /\ Versioned(c) \in FileAuths
<1>1. NilAuth \in FileAuths
  BY DEF NilAuth, FileAuths
<1>2. NoUpdate \in Updates /\ NoUpdate.rev = 0
  BY <1>1 DEF NoUpdate, Updates
<1>. QED
  BY <1>1, <1>2 DEF NoOne, RescanStates, RescanPcs, RescanOwners, IdleScan, ScanStates, ScanPcs,
     IdleConsumer, ConsumerStates, ConsumerPcs, Registering, Snapshot, Versioned, FileAuths

LEMMA PutIs ==
    ASSUME rev \in Nat, NEW a \in FileAuths, NEW removal \in BOOLEAN
    PROVE  Put(a) \in Updates /\ Delete(removal) \in Updates
BY UpdateFacts DEF Put, Delete, Updates

LEMMA EventTypes ==
    ASSUME events \in Seq({"write", "remove"}), NEW op \in {"write", "remove"}
    PROVE  Notified(op) \in Seq({"write", "remove"})
BY DEF Notified

\* The ways in which a step moves the holder of authRescanMu.
LEMMA RescanStays ==
    /\ \A r \in RescanStates, pc \in RescanPcs : [r EXCEPT !.pc = pc] \in RescanStates
    /\ \A r \in RescanStates, pc \in RescanPcs, d \in Int :
          [r EXCEPT !.pc = pc, !.data = d] \in RescanStates
    /\ \A r \in RescanStates, pc \in RescanPcs, u \in Updates :
          [r EXCEPT !.pc = pc, !.upd = u] \in RescanStates
    /\ \A o \in RescanOwners, pc \in RescanPcs :
          [NoOne EXCEPT !.owner = o, !.pc = pc] \in RescanStates
    /\ \A o \in RescanOwners, pc \in RescanPcs, d \in Int :
          [NoOne EXCEPT !.owner = o, !.pc = pc, !.data = d] \in RescanStates
    /\ NoOne \in RescanStates
BY UpdateFacts DEF RescanStates

LEMMA DispatchTypes ==
    ASSUME WatcherTypes, NEW u \in Updates, dispatchAuthUpdates(u)
    PROVE  pend' \in Updates
BY DEF dispatchAuthUpdates, WatcherTypes

LEMMA ObserveTypes ==
    ASSUME WatcherTypes, observeAuthFile
    PROVE  hash' \in Int /\ seen' \subseteq Scanners
BY DEF observeAuthFile, WatcherTypes, ActiveScans, Stale

LEMMA WatcherFrame ==
    ASSUME DispatchTypeOK, FileTypes', UNCHANGED <<manager, service>>, WatcherTypes'
    PROVE  DispatchTypeOK' /\ UNCHANGED service
BY DEF DispatchTypeOK, ServiceTypes, manager, service

\* What the writers and the manager's saves do.
LEMMA FileStep ==
    ASSUME DispatchTypeOK,
           \/ BeginWrite \/ EndWrite \/ RemoveFile \/ WindowPasses
           \/ BeginSave \/ WriteSave \/ PublishSave
    PROVE  DispatchTypeOK' /\ UNCHANGED service
<1>. USE DEF Torn, NoFile
<1>1. FileTypes /\ saving \in Int
  BY DEF DispatchTypeOK, ServiceTypes
<1>2. ASSUME NEW op \in {"write", "remove"}, events' = Notified(op)
      PROVE  events' \in Seq({"write", "remove"})
  BY <1>1, <1>2, EventTypes DEF FileTypes
<1>3. ASSUME NEW n \in {1, 2}, Counted(n)
      PROVE  changes' \in Nat
  BY <1>1, <1>3 DEF FileTypes, Counted
<1>4. Fresh \in Int
  BY <1>1 DEF FileTypes, Fresh
<1>5. CASE BeginWrite
  BY <1>1, <1>2, <1>3, <1>4, <1>5
     DEF FileTypes, BeginWrite, DispatchTypeOK, WatcherTypes, ServiceTypes, state, pipe,
         manager, service
<1>6. CASE EndWrite
  BY <1>1, <1>2, <1>6 DEF FileTypes, EndWrite, DispatchTypeOK, WatcherTypes, ServiceTypes,
     state, pipe, manager, service
<1>7. CASE RemoveFile
  BY <1>1, <1>2, <1>3, <1>7 DEF FileTypes, RemoveFile, DispatchTypeOK, WatcherTypes, ServiceTypes,
     state, pipe, manager, service
<1>8. CASE WindowPasses
  BY <1>1, <1>8 DEF FileTypes, WindowPasses, DispatchTypeOK, WatcherTypes, ServiceTypes,
     state, pipe, manager, service
<1>9. CASE BeginSave
  BY <1>1, <1>2, <1>3, <1>4, <1>9
     DEF FileTypes, BeginSave, DispatchTypeOK, WatcherTypes, ServiceTypes, state, pipe,
         manager, service
<1>10. CASE WriteSave
  BY <1>1, <1>2, <1>10 DEF FileTypes, WriteSave, DispatchTypeOK, WatcherTypes, ServiceTypes,
     state, pipe, manager, service
<1>11. CASE PublishSave
  BY <1>1, <1>11 DEF FileTypes, PublishSave, DispatchTypeOK, WatcherTypes, ServiceTypes,
     files, state, pipe, manager, service
<1>. QED
  BY <1>5, <1>6, <1>7, <1>8, <1>9, <1>10, <1>11

\* The event goroutine and whoever reads a file under authRescanMu.
LEMMA RescannerStep ==
    ASSUME DispatchTypeOK, HandleEvent \/ Rescanner \/ DispatchLoop
    PROVE  DispatchTypeOK' /\ UNCHANGED service
<1>1. FileTypes /\ WatcherTypes
  BY DEF DispatchTypeOK
<1>2. /\ rescan \in RescanStates /\ rescan.upd \in Updates /\ rescan.data \in Int
      /\ rev \in Nat /\ rev + 1 \in Nat /\ hash \in Int /\ disk \in Int
  BY <1>1 DEF WatcherTypes, FileTypes, RescanStates
<1>3. ActiveScans \subseteq Scanners
  BY DEF ActiveScans
<1>4. CASE HandleEvent
  <2>1. events' \in Seq({"write", "remove"})
    BY <1>1, <1>4 DEF HandleEvent, FileTypes
  <2>2. rescan' = rescan \/ (\E pc \in RescanPcs : rescan' = [NoOne EXCEPT !.owner = "events", !.pc = pc])
    BY <1>4 DEF HandleEvent, RescanPcs
  <2>3. rescan' \in RescanStates
    <3>1. "events" \in RescanOwners
      BY DEF RescanOwners
    <3>. QED
      BY <1>2, <2>2, <3>1, RescanStays
  <2>4. hash' \in Int /\ seen' \subseteq Scanners
    BY <1>1, <1>4, ObserveTypes DEF HandleEvent
  <2>5. FileTypes'
    BY <1>1, <1>4, <2>1 DEF HandleEvent, FileTypes
  <2>6. WatcherTypes'
    BY <1>1, <1>4, <2>3, <2>4 DEF HandleEvent, WatcherTypes, pipe
  <2>. QED
    BY <1>4, <2>5, <2>6, WatcherFrame DEF HandleEvent
<1>5. CASE StatAfterRemove
  <2>1. rescan' \in RescanStates
    <3>1. \/ rescan' = [rescan EXCEPT !.pc = "check"] \/ rescan' = [rescan EXCEPT !.pc = "remove"]
          \/ rescan' = NoOne
      BY <1>5 DEF StatAfterRemove
    <3>. QED
      BY <1>2, <3>1, RescanStays DEF RescanPcs
  <2>2. FileTypes' /\ WatcherTypes'
    BY <1>1, <1>5, <2>1 DEF StatAfterRemove, WatcherTypes, FileTypes, files, state, pipe
  <2>. QED
    BY <1>5, <2>2, WatcherFrame DEF StatAfterRemove
<1>6. CASE CheckFile
  <2>1. rescan' \in RescanStates
    <3>1. rescan' = [rescan EXCEPT !.pc = "read"] \/ rescan' = NoOne
      BY <1>6 DEF CheckFile
    <3>. QED
      BY <1>2, <3>1, RescanStays DEF RescanPcs
  <2>2. hash' \in Int /\ seen' \subseteq Scanners
    BY <1>1, <1>6, ObserveTypes DEF CheckFile, WatcherTypes
  <2>3. FileTypes' /\ WatcherTypes'
    BY <1>1, <1>6, <2>1, <2>2 DEF CheckFile, WatcherTypes, FileTypes, files, pipe
  <2>. QED
    BY <1>6, <2>3, WatcherFrame DEF CheckFile
<1>7. CASE ReadFile
  <2>1. rescan' \in RescanStates
    <3>1. rescan' = [rescan EXCEPT !.pc = "hash", !.data = disk] \/ rescan' = NoOne
      BY <1>7 DEF ReadFile
    <3>2. "hash" \in RescanPcs
      BY DEF RescanPcs
    <3>3. [rescan EXCEPT !.pc = "hash", !.data = disk] \in RescanStates
      BY <1>2, <3>2, RescanStays
    <3>. QED
      BY <3>1, <3>3, RescanStays
  <2>2. FileTypes' /\ WatcherTypes'
    BY <1>1, <1>7, <2>1 DEF ReadFile, WatcherTypes, FileTypes, files, state, pipe
  <2>. QED
    BY <1>7, <2>2, WatcherFrame DEF ReadFile
<1>8. CASE CacheHash
  <2>1. rescan' \in RescanStates
    <3>1. rescan' = [rescan EXCEPT !.pc = "commit"] \/ rescan' = NoOne
      BY <1>8 DEF CacheHash
    <3>2. "commit" \in RescanPcs
      BY DEF RescanPcs
    <3>. QED
      BY <1>2, <3>1, <3>2, RescanStays
  <2>2. hash' \in Int
    BY <1>2, <1>8 DEF CacheHash
  <2>3. FileTypes' /\ WatcherTypes'
    BY <1>1, <1>8, <2>1, <2>2 DEF CacheHash, WatcherTypes, FileTypes, files, pipe
  <2>. QED
    BY <1>8, <2>3, WatcherFrame DEF CacheHash
<1>9. CASE CommitFile
  <2>1. Snapshot(rescan.data) \in FileAuths
    BY <1>2, UpdateFacts
  <2>2. Put(Snapshot(rescan.data)) \in Updates
    BY <1>2, <2>1, PutIs
  <2>3. rescan' \in RescanStates
    <3>1. \/ rescan' = NoOne
          \/ rescan' = [rescan EXCEPT !.pc = "dispatch", !.upd = Put(Snapshot(rescan.data))]
      BY <1>9 DEF CommitFile
    <3>2. "dispatch" \in RescanPcs
      BY DEF RescanPcs
    <3>3. ASSUME NEW u \in Updates
          PROVE  [rescan EXCEPT !.pc = "dispatch", !.upd = u] \in RescanStates
      BY <1>2, <3>2, RescanStays
    <3>4. [rescan EXCEPT !.pc = "dispatch", !.upd = Put(Snapshot(rescan.data))] \in RescanStates
      BY <2>2, <3>3
    <3>. QED
      BY <3>1, <3>4, RescanStays
  <2>4. cur' \in FileAuths /\ rev' \in Nat /\ persisted' \in Nat /\ index' \in BOOLEAN
    BY <1>2, <1>9, <2>1 DEF CommitFile
  <2>5. FileTypes' /\ WatcherTypes'
    BY <1>1, <1>9, <2>3, <2>4 DEF CommitFile, WatcherTypes, FileTypes, files, pipe
  <2>. QED
    BY <1>9, <2>5, WatcherFrame DEF CommitFile
<1>10. CASE CommitRemoval
  <2>1. Delete(TRUE) \in Updates
    BY <1>2, UpdateFacts, PutIs
  <2>2. rescan' \in RescanStates
    <3>1. \/ rescan' = NoOne
          \/ rescan' = [rescan EXCEPT !.pc = "dispatch", !.upd = Delete(TRUE)]
      BY <1>10 DEF CommitRemoval
    <3>2. "dispatch" \in RescanPcs
      BY DEF RescanPcs
    <3>3. ASSUME NEW u \in Updates
          PROVE  [rescan EXCEPT !.pc = "dispatch", !.upd = u] \in RescanStates
      BY <1>2, <3>2, RescanStays
    <3>4. [rescan EXCEPT !.pc = "dispatch", !.upd = Delete(TRUE)] \in RescanStates
      BY <2>1, <3>3
    <3>. QED
      BY <3>1, <3>4, RescanStays
  <2>3. seen' \subseteq Scanners
    BY <1>1, <1>3, <1>10 DEF CommitRemoval, WatcherTypes
  <2>4. hash' \in Int /\ index' \in BOOLEAN
    <3>1. hash' = 0
      BY <1>10 DEF CommitRemoval, Unknown
    <3>2. index' \in BOOLEAN
      BY <1>10, Zenon DEF CommitRemoval
    <3>. QED
      BY <3>1, <3>2
  <2>5. /\ cur' \in FileAuths /\ reload' \in FileAuths /\ rev' \in Nat /\ persisted' \in Nat
    <3>1. NilAuth \in FileAuths
      BY UpdateFacts
    <3>2. CASE index
      BY <1>2, <1>10, <3>1, <3>2 DEF CommitRemoval
    <3>3. CASE ~index
      BY <1>1, <1>10, <3>3 DEF CommitRemoval, WatcherTypes
    <3>. QED
      BY <3>2, <3>3
  <2>6. FileTypes' /\ WatcherTypes'
    BY <1>1, <1>10, <2>2, <2>3, <2>4, <2>5
       DEF CommitRemoval, WatcherTypes, FileTypes, files, pipe
  <2>. QED
    BY <1>10, <2>6, WatcherFrame DEF CommitRemoval
<1>11. CASE DispatchFile
  <2>1. pend' \in Updates
    BY <1>1, <1>2, <1>11, DispatchTypes DEF DispatchFile
  <2>2. FileTypes' /\ WatcherTypes'
    BY <1>1, <1>11, <2>1, UpdateFacts DEF DispatchFile, WatcherTypes, FileTypes, files, state
  <2>. QED
    BY <1>11, <2>2, WatcherFrame DEF DispatchFile
<1>12. CASE DispatchLoop
  <2>1. FileTypes' /\ WatcherTypes'
    BY <1>1, <1>12, UpdateFacts DEF DispatchLoop, WatcherTypes, FileTypes, files, state
  <2>. QED
    BY <1>12, <2>1, WatcherFrame DEF DispatchLoop
<1>. QED
  BY <1>4, <1>5, <1>6, <1>7, <1>8, <1>9, <1>10, <1>11, <1>12 DEF Rescanner

\* The ways in which a step moves a scanner.
LEMMA ScanStays ==
    ASSUME scan \in [Scanners -> ScanStates], NEW s \in Scanners
    PROVE  /\ \A x \in ScanStates : [scan EXCEPT ![s] = x] \in [Scanners -> ScanStates]
           /\ \A pc \in ScanPcs : [scan EXCEPT ![s].pc = pc] \in [Scanners -> ScanStates]
           /\ \A pc \in ScanPcs, n \in Nat :
                 [scan EXCEPT ![s].pc = pc, ![s].rev = n] \in [Scanners -> ScanStates]
           /\ \A pc \in ScanPcs, d \in Int :
                 [scan EXCEPT ![s].pc = pc, ![s].data = d] \in [Scanners -> ScanStates]
           /\ \A pc \in ScanPcs, u \in Updates, b \in BOOLEAN :
                 [scan EXCEPT ![s].pc = pc, ![s].upd = u, ![s].reread = b]
                    \in [Scanners -> ScanStates]
           /\ \A pc \in ScanPcs, b \in BOOLEAN :
                 [IdleScan EXCEPT !.pc = pc, !.force = b] \in ScanStates
           /\ \A pc \in ScanPcs : [IdleScan EXCEPT !.pc = pc] \in ScanStates
<1>1. scan[s] \in ScanStates /\ IdleScan \in ScanStates
  BY UpdateFacts
<1>2. \A x \in ScanStates : [scan EXCEPT ![s] = x] \in [Scanners -> ScanStates]
  OBVIOUS
<1>3. \A pc \in ScanPcs : [scan EXCEPT ![s].pc = pc] \in [Scanners -> ScanStates]
  BY <1>1 DEF ScanStates
<1>4. \A pc \in ScanPcs, n \in Nat :
         [scan EXCEPT ![s].pc = pc, ![s].rev = n] \in [Scanners -> ScanStates]
  BY <1>1 DEF ScanStates
<1>5. \A pc \in ScanPcs, d \in Int :
         [scan EXCEPT ![s].pc = pc, ![s].data = d] \in [Scanners -> ScanStates]
  BY <1>1 DEF ScanStates
<1>6. \A pc \in ScanPcs, u \in Updates, b \in BOOLEAN :
         [scan EXCEPT ![s].pc = pc, ![s].upd = u, ![s].reread = b] \in [Scanners -> ScanStates]
  BY <1>1 DEF ScanStates
<1>7. \A pc \in ScanPcs, b \in BOOLEAN :
         [IdleScan EXCEPT !.pc = pc, !.force = b] \in ScanStates
  BY <1>1 DEF ScanStates
<1>8. \A pc \in ScanPcs : [IdleScan EXCEPT !.pc = pc] \in ScanStates
  BY <1>1 DEF ScanStates
<1>. QED
  BY <1>2, <1>3, <1>4, <1>5, <1>6, <1>7, <1>8

\* refreshAuthState and the reloads that start it.
LEMMA ScannerStep ==
    ASSUME DispatchTypeOK, NEW s \in Scanners,
           \/ Scanner(s)
           \/ \E setting \in {"authDir", "provider", "force", "other"} : ReloadClients(s, setting)
    PROVE  DispatchTypeOK' /\ UNCHANGED service
<1>1. FileTypes /\ WatcherTypes
  BY DEF DispatchTypeOK
<1>2. /\ scan \in [Scanners -> ScanStates] /\ rescan \in RescanStates
      /\ rescan.upd \in Updates /\ rescan.data \in Int
      /\ rev \in Nat /\ rev + 1 \in Nat /\ hash \in Int /\ disk \in Int
      /\ cur \in FileAuths /\ reload \in FileAuths /\ persisted \in Nat
  BY <1>1 DEF WatcherTypes, FileTypes, RescanStates
<1>3. /\ scan[s] \in ScanStates /\ scan[s].rev \in Nat /\ scan[s].data \in Int
      /\ scan[s].upd \in Updates
  BY <1>2 DEF ScanStates
<1>4. ASSUME NEW setting \in {"authDir", "provider", "force", "other"},
             ReloadClients(s, setting)
      PROVE  DispatchTypeOK' /\ UNCHANGED service
  <2>1. PICK pc \in ScanPcs :
           scan' = [scan EXCEPT ![s] = [IdleScan EXCEPT !.pc = pc, !.force = (setting = "force")]]
    BY <1>4, Zenon DEF ReloadClients, ScanPcs
  <2>2. [IdleScan EXCEPT !.pc = pc, !.force = (setting = "force")] \in ScanStates
    BY <1>2, ScanStays
  <2>3. scan' \in [Scanners -> ScanStates]
    BY <1>2, <2>1, <2>2, ScanStays
  <2>4. changes' \in Nat
    BY <1>1, <1>4 DEF ReloadClients, Counted, FileTypes
  <2>5. cur' \in FileAuths /\ reload' \in FileAuths
    BY <1>2, <1>4, UpdateFacts DEF ReloadClients
  <2>6. FileTypes' /\ WatcherTypes'
    BY <1>1, <1>4, <2>3, <2>4, <2>5 DEF ReloadClients, FileTypes, WatcherTypes, pipe
  <2>. QED
    BY <1>4, <2>6, WatcherFrame DEF ReloadClients
<1>5. CASE RescanRead(s)
  <2>1. scan' \in [Scanners -> ScanStates]
    <3>1. scan' = [scan EXCEPT ![s].pc = "rescan"] /\ "rescan" \in ScanPcs
      BY <1>5 DEF RescanRead, GoTo, ScanPcs
    <3>. QED
      BY <1>2, <3>1, ScanStays
  <2>2. rescan' \in RescanStates
    <3>1. "hashes" \in RescanPcs /\ s \in RescanOwners
      BY DEF RescanPcs, RescanOwners
    <3>2. [NoOne EXCEPT !.owner = s, !.pc = "hashes", !.data = disk] \in RescanStates
      BY <1>2, <3>1, RescanStays
    <3>. QED
      BY <1>5, <3>2 DEF RescanRead
  <2>3. FileTypes' /\ WatcherTypes'
    BY <1>1, <1>5, <2>1, <2>2 DEF RescanRead, FileTypes, WatcherTypes, files, state, pipe
  <2>. QED
    BY <1>5, <2>3, WatcherFrame DEF RescanRead
<1>6. CASE RescanCommit(s)
  <2>1. scan' \in [Scanners -> ScanStates]
    <3>1. scan' = [scan EXCEPT ![s].pc = "start"] /\ "start" \in ScanPcs
      BY <1>6 DEF RescanCommit, GoTo, ScanPcs
    <3>. QED
      BY <1>2, <3>1, ScanStays
  <2>2. rescan' \in RescanStates /\ hash' \in Int
    <3>1. rescan' = NoOne
      BY <1>6 DEF RescanCommit
    <3>2. hash' = rescan.data \/ hash' = -1 \/ hash' = 0
      BY <1>6 DEF RescanCommit, Stale, Unknown
    <3>3. rescan' \in RescanStates
      BY <3>1, RescanStays
    <3>. QED
      BY <1>2, <3>2, <3>3
  <2>3. index' \in BOOLEAN
    BY <1>6, Zenon DEF RescanCommit
  <2>4. FileTypes' /\ WatcherTypes'
    BY <1>1, <1>6, <2>1, <2>2, <2>3 DEF RescanCommit, FileTypes, WatcherTypes, files, pipe
  <2>. QED
    BY <1>6, <2>4, WatcherFrame DEF RescanCommit
<1>7. CASE ScanStart(s)
  <2>1. scan' \in [Scanners -> ScanStates]
    <3>1. scan' = [scan EXCEPT ![s].pc = "read", ![s].rev = rev] /\ "read" \in ScanPcs
      BY <1>7 DEF ScanStart, ScanPcs
    <3>2. [scan EXCEPT ![s].pc = "read", ![s].rev = rev] \in [Scanners -> ScanStates]
      BY <1>2, <3>1, ScanStays
    <3>. QED
      BY <3>1, <3>2
  <2>2. FileTypes' /\ WatcherTypes'
    BY <1>1, <1>7, <2>1 DEF ScanStart, FileTypes, WatcherTypes, files, pipe
  <2>. QED
    BY <1>7, <2>2, WatcherFrame DEF ScanStart
<1>8. CASE ScanRead(s)
  <2>1. scan' \in [Scanners -> ScanStates]
    <3>1. scan' = [scan EXCEPT ![s].pc = "commit", ![s].data = disk] /\ "commit" \in ScanPcs
      BY <1>8 DEF ScanRead, ScanPcs
    <3>2. [scan EXCEPT ![s].pc = "commit", ![s].data = disk] \in [Scanners -> ScanStates]
      BY <1>2, <3>1, ScanStays
    <3>. QED
      BY <3>1, <3>2
  <2>2. FileTypes' /\ WatcherTypes'
    BY <1>1, <1>8, <2>1 DEF ScanRead, FileTypes, WatcherTypes, files, state, pipe
  <2>. QED
    BY <1>8, <2>2, WatcherFrame DEF ScanRead
<1>9. CASE ScanCommit(s)
  <2>1. PICK u \in Updates, a \in FileAuths, b \in BOOLEAN :
           /\ cur' = a /\ index' \in BOOLEAN
           /\ rev' = IF u = NoUpdate THEN rev ELSE rev + 1
           /\ persisted' = IF b THEN 0 ELSE persisted
           /\ hash' \in {hash, Stale}
           /\ scan' = [scan EXCEPT ![s].pc = "dispatch", ![s].upd = u, ![s].reread = b]
    <3> DEFINE changed == scan[s].rev # rev \/ s \in seen
               incomplete == scan[s].data = Torn
               scanned == IF scan[s].data \in Contents /\ ~changed
                          THEN Snapshot(scan[s].data) ELSE NilAuth
               reloaded == IF scan[s].rev = rev /\ cur = NilAuth THEN reload ELSE NilAuth
               kept == IF reloaded # NilAuth /\ incomplete THEN reloaded ELSE NilAuth
               now == IF reloaded # NilAuth /\ ~incomplete /\ scanned = NilAuth
                      THEN reloaded ELSE cur
               retained == now # NilAuth /\ (changed \/ incomplete)
               reread == /\ retained /\ ~incomplete /\ scan[s].rev # rev
                         /\ \/ now.kind = "versioned"
                            \/ persisted = rev
               new == IF retained THEN now ELSE IF kept # NilAuth THEN kept ELSE scanned
               upd == IF new # NilAuth /\ (now = NilAuth \/ scan[s].force \/ ~authEqual(now, new))
                      THEN Put(new)
                      ELSE IF new = NilAuth /\ now # NilAuth THEN Delete(FALSE) ELSE NoUpdate
    <3>1. /\ cur' = new /\ index' = (new # NilAuth)
          /\ rev' = IF upd = NoUpdate THEN rev ELSE rev + 1
          /\ persisted' = IF reread THEN 0 ELSE persisted
          /\ hash' \in {hash, Stale}
          /\ scan' = [scan EXCEPT ![s].pc = "dispatch", ![s].upd = upd, ![s].reread = reread]
      BY <1>9, Zenon DEF ScanCommit
    <3>2. scanned \in FileAuths /\ reloaded \in FileAuths
      BY <1>2, <1>3, UpdateFacts
    <3>3. kept \in FileAuths /\ now \in FileAuths
      BY <1>2, <3>2, UpdateFacts
    <3>4. new \in FileAuths
      BY <3>2, <3>3, UpdateFacts
    <3>5. reread \in BOOLEAN
      BY Zenon
    <3>6. upd \in Updates
      <4> HIDE DEF new, now
      <4>1. Put(new) \in Updates /\ Delete(FALSE) \in Updates /\ NoUpdate \in Updates
        BY <1>2, <3>4, PutIs, UpdateFacts
      <4>. QED
        BY <4>1
    <3> HIDE DEF upd, new, reread
    <3>. QED
      BY <3>1, <3>4, <3>5, <3>6
  <2>2. scan' \in [Scanners -> ScanStates]
    <3>1. "dispatch" \in ScanPcs
      BY DEF ScanPcs
    <3>. QED
      BY <1>2, <2>1, <3>1, ScanStays
  <2>3. rev' \in Nat /\ persisted' \in Nat /\ hash' \in Int /\ cur' \in FileAuths
        /\ index' \in BOOLEAN
    BY <1>2, <2>1 DEF Stale
  <2>4. reload' = NilAuth /\ UNCHANGED <<files, seen, rescan, pipe, manager, service>>
    BY <1>9 DEF ScanCommit
  <2>5. FileTypes' /\ WatcherTypes'
    BY <1>1, <2>2, <2>3, <2>4, UpdateFacts DEF FileTypes, WatcherTypes, files, pipe
  <2>. QED
    BY <2>4, <2>5, WatcherFrame
<1>10. CASE ScanDispatch(s)
  <2>1. PICK pc \in ScanPcs : scan' = [scan EXCEPT ![s] = [IdleScan EXCEPT !.pc = pc]]
    BY <1>10, Zenon DEF ScanDispatch, ScanPcs
  <2>2. scan' \in [Scanners -> ScanStates]
    BY <1>2, <2>1, ScanStays
  <2>3. pend' \in Updates
    <3>1. pend \in Updates
      BY <1>1 DEF WatcherTypes
    <3>. QED
      BY <1>1, <1>3, <1>10, <3>1, DispatchTypes DEF ScanDispatch
  <2>4. FileTypes' /\ WatcherTypes'
    BY <1>1, <1>10, <2>2, <2>3 DEF ScanDispatch, FileTypes, WatcherTypes, files, state
  <2>. QED
    BY <1>10, <2>4, WatcherFrame DEF ScanDispatch
<1>11. CASE ScanReread(s)
  <2>1. scan' \in [Scanners -> ScanStates]
    <3>1. scan' = [scan EXCEPT ![s].pc = "rereading"] /\ "rereading" \in ScanPcs
      BY <1>11 DEF ScanReread, GoTo, ScanPcs
    <3>. QED
      BY <1>2, <3>1, ScanStays
  <2>2. rescan' \in RescanStates
    <3>1. "read" \in RescanPcs /\ s \in RescanOwners
      BY DEF RescanPcs, RescanOwners
    <3>2. [NoOne EXCEPT !.owner = s, !.pc = "read"] \in RescanStates
      BY <3>1, RescanStays
    <3>. QED
      BY <1>11, <3>2 DEF ScanReread
  <2>3. hash' \in Int /\ seen' \subseteq Scanners
    BY <1>1, <1>11, ObserveTypes DEF ScanReread
  <2>4. FileTypes' /\ WatcherTypes'
    BY <1>1, <1>11, <2>1, <2>2, <2>3 DEF ScanReread, FileTypes, WatcherTypes, files, pipe
  <2>. QED
    BY <1>11, <2>4, WatcherFrame DEF ScanReread
<1>12. CASE ScanDone(s)
  <2>1. scan' \in [Scanners -> ScanStates]
    <3>1. scan' = [scan EXCEPT ![s].pc = "idle"] /\ "idle" \in ScanPcs
      BY <1>12 DEF ScanDone, GoTo, ScanPcs
    <3>. QED
      BY <1>2, <3>1, ScanStays
  <2>2. FileTypes' /\ WatcherTypes'
    BY <1>1, <1>12, <2>1 DEF ScanDone, FileTypes, WatcherTypes, files, state, pipe
  <2>. QED
    BY <1>12, <2>2, WatcherFrame DEF ScanDone
<1>. QED
  BY <1>4, <1>5, <1>6, <1>7, <1>8, <1>9, <1>10, <1>11, <1>12 DEF Scanner

-----------------------------------------------------------------------------
(* The consumers: an upload that tells the service itself, and the queue's *)

\* The ways in which a step moves a consumer.
LEMMA ConsumerStays ==
    ASSUME cons \in [Consumers -> ConsumerStates], NEW c \in Consumers
    PROVE  /\ \A x \in ConsumerStates : [cons EXCEPT ![c] = x] \in [Consumers -> ConsumerStates]
           /\ \A pc \in ConsumerPcs : [cons[c] EXCEPT !.pc = pc] \in ConsumerStates
           /\ \A pc \in ConsumerPcs, x \in Int :
                 [cons[c] EXCEPT !.pc = pc, !.c = x] \in ConsumerStates
           /\ \A pc \in ConsumerPcs, u \in Updates :
                 [cons[c] EXCEPT !.pc = pc, !.upd = u] \in ConsumerStates
           /\ \A pc \in ConsumerPcs, n \in Nat :
                 [cons[c] EXCEPT !.pc = pc, !.waits = n] \in ConsumerStates
           /\ \A pc \in ConsumerPcs, n \in Nat :
                 [cons[c] EXCEPT !.pc = pc, !.upd.rev = n] \in ConsumerStates
           /\ Returned(c) \in ConsumerStates
<1>1. cons[c] \in ConsumerStates /\ cons[c].upd \in Updates /\ cons[c].upd.rev \in Nat
  BY DEF ConsumerStates, Updates
<1>2. \A x \in ConsumerStates : [cons EXCEPT ![c] = x] \in [Consumers -> ConsumerStates]
  OBVIOUS
<1>3. \A pc \in ConsumerPcs : [cons[c] EXCEPT !.pc = pc] \in ConsumerStates
  BY <1>1 DEF ConsumerStates
<1>4. \A pc \in ConsumerPcs, x \in Int :
         [cons[c] EXCEPT !.pc = pc, !.c = x] \in ConsumerStates
  BY <1>1 DEF ConsumerStates
<1>5. \A pc \in ConsumerPcs, u \in Updates :
         [cons[c] EXCEPT !.pc = pc, !.upd = u] \in ConsumerStates
  BY <1>1 DEF ConsumerStates
<1>6. \A pc \in ConsumerPcs, n \in Nat :
         [cons[c] EXCEPT !.pc = pc, !.waits = n] \in ConsumerStates
  BY <1>1 DEF ConsumerStates
<1>7. \A pc \in ConsumerPcs, n \in Nat :
         [cons[c] EXCEPT !.pc = pc, !.upd.rev = n] \in ConsumerStates
  BY <1>1 DEF ConsumerStates, Updates
<1>8. Returned(c) \in ConsumerStates
  BY <1>1, UpdateFacts DEF Returned, ConsumerStates, ConsumerPcs, Updates
<1>. QED
  BY <1>2, <1>3, <1>4, <1>5, <1>6, <1>7, <1>8

\* A step of one consumer that forgets nobody's claim before its end.
LEMMA ClaimsKept ==
    ASSUME DispatchInv, DispatchTypeOK', NEW c \in Consumers, NEW x,
           cons' = [cons EXCEPT ![c] = x], registered' >= registered,
           waiter' = 0 => registered' >= processed',
           waiter' # 0 => waiter' = processed' /\ Claimed(cons', waiter'),
           Served(cons', registered', c),
           cons[c].pc \in Registering =>
              \/ x.pc \in Registering /\ x.upd.rev = cons[c].upd.rev
              \/ registered' >= cons[c].upd.rev
    PROVE  ClaimInv'
<1>1. cons \in [Consumers -> ConsumerStates] /\ registered \in Nat /\ registered' \in Nat
  BY DEF DispatchInv, DispatchTypeOK, ServiceTypes
<1>2. \A d \in Consumers : /\ cons'[d] = IF d = c THEN x ELSE cons[d]
                           /\ cons[d].waits \in Nat /\ cons[d].upd.rev \in Nat
  BY <1>1 DEF ConsumerStates, Updates
<1>3. ASSUME NEW r \in Nat, Claimed(cons, r)
      PROVE  Claimed(cons', r) \/ registered' >= r
  <2>1. PICK d \in Consumers : cons[d].pc \in Registering /\ cons[d].upd.rev = r
    BY <1>3 DEF Claimed
  <2>2. CASE d = c
    BY <1>2, <2>1, <2>2 DEF Claimed
  <2>3. CASE d # c
    BY <1>2, <2>1, <2>3 DEF Claimed
  <2>. QED
    BY <2>2, <2>3
<1>4. ASSUME NEW d \in Consumers, d # c
      PROVE  Served(cons', registered', d)
  <2>1. cons'[d] = cons[d] /\ Served(cons, registered, d)
    BY <1>2, <1>4 DEF DispatchInv, ClaimInv
  <2>2. cons[d].pc = "wait" => registered' >= cons[d].waits \/ Claimed(cons', cons[d].waits)
    <3>1. SUFFICES ASSUME cons[d].pc = "wait", ~(registered >= cons[d].waits)
                   PROVE  registered' >= cons[d].waits \/ Claimed(cons', cons[d].waits)
      BY <1>1, <1>2
    <3>2. Claimed(cons, cons[d].waits) /\ cons[d].waits \in Nat
      BY <1>2, <2>1, <3>1 DEF Served
    <3>. QED
      BY <1>3, <3>2
  <2>. QED
    BY <1>1, <1>2, <2>1, <2>2 DEF Served
<1>. QED
  BY <1>4 DEF ClaimInv

\* A consumer that neither comes to wait nor returns, and whose registration
\* neither starts nor ends, disturbs nothing.
LEMMA ClaimUnmoved ==
    ASSUME DispatchInv, DispatchTypeOK', NEW c \in Consumers, NEW x,
           cons' = [cons EXCEPT ![c] = x], UNCHANGED <<processed, waiter, registered>>,
           x.pc \notin {"idle", "wait", "returned"},
           \/ cons[c].pc \notin Registering
           \/ x.pc \in Registering /\ x.upd.rev = cons[c].upd.rev
    PROVE  ClaimInv'
<1>1. cons \in [Consumers -> ConsumerStates] /\ registered \in Nat
  BY DEF DispatchInv, DispatchTypeOK, ServiceTypes
<1>2. \A d \in Consumers : cons'[d] = IF d = c THEN x ELSE cons[d]
  BY <1>1
<1>3. waiter # 0 => Claimed(cons', waiter)
  BY <1>2 DEF DispatchInv, ClaimInv, Claimed
<1>4. Served(cons', registered', c)
  BY <1>2 DEF Served
<1>5. /\ waiter' = 0 => registered' >= processed'
      /\ waiter' # 0 => waiter' = processed' /\ Claimed(cons', waiter')
      /\ registered' >= registered
  BY <1>1, <1>3 DEF DispatchInv, ClaimInv
<1>. QED
  BY <1>4, <1>5, ClaimsKept

\* What an upload does before the hook runs handleAuthUpdates.
LEMMA UploadStep ==
    ASSUME DispatchInv, NEW u \in Uploads, BeginUpload(u) \/ Uploader(u)
    PROVE  DispatchInv'
<1>. DEFINE c == cons[u]
<1>1. FileTypes /\ WatcherTypes /\ ServiceTypes /\ DispatchTypeOK /\ u \in Consumers
  BY DEF DispatchInv, DispatchTypeOK, Consumers
<1>2. /\ cons \in [Consumers -> ConsumerStates] /\ c \in ConsumerStates
      /\ c.upd \in Updates /\ c.upd.auth \in FileAuths /\ c.c \in Int
      /\ rev \in Nat /\ rev + 1 \in Nat
  BY <1>1 DEF ServiceTypes, WatcherTypes, ConsumerStates, Updates
<1>3. ASSUME NEW x \in ConsumerStates, cons' = [cons EXCEPT ![u] = x],
             UNCHANGED <<updating, processed, waiter, registered>>, FileTypes', WatcherTypes',
             mgr' \in Int, gate' = gate, saving' = saving,
             c.pc \notin Registering, x.pc \notin {"idle", "wait", "returned"}
      PROVE  DispatchInv'
  <2>1. cons' \in [Consumers -> ConsumerStates]
    BY <1>1, <1>2, <1>3
  <2>2. DispatchTypeOK'
    BY <1>1, <1>3, <2>1 DEF DispatchTypeOK, ServiceTypes
  <2>. QED
    BY <1>1, <1>3, <2>2, ClaimUnmoved DEF DispatchInv
<1>4. ASSUME events' = Notified("write") \/ events' = events
      PROVE  events' \in Seq({"write", "remove"})
  BY <1>1, <1>4, EventTypes DEF FileTypes
<1>5. CASE BeginUpload(u)
  <2>. DEFINE x == [c EXCEPT !.pc = "write", !.c = Fresh]
  <2>1. cons' = [cons EXCEPT ![u] = x] /\ c.pc = "idle"
    BY <1>2, <1>5 DEF BeginUpload
  <2>2. Fresh \in Int /\ changes' \in Nat /\ disk' \in Int
    BY <1>1, <1>5 DEF BeginUpload, Fresh, Counted, Torn, FileTypes
  <2>3. x \in ConsumerStates /\ x.pc = "write"
    BY <1>1, <1>2, <2>2, ConsumerStays DEF ConsumerPcs, ConsumerStates
  <2>4. FileTypes'
    BY <1>1, <1>4, <1>5, <2>2 DEF BeginUpload, FileTypes
  <2>5. WatcherTypes'
    BY <1>1, <1>5 DEF BeginUpload, WatcherTypes, state, pipe
  <2>6. /\ UNCHANGED <<updating, processed, waiter, registered>>
        /\ mgr' \in Int /\ gate' = gate /\ saving' = saving
    BY <1>1, <1>5 DEF BeginUpload, manager, ServiceTypes
  <2>. HIDE DEF x
  <2>. QED
    BY <1>3, <2>1, <2>3, <2>4, <2>5, <2>6 DEF Registering
<1>6. CASE EndUpload(u)
  <2>. DEFINE x == [c EXCEPT !.pc = "upsert"]
  <2>1. cons' = [cons EXCEPT ![u] = x] /\ c.pc = "write"
    BY <1>2, <1>6 DEF EndUpload, Step
  <2>2. x \in ConsumerStates /\ x.pc = "upsert"
    BY <1>1, <1>2, ConsumerStays DEF ConsumerPcs, ConsumerStates
  <2>3. FileTypes'
    BY <1>1, <1>2, <1>4, <1>6 DEF EndUpload, FileTypes
  <2>4. WatcherTypes'
    BY <1>1, <1>6 DEF EndUpload, WatcherTypes, state, pipe
  <2>5. /\ UNCHANGED <<updating, processed, waiter, registered>>
        /\ mgr' \in Int /\ gate' = gate /\ saving' = saving
    BY <1>1, <1>6 DEF EndUpload, manager, ServiceTypes
  <2>. HIDE DEF x
  <2>. QED
    BY <1>3, <2>1, <2>2, <2>3, <2>4, <2>5 DEF Registering
<1>7. CASE UpsertRecord(u)
  <2>. DEFINE v == [action |-> "put", rev |-> 0, removal |-> FALSE, auth |-> Versioned(c.c)]
              x == [c EXCEPT !.pc = "persist", !.upd = v]
  <2>1. cons' = [cons EXCEPT ![u] = x] /\ c.pc = "upsert"
    BY <1>2, <1>7 DEF UpsertRecord
  <2>2. Versioned(c.c) \in FileAuths
    BY <1>2, UpdateFacts
  <2>3. v \in Updates
    BY <2>2 DEF Updates
  <2>4. x \in ConsumerStates /\ x.pc = "persist"
    <3>. HIDE DEF v
    <3>. QED
      BY <1>1, <1>2, <2>3, ConsumerStays DEF ConsumerPcs, ConsumerStates
  <2>5. FileTypes'
    BY <1>1, <1>2, <1>4, <1>7 DEF UpsertRecord, FileTypes
  <2>6. WatcherTypes'
    BY <1>1, <1>7 DEF UpsertRecord, WatcherTypes, state, pipe
  <2>7. /\ UNCHANGED <<updating, processed, waiter, registered>>
        /\ mgr' \in Int /\ gate' = gate /\ saving' = saving
    BY <1>1, <1>2, <1>7 DEF UpsertRecord, manager, ServiceTypes
  <2>. HIDE DEF x
  <2>. QED
    BY <1>3, <2>1, <2>4, <2>5, <2>6, <2>7 DEF Registering
<1>8. CASE DispatchPersisted(u)
  <2>. DEFINE x == [c EXCEPT !.pc = "dispatch", !.upd.rev = rev + 1]
  <2>1. cons' = [cons EXCEPT ![u] = x] /\ c.pc = "persist"
    BY <1>2, <1>8 DEF DispatchPersisted
  <2>2. x \in ConsumerStates /\ x.pc = "dispatch"
    BY <1>1, <1>2, ConsumerStays DEF ConsumerPcs, ConsumerStates, Updates
  <2>3. FileTypes'
    BY <1>1, <1>8 DEF DispatchPersisted, FileTypes, files
  <2>4. WatcherTypes'
    BY <1>1, <1>2, <1>8 DEF DispatchPersisted, WatcherTypes, pipe
  <2>5. /\ UNCHANGED <<updating, processed, waiter, registered>>
        /\ mgr' \in Int /\ gate' = gate /\ saving' = saving
    BY <1>1, <1>8 DEF DispatchPersisted, manager, ServiceTypes
  <2>. HIDE DEF x
  <2>. QED
    BY <1>3, <2>1, <2>2, <2>3, <2>4, <2>5 DEF Registering
<1>9. CASE EnqueuePersisted(u)
  <2>. DEFINE x == [c EXCEPT !.pc = "arrive"]
  <2>1. cons' = [cons EXCEPT ![u] = x] /\ c.pc = "dispatch"
    BY <1>2, <1>9 DEF EnqueuePersisted, Step
  <2>2. x \in ConsumerStates /\ x.pc = "arrive"
    BY <1>1, <1>2, ConsumerStays DEF ConsumerPcs, ConsumerStates
  <2>3. pend' \in Updates
    BY <1>1, <1>2, <1>9, DispatchTypes DEF EnqueuePersisted
  <2>4. FileTypes' /\ WatcherTypes'
    BY <1>1, <1>9, <2>3 DEF EnqueuePersisted, FileTypes, WatcherTypes, files, state
  <2>5. /\ UNCHANGED <<updating, processed, waiter, registered>>
        /\ mgr' \in Int /\ gate' = gate /\ saving' = saving
    BY <1>1, <1>9 DEF EnqueuePersisted, manager, ServiceTypes
  <2>. HIDE DEF x
  <2>. QED
    BY <1>3, <2>1, <2>2, <2>4, <2>5 DEF Registering
<1>. QED
  BY <1>5, <1>6, <1>7, <1>8, <1>9 DEF Uploader

LEMMA ArrivedTypes ==
    ASSUME DispatchTypeOK, NEW c \in Consumers, Arrives(c)
    PROVE  /\ Arrived(c) \in Updates /\ Arrived(c).rev \in Nat
           /\ queue' \in Seq(Updates)
           /\ cons[c].pc \in {"idle", "arrive"}
<1>1. queue \in Seq(Updates) /\ cons[c].upd \in Updates
  BY DEF DispatchTypeOK, WatcherTypes, ServiceTypes, ConsumerStates
<1>2. queue # <<>> => Last(queue) \in Updates
  BY <1>1 DEF Last
<1>3. Arrived(c) \in Updates
  BY <1>1, <1>2 DEF Arrived, Arrives
<1>4. queue' = queue \/ queue' = <<>>
  BY DEF Arrives
<1>5. cons[c].pc \in {"idle", "arrive"}
  BY DEF Arrives
<1>. QED
  <2>1. queue' \in Seq(Updates)
    <3>1. <<>> \in Seq(Updates)
      OBVIOUS
    <3>. QED
      BY <1>1, <1>4, <3>1, Zenon
  <2>2. Arrived(c).rev \in Nat
    BY <1>3 DEF Updates
  <2>. QED
    BY <1>3, <1>5, <2>1, <2>2

\* handleAuthUpdates: the claim, its application to the manager and the
\* registration that ends it, or the wait for somebody else's.
LEMMA ConsumerStep ==
    ASSUME DispatchInv, NEW c \in Consumers, Consumer(c)
    PROVE  DispatchInv'
<1>1. FileTypes /\ WatcherTypes /\ ServiceTypes /\ DispatchTypeOK /\ ClaimInv
  BY DEF DispatchInv, DispatchTypeOK
<1>2. /\ cons \in [Consumers -> ConsumerStates] /\ cons[c] \in ConsumerStates
      /\ cons[c].upd \in Updates /\ cons[c].upd.auth \in FileAuths
      /\ cons[c].upd.auth.c \in Int /\ cons[c].upd.rev \in Nat
      /\ processed \in Nat /\ waiter \in Nat /\ registered \in Nat
  BY <1>1 DEF ServiceTypes, ConsumerStates, Updates, FileAuths
<1>3. ASSUME NEW x \in ConsumerStates, cons' = [cons EXCEPT ![c] = x],
             UNCHANGED files, WatcherTypes', mgr' \in Int,
             gate' \in {"free", "saver"} \cup Consumers, saving' = saving,
             updating' \in {"free"} \cup Consumers,
             processed' \in Nat, waiter' \in Nat, registered' \in Nat
      PROVE  DispatchTypeOK'
  <2>1. cons' \in [Consumers -> ConsumerStates]
    BY <1>2, <1>3
  <2>2. FileTypes'
    BY <1>1, <1>3 DEF FileTypes, files
  <2>. QED
    BY <1>1, <1>3, <2>1, <2>2 DEF DispatchTypeOK, ServiceTypes
\* Between the claim and the end of the registration.
<1>4. ASSUME NEW pc \in Registering, cons[c].pc \in Registering, Step(c, pc),
             UNCHANGED <<files, processed, waiter, registered>>, WatcherTypes', mgr' \in Int,
             gate' \in {"free", "saver"} \cup Consumers, saving' = saving,
             updating' \in {"free"} \cup Consumers
      PROVE  DispatchInv'
  <2>. DEFINE x == [cons[c] EXCEPT !.pc = pc]
  <2>1. cons' = [cons EXCEPT ![c] = x]
    BY <1>2, <1>4 DEF Step
  <2>2. x \in ConsumerStates /\ x.pc = pc /\ x.upd = cons[c].upd
    BY <1>2, ConsumerStays DEF ConsumerPcs, ConsumerStates
  <2>. HIDE DEF x
  <2>3. DispatchTypeOK'
    BY <1>2, <1>3, <1>4, <2>1, <2>2
  <2>4. pc \notin {"idle", "wait", "returned"}
    BY <1>4 DEF Registering
  <2>. QED
    BY <1>4, <2>1, <2>2, <2>3, <2>4, ClaimUnmoved DEF DispatchInv
<1>5. mgr \in Int /\ gate \in {"free", "saver"} \cup Consumers
      /\ updating \in {"free"} \cup Consumers
  BY <1>1 DEF ServiceTypes
<1>6. /\ "commit" \in Registering /\ "discard" \in Registering /\ "rereading" \in Registering
      /\ "delete" \in Registering /\ "register" \in Registering /\ "apply" \in Registering
  BY DEF Registering
<1>7. ASSUME UNCHANGED <<state, rescan, scan, pipe>>
      PROVE  WatcherTypes'
  BY <1>1, <1>7 DEF WatcherTypes, state, pipe
<1>8. CASE SkipClaimed(c)
  <2>1. /\ Arrived(c).rev \in Nat /\ queue' \in Seq(Updates)
        /\ cons[c].pc \in {"idle", "arrive"}
    BY <1>1, <1>8, ArrivedTypes DEF SkipClaimed
  <2>2. /\ UNCHANGED <<files, state, rescan, scan, pend, manager,
                       updating, processed, waiter, registered>>
        /\ Arrived(c).rev <= processed
    BY <1>8 DEF SkipClaimed
  <2>3. WatcherTypes'
    BY <1>1, <2>1, <2>2 DEF WatcherTypes, state
  <2>4. cons[c].upd.rev <= processed
    <3>1. CASE cons[c].pc = "idle"
      BY <1>1, <1>2, <3>1 DEF ClaimInv, Served
    <3>2. CASE cons[c].pc = "arrive"
      <4>1. c # Loop
        BY <1>8, <3>2 DEF SkipClaimed, Arrives
      <4>. QED
        BY <2>2, <4>1 DEF Arrived
    <3>. QED
      BY <2>1, <3>1, <3>2
  <2>5. cons[c].pc \notin Registering
    BY <2>1 DEF Registering
  <2>6. \A x : cons' = [cons EXCEPT ![c] = x] => cons'[c] = x
    BY <1>2
  <2>7. CASE waiter = 0
    <3>. DEFINE x == Returned(c)
    <3>1. cons' = [cons EXCEPT ![c] = x]
      BY <1>8, <2>7 DEF SkipClaimed
    <3>2. x \in ConsumerStates
      BY <1>2, ConsumerStays
    <3>3. x.pc \in {"idle", "returned"} /\ (x.pc = "idle" => x.upd.rev = 0)
          /\ (x.pc = "returned" => x.upd.rev = cons[c].upd.rev)
      BY <1>2, UpdateFacts DEF Returned, ConsumerStates, Updates
    <3>. HIDE DEF x
    <3>4. DispatchTypeOK'
      BY <1>2, <1>3, <1>5, <2>2, <2>3, <3>1, <3>2 DEF manager
    <3>5. registered >= cons[c].upd.rev
      BY <1>1, <1>2, <2>4, <2>7 DEF ClaimInv
    <3>6. Served(cons', registered', c)
      BY <2>2, <2>6, <3>1, <3>3, <3>5 DEF Served
    <3>. QED
      <4>1. waiter' = 0 /\ registered' >= registered /\ registered' >= processed'
        BY <1>1, <1>2, <2>2, <2>7 DEF ClaimInv
      <4>. QED
        BY <2>5, <3>1, <3>4, <3>6, <4>1, ClaimsKept DEF DispatchInv
  <2>8. CASE waiter # 0
    <3>. DEFINE x == [cons[c] EXCEPT !.pc = "wait", !.waits = waiter]
    <3>1. cons' = [cons EXCEPT ![c] = x]
      BY <1>2, <1>8, <2>8 DEF SkipClaimed
    <3>2. x \in ConsumerStates /\ x.pc = "wait" /\ x.waits = waiter /\ x.upd = cons[c].upd
      BY <1>2, ConsumerStays DEF ConsumerPcs, ConsumerStates
    <3>. HIDE DEF x
    <3>3. DispatchTypeOK'
      BY <1>2, <1>3, <1>5, <2>2, <2>3, <3>1, <3>2 DEF manager
    <3>4. waiter = processed /\ Claimed(cons', waiter)
      <4>1. PICK d \in Consumers : cons[d].pc \in Registering /\ cons[d].upd.rev = waiter
        BY <1>1, <2>8 DEF ClaimInv, Claimed
      <4>2. cons'[d] = cons[d]
        BY <1>2, <2>5, <3>1, <4>1
      <4>. QED
        BY <1>1, <2>8, <4>1, <4>2 DEF ClaimInv, Claimed
    <3>5. Served(cons', registered', c)
      BY <1>2, <2>4, <2>6, <3>1, <3>2, <3>4 DEF Served
    <3>. QED
      <4>1. /\ waiter' # 0 /\ waiter' = processed' /\ registered' >= registered
            /\ Claimed(cons', waiter')
        BY <1>2, <2>2, <2>8, <3>4
      <4>. QED
        BY <2>5, <3>1, <3>3, <3>5, <4>1, ClaimsKept DEF DispatchInv
  <2>. QED
    BY <2>7, <2>8
<1>9. CASE Claim(c)
  <2>. DEFINE r == Arrived(c).rev
              x == [cons[c] EXCEPT !.pc = "apply", !.upd = Arrived(c)]
  <2>1. /\ Arrived(c) \in Updates /\ r \in Nat /\ queue' \in Seq(Updates)
        /\ cons[c].pc \in {"idle", "arrive"}
    BY <1>1, <1>9, ArrivedTypes DEF Claim
  <2>2. /\ UNCHANGED <<files, state, rescan, scan, pend, manager, registered>>
        /\ r > processed /\ processed' = r /\ waiter' = r /\ updating' = c
        /\ cons' = [cons EXCEPT ![c] = x]
    BY <1>2, <1>9 DEF Claim
  <2>3. WatcherTypes'
    BY <1>1, <2>1, <2>2 DEF WatcherTypes, state
  <2>4. x \in ConsumerStates /\ x.pc = "apply" /\ x.upd.rev = r
    BY <1>2, <2>1, ConsumerStays DEF ConsumerPcs, ConsumerStates, Registering
  <2>. HIDE DEF x, r
  <2>5. DispatchTypeOK'
    BY <1>2, <1>3, <1>5, <2>1, <2>2, <2>3, <2>4 DEF manager
  <2>6. cons'[c] = x
    BY <1>2, <2>2
  <2>7. Claimed(cons', waiter') /\ Served(cons', registered', c)
    BY <1>6, <2>2, <2>4, <2>6 DEF Claimed, Served
  <2>8. cons[c].pc \notin Registering
    BY <2>1 DEF Registering
  <2>9. registered' >= registered /\ waiter' # 0 /\ waiter' = processed'
    BY <1>2, <2>1, <2>2
  <2>. QED
    BY <2>2, <2>5, <2>7, <2>8, <2>9, ClaimsKept DEF DispatchInv
<1>10. CASE RegisterAuth(c)
  BY <1>2, <1>4, <1>5, <1>6, <1>7, <1>10 DEF RegisterAuth, Applying, Applied
<1>11. CASE SkipStale(c)
  BY <1>4, <1>5, <1>6, <1>7, <1>11 DEF SkipStale, Applying, Applied, manager
<1>12. CASE CheckSnapshot(c)
  BY <1>4, <1>5, <1>6, <1>7, <1>12 DEF CheckSnapshot, Applying
<1>13. CASE CommitUpdate(c)
  BY <1>2, <1>4, <1>5, <1>6, <1>7, <1>13 DEF CommitUpdate, Applied
<1>14. CASE RereadDiscarded(c)
  <2>1. /\ cons[c].pc \in Registering
        /\ UNCHANGED <<files, index, reload, rev, persisted, scan, pipe, manager,
                       processed, waiter, registered>>
    BY <1>6, <1>14 DEF RereadDiscarded
  <2>2. CASE SameFileSnapshot(cur, cons[c].upd.auth)
    <3>1. /\ hash' = Stale /\ cur' = [cur EXCEPT !.kind = "invalid"]
          /\ seen' = seen \cup ActiveScans
          /\ rescan' = [NoOne EXCEPT !.owner = c, !.pc = "read"]
          /\ Step(c, "rereading") /\ updating' = updating
      BY <1>14, <2>2 DEF RereadDiscarded
    <3>2. "read" \in RescanPcs /\ c \in RescanOwners
      BY DEF RescanPcs, RescanOwners
    <3>3. rescan' \in RescanStates
      BY <3>1, <3>2, RescanStays
    <3>4. cur' \in FileAuths
      BY <1>1, <3>1 DEF WatcherTypes, FileAuths
    <3>5. hash' \in Int /\ seen' \subseteq Scanners
      BY <1>1, <3>1 DEF WatcherTypes, Stale, ActiveScans
    <3>6. WatcherTypes'
      BY <1>1, <2>1, <3>3, <3>4, <3>5 DEF WatcherTypes, pipe
    <3>. QED
      BY <1>4, <1>5, <1>6, <2>1, <3>1, <3>6 DEF manager
  <2>3. CASE ~SameFileSnapshot(cur, cons[c].upd.auth)
    <3>1. Step(c, "register") /\ updating' = "free" /\ UNCHANGED <<hash, cur, seen, rescan>>
      BY <1>14, <2>3 DEF RereadDiscarded, Applied
    <3>2. WatcherTypes'
      BY <1>1, <2>1, <3>1 DEF WatcherTypes, pipe
    <3>. QED
      BY <1>4, <1>5, <1>6, <2>1, <3>1, <3>2 DEF manager
  <2>. QED
    BY <2>2, <2>3
<1>15. CASE RereadEnds(c)
  BY <1>4, <1>5, <1>6, <1>7, <1>15 DEF RereadEnds, Applied, manager
<1>16. CASE CheckDelete(c)
  BY <1>4, <1>5, <1>6, <1>7, <1>16 DEF CheckDelete, Applying, Applied, manager
<1>17. CASE ApplyRemoval(c)
  BY <1>4, <1>5, <1>6, <1>7, <1>17 DEF ApplyRemoval, Applied
<1>18. ASSUME FinishRegistration(c) \/ WaitEnds(c)
       PROVE  /\ cons' = [cons EXCEPT ![c] = Returned(c)] /\ cons'[c] = Returned(c)
              /\ Returned(c) \in ConsumerStates
              /\ Returned(c).pc \in {"idle", "returned"}
              /\ Returned(c).pc = "idle" => Returned(c).upd.rev = 0
              /\ Returned(c).pc = "returned" => Returned(c).upd.rev = cons[c].upd.rev
  <2>1. cons' = [cons EXCEPT ![c] = Returned(c)]
    BY <1>18 DEF FinishRegistration, WaitEnds
  <2>2. /\ Returned(c).pc \in {"idle", "returned"}
        /\ Returned(c).pc = "idle" => Returned(c).upd.rev = 0
        /\ Returned(c).pc = "returned" => Returned(c).upd.rev = cons[c].upd.rev
    BY <1>2, UpdateFacts DEF Returned, ConsumerStates, Updates
  <2>. QED
    BY <1>2, <2>1, <2>2, ConsumerStays
<1>19. CASE FinishRegistration(c)
  <2>1. /\ cons[c].pc = "register"
        /\ registered' = IF cons[c].upd.rev > registered THEN cons[c].upd.rev ELSE registered
        /\ waiter' = IF waiter = cons[c].upd.rev THEN 0 ELSE waiter
        /\ UNCHANGED <<files, state, rescan, scan, pipe, manager, updating, processed>>
    BY <1>19 DEF FinishRegistration
  <2>2. registered' \in Nat /\ registered' >= registered /\ registered' >= cons[c].upd.rev
        /\ waiter' \in Nat
    BY <1>2, <2>1
  <2>3. DispatchTypeOK'
    BY <1>2, <1>3, <1>5, <1>7, <1>18, <1>19, <2>1, <2>2 DEF manager
  <2>4. waiter' = 0 => registered' >= processed'
    BY <1>1, <1>2, <2>1, <2>2 DEF ClaimInv
  <2>5. waiter' # 0 => waiter' = processed' /\ Claimed(cons', waiter')
    <3>1. SUFFICES ASSUME waiter' # 0
                   PROVE  waiter' = processed' /\ Claimed(cons', waiter')
      OBVIOUS
    <3>2. waiter' = waiter /\ waiter # 0 /\ waiter # cons[c].upd.rev
      BY <2>1, <3>1
    <3>3. PICK d \in Consumers : cons[d].pc \in Registering /\ cons[d].upd.rev = waiter
      BY <1>1, <3>2 DEF ClaimInv, Claimed
    <3>4. cons'[d] = cons[d]
      BY <1>2, <1>18, <1>19, <3>2, <3>3
    <3>. QED
      BY <1>1, <2>1, <3>2, <3>3, <3>4 DEF ClaimInv, Claimed
  <2>6. Served(cons', registered', c)
    BY <1>18, <1>19, <2>2 DEF Served
  <2>. QED
    BY <1>18, <1>19, <2>2, <2>3, <2>4, <2>5, <2>6, ClaimsKept DEF DispatchInv
<1>20. CASE WaitEnds(c)
  <2>1. /\ cons[c].pc = "wait"
        /\ \A d \in Consumers : cons[d].upd.rev = cons[c].waits =>
              cons[d].pc \in {"idle", "returned", "wait", "arrive"}
        /\ UNCHANGED <<files, state, rescan, scan, pipe, manager,
                       updating, processed, waiter, registered>>
    BY <1>20 DEF WaitEnds
  <2>2. ~Claimed(cons, cons[c].waits) /\ cons[c].pc \notin Registering
    BY <2>1 DEF Claimed, Registering
  <2>3. registered >= cons[c].upd.rev
    <3>1. cons[c].waits >= cons[c].upd.rev /\ registered >= cons[c].waits
      BY <1>1, <2>1, <2>2 DEF ClaimInv, Served
    <3>2. cons[c].waits \in Nat
      BY <1>2 DEF ConsumerStates
    <3>. QED
      BY <1>2, <3>1, <3>2
  <2>4. DispatchTypeOK'
    BY <1>2, <1>3, <1>5, <1>7, <1>18, <1>20, <2>1 DEF manager
  <2>5. Served(cons', registered', c)
    BY <1>18, <1>20, <2>1, <2>3 DEF Served
  <2>6. waiter' # 0 => waiter' = processed' /\ Claimed(cons', waiter')
    <3>1. SUFFICES ASSUME waiter # 0
                   PROVE  waiter = processed /\ Claimed(cons', waiter)
      BY <2>1
    <3>2. PICK d \in Consumers : cons[d].pc \in Registering /\ cons[d].upd.rev = waiter
      BY <1>1, <3>1 DEF ClaimInv, Claimed
    <3>3. cons'[d] = cons[d]
      BY <1>2, <1>18, <1>20, <2>2, <3>2
    <3>. QED
      BY <1>1, <3>1, <3>2, <3>3 DEF ClaimInv, Claimed
  <2>7. registered' >= registered /\ (waiter' = 0 => registered' >= processed')
    BY <1>1, <1>2, <2>1 DEF ClaimInv
  <2>. QED
    BY <1>18, <1>20, <2>2, <2>4, <2>5, <2>6, <2>7, ClaimsKept DEF DispatchInv
<1>. QED
  BY <1>8, <1>9, <1>10, <1>11, <1>12, <1>13, <1>14, <1>15, <1>16, <1>17, <1>19, <1>20
     DEF Consumer

\* Who goes on with something else disturbs no claim.
LEMMA ServiceUnmoved ==
    ASSUME ClaimInv, UNCHANGED service
    PROVE  ClaimInv'
BY DEF ClaimInv, Served, Claimed, service

LEMMA DispatchInit ==
    ASSUME WatcherInit
    PROVE  DispatchInv
<1>. USE DEF NoFile, Unknown
<1>1. FileTypes
  <2>1. disk \in Int /\ changes \in Nat
    BY DEF WatcherInit
  <2>2. writer = 0 /\ events = <<>> /\ recent = FALSE
    BY DEF WatcherInit
  <2>3. recent \in BOOLEAN
    BY <2>2, Zenon
  <2>. QED
    BY <2>1, <2>2, <2>3 DEF FileTypes
<1>2. cur \in FileAuths /\ hash \in Int /\ index \in BOOLEAN
  <2>1. disk \in Int /\ NilAuth \in FileAuths /\ Snapshot(disk) \in FileAuths
    BY <1>1, UpdateFacts DEF FileTypes
  <2>2. cur \in {NilAuth, Snapshot(disk)} /\ hash \in {disk, 0}
    BY DEF WatcherInit
  <2>3. index \in BOOLEAN
    BY Zenon DEF WatcherInit
  <2>. QED
    BY <2>1, <2>2, <2>3
<1>3. scan \in [Scanners -> ScanStates]
  <2>1. IdleScan \in ScanStates
    BY UpdateFacts
  <2>2. [IdleScan EXCEPT !.pc = "hashes"] \in ScanStates
    BY <2>1 DEF ScanStates, ScanPcs
  <2>. QED
    BY <2>1, <2>2 DEF WatcherInit
<1>4. WatcherTypes
  BY <1>2, <1>3, UpdateFacts DEF WatcherInit, WatcherTypes
<1>5. ServiceTypes
  BY <1>1, UpdateFacts DEF WatcherInit, FileTypes, ServiceTypes
<1>6. ClaimInv
  BY UpdateFacts DEF WatcherInit, ClaimInv, Served
<1>. QED
  BY <1>1, <1>4, <1>5, <1>6 DEF DispatchInv, DispatchTypeOK

LEMMA DispatchNext ==
    ASSUME DispatchInv, [WatcherNext]_(watcherVars)
    PROVE  DispatchInv'
<1>1. DispatchTypeOK /\ ClaimInv
  BY DEF DispatchInv
<1>2. ASSUME DispatchTypeOK', UNCHANGED service
      PROVE  DispatchInv'
  BY <1>1, <1>2, ServiceUnmoved DEF DispatchInv
<1>3. CASE \/ BeginWrite \/ EndWrite \/ RemoveFile \/ WindowPasses
           \/ BeginSave \/ WriteSave \/ PublishSave
  BY <1>1, <1>2, <1>3, FileStep
<1>4. CASE HandleEvent \/ Rescanner \/ DispatchLoop
  BY <1>1, <1>2, <1>4, RescannerStep
<1>5. ASSUME NEW s \in Scanners,
             \/ Scanner(s)
             \/ \E setting \in {"authDir", "provider", "force", "other"} :
                   ReloadClients(s, setting)
      PROVE  DispatchInv'
  BY <1>1, <1>2, <1>5, ScannerStep
<1>6. ASSUME NEW u \in Uploads, BeginUpload(u) \/ Uploader(u)
      PROVE  DispatchInv'
  BY <1>6, UploadStep
<1>7. ASSUME NEW c \in Consumers, Consumer(c)
      PROVE  DispatchInv'
  BY <1>7, ConsumerStep
<1>8. CASE UNCHANGED watcherVars
  BY <1>1, <1>8
     DEF watcherVars, files, state, pipe, manager, service, DispatchInv, DispatchTypeOK,
         FileTypes, WatcherTypes, ServiceTypes, ClaimInv, Served, Claimed
<1>. QED
  BY <1>3, <1>4, <1>5, <1>6, <1>7, <1>8 DEF WatcherNext

(* The types of the watcher, the dispatch and the service, and who claims   *)
(* what, hold of every execution.                                           *)
THEOREM DispatchInvariance == WatcherSpec => []DispatchInv
<1>1. WatcherInit => DispatchInv
  BY DispatchInit
<1>2. DispatchInv /\ [WatcherNext]_(watcherVars) => DispatchInv'
  BY DispatchNext
<1>. QED
  BY <1>1, <1>2, PTL DEF WatcherSpec

(* When an upload's hook returns, the registration of its revision, or of a *)
(* later one of the same credential, has finished, whoever claimed it, for  *)
(* every number of uploads and scanners.                                    *)
THEOREM UploadsSeeTheirModels == WatcherSpec => []UploadSeesItsModels
<1>1. DispatchInv => UploadSeesItsModels
  BY DEF DispatchInv, ClaimInv, Served, UploadSeesItsModels, Consumers
<1>. QED
  BY <1>1, DispatchInvariance, PTL

-----------------------------------------------------------------------------
(***************************************************************************)
(* The order of the updates                                                *)
(***************************************************************************)
\* Where an update is that has its revision and is not pending yet.
Places == {<<"file", Loop>>} \cup ({"scan"} \X Scanners) \cup ({"upload"} \X Consumers)

\* The revision held there, 0 for none.
RevisionAt(p) ==
    IF p[1] = "file" THEN IF rescan.pc = "dispatch" THEN rescan.upd.rev ELSE 0
    ELSE IF p[1] = "scan" THEN IF scan[p[2]].pc = "dispatch" THEN scan[p[2]].upd.rev ELSE 0
    ELSE IF cons[p[2]].pc = "dispatch" THEN cons[p[2]].upd.rev ELSE 0

\* What is pending or queued is older than revision r.
Behind(r) == pend.rev < r /\ \A i \in 1 .. Len(queue) : queue[i].rev < r

\* What is pending is newer than all that is queued, and each queued update
\* is newer than those before it.
NewestLast ==
    /\ pend # NoUpdate => \A i \in 1 .. Len(queue) : queue[i].rev < pend.rev
    /\ \A i, j \in 1 .. Len(queue) : i < j => queue[i].rev < queue[j].rev

Stamped ==
    /\ rescan.pc = "dispatch" => rescan.upd.rev > 0
    /\ \A s \in Scanners :
          scan[s].pc = "dispatch" /\ scan[s].upd # NoUpdate => scan[s].upd.rev > 0
    /\ \A c \in Consumers : cons[c].pc = "dispatch" => cons[c].upd.rev > 0

\* Only one update has the current revision, and while it is held nothing as
\* new is pending or queued.
OrderInv ==
    /\ \A p \in Places : RevisionAt(p) \in 0 .. rev
    /\ \A p, q \in Places : RevisionAt(p) = rev /\ RevisionAt(q) = rev /\ rev > 0 => p = q
    /\ \A p \in Places : RevisionAt(p) = rev /\ rev > 0 => Behind(rev)
    /\ pend.rev <= rev /\ \A i \in 1 .. Len(queue) : queue[i].rev <= rev
    /\ NewestLast

\* Nothing is stamped, and nothing comes into the pipe.
Quiet ==
    /\ rev' = rev /\ pend' = pend /\ (queue' = queue \/ queue' = <<>>)
    /\ \A p \in Places : RevisionAt(p)' = RevisionAt(p) \/ RevisionAt(p)' = 0

\* At p an update gets the next revision.
Stamps(p) ==
    /\ rev' = rev + 1 /\ pend' = pend /\ queue' = queue
    /\ RevisionAt(p)' \in 0 .. rev + 1
    /\ \A q \in Places \ {p} : RevisionAt(q)' = RevisionAt(q)

\* The update held at p is dispatched.
Sends(p, u) ==
    /\ u.rev = RevisionAt(p) /\ RevisionAt(p) > 0
    /\ dispatchAuthUpdates(u)
    /\ rev' = rev /\ queue' = queue
    /\ RevisionAt(p)' = 0
    /\ \A q \in Places \ {p} : RevisionAt(q)' = RevisionAt(q)

LEMMA PipeTypes ==
    ASSUME DispatchTypeOK
    PROVE  /\ rev \in Nat /\ pend \in Updates /\ pend.rev \in Nat
           /\ queue \in Seq(Updates) /\ Len(queue) \in Nat
           /\ \A i \in 1 .. Len(queue) : queue[i] \in Updates /\ queue[i].rev \in Nat
<1>1. rev \in Nat /\ pend \in Updates /\ queue \in Seq(Updates)
  BY DEF DispatchTypeOK, WatcherTypes
<1>2. \A i \in 1 .. Len(queue) : queue[i] \in Updates
  BY <1>1
<1>. QED
  BY <1>1, <1>2 DEF Updates

LEMMA QuietKeeps ==
    ASSUME DispatchTypeOK, OrderInv, Quiet
    PROVE  OrderInv'
<1>1. rev \in Nat /\ \A p \in Places : RevisionAt(p) \in 0 .. rev
  BY PipeTypes DEF OrderInv
<1>2. \A p \in Places : /\ RevisionAt(p)' \in 0 .. rev
                        /\ RevisionAt(p)' = rev /\ rev > 0 => RevisionAt(p) = rev
  BY <1>1 DEF Quiet
<1>3. rev' = rev /\ pend' = pend
  BY DEF Quiet
<1>4. queue' = queue \/ (queue' = <<>> /\ Len(queue') = 0)
  BY DEF Quiet
<1>5. NewestLast'
  BY <1>4 DEF OrderInv, Quiet, NewestLast
<1>6. \A r \in Nat : Behind(r) => Behind(r)'
  BY <1>4 DEF Quiet, Behind
<1>7. \A i \in 1 .. Len(queue') : queue'[i].rev <= rev
  BY <1>4 DEF OrderInv
<1>8. \A p \in Places : RevisionAt(p)' \in 0 .. rev'
  BY <1>2, <1>3
<1>9. \A p, q \in Places : RevisionAt(p)' = rev' /\ RevisionAt(q)' = rev' /\ rev' > 0 => p = q
  BY <1>2, <1>3 DEF OrderInv
<1>10. \A p \in Places : RevisionAt(p)' = rev' /\ rev' > 0 => Behind(rev)'
  BY <1>1, <1>2, <1>3, <1>6 DEF OrderInv
<1>11. pend'.rev <= rev' /\ \A i \in 1 .. Len(queue') : queue'[i].rev <= rev'
  BY <1>3, <1>7 DEF OrderInv
<1>. QED
  BY <1>5, <1>8, <1>9, <1>10, <1>11 DEF OrderInv

LEMMA StampsKeep ==
    ASSUME DispatchTypeOK, OrderInv, NEW p \in Places, Stamps(p)
    PROVE  OrderInv'
<1>1. rev \in Nat /\ \A q \in Places : RevisionAt(q) \in 0 .. rev
  BY PipeTypes DEF OrderInv
<1>2. \A q \in Places \ {p} : RevisionAt(q)' \in 0 .. rev
  BY <1>1 DEF Stamps
<1>3. rev' = rev + 1 /\ pend' = pend /\ queue' = queue
  BY DEF Stamps
<1>4. NewestLast'
  BY <1>3 DEF OrderInv, NewestLast
<1>5. pend.rev <= rev /\ \A i \in 1 .. Len(queue) : queue[i].rev <= rev
  BY DEF OrderInv
<1>6. \A q \in Places : RevisionAt(q)' \in 0 .. rev'
  BY <1>1, <1>2, <1>3 DEF Stamps
<1>7. \A q \in Places : RevisionAt(q)' = rev' => q = p
  BY <1>1, <1>2, <1>3
<1>8. pend'.rev < rev' /\ \A i \in 1 .. Len(queue') : queue'[i].rev < rev'
  BY <1>1, <1>3, <1>5, PipeTypes
<1>9. Behind(rev)'
  BY <1>8 DEF Behind
<1>10. pend'.rev <= rev' /\ \A i \in 1 .. Len(queue') : queue'[i].rev <= rev'
  BY <1>1, <1>3, <1>5, PipeTypes
<1>. QED
  BY <1>4, <1>6, <1>7, <1>9, <1>10 DEF OrderInv

LEMMA SendsKeep ==
    ASSUME DispatchTypeOK, OrderInv, NEW p \in Places, NEW u \in Updates, Sends(p, u)
    PROVE  OrderInv'
<1>1. rev \in Nat /\ u.rev \in Nat /\ \A q \in Places : RevisionAt(q) \in 0 .. rev
  BY PipeTypes DEF OrderInv, Updates
<1>2. rev' = rev /\ queue' = queue /\ u.rev = RevisionAt(p) /\ RevisionAt(p) > 0
      /\ pend' = IF u.rev < rev THEN pend ELSE u
  BY DEF Sends, dispatchAuthUpdates
<1>3. \A q \in Places : RevisionAt(q)' = IF q = p THEN 0 ELSE RevisionAt(q)
  BY DEF Sends
<1>4. CASE RevisionAt(p) < rev
  <2>1. Quiet
    BY <1>2, <1>3, <1>4 DEF Quiet
  <2>. QED
    BY <2>1, QuietKeeps
<1>5. CASE RevisionAt(p) = rev
  <2>1. pend' = u /\ u.rev = rev /\ rev > 0
    BY <1>1, <1>2, <1>5
  <2>2. Behind(rev)
    BY <1>5, <2>1 DEF OrderInv
  <2>3. NewestLast'
    BY <1>2, <2>1, <2>2 DEF OrderInv, NewestLast, Behind
  <2>4. \A q \in Places : RevisionAt(q)' \in 0 .. rev'
    BY <1>1, <1>2, <1>3
  <2>5. \A q \in Places : RevisionAt(q)' # rev'
    BY <1>2, <1>3, <1>5, <2>1 DEF OrderInv
  <2>6. pend'.rev <= rev' /\ \A i \in 1 .. Len(queue') : queue'[i].rev <= rev'
    BY <1>1, <1>2, <2>1 DEF OrderInv
  <2>. QED
    BY <2>3, <2>4, <2>5, <2>6 DEF OrderInv
<1>. QED
  BY <1>1, <1>4, <1>5

\* The channel takes what is pending.
LEMMA LoopKeeps ==
    ASSUME DispatchTypeOK, OrderInv, DispatchLoop
    PROVE  OrderInv'
<1>1. /\ queue' = Append(queue, pend) /\ pend' = NoUpdate /\ pend # NoUpdate
      /\ rev' = rev /\ rescan' = rescan /\ scan' = scan /\ cons' = cons
  BY DEF DispatchLoop, state, service
<1>2. /\ Len(queue') = Len(queue) + 1 /\ queue'[Len(queue) + 1] = pend
      /\ \A i \in 1 .. Len(queue) : queue'[i] = queue[i]
  BY <1>1, PipeTypes
<1>3. \A p \in Places : RevisionAt(p)' = RevisionAt(p)
  BY <1>1 DEF RevisionAt
<1>4. /\ \A i \in 1 .. Len(queue) : queue[i].rev < pend.rev
      /\ \A i, j \in 1 .. Len(queue) : i < j => queue[i].rev < queue[j].rev
      /\ pend.rev <= rev /\ \A i \in 1 .. Len(queue) : queue[i].rev <= rev
  BY <1>1 DEF OrderInv, NewestLast
<1>5. 1 .. Len(queue') = 1 .. Len(queue) \cup {Len(queue) + 1}
  BY <1>2, PipeTypes
<1>6. ASSUME NEW i \in 1 .. Len(queue'), NEW j \in 1 .. Len(queue'), i < j
      PROVE  queue'[i].rev < queue'[j].rev
  <2>1. i \in 1 .. Len(queue)
    BY <1>2, <1>6, PipeTypes
  <2>2. CASE j = Len(queue) + 1
    BY <1>2, <1>4, <2>1, <2>2
  <2>3. CASE j \in 1 .. Len(queue)
    BY <1>2, <1>4, <1>6, <2>1, <2>3
  <2>. QED
    BY <1>5, <2>2, <2>3
<1>7. NewestLast'
  BY <1>1, <1>6 DEF NewestLast
<1>8. pend'.rev = 0 /\ rev \in Nat
  BY <1>1, UpdateFacts, PipeTypes
<1>9. \A i \in 1 .. Len(queue') : queue'[i].rev <= rev'
  BY <1>1, <1>2, <1>4, <1>5
<1>10. \A p \in Places : RevisionAt(p) = rev /\ rev > 0 => Behind(rev)'
  <2>1. SUFFICES ASSUME NEW p \in Places, RevisionAt(p) = rev, rev > 0 PROVE Behind(rev)'
    OBVIOUS
  <2>2. pend.rev < rev /\ \A i \in 1 .. Len(queue) : queue[i].rev < rev
    BY <2>1 DEF OrderInv, Behind
  <2>3. \A i \in 1 .. Len(queue') : queue'[i].rev < rev'
    BY <1>1, <1>2, <1>5, <2>2
  <2>. QED
    BY <1>1, <1>8, <2>1, <2>3 DEF Behind
<1>11. \A p \in Places : RevisionAt(p)' \in 0 .. rev'
  BY <1>1, <1>3 DEF OrderInv
<1>12. \A p, q \in Places : RevisionAt(p)' = rev' /\ RevisionAt(q)' = rev' /\ rev' > 0 => p = q
  BY <1>1, <1>3 DEF OrderInv
<1>13. \A p \in Places : RevisionAt(p)' = rev' /\ rev' > 0 => Behind(rev)'
  BY <1>1, <1>3, <1>10
<1>14. pend'.rev <= rev'
  BY <1>1, <1>8
<1>. QED
  BY <1>7, <1>9, <1>11, <1>12, <1>13, <1>14 DEF OrderInv

\* Who holds no update after the step that it did not hold before.
FileQuiet == rescan' = rescan \/ rescan'.pc # "dispatch"
ScanQuiet(s) == scan'[s] = scan[s] \/ scan'[s].pc # "dispatch"
ConsumerQuiet(c) == cons'[c] = cons[c] \/ cons'[c].pc # "dispatch"

LEMMA RevisionAtIs ==
    /\ RevisionAt(<<"file", Loop>>) = IF rescan.pc = "dispatch" THEN rescan.upd.rev ELSE 0
    /\ \A s \in Scanners :
          RevisionAt(<<"scan", s>>) = IF scan[s].pc = "dispatch" THEN scan[s].upd.rev ELSE 0
    /\ \A c \in Consumers :
          RevisionAt(<<"upload", c>>) = IF cons[c].pc = "dispatch" THEN cons[c].upd.rev ELSE 0
BY DEF RevisionAt

LEMMA PlacesAre ==
    ASSUME NEW p \in Places
    PROVE  \/ p = <<"file", Loop>>
           \/ \E s \in Scanners : p = <<"scan", s>>
           \/ \E c \in Consumers : p = <<"upload", c>>
BY DEF Places

\* What a quiet place holds after a step.
LEMMA PlacesQuiet ==
    /\ FileQuiet =>
          \/ RevisionAt(<<"file", Loop>>)' = RevisionAt(<<"file", Loop>>)
          \/ RevisionAt(<<"file", Loop>>)' = 0
    /\ \A s \in Scanners : ScanQuiet(s) =>
          RevisionAt(<<"scan", s>>)' = RevisionAt(<<"scan", s>>) \/ RevisionAt(<<"scan", s>>)' = 0
    /\ \A c \in Consumers : ConsumerQuiet(c) =>
          \/ RevisionAt(<<"upload", c>>)' = RevisionAt(<<"upload", c>>)
          \/ RevisionAt(<<"upload", c>>)' = 0
BY DEF RevisionAt, FileQuiet, ScanQuiet, ConsumerQuiet

\* A step that stamps and dispatches nothing.
LEMMA StepQuiet ==
    ASSUME DispatchTypeOK, OrderInv, Stamped,
           rev' = rev, pend' = pend, queue' = queue \/ queue' = <<>>,
           FileQuiet, \A s \in Scanners : ScanQuiet(s), \A c \in Consumers : ConsumerQuiet(c)
    PROVE  OrderInv' /\ Stamped'
<1>1. ASSUME NEW p \in Places
      PROVE  RevisionAt(p)' = RevisionAt(p) \/ RevisionAt(p)' = 0
  <2>1. CASE p = <<"file", Loop>>
    BY <2>1, PlacesQuiet
  <2>2. ASSUME NEW s \in Scanners, p = <<"scan", s>>
        PROVE  RevisionAt(p)' = RevisionAt(p) \/ RevisionAt(p)' = 0
    BY <2>2, PlacesQuiet
  <2>3. ASSUME NEW c \in Consumers, p = <<"upload", c>>
        PROVE  RevisionAt(p)' = RevisionAt(p) \/ RevisionAt(p)' = 0
    BY <2>3, PlacesQuiet
  <2>. QED
    BY <2>1, <2>2, <2>3, PlacesAre
<1>2. Quiet
  BY <1>1 DEF Quiet
<1>3. Stamped'
  BY DEF Stamped, FileQuiet, ScanQuiet, ConsumerQuiet
<1>. QED
  BY <1>2, <1>3, QuietKeeps

LEMMA FileKeepsOrder ==
    ASSUME DispatchTypeOK, OrderInv, Stamped,
           \/ BeginWrite \/ EndWrite \/ RemoveFile \/ WindowPasses
           \/ BeginSave \/ WriteSave \/ PublishSave
    PROVE  OrderInv' /\ Stamped'
<1>1. UNCHANGED <<rev, pend, queue, rescan, scan, cons>>
  BY DEF BeginWrite, EndWrite, RemoveFile, WindowPasses, BeginSave, WriteSave, PublishSave,
         state, pipe, service
<1>. QED
  BY <1>1, StepQuiet DEF FileQuiet, ScanQuiet, ConsumerQuiet

\* Events and the holder of authRescanMu
LEMMA RescannerKeepsOrder ==
    ASSUME DispatchTypeOK, OrderInv, Stamped, HandleEvent \/ Rescanner \/ DispatchLoop
    PROVE  OrderInv' /\ Stamped'
<1>1. rev \in Nat /\ rescan \in RescanStates /\ rescan.upd \in Updates
  BY DEF DispatchTypeOK, WatcherTypes, RescanStates
<1>2. <<"file", Loop>> \in Places
  BY DEF Places
<1>3. ASSUME rev' = rev, pend' = pend, queue' = queue, FileQuiet, scan' = scan, cons' = cons
      PROVE  OrderInv' /\ Stamped'
  BY <1>3, StepQuiet DEF ScanQuiet, ConsumerQuiet
<1>4. ASSUME scan' = scan, cons' = cons, NEW p \in Places \ {<<"file", Loop>>}
      PROVE  RevisionAt(p)' = RevisionAt(p)
  <2>1. CASE \E s \in Scanners : p = <<"scan", s>>
    BY <1>4, <2>1 DEF RevisionAt
  <2>2. CASE \E c \in Consumers : p = <<"upload", c>>
    BY <1>4, <2>2 DEF RevisionAt
  <2>. QED
    BY <1>4, <2>1, <2>2, PlacesAre
<1>5. ASSUME rev' = rev + 1, pend' = pend, queue' = queue, scan' = scan, cons' = cons,
             rescan'.pc = "dispatch", rescan'.upd.rev = rev + 1
      PROVE  OrderInv' /\ Stamped'
  <2>1. RevisionAt(<<"file", Loop>>)' = rev + 1
    BY <1>5 DEF RevisionAt
  <2>2. Stamps(<<"file", Loop>>)
    BY <1>1, <1>4, <1>5, <2>1 DEF Stamps
  <2>3. Stamped'
    BY <1>1, <1>5 DEF Stamped
  <2>. QED
    BY <1>2, <2>2, <2>3, StampsKeep
<1>6. CASE HandleEvent
  <2>1. \/ rescan' = [NoOne EXCEPT !.owner = "events", !.pc = "check"]
        \/ rescan' = [NoOne EXCEPT !.owner = "events", !.pc = "stat"]
        \/ rescan' = rescan
    BY <1>6 DEF HandleEvent
  <2>2. rescan' = rescan \/ rescan'.pc # "dispatch"
    BY <2>1 DEF NoOne
  <2>. QED
    BY <1>3, <1>6, <2>2 DEF HandleEvent, FileQuiet, pipe, service
<1>7. CASE StatAfterRemove \/ CheckFile \/ ReadFile \/ CacheHash
  <2>1. rescan'.pc # "dispatch"
    <3>1. CASE StatAfterRemove
      BY <1>1, <3>1 DEF StatAfterRemove, NoOne, RescanStates
    <3>2. CASE CheckFile
      BY <1>1, <3>2 DEF CheckFile, NoOne, RescanStates
    <3>3. CASE ReadFile
      BY <1>1, <3>3 DEF ReadFile, NoOne, RescanStates
    <3>4. CASE CacheHash
      BY <1>1, <3>4 DEF CacheHash, NoOne, RescanStates
    <3>. QED
      BY <1>7, <3>1, <3>2, <3>3, <3>4
  <2>2. UNCHANGED <<rev, pend, queue, scan, cons>>
    BY <1>7 DEF StatAfterRemove, CheckFile, ReadFile, CacheHash, state, pipe, service
  <2>. QED
    BY <1>3, <2>1, <2>2 DEF FileQuiet
<1>8. CASE CommitFile
  <2>1. UNCHANGED <<pend, queue, scan, cons>>
    BY <1>8 DEF CommitFile, pipe, service
  <2>2. \/ rescan' = NoOne /\ rev' = rev
        \/ \E new : /\ rev' = rev + 1
                    /\ rescan' = [rescan EXCEPT !.pc = "dispatch", !.upd = Put(new)]
    BY <1>8 DEF CommitFile
  <2>3. CASE rescan' = NoOne /\ rev' = rev
    BY <1>3, <2>1, <2>3 DEF FileQuiet, NoOne
  <2>4. ASSUME NEW new, rev' = rev + 1,
               rescan' = [rescan EXCEPT !.pc = "dispatch", !.upd = Put(new)]
        PROVE  OrderInv' /\ Stamped'
    <3>1. rescan'.pc = "dispatch" /\ rescan'.upd.rev = rev + 1
      BY <1>1, <2>4 DEF RescanStates, Put
    <3>. QED
      BY <1>5, <2>1, <2>4, <3>1
  <2>. QED
    BY <2>2, <2>3, <2>4
<1>9. CASE CommitRemoval
  <2>1. UNCHANGED <<pend, queue, scan, cons>>
    BY <1>9 DEF CommitRemoval, pipe, service
  <2>2. \/ rescan' = NoOne /\ rev' = rev
        \/ /\ rev' = rev + 1
           /\ rescan' = [rescan EXCEPT !.pc = "dispatch", !.upd = Delete(TRUE)]
    BY <1>9 DEF CommitRemoval
  <2>3. CASE rescan' = NoOne /\ rev' = rev
    BY <1>3, <2>1, <2>3 DEF FileQuiet, NoOne
  <2>4. CASE /\ rev' = rev + 1
             /\ rescan' = [rescan EXCEPT !.pc = "dispatch", !.upd = Delete(TRUE)]
    <3>1. rescan'.pc = "dispatch" /\ rescan'.upd.rev = rev + 1
      BY <1>1, <2>4 DEF RescanStates, Delete
    <3>. QED
      BY <1>5, <2>1, <2>4, <3>1
  <2>. QED
    BY <2>2, <2>3, <2>4
<1>10. CASE DispatchFile
  <2>1. /\ rescan.pc = "dispatch" /\ dispatchAuthUpdates(rescan.upd) /\ rescan' = NoOne
        /\ UNCHANGED <<rev, queue, scan, cons>>
    BY <1>10 DEF DispatchFile, state, service
  <2>2. /\ RevisionAt(<<"file", Loop>>) = rescan.upd.rev /\ rescan.upd.rev > 0
        /\ RevisionAt(<<"file", Loop>>)' = 0
    BY <2>1 DEF RevisionAt, Stamped, NoOne
  <2>3. Sends(<<"file", Loop>>, rescan.upd)
    BY <1>4, <2>1, <2>2 DEF Sends
  <2>4. Stamped'
    BY <2>1 DEF Stamped, NoOne
  <2>. QED
    BY <1>1, <1>2, <2>3, <2>4, SendsKeep
<1>11. CASE DispatchLoop
  <2>1. Stamped'
    BY <1>11 DEF DispatchLoop, Stamped, service
  <2>. QED
    BY <1>11, <2>1, LoopKeeps
<1>. QED
  BY <1>6, <1>7, <1>8, <1>9, <1>10, <1>11 DEF Rescanner

\* A full scan stamps what it merges, and dispatches it.
LEMMA ScannerKeepsOrder ==
    ASSUME DispatchTypeOK, OrderInv, Stamped, NEW s \in Scanners,
           \/ Scanner(s)
           \/ \E setting \in {"authDir", "provider", "force", "other"} : ReloadClients(s, setting)
    PROVE  OrderInv' /\ Stamped'
<1>1. /\ rev \in Nat /\ scan \in [Scanners -> ScanStates] /\ scan[s] \in ScanStates
      /\ scan[s].upd \in Updates
  BY DEF DispatchTypeOK, WatcherTypes, ScanStates
<1>2. <<"scan", s>> \in Places
  BY DEF Places
<1>3. ASSUME NEW x, scan' = [scan EXCEPT ![s] = x], x.pc # "dispatch",
             rev' = rev, pend' = pend, queue' = queue, FileQuiet, cons' = cons
      PROVE  OrderInv' /\ Stamped'
  <2>1. \A t \in Scanners : ScanQuiet(t)
    BY <1>1, <1>3 DEF ScanQuiet
  <2>. QED
    BY <1>3, <2>1, StepQuiet DEF ConsumerQuiet
<1>4. ASSUME NEW x, scan' = [scan EXCEPT ![s] = x], rescan' = rescan, cons' = cons,
             NEW p \in Places \ {<<"scan", s>>}
      PROVE  RevisionAt(p)' = RevisionAt(p)
  <2>1. CASE p = <<"file", Loop>>
    BY <1>4, <2>1 DEF RevisionAt
  <2>2. ASSUME NEW t \in Scanners, p = <<"scan", t>>
        PROVE  RevisionAt(p)' = RevisionAt(p)
    <3>1. scan'[t] = scan[t]
      BY <1>1, <1>4, <2>2
    <3>. QED
      BY <2>2, <3>1 DEF RevisionAt
  <2>3. CASE \E c \in Consumers : p = <<"upload", c>>
    BY <1>4, <2>3 DEF RevisionAt
  <2>. QED
    BY <1>4, <2>1, <2>2, <2>3, PlacesAre
<1>5. ASSUME NEW setting \in {"authDir", "provider", "force", "other"},
             ReloadClients(s, setting)
      PROVE  OrderInv' /\ Stamped'
  <2>. DEFINE x == [IdleScan EXCEPT !.pc = IF setting = "authDir" THEN "hashes" ELSE "start",
                                    !.force = (setting = "force")]
  <2>1. scan' = [scan EXCEPT ![s] = x] /\ x.pc # "dispatch"
    BY <1>5, Zenon DEF ReloadClients, IdleScan
  <2>2. UNCHANGED <<rev, pend, queue, rescan, cons>>
    BY <1>5 DEF ReloadClients, pipe, service
  <2>. HIDE DEF x
  <2>. QED
    BY <1>3, <2>1, <2>2 DEF FileQuiet
<1>6. ASSUME NEW pc, pc # "dispatch", GoTo(s, pc), UNCHANGED <<rev, pend, queue, cons>>, FileQuiet
      PROVE  OrderInv' /\ Stamped'
  <2>. DEFINE x == [scan[s] EXCEPT !.pc = pc]
  <2>1. scan' = [scan EXCEPT ![s] = x] /\ x.pc # "dispatch"
    BY <1>1, <1>6 DEF GoTo, ScanStates
  <2>. HIDE DEF x
  <2>. QED
    BY <1>3, <1>6, <2>1
<1>7. CASE RescanRead(s)
  BY <1>6, <1>7 DEF RescanRead, FileQuiet, NoOne, state, pipe, service
<1>8. CASE RescanCommit(s)
  BY <1>6, <1>8 DEF RescanCommit, FileQuiet, NoOne, pipe, service
<1>9. CASE ScanReread(s)
  BY <1>6, <1>9 DEF ScanReread, FileQuiet, NoOne, pipe, service
<1>10. CASE ScanDone(s)
  BY <1>6, <1>10 DEF ScanDone, FileQuiet, state, pipe, service
<1>11. CASE ScanStart(s)
  <2>. DEFINE x == [scan[s] EXCEPT !.pc = "read", !.rev = rev]
  <2>1. scan' = [scan EXCEPT ![s] = x] /\ x.pc # "dispatch"
    BY <1>1, <1>11 DEF ScanStart, ScanStates
  <2>. HIDE DEF x
  <2>. QED
    BY <1>3, <1>11, <2>1 DEF ScanStart, FileQuiet, pipe, service
<1>12. CASE ScanRead(s)
  <2>. DEFINE x == [scan[s] EXCEPT !.pc = "commit", !.data = disk]
  <2>1. scan' = [scan EXCEPT ![s] = x] /\ x.pc # "dispatch"
    BY <1>1, <1>12 DEF ScanRead, ScanStates
  <2>. HIDE DEF x
  <2>. QED
    BY <1>3, <1>12, <2>1 DEF ScanRead, FileQuiet, state, pipe, service
<1>13. CASE ScanCommit(s)
  <2>1. UNCHANGED <<pend, queue, rescan, cons>>
    BY <1>13 DEF ScanCommit, pipe, service
  <2>2. \E upd, reread : 
           /\ upd = NoUpdate \/ upd.rev = rev + 1
           /\ rev' = IF upd = NoUpdate THEN rev ELSE rev + 1
           /\ scan' = [scan EXCEPT ![s].pc = "dispatch", ![s].upd = upd, ![s].reread = reread]
    BY <1>13, Zenon DEF ScanCommit, Put, Delete
  <2>3. PICK upd, reread :
           /\ upd = NoUpdate \/ upd.rev = rev + 1
           /\ rev' = IF upd = NoUpdate THEN rev ELSE rev + 1
           /\ scan' = [scan EXCEPT ![s].pc = "dispatch", ![s].upd = upd, ![s].reread = reread]
    BY <2>2
  <2>. DEFINE x == [scan[s] EXCEPT !.pc = "dispatch", !.upd = upd, !.reread = reread]
  <2>4. scan' = [scan EXCEPT ![s] = x] /\ x.pc = "dispatch" /\ x.upd = upd
    BY <1>1, <2>3 DEF ScanStates
  <2>. HIDE DEF x
  <2>5. scan'[s].pc = "dispatch" /\ scan'[s].upd = upd
        /\ \A t \in Scanners \ {s} : scan'[t] = scan[t]
    BY <1>1, <2>4
  <2>6. RevisionAt(<<"scan", s>>)' = upd.rev
    BY <2>5 DEF RevisionAt
  <2>7. \A p \in Places \ {<<"scan", s>>} : RevisionAt(p)' = RevisionAt(p)
    BY <1>4, <2>1, <2>4
  <2>8. CASE upd = NoUpdate
    <3>1. RevisionAt(<<"scan", s>>)' = 0
      BY <2>6, <2>8, UpdateFacts
    <3>2. Quiet
      BY <2>1, <2>3, <2>7, <2>8, <3>1 DEF Quiet
    <3>3. Stamped'
      BY <2>1, <2>5, <2>8 DEF Stamped
    <3>. QED
      BY <3>2, <3>3, QuietKeeps
  <2>9. CASE upd # NoUpdate
    <3>1. Stamps(<<"scan", s>>)
      BY <1>1, <2>1, <2>3, <2>6, <2>7, <2>9 DEF Stamps
    <3>2. Stamped'
      BY <1>1, <2>1, <2>3, <2>5, <2>9 DEF Stamped
    <3>. QED
      BY <1>2, <3>1, <3>2, StampsKeep
  <2>. QED
    BY <2>8, <2>9
<1>14. CASE ScanDispatch(s)
  <2>. DEFINE x == [IdleScan EXCEPT !.pc = IF scan[s].reread THEN "reread" ELSE "idle"]
  <2>1. /\ scan' = [scan EXCEPT ![s] = x] /\ x.pc # "dispatch"
        /\ scan[s].pc = "dispatch"
        /\ IF scan[s].upd = NoUpdate THEN pend' = pend ELSE dispatchAuthUpdates(scan[s].upd)
    BY <1>14, Zenon DEF ScanDispatch, IdleScan
  <2>2. UNCHANGED <<rev, queue, rescan, cons>>
    BY <1>14 DEF ScanDispatch, state, service
  <2>. HIDE DEF x
  <2>3. CASE scan[s].upd = NoUpdate
    BY <1>3, <2>1, <2>2, <2>3 DEF FileQuiet
  <2>4. CASE scan[s].upd # NoUpdate
    <3>1. scan'[s].pc # "dispatch" /\ \A t \in Scanners \ {s} : scan'[t] = scan[t]
      BY <1>1, <2>1
    <3>2. RevisionAt(<<"scan", s>>)' = 0 /\ RevisionAt(<<"scan", s>>) = scan[s].upd.rev
      BY <2>1, <3>1 DEF RevisionAt
    <3>3. scan[s].upd.rev > 0
      BY <2>1, <2>4 DEF Stamped
    <3>4. \A p \in Places \ {<<"scan", s>>} : RevisionAt(p)' = RevisionAt(p)
      BY <1>4, <2>1, <2>2
    <3>5. Sends(<<"scan", s>>, scan[s].upd)
      BY <2>1, <2>2, <2>4, <3>2, <3>3, <3>4 DEF Sends
    <3>6. Stamped'
      BY <2>2, <3>1 DEF Stamped
    <3>. QED
      BY <1>1, <1>2, <3>5, <3>6, SendsKeep
  <2>. QED
    BY <2>3, <2>4
<1>. QED
  BY <1>5, <1>7, <1>8, <1>9, <1>10, <1>11, <1>12, <1>13, <1>14 DEF Scanner

\* A step of one consumer that leaves it without an update to dispatch.
LEMMA ConsumerMoves ==
    ASSUME DispatchTypeOK, OrderInv, Stamped, NEW c \in Consumers, NEW x,
           cons' = [cons EXCEPT ![c] = x], x.pc # "dispatch", FileQuiet, scan' = scan,
           rev' = rev, pend' = pend, queue' = queue \/ queue' = <<>>
    PROVE  OrderInv' /\ Stamped'
<1>1. cons \in [Consumers -> ConsumerStates]
  BY DEF DispatchTypeOK, ServiceTypes
<1>2. \A d \in Consumers : ConsumerQuiet(d)
  BY <1>1 DEF ConsumerQuiet
<1>. QED
  BY <1>2, StepQuiet DEF ScanQuiet

LEMMA UploadKeepsOrder ==
    ASSUME DispatchTypeOK, OrderInv, Stamped, NEW u \in Uploads, BeginUpload(u) \/ Uploader(u)
    PROVE  OrderInv' /\ Stamped'
<1>1. /\ rev \in Nat /\ u \in Consumers /\ cons \in [Consumers -> ConsumerStates]
      /\ cons[u] \in ConsumerStates /\ cons[u].upd \in Updates
  BY DEF DispatchTypeOK, WatcherTypes, ServiceTypes, ConsumerStates, Consumers
<1>2. <<"upload", u>> \in Places
  BY <1>1 DEF Places
<1>3. ASSUME NEW x, cons' = [cons EXCEPT ![u] = x], x.pc # "dispatch",
             UNCHANGED <<rev, pend, queue, rescan, scan>>
      PROVE  OrderInv' /\ Stamped'
  BY <1>1, <1>3, ConsumerMoves DEF FileQuiet
<1>4. ASSUME NEW x, cons' = [cons EXCEPT ![u] = x], rescan' = rescan, scan' = scan,
             NEW p \in Places \ {<<"upload", u>>}
      PROVE  RevisionAt(p)' = RevisionAt(p)
  <2>1. CASE p = <<"file", Loop>>
    BY <1>4, <2>1 DEF RevisionAt
  <2>2. CASE \E s \in Scanners : p = <<"scan", s>>
    BY <1>4, <2>2 DEF RevisionAt
  <2>3. ASSUME NEW d \in Consumers, p = <<"upload", d>>
        PROVE  RevisionAt(p)' = RevisionAt(p)
    <3>1. cons'[d] = cons[d]
      BY <1>1, <1>4, <2>3
    <3>. QED
      BY <2>3, <3>1 DEF RevisionAt
  <2>. QED
    BY <1>4, <2>1, <2>2, <2>3, PlacesAre
<1>5. CASE BeginUpload(u)
  <2>. DEFINE x == [cons[u] EXCEPT !.pc = "write", !.c = Fresh]
  <2>1. cons' = [cons EXCEPT ![u] = x] /\ x.pc # "dispatch"
    BY <1>1, <1>5 DEF BeginUpload, ConsumerStates
  <2>. HIDE DEF x
  <2>. QED
    BY <1>3, <1>5, <2>1 DEF BeginUpload, state, pipe
<1>6. CASE EndUpload(u)
  <2>. DEFINE x == [cons[u] EXCEPT !.pc = "upsert"]
  <2>1. cons' = [cons EXCEPT ![u] = x] /\ x.pc # "dispatch"
    BY <1>1, <1>6 DEF EndUpload, Step, ConsumerStates
  <2>. HIDE DEF x
  <2>. QED
    BY <1>3, <1>6, <2>1 DEF EndUpload, state, pipe
<1>7. CASE UpsertRecord(u)
  <2>1. PICK y : cons' = [cons EXCEPT ![u].pc = "persist", ![u].upd = y]
    BY <1>7 DEF UpsertRecord
  <2>. DEFINE x == [cons[u] EXCEPT !.pc = "persist", !.upd = y]
  <2>2. cons' = [cons EXCEPT ![u] = x] /\ x.pc # "dispatch"
    BY <1>1, <2>1 DEF ConsumerStates
  <2>. HIDE DEF x
  <2>. QED
    BY <1>3, <1>7, <2>2 DEF UpsertRecord, state, pipe
<1>8. CASE DispatchPersisted(u)
  <2>. DEFINE x == [cons[u] EXCEPT !.pc = "dispatch", !.upd.rev = rev + 1]
  <2>1. cons' = [cons EXCEPT ![u] = x] /\ x.pc = "dispatch" /\ x.upd.rev = rev + 1
    BY <1>1, <1>8 DEF DispatchPersisted, ConsumerStates, Updates
  <2>. HIDE DEF x
  <2>2. rev' = rev + 1 /\ UNCHANGED <<pend, queue, rescan, scan>>
    BY <1>8 DEF DispatchPersisted, pipe
  <2>3. cons'[u] = x /\ \A d \in Consumers \ {u} : cons'[d] = cons[d]
    BY <1>1, <2>1
  <2>4. RevisionAt(<<"upload", u>>)' = rev + 1
    BY <2>1, <2>3 DEF RevisionAt
  <2>5. Stamps(<<"upload", u>>)
    <3>1. \A p \in Places \ {<<"upload", u>>} : RevisionAt(p)' = RevisionAt(p)
      BY <1>4, <2>1, <2>2
    <3>. QED
      BY <1>1, <2>2, <2>4, <3>1 DEF Stamps
  <2>6. Stamped'
    BY <1>1, <2>1, <2>2, <2>3 DEF Stamped
  <2>. QED
    BY <1>2, <2>5, <2>6, StampsKeep
<1>9. CASE EnqueuePersisted(u)
  <2>. DEFINE x == [cons[u] EXCEPT !.pc = "arrive"]
  <2>1. cons' = [cons EXCEPT ![u] = x] /\ x.pc # "dispatch"
    BY <1>1, <1>9 DEF EnqueuePersisted, Step, ConsumerStates
  <2>. HIDE DEF x
  <2>2. /\ cons[u].pc = "dispatch" /\ dispatchAuthUpdates(cons[u].upd)
        /\ UNCHANGED <<rev, queue, rescan, scan>>
    BY <1>9 DEF EnqueuePersisted, state
  <2>3. cons'[u] = x /\ \A d \in Consumers \ {u} : cons'[d] = cons[d]
    BY <1>1, <2>1
  <2>4. /\ RevisionAt(<<"upload", u>>)' = 0 /\ RevisionAt(<<"upload", u>>) = cons[u].upd.rev
        /\ cons[u].upd.rev > 0
    BY <1>1, <2>1, <2>2, <2>3 DEF RevisionAt, Stamped
  <2>5. Sends(<<"upload", u>>, cons[u].upd)
    <3>1. \A p \in Places \ {<<"upload", u>>} : RevisionAt(p)' = RevisionAt(p)
      BY <1>4, <2>1, <2>2
    <3>. QED
      BY <2>2, <2>4, <3>1 DEF Sends
  <2>6. Stamped'
    BY <2>1, <2>2, <2>3 DEF Stamped
  <2>. QED
    BY <1>1, <1>2, <2>5, <2>6, SendsKeep
<1>. QED
  BY <1>5, <1>6, <1>7, <1>8, <1>9 DEF Uploader

\* handleAuthUpdates stamps and dispatches nothing.
LEMMA ConsumerKeepsOrder ==
    ASSUME DispatchTypeOK, OrderInv, Stamped, NEW c \in Consumers, Consumer(c)
    PROVE  OrderInv' /\ Stamped'
<1>1. cons \in [Consumers -> ConsumerStates] /\ cons[c] \in ConsumerStates
  BY DEF DispatchTypeOK, ServiceTypes
<1>2. ASSUME NEW pc, pc # "dispatch", Step(c, pc), FileQuiet,
             UNCHANGED <<rev, pend, queue, scan>>
      PROVE  OrderInv' /\ Stamped'
  <2>. DEFINE x == [cons[c] EXCEPT !.pc = pc]
  <2>1. cons' = [cons EXCEPT ![c] = x] /\ x.pc # "dispatch"
    BY <1>1, <1>2 DEF Step, ConsumerStates
  <2>. HIDE DEF x
  <2>. QED
    BY <1>2, <2>1, ConsumerMoves
<1>3. Returned(c).pc # "dispatch"
  BY DEF Returned, IdleConsumer
<1>4. ASSUME cons' = [cons EXCEPT ![c] = Returned(c)], rescan' = rescan, scan' = scan,
             rev' = rev, pend' = pend, queue' = queue \/ queue' = <<>>
      PROVE  OrderInv' /\ Stamped'
  BY <1>3, <1>4, ConsumerMoves DEF FileQuiet
<1>5. CASE SkipClaimed(c)
  <2>1. UNCHANGED <<rev, pend, rescan, scan>> /\ (queue' = queue \/ queue' = <<>>)
    BY <1>5 DEF SkipClaimed, Arrives, state
  <2>2. CASE waiter = 0
    BY <1>4, <1>5, <2>1, <2>2 DEF SkipClaimed
  <2>3. CASE waiter # 0
    <3>. DEFINE x == [cons[c] EXCEPT !.pc = "wait", !.waits = waiter]
    <3>1. cons' = [cons EXCEPT ![c] = x] /\ x.pc # "dispatch"
      BY <1>1, <1>5, <2>3 DEF SkipClaimed, ConsumerStates
    <3>. HIDE DEF x
    <3>. QED
      BY <2>1, <3>1, ConsumerMoves DEF FileQuiet
  <2>. QED
    BY <2>2, <2>3
<1>6. CASE Claim(c)
  <2>. DEFINE x == [cons[c] EXCEPT !.pc = "apply", !.upd = Arrived(c)]
  <2>1. cons' = [cons EXCEPT ![c] = x] /\ x.pc # "dispatch"
    BY <1>1, <1>6 DEF Claim, ConsumerStates
  <2>. HIDE DEF x
  <2>2. UNCHANGED <<rev, pend, rescan, scan>> /\ (queue' = queue \/ queue' = <<>>)
    BY <1>6 DEF Claim, Arrives, state
  <2>. QED
    BY <2>1, <2>2, ConsumerMoves DEF FileQuiet
<1>7. CASE RegisterAuth(c) \/ SkipStale(c) \/ CommitUpdate(c) \/ RereadEnds(c) \/ ApplyRemoval(c)
  <2>1. Step(c, "register") /\ UNCHANGED <<rev, pend, queue, rescan, scan>>
    BY <1>7
       DEF RegisterAuth, SkipStale, CommitUpdate, RereadEnds, ApplyRemoval, Applied, state, pipe
  <2>. QED
    BY <1>2, <2>1 DEF FileQuiet
<1>8. CASE CheckSnapshot(c)
  <2>1. (Step(c, "commit") \/ Step(c, "discard")) /\ UNCHANGED <<rev, pend, queue, rescan, scan>>
    BY <1>8 DEF CheckSnapshot, state, pipe
  <2>. QED
    BY <1>2, <2>1 DEF FileQuiet
<1>9. CASE RereadDiscarded(c)
  <2>1. (Step(c, "rereading") \/ Step(c, "register")) /\ UNCHANGED <<rev, pend, queue, scan>>
    BY <1>9 DEF RereadDiscarded, Applied, pipe
  <2>2. rescan' = rescan \/ rescan' = [NoOne EXCEPT !.owner = c, !.pc = "read"]
    BY <1>9 DEF RereadDiscarded
  <2>3. FileQuiet
    BY <2>2 DEF FileQuiet, NoOne
  <2>. QED
    BY <1>2, <2>1, <2>3
<1>10. CASE CheckDelete(c)
  <2>1. (Step(c, "register") \/ Step(c, "delete")) /\ UNCHANGED <<rev, pend, queue, rescan, scan>>
    BY <1>10 DEF CheckDelete, Applied, state, pipe
  <2>. QED
    BY <1>2, <2>1 DEF FileQuiet
<1>11. CASE FinishRegistration(c) \/ WaitEnds(c)
  BY <1>4, <1>11 DEF FinishRegistration, WaitEnds, state, pipe
<1>. QED
  BY <1>5, <1>6, <1>7, <1>8, <1>9, <1>10, <1>11 DEF Consumer

LEMMA OrderInit ==
    ASSUME WatcherInit
    PROVE  OrderInv /\ Stamped
<1>1. /\ rescan = NoOne /\ rev = 0 /\ pend = NoUpdate /\ queue = <<>> /\ Len(queue) = 0
      /\ cons = [c \in Consumers |-> IdleConsumer]
  BY DEF WatcherInit
<1>2. \A s \in Scanners : scan[s].pc # "dispatch"
  BY DEF WatcherInit, IdleScan
<1>3. \A c \in Consumers : cons[c].pc # "dispatch"
  BY <1>1 DEF IdleConsumer
<1>4. \A p \in Places : RevisionAt(p) = 0
  BY <1>1, <1>2, <1>3, PlacesAre, RevisionAtIs DEF NoOne
<1>5. NewestLast /\ pend.rev = 0
  BY <1>1, UpdateFacts DEF NewestLast
<1>6. Stamped
  BY <1>1, <1>2, <1>3 DEF Stamped, NoOne
<1>. QED
  BY <1>1, <1>4, <1>5, <1>6 DEF OrderInv

LEMMA OrderNext ==
    ASSUME DispatchInv, OrderInv, Stamped, [WatcherNext]_(watcherVars)
    PROVE  OrderInv' /\ Stamped'
<1>1. DispatchTypeOK
  BY DEF DispatchInv
<1>2. CASE UNCHANGED watcherVars
  BY <1>1, <1>2, StepQuiet
     DEF watcherVars, state, pipe, service, FileQuiet, ScanQuiet, ConsumerQuiet
<1>. QED
  BY <1>1, <1>2, FileKeepsOrder, RescannerKeepsOrder, ScannerKeepsOrder, UploadKeepsOrder,
     ConsumerKeepsOrder
     DEF WatcherNext

(* However events, scans, persisted updates and uploads cross, the queue   *)
(* carries the updates in the order of their revisions and what is pending *)
(* is newer than all of it: of the updates that handleAuthUpdates drains   *)
(* at once the last, which wins, is the newest, and no revision is carried *)
(* twice (dispatchAuthUpdates, nextPendingBatch).                          *)
THEOREM UpdatesInOrder == WatcherSpec => []NewestLast
<1>1. WatcherInit => OrderInv /\ Stamped
  BY OrderInit
<1>2. DispatchInv /\ (OrderInv /\ Stamped) /\ [WatcherNext]_(watcherVars)
         => (OrderInv /\ Stamped)'
  BY OrderNext
<1>3. OrderInv => NewestLast
  BY DEF OrderInv
<1>. QED
  BY <1>1, <1>2, <1>3, DispatchInvariance, PTL DEF WatcherSpec
==============================================================================
