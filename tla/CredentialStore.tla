-------------------------- MODULE CredentialStore --------------------------
(***************************************************************************)
(* How the Manager changes credentials and saves them in the store         *)
(* (sdk/cliproxy/auth/conductor_lifecycle.go, conductor_persistence.go).   *)
(*                                                                         *)
(* A mutator is a goroutine in Register, Update, Modify,                   *)
(* UpdateRefreshedAuth, MarkResult or RemoveIf; a saver is one in          *)
(* PersistMetadataEntry; the loader is one in Load.  A mutator and a saver *)
(* hold a share of the reload barrier authLoadGate and the gate of their   *)
(* credential until they have published; Load holds the whole barrier.     *)
(* Manager.mu is free during Store.Save, so goroutines that write runtime  *)
(* state under Manager.mu alone (a failed refresh) run in between.         *)
(*                                                                         *)
(* A step is one critical section of Manager.mu, of a preemption state's   *)
(* mu, one channel or semaphore operation, or one call of the store.       *)
(* A credential is a record of independent fields.  edit stands for the    *)
(* content callers change and run for runtime state that is not saved;     *)
(* hint is the metadata entry of PersistMetadataEntry and stamp a field    *)
(* the store fills in (FileName, the path attribute).                      *)
(***************************************************************************)
EXTENDS Integers, Sequences

CONSTANTS
    Ids,         \* credentials
    Stored,      \* those that the store holds at the start
    Mutators,    \* goroutines that change credentials, numbers
    Savers,      \* goroutines in PersistMetadataEntry
    Loader,      \* the goroutine in Load
    None,        \* no credential, no goroutine
    Kinds,       \* what the mutators do, a subset of AllKinds
    MetaIds,     \* credentials of provider meta: publish only what is saved
    MaxEvents    \* bound: calls that begin, runtime writes and saves that fail

AllKinds == {"register", "update", "modify", "refresh", "result", "remove"}

(* A credential as the Manager holds it.                                   *)
Objects == [epoch : Nat, gen : Nat, edit : Nat, run : Nat, hint : Nat, stamp : Nat]

ASSUME CredentialStoreAssumption ==
    /\ Kinds \subseteq AllKinds
    /\ Stored \subseteq Ids /\ MetaIds \subseteq Ids
    /\ Mutators \subseteq Nat
    /\ Mutators \cap Savers = {} /\ Loader \notin Mutators \cup Savers
    /\ None \notin Ids \cup Mutators \cup Savers \cup {Loader}
    /\ None \notin Objects
    /\ MaxEvents \in Nat

Actors == Mutators \cup Savers \cup {Loader}

VARIABLES
    auths,       \* Manager.auths
    authEpochs,  \* Manager.authEpochs
    store,       \* what the store holds of a credential
    persisted,   \* persistLocks: lastEpoch and lastGeneration
    holders,     \* goroutines that hold a share of authLoadGate, or all of it
    waiting,     \* goroutines that wait for authLoadGate, in order
    gate,        \* authMutationLocks: the goroutine that holds the gate
    waiters,     \* metadataPersistPreempt(id).waiters
    cancelOf,    \* metadataPersistPreempt(id).cancel
    saveGate,    \* metadataSaveGate: the saver that holds the gate
    registered,  \* the saver behind cancel and done of the global state
    fgActive,    \* the mutators that fgActive counts
    cancelled,   \* savers whose context is cancelled
    pc,          \* progress of the goroutines
    op,          \* what a mutator or saver works on
    items,       \* what Load has read from the store
    events,      \* events so far; they number the values that are written
    unsaved,     \* history: the last save of a credential did not succeed
    owed         \* history: the newest value of run

mgrVars == <<auths, authEpochs, owed>>
gateVars == <<holders, waiting, gate, waiters, cancelOf>>
saveVars == <<saveGate, registered, fgActive>>
diskVars == <<store, persisted, unsaved>>
vars == <<mgrVars, diskVars, gateVars, saveVars, cancelled, pc, op, items, events>>

NoOp == [kind |-> "none"]

(* The start, after Load.                                                  *)
Init ==
    /\ store = [i \in Ids |-> IF i \in Stored THEN [edit |-> 0, hint |-> 0] ELSE None]
    /\ authEpochs = [i \in Ids |-> IF store[i] = None THEN 0 ELSE 1]
    /\ auths = [i \in Ids |-> IF store[i] = None THEN None
                               ELSE [epoch |-> 1, gen |-> 1, edit |-> 0, run |-> 0, hint |-> 0, stamp |-> 1]]
    /\ persisted = [i \in Ids |-> [epoch |-> 0, gen |-> 0]]
    /\ holders = {}
    /\ waiting = <<>>
    /\ gate = [i \in Ids |-> None]
    /\ waiters = [i \in Ids |-> {}]
    /\ cancelOf = [i \in Ids |-> None]
    /\ saveGate = None
    /\ registered = None
    /\ fgActive = {}
    /\ cancelled = {}
    /\ pc = [a \in Actors |-> "idle"]
    /\ op = [a \in Mutators \cup Savers |-> NoOp]
    /\ items = [i \in Ids |-> None]
    /\ events = 0
    /\ unsaved = [i \in Ids |-> FALSE]
    /\ owed = [i \in Ids |-> 0]

(***************************************************************************)
(* Merging                                                                 *)
(***************************************************************************)

(* Identity and version belong to the Manager and are never merged.        *)
Owned == {"epoch", "gen"}

(* mergeAuthSaveDelta: what changed from before to after goes into target; *)
(* preserve keeps a field that target has changed as well.                 *)
Merge(target, before, after, preserve) ==
    [f \in DOMAIN target |->
        IF \/ f \in Owned
           \/ before[f] = after[f]
           \/ preserve /\ target[f] # before[f]
        THEN target[f]
        ELSE after[f]]

(* What a successful Store.Save leaves in the object it was given, and     *)
(* what of it survives a restart.                                          *)
Enriched(a) == [a EXCEPT !.stamp = 1]
Durable(a) == [edit |-> a.edit, hint |-> a.hint]

Larger(m, n) == IF m >= n THEN m ELSE n

(***************************************************************************)
(* The reload barrier and the gates                                        *)
(***************************************************************************)

(* authLoadGate is a weighted semaphore that serves its waiters in order.  *)
(* Acquire with nothing in the way is an entry that is served at once.     *)
Enqueue(a) ==
    /\ waiting' = Append(waiting, a)
    /\ pc' = [pc EXCEPT ![a] = "barrier"]

(* Mutant: Load does not exclude mutations that are under way.             *)
FitsAnyway(a) == TRUE

Fits(a) == IF a = Loader THEN holders = {} ELSE Loader \notin holders

(* Mutant: a mutator that waits does not cancel the metadata save.         *)
AnnounceQuietly(p, i) ==
    /\ waiters' = [waiters EXCEPT ![i] = @ \cup {p}]
    /\ UNCHANGED cancelled

(* lockAuthMutationWithPersistCancel, up to the wait for the gate: a       *)
(* mutator announces itself and cancels the metadata save that is          *)
(* registered for the credential.                                          *)
Announce(p, i) ==
    /\ waiters' = [waiters EXCEPT ![i] = @ \cup {p}]
    /\ cancelled' = cancelled \cup ({cancelOf[i]} \ {None})

PassBarrier(a) ==
    /\ pc[a] = "barrier" /\ Head(waiting) = a /\ Fits(a)
    /\ a \notin cancelled
    /\ waiting' = Tail(waiting)
    /\ holders' = holders \cup {a}
    /\ pc' = [pc EXCEPT ![a] = IF a = Loader THEN "list" ELSE "gate"]
    /\ IF a \in Mutators THEN Announce(a, op[a].id) ELSE UNCHANGED <<waiters, cancelled>>
    /\ UNCHANGED <<mgrVars, diskVars, gate, cancelOf, saveVars, op, items, events>>

(* The end of a mutator: its gate and its share of the barrier are free.   *)
Leave(p) ==
    /\ gate' = [gate EXCEPT ![op[p].id] = None]
    /\ holders' = holders \ {p}
    /\ pc' = [pc EXCEPT ![p] = "idle"]
    /\ op' = [op EXCEPT ![p] = NoOp]

TakeGate(p) ==
    LET i == op[p].id IN
    /\ pc[p] = "gate" /\ gate[i] = None
    /\ gate' = [gate EXCEPT ![i] = p]
    /\ waiters' = [waiters EXCEPT ![i] = @ \ {p}]
    /\ pc' = [pc EXCEPT ![p] = IF op[p].kind = "modify" THEN "clone" ELSE "locked"]
    /\ UNCHANGED <<mgrVars, diskVars, holders, waiting, cancelOf, saveVars, cancelled, op, items, events>>

(* The caller's context ends while a mutator waits.  MarkResult and        *)
(* RemoveIf wait without one.                                              *)
GiveUpWaiting(p) ==
    /\ pc[p] \in {"barrier", "gate"} /\ op[p].kind \notin {"result", "remove"}
    /\ waiting' = SelectSeq(waiting, LAMBDA a : a # p)
    /\ waiters' = [waiters EXCEPT ![op[p].id] = @ \ {p}]
    /\ holders' = holders \ {p}
    /\ pc' = [pc EXCEPT ![p] = "idle"]
    /\ op' = [op EXCEPT ![p] = NoOp]
    /\ UNCHANGED <<mgrVars, diskVars, gate, cancelOf, saveVars, cancelled, items, events>>

(***************************************************************************)
(* Mutators                                                                *)
(***************************************************************************)

(* A call begins, in the first goroutine that is free: they are alike.     *)
(* Update and UpdateRefreshedAuth were given a clone that was taken        *)
(* before; n is the new content.                                           *)
Begin(p, k, i) ==
    /\ pc[p] = "idle" /\ events < MaxEvents
    /\ \A r \in Mutators : r < p => pc[r] # "idle"
    /\ k \in {"update", "refresh"} => auths[i] # None
    /\ op' = [op EXCEPT ![p] = [kind |-> k, id |-> i, n |-> events + 1,
                                snap |-> IF k \in {"update", "refresh"} THEN auths[i] ELSE None]]
    /\ events' = events + 1
    /\ Enqueue(p)
    /\ UNCHANGED <<mgrVars, diskVars, holders, gate, waiters, cancelOf, saveVars, cancelled, items>>

(* Modify clones the credential once it has the gate.                      *)
CloneCurrent(p) ==
    LET i == op[p].id IN
    /\ pc[p] = "clone"
    /\ IF auths[i] = None
       THEN Leave(p)
       ELSE /\ op' = [op EXCEPT ![p].snap = auths[i]]
            /\ pc' = [pc EXCEPT ![p] = "locked"]
            /\ UNCHANGED <<gate, holders>>
    /\ UNCHANGED <<mgrVars, diskVars, waiting, waiters, cancelOf, saveVars, cancelled, items, events>>

(* The object a mutation will save: register starts a registration, update *)
(* and modify replace the content but keep a persisted hint, refresh       *)
(* changes the current object, and result has changed it in place.         *)
NewAuth(p) ==
    LET i == op[p].id
        cur == auths[i]
        snap == op[p].snap
    IN CASE op[p].kind = "register" ->
              [epoch |-> authEpochs[i] + 1, gen |-> 1, edit |-> op[p].n, run |-> 0, hint |-> 0, stamp |-> 0]
         [] op[p].kind \in {"update", "modify"} ->
              [snap EXCEPT !.edit = op[p].n, !.gen = Larger(snap.gen, cur.gen) + 1,
                           !.hint = IF cur.hint # 0 THEN cur.hint ELSE @]
         [] op[p].kind = "refresh" -> [cur EXCEPT !.edit = op[p].n, !.gen = @ + 1]
         [] op[p].kind = "result" -> [cur EXCEPT !.run = op[p].n, !.gen = @ + 1]

(* The early returns: the credential is gone, the caller's registration is *)
(* over, or a refresh started from credentials that are no longer current. *)
Refused(p) ==
    LET cur == auths[op[p].id]
        snap == op[p].snap
    IN \/ op[p].kind # "register" /\ cur = None
       \/ op[p].kind \in {"update", "modify"} /\ snap.epoch < authEpochs[op[p].id]
       \/ op[p].kind = "refresh" /\ cur # None /\ (snap.epoch # cur.epoch \/ snap.edit # cur.edit)

(* The critical section before the save.  Register takes its epoch, and a  *)
(* result goes into the published object, before anything is saved.        *)
Prepare(p) ==
    LET i == op[p].id
        a == NewAuth(p)
    IN
    /\ pc[p] = "locked" /\ op[p].kind # "remove" /\ ~Refused(p)
    /\ op' = [op EXCEPT ![p] = [kind |-> @.kind, id |-> i, auth |-> a, before |-> auths[i], saved |-> a]]
    /\ pc' = [pc EXCEPT ![p] = "persist"]
    /\ authEpochs' = [authEpochs EXCEPT ![i] = a.epoch]
    /\ auths' = IF op[p].kind = "result" THEN [auths EXCEPT ![i] = a] ELSE auths
    /\ owed' = [owed EXCEPT ![i] = IF op[p].kind = "refresh" THEN @ ELSE a.run]
    /\ UNCHANGED <<diskVars, gateVars, saveVars, cancelled, items, events>>

Refuse(p) ==
    /\ pc[p] = "locked" /\ op[p].kind # "remove" /\ Refused(p)
    /\ Leave(p)
    /\ UNCHANGED <<mgrVars, diskVars, waiting, waiters, cancelOf, saveVars, cancelled, items, events>>

(* RemoveIf changes runtime state alone and saves nothing.                 *)
Remove(p) ==
    LET i == op[p].id IN
    /\ pc[p] = "locked" /\ op[p].kind = "remove"
    /\ auths' = [auths EXCEPT ![i] = None]
    /\ authEpochs' = IF auths[i] = None THEN authEpochs ELSE [authEpochs EXCEPT ![i] = @ + 1]
    /\ Leave(p)
    /\ UNCHANGED <<diskVars, waiting, waiters, cancelOf, saveVars, cancelled, owed, items, events>>

(* persist: a save older than one already started is dropped.              *)
Outdated(a, i) ==
    \/ a.epoch < persisted[i].epoch
    \/ a.epoch = persisted[i].epoch /\ a.gen < persisted[i].gen

Persisting(a, i) == persisted' = [persisted EXCEPT ![i] = [epoch |-> a.epoch, gen |-> a.gen]]

(* persist and beginForegroundStoreSave: the mutator counts as active and  *)
(* cancels the metadata save that is registered, whose end it awaits.      *)
StartSave(p) ==
    LET i == op[p].id
        a == op[p].auth
    IN
    /\ pc[p] = "persist"
    /\ IF Outdated(a, i)
       THEN pc' = [pc EXCEPT ![p] = "publish"] /\ UNCHANGED <<persisted, fgActive, cancelled>>
       ELSE /\ Persisting(a, i)
            /\ fgActive' = fgActive \cup {p}
            /\ cancelled' = cancelled \cup ({registered} \ {None})
            /\ pc' = [pc EXCEPT ![p] = IF registered = None THEN "saving" ELSE "drain"]
    /\ UNCHANGED <<mgrVars, store, unsaved, gateVars, saveGate, registered, op, items, events>>

Drained(p) ==
    /\ pc[p] = "drain" /\ registered = None
    /\ pc' = [pc EXCEPT ![p] = "saving"]
    /\ UNCHANGED <<mgrVars, diskVars, gateVars, saveVars, cancelled, op, items, events>>

SaveSucceeds(p) ==
    LET i == op[p].id IN
    /\ pc[p] = "saving"
    /\ store' = [store EXCEPT ![i] = Durable(op[p].auth)]
    /\ unsaved' = [unsaved EXCEPT ![i] = FALSE]
    /\ op' = [op EXCEPT ![p].saved = Enriched(op[p].auth)]
    /\ fgActive' = fgActive \ {p}
    /\ pc' = [pc EXCEPT ![p] = "publish"]
    /\ UNCHANGED <<mgrVars, persisted, gateVars, saveGate, registered, cancelled, items, events>>

(* The save fails, its context asks to skip it, or the caller's context    *)
(* ends during the wait: the mutation stays in memory.                     *)
SaveFails(p) ==
    /\ pc[p] \in {"drain", "saving"} /\ events < MaxEvents
    /\ events' = events + 1
    /\ unsaved' = [unsaved EXCEPT ![op[p].id] = TRUE]
    /\ fgActive' = fgActive \ {p}
    /\ pc' = [pc EXCEPT ![p] = "publish"]
    /\ UNCHANGED <<mgrVars, store, persisted, gateVars, saveGate, registered, cancelled, op, items>>

(* Mutant: the object that was saved is published as it is.                *)
MergedNot(p) == IF op[p].kind = "result" THEN auths[op[p].id] ELSE op[p].saved

(* The object to publish: the store's changes and the runtime writes made  *)
(* during the save are merged into it.                                     *)
Merged(p) ==
    LET cur == auths[op[p].id]
        o == op[p]
        m == Merge(o.saved, o.before, cur, FALSE)
    IN CASE o.kind = "register" -> o.saved
         [] o.kind = "result" -> Merge(cur, o.auth, o.saved, TRUE)
         [] OTHER -> [m EXCEPT !.gen = IF cur.gen >= @ THEN cur.gen + 1 ELSE @]

(* A minted key of provider meta that is not saved is not published.       *)
Withheld(p) ==
    /\ op[p].kind = "refresh" /\ op[p].id \in MetaIds
    /\ unsaved[op[p].id]

(* The critical section after the save.                                    *)
Publish(p) ==
    LET i == op[p].id IN
    /\ pc[p] = "publish"
    /\ IF Withheld(p) \/ authEpochs[i] # op[p].auth.epoch
       THEN UNCHANGED auths
       ELSE auths' = [auths EXCEPT ![i] = Merged(p)]
    /\ owed' = [owed EXCEPT ![i] = IF op[p].kind = "register" THEN 0 ELSE @]
    /\ Leave(p)
    /\ UNCHANGED <<authEpochs, diskVars, waiting, waiters, cancelOf, saveVars, cancelled, items, events>>

(***************************************************************************)
(* PersistMetadataEntry                                                    *)
(***************************************************************************)

(* The first check: the registration of the caller is the current one.     *)
BeginHint(q, i) ==
    /\ pc[q] = "idle" /\ events < MaxEvents /\ auths[i] # None
    /\ op' = [op EXCEPT ![q] = [kind |-> "hint", id |-> i, n |-> events + 1, epoch |-> auths[i].epoch]]
    /\ events' = events + 1
    /\ Enqueue(q)
    /\ UNCHANGED <<mgrVars, diskVars, holders, gate, waiters, cancelOf, saveVars, cancelled, items>>

(* The caller's context ends: the service stops, or has newer hints.       *)
CancelHint(q) ==
    /\ pc[q] # "idle" /\ q \notin cancelled
    /\ cancelled' = cancelled \cup {q}
    /\ UNCHANGED <<mgrVars, diskVars, gateVars, saveVars, pc, op, items, events>>

(* The deferred releases of PersistMetadataEntry, whatever is held.        *)
LeaveHint(q) ==
    LET i == op[q].id IN
    /\ saveGate' = IF saveGate = q THEN None ELSE saveGate
    /\ registered' = IF registered = q THEN None ELSE registered
    /\ cancelOf' = [cancelOf EXCEPT ![i] = IF gate[i] = q THEN None ELSE @]
    /\ gate' = [gate EXCEPT ![i] = IF @ = q THEN None ELSE @]
    /\ holders' = holders \ {q}
    /\ waiting' = SelectSeq(waiting, LAMBDA a : a # q)
    /\ cancelled' = cancelled \ {q}
    /\ pc' = [pc EXCEPT ![q] = "idle"]
    /\ op' = [op EXCEPT ![q] = NoOp]

(* With the gate, a saver either makes way for the mutators that wait or   *)
(* registers how they can cancel it.                                       *)
TakeGateHint(q) ==
    LET i == op[q].id IN
    /\ pc[q] = "gate" /\ gate[i] = None /\ q \notin cancelled
    /\ gate' = [gate EXCEPT ![i] = q]
    /\ IF waiters[i] # {}
       THEN cancelled' = cancelled \cup {q} /\ UNCHANGED cancelOf
       ELSE cancelOf' = [cancelOf EXCEPT ![i] = q] /\ UNCHANGED cancelled
    /\ pc' = [pc EXCEPT ![q] = "save gate"]
    /\ UNCHANGED <<mgrVars, diskVars, holders, waiting, waiters, saveVars, op, items, events>>

(* acquireMetadataSaveGate: the gate of all savers, then a moment with no  *)
(* foreground save, at which the saver registers.                          *)
TakeSaveGate(q) ==
    /\ pc[q] = "save gate" /\ saveGate = None /\ q \notin cancelled
    /\ saveGate' = q
    /\ pc' = [pc EXCEPT ![q] = "foreground"]
    /\ UNCHANGED <<mgrVars, diskVars, gateVars, registered, fgActive, cancelled, op, items, events>>

RegisterSave(q) ==
    /\ pc[q] = "foreground" /\ fgActive = {} /\ q \notin cancelled
    /\ registered' = q
    /\ pc' = [pc EXCEPT ![q] = "check"]
    /\ UNCHANGED <<mgrVars, diskVars, gateVars, saveGate, fgActive, cancelled, op, items, events>>

(* A cancelled context ends every wait, and the check before the save.     *)
AbortHint(q) ==
    /\ pc[q] \in {"barrier", "gate", "save gate", "foreground", "check"} /\ q \in cancelled
    /\ LeaveHint(q)
    /\ UNCHANGED <<mgrVars, diskVars, waiters, fgActive, items, events>>

(* The second check, and validate, which looks at state of the caller's:   *)
(* its answer is open.                                                     *)
PrepareHint(q) ==
    LET i == op[q].id
        a == [auths[i] EXCEPT !.hint = op[q].n]
    IN
    /\ pc[q] = "check" /\ q \notin cancelled
    /\ auths[i] # None /\ auths[i].epoch = op[q].epoch
    /\ op' = [op EXCEPT ![q] = [kind |-> "hint", id |-> i, auth |-> a, before |-> auths[i]]]
    /\ IF Outdated(a, i)
       THEN pc' = [pc EXCEPT ![q] = "publish"] /\ UNCHANGED persisted
       ELSE pc' = [pc EXCEPT ![q] = "saving"] /\ Persisting(a, i)
    /\ UNCHANGED <<mgrVars, store, unsaved, gateVars, saveVars, cancelled, items, events>>

RejectHint(q) ==
    /\ pc[q] = "check"
    /\ LeaveHint(q)
    /\ UNCHANGED <<mgrVars, diskVars, waiters, fgActive, items, events>>

HintSaved(q) ==
    LET i == op[q].id IN
    /\ pc[q] = "saving"
    /\ store' = [store EXCEPT ![i] = Durable(op[q].auth)]
    /\ op' = [op EXCEPT ![q].auth = Enriched(@)]
    /\ pc' = [pc EXCEPT ![q] = "publish"]
    /\ UNCHANGED <<mgrVars, persisted, unsaved, gateVars, saveVars, cancelled, items, events>>

(* A store that is interrupted may or may not have written.                *)
HintSaveFails(q) ==
    LET i == op[q].id IN
    /\ pc[q] = "saving" /\ q \in cancelled
    /\ \E written \in {store[i], Durable(op[q].auth)} :
          /\ store' = [store EXCEPT ![i] = written]
          /\ unsaved' = [unsaved EXCEPT ![i] = @ \/ written # store[i]]
    /\ LeaveHint(q)
    /\ UNCHANGED <<mgrVars, persisted, waiters, fgActive, items, events>>

(* The critical section after the save.  If validate no longer agrees the  *)
(* entry is taken out of memory again; the store keeps it.                 *)
PublishHint(q, valid) ==
    LET i == op[q].id
        cur == auths[i]
        m == Merge(op[q].auth, op[q].before, cur, FALSE)
        gone == cur = None \/ cur.epoch # op[q].auth.epoch
    IN
    /\ pc[q] = "publish"
    /\ auths' = IF gone THEN auths
                ELSE [auths EXCEPT ![i] = IF valid THEN [m EXCEPT !.gen = Larger(@, cur.gen)]
                                                   ELSE [cur EXCEPT !.hint = 0]]
    /\ unsaved' = [unsaved EXCEPT ![i] = @ \/ ~valid]
    /\ LeaveHint(q)
    /\ UNCHANGED <<authEpochs, owed, store, persisted, waiters, fgActive, items, events>>

(***************************************************************************)
(* Load and the runtime writers                                            *)
(***************************************************************************)

BeginLoad ==
    /\ pc[Loader] = "idle" /\ events < MaxEvents
    /\ events' = events + 1
    /\ Enqueue(Loader)
    /\ UNCHANGED <<mgrVars, diskVars, holders, gate, waiters, cancelOf, saveVars, cancelled, op, items>>

ListStore ==
    /\ pc[Loader] = "list"
    /\ items' = store
    /\ pc' = [pc EXCEPT ![Loader] = "replace"]
    /\ UNCHANGED <<mgrVars, diskVars, gateVars, saveVars, cancelled, op, events>>

(* Every credential of the store starts a registration; what the store     *)
(* does not hold is removed.                                               *)
ReplaceAuths ==
    /\ pc[Loader] = "replace"
    /\ authEpochs' = [i \in Ids |-> IF items[i] = None /\ auths[i] = None THEN authEpochs[i]
                                    ELSE authEpochs[i] + 1]
    /\ auths' = [i \in Ids |->
                   IF items[i] = None THEN None
                   ELSE [epoch |-> authEpochs'[i], gen |-> 1, edit |-> items[i].edit, run |-> 0,
                         hint |-> items[i].hint, stamp |-> 1]]
    /\ owed' = [i \in Ids |-> 0]
    /\ unsaved' = [i \in Ids |-> FALSE]
    /\ items' = [i \in Ids |-> None]
    /\ holders' = holders \ {Loader}
    /\ pc' = [pc EXCEPT ![Loader] = "idle"]
    /\ UNCHANGED <<store, persisted, waiting, gate, waiters, cancelOf, saveVars, cancelled, op, events>>

(* A failed refresh writes into the published object under Manager.mu.     *)
RuntimeWrite(i) ==
    /\ auths[i] # None /\ events < MaxEvents
    /\ auths' = [auths EXCEPT ![i].run = events + 1, ![i].gen = @ + 1]
    /\ owed' = [owed EXCEPT ![i] = events + 1]
    /\ events' = events + 1
    /\ UNCHANGED <<authEpochs, diskVars, gateVars, saveVars, cancelled, pc, op, items>>

(***************************************************************************)
(* Specification                                                           *)
(***************************************************************************)

MutatorStep(p) ==
    \/ PassBarrier(p) \/ TakeGate(p) \/ CloneCurrent(p)
    \/ Prepare(p) \/ Refuse(p) \/ Remove(p)
    \/ StartSave(p) \/ Drained(p) \/ SaveSucceeds(p) \/ Publish(p)

(* The steps of a saver that do not depend on the store.                   *)
SaverStep(q) ==
    \/ PassBarrier(q) \/ TakeGateHint(q) \/ TakeSaveGate(q) \/ RegisterSave(q)
    \/ AbortHint(q) \/ PrepareHint(q)
    \/ PublishHint(q, TRUE) \/ PublishHint(q, FALSE)

LoaderStep == PassBarrier(Loader) \/ ListStore \/ ReplaceAuths

Next ==
    \/ \E p \in Mutators :
          \/ \E k \in Kinds, i \in Ids : Begin(p, k, i)
          \/ MutatorStep(p) \/ GiveUpWaiting(p) \/ SaveFails(p)
    \/ \E q \in Savers :
          \/ \E i \in Ids : BeginHint(q, i)
          \/ SaverStep(q) \/ CancelHint(q) \/ RejectHint(q)
          \/ HintSaved(q) \/ HintSaveFails(q)
    \/ BeginLoad \/ LoaderStep
    \/ \E i \in Ids : RuntimeWrite(i)

(* A goroutine that can go on does, and a foreground save ends.  A         *)
(* metadata save is only assumed to end once its context is cancelled.     *)
Fairness ==
    /\ \A p \in Mutators : WF_vars(MutatorStep(p))
    /\ \A q \in Savers : WF_vars(SaverStep(q)) /\ WF_vars(HintSaveFails(q))
    /\ WF_vars(LoaderStep)

Spec == Init /\ [][Next]_vars /\ Fairness

(***************************************************************************)
(* Properties                                                              *)
(***************************************************************************)

(* No goroutine is between its first change and the release of the gate.   *)
Quiet(i) ==
    /\ \A a \in Mutators \cup Savers :
          op[a] # NoOp /\ op[a].id = i => pc[a] \in {"barrier", "gate", "clone", "locked", "save gate", "foreground", "check"}
    /\ pc[Loader] \notin {"list", "replace"}

(* What is published is what a restart would find, unless the last save of *)
(* the credential failed: no interleaving of mutations, metadata saves and *)
(* reloads leaves the store or the memory with the older of two contents.  *)
StoreMatchesPublished ==
    \A i \in Ids : Quiet(i) /\ auths[i] # None /\ ~unsaved[i] => store[i] = Durable(auths[i])

(* A runtime write made while Store.Save ran without Manager.mu is still   *)
(* there after the publication that follows the save.                      *)
NoLostRuntimeWrite ==
    \A i \in Ids : Quiet(i) /\ auths[i] # None => auths[i].run = owed[i]

(* A foreground mutation ends even if metadata saves only return when they *)
(* are cancelled, unless a Load waits in the barrier.                      *)
ForegroundEnds ==
    \A p \in Mutators : pc[p] # "idle" ~> (pc[p] = "idle" \/ pc[Loader] = "barrier")
=============================================================================
