--------------------------- MODULE SchedulerIndex ---------------------------
(***************************************************************************)
(* The scheduler's index of credentials (sdk/cliproxy/auth/scheduler.go)   *)
(* beside the manager's map of them (conductor_lifecycle.go,               *)
(* conductor_cooldown.go, conductor_selection.go).                         *)
(*                                                                         *)
(* The manager changes a credential under m.mu, takes a snapshot, unlocks, *)
(* and only then hands the snapshot to the scheduler, which has a lock of  *)
(* its own.  Snapshots therefore arrive in any order, beside tombstones of *)
(* removed credentials and beside rebuilds of the whole index from an      *)
(* older list.  A request picks from the index, never from the map.        *)
(*                                                                         *)
(* One provider is modelled (a credential that changes provider is removed *)
(* from the old one first).  Time, weights, priorities and the ordering    *)
(* inside a shard are abstracted: a snapshot records what makes a model    *)
(* unavailable now.                                                        *)
(***************************************************************************)
EXTENDS Naturals, FiniteSets, Sequences, TLC

CONSTANTS
  Ids,          \* credentials
  Models,       \* model keys
  ModelSets,    \* the sets of models the registry may give a credential
  AnyModel,     \* the empty model key, whose shard follows the credential
  Picked,       \* the model keys that requests pick with
  Initially,    \* credentials the start-up has registered and scheduled
  Callers,      \* goroutines that change credentials, 1..N
  MaxChanges,   \* bound: changes of credentials and of the model registry
  None

ASSUME ModelsAssumption == AnyModel \notin Models
ASSUME PickedAssumption == Picked \subseteq Models \cup {AnyModel}
ASSUME InitiallyAssumption == Initially \subseteq Ids
ASSUME FiniteAssumption == IsFiniteSet(Ids) /\ IsFiniteSet(Models)
ASSUME ModelSetsAssumption == ModelSets \subseteq SUBSET Models

Keys == Models \cup {AnyModel}

\* A credential as the manager publishes it and as a snapshot carries it:
\* ModelStates (states, and which of them are cooling), Unavailable (down),
\* a credential-wide block (hard: rejected token, credential quota), and the
\* Generation of the last change that concerns every shard (edit).
Auth == [id : Ids, epoch : Nat, gen : Nat, edit : Nat, enabled : BOOLEAN,
         states : SUBSET Models, blocked : SUBSET Models,
         down : BOOLEAN, hard : BOOLEAN]

\* What the scheduler records of a credential: the epoch and generation of the
\* newest snapshot, the meta of its entry, and a shard's entries.
scheduledGenerationMeta == [epoch : Nat, gen : Nat]
scheduledAuthMeta == [snap : Auth, models : SUBSET Models, regEpoch : Nat]
modelScheduler == [Ids -> Auth \cup {None}]

ASSUME NoneAssumption ==
  None \notin Auth \cup scheduledGenerationMeta \cup scheduledAuthMeta \cup modelScheduler

\* Credentials that start alike are interchangeable.
Symmetry == Permutations(Ids)

VARIABLES
  auths,         \* m.auths: None or the published credential
  authEpochs,    \* m.authEpochs: the last registration epoch given out
  reg,           \* the global model registry: each client's models and epoch
  version,       \* structuralEpoch + RegistrationEpoch: currentVersion()
  syncedVersion, \* m.syncedVersion
  sched,         \* the scheduler: authGenerations, auths and modelShards
  syncer,        \* the goroutine that holds syncSchedulerMu
  calls,         \* what each caller has still to do after m.mu was released
  changes        \* changes made so far

vars == <<auths, authEpochs, reg, version, syncedVersion, sched, syncer,
          calls, changes>>

-----------------------------------------------------------------------------
(* Credentials *)

\* A credential that was registered just now.
Fresh(id, epoch) ==
  [id |-> id, epoch |-> epoch, gen |-> 1, edit |-> 1, enabled |-> TRUE,
   states |-> {}, blocked |-> {}, down |-> FALSE, hard |-> FALSE]

\* isAuthBlockedForModel: a model without a state is blocked by the
\* credential's own availability only while no model has a state.
isAuthBlockedForModel(a, k) ==
  \/ a.hard
  \/ IF k = AnyModel \/ a.states = {} THEN a.down ELSE k \in a.blocked

\* isCredentialBlocked: the block that concerns every model.
isCredentialBlocked(a, modelSet) ==
  \/ a.hard
  \/ a.down /\ (a.states = {} \/ Cardinality(a.states) >= Cardinality(modelSet))

\* updateAggregatedAvailability: Unavailable when every known model is.
Aggregated(a) ==
  [a EXCEPT !.down = a.hard \/ (a.states # {} /\ a.states \subseteq a.blocked)]

-----------------------------------------------------------------------------
(* The scheduler.  A meta is the snapshot an entry was built from, the      *)
(* models the registry had for it and the registry epoch read before them. *)

supportsModel(meta, k) == k = AnyModel \/ k \in meta.models

\* upsertAuthForModelsLocked: the meta of the credential and its entries in
\* the existing shards K.
upsertAuthForModels(s, meta, K) ==
  LET id == meta.snap.id
  IN  [s EXCEPT
         !.metas[id] = meta,
         !.shards = [k \in Keys |->
            IF k \in K /\ s.shards[k] # None
            THEN [s.shards[k] EXCEPT ![id] =
                    IF supportsModel(meta, k) THEN meta.snap ELSE None]
            ELSE s.shards[k]]]

removeAuthFromProviders(s, id) ==
  [s EXCEPT
     !.metas[id] = None,
     !.shards = [k \in Keys |->
        IF s.shards[k] = None THEN None ELSE [s.shards[k] EXCEPT ![id] = None]]]

isStaleScheduledAuth(s, a) ==
  /\ s.gens[a.id] # None
  /\ \/ s.gens[a.id].epoch > a.epoch
     \/ s.gens[a.id].epoch = a.epoch /\ s.gens[a.id].gen > a.gen

Recorded(s, a) == [s EXCEPT !.gens[a.id] = [epoch |-> a.epoch, gen |-> a.gen]]

\* Mutant: the models are read before the epoch of their registration.
EpochReadLast(s, a, r, q) ==
  IF isStaleScheduledAuth(s, a) THEN s
  ELSE IF ~a.enabled THEN removeAuthFromProviders(Recorded(s, a), a.id)
  ELSE upsertAuthForModels(Recorded(s, a),
         [snap |-> a, models |-> r[a.id].models, regEpoch |-> q[a.id].epoch],
         Keys)

\* upsertAuthLifecycleLocked.  r is the registry when the client's epoch is
\* read, q when its models are read: the registry has a lock of its own.
upsertAuthLifecycle(s, a, r, q) ==
  IF isStaleScheduledAuth(s, a) THEN s
  ELSE IF ~a.enabled THEN removeAuthFromProviders(Recorded(s, a), a.id)
  ELSE upsertAuthForModels(Recorded(s, a),
         [snap |-> a, models |-> q[a.id].models, regEpoch |-> r[a.id].epoch],
         Keys)

\* Mutant: a stale result refreshes no shard.
DropStaleResult(s, a, K) == s

\* A result overtaken by a newer snapshot still refreshes its own shards,
\* from the newest recorded state.
RefreshFromLatest(s, a, K) ==
  IF s.metas[a.id] = None THEN s ELSE upsertAuthForModels(s, s.metas[a.id], K)

\* upsertAuthResultLocked.
upsertAuthResult(s, a, targets, scoped, r, q) ==
  LET old     == s.metas[a.id]
      scope   == IF scoped \/ targets = {} THEN Keys
                                           ELSE targets \cup {AnyModel}
      changed == \/ old = None
                 \/ old.models = {}
                 \/ old.regEpoch # r[a.id].epoch
      models  == IF changed THEN q[a.id].models ELSE old.models
      was     == old # None /\ isCredentialBlocked(old.snap, models)
      meta    == [snap |-> a, models |-> models, regEpoch |-> r[a.id].epoch]
  IN  IF isStaleScheduledAuth(s, a) THEN RefreshFromLatest(s, a, scope)
      ELSE IF ~a.enabled THEN removeAuthFromProviders(Recorded(s, a), a.id)
      ELSE upsertAuthForModels(Recorded(s, a), meta,
             IF changed \/ was # isCredentialBlocked(a, models)
             THEN Keys ELSE scope)

\* Mutant: a tombstone leaves no epoch behind.
ForgetfulTombstone(s, id, epoch) ==
  IF s.gens[id] # None /\ epoch < s.gens[id].epoch THEN s
  ELSE removeAuthFromProviders([s EXCEPT !.gens[id] = None], id)

\* recordRemovalTombstoneLocked.
RecordRemovalTombstone(s, id, epoch) ==
  IF s.gens[id] # None /\ epoch < s.gens[id].epoch THEN s
  ELSE removeAuthFromProviders(
         [s EXCEPT !.gens[id] = [epoch |-> epoch, gen |-> 0]], id)

\* upsertAuthRebuildLocked: the snapshot that a rebuild schedules for one
\* credential, or None when it schedules nothing.
Scheduled(s, a) ==
  LET g     == s.gens[a.id]
      newer == g # None /\ g.epoch = a.epoch /\ g.gen > a.gen
  IN  IF g # None /\ g.epoch > a.epoch THEN None
      ELSE IF newer THEN IF s.metas[a.id] = None THEN None ELSE s.metas[a.id].snap
      ELSE IF a.enabled THEN a ELSE None

\* rebuild: the whole index from a list of snapshots; shards come back lazily.
rebuild(s, list, r, q) ==
  LET use == [id \in Ids |->
                IF list[id] = None THEN None ELSE Scheduled(s, list[id])]
  IN  [gens   |-> [id \in Ids |->
                     IF use[id] = None THEN s.gens[id]
                     ELSE [epoch |-> use[id].epoch, gen |-> use[id].gen]],
       metas  |-> [id \in Ids |->
                     IF use[id] = None THEN None
                     ELSE [snap |-> use[id], models |-> q[id].models,
                           regEpoch |-> r[id].epoch]],
       shards |-> [k \in Keys |-> None]]

\* needsSyncFromMapLocked.  Disabled credentials are never in metas, so the
\* comparison of counts is a comparison of sets once each one is checked.
Schedulable(map) == {id \in Ids : map[id] # None /\ map[id].enabled}

needsSyncFromMap(s) ==
  \/ Cardinality(Schedulable(auths)) # Cardinality({id \in Ids : s.metas[id] # None})
  \/ \E id \in Ids : auths[id] # None /\ ~auths[id].enabled /\ s.metas[id] # None
  \/ \E id \in Schedulable(auths) :
       \/ s.metas[id] = None
       \/ s.gens[id] = None
       \/ s.gens[id].epoch # auths[id].epoch
       \/ s.metas[id].regEpoch # reg[id].epoch

-----------------------------------------------------------------------------
Init ==
  /\ auths = [id \in Ids |-> IF id \in Initially THEN Fresh(id, 1) ELSE None]
  /\ authEpochs = [id \in Ids |-> IF id \in Initially THEN 1 ELSE 0]
  /\ reg = [id \in Ids |-> [models |-> IF id \in Initially THEN Models ELSE {},
                            epoch  |-> IF id \in Initially THEN 1 ELSE 0]]
  /\ version = 1
  /\ syncedVersion = 1
  /\ sched = rebuild([gens   |-> [id \in Ids |-> None],
                      metas  |-> [id \in Ids |-> None],
                      shards |-> [k \in Keys |-> None]], auths, reg, reg)
  /\ syncer = [pc |-> "idle", ver |-> 0, list |-> None]
  /\ calls = [p \in Callers |-> << >>]
  /\ changes = 0

-----------------------------------------------------------------------------
(* What the manager changes under m.mu, and what the goroutine has still to *)
(* do once it has released it.                                              *)

Upsert(a)         == [do |-> "upsert", id |-> a.id, snap |-> a]
Result(a, T, all) == [do |-> "result", id |-> a.id, snap |-> a,
                      targets |-> T, scoped |-> all]
Tombstone(id, e)  == [do |-> "tombstone", id |-> id, epoch |-> e]
Bump(id)          == [do |-> "bump", id |-> id]
SyncStep          == [do |-> "sync", id |-> None]

Free(p) ==
  /\ calls[p] = << >>
  /\ \A o \in Callers : o < p => calls[o] # << >>

\* Goroutine p has changed something and has todo left.
Begin(p, todo) ==
  /\ changes < MaxChanges
  /\ changes' = changes + 1
  /\ Free(p)
  /\ calls' = [calls EXCEPT ![p] = todo]
  /\ UNCHANGED <<reg, version, syncedVersion, sched, syncer>>

Publish(a) ==
  /\ auths' = [auths EXCEPT ![a.id] = a]
  /\ UNCHANGED authEpochs

\* Register: a new registration epoch, scheduled before the version moves.
Register(p, id) ==
  LET a == Fresh(id, authEpochs[id] + 1)
  IN  /\ authEpochs' = [authEpochs EXCEPT ![id] = @ + 1]
      /\ auths' = [auths EXCEPT ![id] = a]
      /\ Begin(p, <<Upsert(a), Bump(id)>>)

\* Update and Modify with finishAuthUpdate.  A new token lifts a
\* credential-wide block; a disabled credential has no cooldowns.
Update(p, id, enabled) ==
  /\ auths[id] # None
  /\ LET old == auths[id]
         a   == [old EXCEPT !.gen = @ + 1, !.edit = old.gen + 1,
                            !.enabled = enabled, !.hard = FALSE,
                            !.blocked = IF enabled THEN @ ELSE {}]
     IN  /\ Publish(Aggregated(a))
         /\ Begin(p, <<Upsert(Aggregated(a)), Bump(id)>>)

\* RemoveIf: the tombstone has an epoch of its own.
RemoveIf(p, id) ==
  /\ auths[id] # None
  /\ auths' = [auths EXCEPT ![id] = None]
  /\ authEpochs' = [authEpochs EXCEPT ![id] = @ + 1]
  /\ Begin(p, <<Tombstone(id, authEpochs[id] + 1), Bump(id)>>)

\* Load: the credentials S of the store with new epochs, tombstones for the
\* others, and no upserts: the sync at its end has to schedule them.
Load(p, S) ==
  LET gone == {id \in Ids \ S : auths[id] # None}
      e    == [id \in Ids |-> authEpochs[id] +
                 IF id \in S \cup gone THEN 1 ELSE 0]
      n    == Cardinality(gone)
  IN  /\ authEpochs' = e
      /\ auths' = [id \in Ids |-> IF id \in S THEN Fresh(id, e[id]) ELSE None]
      /\ \E o \in [1..n -> gone] :
           /\ {o[i] : i \in 1..n} = gone
           /\ Begin(p, [i \in 1..n |-> Tombstone(o[i], e[o[i]])]
                         \o <<Bump(None), SyncStep>>)

\* ResetQuota (and the clearing in ReconcileRegistryModelStates and
\* clearDisabledCooldownStates): every cooldown ends; the version stays.
ResetQuota(p, id) ==
  /\ auths[id] # None
  /\ LET old == auths[id]
         a   == Aggregated([old EXCEPT !.gen = @ + 1, !.edit = old.gen + 1,
                                       !.blocked = {}])
     IN  Publish(a) /\ Begin(p, <<Upsert(a)>>)

\* RestoreCooldownStates: a persisted cooldown of one model comes back.
RestoreCooldownStates(p, id, m) ==
  /\ auths[id] # None
  /\ auths[id].enabled
  /\ ~auths[id].hard
  /\ LET old == auths[id]
         a   == Aggregated([old EXCEPT !.gen = @ + 1, !.edit = old.gen + 1,
                                       !.states = @ \cup {m},
                                       !.blocked = @ \cup {m}])
     IN  Publish(a) /\ Begin(p, <<Upsert(a)>>)

\* MarkResult for model m: a failure cools the model, a success frees it (and
\* may end a credential quota); a rejected token blocks the credential and the
\* delivery is credential-scoped.
MarkResult(p, id, m, outcome) ==
  /\ auths[id] # None
  /\ LET old  == [auths[id] EXCEPT !.gen = @ + 1]
         a    == Aggregated(
                   CASE outcome = "cool"    -> [old EXCEPT !.states = @ \cup {m},
                                                           !.blocked = @ \cup {m}]
                     [] outcome = "ok"      -> [old EXCEPT !.states = @ \cup {m},
                                                           !.blocked = @ \ {m}]
                     [] outcome = "recover" -> [old EXCEPT !.states = @ \cup {m},
                                                           !.blocked = @ \ {m},
                                                           !.hard = FALSE]
                     [] outcome = "reject"  -> [old EXCEPT !.hard = TRUE])
     IN  /\ outcome = "recover" => old.hard
         /\ Publish(a)
         /\ Begin(p, <<Result(a, IF outcome = "reject" THEN {} ELSE {m},
                              outcome = "reject")>>)

\* MarkResult of a request that names no model: it changes the credential's
\* own availability and addresses every shard.
MarkAuthResult(p, id, ok) ==
  /\ auths[id] # None
  /\ LET a == [auths[id] EXCEPT !.gen = @ + 1, !.down = ~ok \/ auths[id].hard]
     IN  Publish(a) /\ Begin(p, <<Result(a, {}, FALSE)>>)

\* refreshAuth and markRejectedAccessToken change the credential and hand it
\* to the scheduler while they still hold m.mu.
RefreshWrite(id) ==
  /\ changes < MaxChanges
  /\ changes' = changes + 1
  /\ auths[id] # None
  /\ LET a == [auths[id] EXCEPT !.gen = @ + 1, !.edit = auths[id].gen + 1,
                                !.hard = TRUE, !.down = TRUE]
     IN  /\ Publish(a)
         /\ sched' = upsertAuthLifecycle(sched, a, reg, reg)
  /\ UNCHANGED <<reg, version, syncedVersion, syncer, calls>>

\* RefreshSchedulerEntry: the version moves before the snapshot is scheduled.
RefreshSchedulerEntry(p, id) ==
  /\ auths[id] # None
  /\ Begin(p, <<Bump(id), Upsert(auths[id])>>)
  /\ UNCHANGED <<auths, authEpochs>>

\* RegisterClient and UnregisterClient: the client's models and both epochs.
Registered(id, S) == [reg EXCEPT ![id] = [models |-> S, epoch |-> @.epoch + 1]]

RegisterClient(id, S) ==
  /\ changes < MaxChanges
  /\ changes' = changes + 1
  /\ reg' = Registered(id, S)
  /\ version' = version + 1
  /\ UNCHANGED <<auths, authEpochs, syncedVersion, sched, syncer, calls>>

-----------------------------------------------------------------------------
(* Deliveries: what a goroutine does once m.mu is released *)

Apply(s, step, r, q) ==
  CASE step.do = "upsert"    -> upsertAuthLifecycle(s, step.snap, r, q)
    [] step.do = "result"    -> upsertAuthResult(s, step.snap, step.targets,
                                                 step.scoped, r, q)
    [] step.do = "tombstone" -> RecordRemovalTombstone(s, step.id, step.epoch)

Deliver(p) ==
  /\ calls[p] # << >>
  /\ Head(calls[p]).do \in {"upsert", "result", "tombstone"}
  /\ sched' = Apply(sched, Head(calls[p]), reg, reg)
  /\ calls' = [calls EXCEPT ![p] = Tail(@)]
  /\ UNCHANGED <<auths, authEpochs, reg, version, syncedVersion, syncer, changes>>

\* The same with a registration of the client between the read of its epoch
\* and the read of its models.
DeliverAcrossRegister(p, S) ==
  /\ calls[p] # << >>
  /\ Head(calls[p]).do \in {"upsert", "result"}
  /\ changes < MaxChanges
  /\ changes' = changes + 1
  /\ LET new == Registered(Head(calls[p]).id, S)
     IN  /\ reg' = new
         /\ sched' = Apply(sched, Head(calls[p]), reg, new)
  /\ version' = version + 1
  /\ calls' = [calls EXCEPT ![p] = Tail(@)]
  /\ UNCHANGED <<auths, authEpochs, syncedVersion, syncer>>

BumpVersion(p) ==
  /\ calls[p] # << >>
  /\ Head(calls[p]).do = "bump"
  /\ version' = version + 1
  /\ calls' = [calls EXCEPT ![p] = Tail(@)]
  /\ UNCHANGED <<auths, authEpochs, reg, syncedVersion, sched, syncer, changes>>

-----------------------------------------------------------------------------
(* Picks and the repair of the index *)

\* ensureModelLocked: the first pick of a model builds its shard.
EnsureModel(k) ==
  /\ sched.shards[k] = None
  /\ \E id \in Ids : sched.metas[id] # None
  /\ sched' = [sched EXCEPT !.shards[k] =
                 [id \in Ids |->
                    IF sched.metas[id] # None /\ supportsModel(sched.metas[id], k)
                    THEN sched.metas[id].snap ELSE None]]
  /\ UNCHANGED <<auths, authEpochs, reg, version, syncedVersion, syncer, calls,
                 changes>>

Offered(m) ==
  \E id \in Ids :
    LET e == IF sched.shards[m] # None THEN sched.shards[m][id]
             ELSE IF sched.metas[id] # None /\ m \in sched.metas[id].models
             THEN sched.metas[id].snap ELSE None
    IN  e # None /\ ~isAuthBlockedForModel(e, m)

\* checkAndSyncScheduler takes syncSchedulerMu and reads the version.
StartSync ==
  /\ version # syncedVersion
  /\ syncer.pc = "idle"
  /\ syncer' = [pc |-> "check", ver |-> version, list |-> None]

\* A pick that finds nothing syncs and retries (shouldRetrySchedulerPick).
PickMisses(m) ==
  /\ ~Offered(m)
  /\ StartSync
  /\ UNCHANGED <<auths, authEpochs, reg, version, syncedVersion, sched, calls,
                 changes>>

\* Load ends with a sync; it waits for syncSchedulerMu.
LoadSyncs(p) ==
  /\ calls[p] # << >>
  /\ Head(calls[p]).do = "sync"
  /\ \/ StartSync
     \/ version = syncedVersion /\ UNCHANGED syncer
  /\ calls' = [calls EXCEPT ![p] = Tail(@)]
  /\ UNCHANGED <<auths, authEpochs, reg, version, syncedVersion, sched, changes>>

Idle == [pc |-> "idle", ver |-> 0, list |-> None]

Later(v) == IF v > syncedVersion THEN v ELSE syncedVersion

\* schedulerNeedsSync, under m.mu and the scheduler's lock.
CheckSync ==
  /\ syncer.pc = "check"
  /\ IF needsSyncFromMap(sched)
     THEN /\ syncer' = [syncer EXCEPT !.pc = "snapshot"]
          /\ UNCHANGED syncedVersion
     ELSE /\ syncer' = Idle
          /\ syncedVersion' = Later(syncer.ver)
  /\ UNCHANGED <<auths, authEpochs, reg, version, sched, calls, changes>>

\* snapshotAuths.
TakeSnapshot ==
  /\ syncer.pc = "snapshot"
  /\ syncer' = [syncer EXCEPT !.pc = "rebuild", !.list = auths]
  /\ UNCHANGED <<auths, authEpochs, reg, version, syncedVersion, sched, calls,
                 changes>>

Rebuild ==
  /\ syncer.pc = "rebuild"
  /\ sched' = rebuild(sched, syncer.list, reg, reg)
  /\ syncer' = [syncer EXCEPT !.pc = "verify", !.list = None]
  /\ UNCHANGED <<auths, authEpochs, reg, version, syncedVersion, calls, changes>>

\* The version is synced only if the rebuild left nothing out.
VerifySync ==
  /\ syncer.pc = "verify"
  /\ syncer' = Idle
  /\ syncedVersion' = IF needsSyncFromMap(sched) THEN syncedVersion
                      ELSE Later(syncer.ver)
  /\ UNCHANGED <<auths, authEpochs, reg, version, sched, calls, changes>>

Change(p) ==
  \/ \E id \in Ids :
       \/ Register(p, id)
       \/ \E b \in BOOLEAN : Update(p, id, b)
       \/ RemoveIf(p, id)
       \/ ResetQuota(p, id)
       \/ \E m \in Models : RestoreCooldownStates(p, id, m)
       \/ \E m \in Models, o \in {"cool", "ok", "recover", "reject"} :
            MarkResult(p, id, m, o)
       \/ \E b \in BOOLEAN : MarkAuthResult(p, id, b)
       \/ RefreshSchedulerEntry(p, id)
  \/ \E S \in SUBSET Ids : Load(p, S)

Step(p) == Deliver(p) \/ BumpVersion(p) \/ LoadSyncs(p)

Sync == CheckSync \/ TakeSnapshot \/ Rebuild \/ VerifySync

Next ==
  \/ \E p \in Callers : Change(p) \/ Step(p)
  \/ \E p \in Callers, S \in ModelSets : DeliverAcrossRegister(p, S)
  \/ \E id \in Ids : RefreshWrite(id)
  \/ \E id \in Ids, S \in ModelSets : RegisterClient(id, S)
  \/ \E k \in Picked : EnsureModel(k)
  \/ \E m \in Picked \cap Models : PickMisses(m)
  \/ Sync

Spec == Init /\ [][Next]_vars

\* No goroutine has a delivery left for the credential.
Settled(id) ==
  \A p \in Callers : \A i \in 1..Len(calls[p]) : calls[p][i].id # id

Entries(id) == {k \in Keys : sched.shards[k] # None /\ sched.shards[k][id] # None}

\* Results of different models overtake one another between m.mu and the
\* scheduler's lock, and each refreshes only its own shard.  When every
\* delivery has arrived, each shard that has seen the last change of the whole
\* credential offers it exactly when the manager considers it available for
\* that shard's model (upsertAuthResultLocked's stale branch, its transition
\* check and the empty-model shard).  The transition check counts model states
\* against supported models, so it says nothing of a credential that has
\* results for models it no longer supports.
ShardsFollowResults ==
  \A id \in Ids :
    /\ auths[id] # None
    /\ Settled(id)
    /\ sched.metas[id] # None
    /\ auths[id].states \subseteq sched.metas[id].models
    => \A k \in Entries(id) :
        LET e == sched.shards[k][id]
        IN  e.epoch = auths[id].epoch /\ e.gen >= auths[id].edit
              => (isAuthBlockedForModel(e, k) <=> isAuthBlockedForModel(auths[id], k))

\* A removed or disabled credential is in no part of the index once its
\* deliveries have arrived, whatever late snapshots and rebuilds from older
\* lists came after the tombstone (RecordRemovalTombstone, isStaleScheduledAuth,
\* upsertAuthRebuildLocked).
NoResurrection ==
  \A id \in Ids :
    Settled(id) /\ id \notin Schedulable(auths) =>
      sched.metas[id] = None /\ Entries(id) = {}

\* When the version is synced and every delivery has arrived, the index is the
\* map: no credential is missing or registered under an old epoch, and each has
\* the models of the registry (checkAndSyncScheduler, needsSyncFromMap).
SyncedIsExact ==
  version = syncedVersion /\ (\A p \in Callers : calls[p] = << >>) =>
    \A id \in Ids :
      IF id \in Schedulable(auths)
      THEN /\ sched.metas[id] # None
           /\ sched.metas[id].snap = auths[id]
           /\ sched.metas[id].models = reg[id].models
      ELSE sched.metas[id] = None
=============================================================================
