------------------------ MODULE SchedulerIndexProofs ------------------------
(***************************************************************************)
(* Proofs about SchedulerIndex, for every finite set of credentials and    *)
(* models and any number of goroutines and changes.                        *)
(*                                                                         *)
(* Everything that may still reach the index is a snapshot: one that a     *)
(* goroutine has to deliver, one in the list of a rebuild, the published   *)
(* credential and the one in the index.  The invariant says what relates   *)
(* any two of them, the generation that the scheduler has recorded, and    *)
(* the deliveries that are still due.                                      *)
(***************************************************************************)
EXTENDS SchedulerIndex, TLAPS, FiniteSetTheorems, SequenceTheorems

(***************************************************************************)
(* Types                                                                   *)
(***************************************************************************)
Maps == [Ids -> Auth \cup {None}]
Registries == [Ids -> [models : SUBSET Models, epoch : Nat]]

Schedulers ==
  [gens   : [Ids -> scheduledGenerationMeta \cup {None}],
   metas  : [Ids -> scheduledAuthMeta \cup {None}],
   shards : [Keys -> modelScheduler \cup {None}]]

Snapshots == [do : {"upsert"}, id : Ids, snap : Auth]
             \cup [do : {"result"}, id : Ids, snap : Auth,
                   targets : SUBSET Models, scoped : BOOLEAN]
Tombstones == [do : {"tombstone"}, id : Ids, epoch : Nat]
Bumps == [do : {"bump"}, id : Ids \cup {None}]
Syncs == [do : {"sync"}, id : {None}]
Steps == Snapshots \cup Tombstones \cup Bumps \cup Syncs

Syncers == [pc : {"idle", "check", "snapshot", "rebuild", "verify"}, ver : Nat,
            list : Maps \cup {None}]

TypeOK ==
  /\ auths \in Maps
  /\ authEpochs \in [Ids -> Nat]
  /\ reg \in Registries
  /\ version \in Nat
  /\ syncedVersion \in Nat
  /\ sched \in Schedulers
  /\ syncer \in Syncers
  /\ syncer.pc = "rebuild" => syncer.list \in Maps
  /\ calls \in [Callers -> Seq(Steps)]
  /\ changes \in Nat

(***************************************************************************)
(* What may still reach the index                                          *)
(***************************************************************************)
Todo == UNION {{calls[p][i] : i \in 1..Len(calls[p])} : p \in Callers}

Flying(id) == {t.snap : t \in {t \in Todo : t.do \in {"upsert", "result"} /\ t.id = id}}
Listed(id) == IF syncer.pc = "rebuild" THEN {syncer.list[id]} \ {None} ELSE {}
Published(id) == {auths[id]} \ {None}
Indexed(id) == IF sched.metas[id] = None THEN {} ELSE {sched.metas[id].snap}

Known(id) == Flying(id) \cup Listed(id) \cup Published(id) \cup Indexed(id)

\* Of the registration the manager knows now.
Current(id, a) == a.epoch = authEpochs[id]

Version(a) == [epoch |-> a.epoch, gen |-> a.gen]

\* Scheduler s has seen version v of the credential, or a newer one.
Reached(s, id, v) ==
  /\ s.gens[id] # None
  /\ s.gens[id].epoch > v.epoch \/ (s.gens[id].epoch = v.epoch /\ s.gens[id].gen >= v.gen)

\* The entry of the credential in shard k.
Entry(s, id, k) == IF s.shards[k] = None THEN None ELSE s.shards[k][id]

(***************************************************************************)
(* Snapshots against the manager's map                                     *)
(***************************************************************************)
Sound(id, a) ==
  /\ a \in Auth
  /\ a.id = id
  /\ a.gen >= 1
  /\ a.blocked \subseteq a.states
  /\ a.epoch <= authEpochs[id]
  /\ Current(id, a) => /\ auths[id] # None
                       /\ a.gen <= auths[id].gen
                       /\ a.gen = auths[id].gen => a = auths[id]

KnownInv(id) ==
  /\ \A a \in Known(id) : Sound(id, a)
  /\ auths[id] # None => Current(id, auths[id])

(***************************************************************************)
(* The index                                                               *)
(***************************************************************************)
\* The recorded generation never runs ahead of the manager.
GensInv(id) ==
  LET g == sched.gens[id]
  IN  g # None => /\ g.epoch <= authEpochs[id]
                  /\ g.epoch = authEpochs[id] =>
                       IF auths[id] = None THEN g.gen = 0 ELSE g.gen <= auths[id].gen

MetaInv(id) ==
  LET m == sched.metas[id]
  IN  m # None => /\ m.snap.enabled
                  /\ sched.gens[id] = Version(m.snap)

RegInv(id) ==
  LET m == sched.metas[id]
  IN  m # None => /\ m.regEpoch <= reg[id].epoch
                  /\ m.regEpoch = reg[id].epoch => m.models = reg[id].models

\* An entry may be older than the meta of its credential, but never as to what
\* concerns all models.
EntryInv(id) ==
  \A k \in Keys :
    LET e == Entry(sched, id, k)
        m == sched.metas[id]
    IN  e # None =>
          /\ m # None
          /\ e \in Auth
          /\ e.blocked \subseteq e.states
          /\ Reached(sched, id, e)
          /\ IF k = AnyModel THEN e = m.snap ELSE k \in m.models
          /\ isCredentialBlocked(e, m.models) <=> isCredentialBlocked(m.snap, m.models)

IndexInv(id) == GensInv(id) /\ MetaInv(id) /\ RegInv(id) /\ EntryInv(id)

(***************************************************************************)
(* What is still due                                                       *)
(***************************************************************************)
\* The tombstone of a removed credential is recorded or will be.
TombInv(id) ==
  /\ \A t \in Todo : t.do = "tombstone" /\ t.id = id =>
       /\ t.epoch <= authEpochs[id]
       /\ t.epoch = authEpochs[id] => auths[id] = None
  /\ auths[id] = None /\ authEpochs[id] > 0 =>
       \/ Tombstone(id, authEpochs[id]) \in Todo
       \/ sched.gens[id] = [epoch |-> authEpochs[id], gen |-> 0]

\* The published snapshot is recorded or will be, unless Load published it.
LastInv(id) ==
  auths[id] # None =>
    \/ sched.gens[id] = Version(auths[id])
    \/ auths[id] \in Flying(id)
    \/ /\ auths[id].gen = 1
       /\ auths[id].enabled
       /\ sched.gens[id] # None => sched.gens[id].epoch < authEpochs[id]

\* The goroutine p is about to schedule a newer snapshot and to move the version.
Newer(p, id, a) ==
  /\ Len(calls[p]) = 2
  /\ calls[p][1].do = "upsert"
  /\ calls[p][1].id = id
  /\ Current(id, calls[p][1].snap)
  /\ calls[p][1].snap.gen > a.gen
  /\ calls[p][2].do = "bump"

\* A disabled snapshot of a credential that is enabled again is too old to be
\* scheduled, or the version is yet to move.
EnabledInv(id) ==
  auths[id] # None /\ auths[id].enabled =>
    \A a \in Known(id) : Current(id, a) /\ ~a.enabled =>
      \/ isStaleScheduledAuth(sched, a)
      \/ \E p \in Callers : Newer(p, id, a)

DueInv(id) == TombInv(id) /\ LastInv(id) /\ EnabledInv(id)

(***************************************************************************)
(* Results of other models                                                 *)
(***************************************************************************)
\* The shards that a result refreshes.
Scope(t) == IF t.scoped \/ t.targets = {} THEN Keys ELSE t.targets \cup {AnyModel}

\* A result that refreshes shard k is due and lies between two generations.
Overtaken(id, k, a, b) ==
  \E t \in Todo :
    /\ t.do = "result"
    /\ t.id = id
    /\ Current(id, t.snap)
    /\ k \in Scope(t)
    /\ a.gen < t.snap.gen /\ t.snap.gen <= b.gen

\* Nothing but results of other models lies between a and b.
SameFor(a, b, k) ==
  \/ a = b
  \/ /\ k \in a.blocked <=> k \in b.blocked
     /\ b.hard => a.hard
     /\ b.states # {}
     /\ b.down <=> b.hard \/ b.states \subseteq b.blocked

Follows(id, k, a, b) ==
  b.edit <= a.gen /\ a.gen <= b.gen => Overtaken(id, k, a, b) \/ SameFor(a, b, k)

HistoryInv(id) ==
  \A k \in Models : \A b \in Known(id) : Current(id, b) =>
    /\ \A a \in Known(id) :
         Current(id, a) /\ ~isStaleScheduledAuth(sched, a) => Follows(id, k, a, b)
    /\ LET e == Entry(sched, id, k)
       IN  e # None /\ Current(id, e) => Follows(id, k, e, b)

(***************************************************************************)
(* The synced version                                                      *)
(***************************************************************************)
BumpDue == \E t \in Todo : t.do = "bump"

InSync(id) ==
  /\ sched.metas[id] # None
  /\ sched.gens[id] # None
  /\ sched.gens[id].epoch = auths[id].epoch
  /\ sched.metas[id].regEpoch = reg[id].epoch

SyncInv ==
  /\ syncedVersion <= version
  /\ syncer.pc # "idle" => syncedVersion < syncer.ver /\ syncer.ver <= version
  /\ version = syncedVersion /\ ~BumpDue => \A id \in Schedulable(auths) : InSync(id)

CredentialInv(id) == KnownInv(id) /\ IndexInv(id) /\ DueInv(id) /\ HistoryInv(id)

IInv == TypeOK /\ SyncInv /\ \A id \in Ids : CredentialInv(id)

-----------------------------------------------------------------------------
(***************************************************************************)
(* What the scheduler's operations change                                  *)
(***************************************************************************)
LEMMA NoneIsNone ==
  None \notin Auth /\ None \notin scheduledGenerationMeta
  /\ None \notin scheduledAuthMeta /\ None \notin modelScheduler
BY NoneAssumption

LEMMA AuthFields ==
  ASSUME NEW a \in Auth
  PROVE  /\ a.id \in Ids /\ a.epoch \in Nat /\ a.gen \in Nat /\ a.edit \in Nat
         /\ a.enabled \in BOOLEAN /\ a.states \subseteq Models /\ a.blocked \subseteq Models
         /\ a.down \in BOOLEAN /\ a.hard \in BOOLEAN
         /\ Version(a) \in scheduledGenerationMeta
BY DEF Auth, Version, scheduledGenerationMeta

LEMMA SchedulerFields ==
  ASSUME NEW s \in Schedulers
  PROVE  /\ s.gens \in [Ids -> scheduledGenerationMeta \cup {None}]
         /\ s.metas \in [Ids -> scheduledAuthMeta \cup {None}]
         /\ s.shards \in [Keys -> modelScheduler \cup {None}]
         /\ \A id \in Ids, k \in Keys : Entry(s, id, k) \in Auth \cup {None}
<1>1. /\ s.gens \in [Ids -> scheduledGenerationMeta \cup {None}]
      /\ s.metas \in [Ids -> scheduledAuthMeta \cup {None}]
      /\ s.shards \in [Keys -> modelScheduler \cup {None}]
  BY DEF Schedulers
<1>2. ASSUME NEW id \in Ids, NEW k \in Keys
      PROVE  Entry(s, id, k) \in Auth \cup {None}
  BY <1>1 DEF Entry, modelScheduler
<1>. QED
  BY <1>1, <1>2

LEMMA MetaFields ==
  ASSUME NEW m \in scheduledAuthMeta
  PROVE  m.snap \in Auth /\ m.models \subseteq Models /\ m.regEpoch \in Nat
BY DEF scheduledAuthMeta

LEMMA UpsertFields ==
  ASSUME NEW s \in Schedulers, NEW m \in scheduledAuthMeta, NEW K \in SUBSET Keys
  PROVE  /\ upsertAuthForModels(s, m, K) \in Schedulers
         /\ upsertAuthForModels(s, m, K).gens = s.gens
         /\ upsertAuthForModels(s, m, K).metas = [s.metas EXCEPT ![m.snap.id] = m]
         /\ \A j \in Ids, k \in Keys :
              Entry(upsertAuthForModels(s, m, K), j, k) =
                IF j = m.snap.id /\ k \in K /\ s.shards[k] # None
                THEN IF supportsModel(m, k) THEN m.snap ELSE None
                ELSE Entry(s, j, k)
<1> DEFINE id == m.snap.id
           sh == [k \in Keys |->
                    IF k \in K /\ s.shards[k] # None
                    THEN [s.shards[k] EXCEPT ![id] =
                            IF supportsModel(m, k) THEN m.snap ELSE None]
                    ELSE s.shards[k]]
           t == upsertAuthForModels(s, m, K)
<1>1. /\ t.gens = s.gens
      /\ t.metas = [s.metas EXCEPT ![id] = m]
      /\ t.shards = sh
      /\ t = [gens |-> t.gens, metas |-> t.metas, shards |-> t.shards]
  <2>1. t = [s EXCEPT !.metas = [s.metas EXCEPT ![id] = m], !.shards = sh]
    BY DEF upsertAuthForModels
  <2>. HIDE DEF t, sh, id
  <2>. QED
    BY <2>1 DEF Schedulers
<1>2. id \in Ids /\ m.snap \in Auth
  BY MetaFields, AuthFields
<1>3. \A k \in Keys : sh[k] \in modelScheduler \cup {None}
  BY <1>2, SchedulerFields DEF modelScheduler
<1>4. t \in Schedulers
  <2>1. t.metas \in [Ids -> scheduledAuthMeta \cup {None}]
    BY <1>1, <1>2, SchedulerFields
  <2>2. t.shards \in [Keys -> modelScheduler \cup {None}]
    BY <1>1, <1>3
  <2>. QED
    BY <1>1, <2>1, <2>2, SchedulerFields DEF Schedulers
<1>5. ASSUME NEW j \in Ids, NEW k \in Keys
      PROVE  Entry(t, j, k) =
                IF j = id /\ k \in K /\ s.shards[k] # None
                THEN IF supportsModel(m, k) THEN m.snap ELSE None
                ELSE Entry(s, j, k)
  <2>1. t.shards[k] = sh[k]
    BY <1>1
  <2>2. CASE k \in K /\ s.shards[k] # None
    <3>1. s.shards[k] \in modelScheduler
      BY <2>2, SchedulerFields
    <3>2. sh[k] = [s.shards[k] EXCEPT ![id] = IF supportsModel(m, k) THEN m.snap ELSE None]
      BY <2>2
    <3>3. sh[k] # None
      BY <3>1, <3>2, <1>2, NoneIsNone DEF modelScheduler
    <3>. QED
      BY <2>1, <2>2, <3>1, <3>2, <3>3, <1>2 DEF Entry, modelScheduler
  <2>3. CASE ~(k \in K /\ s.shards[k] # None)
    BY <2>1, <2>3 DEF Entry
  <2>. QED
    BY <2>2, <2>3
<1>. QED
  BY <1>1, <1>4, <1>5

LEMMA RemoveFields ==
  ASSUME NEW s \in Schedulers, NEW id \in Ids
  PROVE  /\ removeAuthFromProviders(s, id) \in Schedulers
         /\ removeAuthFromProviders(s, id).gens = s.gens
         /\ removeAuthFromProviders(s, id).metas = [s.metas EXCEPT ![id] = None]
         /\ \A j \in Ids, k \in Keys :
              Entry(removeAuthFromProviders(s, id), j, k) =
                IF j = id THEN None ELSE Entry(s, j, k)
<1> DEFINE sh == [k \in Keys |->
                    IF s.shards[k] = None THEN None ELSE [s.shards[k] EXCEPT ![id] = None]]
           t == removeAuthFromProviders(s, id)
<1>1. /\ t.gens = s.gens
      /\ t.metas = [s.metas EXCEPT ![id] = None]
      /\ t.shards = sh
      /\ t = [gens |-> t.gens, metas |-> t.metas, shards |-> t.shards]
  <2>1. t = [s EXCEPT !.metas = [s.metas EXCEPT ![id] = None], !.shards = sh]
    BY DEF removeAuthFromProviders
  <2>. HIDE DEF t, sh
  <2>. QED
    BY <2>1 DEF Schedulers
<1>2. \A k \in Keys : sh[k] \in modelScheduler \cup {None}
  BY SchedulerFields DEF modelScheduler
<1>3. t \in Schedulers
  <2>1. t.metas \in [Ids -> scheduledAuthMeta \cup {None}]
    BY <1>1, SchedulerFields
  <2>2. t.shards \in [Keys -> modelScheduler \cup {None}]
    BY <1>1, <1>2
  <2>. QED
    BY <1>1, <2>1, <2>2, SchedulerFields DEF Schedulers
<1>4. ASSUME NEW j \in Ids, NEW k \in Keys
      PROVE  Entry(t, j, k) = IF j = id THEN None ELSE Entry(s, j, k)
  <2>1. t.shards[k] = sh[k]
    BY <1>1
  <2>2. CASE s.shards[k] # None
    <3>1. s.shards[k] \in modelScheduler
      BY <2>2, SchedulerFields
    <3>2. sh[k] = [s.shards[k] EXCEPT ![id] = None]
      BY <2>2
    <3>3. sh[k] # None
      BY <3>1, <3>2, NoneIsNone DEF modelScheduler
    <3>. QED
      BY <2>1, <2>2, <3>1, <3>2, <3>3 DEF Entry, modelScheduler
  <2>3. CASE s.shards[k] = None
    BY <2>1, <2>3 DEF Entry
  <2>. QED
    BY <2>2, <2>3
<1>. QED
  BY <1>1, <1>3, <1>4

LEMMA RecordedFields ==
  ASSUME NEW s \in Schedulers, NEW a \in Auth
  PROVE  /\ Recorded(s, a) \in Schedulers
         /\ Recorded(s, a).gens = [s.gens EXCEPT ![a.id] = Version(a)]
         /\ Recorded(s, a).metas = s.metas
         /\ Recorded(s, a).shards = s.shards
         /\ \A j \in Ids, k \in Keys : Entry(Recorded(s, a), j, k) = Entry(s, j, k)
<1>1. /\ Recorded(s, a).gens = [s.gens EXCEPT ![a.id] = Version(a)]
      /\ Recorded(s, a).metas = s.metas
      /\ Recorded(s, a).shards = s.shards
      /\ Recorded(s, a) = [gens |-> Recorded(s, a).gens, metas |-> s.metas, shards |-> s.shards]
  BY DEF Recorded, Schedulers, Version
<1>2. Recorded(s, a).gens \in [Ids -> scheduledGenerationMeta \cup {None}]
  BY <1>1, SchedulerFields, AuthFields
<1>3. Recorded(s, a) \in Schedulers
  BY <1>1, <1>2, SchedulerFields DEF Schedulers
<1>. QED
  BY <1>1, <1>3 DEF Entry

(***************************************************************************)
(* How an operation may change the row of one credential: its generation,  *)
(* its meta and its entries.  S are the snapshots it may adopt, E the      *)
(* epochs of tombstones, R the shards it refreshes in any case.            *)
(***************************************************************************)
SameRow(s, t, id) ==
  /\ t.gens[id] = s.gens[id]
  /\ t.metas[id] = s.metas[id]
  /\ \A k \in Keys : Entry(t, id, k) = Entry(s, id, k)

Adopts(s, t, id, a) == ~isStaleScheduledAuth(s, a) /\ t.gens[id] = Version(a)

Buried(s, t, id, e) ==
  /\ s.gens[id] # None => s.gens[id].epoch <= e
  /\ t.gens[id] = [epoch |-> e, gen |-> 0]
  /\ t.metas[id] = None

GensMove(s, t, id, S, E) ==
  \/ t.gens[id] = s.gens[id]
  \/ \E a \in S : Adopts(s, t, id, a)
  \/ \E e \in E : Buried(s, t, id, e)

MetaMove(s, t, id, S) ==
  \/ t.metas[id] = None
  \/ t.metas[id] = s.metas[id] /\ t.gens[id] = s.gens[id]
  \/ \E a \in S : a.enabled /\ t.metas[id].snap = a /\ t.gens[id] = Version(a)

EntryKept(s, t, id, k, R) ==
  /\ k \notin R
  /\ Entry(t, id, k) = Entry(s, id, k)
  /\ \/ t.metas[id] = s.metas[id] /\ t.gens[id] = s.gens[id]
     \/ /\ k # AnyModel
        /\ s.metas[id] # None
        /\ t.metas[id] # None
        /\ t.metas[id].models = s.metas[id].models
        /\ isCredentialBlocked(s.metas[id].snap, s.metas[id].models)
             <=> isCredentialBlocked(t.metas[id].snap, s.metas[id].models)

EntryMove(s, t, id, k, R) ==
  \/ Entry(t, id, k) = None
  \/ /\ t.metas[id] # None
     /\ Entry(t, id, k) = t.metas[id].snap
     /\ supportsModel(t.metas[id], k)
  \/ EntryKept(s, t, id, k, R)

RegMove(s, t, id, r, q) ==
  \/ t.metas[id] = None
  \/ t.metas[id] = s.metas[id]
  \/ /\ t.metas[id].regEpoch = r[id].epoch
     /\ \/ t.metas[id].models = q[id].models
        \/ /\ s.metas[id] # None
           /\ s.metas[id].regEpoch = r[id].epoch
           /\ t.metas[id].models = s.metas[id].models

RowMove(s, t, id, S, E, R) ==
  /\ GensMove(s, t, id, S, E)
  /\ MetaMove(s, t, id, S)
  /\ \A k \in Keys : EntryMove(s, t, id, k, R)

\* A delivery takes a meta away only for a disabled snapshot or a tombstone.
MetaKept(s, t, id, S, E) ==
  s.metas[id] # None /\ t.metas[id] = None =>
    \/ \E a \in S : ~a.enabled /\ ~isStaleScheduledAuth(s, a)
    \/ \E e \in E : Buried(s, t, id, e)

-----------------------------------------------------------------------------
(***************************************************************************)
(* The rows after each operation                                           *)
(***************************************************************************)
\* What the operations rely on in the index they find.
Tidy(s, id) ==
  /\ s.metas[id] # None => s.metas[id].snap.id = id
  /\ \A k \in Keys : Entry(s, id, k) # None => s.metas[id] # None

LEMMA SameIsMove ==
  ASSUME NEW s \in Schedulers, NEW t \in Schedulers, NEW id \in Ids, SameRow(s, t, id),
         NEW S \in SUBSET Auth, NEW E \in SUBSET Nat,
         NEW r \in Registries, NEW q \in Registries
  PROVE  /\ RowMove(s, t, id, S, E, {})
         /\ RegMove(s, t, id, r, q)
         /\ MetaKept(s, t, id, S, E)
BY DEF SameRow, RowMove, GensMove, MetaMove, EntryMove, EntryKept, RegMove, MetaKept

LEMMA DropFields ==
  ASSUME NEW s \in Schedulers, NEW a \in Auth
  PROVE  /\ removeAuthFromProviders(Recorded(s, a), a.id) \in Schedulers
         /\ removeAuthFromProviders(Recorded(s, a), a.id).gens = [s.gens EXCEPT ![a.id] = Version(a)]
         /\ removeAuthFromProviders(Recorded(s, a), a.id).metas = [s.metas EXCEPT ![a.id] = None]
         /\ \A j \in Ids, k \in Keys :
              Entry(removeAuthFromProviders(Recorded(s, a), a.id), j, k) =
                IF j = a.id THEN None ELSE Entry(s, j, k)
<1>1. a.id \in Ids /\ Recorded(s, a) \in Schedulers
  BY AuthFields, RecordedFields
<1>. QED
  BY <1>1, RecordedFields, RemoveFields

LEMMA AdoptFields ==
  ASSUME NEW s \in Schedulers, NEW a \in Auth, NEW m \in scheduledAuthMeta, m.snap = a,
         NEW K \in SUBSET Keys
  PROVE  /\ upsertAuthForModels(Recorded(s, a), m, K) \in Schedulers
         /\ upsertAuthForModels(Recorded(s, a), m, K).gens = [s.gens EXCEPT ![a.id] = Version(a)]
         /\ upsertAuthForModels(Recorded(s, a), m, K).metas = [s.metas EXCEPT ![a.id] = m]
         /\ \A j \in Ids, k \in Keys :
              Entry(upsertAuthForModels(Recorded(s, a), m, K), j, k) =
                IF j = a.id /\ k \in K /\ s.shards[k] # None
                THEN IF supportsModel(m, k) THEN a ELSE None
                ELSE Entry(s, j, k)
<1>1. a.id \in Ids /\ Recorded(s, a) \in Schedulers
  BY AuthFields, RecordedFields
<1>. QED
  BY <1>1, RecordedFields, UpsertFields

LEMMA RecordedReached ==
  ASSUME NEW s \in Schedulers, NEW a \in Auth, s.gens[a.id] = Version(a)
  PROVE  Reached(s, a.id, a)
<1>1. Version(a) # None /\ Version(a).epoch = a.epoch /\ Version(a).gen = a.gen
      /\ a.gen \in Nat
  BY AuthFields, NoneIsNone DEF Version
<1>. QED
  BY <1>1 DEF Reached

LEMMA StaleReached ==
  ASSUME NEW s \in Schedulers, NEW a \in Auth, isStaleScheduledAuth(s, a)
  PROVE  Reached(s, a.id, a)
<1>1. a.id \in Ids /\ a.epoch \in Nat /\ a.gen \in Nat
  BY AuthFields
<1>2. s.gens[a.id] \in scheduledGenerationMeta
  BY <1>1, SchedulerFields DEF isStaleScheduledAuth
<1>3. s.gens[a.id].epoch \in Nat /\ s.gens[a.id].gen \in Nat
  BY <1>2 DEF scheduledGenerationMeta
<1>. QED
  BY <1>1, <1>3 DEF Reached, isStaleScheduledAuth

\* The row of a credential whose disabled snapshot is recorded.
LEMMA DropRow ==
  ASSUME NEW s \in Schedulers, NEW a \in Auth, NEW R \in SUBSET Keys,
         NEW r \in Registries, NEW q \in Registries,
         ~isStaleScheduledAuth(s, a), ~a.enabled
  PROVE  /\ removeAuthFromProviders(Recorded(s, a), a.id).gens[a.id] = Version(a)
         /\ removeAuthFromProviders(Recorded(s, a), a.id).metas[a.id] = None
         /\ RowMove(s, removeAuthFromProviders(Recorded(s, a), a.id), a.id, {a}, {}, R)
         /\ RegMove(s, removeAuthFromProviders(Recorded(s, a), a.id), a.id, r, q)
         /\ MetaKept(s, removeAuthFromProviders(Recorded(s, a), a.id), a.id, {a}, {})
         /\ \A j \in Ids \ {a.id} : SameRow(s, removeAuthFromProviders(Recorded(s, a), a.id), j)
<1> DEFINE t == removeAuthFromProviders(Recorded(s, a), a.id)
<1>0. a.id \in Ids
  BY AuthFields
<1>t. t \in Schedulers
  BY DropFields
<1>1. /\ t.gens = [s.gens EXCEPT ![a.id] = Version(a)]
      /\ t.metas = [s.metas EXCEPT ![a.id] = None]
      /\ \A j \in Ids, k \in Keys : Entry(t, j, k) = IF j = a.id THEN None ELSE Entry(s, j, k)
  BY DropFields
<1>. HIDE DEF t
<1>2. t.gens[a.id] = Version(a) /\ t.metas[a.id] = None
  BY <1>0, <1>1, SchedulerFields
<1>3. RowMove(s, t, a.id, {a}, {}, R)
  BY <1>0, <1>1, <1>2 DEF RowMove, GensMove, MetaMove, EntryMove, Adopts
<1>4. RegMove(s, t, a.id, r, q) /\ MetaKept(s, t, a.id, {a}, {})
  BY <1>2 DEF RegMove, MetaKept
<1>5. \A j \in Ids \ {a.id} : SameRow(s, t, j)
  BY <1>0, <1>1, SchedulerFields DEF SameRow
<1>. QED
  BY <1>2, <1>3, <1>4, <1>5 DEF t

\* The row of a credential that is scheduled with meta m in the shards K.
Adopted(s, t, a, m, K) ==
  /\ t.gens[a.id] = Version(a)
  /\ t.metas[a.id] = m
  /\ RowMove(s, t, a.id, {a}, {}, K)
  /\ MetaKept(s, t, a.id, {a}, {})
  /\ \A j \in Ids \ {a.id} : SameRow(s, t, j)

LEMMA AdoptRow ==
  ASSUME NEW s \in Schedulers, NEW a \in Auth, NEW m \in scheduledAuthMeta, m.snap = a,
         NEW K \in SUBSET Keys,
         AnyModel \in K, ~isStaleScheduledAuth(s, a), a.enabled,
         \/ K = Keys
         \/ /\ s.metas[a.id] # None
            /\ m.models = s.metas[a.id].models
            /\ isCredentialBlocked(s.metas[a.id].snap, m.models) <=> isCredentialBlocked(a, m.models)
  PROVE  Adopted(s, upsertAuthForModels(Recorded(s, a), m, K), a, m, K)
<1> DEFINE t == upsertAuthForModels(Recorded(s, a), m, K)
<1>0. a.id \in Ids
  BY AuthFields
<1>1. /\ t.gens = [s.gens EXCEPT ![a.id] = Version(a)]
      /\ t.metas = [s.metas EXCEPT ![a.id] = m]
      /\ \A j \in Ids, k \in Keys :
           Entry(t, j, k) = IF j = a.id /\ k \in K /\ s.shards[k] # None
                            THEN IF supportsModel(m, k) THEN a ELSE None
                            ELSE Entry(s, j, k)
  BY AdoptFields
<1>. HIDE DEF t
<1>2. t.gens[a.id] = Version(a) /\ t.metas[a.id] = m /\ m # None
  BY <1>0, <1>1, SchedulerFields, NoneIsNone
<1>3. GensMove(s, t, a.id, {a}, {}) /\ MetaMove(s, t, a.id, {a})
  BY <1>2 DEF GensMove, MetaMove, Adopts
<1>4. ASSUME NEW k \in Keys
      PROVE  EntryMove(s, t, a.id, k, K)
  <2>1. CASE k \in K /\ s.shards[k] # None
    BY <2>1, <1>0, <1>1, <1>2 DEF EntryMove
  <2>2. CASE s.shards[k] = None
    BY <2>2, <1>0, <1>1 DEF EntryMove, Entry
  <2>3. CASE k \notin K
    <3>1. Entry(t, a.id, k) = Entry(s, a.id, k)
      BY <2>3, <1>0, <1>1
    <3>2. k # AnyModel /\ K # Keys
      BY <2>3
    <3>3. EntryKept(s, t, a.id, k, K)
      BY <2>3, <3>1, <3>2, <1>2 DEF EntryKept
    <3>. QED
      BY <3>3 DEF EntryMove
  <2>. QED
    BY <2>1, <2>2, <2>3
<1>5. MetaKept(s, t, a.id, {a}, {})
  BY <1>2 DEF MetaKept
<1>6. \A j \in Ids \ {a.id} : SameRow(s, t, j)
  BY <1>0, <1>1, SchedulerFields DEF SameRow
<1>. QED
  BY <1>2, <1>3, <1>4, <1>5, <1>6 DEF RowMove, Adopted, t

LEMMA LifecycleRow ==
  ASSUME NEW s \in Schedulers, NEW a \in Auth, NEW r \in Registries, NEW q \in Registries
  PROVE  /\ upsertAuthLifecycle(s, a, r, q) \in Schedulers
         /\ RowMove(s, upsertAuthLifecycle(s, a, r, q), a.id, {a}, {}, {})
         /\ RegMove(s, upsertAuthLifecycle(s, a, r, q), a.id, r, q)
         /\ MetaKept(s, upsertAuthLifecycle(s, a, r, q), a.id, {a}, {})
         /\ Reached(upsertAuthLifecycle(s, a, r, q), a.id, a)
         /\ \A j \in Ids \ {a.id} : SameRow(s, upsertAuthLifecycle(s, a, r, q), j)
<1> DEFINE t == upsertAuthLifecycle(s, a, r, q)
           m == [snap |-> a, models |-> q[a.id].models, regEpoch |-> r[a.id].epoch]
<1>0. a.id \in Ids /\ m \in scheduledAuthMeta /\ m.snap = a
  BY AuthFields DEF scheduledAuthMeta, Registries
<1>1. CASE isStaleScheduledAuth(s, a)
  <2>1. t = s
    BY <1>1 DEF upsertAuthLifecycle
  <2>2. \A j \in Ids : SameRow(s, s, j)
    BY DEF SameRow
  <2>3. {a} \in SUBSET Auth /\ {} \in SUBSET Nat
    OBVIOUS
  <2>4. RowMove(s, s, a.id, {a}, {}, {}) /\ RegMove(s, s, a.id, r, q)
        /\ MetaKept(s, s, a.id, {a}, {})
    BY <2>2, <2>3, <1>0, SameIsMove
  <2>. HIDE DEF t
  <2>. QED
    BY <2>1, <2>2, <2>4, <1>1, StaleReached DEF t
<1>2. CASE ~isStaleScheduledAuth(s, a) /\ ~a.enabled
  <2>1. t = removeAuthFromProviders(Recorded(s, a), a.id)
    BY <1>2 DEF upsertAuthLifecycle
  <2>. HIDE DEF t
  <2>2. t \in Schedulers
    BY <2>1, DropFields
  <2>3. {} \in SUBSET Keys
    OBVIOUS
  <2>4. /\ t.gens[a.id] = Version(a)
        /\ RowMove(s, t, a.id, {a}, {}, {})
        /\ RegMove(s, t, a.id, r, q)
        /\ MetaKept(s, t, a.id, {a}, {})
        /\ \A j \in Ids \ {a.id} : SameRow(s, t, j)
    BY <2>1, <2>3, <1>2, DropRow
  <2>. QED
    BY <2>2, <2>4, RecordedReached DEF t
<1>3. CASE ~isStaleScheduledAuth(s, a) /\ a.enabled
  <2>1. t = upsertAuthForModels(Recorded(s, a), m, Keys)
    BY <1>3 DEF upsertAuthLifecycle
  <2>. HIDE DEF t, m
  <2>2. t \in Schedulers
    BY <2>1, <1>0, AdoptFields
  <2>3. AnyModel \in Keys /\ {} \in SUBSET Keys
    BY DEF Keys
  <2>4. /\ t.gens[a.id] = Version(a)
        /\ t.metas[a.id] = m
        /\ RowMove(s, t, a.id, {a}, {}, {})
        /\ MetaKept(s, t, a.id, {a}, {})
        /\ \A j \in Ids \ {a.id} : SameRow(s, t, j)
    <3>1. Keys \in SUBSET Keys /\ {} \in SUBSET Keys
      OBVIOUS
    <3>2. Adopted(s, upsertAuthForModels(Recorded(s, a), m, Keys), a, m, Keys)
      BY <2>3, <3>1, <1>0, <1>3, AdoptRow
    <3>3. Adopted(s, t, a, m, Keys)
      BY <3>2, <2>1
    <3>4. RowMove(s, t, a.id, {a}, {}, {})
      BY <3>3 DEF Adopted, RowMove, EntryMove, EntryKept
    <3>. QED
      BY <3>3, <3>4 DEF Adopted
  <2>5. RegMove(s, t, a.id, r, q)
    BY <2>4 DEF RegMove, m
  <2>. QED
    BY <2>2, <2>4, <2>5, RecordedReached DEF t
<1>. QED
  BY <1>1, <1>2, <1>3

LEMMA RefreshRow ==
  ASSUME NEW s \in Schedulers, NEW a \in Auth, Tidy(s, a.id), NEW K \in SUBSET Keys, AnyModel \in K
  PROVE  /\ RefreshFromLatest(s, a, K) \in Schedulers
         /\ RefreshFromLatest(s, a, K).gens = s.gens
         /\ RefreshFromLatest(s, a, K).metas = s.metas
         /\ \A k \in Keys : EntryMove(s, RefreshFromLatest(s, a, K), a.id, k, K)
         /\ \A j \in Ids \ {a.id} : SameRow(s, RefreshFromLatest(s, a, K), j)
<1> DEFINE t == RefreshFromLatest(s, a, K)
<1>0. a.id \in Ids
  BY AuthFields
<1>1. CASE s.metas[a.id] = None
  <2>1. t = s
    BY <1>1 DEF RefreshFromLatest
  <2>2. \A k \in Keys : Entry(s, a.id, k) = None
    BY <1>1 DEF Tidy
  <2>. QED
    BY <2>1, <2>2 DEF EntryMove, SameRow
<1>2. CASE s.metas[a.id] # None
  <2> DEFINE m == s.metas[a.id]
  <2>1. m \in scheduledAuthMeta /\ m.snap.id = a.id
    BY <1>0, <1>2, SchedulerFields DEF Tidy
  <2>2. t = upsertAuthForModels(s, m, K)
    BY <1>2 DEF RefreshFromLatest
  <2>3. /\ t \in Schedulers
        /\ t.gens = s.gens
        /\ t.metas = [s.metas EXCEPT ![a.id] = m]
        /\ \A j \in Ids, k \in Keys :
              Entry(t, j, k) = IF j = a.id /\ k \in K /\ s.shards[k] # None
                               THEN IF supportsModel(m, k) THEN m.snap ELSE None
                               ELSE Entry(s, j, k)
    BY <2>1, <2>2, UpsertFields
  <2>. HIDE DEF t
  <2>4. t.metas = s.metas
    BY <2>3, <1>0, SchedulerFields
  <2>5. ASSUME NEW k \in Keys
        PROVE  EntryMove(s, t, a.id, k, K)
    <3>1. CASE k \in K /\ s.shards[k] # None
      BY <3>1, <1>0, <1>2, <2>3, <2>4 DEF EntryMove
    <3>2. CASE s.shards[k] = None
      BY <3>2, <1>0, <2>3 DEF EntryMove, Entry
    <3>3. CASE k \notin K
      BY <3>3, <1>0, <2>3, <2>4 DEF EntryMove, EntryKept
    <3>. QED
      BY <3>1, <3>2, <3>3
  <2>6. \A j \in Ids \ {a.id} : SameRow(s, t, j)
    BY <2>3, <2>4 DEF SameRow
  <2>. QED
    BY <2>3, <2>4, <2>5, <2>6 DEF t
<1>. QED
  BY <1>1, <1>2

\* What a delivery t of step st has done to the scheduler s.
SnapsOf(st) == IF st.do \in {"upsert", "result"} THEN {st.snap} ELSE {}
EpochsOf(st) == IF st.do = "tombstone" THEN {st.epoch} ELSE {}
ShardsOf(st) == IF st.do = "result" THEN Scope(st) ELSE {}

Absorbed(t, st) ==
  /\ \A a \in SnapsOf(st) : Reached(t, st.id, a)
  /\ \A e \in EpochsOf(st) : t.gens[st.id] # None /\ t.gens[st.id].epoch >= e

Taken(s, t, st, r, q) ==
  /\ t \in Schedulers
  /\ RowMove(s, t, st.id, SnapsOf(st), EpochsOf(st), ShardsOf(st))
  /\ RegMove(s, t, st.id, r, q)
  /\ MetaKept(s, t, st.id, SnapsOf(st), EpochsOf(st))
  /\ Absorbed(t, st)
  /\ \A j \in Ids \ {st.id} : SameRow(s, t, j)

LEMMA ResultRow ==
  ASSUME NEW s \in Schedulers, NEW st \in Snapshots, st.do = "result", st.snap.id = st.id,
         Tidy(s, st.id), NEW r \in Registries, NEW q \in Registries
  PROVE  Taken(s, upsertAuthResult(s, st.snap, st.targets, st.scoped, r, q), st, r, q)
<1> DEFINE a       == st.snap
           scope   == Scope(st)
           t       == upsertAuthResult(s, st.snap, st.targets, st.scoped, r, q)
           old     == s.metas[a.id]
           changed == \/ old = None
                      \/ old.models = {}
                      \/ old.regEpoch # r[a.id].epoch
           models  == IF changed THEN q[a.id].models ELSE old.models
           was     == old # None /\ isCredentialBlocked(old.snap, models)
           m       == [snap |-> a, models |-> models, regEpoch |-> r[a.id].epoch]
           K       == IF changed \/ was # isCredentialBlocked(a, models) THEN Keys ELSE scope
<1>1. /\ a \in Auth /\ a.id = st.id /\ a.id \in Ids
      /\ st.targets \subseteq Models
  <2>1. a \in Auth /\ st.targets \subseteq Models
    BY DEF Snapshots
  <2>. QED
    BY <2>1, AuthFields
<1>2. scope \in SUBSET Keys /\ AnyModel \in scope
  BY <1>1 DEF Scope, Keys
<1>3. SnapsOf(st) = {a} /\ EpochsOf(st) = {} /\ ShardsOf(st) = scope
  BY DEF SnapsOf, EpochsOf, ShardsOf
<1>4. /\ isStaleScheduledAuth(s, a) => t = RefreshFromLatest(s, a, scope)
      /\ ~isStaleScheduledAuth(s, a) /\ ~a.enabled =>
           t = removeAuthFromProviders(Recorded(s, a), a.id)
      /\ ~isStaleScheduledAuth(s, a) /\ a.enabled => t = upsertAuthForModels(Recorded(s, a), m, K)
  BY DEF upsertAuthResult, Scope
<1>. HIDE DEF t, scope
<1>5. CASE isStaleScheduledAuth(s, a)
  <2>1. /\ t \in Schedulers
        /\ t.gens = s.gens
        /\ t.metas = s.metas
        /\ \A k \in Keys : EntryMove(s, t, a.id, k, scope)
        /\ \A j \in Ids \ {a.id} : SameRow(s, t, j)
    BY <1>1, <1>2, <1>4, <1>5, RefreshRow
  <2>2. RowMove(s, t, a.id, {a}, {}, scope)
    BY <2>1 DEF RowMove, GensMove, MetaMove
  <2>3. RegMove(s, t, a.id, r, q) /\ MetaKept(s, t, a.id, {a}, {})
    BY <2>1 DEF RegMove, MetaKept
  <2>4. Reached(t, a.id, a)
    BY <2>1, <1>1, <1>5, StaleReached DEF Reached
  <2>. QED
    BY <2>1, <2>2, <2>3, <2>4, <1>1, <1>3 DEF Taken, Absorbed, t
<1>6. CASE ~isStaleScheduledAuth(s, a) /\ ~a.enabled
  <2>1. t = removeAuthFromProviders(Recorded(s, a), a.id)
    BY <1>4, <1>6
  <2>2. t \in Schedulers
    BY <2>1, <1>1, DropFields
  <2>3. /\ t.gens[a.id] = Version(a)
        /\ RowMove(s, t, a.id, {a}, {}, scope)
        /\ RegMove(s, t, a.id, r, q)
        /\ MetaKept(s, t, a.id, {a}, {})
        /\ \A j \in Ids \ {a.id} : SameRow(s, t, j)
    BY <2>1, <1>1, <1>2, <1>6, DropRow
  <2>4. Reached(t, a.id, a)
    BY <2>2, <2>3, <1>1, RecordedReached
  <2>. QED
    BY <2>2, <2>3, <2>4, <1>1, <1>3 DEF Taken, Absorbed, t
<1>7. CASE ~isStaleScheduledAuth(s, a) /\ a.enabled
  <2>1. old # None => old \in scheduledAuthMeta
    BY <1>1, SchedulerFields
  <2>2. models \subseteq Models /\ r[a.id].epoch \in Nat
    BY <2>1, <1>1 DEF scheduledAuthMeta, Registries
  <2>3. m \in scheduledAuthMeta /\ m.snap = a /\ m.models = models /\ m.regEpoch = r[a.id].epoch
    BY <2>2, <1>1 DEF scheduledAuthMeta
  <2>4. K \in SUBSET Keys /\ AnyModel \in K /\ scope \subseteq K
    BY <1>2 DEF Keys
  <2>5. \/ K = Keys
        \/ /\ old # None
           /\ models = old.models
           /\ isCredentialBlocked(old.snap, models) <=> isCredentialBlocked(a, models)
    <3>1. CASE changed
      BY <3>1
    <3>2. CASE ~changed
      <4>1. models = old.models /\ old # None
        BY <3>2
      <4>2. isCredentialBlocked(old.snap, models) \in BOOLEAN /\ isCredentialBlocked(a, models) \in BOOLEAN
        BY DEF isCredentialBlocked
      <4>. HIDE DEF models
      <4>. QED
        BY <4>1, <4>2
    <3>. QED
      BY <3>1, <3>2
  <2>6. t.metas[a.id] = m => RegMove(s, t, a.id, r, q)
    BY <2>3 DEF RegMove
  <2>7. t = upsertAuthForModels(Recorded(s, a), m, K)
    BY <1>4, <1>7
  <2>. HIDE DEF m, K, models, changed, was
  <2>8. Adopted(s, upsertAuthForModels(Recorded(s, a), m, K), a, m, K)
    BY <2>3, <2>4, <2>5, <1>1, <1>7, AdoptRow
  <2>9. t \in Schedulers /\ Adopted(s, t, a, m, K)
    BY <2>3, <2>4, <2>7, <2>8, <1>1, AdoptFields
  <2>10. RowMove(s, t, a.id, {a}, {}, scope)
    BY <2>4, <2>9 DEF Adopted, RowMove, EntryMove, EntryKept
  <2>11. Reached(t, a.id, a)
    BY <2>9, <1>1, RecordedReached DEF Adopted
  <2>. QED
    BY <2>6, <2>9, <2>10, <2>11, <1>1, <1>3 DEF Taken, Absorbed, Adopted, t
<1>. QED
  BY <1>5, <1>6, <1>7

LEMMA UpsertRow ==
  ASSUME NEW s \in Schedulers, NEW st \in Snapshots, st.do = "upsert", st.snap.id = st.id,
         NEW r \in Registries, NEW q \in Registries
  PROVE  Taken(s, upsertAuthLifecycle(s, st.snap, r, q), st, r, q)
<1>1. SnapsOf(st) = {st.snap} /\ EpochsOf(st) = {} /\ ShardsOf(st) = {}
  BY DEF SnapsOf, EpochsOf, ShardsOf
<1>2. st.snap \in Auth
  BY DEF Snapshots
<1>. QED
  BY <1>1, <1>2, LifecycleRow DEF Taken, Absorbed

LEMMA TombstoneRow ==
  ASSUME NEW s \in Schedulers, NEW st \in Tombstones, NEW r \in Registries, NEW q \in Registries
  PROVE  Taken(s, RecordRemovalTombstone(s, st.id, st.epoch), st, r, q)
<1> DEFINE id == st.id
           e  == st.epoch
           g  == [epoch |-> e, gen |-> 0]
           u  == [s EXCEPT !.gens[id] = g]
           t  == RecordRemovalTombstone(s, st.id, st.epoch)
<1>1. id \in Ids /\ e \in Nat /\ st.do = "tombstone"
  BY DEF Tombstones
<1>2. SnapsOf(st) = {} /\ EpochsOf(st) = {e} /\ ShardsOf(st) = {}
  BY <1>1 DEF SnapsOf, EpochsOf, ShardsOf
<1>3. s.gens[id] # None => s.gens[id].epoch \in Nat
  BY <1>1, SchedulerFields DEF scheduledGenerationMeta
<1>4. CASE s.gens[id] # None /\ e < s.gens[id].epoch
  <2>1. t = s
    BY <1>4 DEF RecordRemovalTombstone
  <2>2. \A j \in Ids : SameRow(s, s, j)
    BY DEF SameRow
  <2>3. RowMove(s, s, id, {}, {e}, {}) /\ RegMove(s, s, id, r, q) /\ MetaKept(s, s, id, {}, {e})
    BY DEF RowMove, GensMove, MetaMove, EntryMove, EntryKept, RegMove, MetaKept
  <2>4. s.gens[id].epoch >= e
    BY <1>1, <1>3, <1>4
  <2>. HIDE DEF t, e, id
  <2>. QED
    BY <2>1, <2>2, <2>3, <2>4, <1>2, <1>4 DEF Taken, Absorbed, t, id
<1>5. CASE ~(s.gens[id] # None /\ e < s.gens[id].epoch)
  <2>1. t = removeAuthFromProviders(u, id)
    BY <1>5 DEF RecordRemovalTombstone
  <2>2. g \in scheduledGenerationMeta /\ g # None /\ g.epoch = e
    BY <1>1, NoneIsNone DEF scheduledGenerationMeta
  <2>3. /\ u.gens = [s.gens EXCEPT ![id] = g] /\ u.metas = s.metas /\ u.shards = s.shards
        /\ u = [gens |-> u.gens, metas |-> u.metas, shards |-> u.shards]
    <3>1. u = [s EXCEPT !.gens = [s.gens EXCEPT ![id] = g]]
      OBVIOUS
    <3>. HIDE DEF u, g, id
    <3>. QED
      BY <3>1 DEF Schedulers
  <2>4. u \in Schedulers /\ \A j \in Ids, k \in Keys : Entry(u, j, k) = Entry(s, j, k)
    <3>1. u.gens \in [Ids -> scheduledGenerationMeta \cup {None}]
      BY <1>1, <2>2, <2>3, SchedulerFields
    <3>. HIDE DEF u
    <3>. QED
      BY <3>1, <2>3, SchedulerFields DEF Schedulers, Entry
  <2>. HIDE DEF t, u, g, id, e
  <2>5. /\ t \in Schedulers
        /\ t.gens = [s.gens EXCEPT ![id] = g]
        /\ t.metas = [s.metas EXCEPT ![id] = None]
        /\ \A j \in Ids, k \in Keys : Entry(t, j, k) = IF j = id THEN None ELSE Entry(s, j, k)
    BY <1>1, <2>1, <2>3, <2>4, RemoveFields
  <2>6. t.gens[id] = g /\ t.metas[id] = None
    BY <1>1, <2>5, SchedulerFields
  <2>7. Buried(s, t, id, e)
    BY <1>1, <1>3, <1>5, <2>6 DEF Buried, g
  <2>8. RowMove(s, t, id, {}, {e}, {}) /\ RegMove(s, t, id, r, q) /\ MetaKept(s, t, id, {}, {e})
    BY <1>1, <2>5, <2>6, <2>7 DEF RowMove, GensMove, MetaMove, EntryMove, RegMove, MetaKept
  <2>9. \A j \in Ids \ {id} : SameRow(s, t, j)
    BY <1>1, <2>5, SchedulerFields DEF SameRow
  <2>10. t.gens[id] # None /\ t.gens[id].epoch >= e
    BY <1>1, <2>2, <2>6
  <2>. QED
    BY <2>5, <2>8, <2>9, <2>10, <1>2 DEF Taken, Absorbed, t, id
<1>. QED
  BY <1>4, <1>5

LEMMA ApplyRow ==
  ASSUME NEW s \in Schedulers, NEW st \in Snapshots \cup Tombstones,
         st \in Snapshots => st.snap.id = st.id,
         Tidy(s, st.id), NEW r \in Registries, NEW q \in Registries
  PROVE  Taken(s, Apply(s, st, r, q), st, r, q)
<1>1. CASE st \in Tombstones
  <2>1. Apply(s, st, r, q) = RecordRemovalTombstone(s, st.id, st.epoch)
    BY <1>1 DEF Apply, Tombstones
  <2>. QED
    BY <1>1, <2>1, TombstoneRow
<1>2. CASE st \in Snapshots /\ st.do = "upsert"
  <2>1. Apply(s, st, r, q) = upsertAuthLifecycle(s, st.snap, r, q)
    BY <1>2 DEF Apply
  <2>. QED
    BY <1>2, <2>1, UpsertRow
<1>3. CASE st \in Snapshots /\ st.do = "result"
  <2>1. Apply(s, st, r, q) = upsertAuthResult(s, st.snap, st.targets, st.scoped, r, q)
    BY <1>3 DEF Apply
  <2>. QED
    BY <1>3, <2>1, ResultRow
<1>. QED
  BY <1>1, <1>2, <1>3 DEF Snapshots

-----------------------------------------------------------------------------
(***************************************************************************)
(* A rebuild and a new shard                                               *)
(***************************************************************************)
Use(s, list, id) == IF list[id] = None THEN None ELSE Scheduled(s, list[id])

\* The list and the index hold each credential under its own id.
Filed(s, list, id) ==
  /\ list[id] # None => list[id].id = id
  /\ s.metas[id] # None => /\ s.metas[id].snap.id = id
                           /\ s.metas[id].snap.enabled
                           /\ s.gens[id] = Version(s.metas[id].snap)

LEMMA UseIs ==
  ASSUME NEW s \in Schedulers, NEW list \in Maps, NEW id \in Ids, Filed(s, list, id)
  PROVE  \/ Use(s, list, id) = None
         \/ /\ Use(s, list, id) \in Auth
            /\ Use(s, list, id) # None
            /\ Use(s, list, id).enabled
            /\ \/ /\ s.metas[id] # None
                  /\ Use(s, list, id) = s.metas[id].snap
                  /\ s.gens[id] = Version(Use(s, list, id))
               \/ /\ Use(s, list, id) = list[id]
                  /\ ~isStaleScheduledAuth(s, list[id])
<1>1. CASE list[id] = None
  BY <1>1 DEF Use
<1>2. CASE list[id] # None
  <2> DEFINE a     == list[id]
             g     == s.gens[id]
             newer == g # None /\ g.epoch = a.epoch /\ g.gen > a.gen
  <2>1. a \in Auth /\ a.id = id /\ a # None
    BY <1>2 DEF Maps, Filed
  <2>2. Use(s, list, id) =
          IF g # None /\ g.epoch > a.epoch THEN None
          ELSE IF newer THEN IF s.metas[id] = None THEN None ELSE s.metas[id].snap
          ELSE IF a.enabled THEN a ELSE None
    BY <1>2, <2>1 DEF Use, Scheduled
  <2>3. s.metas[id] # None => s.metas[id].snap \in Auth
    BY SchedulerFields, MetaFields
  <2>4. CASE Use(s, list, id) = s.metas[id].snap /\ s.metas[id] # None
    BY <2>3, <2>4, NoneIsNone DEF Filed
  <2>5. CASE Use(s, list, id) = a /\ a.enabled /\ ~(g # None /\ g.epoch > a.epoch) /\ ~newer
    <3>1. ~isStaleScheduledAuth(s, a)
      BY <2>1, <2>5 DEF isStaleScheduledAuth
    <3>. QED
      BY <2>1, <2>5, <3>1
  <2>. QED
    BY <2>2, <2>4, <2>5
<1>. QED
  BY <1>1, <1>2

LEMMA RebuildFields ==
  ASSUME NEW s \in Schedulers, NEW list \in Maps, \A id \in Ids : Filed(s, list, id),
         NEW r \in Registries, NEW q \in Registries
  PROVE  /\ rebuild(s, list, r, q) \in Schedulers
         /\ \A id \in Ids :
              /\ rebuild(s, list, r, q).gens[id] =
                   IF Use(s, list, id) = None THEN s.gens[id] ELSE Version(Use(s, list, id))
              /\ rebuild(s, list, r, q).metas[id] =
                   IF Use(s, list, id) = None THEN None
                   ELSE [snap |-> Use(s, list, id), models |-> q[id].models,
                         regEpoch |-> r[id].epoch]
              /\ \A k \in Keys : Entry(rebuild(s, list, r, q), id, k) = None
<1> DEFINE use   == [id \in Ids |-> IF list[id] = None THEN None ELSE Scheduled(s, list[id])]
           gens  == [id \in Ids |-> IF use[id] = None THEN s.gens[id]
                                    ELSE [epoch |-> use[id].epoch, gen |-> use[id].gen]]
           metas == [id \in Ids |-> IF use[id] = None THEN None
                                    ELSE [snap |-> use[id], models |-> q[id].models,
                                          regEpoch |-> r[id].epoch]]
           t     == rebuild(s, list, r, q)
<1>1. t = [gens |-> gens, metas |-> metas, shards |-> [k \in Keys |-> None]]
  BY DEF rebuild
<1>2. \A id \in Ids : use[id] = Use(s, list, id)
  BY DEF Use
<1>. HIDE DEF t, use
<1>3. /\ t.gens = gens /\ t.metas = metas /\ t.shards = [k \in Keys |-> None]
      /\ \A id \in Ids, k \in Keys : Entry(t, id, k) = None
  BY <1>1 DEF Entry
<1>4. ASSUME NEW id \in Ids
      PROVE  /\ gens[id] \in scheduledGenerationMeta \cup {None}
             /\ metas[id] \in scheduledAuthMeta \cup {None}
  <2>1. use[id] = None \/ use[id] \in Auth
    BY <1>2, UseIs
  <2>2. q[id].models \subseteq Models /\ r[id].epoch \in Nat
    BY DEF Registries
  <2>3. s.gens[id] \in scheduledGenerationMeta \cup {None}
    BY SchedulerFields
  <2>. QED
    BY <2>1, <2>2, <2>3, AuthFields DEF scheduledGenerationMeta, scheduledAuthMeta
<1>5. t \in Schedulers
  BY <1>1, <1>4 DEF Schedulers
<1>. QED
  BY <1>2, <1>3, <1>5 DEF Version, t

\* The snapshots a rebuild may adopt.
Adoptable(s, list, id) ==
  (IF list[id] = None THEN {} ELSE {list[id]})
  \cup (IF s.metas[id] = None THEN {} ELSE {s.metas[id].snap})

Rebuilt(s, t, list, id, r, q) ==
  /\ RowMove(s, t, id, Adoptable(s, list, id), {}, {})
  /\ RegMove(s, t, id, r, q)

LEMMA RebuildRow ==
  ASSUME NEW s \in Schedulers, NEW list \in Maps, \A id \in Ids : Filed(s, list, id),
         NEW r \in Registries, NEW q \in Registries, NEW id \in Ids
  PROVE  Rebuilt(s, rebuild(s, list, r, q), list, id, r, q)
<1> DEFINE t == rebuild(s, list, r, q)
           u == Use(s, list, id)
           m == [snap |-> u, models |-> q[id].models, regEpoch |-> r[id].epoch]
<1>1. /\ t.gens[id] = IF u = None THEN s.gens[id] ELSE Version(u)
      /\ t.metas[id] = IF u = None THEN None ELSE m
      /\ \A k \in Keys : Entry(t, id, k) = None
  BY RebuildFields
<1>2. \/ u = None
      \/ /\ u # None
         /\ u.enabled
         /\ u \in Adoptable(s, list, id)
         /\ \/ s.gens[id] = Version(u)
            \/ ~isStaleScheduledAuth(s, u)
  BY UseIs DEF Adoptable
<1>. HIDE DEF t, u
<1>3. GensMove(s, t, id, Adoptable(s, list, id), {})
  BY <1>1, <1>2 DEF GensMove, Adopts
<1>4. MetaMove(s, t, id, Adoptable(s, list, id))
  BY <1>1, <1>2 DEF MetaMove
<1>5. \A k \in Keys : EntryMove(s, t, id, k, {})
  BY <1>1 DEF EntryMove
<1>6. RegMove(s, t, id, r, q)
  BY <1>1 DEF RegMove
<1>. QED
  BY <1>3, <1>4, <1>5, <1>6 DEF Rebuilt, RowMove, t

LEMMA EnsureRow ==
  ASSUME TypeOK, NEW k \in Picked, EnsureModel(k)
  PROVE  /\ sched' \in Schedulers
         /\ sched'.gens = sched.gens
         /\ sched'.metas = sched.metas
         /\ \A id \in Ids : RowMove(sched, sched', id, {}, {}, {})
<1> DEFINE f == [id \in Ids |->
                   IF sched.metas[id] # None /\ supportsModel(sched.metas[id], k)
                   THEN sched.metas[id].snap ELSE None]
<1>0. sched \in Schedulers /\ k \in Keys
  BY PickedAssumption DEF TypeOK, Keys
<1>1. /\ sched.shards[k] = None
      /\ sched' = [sched EXCEPT !.shards = [sched.shards EXCEPT ![k] = f]]
  BY DEF EnsureModel
<1>2. f \in modelScheduler
  BY <1>0, SchedulerFields, MetaFields DEF modelScheduler
<1>. HIDE DEF f
<1>3. /\ sched'.gens = sched.gens
      /\ sched'.metas = sched.metas
      /\ sched'.shards = [sched.shards EXCEPT ![k] = f]
      /\ sched' = [gens |-> sched'.gens, metas |-> sched'.metas, shards |-> sched'.shards]
  BY <1>0, <1>1 DEF Schedulers
<1>4. sched'.shards \in [Keys -> modelScheduler \cup {None}]
  BY <1>0, <1>2, <1>3, SchedulerFields
<1>5. sched' \in Schedulers
  BY <1>0, <1>3, <1>4, SchedulerFields DEF Schedulers
<1>6. ASSUME NEW id \in Ids, NEW j \in Keys
      PROVE  EntryMove(sched, sched', id, j, {})
  <2>1. CASE j = k
    <3>1. Entry(sched', id, k) = f[id]
      BY <1>0, <1>2, <1>3, SchedulerFields, NoneIsNone DEF Entry
    <3>. QED
      BY <2>1, <3>1, <1>3 DEF EntryMove, f
  <2>2. CASE j # k
    <3>1. Entry(sched', id, j) = Entry(sched, id, j)
      BY <2>2, <1>0, <1>3, SchedulerFields DEF Entry
    <3>. QED
      BY <3>1, <1>3 DEF EntryMove, EntryKept
  <2>. QED
    BY <2>1, <2>2
<1>. QED
  BY <1>3, <1>5, <1>6 DEF RowMove, GensMove, MetaMove

-----------------------------------------------------------------------------
(***************************************************************************)
(* What goroutines have to do                                              *)
(***************************************************************************)
LEMMA TodoIs ==
  ASSUME NEW t
  PROVE  t \in Todo <=> \E p \in Callers : \E i \in 1..Len(calls[p]) : t = calls[p][i]
BY DEF Todo

LEMMA TodoTyped ==
  ASSUME TypeOK, NEW t \in Todo
  PROVE  t \in Steps
<1>1. PICK p \in Callers : \E i \in 1..Len(calls[p]) : t = calls[p][i]
  BY TodoIs
<1>2. PICK i \in 1..Len(calls[p]) : t = calls[p][i]
  BY <1>1
<1>3. calls[p] \in Seq(Steps)
  BY DEF TypeOK
<1>. QED
  BY <1>2, <1>3

LEMMA StepFields ==
  ASSUME NEW t \in Steps
  PROVE  /\ t.do \in {"upsert", "result", "tombstone", "bump", "sync"}
         /\ t.do \in {"upsert", "result"} => t \in Snapshots /\ t.snap \in Auth /\ t.id \in Ids
         /\ t.do = "result" => t.targets \subseteq Models /\ t.scoped \in BOOLEAN
         /\ t.do = "tombstone" => t \in Tombstones /\ t.epoch \in Nat /\ t.id \in Ids
         /\ t \in Snapshots => t.do \in {"upsert", "result"}
         /\ t \in Tombstones => t.do = "tombstone"
BY DEF Steps, Snapshots, Tombstones, Bumps, Syncs

LEMMA BeginTodo ==
  ASSUME TypeOK, NEW p \in Callers, NEW todo \in Seq(Steps), Begin(p, todo)
  PROVE  /\ Todo' = Todo \cup {todo[i] : i \in 1..Len(todo)}
         /\ calls' \in [Callers -> Seq(Steps)]
         /\ calls'[p] = todo
         /\ calls[p] = << >>
         /\ \A q \in Callers : q # p => calls'[q] = calls[q]
<1>1. /\ calls[p] = << >>
      /\ calls' = [calls EXCEPT ![p] = todo]
      /\ calls \in [Callers -> Seq(Steps)]
  BY DEF Begin, Free, TypeOK
<1>2. /\ calls' \in [Callers -> Seq(Steps)]
      /\ calls'[p] = todo
      /\ \A q \in Callers : q # p => calls'[q] = calls[q]
  BY <1>1
<1>3. ASSUME NEW t
      PROVE  t \in Todo' <=> t \in Todo \/ \E i \in 1..Len(todo) : t = todo[i]
  <2>1. t \in Todo' <=> \E q \in Callers : \E i \in 1..Len(calls'[q]) : t = calls'[q][i]
    BY DEF Todo
  <2>2. t \in Todo <=> \E q \in Callers : \E i \in 1..Len(calls[q]) : t = calls[q][i]
    BY DEF Todo
  <2>3. ASSUME NEW i \in 1..Len(calls[p])
        PROVE  FALSE
    BY <2>3, <1>1
  <2>. QED
    BY <2>1, <2>2, <2>3, <1>2
<1>. QED
  BY <1>1, <1>2, <1>3

LEMMA BeginOne ==
  ASSUME TypeOK, NEW p \in Callers, NEW s \in Steps, Begin(p, <<s>>)
  PROVE  Todo' = Todo \cup {s}
<1>1. <<s>> \in Seq(Steps) /\ Len(<<s>>) = 1 /\ <<s>>[1] = s
  OBVIOUS
<1>2. {<<s>>[i] : i \in 1..Len(<<s>>)} = {s}
  BY <1>1
<1>. QED
  BY <1>1, <1>2, BeginTodo

LEMMA BeginTwo ==
  ASSUME TypeOK, NEW p \in Callers, NEW s \in Steps, NEW t \in Steps, Begin(p, <<s, t>>)
  PROVE  Todo' = Todo \cup {s, t}
<1>1. <<s, t>> \in Seq(Steps) /\ Len(<<s, t>>) = 2 /\ <<s, t>>[1] = s /\ <<s, t>>[2] = t
  OBVIOUS
<1>2. {<<s, t>>[i] : i \in 1..Len(<<s, t>>)} = {s, t}
  <2>1. 1..2 = {1, 2}
    OBVIOUS
  <2>. QED
    BY <1>1, <2>1
<1>. QED
  BY <1>1, <1>2, BeginTodo

LEMMA TailTodo ==
  ASSUME TypeOK, NEW p \in Callers, calls[p] # << >>,
         calls' = [calls EXCEPT ![p] = Tail(@)]
  PROVE  /\ calls' \in [Callers -> Seq(Steps)]
         /\ Head(calls[p]) \in Todo
         /\ Todo' \subseteq Todo
         /\ Todo \subseteq Todo' \cup {Head(calls[p])}
         /\ \A q \in Callers : q # p => calls'[q] = calls[q]
         /\ calls[p][1] = Head(calls[p])
<1>1. calls[p] \in Seq(Steps) /\ calls \in [Callers -> Seq(Steps)]
  BY DEF TypeOK
<1>2. /\ Head(calls[p]) = calls[p][1]
      /\ Len(calls[p]) \in Nat \ {0}
      /\ Tail(calls[p]) \in Seq(Steps)
      /\ Len(Tail(calls[p])) = Len(calls[p]) - 1
      /\ \A i \in 1..(Len(calls[p]) - 1) : Tail(calls[p])[i] = calls[p][i + 1]
  BY <1>1
<1>3. /\ calls' \in [Callers -> Seq(Steps)]
      /\ calls'[p] = Tail(calls[p])
      /\ \A q \in Callers : q # p => calls'[q] = calls[q]
  BY <1>1, <1>2
<1>4. Head(calls[p]) \in Todo
  <2>1. 1 \in 1..Len(calls[p])
    BY <1>2
  <2>. QED
    BY <2>1, <1>2, TodoIs
<1>5. ASSUME NEW t \in Todo'
      PROVE  t \in Todo
  <2>1. PICK q \in Callers : \E i \in 1..Len(calls'[q]) : t = calls'[q][i]
    BY <1>5 DEF Todo
  <2>2. PICK i \in 1..Len(calls'[q]) : t = calls'[q][i]
    BY <2>1
  <2>3. CASE q = p
    <3>1. i \in 1..(Len(calls[p]) - 1) /\ t = calls[p][i + 1] /\ i + 1 \in 1..Len(calls[p])
      BY <2>2, <2>3, <1>2, <1>3
    <3>. QED
      BY <3>1, TodoIs
  <2>4. CASE q # p
    BY <2>2, <2>4, <1>3, TodoIs
  <2>. QED
    BY <2>3, <2>4
<1>6. ASSUME NEW t \in Todo, t # Head(calls[p])
      PROVE  t \in Todo'
  <2>1. PICK q \in Callers : \E i \in 1..Len(calls[q]) : t = calls[q][i]
    BY <1>6, TodoIs
  <2>2. PICK i \in 1..Len(calls[q]) : t = calls[q][i]
    BY <2>1
  <2>3. CASE q = p
    <3>1. i - 1 \in 1..(Len(calls[p]) - 1) /\ (i - 1) + 1 = i
      BY <2>2, <2>3, <1>2, <1>6
    <3>2. t = calls'[p][i - 1] /\ i - 1 \in 1..Len(calls'[p])
      BY <3>1, <2>2, <2>3, <1>2, <1>3
    <3>3. t \in {calls'[p][j] : j \in 1..Len(calls'[p])}
      BY <3>2
    <3>. HIDE <1>1, <1>2, <1>3, <2>1, <2>2
    <3>. QED
      BY <3>3 DEF Todo
  <2>4. CASE q # p
    BY <2>2, <2>4, <1>3 DEF Todo
  <2>. QED
    BY <2>3, <2>4
<1>. QED
  BY <1>2, <1>3, <1>4, <1>5, <1>6

-----------------------------------------------------------------------------
(***************************************************************************)
(* Changes of the manager: what one of them is for one credential          *)
(***************************************************************************)
LEMMA KnownIs ==
  ASSUME NEW id, NEW a
  PROVE  a \in Known(id) <=>
           \/ \E t \in Todo : t.do \in {"upsert", "result"} /\ t.id = id /\ t.snap = a
           \/ syncer.pc = "rebuild" /\ a = syncer.list[id] /\ a # None
           \/ a = auths[id] /\ a # None
           \/ sched.metas[id] # None /\ a = sched.metas[id].snap
BY DEF Known, Flying, Listed, Published, Indexed

LEMMA KnownIsNext ==
  ASSUME NEW id, NEW a
  PROVE  a \in Known(id)' <=>
           \/ \E t \in Todo' : t.do \in {"upsert", "result"} /\ t.id = id /\ t.snap = a
           \/ syncer'.pc = "rebuild" /\ a = syncer'.list[id] /\ a # None
           \/ a = auths'[id] /\ a # None
           \/ sched'.metas[id] # None /\ a = sched'.metas[id].snap
BY DEF Known, Flying, Listed, Published, Indexed

LEMMA FlyingIs ==
  ASSUME NEW id, NEW a
  PROVE  /\ a \in Flying(id) <=>
              \E t \in Todo : t.do \in {"upsert", "result"} /\ t.id = id /\ t.snap = a
         /\ a \in Flying(id)' <=>
              \E t \in Todo' : t.do \in {"upsert", "result"} /\ t.id = id /\ t.snap = a
BY DEF Flying

\* What is new to do after a change concerns only the credential's new state.
NewStep(id, t) ==
  \/ t \in Todo
  \/ t.id # id
  \/ t.do \in {"bump", "sync"}
  \/ t.do \in {"upsert", "result"} /\ t.snap = auths'[id] /\ auths'[id] # None
  \/ /\ t = Tombstone(id, authEpochs'[id])
     /\ auths'[id] = None
     /\ authEpochs'[id] > authEpochs[id]

Frame(id) ==
  /\ UNCHANGED <<reg, version, syncedVersion, sched, syncer>>
  /\ Todo \subseteq Todo'
  /\ \A t \in Todo' : NewStep(id, t)
  /\ \A p \in Callers : calls[p] # << >> => calls'[p] = calls[p]

Keeps(id) == auths'[id] = auths[id] /\ authEpochs'[id] = authEpochs[id]

Advances(id) ==
  LET old == auths[id]
      new == auths'[id]
  IN  /\ old # None
      /\ new \in Auth
      /\ new # None
      /\ new.id = id
      /\ new.epoch = old.epoch
      /\ new.gen = old.gen + 1
      /\ new.blocked \subseteq new.states
      /\ authEpochs'[id] = authEpochs[id]
      /\ \E t \in Todo' : t.do \in {"upsert", "result"} /\ t.id = id /\ t.snap = new
      /\ \/ new.edit = new.gen
         \/ /\ new.edit = old.edit
            /\ \A k \in Models :
                 \/ SameFor(old, new, k)
                 \/ \E t \in Todo' : t.do = "result" /\ t.id = id /\ t.snap = new /\ k \in Scope(t)
      /\ \/ new.enabled => old.enabled
         \/ \E p \in Callers : calls'[p] = <<Upsert(new), Bump(id)>>

Starts(id) ==
  /\ authEpochs'[id] = authEpochs[id] + 1
  /\ auths'[id] = Fresh(id, authEpochs'[id])

Removes(id) ==
  /\ authEpochs'[id] = authEpochs[id] + 1
  /\ auths'[id] = None
  /\ Tombstone(id, authEpochs'[id]) \in Todo'

LEMMA KnownGrows ==
  ASSUME NEW id \in Ids, Frame(id), NEW a \in Known(id)'
  PROVE  a \in Known(id) \/ (a = auths'[id] /\ a # None)
<1>1. sched' = sched /\ syncer' = syncer
  BY DEF Frame
<1>2. ASSUME NEW t \in Todo', t.do \in {"upsert", "result"}, t.id = id
      PROVE  t \in Todo \/ (t.snap = auths'[id] /\ auths'[id] # None)
  BY <1>2 DEF Frame, NewStep, Tombstone
<1>. QED
  BY <1>1, <1>2, KnownIs, KnownIsNext

LEMMA IdTyped ==
  ASSUME TypeOK, NEW id \in Ids
  PROVE  /\ authEpochs[id] \in Nat
         /\ auths[id] \in Auth \cup {None}
         /\ sched.gens[id] # None => sched.gens[id] \in scheduledGenerationMeta
         /\ sched.gens[id] # None => sched.gens[id].epoch \in Nat /\ sched.gens[id].gen \in Nat
         /\ sched.metas[id] # None => sched.metas[id] \in scheduledAuthMeta
         /\ reg[id].epoch \in Nat
<1>1. sched \in Schedulers
  BY DEF TypeOK
<1>. QED
  BY <1>1, SchedulerFields DEF TypeOK, Maps, Registries, scheduledGenerationMeta

LEMMA KeepsStep ==
  ASSUME TypeOK, NEW id \in Ids, CredentialInv(id), Frame(id), Keeps(id)
  PROVE  CredentialInv(id)'
<1>0. /\ auths'[id] = auths[id] /\ authEpochs'[id] = authEpochs[id]
      /\ sched' = sched /\ syncer' = syncer /\ reg' = reg
      /\ Todo \subseteq Todo'
      /\ \A p \in Callers : calls[p] # << >> => calls'[p] = calls[p]
  BY DEF Frame, Keeps
<1>1. \A a \in Known(id)' : a \in Known(id)
  <2>1. auths[id] # None => auths[id] \in Known(id)
    BY KnownIs
  <2>. QED
    BY <1>0, <2>1, KnownGrows
<1>2. KnownInv(id)'
  BY <1>0, <1>1 DEF CredentialInv, KnownInv, Sound, Current
<1>3. IndexInv(id)'
  <2>1. GensInv(id)' /\ MetaInv(id)' /\ RegInv(id)'
    BY <1>0 DEF CredentialInv, IndexInv, GensInv, MetaInv, RegInv
  <2>2. EntryInv(id)'
    BY <1>0 DEF CredentialInv, IndexInv, EntryInv
  <2>. QED
    BY <2>1, <2>2 DEF IndexInv
<1>4. TombInv(id)'
  <2>1. ASSUME NEW t \in Todo', t.do = "tombstone", t.id = id
        PROVE  t \in Todo
    BY <2>1, <1>0, IdTyped DEF Frame, NewStep
  <2>. QED
    BY <2>1, <1>0 DEF CredentialInv, DueInv, TombInv
<1>5. LastInv(id)'
  <2>1. auths[id] \in Flying(id) => auths[id] \in Flying(id)'
    BY <1>0, FlyingIs
  <2>. QED
    BY <2>1, <1>0 DEF CredentialInv, DueInv, LastInv
<1>6. EnabledInv(id)'
  <2>1. ASSUME NEW p \in Callers, NEW a, Newer(p, id, a)
        PROVE  Newer(p, id, a)'
    <3>1. calls[p] # << >>
      BY <2>1 DEF Newer
    <3>. QED
      BY <2>1, <3>1, <1>0 DEF Newer, Current
  <2>. QED
    BY <2>1, <1>0, <1>1 DEF CredentialInv, DueInv, EnabledInv, Current
<1>7. HistoryInv(id)'
  <2>1. ASSUME NEW k, NEW a, NEW b, Follows(id, k, a, b)
        PROVE  Follows(id, k, a, b)'
    BY <2>1, <1>0 DEF Follows, Overtaken, Current
  <2>2. \A a : Current(id, a)' <=> Current(id, a)
    BY <1>0 DEF Current
  <2>. QED
    BY <2>1, <2>2, <1>0, <1>1 DEF CredentialInv, HistoryInv
<1>. QED
  BY <1>2, <1>3, <1>4, <1>5, <1>6, <1>7 DEF CredentialInv, DueInv

LEMMA FreshFields ==
  ASSUME NEW id \in Ids, NEW e \in Nat
  PROVE  /\ Fresh(id, e) \in Auth /\ Fresh(id, e) # None
         /\ Fresh(id, e).id = id /\ Fresh(id, e).epoch = e /\ Fresh(id, e).gen = 1
         /\ Fresh(id, e).enabled /\ Fresh(id, e).blocked = {} /\ Fresh(id, e).states = {}
<1>1. Fresh(id, e) \in Auth
  BY DEF Fresh, Auth
<1>. QED
  BY <1>1, NoneIsNone DEF Fresh

LEMMA StartsStep ==
  ASSUME TypeOK, NEW id \in Ids, CredentialInv(id), Frame(id), Starts(id)
  PROVE  CredentialInv(id)'
<1>p. PICK new : new = auths'[id]
  OBVIOUS
<1>q. PICK e : e = authEpochs'[id]
  OBVIOUS
<1>n. new = auths'[id] /\ e = authEpochs'[id]
  BY <1>p, <1>q
<1>0. /\ sched' = sched /\ syncer' = syncer /\ reg' = reg
      /\ Todo \subseteq Todo'
  BY DEF Frame
<1>1. /\ authEpochs[id] \in Nat /\ e \in Nat /\ e = authEpochs[id] + 1
      /\ new = Fresh(id, e)
  BY <1>n, IdTyped DEF Starts
<1>2. /\ new \in Auth /\ new # None
      /\ new.id = id /\ new.epoch = e /\ new.gen = 1
      /\ new.enabled /\ new.blocked = {} /\ new.states = {}
  BY <1>1, FreshFields
<1>3. ASSUME NEW a \in Known(id)'
      PROVE  a = new \/ (a \in Known(id) /\ Sound(id, a) /\ a.epoch \in Nat /\ a.epoch < e)
  <2>1. a \in Known(id) \/ a = new
    BY <1>3, KnownGrows, <1>n
  <2>2. CASE a \in Known(id)
    <3>1. Sound(id, a)
      BY <2>2 DEF CredentialInv, KnownInv
    <3>2. a.epoch \in Nat /\ a.epoch <= authEpochs[id]
      BY <3>1, AuthFields DEF Sound
    <3>. QED
      BY <2>2, <3>1, <3>2, <1>1
  <2>. QED
    BY <2>1, <2>2
<1>4. KnownInv(id)'
  <2>1. ASSUME NEW a \in Known(id)'
        PROVE  Sound(id, a)'
    <3>1. CASE a = new
      <4>1. Sound(id, new)'
        BY <1>1, <1>2, <1>n DEF Sound, Current
      <4>. QED
        BY <3>1, <4>1
    <3>2. CASE a # new
      BY <1>1, <1>3, <2>1, <3>2, <1>n DEF Sound, Current
    <3>. QED
      BY <3>1, <3>2
  <2>. QED
    BY <2>1, <1>2, <1>n DEF KnownInv, Current
<1>5. sched.gens[id] # None => sched.gens[id].epoch \in Nat /\ sched.gens[id].epoch < e
  BY <1>1, IdTyped DEF CredentialInv, IndexInv, GensInv
<1>6. IndexInv(id)'
  <2>1. GensInv(id)'
    BY <1>0, <1>5, <1>1, <1>n DEF GensInv
  <2>2. MetaInv(id)' /\ RegInv(id)'
    BY <1>0 DEF CredentialInv, IndexInv, MetaInv, RegInv
  <2>3. EntryInv(id)'
    BY <1>0 DEF CredentialInv, IndexInv, EntryInv
  <2>. QED
    BY <2>1, <2>2, <2>3 DEF IndexInv
<1>7. TombInv(id)'
  <2>1. ASSUME NEW t \in Todo', t.do = "tombstone", t.id = id
        PROVE  t \in Todo
    BY <2>1, <1>2, <1>n DEF Frame, NewStep
  <2>2. ASSUME NEW t \in Todo', t.do = "tombstone", t.id = id
        PROVE  t.epoch \in Nat /\ t.epoch < e
    BY <2>1, <2>2, <1>1, TodoTyped, StepFields DEF CredentialInv, DueInv, TombInv
  <2>. QED
    BY <2>2, <1>1, <1>2, <1>n DEF TombInv
<1>8. LastInv(id)'
  BY <1>0, <1>2, <1>5, <1>n DEF LastInv
<1>9. EnabledInv(id)'
  BY <1>1, <1>2, <1>3, <1>n DEF EnabledInv, Current
<1>10. HistoryInv(id)'
  <2>1. ASSUME NEW a \in Known(id)', Current(id, a)'
        PROVE  a = new
    BY <1>1, <1>3, <2>1, <1>n DEF Current
  <2>2. ASSUME NEW k \in Models, Entry(sched, id, k) # None
        PROVE  Entry(sched, id, k).epoch # e
    <3>1. Entry(sched, id, k) \in Auth /\ Reached(sched, id, Entry(sched, id, k))
      BY <2>2 DEF CredentialInv, IndexInv, EntryInv, Keys
    <3>. QED
      BY <3>1, <1>1, <1>5, AuthFields, <1>n DEF Reached, Current
  <2>3. \A k \in Models : Follows(id, k, new, new)'
    BY DEF Follows, SameFor
  <2>. QED
    BY <2>1, <2>2, <2>3, <1>n, <1>0 DEF HistoryInv, Current
<1>. QED
  BY <1>4, <1>6, <1>7, <1>8, <1>9, <1>10 DEF CredentialInv, DueInv

LEMMA RemovesStep ==
  ASSUME TypeOK, NEW id \in Ids, CredentialInv(id), Frame(id), Removes(id)
  PROVE  CredentialInv(id)'
<1>n. PICK e : e = authEpochs'[id]
  OBVIOUS
<1>0. /\ sched' = sched /\ syncer' = syncer /\ reg' = reg
      /\ Todo \subseteq Todo'
  BY DEF Frame
<1>1. /\ authEpochs[id] \in Nat /\ e \in Nat /\ e = authEpochs[id] + 1
      /\ auths'[id] = None
      /\ Tombstone(id, e) \in Todo'
  BY <1>n, IdTyped DEF Removes
<1>2. ASSUME NEW a \in Known(id)'
      PROVE  Sound(id, a) /\ a.epoch \in Nat /\ a.epoch < e
  <2>1. a \in Known(id)
    BY <1>1, <1>2, KnownGrows
  <2>2. Sound(id, a)
    BY <2>1 DEF CredentialInv, KnownInv
  <2>3. a.epoch \in Nat /\ a.epoch <= authEpochs[id]
    BY <2>2, AuthFields DEF Sound
  <2>. QED
    BY <2>2, <2>3, <1>1
<1>3. KnownInv(id)'
  BY <1>1, <1>2, <1>n DEF KnownInv, Sound, Current
<1>4. sched.gens[id] # None => sched.gens[id].epoch \in Nat /\ sched.gens[id].epoch < e
  BY <1>1, IdTyped DEF CredentialInv, IndexInv, GensInv
<1>5. IndexInv(id)'
  <2>1. GensInv(id)'
    BY <1>0, <1>4, <1>1, <1>n DEF GensInv
  <2>2. MetaInv(id)' /\ RegInv(id)'
    BY <1>0 DEF CredentialInv, IndexInv, MetaInv, RegInv
  <2>3. EntryInv(id)'
    BY <1>0 DEF CredentialInv, IndexInv, EntryInv
  <2>. QED
    BY <2>1, <2>2, <2>3 DEF IndexInv
<1>6. TombInv(id)'
  <2>1. ASSUME NEW t \in Todo', t.do = "tombstone", t.id = id
        PROVE  t \in Todo \/ t.epoch = e
    BY <2>1, <1>1, <1>n DEF Frame, NewStep, Tombstone
  <2>2. ASSUME NEW t \in Todo', t.do = "tombstone", t.id = id
        PROVE  t.epoch <= e
    <3>1. CASE t \in Todo
      BY <3>1, <2>2, <1>1, TodoTyped, StepFields DEF CredentialInv, DueInv, TombInv
    <3>. QED
      BY <3>1, <2>1, <2>2, <1>1
  <2>. QED
    BY <2>2, <1>1, <1>n DEF TombInv
<1>7. LastInv(id)' /\ EnabledInv(id)'
  BY <1>1 DEF LastInv, EnabledInv
<1>8. HistoryInv(id)'
  BY <1>1, <1>2, <1>n DEF HistoryInv, Current
<1>. QED
  BY <1>3, <1>5, <1>6, <1>7, <1>8 DEF CredentialInv, DueInv

LEMMA SameForTransitive ==
  ASSUME NEW a, NEW b, NEW c, NEW k, SameFor(a, b, k), SameFor(b, c, k)
  PROVE  SameFor(a, c, k)
BY DEF SameFor

LEMMA AdvancesStep ==
  ASSUME TypeOK, NEW id \in Ids, CredentialInv(id), Frame(id), Advances(id)
  PROVE  CredentialInv(id)'
<1> DEFINE old == auths[id]
<1>n. PICK new : new = auths'[id]
  OBVIOUS
<1>0. /\ sched' = sched /\ syncer' = syncer /\ reg' = reg
      /\ Todo \subseteq Todo'
      /\ authEpochs'[id] = authEpochs[id]
      /\ \A p \in Callers : calls[p] # << >> => calls'[p] = calls[p]
  BY DEF Frame, Advances
<1>1. /\ old # None /\ new \in Auth /\ new # None /\ new.id = id
      /\ new.epoch = old.epoch /\ new.gen = old.gen + 1
      /\ new.blocked \subseteq new.states
  BY <1>n DEF Advances
<1>2. /\ old \in Known(id) /\ Sound(id, old) /\ Current(id, old) /\ old \in Auth
      /\ old.gen \in Nat /\ new.gen \in Nat /\ old.gen < new.gen
      /\ authEpochs[id] \in Nat
  <2>1. old \in Known(id)
    BY <1>1, KnownIs
  <2>2. Sound(id, old) /\ Current(id, old)
    BY <1>1, <2>1 DEF CredentialInv, KnownInv
  <2>3. old \in Auth /\ old.gen \in Nat
    BY <2>2, AuthFields DEF Sound
  <2>. QED
    BY <2>1, <2>2, <2>3, <1>1, IdTyped
<1>3. \A a : Current(id, a)' <=> Current(id, a)
  BY <1>0 DEF Current
<1>. HIDE DEF old
<1>4. ASSUME NEW a \in Known(id)'
      PROVE  a = new \/ (a \in Known(id) /\ Sound(id, a) /\ a.gen \in Nat
                         /\ (Current(id, a) => a.gen <= old.gen))
  <2>1. a \in Known(id) \/ a = new
    BY <1>4, KnownGrows, <1>n
  <2>2. CASE a \in Known(id)
    <3>1. Sound(id, a)
      BY <2>2 DEF CredentialInv, KnownInv
    <3>. QED
      BY <2>2, <3>1, AuthFields DEF Sound, old
  <2>. QED
    BY <2>1, <2>2
<1>5. KnownInv(id)'
  <2>1. ASSUME NEW a \in Known(id)'
        PROVE  Sound(id, a)'
    <3>1. CASE a = new
      <4>1. new.epoch = authEpochs[id] /\ new.gen >= 1
        BY <1>1, <1>2 DEF Current
      <4>2. Sound(id, new)'
        BY <4>1, <1>0, <1>1, <1>2, <1>n DEF Sound, Current
      <4>. QED
        BY <3>1, <4>2
    <3>2. CASE a # new
      <4>1. Sound(id, a) /\ a.gen \in Nat /\ (Current(id, a) => a.gen < new.gen)
        BY <1>2, <1>4, <2>1, <3>2
      <4>. QED
        BY <4>1, <1>0, <1>1, <1>2, <1>3, <1>n DEF Sound, Current
    <3>. QED
      BY <3>1, <3>2
  <2>2. Current(id, new)'
    BY <1>0, <1>1, <1>2 DEF Current
  <2>. QED
    BY <2>1, <2>2, <1>n DEF KnownInv, Current
<1>6. sched.gens[id] # None /\ sched.gens[id].epoch = authEpochs[id] =>
        sched.gens[id].gen \in Nat /\ sched.gens[id].gen <= old.gen
  BY <1>1, IdTyped DEF CredentialInv, IndexInv, GensInv, old
<1>7. IndexInv(id)'
  <2>1. sched.gens[id] # None => sched.gens[id].epoch <= authEpochs[id]
    BY DEF CredentialInv, IndexInv, GensInv
  <2>2. GensInv(id)'
    BY <2>1, <1>0, <1>1, <1>2, <1>6, <1>n DEF GensInv
  <2>3. MetaInv(id)' /\ RegInv(id)'
    BY <1>0 DEF CredentialInv, IndexInv, MetaInv, RegInv
  <2>4. EntryInv(id)'
    BY <1>0 DEF CredentialInv, IndexInv, EntryInv
  <2>. QED
    BY <2>2, <2>3, <2>4 DEF IndexInv
<1>8. TombInv(id)'
  <2>1. ASSUME NEW t \in Todo', t.do = "tombstone", t.id = id
        PROVE  t \in Todo
    BY <2>1, <1>1, <1>n DEF Frame, NewStep
  <2>. QED
    BY <2>1, <1>0, <1>1, <1>n DEF CredentialInv, DueInv, TombInv, old
<1>9. LastInv(id)'
  <2>1. new \in Flying(id)'
    BY FlyingIs, <1>n DEF Advances
  <2>. QED
    BY <2>1, <1>n DEF LastInv
<1>10. EnabledInv(id)'
  <2> SUFFICES ASSUME new.enabled, NEW a \in Known(id)', Current(id, a), ~a.enabled
               PROVE  isStaleScheduledAuth(sched, a) \/ \E p \in Callers : Newer(p, id, a)'
    BY <1>0, <1>3, <1>n DEF EnabledInv
  <2>1. a \in Known(id) /\ a.gen \in Nat /\ a.gen <= old.gen
    BY <1>4
  <2>2. CASE old.enabled
    <3>1. CASE isStaleScheduledAuth(sched, a)
      BY <3>1
    <3>2. ASSUME NEW p \in Callers, Newer(p, id, a)
          PROVE  Newer(p, id, a)'
      <4>1. calls[p] # << >>
        BY <3>2 DEF Newer
      <4>. QED
        BY <3>2, <4>1, <1>0, <1>3 DEF Newer
    <3>. QED
      BY <3>1, <3>2, <2>1, <2>2, <1>1 DEF CredentialInv, DueInv, EnabledInv, old
  <2>3. CASE ~old.enabled
    <3>1. PICK p \in Callers : calls'[p] = <<Upsert(new), Bump(id)>>
      BY <2>3, <1>n DEF Advances, old
    <3>2. /\ Len(calls'[p]) = 2
          /\ calls'[p][1] = Upsert(new)
          /\ calls'[p][2] = Bump(id)
      BY <3>1
    <3>3. Newer(p, id, a)'
      <4>1. /\ Upsert(new).do = "upsert" /\ Upsert(new).id = id /\ Upsert(new).snap = new
            /\ Bump(id).do = "bump"
        BY <1>1 DEF Upsert, Bump
      <4>2. new.gen > a.gen /\ Current(id, new)'
        BY <2>1, <1>0, <1>1, <1>2 DEF Current
      <4>. QED
        BY <3>2, <4>1, <4>2 DEF Newer
    <3>. QED
      BY <3>3
  <2>. QED
    BY <2>2, <2>3
<1>11. HistoryInv(id)'
  <2>1. ASSUME NEW k \in Models, NEW a, NEW b, b.gen \in Nat, Follows(id, k, a, b)
        PROVE  Follows(id, k, a, b)'
    BY <2>1, <1>0, <1>3 DEF Follows, Overtaken
  <2>2. ASSUME NEW k \in Models, NEW a, a.gen \in Nat, a.gen <= old.gen, Follows(id, k, a, old)
        PROVE  Follows(id, k, a, new)'
    <3> SUFFICES ASSUME new.edit <= a.gen
                 PROVE  Overtaken(id, k, a, new)' \/ SameFor(a, new, k)
      BY <1>n DEF Follows
    <3>1. new.edit # new.gen
      BY <2>2, <1>2
    <3>2. /\ new.edit = old.edit
          /\ \/ SameFor(old, new, k)
             \/ \E t \in Todo' : t.do = "result" /\ t.id = id /\ t.snap = new /\ k \in Scope(t)
      BY <3>1, <1>n DEF Advances, old
    <3>3. CASE \E t \in Todo' : t.do = "result" /\ t.id = id /\ t.snap = new /\ k \in Scope(t)
      <4>1. PICK t \in Todo' : t.do = "result" /\ t.id = id /\ t.snap = new /\ k \in Scope(t)
        BY <3>3
      <4>2. Current(id, t.snap)' /\ a.gen < t.snap.gen /\ t.snap.gen <= new.gen
        BY <4>1, <2>2, <1>0, <1>1, <1>2 DEF Current
      <4>. QED
        BY <4>1, <4>2 DEF Overtaken
    <3>4. CASE SameFor(old, new, k)
      <4>1. Overtaken(id, k, a, old) \/ SameFor(a, old, k)
        BY <2>2, <3>2 DEF Follows
      <4>2. CASE SameFor(a, old, k)
        BY <3>4, <4>2, SameForTransitive
      <4>3. CASE Overtaken(id, k, a, old)
        <5>1. PICK t \in Todo : /\ t.do = "result"
                                /\ t.id = id
                                /\ Current(id, t.snap)
                                /\ k \in Scope(t)
                                /\ a.gen < t.snap.gen /\ t.snap.gen <= old.gen
          BY <4>3 DEF Overtaken
        <5>2. t.snap.gen \in Nat
          BY <5>1, TodoTyped, StepFields, AuthFields
        <5>3. t.snap.gen <= new.gen
          BY <5>1, <5>2, <1>2
        <5>. QED
          BY <5>1, <5>3, <1>0, <1>3 DEF Overtaken
      <4>. QED
        BY <4>1, <4>2, <4>3
    <3>. QED
      BY <3>2, <3>3, <3>4
  <2>3. ASSUME NEW k \in Models, NEW b \in Known(id)', Current(id, b), NEW a \in Known(id)',
               Current(id, a), ~isStaleScheduledAuth(sched, a)
        PROVE  Follows(id, k, a, b)'
    <3>1. CASE a = new /\ b = new
      BY <3>1 DEF Follows, SameFor
    <3>2. CASE a = new /\ b # new
      <4>1. b.gen \in Nat /\ b.gen <= old.gen
        BY <3>2, <2>3, <1>4
      <4>. QED
        BY <3>2, <4>1, <1>2 DEF Follows
    <3>3. CASE a # new /\ b = new
      <4>1. a \in Known(id) /\ a.gen \in Nat /\ a.gen <= old.gen
        BY <3>3, <2>3, <1>4
      <4>2. Follows(id, k, a, old)
        BY <4>1, <2>3, <1>2 DEF CredentialInv, HistoryInv
      <4>. QED
        BY <3>3, <4>1, <4>2, <2>2
    <3>4. CASE a # new /\ b # new
      <4>1. a \in Known(id) /\ b \in Known(id) /\ b.gen \in Nat
        BY <3>4, <2>3, <1>4
      <4>2. Follows(id, k, a, b)
        BY <4>1, <2>3 DEF CredentialInv, HistoryInv
      <4>. QED
        BY <4>1, <4>2, <2>1
    <3>. QED
      BY <3>1, <3>2, <3>3, <3>4
  <2>4. ASSUME NEW k \in Models, NEW b \in Known(id)', Current(id, b),
               Entry(sched, id, k) # None, Current(id, Entry(sched, id, k))
        PROVE  \A e : e = Entry(sched, id, k) => Follows(id, k, e, b)'
    <3> SUFFICES ASSUME NEW e, e = Entry(sched, id, k)
                 PROVE  Follows(id, k, e, b)'
      OBVIOUS
    <3>1. e.gen \in Nat /\ e.gen <= old.gen
      <4>1. e \in Auth /\ Reached(sched, id, e)
        BY <2>4 DEF CredentialInv, IndexInv, EntryInv, Keys
      <4>2. sched.gens[id] # None /\ sched.gens[id].epoch <= authEpochs[id]
        BY <4>1 DEF CredentialInv, IndexInv, GensInv, Reached
      <4>3. e.gen \in Nat /\ e.epoch = authEpochs[id]
        BY <4>1, <2>4, AuthFields DEF Current
      <4>4. sched.gens[id].epoch \in Nat
        BY <4>2, IdTyped
      <4>5. sched.gens[id].epoch = authEpochs[id] /\ sched.gens[id].gen >= e.gen
        BY <4>1, <4>2, <4>3, <4>4, <1>2 DEF Reached
      <4>. QED
        BY <4>2, <4>3, <4>5, <1>2, <1>6
    <3>2. CASE b = new
      <4>1. Follows(id, k, e, old)
        BY <2>4, <1>2 DEF CredentialInv, HistoryInv
      <4>. QED
        BY <3>1, <3>2, <4>1, <2>2
    <3>3. CASE b # new
      <4>1. b \in Known(id) /\ b.gen \in Nat
        BY <3>3, <2>4, <1>4
      <4>2. Follows(id, k, e, b)
        BY <4>1, <2>4 DEF CredentialInv, HistoryInv
      <4>. QED
        BY <4>1, <4>2, <2>1
    <3>. QED
      BY <3>2, <3>3
  <2>. QED
    BY <2>3, <2>4, <1>0, <1>3 DEF HistoryInv
<1>. QED
  BY <1>5, <1>7, <1>8, <1>9, <1>10, <1>11 DEF CredentialInv, DueInv

-----------------------------------------------------------------------------
(***************************************************************************)
(* The changes of the manager                                              *)
(***************************************************************************)
Kind(j) == Keeps(j) \/ Advances(j) \/ Starts(j) \/ Removes(j)

\* The synced version stays right: a goroutine is about to move it, or no
\* credential has become schedulable or got another epoch.
SyncKept ==
  \/ BumpDue'
  \/ \A j \in Ids : auths'[j] # None /\ auths'[j].enabled =>
       auths[j] # None /\ auths[j].enabled /\ auths'[j].epoch = auths[j].epoch

Changed ==
  /\ TypeOK'
  /\ \A j \in Ids : Frame(j) /\ Kind(j)
  /\ SyncKept

LEMMA AggregatedFields ==
  ASSUME NEW a \in Auth
  PROVE  /\ Aggregated(a) \in Auth /\ Aggregated(a) # None
         /\ Aggregated(a).id = a.id /\ Aggregated(a).epoch = a.epoch
         /\ Aggregated(a).gen = a.gen /\ Aggregated(a).edit = a.edit
         /\ Aggregated(a).enabled = a.enabled /\ Aggregated(a).hard = a.hard
         /\ Aggregated(a).states = a.states /\ Aggregated(a).blocked = a.blocked
         /\ Aggregated(a).down <=> a.hard \/ (a.states # {} /\ a.states \subseteq a.blocked)
<1> DEFINE d == a.hard \/ (a.states # {} /\ a.states \subseteq a.blocked)
<1>1. d \in BOOLEAN
  BY AuthFields
<1>2. Aggregated(a) = [a EXCEPT !.down = d]
  BY DEF Aggregated
<1>. HIDE DEF d
<1>3. PICK b \in Auth : b = a
  OBVIOUS
<1>4. [b EXCEPT !.down = d] \in Auth
  BY <1>1 DEF Auth
<1>5. /\ [b EXCEPT !.down = d].id = b.id /\ [b EXCEPT !.down = d].epoch = b.epoch
      /\ [b EXCEPT !.down = d].gen = b.gen /\ [b EXCEPT !.down = d].edit = b.edit
      /\ [b EXCEPT !.down = d].enabled = b.enabled /\ [b EXCEPT !.down = d].hard = b.hard
      /\ [b EXCEPT !.down = d].states = b.states /\ [b EXCEPT !.down = d].blocked = b.blocked
      /\ [b EXCEPT !.down = d].down = d
  BY DEF Auth
<1>6. Aggregated(a) \in Auth
  BY <1>2, <1>3, <1>4
<1>. QED
  BY <1>2, <1>3, <1>5, <1>6, NoneIsNone DEF d

LEMMA StepsAre ==
  ASSUME NEW id \in Ids
  PROVE  /\ Bump(id) \in Steps /\ Bump(id).do = "bump" /\ Bump(id).id = id
         /\ Bump(None) \in Steps /\ Bump(None).do = "bump"
         /\ SyncStep \in Steps /\ SyncStep.do = "sync"
         /\ \A a \in Auth : a.id = id =>
              /\ Upsert(a) \in Steps /\ Upsert(a).do = "upsert" /\ Upsert(a).id = id
              /\ Upsert(a).snap = a
              /\ \A T \in SUBSET Models, all \in BOOLEAN :
                   /\ Result(a, T, all) \in Steps /\ Result(a, T, all).do = "result"
                   /\ Result(a, T, all).id = id /\ Result(a, T, all).snap = a
                   /\ Result(a, T, all).targets = T /\ Result(a, T, all).scoped = all
         /\ \A e \in Nat :
              /\ Tombstone(id, e) \in Steps /\ Tombstone(id, e).do = "tombstone"
              /\ Tombstone(id, e).id = id /\ Tombstone(id, e).epoch = e
<1>1. /\ Bump(id) \in Bumps /\ Bump(None) \in Bumps /\ SyncStep \in Syncs
      /\ Bump(id).do = "bump" /\ Bump(id).id = id /\ Bump(None).do = "bump" /\ SyncStep.do = "sync"
  BY DEF Bump, SyncStep, Bumps, Syncs
<1>2. ASSUME NEW a \in Auth, a.id = id
      PROVE  /\ Upsert(a) \in Snapshots /\ Upsert(a).do = "upsert" /\ Upsert(a).id = id
             /\ Upsert(a).snap = a
  BY <1>2 DEF Upsert, Snapshots
<1>3. ASSUME NEW a \in Auth, a.id = id, NEW T \in SUBSET Models, NEW all \in BOOLEAN
      PROVE  /\ Result(a, T, all) \in Snapshots /\ Result(a, T, all).do = "result"
             /\ Result(a, T, all).id = id /\ Result(a, T, all).snap = a
             /\ Result(a, T, all).targets = T /\ Result(a, T, all).scoped = all
  BY <1>3 DEF Result, Snapshots
<1>4. ASSUME NEW e \in Nat
      PROVE  /\ Tombstone(id, e) \in Tombstones /\ Tombstone(id, e).do = "tombstone"
             /\ Tombstone(id, e).id = id /\ Tombstone(id, e).epoch = e
  BY DEF Tombstone, Tombstones
<1>. QED
  BY <1>1, <1>2, <1>3, <1>4 DEF Steps

LEMMA BeginFrame ==
  ASSUME TypeOK, NEW p \in Callers, NEW todo, Begin(p, todo)
  PROVE  /\ UNCHANGED <<reg, version, syncedVersion, sched, syncer>>
         /\ changes' \in Nat
BY DEF Begin, TypeOK

\* A change of one credential: a is published and s will deliver it.
Announced(id, a, s) ==
  /\ TypeOK'
  /\ \A j \in Ids : Frame(j)
  /\ \A j \in Ids \ {id} : Keeps(j)
  /\ auths'[id] = a
  /\ authEpochs'[id] = authEpochs[id]
  /\ s \in Todo'

LEMMA PublishFrame ==
  ASSUME TypeOK, NEW p \in Callers, NEW id \in Ids, auths[id] # None,
         NEW a \in Auth, a.id = id, Publish(a),
         NEW s \in Steps, s.do \in {"upsert", "result"}, s.id = id, s.snap = a,
         \/ Begin(p, <<s>>)
         \/ Begin(p, <<s, Bump(id)>>)
  PROVE  Announced(id, a, s)
<1>1. /\ auths' = [auths EXCEPT ![id] = a] /\ authEpochs' = authEpochs
      /\ auths \in Maps
  BY DEF Publish, TypeOK
<1>2. auths' \in Maps /\ auths'[id] = a /\ a # None /\ \A j \in Ids \ {id} : auths'[j] = auths[j]
  BY <1>1, NoneIsNone DEF Maps
<1>3. Bump(id) \in Steps /\ Bump(id).do = "bump"
  BY StepsAre
<1>4. /\ calls' \in [Callers -> Seq(Steps)]
      /\ \A q \in Callers : calls[q] # << >> => calls'[q] = calls[q]
      /\ UNCHANGED <<reg, version, syncedVersion, sched, syncer>>
      /\ changes' \in Nat
  <2>1. <<s>> \in Seq(Steps) /\ <<s, Bump(id)>> \in Seq(Steps)
    BY <1>3
  <2>. QED
    BY <2>1, BeginTodo, BeginFrame
<1>5. Todo \subseteq Todo' /\ Todo' \subseteq Todo \cup {s, Bump(id)} /\ s \in Todo'
  <2>1. CASE Begin(p, <<s, Bump(id)>>)
    BY <2>1, <1>3, BeginTwo
  <2>2. CASE Begin(p, <<s>>) /\ ~Begin(p, <<s, Bump(id)>>)
    BY <2>2, BeginOne
  <2>. QED
    BY <2>1, <2>2
<1>6. TypeOK'
  BY <1>1, <1>2, <1>4 DEF TypeOK
<1>7. ASSUME NEW j \in Ids
      PROVE  Frame(j)
  <2>1. ASSUME NEW t \in Todo'
        PROVE  NewStep(j, t)
    BY <1>2, <1>3, <1>5 DEF NewStep
  <2>. QED
    BY <2>1, <1>4, <1>5 DEF Frame
<1>. QED
  BY <1>1, <1>2, <1>5, <1>6, <1>7 DEF Announced, Keeps

\* What is known of a published credential.
LEMMA PublishedFields ==
  ASSUME TypeOK, NEW id \in Ids, KnownInv(id), auths[id] # None
  PROVE  /\ auths[id] \in Auth
         /\ auths[id].id = id
         /\ auths[id].gen \in Nat
         /\ auths[id].blocked \subseteq auths[id].states
<1>1. auths[id] \in Known(id)
  BY KnownIs
<1>. QED
  BY <1>1, AuthFields DEF KnownInv, Sound

LEMMA UpdateChanged ==
  ASSUME TypeOK, NEW id \in Ids, KnownInv(id), NEW p \in Callers, NEW enabled \in BOOLEAN,
         Update(p, id, enabled)
  PROVE  Changed
<1>1. PICK old \in Auth : old = auths[id]
  BY PublishedFields DEF Update
<1> DEFINE b == [old EXCEPT !.gen = @ + 1, !.edit = old.gen + 1, !.enabled = enabled,
                            !.hard = FALSE, !.blocked = IF enabled THEN @ ELSE {}]
           a == Aggregated(b)
<1>2. /\ b \in Auth /\ b.id = old.id /\ b.epoch = old.epoch /\ b.gen = old.gen + 1
      /\ b.edit = b.gen /\ b.states = old.states
      /\ b.blocked = old.blocked \/ b.blocked = {}
  <2>1. b \in Auth
    <3>1. (IF enabled THEN old.blocked ELSE {}) \in SUBSET Models
      BY DEF Auth
    <3>2. PICK g \in Nat : g = old.gen + 1
      BY AuthFields
    <3>3. PICK t \in SUBSET Models : t = IF enabled THEN old.blocked ELSE {}
      BY <3>1
    <3>4. b = [old EXCEPT !.gen = g, !.edit = g, !.enabled = enabled, !.hard = FALSE, !.blocked = t]
      BY <3>2, <3>3
    <3>. HIDE DEF b
    <3>. QED
      BY <3>4 DEF Auth
  <2>2. /\ b.id = old.id /\ b.epoch = old.epoch /\ b.gen = old.gen + 1
        /\ b.edit = old.gen + 1 /\ b.states = old.states
    BY DEF Auth
  <2>3. b.blocked = IF enabled THEN old.blocked ELSE {}
    BY DEF Auth
  <2>. QED
    BY <2>1, <2>2, <2>3
<1>3. /\ auths[id] # None
      /\ Publish(a)
      /\ Begin(p, <<Upsert(a), Bump(id)>>)
  BY <1>1 DEF Update
<1>4. old.id = id /\ old.gen \in Nat /\ old.blocked \subseteq old.states /\ old # None
  BY <1>1, <1>3, PublishedFields
<1>. HIDE DEF b
<1>5. /\ a \in Auth /\ a # None /\ a.id = id /\ a.epoch = old.epoch /\ a.gen = old.gen + 1
      /\ a.edit = a.gen /\ a.blocked \subseteq a.states
  BY <1>2, <1>4, AggregatedFields
<1>. HIDE DEF a
<1>6. /\ Upsert(a) \in Steps /\ Upsert(a).do = "upsert" /\ Upsert(a).id = id
      /\ Upsert(a).snap = a
  BY <1>5, StepsAre
<1>7. /\ TypeOK'
      /\ \A j \in Ids : Frame(j)
      /\ \A j \in Ids \ {id} : Keeps(j)
      /\ auths'[id] = a
      /\ authEpochs'[id] = authEpochs[id]
      /\ Upsert(a) \in Todo'
      /\ BumpDue' /\ calls'[p] = <<Upsert(a), Bump(id)>>
  <2>1. auths[id] # None /\ Publish(a) /\ Begin(p, <<Upsert(a), Bump(id)>>)
    BY <1>3
  <2>2. a \in Auth /\ a.id = id
    BY <1>5
  <2>3. Announced(id, a, Upsert(a))
    BY <2>1, <2>2, <1>6, PublishFrame
  <2>4. Bump(id) \in Steps /\ Bump(id).do = "bump"
    BY StepsAre
  <2>5. Bump(id) \in Todo'
    BY <2>1, <2>4, <1>6, BeginTwo
  <2>6. calls'[p] = <<Upsert(a), Bump(id)>>
    BY <2>1 DEF Begin, TypeOK
  <2>. QED
    BY <2>3, <2>4, <2>5, <2>6 DEF Announced, BumpDue
<1>8. Advances(id)
  BY <1>1, <1>4, <1>5, <1>6, <1>7 DEF Advances
<1>. QED
  BY <1>7, <1>8 DEF Changed, Kind, SyncKept

\* The changes that keep the credential enabled and concern every shard.
LEMMA EditChanged ==
  ASSUME TypeOK, NEW id \in Ids, KnownInv(id), NEW p \in Callers, auths[id] # None,
         NEW b \in Auth, b.id = id, b.epoch = auths[id].epoch, b.gen = auths[id].gen + 1,
         b.edit = b.gen, b.blocked \subseteq b.states, b.enabled = auths[id].enabled,
         Publish(Aggregated(b)), Begin(p, <<Upsert(Aggregated(b))>>)
  PROVE  Changed
<1>1. PICK a : a = Aggregated(b)
  OBVIOUS
<1>2. /\ a \in Auth /\ a # None /\ a.id = id /\ a.epoch = auths[id].epoch
      /\ a.gen = auths[id].gen + 1 /\ a.edit = a.gen /\ a.blocked \subseteq a.states
      /\ a.enabled = auths[id].enabled
  BY <1>1, AggregatedFields
<1>3. /\ Upsert(a) \in Steps /\ Upsert(a).do = "upsert" /\ Upsert(a).id = id
      /\ Upsert(a).snap = a
  BY <1>2, StepsAre
<1>4. Publish(a) /\ Begin(p, <<Upsert(a)>>)
  BY <1>1
<1>5. /\ TypeOK'
      /\ \A j \in Ids : Frame(j)
      /\ \A j \in Ids \ {id} : Keeps(j)
      /\ auths'[id] = a
      /\ authEpochs'[id] = authEpochs[id]
      /\ Upsert(a) \in Todo'
  <2>1. Announced(id, a, Upsert(a))
    BY <1>2, <1>3, <1>4, PublishFrame
  <2>. QED
    BY <2>1 DEF Announced
<1>6. Advances(id)
  BY <1>2, <1>3, <1>5 DEF Advances
<1>7. SyncKept
  BY <1>2, <1>5 DEF SyncKept, Keeps
<1>. QED
  BY <1>5, <1>6, <1>7 DEF Changed, Kind

LEMMA ResetChanged ==
  ASSUME TypeOK, NEW id \in Ids, KnownInv(id), NEW p \in Callers, ResetQuota(p, id)
  PROVE  Changed
<1>1. PICK old \in Auth : old = auths[id]
  BY PublishedFields DEF ResetQuota
<1> DEFINE b == [old EXCEPT !.gen = @ + 1, !.edit = old.gen + 1, !.blocked = {}]
<1>2. /\ b \in Auth /\ b.id = old.id /\ b.epoch = old.epoch /\ b.gen = old.gen + 1
      /\ b.edit = b.gen /\ b.blocked \subseteq b.states /\ b.enabled = old.enabled
  <2>1. b \in Auth
    <3>1. PICK g \in Nat : g = old.gen + 1
      BY AuthFields
    <3>2. b = [old EXCEPT !.gen = g, !.edit = g, !.blocked = {}]
      BY <3>1
    <3>. HIDE DEF b
    <3>. QED
      BY <3>2 DEF Auth
  <2>2. /\ b.id = old.id /\ b.epoch = old.epoch /\ b.gen = old.gen + 1
        /\ b.edit = old.gen + 1 /\ b.blocked = {} /\ b.enabled = old.enabled
    BY DEF Auth
  <2>. QED
    BY <2>1, <2>2
<1>3. /\ auths[id] # None
      /\ Publish(Aggregated(b))
      /\ Begin(p, <<Upsert(Aggregated(b))>>)
  BY <1>1 DEF ResetQuota
<1>4. old.id = id
  BY <1>1, <1>3, PublishedFields
<1>. HIDE DEF b
<1>. QED
  BY <1>1, <1>2, <1>3, <1>4, EditChanged

LEMMA RestoreChanged ==
  ASSUME TypeOK, NEW id \in Ids, KnownInv(id), NEW p \in Callers, NEW m \in Models,
         RestoreCooldownStates(p, id, m)
  PROVE  Changed
<1>1. PICK old \in Auth : old = auths[id]
  BY PublishedFields DEF RestoreCooldownStates
<1> DEFINE b == [old EXCEPT !.gen = @ + 1, !.edit = old.gen + 1,
                            !.states = @ \cup {m}, !.blocked = @ \cup {m}]
<1>2. /\ b \in Auth /\ b.id = old.id /\ b.epoch = old.epoch /\ b.gen = old.gen + 1
      /\ b.edit = b.gen /\ b.enabled = old.enabled
      /\ b.states = old.states \cup {m} /\ b.blocked = old.blocked \cup {m}
  <2>1. b \in Auth
    <3>1. PICK g \in Nat : g = old.gen + 1
      BY AuthFields
    <3>2. PICK s \in SUBSET Models : s = old.states \cup {m}
      BY AuthFields
    <3>3. PICK t \in SUBSET Models : t = old.blocked \cup {m}
      BY AuthFields
    <3>4. b = [old EXCEPT !.gen = g, !.edit = g, !.states = s, !.blocked = t]
      BY <3>1, <3>2, <3>3
    <3>. HIDE DEF b
    <3>. QED
      BY <3>4 DEF Auth
  <2>2. /\ b.id = old.id /\ b.epoch = old.epoch /\ b.gen = old.gen + 1
        /\ b.edit = old.gen + 1 /\ b.enabled = old.enabled
    BY DEF Auth
  <2>3. b.states = old.states \cup {m} /\ b.blocked = old.blocked \cup {m}
    BY DEF Auth
  <2>. QED
    BY <2>1, <2>2, <2>3
<1>3. /\ auths[id] # None
      /\ Publish(Aggregated(b))
      /\ Begin(p, <<Upsert(Aggregated(b))>>)
  BY <1>1 DEF RestoreCooldownStates
<1>4. old.id = id /\ old.blocked \subseteq old.states
  BY <1>1, <1>3, PublishedFields
<1>5. b.blocked \subseteq b.states
  BY <1>2, <1>4
<1>. HIDE DEF b
<1>. QED
  BY <1>1, <1>2, <1>3, <1>4, <1>5, EditChanged

\* The credential before updateAggregatedAvailability.
Outcome(old, m, outcome) ==
  CASE outcome = "cool"    -> [old EXCEPT !.states = @ \cup {m}, !.blocked = @ \cup {m}]
    [] outcome = "ok"      -> [old EXCEPT !.states = @ \cup {m}, !.blocked = @ \ {m}]
    [] outcome = "recover" -> [old EXCEPT !.states = @ \cup {m}, !.blocked = @ \ {m},
                                          !.hard = FALSE]
    [] outcome = "reject"  -> [old EXCEPT !.hard = TRUE]

LEMMA OutcomeFields ==
  ASSUME NEW old \in Auth, NEW m \in Models, old.blocked \subseteq old.states,
         NEW outcome \in {"cool", "ok", "recover", "reject"}
  PROVE  /\ Outcome(old, m, outcome) \in Auth
         /\ Outcome(old, m, outcome).id = old.id
         /\ Outcome(old, m, outcome).epoch = old.epoch
         /\ Outcome(old, m, outcome).gen = old.gen
         /\ Outcome(old, m, outcome).edit = old.edit
         /\ Outcome(old, m, outcome).enabled = old.enabled
         /\ Outcome(old, m, outcome).blocked \subseteq Outcome(old, m, outcome).states
         /\ outcome # "reject" =>
              /\ \A k \in Models \ {m} : k \in Outcome(old, m, outcome).blocked <=> k \in old.blocked
              /\ Outcome(old, m, outcome).hard => old.hard
              /\ Outcome(old, m, outcome).states # {}
<1> DEFINE b == Outcome(old, m, outcome)
<1>1. PICK s \in SUBSET Models : s = old.states \cup {m}
  BY AuthFields
<1>2. PICK c \in SUBSET Models : c = old.blocked \cup {m}
  BY AuthFields
<1>3. PICK d \in SUBSET Models : d = old.blocked \ {m}
  BY AuthFields
<1>4. CASE outcome = "cool"
  <2>1. b = [old EXCEPT !.states = s, !.blocked = c]
    BY <1>1, <1>2, <1>4 DEF Outcome
  <2>. HIDE DEF b
  <2>2. b \in Auth
    BY <2>1 DEF Auth
  <2>3. /\ b.id = old.id /\ b.epoch = old.epoch /\ b.gen = old.gen /\ b.edit = old.edit
        /\ b.enabled = old.enabled /\ b.hard = old.hard /\ b.states = s /\ b.blocked = c
    BY <2>1 DEF Auth
  <2>. QED
    BY <2>2, <2>3, <1>1, <1>2 DEF b
<1>5. CASE outcome = "ok"
  <2>1. b = [old EXCEPT !.states = s, !.blocked = d]
    BY <1>1, <1>3, <1>5 DEF Outcome
  <2>. HIDE DEF b
  <2>2. b \in Auth
    BY <2>1 DEF Auth
  <2>3. /\ b.id = old.id /\ b.epoch = old.epoch /\ b.gen = old.gen /\ b.edit = old.edit
        /\ b.enabled = old.enabled /\ b.hard = old.hard /\ b.states = s /\ b.blocked = d
    BY <2>1 DEF Auth
  <2>. QED
    BY <2>2, <2>3, <1>1, <1>3 DEF b
<1>6. CASE outcome = "recover"
  <2>1. b = [old EXCEPT !.states = s, !.blocked = d, !.hard = FALSE]
    BY <1>1, <1>3, <1>6 DEF Outcome
  <2>. HIDE DEF b
  <2>2. b \in Auth
    BY <2>1 DEF Auth
  <2>3. /\ b.id = old.id /\ b.epoch = old.epoch /\ b.gen = old.gen /\ b.edit = old.edit
        /\ b.enabled = old.enabled /\ b.hard = FALSE /\ b.states = s /\ b.blocked = d
    BY <2>1 DEF Auth
  <2>. QED
    BY <2>2, <2>3, <1>1, <1>3 DEF b
<1>7. CASE outcome = "reject"
  <2>1. b = [old EXCEPT !.hard = TRUE]
    BY <1>7 DEF Outcome
  <2>. HIDE DEF b
  <2>2. b \in Auth
    BY <2>1 DEF Auth
  <2>3. /\ b.id = old.id /\ b.epoch = old.epoch /\ b.gen = old.gen /\ b.edit = old.edit
        /\ b.enabled = old.enabled /\ b.states = old.states /\ b.blocked = old.blocked
    BY <2>1 DEF Auth
  <2>. QED
    BY <2>2, <2>3, <1>7 DEF b
<1>. QED
  BY <1>4, <1>5, <1>6, <1>7

LEMMA NextGeneration ==
  ASSUME NEW old \in Auth
  PROVE  /\ [old EXCEPT !.gen = @ + 1] \in Auth
         /\ [old EXCEPT !.gen = @ + 1].id = old.id
         /\ [old EXCEPT !.gen = @ + 1].epoch = old.epoch
         /\ [old EXCEPT !.gen = @ + 1].gen = old.gen + 1
         /\ [old EXCEPT !.gen = @ + 1].edit = old.edit
         /\ [old EXCEPT !.gen = @ + 1].enabled = old.enabled
         /\ [old EXCEPT !.gen = @ + 1].hard = old.hard
         /\ [old EXCEPT !.gen = @ + 1].states = old.states
         /\ [old EXCEPT !.gen = @ + 1].blocked = old.blocked
<1>1. PICK g \in Nat : g = old.gen + 1
  BY AuthFields
<1>2. PICK b : b = [old EXCEPT !.gen = g]
  OBVIOUS
<1>3. b \in Auth
  BY <1>2 DEF Auth
<1>4. /\ b.id = old.id /\ b.epoch = old.epoch /\ b.gen = g /\ b.edit = old.edit
      /\ b.enabled = old.enabled /\ b.hard = old.hard
      /\ b.states = old.states /\ b.blocked = old.blocked
  BY <1>2 DEF Auth
<1>. QED
  BY <1>1, <1>2, <1>3, <1>4

\* A result that is not delivered to shard k changes nothing that k shows.
LEMMA ResultChanged ==
  ASSUME TypeOK, NEW id \in Ids, KnownInv(id), NEW p \in Callers, auths[id] # None,
         NEW a \in Auth, a.id = id, a.epoch = auths[id].epoch, a.gen = auths[id].gen + 1,
         a.edit = auths[id].edit, a.blocked \subseteq a.states, a.enabled = auths[id].enabled,
         NEW T \in SUBSET Models, NEW all \in BOOLEAN,
         Publish(a), Begin(p, <<Result(a, T, all)>>),
         \A k \in Models : all \/ T = {} \/ k \in T \/ SameFor(auths[id], a, k)
  PROVE  Changed
<1>1. PICK t : t = Result(a, T, all)
  OBVIOUS
<1>2. /\ t \in Steps /\ t.do = "result" /\ t.id = id /\ t.snap = a
      /\ t.targets = T /\ t.scoped = all
  BY <1>1, StepsAre
<1>3. Publish(a) /\ Begin(p, <<t>>)
  BY <1>1
<1>4. Announced(id, a, t)
  BY <1>2, <1>3, PublishFrame
<1>5. a # None
  BY NoneIsNone
<1>6. \A k \in Models : SameFor(auths[id], a, k) \/ k \in Scope(t)
  BY <1>2 DEF Scope, Keys
<1>7. Advances(id)
  BY <1>2, <1>4, <1>5, <1>6 DEF Advances, Announced
<1>8. SyncKept
  BY <1>4 DEF SyncKept, Keeps, Announced
<1>. QED
  BY <1>4, <1>7, <1>8 DEF Changed, Kind, Announced

LEMMA MarkChanged ==
  ASSUME TypeOK, NEW id \in Ids, KnownInv(id), NEW p \in Callers, NEW m \in Models,
         NEW outcome \in {"cool", "ok", "recover", "reject"}, MarkResult(p, id, m, outcome)
  PROVE  Changed
<1>1. PICK old \in Auth : old = auths[id]
  BY PublishedFields DEF MarkResult
<1>2. auths[id] # None /\ old.id = id /\ old.blocked \subseteq old.states
  BY <1>1, PublishedFields DEF MarkResult
<1>3. PICK next \in Auth : next = [old EXCEPT !.gen = @ + 1]
  BY NextGeneration
<1>4. /\ next.id = id /\ next.epoch = old.epoch /\ next.gen = old.gen + 1 /\ next.edit = old.edit
      /\ next.enabled = old.enabled /\ next.hard = old.hard
      /\ next.states = old.states /\ next.blocked = old.blocked
  BY <1>2, <1>3, NextGeneration
<1>5. PICK b : b = Outcome(next, m, outcome)
  OBVIOUS
<1>6. /\ b \in Auth /\ b.id = id /\ b.epoch = old.epoch /\ b.gen = old.gen + 1
      /\ b.edit = old.edit /\ b.enabled = old.enabled /\ b.blocked \subseteq b.states
      /\ outcome # "reject" =>
           /\ \A k \in Models \ {m} : k \in b.blocked <=> k \in old.blocked
           /\ b.hard => old.hard
           /\ b.states # {}
  BY <1>2, <1>4, <1>5, OutcomeFields
<1>7. PICK a : a = Aggregated(b)
  OBVIOUS
<1>8. /\ a \in Auth /\ a.id = id /\ a.epoch = old.epoch /\ a.gen = old.gen + 1
      /\ a.edit = old.edit /\ a.enabled = old.enabled /\ a.blocked \subseteq a.states
      /\ a.hard = b.hard /\ a.states = b.states /\ a.blocked = b.blocked
      /\ a.down <=> b.hard \/ (b.states # {} /\ b.states \subseteq b.blocked)
  BY <1>6, <1>7, AggregatedFields
<1> DEFINE T   == IF outcome = "reject" THEN {} ELSE {m}
           all == outcome = "reject"
<1>9. Publish(a) /\ Begin(p, <<Result(a, T, all)>>)
  BY <1>1, <1>3, <1>5, <1>7 DEF MarkResult, Outcome
<1>10. \A k \in Models : all \/ k \in T \/ SameFor(old, a, k)
  <2>1. CASE outcome # "reject"
    BY <2>1, <1>6, <1>8 DEF SameFor
  <2>. QED
    BY <2>1
<1>11. T \in SUBSET Models /\ all \in BOOLEAN
  OBVIOUS
<1>. HIDE DEF T, all
<1>. QED
  BY <1>1, <1>2, <1>8, <1>9, <1>10, <1>11, ResultChanged

LEMMA MarkAuthChanged ==
  ASSUME TypeOK, NEW id \in Ids, KnownInv(id), NEW p \in Callers, NEW ok \in BOOLEAN,
         MarkAuthResult(p, id, ok)
  PROVE  Changed
<1>1. PICK old \in Auth : old = auths[id]
  BY PublishedFields DEF MarkAuthResult
<1>2. auths[id] # None /\ old.id = id /\ old.blocked \subseteq old.states
  BY <1>1, PublishedFields DEF MarkAuthResult
<1>3. PICK g \in Nat : g = old.gen + 1
  BY AuthFields
<1>4. PICK d \in BOOLEAN : d = (~ok \/ old.hard)
  BY AuthFields
<1>5. PICK a : a = [old EXCEPT !.gen = g, !.down = d]
  OBVIOUS
<1>6. a \in Auth
  BY <1>5 DEF Auth
<1>7. /\ a.id = old.id /\ a.epoch = old.epoch /\ a.gen = g /\ a.edit = old.edit
      /\ a.enabled = old.enabled /\ a.states = old.states /\ a.blocked = old.blocked
  BY <1>5 DEF Auth
<1>8. Publish(a) /\ Begin(p, <<Result(a, {}, FALSE)>>)
  BY <1>1, <1>3, <1>4, <1>5 DEF MarkAuthResult
<1>9. {} \in SUBSET Models /\ FALSE \in BOOLEAN
  OBVIOUS
<1>. QED
  BY <1>1, <1>2, <1>3, <1>6, <1>7, <1>8, <1>9, ResultChanged

LEMMA EntryChanged ==
  ASSUME TypeOK, NEW id \in Ids, KnownInv(id), NEW p \in Callers, RefreshSchedulerEntry(p, id)
  PROVE  Changed
<1>1. PICK a \in Auth : a = auths[id]
  BY PublishedFields DEF RefreshSchedulerEntry
<1>2. a.id = id /\ a # None
  BY <1>1, PublishedFields DEF RefreshSchedulerEntry
<1>3. auths' = auths /\ authEpochs' = authEpochs /\ Begin(p, <<Bump(id), Upsert(a)>>)
  BY <1>1 DEF RefreshSchedulerEntry
<1>4. /\ Bump(id) \in Steps /\ Bump(id).do = "bump"
      /\ Upsert(a) \in Steps /\ Upsert(a).do = "upsert" /\ Upsert(a).id = id
      /\ Upsert(a).snap = a
  BY <1>2, StepsAre
<1>5. Todo' = Todo \cup {Bump(id), Upsert(a)}
  BY <1>3, <1>4, BeginTwo
<1>6. /\ calls' \in [Callers -> Seq(Steps)]
      /\ \A q \in Callers : calls[q] # << >> => calls'[q] = calls[q]
      /\ UNCHANGED <<reg, version, syncedVersion, sched, syncer>>
      /\ changes' \in Nat
  <2>1. <<Bump(id), Upsert(a)>> \in Seq(Steps)
    BY <1>4
  <2>. QED
    BY <2>1, <1>3, BeginTodo, BeginFrame
<1>7. TypeOK'
  BY <1>3, <1>6 DEF TypeOK
<1>8. ASSUME NEW j \in Ids
      PROVE  Frame(j) /\ Keeps(j)
  <2>1. ASSUME NEW t \in Todo'
        PROVE  NewStep(j, t)
    BY <1>1, <1>2, <1>3, <1>4, <1>5 DEF NewStep
  <2>. QED
    BY <2>1, <1>3, <1>5, <1>6 DEF Frame, Keeps
<1>. QED
  BY <1>3, <1>7, <1>8 DEF Changed, Kind, SyncKept

LEMMA RegisterChanged ==
  ASSUME TypeOK, NEW id \in Ids, NEW p \in Callers, Register(p, id)
  PROVE  Changed
<1>1. PICK e \in Nat : e = authEpochs[id] + 1
  BY IdTyped
<1>2. PICK a : a = Fresh(id, e)
  OBVIOUS
<1>3. a \in Auth /\ a.id = id /\ a # None
  BY <1>2, FreshFields
<1>4. /\ authEpochs' = [authEpochs EXCEPT ![id] = e]
      /\ auths' = [auths EXCEPT ![id] = a]
      /\ Begin(p, <<Upsert(a), Bump(id)>>)
  BY <1>1, <1>2 DEF Register
<1>5. /\ Bump(id) \in Steps /\ Bump(id).do = "bump"
      /\ Upsert(a) \in Steps /\ Upsert(a).do = "upsert" /\ Upsert(a).id = id
      /\ Upsert(a).snap = a
  BY <1>3, StepsAre
<1>6. Todo' = Todo \cup {Upsert(a), Bump(id)}
  BY <1>4, <1>5, BeginTwo
<1>7. /\ calls' \in [Callers -> Seq(Steps)]
      /\ \A q \in Callers : calls[q] # << >> => calls'[q] = calls[q]
      /\ UNCHANGED <<reg, version, syncedVersion, sched, syncer>>
      /\ changes' \in Nat
  <2>1. <<Upsert(a), Bump(id)>> \in Seq(Steps)
    BY <1>5
  <2>. QED
    BY <2>1, <1>4, BeginTodo, BeginFrame
<1>8. /\ auths' \in Maps /\ authEpochs' \in [Ids -> Nat]
      /\ auths'[id] = a /\ authEpochs'[id] = e
      /\ \A j \in Ids \ {id} : auths'[j] = auths[j] /\ authEpochs'[j] = authEpochs[j]
  BY <1>3, <1>4 DEF TypeOK, Maps
<1>9. TypeOK'
  BY <1>7, <1>8 DEF TypeOK
<1>10. ASSUME NEW j \in Ids
       PROVE  Frame(j) /\ Kind(j)
  <2>1. ASSUME NEW t \in Todo'
        PROVE  NewStep(j, t)
    BY <1>3, <1>5, <1>6, <1>8 DEF NewStep
  <2>2. Frame(j)
    BY <2>1, <1>6, <1>7 DEF Frame
  <2>3. j = id => Starts(j)
    BY <1>1, <1>2, <1>8 DEF Starts
  <2>4. j # id => Keeps(j)
    BY <1>8 DEF Keeps
  <2>. QED
    BY <2>2, <2>3, <2>4 DEF Kind
<1>11. BumpDue'
  BY <1>5, <1>6 DEF BumpDue
<1>. QED
  BY <1>9, <1>10, <1>11 DEF Changed, SyncKept

LEMMA RemoveChanged ==
  ASSUME TypeOK, NEW id \in Ids, NEW p \in Callers, RemoveIf(p, id)
  PROVE  Changed
<1>1. PICK e \in Nat : e = authEpochs[id] + 1
  BY IdTyped
<1>2. /\ authEpochs' = [authEpochs EXCEPT ![id] = e]
      /\ auths' = [auths EXCEPT ![id] = None]
      /\ Begin(p, <<Tombstone(id, e), Bump(id)>>)
  BY <1>1 DEF RemoveIf
<1>3. /\ Bump(id) \in Steps /\ Bump(id).do = "bump"
      /\ Tombstone(id, e) \in Steps /\ Tombstone(id, e).id = id
  BY StepsAre
<1>4. Todo' = Todo \cup {Tombstone(id, e), Bump(id)}
  BY <1>2, <1>3, BeginTwo
<1>5. /\ calls' \in [Callers -> Seq(Steps)]
      /\ \A q \in Callers : calls[q] # << >> => calls'[q] = calls[q]
      /\ UNCHANGED <<reg, version, syncedVersion, sched, syncer>>
      /\ changes' \in Nat
  <2>1. <<Tombstone(id, e), Bump(id)>> \in Seq(Steps)
    BY <1>3
  <2>. QED
    BY <2>1, <1>2, BeginTodo, BeginFrame
<1>6. /\ auths' \in Maps /\ authEpochs' \in [Ids -> Nat]
      /\ auths'[id] = None /\ authEpochs'[id] = e /\ e > authEpochs[id]
      /\ \A j \in Ids \ {id} : auths'[j] = auths[j] /\ authEpochs'[j] = authEpochs[j]
  BY <1>1, <1>2, IdTyped DEF TypeOK, Maps
<1>7. TypeOK'
  BY <1>5, <1>6 DEF TypeOK
<1>8. ASSUME NEW j \in Ids
      PROVE  Frame(j) /\ Kind(j)
  <2>1. ASSUME NEW t \in Todo'
        PROVE  NewStep(j, t)
    BY <1>3, <1>4, <1>6 DEF NewStep
  <2>2. Frame(j)
    BY <2>1, <1>4, <1>5 DEF Frame
  <2>3. j = id => Removes(j)
    BY <1>1, <1>4, <1>6 DEF Removes
  <2>4. j # id => Keeps(j)
    BY <1>6 DEF Keeps
  <2>. QED
    BY <2>2, <2>3, <2>4 DEF Kind
<1>9. BumpDue'
  BY <1>3, <1>4 DEF BumpDue
<1>. QED
  BY <1>7, <1>8, <1>9 DEF Changed, SyncKept

\* Load gives every credential of the store a new epoch and buries the others.
LEMMA LoadTodo ==
  ASSUME TypeOK, NEW p \in Callers, NEW n \in Nat, NEW f \in [1..n -> Steps],
         Begin(p, f \o <<Bump(None), SyncStep>>)
  PROVE  /\ Todo' = Todo \cup {f[i] : i \in 1..n} \cup {Bump(None), SyncStep}
         /\ calls' \in [Callers -> Seq(Steps)]
         /\ \A q \in Callers : calls[q] # << >> => calls'[q] = calls[q]
<1> DEFINE g    == <<Bump(None), SyncStep>>
           todo == f \o g
<1>1. Bump(None) \in Steps /\ SyncStep \in Steps
  BY DEF Bump, SyncStep, Bumps, Syncs, Steps
<1>2. f \in Seq(Steps) /\ Len(f) = n /\ g \in Seq(Steps) /\ Len(g) = 2
      /\ g[1] = Bump(None) /\ g[2] = SyncStep
  <2>1. f \in Seq(Steps) /\ Len(f) = n
    OBVIOUS
  <2>2. g \in Seq(Steps) /\ Len(g) = 2 /\ g[1] = Bump(None) /\ g[2] = SyncStep
    <3>. HIDE DEF Bump, SyncStep
    <3>. QED
      BY <1>1
  <2>. QED
    BY <2>1, <2>2
<1>. HIDE DEF g
<1>3. /\ todo \in Seq(Steps) /\ Len(todo) = n + 2
      /\ \A i \in 1..n : todo[i] = f[i]
      /\ todo[n + 1] = Bump(None) /\ todo[n + 2] = SyncStep
  <2>1. /\ todo \in Seq(Steps)
        /\ Len(todo) = Len(f) + Len(g)
        /\ \A i \in 1..(Len(f) + Len(g)) :
             todo[i] = IF i <= Len(f) THEN f[i] ELSE g[i - Len(f)]
    BY <1>2, ConcatProperties
  <2>. HIDE DEF todo
  <2>. QED
    BY <2>1, <1>2
<1>4. Begin(p, todo)
  BY DEF g
<1>. HIDE DEF todo
<1>5. /\ Todo' = Todo \cup {todo[i] : i \in 1..(n + 2)}
      /\ calls' \in [Callers -> Seq(Steps)]
      /\ calls[p] = << >>
      /\ \A q \in Callers : q # p => calls'[q] = calls[q]
  BY <1>3, <1>4, BeginTodo
<1>6. 1..(n + 2) = 1..n \cup {n + 1, n + 2}
  OBVIOUS
<1>7. {todo[i] : i \in 1..(n + 2)} = {f[i] : i \in 1..n} \cup {Bump(None), SyncStep}
  BY <1>3, <1>6
<1>. QED
  BY <1>5, <1>7

LEMMA LoadChanged ==
  ASSUME TypeOK, NEW p \in Callers, NEW S \in SUBSET Ids, Load(p, S)
  PROVE  Changed
<1> DEFINE gone == {id \in Ids \ S : auths[id] # None}
           e    == [id \in Ids |-> authEpochs[id] + IF id \in S \cup gone THEN 1 ELSE 0]
           n    == Cardinality(gone)
<1>1. n \in Nat
  <2>1. gone \subseteq Ids
    OBVIOUS
  <2>. QED
    BY <2>1, FiniteAssumption, FS_Subset, FS_CardinalityType
<1>2. e \in [Ids -> Nat]
  BY DEF TypeOK
<1>3. /\ authEpochs' = e
      /\ auths' = [id \in Ids |-> IF id \in S THEN Fresh(id, e[id]) ELSE None]
  BY DEF Load
<1>4. PICK o \in [1..n -> gone] :
        /\ {o[i] : i \in 1..n} = gone
        /\ Begin(p, [i \in 1..n |-> Tombstone(o[i], e[o[i]])] \o <<Bump(None), SyncStep>>)
  BY DEF Load
<1>5. \A j \in Ids :
        /\ j \in gone <=> j \notin S /\ auths[j] # None
        /\ e[j] = IF j \in S \cup gone THEN authEpochs[j] + 1 ELSE authEpochs[j]
        /\ authEpochs[j] \in Nat
  BY DEF TypeOK
<1>6. gone \subseteq Ids
  OBVIOUS
<1> DEFINE f == [i \in 1..n |-> Tombstone(o[i], e[o[i]])]
<1>. HIDE DEF gone, e, n
<1>7. /\ f \in [1..n -> Steps]
      /\ \A i \in 1..n : f[i] = Tombstone(o[i], e[o[i]]) /\ o[i] \in gone
  BY <1>2, <1>4, <1>6, StepsAre
<1>8. Begin(p, f \o <<Bump(None), SyncStep>>)
  BY <1>4
<1>. HIDE DEF f
<1>9. /\ Todo' = Todo \cup {f[i] : i \in 1..n} \cup {Bump(None), SyncStep}
      /\ calls' \in [Callers -> Seq(Steps)]
      /\ \A q \in Callers : calls[q] # << >> => calls'[q] = calls[q]
  BY <1>1, <1>7, <1>8, LoadTodo
<1>10. /\ UNCHANGED <<reg, version, syncedVersion, sched, syncer>>
       /\ changes' \in Nat
  BY <1>8, BeginFrame
<1>11. /\ Bump(None).do = "bump" /\ SyncStep.do = "sync"
  BY DEF Bump, SyncStep
<1>12. auths' \in Maps /\ authEpochs' \in [Ids -> Nat]
  BY <1>2, <1>3, FreshFields DEF Maps
<1>13. TypeOK'
  BY <1>9, <1>10, <1>12 DEF TypeOK
<1>14. ASSUME NEW j \in Ids
       PROVE  Frame(j) /\ Kind(j)
  <2>1. ASSUME NEW t \in Todo'
        PROVE  NewStep(j, t)
    <3>1. CASE t \in Todo \cup {Bump(None), SyncStep}
      BY <3>1, <1>11 DEF NewStep
    <3>2. ASSUME NEW i \in 1..n, t = f[i]
          PROVE  NewStep(j, t)
      <4>1. o[i] \in gone /\ o[i] \in Ids /\ t = Tombstone(o[i], e[o[i]])
        BY <3>2, <1>6, <1>7
      <4>2. CASE o[i] = j
        BY <4>1, <4>2, <1>3, <1>5 DEF NewStep
      <4>3. CASE o[i] # j
        BY <4>1, <4>3 DEF NewStep, Tombstone
      <4>. QED
        BY <4>2, <4>3
    <3>. QED
      BY <3>1, <3>2, <1>9
  <2>2. Frame(j)
    BY <2>1, <1>9, <1>10 DEF Frame
  <2>3. CASE j \in S
    <3>1. authEpochs'[j] = e[j] /\ e[j] = authEpochs[j] + 1 /\ auths'[j] = Fresh(j, e[j])
      BY <2>3, <1>3, <1>5
    <3>2. Starts(j)
      BY <3>1 DEF Starts
    <3>. QED
      BY <2>2, <3>2 DEF Kind
  <2>4. CASE j \in gone
    <3>1. PICK i \in 1..n : o[i] = j
      BY <2>4, <1>4
    <3>2. f[i] \in Todo' /\ f[i] = Tombstone(j, e[j])
      BY <3>1, <1>7, <1>9
    <3>3. authEpochs'[j] = e[j] /\ e[j] = authEpochs[j] + 1 /\ auths'[j] = None
      BY <2>4, <1>3, <1>5
    <3>4. Removes(j)
      BY <3>2, <3>3 DEF Removes
    <3>. QED
      BY <2>2, <3>4 DEF Kind
  <2>5. CASE j \notin S \cup gone
    <3>1. auths'[j] = auths[j] /\ authEpochs'[j] = authEpochs[j]
      BY <2>5, <1>3, <1>5
    <3>2. Keeps(j)
      BY <3>1 DEF Keeps
    <3>. QED
      BY <2>2, <3>2 DEF Kind
  <2>. QED
    BY <2>2, <2>3, <2>4, <2>5
<1>15. BumpDue'
  BY <1>9, <1>11 DEF BumpDue
<1>. QED
  BY <1>13, <1>14, <1>15 DEF Changed, SyncKept

\* Every change of the manager keeps the invariant.
LEMMA ChangedKinds ==
  ASSUME TypeOK, \A id \in Ids : KnownInv(id), NEW p \in Callers, Change(p)
  PROVE  Changed
<1>1. ASSUME NEW id \in Ids, Register(p, id)
      PROVE  Changed
  BY <1>1, RegisterChanged
<1>2. ASSUME NEW id \in Ids, NEW b \in BOOLEAN, Update(p, id, b)
      PROVE  Changed
  BY <1>2, UpdateChanged
<1>3. ASSUME NEW id \in Ids, RemoveIf(p, id)
      PROVE  Changed
  BY <1>3, RemoveChanged
<1>4. ASSUME NEW id \in Ids, ResetQuota(p, id)
      PROVE  Changed
  BY <1>4, ResetChanged
<1>5. ASSUME NEW id \in Ids, NEW m \in Models, RestoreCooldownStates(p, id, m)
      PROVE  Changed
  BY <1>5, RestoreChanged
<1>6. ASSUME NEW id \in Ids, NEW m \in Models, NEW o \in {"cool", "ok", "recover", "reject"},
             MarkResult(p, id, m, o)
      PROVE  Changed
  BY <1>6, MarkChanged
<1>7. ASSUME NEW id \in Ids, NEW b \in BOOLEAN, MarkAuthResult(p, id, b)
      PROVE  Changed
  BY <1>7, MarkAuthChanged
<1>8. ASSUME NEW id \in Ids, RefreshSchedulerEntry(p, id)
      PROVE  Changed
  BY <1>8, EntryChanged
<1>9. ASSUME NEW S \in SUBSET Ids, Load(p, S)
      PROVE  Changed
  BY <1>9, LoadChanged
<1>. QED
  BY <1>1, <1>2, <1>3, <1>4, <1>5, <1>6, <1>7, <1>8, <1>9 DEF Change

LEMMA ChangeStep ==
  ASSUME IInv, NEW p \in Callers, Change(p)
  PROVE  IInv'
<1>1. TypeOK /\ SyncInv /\ \A id \in Ids : CredentialInv(id)
  BY DEF IInv
<1>2. Changed
  BY <1>1, ChangedKinds DEF CredentialInv
<1>3. ASSUME NEW id \in Ids
      PROVE  CredentialInv(id)'
  BY <1>1, <1>2, KeepsStep, AdvancesStep, StartsStep, RemovesStep DEF Changed, Kind
<1>4. SyncInv'
  <2>1. CASE Ids = {}
    <3>1. UNCHANGED <<version, syncedVersion, syncer>>
      <4>1. PICK S \in SUBSET Ids : Load(p, S)
        BY <2>1 DEF Change
      <4>2. PICK todo : Begin(p, todo)
        BY <4>1 DEF Load
      <4>. QED
        BY <4>2 DEF Begin
    <3>. QED
      BY <3>1, <2>1, <1>1 DEF SyncInv, Schedulable
  <2>2. CASE Ids # {}
    <3>1. PICK id \in Ids : TRUE
      BY <2>2
    <3>2. /\ UNCHANGED <<reg, version, syncedVersion, sched, syncer>>
          /\ Todo \subseteq Todo'
      BY <3>1, <1>2 DEF Changed, Frame
    <3>3. BumpDue => BumpDue'
      BY <3>2 DEF BumpDue
    <3>4. ASSUME ~BumpDue', version = syncedVersion, NEW j \in Schedulable(auths')
          PROVE  InSync(j)'
      <4>1. /\ j \in Ids /\ j \in Schedulable(auths) /\ auths'[j].epoch = auths[j].epoch
        BY <3>4, <1>2 DEF Changed, SyncKept, Schedulable
      <4>2. InSync(j)
        BY <4>1, <3>3, <3>4, <1>1 DEF SyncInv
      <4>. QED
        BY <4>1, <4>2, <3>2 DEF InSync
    <3>. QED
      BY <3>2, <3>4, <1>1 DEF SyncInv
  <2>. QED
    BY <2>1, <2>2
<1>. QED
  BY <1>2, <1>3, <1>4 DEF IInv, Changed

-----------------------------------------------------------------------------
(***************************************************************************)
(* Steps of the scheduler: what one of them is for one credential          *)
(***************************************************************************)
Due(id) == {e \in Nat : Tombstone(id, e) \in Todo}

\* The index moves by what is known or due, R are the shards it refreshes, and
\* what is no longer due has left its mark.
Moves(id, R) ==
  /\ auths'[id] = auths[id] /\ authEpochs'[id] = authEpochs[id]
  /\ reg'[id] = reg[id] \/ reg'[id].epoch = reg[id].epoch + 1
  /\ Todo' \subseteq Todo
  /\ syncer'.pc = "rebuild" => syncer'.list[id] \in Known(id) \cup {None}
  /\ RowMove(sched, sched', id, Known(id), Due(id), R)
  /\ RegMove(sched, sched', id, reg, reg')
  /\ \A st \in Todo \ Todo' : st.id = id => Absorbed(sched', st) /\ ShardsOf(st) \subseteq R
  /\ \A p \in Callers : \/ calls'[p] = calls[p]
                        \/ calls[p] # << >> /\ Head(calls[p]) \notin Todo'
                        \/ calls[p] # << >> /\ Absorbed(sched', Head(calls[p]))

\* The recorded generation only moves forward, but for one of an old epoch.
GensForward(id) ==
  /\ \A a \in Auth : Reached(sched, id, a) /\ (Current(id, a) \/ sched'.metas[id] # None)
                       => Reached(sched', id, a)
  /\ \A a \in Auth : a.id = id /\ Current(id, a) /\ isStaleScheduledAuth(sched, a)
                       => isStaleScheduledAuth(sched', a)
  /\ sched.gens[id] # None => /\ sched'.gens[id] # None
                              /\ sched'.gens[id].epoch >= sched.gens[id].epoch

LEMMA MovesTomb ==
  ASSUME TypeOK, NEW id \in Ids, TombInv(id), NEW e \in Due(id)
  PROVE  /\ e \in Nat /\ e <= authEpochs[id]
         /\ e = authEpochs[id] => auths[id] = None
<1>1. /\ Tombstone(id, e) \in Todo /\ e \in Nat
      /\ Tombstone(id, e).do = "tombstone" /\ Tombstone(id, e).id = id
      /\ Tombstone(id, e).epoch = e
  BY DEF Due, Tombstone
<1>. QED
  BY <1>1 DEF TombInv

LEMMA GensStep ==
  ASSUME TypeOK, TypeOK', NEW id \in Ids, CredentialInv(id), NEW R \in SUBSET Keys, Moves(id, R)
  PROVE  GensForward(id) /\ GensInv(id)'
<1> DEFINE g == sched.gens[id]
           h == sched'.gens[id]
<1>1. /\ g # None => g \in scheduledGenerationMeta /\ g.epoch \in Nat /\ g.gen \in Nat
      /\ authEpochs[id] \in Nat
      /\ auths'[id] = auths[id] /\ authEpochs'[id] = authEpochs[id]
  BY IdTyped DEF Moves
<1>2. GensMove(sched, sched', id, Known(id), Due(id))
  BY DEF Moves, RowMove
<1>3. GensInv(id)
  BY DEF CredentialInv, IndexInv
<1>4. CASE h = g
  <2>1. GensInv(id)'
    BY <1>1, <1>3, <1>4 DEF GensInv
  <2>2. GensForward(id)
    BY <1>1, <1>4 DEF GensForward, Reached, isStaleScheduledAuth
  <2>. QED
    BY <2>1, <2>2
<1>5. ASSUME NEW a \in Known(id), Adopts(sched, sched', id, a)
      PROVE  GensForward(id) /\ GensInv(id)'
  <2>1. /\ a \in Auth /\ a.id = id /\ a.epoch \in Nat /\ a.gen \in Nat
        /\ a.epoch <= authEpochs[id]
        /\ a.epoch = authEpochs[id] => auths[id] # None /\ a.gen <= auths[id].gen
    BY AuthFields DEF CredentialInv, KnownInv, Sound, Current
  <2>2. h = Version(a) /\ h # None /\ h.epoch = a.epoch /\ h.gen = a.gen
    BY <1>5, <2>1, AuthFields, NoneIsNone DEF Adopts, Version
  <2>3. g # None => g.epoch < a.epoch \/ (g.epoch = a.epoch /\ g.gen <= a.gen)
    BY <1>1, <1>5, <2>1 DEF Adopts, isStaleScheduledAuth
  <2>. HIDE DEF g, h
  <2>4. GensInv(id)'
    BY <2>1, <2>2, <1>1 DEF GensInv, h
  <2>5. ASSUME NEW v \in Auth, Reached(sched, id, v)
        PROVE  Reached(sched', id, v)
    <3>1. v.epoch \in Nat /\ v.gen \in Nat
      BY AuthFields
    <3>. QED
      BY <2>5, <3>1, <2>1, <2>2, <2>3, <1>1 DEF Reached, g, h
  <2>6. ASSUME NEW v \in Auth, v.id = id, isStaleScheduledAuth(sched, v)
        PROVE  isStaleScheduledAuth(sched', v)
    <3>1. v.epoch \in Nat /\ v.gen \in Nat
      BY AuthFields
    <3>. QED
      BY <2>6, <3>1, <2>1, <2>2, <2>3, <1>1 DEF isStaleScheduledAuth, g, h
  <2>7. GensForward(id)
    BY <2>1, <2>2, <2>3, <2>5, <2>6, <1>1 DEF GensForward, g, h
  <2>. QED
    BY <2>4, <2>7
<1>6. ASSUME NEW e \in Due(id), Buried(sched, sched', id, e)
      PROVE  GensForward(id) /\ GensInv(id)'
  <2>1. /\ e \in Nat /\ e <= authEpochs[id]
        /\ e = authEpochs[id] => auths[id] = None
    BY MovesTomb DEF CredentialInv, DueInv
  <2>2. /\ h = [epoch |-> e, gen |-> 0] /\ h # None /\ h.epoch = e /\ h.gen = 0
        /\ sched'.metas[id] = None
        /\ g # None => g.epoch <= e
    BY <1>6, <2>1, NoneIsNone DEF Buried, scheduledGenerationMeta
  <2>. HIDE DEF g, h
  <2>3. GensInv(id)'
    BY <2>1, <2>2, <1>1 DEF GensInv, h
  <2>4. g # None /\ g.epoch = authEpochs[id] => g.gen = 0 /\ e = authEpochs[id]
    BY <2>1, <2>2, <1>1, <1>3 DEF GensInv, g
  <2>5. ASSUME NEW v \in Auth, Current(id, v), Reached(sched, id, v)
        PROVE  Reached(sched', id, v)
    <3>1. v.epoch \in Nat /\ v.gen \in Nat /\ v.epoch = authEpochs[id]
      BY <2>5, AuthFields DEF Current
    <3>. QED
      BY <2>5, <3>1, <2>1, <2>2, <2>4, <1>1 DEF Reached, g, h
  <2>6. ASSUME NEW v \in Auth, v.id = id, Current(id, v), isStaleScheduledAuth(sched, v)
        PROVE  isStaleScheduledAuth(sched', v)
    <3>1. v.epoch \in Nat /\ v.gen \in Nat /\ v.epoch = authEpochs[id]
      BY <2>6, AuthFields DEF Current
    <3>. QED
      BY <2>6, <3>1, <2>1, <2>2, <2>4, <1>1 DEF isStaleScheduledAuth, g, h
  <2>7. GensForward(id)
    BY <2>1, <2>2, <2>5, <2>6, <1>1 DEF GensForward, g, h
  <2>. QED
    BY <2>3, <2>7
<1>. QED
  BY <1>2, <1>4, <1>5, <1>6 DEF GensMove

LEMMA MovesKnown ==
  ASSUME TypeOK, TypeOK', NEW id \in Ids, NEW R \in SUBSET Keys, Moves(id, R), NEW a \in Known(id)'
  PROVE  a \in Known(id)
<1>1. /\ auths'[id] = auths[id]
      /\ Todo' \subseteq Todo
      /\ syncer'.pc = "rebuild" => syncer'.list[id] \in Known(id) \cup {None}
      /\ MetaMove(sched, sched', id, Known(id))
  BY DEF Moves, RowMove
<1>2. sched'.metas[id] # None => sched'.metas[id].snap \in Known(id)
  BY <1>1, KnownIs DEF MetaMove
<1>. QED
  BY <1>1, <1>2, KnownIs, KnownIsNext

LEMMA MovesIndex ==
  ASSUME TypeOK, TypeOK', NEW id \in Ids, CredentialInv(id), NEW R \in SUBSET Keys, Moves(id, R)
  PROVE  KnownInv(id)' /\ IndexInv(id)'
<1>1. /\ auths'[id] = auths[id] /\ authEpochs'[id] = authEpochs[id]
      /\ reg'[id] = reg[id] \/ reg'[id].epoch = reg[id].epoch + 1
      /\ MetaMove(sched, sched', id, Known(id))
      /\ \A k \in Keys : EntryMove(sched, sched', id, k, R)
      /\ RegMove(sched, sched', id, reg, reg')
  BY DEF Moves, RowMove
<1>2. /\ KnownInv(id) /\ GensInv(id) /\ MetaInv(id) /\ RegInv(id) /\ EntryInv(id)
      /\ GensForward(id) /\ GensInv(id)'
  BY GensStep DEF CredentialInv, IndexInv
<1>3. KnownInv(id)'
  BY <1>1, <1>2, MovesKnown DEF KnownInv, Sound, Current
<1>4. MetaInv(id)'
  BY <1>1, <1>2 DEF MetaInv, MetaMove
<1>5. RegInv(id)'
  <2>1. /\ reg[id].epoch \in Nat /\ reg'[id].epoch \in Nat
        /\ sched.metas[id] # None => sched.metas[id].regEpoch \in Nat
        /\ sched'.metas[id] # None => sched'.metas[id].regEpoch \in Nat
    BY IdTyped, SchedulerFields DEF TypeOK, Registries, scheduledAuthMeta
  <2>. QED
    BY <2>1, <1>1, <1>2 DEF RegInv, RegMove
<1>6. ASSUME NEW k \in Keys, Entry(sched', id, k) # None
      PROVE  /\ sched'.metas[id] # None
             /\ Entry(sched', id, k) \in Auth
             /\ Entry(sched', id, k).blocked \subseteq Entry(sched', id, k).states
             /\ Reached(sched', id, Entry(sched', id, k))
             /\ IF k = AnyModel THEN Entry(sched', id, k) = sched'.metas[id].snap
                ELSE k \in sched'.metas[id].models
             /\ isCredentialBlocked(Entry(sched', id, k), sched'.metas[id].models)
                  <=> isCredentialBlocked(sched'.metas[id].snap, sched'.metas[id].models)
  <2>1. CASE /\ sched'.metas[id] # None
             /\ Entry(sched', id, k) = sched'.metas[id].snap
             /\ supportsModel(sched'.metas[id], k)
    <3>1. PICK a : a = sched'.metas[id].snap
      OBVIOUS
    <3>2. a \in Known(id)'
      BY <2>1, <3>1, KnownIsNext
    <3>3. a \in Auth /\ a.id = id /\ a.blocked \subseteq a.states
      BY <3>2, <1>3 DEF KnownInv, Sound
    <3>4. sched'.gens[id] = Version(a) /\ sched' \in Schedulers
      BY <2>1, <3>1, <1>4 DEF MetaInv, TypeOK
    <3>5. Reached(sched', id, a)
      BY <3>3, <3>4, RecordedReached
    <3>. QED
      BY <2>1, <3>1, <3>3, <3>5 DEF supportsModel
  <2>2. CASE EntryKept(sched, sched', id, k, R)
    <3>1. PICK e : e = Entry(sched, id, k)
      OBVIOUS
    <3>2. e # None /\ Entry(sched', id, k) = e
      BY <1>6, <2>2, <3>1 DEF EntryKept
    <3>3. /\ sched.metas[id] # None /\ e \in Auth /\ e.blocked \subseteq e.states
          /\ Reached(sched, id, e)
          /\ IF k = AnyModel THEN e = sched.metas[id].snap ELSE k \in sched.metas[id].models
          /\ isCredentialBlocked(e, sched.metas[id].models)
               <=> isCredentialBlocked(sched.metas[id].snap, sched.metas[id].models)
      BY <3>1, <3>2, <1>2 DEF EntryInv
    <3>4. CASE sched'.metas[id] = sched.metas[id] /\ sched'.gens[id] = sched.gens[id]
      BY <3>2, <3>3, <3>4 DEF Reached
    <3>5. CASE /\ k # AnyModel
               /\ sched'.metas[id] # None
               /\ sched'.metas[id].models = sched.metas[id].models
               /\ isCredentialBlocked(sched.metas[id].snap, sched.metas[id].models)
                    <=> isCredentialBlocked(sched'.metas[id].snap, sched.metas[id].models)
      <4>1. Reached(sched', id, e)
        BY <3>3, <3>5, <1>2 DEF GensForward
      <4>. QED
        BY <3>2, <3>3, <3>5, <4>1
    <3>. QED
      BY <2>2, <3>4, <3>5 DEF EntryKept
  <2>. QED
    BY <1>1, <1>6, <2>1, <2>2 DEF EntryMove
<1>7. EntryInv(id)'
  BY <1>6 DEF EntryInv
<1>. QED
  BY <1>2, <1>3, <1>4, <1>5, <1>7 DEF IndexInv

\* The generation of the published credential, once the scheduler has reached it.
LEMMA ReachedIsRecorded ==
  ASSUME TypeOK', NEW id \in Ids, GensInv(id)', NEW a \in Auth, a = auths'[id],
         a.epoch = authEpochs'[id], a # None, Reached(sched', id, a)
  PROVE  sched'.gens[id] = Version(a)
<1> DEFINE h == sched'.gens[id]
<1>1. /\ h # None /\ h \in scheduledGenerationMeta /\ h.epoch \in Nat /\ h.gen \in Nat
      /\ a.epoch \in Nat /\ a.gen \in Nat
  <2>1. h # None
    BY DEF Reached
  <2>2. h \in scheduledGenerationMeta
    BY <2>1, SchedulerFields DEF TypeOK
  <2>. QED
    BY <2>1, <2>2, AuthFields DEF scheduledGenerationMeta
<1>2. h.epoch = a.epoch /\ h.gen = a.gen
  BY <1>1 DEF Reached, GensInv
<1>3. h = [epoch |-> h.epoch, gen |-> h.gen]
  BY <1>1 DEF scheduledGenerationMeta
<1>. QED
  BY <1>2, <1>3 DEF Version

LEMMA MovesTombInv ==
  ASSUME TypeOK, TypeOK', NEW id \in Ids, CredentialInv(id), NEW R \in SUBSET Keys, Moves(id, R)
  PROVE  TombInv(id)'
<1>1. /\ auths'[id] = auths[id] /\ authEpochs'[id] = authEpochs[id]
      /\ Todo' \subseteq Todo
      /\ \A st \in Todo \ Todo' : st.id = id => Absorbed(sched', st)
  BY DEF Moves
<1>2. TombInv(id) /\ GensForward(id) /\ GensInv(id)'
  BY GensStep DEF CredentialInv, DueInv
<1>3. ASSUME auths[id] = None, authEpochs[id] > 0
      PROVE  \/ Tombstone(id, authEpochs[id]) \in Todo'
             \/ sched'.gens[id] = [epoch |-> authEpochs[id], gen |-> 0]
  <2> DEFINE e == authEpochs[id]
             h == sched'.gens[id]
  <2>1. SUFFICES ASSUME Tombstone(id, e) \notin Todo'
                 PROVE  h = [epoch |-> e, gen |-> 0]
    OBVIOUS
  <2>2. h # None /\ h.epoch >= e
    <3>1. CASE Tombstone(id, e) \in Todo
      <4>1. Absorbed(sched', Tombstone(id, e)) /\ Tombstone(id, e).id = id
            /\ Tombstone(id, e).do = "tombstone" /\ Tombstone(id, e).epoch = e
        BY <2>1, <3>1, <1>1 DEF Tombstone
      <4>. QED
        BY <4>1 DEF Absorbed, EpochsOf
    <3>2. CASE sched.gens[id] = [epoch |-> e, gen |-> 0]
      <4>1. sched.gens[id] # None /\ sched.gens[id].epoch = e
        BY <3>2, IdTyped, NoneIsNone DEF scheduledGenerationMeta
      <4>. QED
        BY <4>1, <1>2 DEF GensForward
    <3>. QED
      BY <3>1, <3>2, <1>2, <1>3 DEF TombInv
  <2>3. h \in scheduledGenerationMeta /\ h.epoch \in Nat /\ e \in Nat
    BY <2>2, IdTyped, SchedulerFields DEF TypeOK, scheduledGenerationMeta
  <2>4. h.epoch = e /\ h.gen = 0
    BY <2>2, <2>3, <1>1, <1>2, <1>3 DEF GensInv
  <2>5. h = [epoch |-> h.epoch, gen |-> h.gen]
    BY <2>3 DEF scheduledGenerationMeta
  <2>. QED
    BY <2>4, <2>5
<1>. QED
  BY <1>1, <1>2, <1>3 DEF TombInv

LEMMA MovesLastInv ==
  ASSUME TypeOK, TypeOK', NEW id \in Ids, CredentialInv(id), NEW R \in SUBSET Keys, Moves(id, R)
  PROVE  LastInv(id)'
<1>1. /\ auths'[id] = auths[id] /\ authEpochs'[id] = authEpochs[id]
      /\ \A st \in Todo \ Todo' : st.id = id => Absorbed(sched', st)
      /\ GensMove(sched, sched', id, Known(id), Due(id))
  BY DEF Moves, RowMove
<1>2. LastInv(id) /\ KnownInv(id) /\ GensForward(id) /\ GensInv(id)'
  BY GensStep DEF CredentialInv, DueInv
<1> SUFFICES ASSUME auths[id] # None
             PROVE  \/ sched'.gens[id] = Version(auths[id])
                    \/ auths[id] \in Flying(id)'
                    \/ /\ auths[id].gen = 1
                       /\ auths[id].enabled
                       /\ sched'.gens[id] # None => sched'.gens[id].epoch < authEpochs[id]
  BY <1>1 DEF LastInv
<1>3. PICK a : a = auths[id]
  OBVIOUS
<1>4. /\ a \in Auth /\ a # None /\ a.id = id /\ Current(id, a) /\ a \in Known(id)
      /\ a.epoch \in Nat /\ a.gen \in Nat /\ authEpochs[id] \in Nat
  <2>1. a \in Known(id)
    BY <1>3, KnownIs
  <2>. QED
    BY <2>1, <1>2, <1>3, AuthFields, IdTyped DEF KnownInv, Sound
<1>5. Reached(sched', id, a) => sched'.gens[id] = Version(a)
  BY <1>1, <1>2, <1>3, <1>4, ReachedIsRecorded DEF Current
<1>6. CASE sched.gens[id] = Version(a)
  <2>1. Reached(sched, id, a)
    BY <1>4, <1>6, RecordedReached DEF TypeOK
  <2>. QED
    BY <2>1, <1>2, <1>3, <1>4, <1>5 DEF GensForward
<1>7. CASE a \in Flying(id)
  <2>1. PICK t \in Todo : t.do \in {"upsert", "result"} /\ t.id = id /\ t.snap = a
    BY <1>7, FlyingIs
  <2>2. CASE t \in Todo'
    BY <2>1, <2>2, <1>3, FlyingIs
  <2>3. CASE t \notin Todo'
    <3>1. Absorbed(sched', t)
      BY <2>1, <2>3, <1>1
    <3>2. Reached(sched', id, a)
      BY <2>1, <3>1 DEF Absorbed, SnapsOf
    <3>. QED
      BY <3>2, <1>3, <1>5
  <2>. QED
    BY <2>2, <2>3
<1>8. CASE /\ a.gen = 1
           /\ a.enabled
           /\ sched.gens[id] # None => sched.gens[id].epoch < authEpochs[id]
  <2>1. CASE sched'.gens[id] = sched.gens[id]
    BY <2>1, <1>3, <1>8
  <2>2. ASSUME NEW b \in Known(id), Adopts(sched, sched', id, b)
        PROVE  \/ sched'.gens[id] = Version(a)
               \/ sched'.gens[id] # None => sched'.gens[id].epoch < authEpochs[id]
    <3>1. /\ b \in Auth /\ b.epoch \in Nat /\ b.gen \in Nat /\ b.gen >= 1
          /\ b.epoch <= authEpochs[id]
          /\ b.epoch = authEpochs[id] => b.gen <= a.gen
      BY <1>2, <1>3, AuthFields DEF KnownInv, Sound, Current
    <3>2. sched'.gens[id] = Version(b) /\ sched'.gens[id].epoch = b.epoch
      BY <2>2 DEF Adopts, Version
    <3>3. b.epoch = authEpochs[id] => Version(b) = Version(a)
      BY <3>1, <1>4, <1>8 DEF Version, Current
    <3>. QED
      BY <3>1, <3>2, <3>3, <1>4
  <2>3. ASSUME NEW e \in Due(id), Buried(sched, sched', id, e)
        PROVE  sched'.gens[id].epoch < authEpochs[id]
    <3>1. e \in Nat /\ e <= authEpochs[id] /\ e # authEpochs[id]
      BY <1>3, <1>4, MovesTomb DEF CredentialInv, DueInv
    <3>. QED
      BY <2>3, <3>1, <1>4 DEF Buried
  <2>. QED
    BY <2>1, <2>2, <2>3, <1>1, <1>3, <1>8 DEF GensMove
<1>. QED
  BY <1>2, <1>3, <1>6, <1>7, <1>8 DEF LastInv

LEMMA MovesEnabledInv ==
  ASSUME TypeOK, TypeOK', NEW id \in Ids, CredentialInv(id), NEW R \in SUBSET Keys, Moves(id, R)
  PROVE  EnabledInv(id)'
<1>1. /\ auths'[id] = auths[id] /\ authEpochs'[id] = authEpochs[id]
      /\ \A st \in Todo \ Todo' : st.id = id => Absorbed(sched', st)
      /\ \A p \in Callers : \/ calls'[p] = calls[p]
                            \/ calls[p] # << >> /\ Head(calls[p]) \notin Todo'
                            \/ calls[p] # << >> /\ Absorbed(sched', Head(calls[p]))
  BY DEF Moves
<1>2. EnabledInv(id) /\ KnownInv(id) /\ GensForward(id)
  BY GensStep DEF CredentialInv, DueInv
<1> SUFFICES ASSUME auths[id] # None, auths[id].enabled,
                    NEW a \in Known(id)', Current(id, a), ~a.enabled
             PROVE  isStaleScheduledAuth(sched', a) \/ \E p \in Callers : Newer(p, id, a)'
  BY <1>1 DEF EnabledInv, Current
<1>3. a \in Known(id) /\ a \in Auth /\ a.id = id /\ a.gen \in Nat /\ a.epoch \in Nat
  BY <1>2, MovesKnown, AuthFields DEF KnownInv, Sound
<1>4. CASE isStaleScheduledAuth(sched, a)
  BY <1>2, <1>3, <1>4 DEF GensForward
<1>5. ASSUME NEW p \in Callers, Newer(p, id, a)
      PROVE  isStaleScheduledAuth(sched', a) \/ Newer(p, id, a)'
  <2>1. CASE calls'[p] = calls[p]
    BY <2>1, <1>1, <1>5 DEF Newer, Current
  <2>2. CASE calls[p] # << >> /\ (Head(calls[p]) \notin Todo' \/ Absorbed(sched', Head(calls[p])))
    <3>1. PICK h : h = Head(calls[p])
      OBVIOUS
    <3>2. calls[p] \in Seq(Steps)
      BY DEF TypeOK
    <3>3. h = calls[p][1] /\ Len(calls[p]) = 2
      BY <2>2, <3>1, <3>2, <1>5 DEF Newer
    <3>4. h \in Todo
      <4>1. 1 \in 1..Len(calls[p])
        BY <3>3
      <4>. QED
        BY <3>3, <4>1, TodoIs
    <3>5. h.do = "upsert" /\ h.id = id /\ Current(id, h.snap) /\ h.snap.gen > a.gen
      BY <3>3, <1>5 DEF Newer
    <3>6. Absorbed(sched', h)
      BY <2>2, <3>1, <3>4, <3>5, <1>1
    <3>7. Reached(sched', id, h.snap)
      BY <3>5, <3>6 DEF Absorbed, SnapsOf
    <3>8. h.snap \in Auth
      BY <3>4, <3>5, TodoTyped, StepFields
    <3>9. h.snap.gen \in Nat /\ h.snap.epoch = a.epoch /\ h.snap.epoch \in Nat
      BY <3>5, <3>8, AuthFields DEF Current
    <3>10. sched'.gens[id] # None /\ sched'.gens[id].epoch \in Nat /\ sched'.gens[id].gen \in Nat
      <4>1. sched'.gens[id] # None /\ sched' \in Schedulers
        BY <3>7 DEF Reached, TypeOK
      <4>2. sched'.gens[id] \in scheduledGenerationMeta
        BY <4>1, SchedulerFields
      <4>. QED
        BY <4>1, <4>2 DEF scheduledGenerationMeta
    <3>11. isStaleScheduledAuth(sched', a)
      BY <3>5, <3>7, <3>9, <3>10, <1>3 DEF Reached, isStaleScheduledAuth
    <3>. QED
      BY <3>11
  <2>. QED
    BY <2>1, <2>2, <1>1
<1>. QED
  BY <1>2, <1>3, <1>4, <1>5 DEF EnabledInv

LEMMA MovesHistory ==
  ASSUME TypeOK, TypeOK', NEW id \in Ids, CredentialInv(id), NEW R \in SUBSET Keys, Moves(id, R)
  PROVE  HistoryInv(id)'
<1>1. /\ auths'[id] = auths[id] /\ authEpochs'[id] = authEpochs[id]
      /\ Todo' \subseteq Todo
      /\ \A st \in Todo \ Todo' : st.id = id => Absorbed(sched', st) /\ ShardsOf(st) \subseteq R
      /\ \A k \in Keys : EntryMove(sched, sched', id, k, R)
  BY DEF Moves, RowMove
<1>2. HistoryInv(id) /\ KnownInv(id) /\ GensForward(id) /\ KnownInv(id)' /\ MetaInv(id)'
      /\ EntryInv(id)
  BY GensStep, MovesIndex DEF CredentialInv, IndexInv
\* A result that overtook a is delivered only when a has become stale.
<1>3. ASSUME NEW k \in Models, NEW a \in Auth, NEW b \in Auth, a.id = id, Current(id, a),
             Follows(id, k, a, b), ~isStaleScheduledAuth(sched', a)
      PROVE  Follows(id, k, a, b)'
  <2>1. ASSUME NEW t \in Todo, t.do = "result", t.id = id, Current(id, t.snap),
               a.gen < t.snap.gen, t.snap.gen <= b.gen
        PROVE  t \in Todo'
    <3>1. SUFFICES ASSUME t \notin Todo'
                   PROVE  FALSE
      OBVIOUS
    <3>2. Reached(sched', id, t.snap)
      BY <2>1, <3>1, <1>1 DEF Absorbed, SnapsOf
    <3>3. t.snap \in Auth
      BY <2>1, TodoTyped, StepFields
    <3>4. /\ t.snap.gen \in Nat /\ t.snap.epoch \in Nat /\ a.gen \in Nat /\ a.epoch \in Nat
          /\ t.snap.epoch = a.epoch
      BY <2>1, <3>3, <1>3, AuthFields DEF Current
    <3>5. sched'.gens[id] # None /\ sched'.gens[id].epoch \in Nat /\ sched'.gens[id].gen \in Nat
      <4>1. sched'.gens[id] # None /\ sched' \in Schedulers
        BY <3>2 DEF Reached, TypeOK
      <4>2. sched'.gens[id] \in scheduledGenerationMeta
        BY <4>1, SchedulerFields
      <4>. QED
        BY <4>1, <4>2 DEF scheduledGenerationMeta
    <3>. QED
      BY <2>1, <3>2, <3>4, <3>5, <1>3 DEF Reached, isStaleScheduledAuth
  <2>2. Overtaken(id, k, a, b) => Overtaken(id, k, a, b)'
    BY <2>1, <1>1 DEF Overtaken, Current
  <2>. QED
    BY <2>2, <1>3 DEF Follows
<1>4. ASSUME NEW k \in Models, NEW b \in Known(id)', Current(id, b),
             NEW a \in Known(id)', Current(id, a), ~isStaleScheduledAuth(sched', a)
      PROVE  Follows(id, k, a, b)'
  <2>1. a \in Known(id) /\ b \in Known(id)
    BY MovesKnown
  <2>2. a \in Auth /\ a.id = id /\ b \in Auth
    BY <2>1, <1>2 DEF KnownInv, Sound
  <2>3. ~isStaleScheduledAuth(sched, a)
    BY <2>2, <1>2, <1>4 DEF GensForward
  <2>4. Follows(id, k, a, b)
    BY <2>1, <2>3, <1>2, <1>4 DEF HistoryInv
  <2>. QED
    BY <2>2, <2>4, <1>3, <1>4
<1>5. ASSUME NEW k \in Models, NEW b \in Known(id)', Current(id, b),
             NEW e, e = Entry(sched', id, k), e # None, Current(id, e)
      PROVE  Follows(id, k, e, b)'
  <2>0. k \in Keys
    BY DEF Keys
  <2>1. CASE sched'.metas[id] # None /\ e = sched'.metas[id].snap
    <3>1. e \in Known(id)'
      BY <2>1, KnownIsNext, <1>5
    <3>2. e \in Auth /\ e.id = id /\ e.gen \in Nat /\ e.epoch \in Nat
      BY <3>1, <1>2, AuthFields DEF KnownInv, Sound
    <3>3. sched'.gens[id] = Version(e)
      BY <2>1, <1>2 DEF MetaInv
    <3>4. ~isStaleScheduledAuth(sched', e)
      BY <3>2, <3>3 DEF isStaleScheduledAuth, Version
    <3>. QED
      BY <3>1, <3>4, <1>4, <1>5
  <2>2. CASE EntryKept(sched, sched', id, k, R)
    <3>1. e = Entry(sched, id, k) /\ k \notin R
      BY <2>2, <1>5 DEF EntryKept
    <3>2. b \in Known(id)
      BY MovesKnown
    <3>3. Follows(id, k, e, b)
      BY <3>1, <3>2, <1>2, <1>5 DEF HistoryInv
    <3>4. ASSUME NEW t \in Todo, t.do = "result", t.id = id, k \in Scope(t)
          PROVE  t \in Todo'
      BY <3>1, <3>4, <1>1 DEF ShardsOf
    <3>5. Overtaken(id, k, e, b) => Overtaken(id, k, e, b)'
      BY <3>4, <1>1 DEF Overtaken, Current
    <3>. QED
      BY <3>3, <3>5 DEF Follows
  <2>. QED
    BY <2>0, <2>1, <2>2, <1>1, <1>5 DEF EntryMove
<1>. QED
  BY <1>1, <1>4, <1>5 DEF HistoryInv, Current

LEMMA MovesStep ==
  ASSUME TypeOK, TypeOK', NEW id \in Ids, CredentialInv(id), NEW R \in SUBSET Keys, Moves(id, R)
  PROVE  CredentialInv(id)'
<1>1. KnownInv(id)' /\ IndexInv(id)'
  BY MovesIndex
<1>2. TombInv(id)' /\ LastInv(id)' /\ EnabledInv(id)'
  BY MovesTombInv, MovesLastInv, MovesEnabledInv
<1>3. HistoryInv(id)'
  BY MovesHistory
<1>. QED
  BY <1>1, <1>2, <1>3 DEF CredentialInv, DueInv

-----------------------------------------------------------------------------
(***************************************************************************)
(* The steps of the scheduler                                              *)
(***************************************************************************)
\* The registry stays, or a client is registered anew.
RegKept == \A id \in Ids : reg'[id] = reg[id] \/ reg'[id].epoch = reg[id].epoch + 1

ListKept == syncer'.pc = "rebuild" =>
              \A id \in Ids : syncer'.list[id] \in Known(id) \cup {None}

LEMMA ListStays ==
  ASSUME TypeOK, syncer' = syncer
  PROVE  ListKept
BY KnownIs DEF ListKept

\* A step of a goroutine that is no delivery.
Quiet(p) ==
  /\ calls[p] # << >>
  /\ Head(calls[p]).do \in {"bump", "sync"}
  /\ calls' = [calls EXCEPT ![p] = Tail(@)]

LEMMA QuietMoves ==
  ASSUME TypeOK, UNCHANGED <<auths, authEpochs, sched>>, RegKept, ListKept,
         UNCHANGED calls \/ \E p \in Callers : Quiet(p),
         NEW id \in Ids
  PROVE  Moves(id, {})
<1>1. RowMove(sched, sched', id, Known(id), Due(id), {}) /\ RegMove(sched, sched', id, reg, reg')
  BY DEF RowMove, GensMove, MetaMove, EntryMove, EntryKept, RegMove
<1>2. CASE UNCHANGED calls
  <2>1. Todo' = Todo
    BY <1>2 DEF Todo
  <2>. QED
    BY <1>1, <1>2, <2>1 DEF Moves, RegKept, ListKept
<1>3. ASSUME NEW p \in Callers, Quiet(p)
      PROVE  Moves(id, {})
  <2>1. /\ calls[p] # << >> /\ calls' = [calls EXCEPT ![p] = Tail(@)]
        /\ Head(calls[p]).do \in {"bump", "sync"}
    BY <1>3 DEF Quiet
  <2>2. /\ Todo' \subseteq Todo /\ Todo \subseteq Todo' \cup {Head(calls[p])}
        /\ \A q \in Callers : q # p => calls'[q] = calls[q]
    BY <2>1, TailTodo
  <2>3. Absorbed(sched', Head(calls[p])) /\ ShardsOf(Head(calls[p])) = {}
    BY <2>1 DEF Absorbed, SnapsOf, EpochsOf, ShardsOf
  <2>. QED
    BY <1>1, <2>1, <2>2, <2>3 DEF Moves, RegKept, ListKept
<1>. QED
  BY <1>2, <1>3

LEMMA InvTidy ==
  ASSUME NEW id \in Ids, CredentialInv(id)
  PROVE  Tidy(sched, id)
<1>1. sched.metas[id] # None => sched.metas[id].snap.id = id
  BY KnownIs DEF CredentialInv, KnownInv, Sound
<1>. QED
  BY <1>1 DEF Tidy, CredentialInv, IndexInv, EntryInv

\* A step that goroutine p delivers.
LEMMA DeliveredFields ==
  ASSUME TypeOK, \A id \in Ids : CredentialInv(id), NEW p \in Callers, calls[p] # << >>,
         NEW st, st = Head(calls[p]), st.do \in {"upsert", "result", "tombstone"}
  PROVE  /\ st \in Todo
         /\ st \in Snapshots \cup Tombstones
         /\ st.id \in Ids
         /\ st \in Snapshots => st.snap.id = st.id
         /\ SnapsOf(st) \subseteq Known(st.id)
         /\ EpochsOf(st) \subseteq Due(st.id)
         /\ ShardsOf(st) \in SUBSET Keys
<1>1. st \in Todo
  <2>1. calls[p] \in Seq(Steps)
    BY DEF TypeOK
  <2>2. 1 \in 1..Len(calls[p]) /\ st = calls[p][1]
    BY <2>1
  <2>. QED
    BY <2>2, TodoIs
<1>2. st \in Steps
  BY <1>1, TodoTyped
<1>3. CASE st.do = "tombstone"
  <2>1. st \in Tombstones /\ st.id \in Ids /\ st.epoch \in Nat
    BY <1>2, <1>3, StepFields
  <2>2. st = Tombstone(st.id, st.epoch)
    BY <2>1 DEF Tombstones, Tombstone
  <2>3. SnapsOf(st) = {} /\ EpochsOf(st) = {st.epoch} /\ ShardsOf(st) = {}
    BY <1>3 DEF SnapsOf, EpochsOf, ShardsOf
  <2>4. st \notin Snapshots
    BY <1>2, <1>3, StepFields
  <2>. QED
    BY <1>1, <2>1, <2>2, <2>3, <2>4 DEF Due
<1>4. CASE st.do \in {"upsert", "result"}
  <2>1. st \in Snapshots /\ st.id \in Ids
    BY <1>2, <1>4, StepFields
  <2>2. st.snap \in Known(st.id)
    BY <1>1, <1>4, KnownIs
  <2>3. st.snap.id = st.id
    BY <2>1, <2>2 DEF CredentialInv, KnownInv, Sound
  <2>4. SnapsOf(st) = {st.snap} /\ EpochsOf(st) = {}
    BY <1>4 DEF SnapsOf, EpochsOf
  <2>5. ShardsOf(st) \in SUBSET Keys
    BY <1>2, <1>4, StepFields DEF ShardsOf, Scope, Keys
  <2>. QED
    BY <1>1, <2>1, <2>2, <2>3, <2>4, <2>5
<1>. QED
  BY <1>3, <1>4

LEMMA DeliveryMoves ==
  ASSUME TypeOK, \A id \in Ids : CredentialInv(id), NEW p \in Callers, calls[p] # << >>,
         Head(calls[p]).do \in {"upsert", "result", "tombstone"},
         calls' = [calls EXCEPT ![p] = Tail(@)],
         sched' = Apply(sched, Head(calls[p]), reg, reg'),
         reg' \in Registries,
         UNCHANGED <<auths, authEpochs, syncer>>, RegKept
  PROVE  /\ Taken(sched, sched', Head(calls[p]), reg, reg')
         /\ \A id \in Ids : \E R \in SUBSET Keys : Moves(id, R)
<1>1. PICK st : st = Head(calls[p])
  OBVIOUS
<1>2. /\ st \in Todo
      /\ st \in Snapshots \cup Tombstones
      /\ st.id \in Ids
      /\ st \in Snapshots => st.snap.id = st.id
      /\ SnapsOf(st) \subseteq Known(st.id)
      /\ EpochsOf(st) \subseteq Due(st.id)
      /\ ShardsOf(st) \in SUBSET Keys
  BY <1>1, DeliveredFields
<1>3. Taken(sched, sched', st, reg, reg')
  <2>1. sched \in Schedulers /\ reg \in Registries /\ reg' \in Registries
    BY DEF TypeOK
  <2>2. PICK q \in Registries : q = reg'
    BY <2>1
  <2>3. Taken(sched, Apply(sched, st, reg, q), st, reg, q)
    BY <2>1, <1>2, InvTidy, ApplyRow
  <2>. QED
    BY <2>2, <2>3, <1>1
<1>4. /\ Todo' \subseteq Todo /\ Todo \subseteq Todo' \cup {st}
      /\ \A q \in Callers : q # p => calls'[q] = calls[q]
  BY <1>1, TailTodo
<1>5. ListKept
  BY ListStays
<1>6. ASSUME NEW id \in Ids, id = st.id
      PROVE  Moves(id, ShardsOf(st))
  <2>1. RowMove(sched, sched', id, Known(id), Due(id), ShardsOf(st))
    BY <1>2, <1>3, <1>6 DEF Taken, RowMove, GensMove, MetaMove
  <2>2. RegMove(sched, sched', id, reg, reg') /\ Absorbed(sched', st)
    BY <1>3, <1>6 DEF Taken
  <2>. QED
    BY <2>1, <2>2, <1>1, <1>4, <1>5 DEF Moves, RegKept, ListKept
<1>7. ASSUME NEW id \in Ids, id # st.id
      PROVE  Moves(id, {})
  <2>1. SameRow(sched, sched', id) /\ Absorbed(sched', st)
    BY <1>3, <1>7 DEF Taken
  <2>2. RowMove(sched, sched', id, Known(id), Due(id), {}) /\ RegMove(sched, sched', id, reg, reg')
    BY <2>1 DEF SameRow, RowMove, GensMove, MetaMove, EntryMove, EntryKept, RegMove
  <2>. QED
    BY <2>1, <2>2, <1>1, <1>4, <1>5, <1>7 DEF Moves, RegKept, ListKept
<1>. QED
  BY <1>1, <1>2, <1>3, <1>6, <1>7

LEMMA EnsureMoves ==
  ASSUME TypeOK, NEW k \in Picked, EnsureModel(k), NEW id \in Ids
  PROVE  Moves(id, {})
<1>1. /\ sched'.metas = sched.metas
      /\ RowMove(sched, sched', id, {}, {}, {})
  BY EnsureRow
<1>2. /\ UNCHANGED <<auths, authEpochs, reg, syncer, calls>>
  BY DEF EnsureModel
<1>3. Todo' = Todo /\ ListKept
  BY <1>2, ListStays DEF Todo
<1>4. RowMove(sched, sched', id, Known(id), Due(id), {}) /\ RegMove(sched, sched', id, reg, reg')
  BY <1>1 DEF RowMove, GensMove, MetaMove, RegMove
<1>. QED
  BY <1>2, <1>3, <1>4 DEF Moves, ListKept

LEMMA RebuildMoves ==
  ASSUME TypeOK, \A id \in Ids : CredentialInv(id), Rebuild
  PROVE  /\ sched' \in Schedulers
         /\ \A id \in Ids : Moves(id, {})
<1>1. /\ syncer.pc = "rebuild"
      /\ sched' = rebuild(sched, syncer.list, reg, reg)
      /\ syncer' = [syncer EXCEPT !.pc = "verify", !.list = None]
      /\ UNCHANGED <<auths, authEpochs, reg, calls>>
  BY DEF Rebuild
<1>2. sched \in Schedulers /\ syncer.list \in Maps /\ reg \in Registries /\ syncer \in Syncers
  BY <1>1 DEF TypeOK
<1>3. PICK list \in Maps : list = syncer.list
  BY <1>2
<1>4. ASSUME NEW id \in Ids
      PROVE  Filed(sched, list, id)
  <2>1. list[id] # None => list[id] \in Known(id)
    BY <1>1, <1>3, KnownIs
  <2>2. sched.metas[id] # None => sched.metas[id].snap \in Known(id)
    BY KnownIs
  <2>. QED
    BY <2>1, <2>2 DEF Filed, CredentialInv, KnownInv, Sound, IndexInv, MetaInv
<1>5. rebuild(sched, list, reg, reg) \in Schedulers
  BY <1>2, <1>4, RebuildFields
<1>6. ASSUME NEW id \in Ids
      PROVE  Moves(id, {})
  <2>1. Rebuilt(sched, rebuild(sched, list, reg, reg), list, id, reg, reg)
    BY <1>2, <1>4, RebuildRow
  <2>2. Rebuilt(sched, sched', list, id, reg, reg')
    BY <2>1, <1>1, <1>3
  <2>3. Adoptable(sched, list, id) \subseteq Known(id)
    BY <1>1, <1>3, KnownIs DEF Adoptable
  <2>4. RowMove(sched, sched', id, Known(id), Due(id), {}) /\ RegMove(sched, sched', id, reg, reg')
    BY <2>2, <2>3 DEF Rebuilt, RowMove, GensMove, MetaMove
  <2>5. syncer'.pc = "verify"
    BY <1>1, <1>2 DEF Syncers
  <2>6. Todo' = Todo
    BY <1>1 DEF Todo
  <2>. QED
    BY <2>4, <2>5, <2>6, <1>1 DEF Moves
<1>. QED
  BY <1>1, <1>3, <1>5, <1>6

\* A delivery leaves a credential in sync while no version bump is due: a
\* disabled snapshot of it is stale by then and a tombstone of it is older.
LEMMA DeliverySync ==
  ASSUME TypeOK, TypeOK', \A id \in Ids : CredentialInv(id), NEW st,
         st \in Snapshots \cup Tombstones, st.id \in Ids,
         SnapsOf(st) \subseteq Known(st.id), EpochsOf(st) \subseteq Due(st.id),
         Taken(sched, sched', st, reg, reg), ~BumpDue,
         UNCHANGED <<auths, authEpochs, reg>>,
         \A id \in Ids : CredentialInv(id)',
         NEW id \in Schedulable(auths), InSync(id)
  PROVE  InSync(id)'
<1>1. id \in Ids /\ auths[id] # None /\ auths[id].enabled
  BY DEF Schedulable
<1>2. CASE id # st.id
  <2>1. SameRow(sched, sched', id)
    BY <1>1, <1>2 DEF Taken
  <2>. QED
    BY <2>1 DEF InSync, SameRow
<1>3. CASE id = st.id
  <2>1. /\ MetaKept(sched, sched', id, SnapsOf(st), EpochsOf(st))
        /\ RegMove(sched, sched', id, reg, reg)
        /\ GensMove(sched, sched', id, SnapsOf(st), EpochsOf(st))
    BY <1>3 DEF Taken, RowMove
  <2> DEFINE g == sched.gens[id]
  <2>2. /\ g # None /\ g.epoch = authEpochs[id] /\ g.epoch \in Nat /\ g.gen \in Nat
        /\ sched.metas[id] # None
        /\ sched.metas[id].regEpoch = reg[id].epoch
        /\ auths[id].epoch = authEpochs[id]
    BY <1>1, IdTyped DEF InSync, CredentialInv, KnownInv, Current
  <2>3. ASSUME NEW a \in SnapsOf(st), ~a.enabled, ~isStaleScheduledAuth(sched, a)
        PROVE  FALSE
    <3>1. a \in Known(id) /\ a \in Auth /\ a.id = id /\ a.epoch \in Nat /\ a.epoch <= authEpochs[id]
      BY <1>1, <1>3, <2>3, AuthFields DEF CredentialInv, KnownInv, Sound
    <3>2. Current(id, a)
      BY <2>2, <2>3, <3>1 DEF isStaleScheduledAuth, Current
    <3>3. PICK p \in Callers : Newer(p, id, a)
      BY <1>1, <2>3, <3>1, <3>2 DEF CredentialInv, DueInv, EnabledInv
    <3>4. calls[p][2] \in Todo /\ calls[p][2].do = "bump"
      <4>1. 2 \in 1..Len(calls[p])
        BY <3>3 DEF Newer
      <4>. QED
        BY <3>3, <4>1, TodoIs DEF Newer
    <3>. QED
      BY <3>4 DEF BumpDue
  <2>4. ASSUME NEW e \in EpochsOf(st), Buried(sched, sched', id, e)
        PROVE  FALSE
    <3>1. e \in Due(id) /\ TombInv(id)
      BY <1>1, <1>3, <2>4 DEF CredentialInv, DueInv
    <3>2. e \in Nat /\ e <= authEpochs[id] /\ e # authEpochs[id]
      BY <1>1, <3>1, MovesTomb
    <3>. QED
      BY <2>2, <2>4, <3>2, <1>1, IdTyped DEF Buried
  <2>5. sched'.metas[id] # None
    BY <2>1, <2>2, <2>3, <2>4 DEF MetaKept
  <2>6. sched'.metas[id].regEpoch = reg[id].epoch
    BY <2>1, <2>2, <2>5 DEF RegMove
  <2>7. sched'.gens[id] # None /\ sched'.gens[id].epoch = authEpochs[id]
    <3>1. CASE sched'.gens[id] = g
      BY <3>1, <2>2
    <3>2. ASSUME NEW a \in SnapsOf(st), Adopts(sched, sched', id, a)
          PROVE  sched'.gens[id] # None /\ sched'.gens[id].epoch = authEpochs[id]
      <4>1. a \in Auth /\ a.id = id /\ a.epoch \in Nat /\ a.epoch <= authEpochs[id]
        BY <1>1, <1>3, <3>2, AuthFields DEF CredentialInv, KnownInv, Sound
      <4>2. a.epoch = authEpochs[id]
        BY <2>2, <3>2, <4>1 DEF Adopts, isStaleScheduledAuth
      <4>. QED
        BY <3>2, <4>1, <4>2, AuthFields, NoneIsNone DEF Adopts, Version
    <3>. QED
      BY <2>1, <2>4, <3>1, <3>2 DEF GensMove
  <2>. QED
    BY <2>2, <2>5, <2>6, <2>7 DEF InSync
<1>. QED
  BY <1>2, <1>3

LEMMA DeliverStep ==
  ASSUME IInv, NEW p \in Callers, Deliver(p)
  PROVE  IInv'
<1>1. TypeOK /\ SyncInv /\ \A id \in Ids : CredentialInv(id)
  BY DEF IInv
<1>2. /\ calls[p] # << >>
      /\ Head(calls[p]).do \in {"upsert", "result", "tombstone"}
      /\ sched' = Apply(sched, Head(calls[p]), reg, reg')
      /\ calls' = [calls EXCEPT ![p] = Tail(@)]
      /\ UNCHANGED <<auths, authEpochs, reg, version, syncedVersion, syncer, changes>>
  BY DEF Deliver
<1>3. reg' \in Registries /\ RegKept
  BY <1>1, <1>2 DEF TypeOK, RegKept
<1>4. /\ Taken(sched, sched', Head(calls[p]), reg, reg')
      /\ \A id \in Ids : \E R \in SUBSET Keys : Moves(id, R)
  BY <1>1, <1>2, <1>3, DeliveryMoves
<1>5. TypeOK'
  BY <1>1, <1>2, <1>4, TailTodo DEF TypeOK, Taken
<1>6. ASSUME NEW id \in Ids
      PROVE  CredentialInv(id)'
  BY <1>1, <1>4, <1>5, MovesStep
<1>7. SyncInv'
  <2>1. PICK st : st = Head(calls[p])
    OBVIOUS
  <2>2. /\ st \in Snapshots \cup Tombstones /\ st.id \in Ids
        /\ SnapsOf(st) \subseteq Known(st.id) /\ EpochsOf(st) \subseteq Due(st.id)
    BY <1>1, <1>2, <2>1, DeliveredFields
  <2>3. Taken(sched, sched', st, reg, reg)
    BY <1>2, <1>4, <2>1
  <2>4. BumpDue => BumpDue'
    BY <1>1, <1>2, TailTodo DEF BumpDue
  <2>5. ASSUME version = syncedVersion, ~BumpDue', NEW id \in Schedulable(auths)
        PROVE  InSync(id)'
    <3>1. InSync(id) /\ ~BumpDue
      BY <2>4, <2>5, <1>1 DEF SyncInv
    <3>. QED
      BY <3>1, <2>2, <2>3, <2>5, <1>1, <1>2, <1>5, <1>6, DeliverySync
  <2>. QED
    BY <2>5, <1>1, <1>2 DEF SyncInv, Schedulable
<1>. QED
  BY <1>5, <1>6, <1>7 DEF IInv

LEMMA RegisteredTyped ==
  ASSUME TypeOK, NEW id \in Ids, NEW S \in ModelSets, reg' = Registered(id, S)
  PROVE  reg' \in Registries /\ RegKept
<1>1. reg \in Registries /\ S \subseteq Models
  BY ModelSetsAssumption DEF TypeOK
<1>2. /\ reg' = [reg EXCEPT ![id] = [models |-> S, epoch |-> reg[id].epoch + 1]]
      /\ reg[id].epoch \in Nat
  BY <1>1 DEF Registered, Registries
<1>. QED
  BY <1>1, <1>2 DEF Registries, RegKept

LEMMA DeliverAcrossRegisterStep ==
  ASSUME IInv, NEW p \in Callers, NEW S \in ModelSets, DeliverAcrossRegister(p, S)
  PROVE  IInv'
<1>1. TypeOK /\ SyncInv /\ \A id \in Ids : CredentialInv(id)
  BY DEF IInv
<1>2. /\ calls[p] # << >>
      /\ Head(calls[p]).do \in {"upsert", "result"}
      /\ reg' = Registered(Head(calls[p]).id, S)
      /\ sched' = Apply(sched, Head(calls[p]), reg, reg')
      /\ calls' = [calls EXCEPT ![p] = Tail(@)]
      /\ version' = version + 1
      /\ changes' = changes + 1
      /\ UNCHANGED <<auths, authEpochs, syncedVersion, syncer>>
  BY DEF DeliverAcrossRegister
<1>3. Head(calls[p]).id \in Ids
  BY <1>1, <1>2, DeliveredFields
<1>4. reg' \in Registries /\ RegKept
  BY <1>1, <1>2, <1>3, RegisteredTyped
<1>5. /\ Taken(sched, sched', Head(calls[p]), reg, reg')
      /\ \A id \in Ids : \E R \in SUBSET Keys : Moves(id, R)
  BY <1>1, <1>2, <1>4, DeliveryMoves
<1>6. TypeOK'
  BY <1>1, <1>2, <1>4, <1>5, TailTodo DEF TypeOK, Taken
<1>7. ASSUME NEW id \in Ids
      PROVE  CredentialInv(id)'
  BY <1>1, <1>5, <1>6, MovesStep
<1>8. SyncInv'
  <2>1. syncer.ver \in Nat /\ version \in Nat /\ syncedVersion \in Nat
    BY <1>1 DEF TypeOK, Syncers
  <2>. QED
    BY <2>1, <1>1, <1>2 DEF SyncInv
<1>. QED
  BY <1>6, <1>7, <1>8 DEF IInv

\* What a step that leaves the index alone does to the credentials.
LEMMA QuietStep ==
  ASSUME IInv, TypeOK', UNCHANGED <<auths, authEpochs, sched>>, RegKept, ListKept,
         UNCHANGED calls \/ \E p \in Callers : Quiet(p)
  PROVE  \A id \in Ids : CredentialInv(id)'
<1>1. TypeOK /\ \A id \in Ids : CredentialInv(id)
  BY DEF IInv
<1>2. ASSUME NEW id \in Ids
      PROVE  CredentialInv(id)'
  <2>1. Moves(id, {}) /\ {} \in SUBSET Keys
    BY <1>1, QuietMoves
  <2>. QED
    BY <1>1, <2>1, MovesStep
<1>. QED
  BY <1>2

LEMMA BumpStep ==
  ASSUME IInv, NEW p \in Callers, BumpVersion(p)
  PROVE  IInv'
<1>1. /\ calls[p] # << >>
      /\ Head(calls[p]).do = "bump"
      /\ version' = version + 1
      /\ calls' = [calls EXCEPT ![p] = Tail(@)]
      /\ UNCHANGED <<auths, authEpochs, reg, syncedVersion, sched, syncer, changes>>
  BY DEF BumpVersion
<1>2. TypeOK /\ SyncInv
  BY DEF IInv
<1>3. TypeOK'
  BY <1>1, <1>2, TailTodo DEF TypeOK
<1>4. Quiet(p) /\ RegKept /\ ListKept
  BY <1>1, <1>2, ListStays DEF Quiet, RegKept
<1>5. \A id \in Ids : CredentialInv(id)'
  BY <1>1, <1>3, <1>4, QuietStep
<1>6. SyncInv'
  <2>1. syncer.ver \in Nat /\ version \in Nat /\ syncedVersion \in Nat
    BY <1>2 DEF TypeOK, Syncers
  <2>. QED
    BY <2>1, <1>1, <1>2 DEF SyncInv
<1>. QED
  BY <1>3, <1>5, <1>6 DEF IInv

LEMMA RegisterClientStep ==
  ASSUME IInv, NEW id \in Ids, NEW S \in ModelSets, RegisterClient(id, S)
  PROVE  IInv'
<1>1. /\ reg' = Registered(id, S)
      /\ version' = version + 1
      /\ changes' = changes + 1
      /\ UNCHANGED <<auths, authEpochs, syncedVersion, sched, syncer, calls>>
  BY DEF RegisterClient
<1>2. TypeOK /\ SyncInv
  BY DEF IInv
<1>3. reg' \in Registries /\ RegKept /\ ListKept
  BY <1>1, <1>2, RegisteredTyped, ListStays
<1>4. TypeOK'
  BY <1>1, <1>2, <1>3 DEF TypeOK
<1>5. \A j \in Ids : CredentialInv(j)'
  BY <1>1, <1>3, <1>4, QuietStep
<1>6. SyncInv'
  <2>1. syncer.ver \in Nat /\ version \in Nat /\ syncedVersion \in Nat
    BY <1>2 DEF TypeOK, Syncers
  <2>. QED
    BY <2>1, <1>1, <1>2 DEF SyncInv
<1>. QED
  BY <1>4, <1>5, <1>6 DEF IInv

\* The syncer starts with the version it has read.
LEMMA StartFields ==
  ASSUME TypeOK, SyncInv, StartSync
  PROVE  /\ syncer' \in Syncers
         /\ syncer'.pc = "check" /\ syncer'.ver = version
         /\ syncedVersion < version
<1>1. version \in Nat /\ syncedVersion \in Nat
  BY DEF TypeOK
<1>2. syncer' = [pc |-> "check", ver |-> version, list |-> None]
  BY DEF StartSync
<1>. QED
  BY <1>1, <1>2 DEF StartSync, SyncInv, Syncers

LEMMA LoadSyncsStep ==
  ASSUME IInv, NEW p \in Callers, LoadSyncs(p)
  PROVE  IInv'
<1>1. /\ calls[p] # << >>
      /\ Head(calls[p]).do = "sync"
      /\ StartSync \/ syncer' = syncer
      /\ calls' = [calls EXCEPT ![p] = Tail(@)]
      /\ UNCHANGED <<auths, authEpochs, reg, version, syncedVersion, sched, changes>>
  BY DEF LoadSyncs
<1>2. TypeOK /\ SyncInv
  BY DEF IInv
<1>3. StartSync => syncer' \in Syncers /\ syncer'.pc = "check" /\ syncer'.ver = version
                   /\ syncedVersion < version
  BY <1>2, StartFields
<1>4. TypeOK'
  BY <1>1, <1>2, <1>3, TailTodo DEF TypeOK
<1>5. Quiet(p) /\ RegKept /\ ListKept
  BY <1>1, <1>2, <1>3, ListStays DEF Quiet, RegKept, ListKept
<1>6. \A id \in Ids : CredentialInv(id)'
  BY <1>1, <1>4, <1>5, QuietStep
<1>7. SyncInv'
  <2>1. syncer.ver \in Nat /\ version \in Nat /\ syncedVersion \in Nat
    BY <1>2 DEF TypeOK, Syncers
  <2>2. BumpDue => BumpDue'
    BY <1>1, <1>2, TailTodo DEF BumpDue
  <2>3. \A id \in Ids : InSync(id)' <=> InSync(id)
    BY <1>1 DEF InSync
  <2>. QED
    BY <2>1, <2>2, <2>3, <1>1, <1>2, <1>3 DEF SyncInv, Schedulable
<1>. QED
  BY <1>4, <1>6, <1>7 DEF IInv

\* The steps of the syncer that leave the index and the version alone.
LEMMA SyncerStep ==
  ASSUME IInv, syncer' \in Syncers,
         UNCHANGED <<auths, authEpochs, reg, version, syncedVersion, sched, calls, changes>>,
         syncer'.pc = "rebuild" => syncer'.list = auths,
         syncer'.pc # "idle" => syncedVersion < syncer'.ver /\ syncer'.ver <= version
  PROVE  IInv'
<1>1. TypeOK /\ SyncInv
  BY DEF IInv
<1>2. TypeOK'
  BY <1>1 DEF TypeOK
<1>3. RegKept /\ ListKept
  BY KnownIs DEF RegKept, ListKept
<1>4. \A id \in Ids : CredentialInv(id)'
  BY <1>2, <1>3, QuietStep
<1>5. SyncInv'
  <2>1. BumpDue' <=> BumpDue
    BY DEF BumpDue, Todo
  <2>2. \A id \in Ids : InSync(id)' <=> InSync(id)
    BY DEF InSync
  <2>. QED
    BY <2>1, <2>2, <1>1 DEF SyncInv, Schedulable
<1>. QED
  BY <1>2, <1>4, <1>5 DEF IInv

LEMMA PickMissesStep ==
  ASSUME IInv, NEW m \in Picked \cap Models, PickMisses(m)
  PROVE  IInv'
<1>1. TypeOK /\ SyncInv /\ version \in Nat
  BY DEF IInv, TypeOK
<1>2. /\ StartSync
      /\ UNCHANGED <<auths, authEpochs, reg, version, syncedVersion, sched, calls, changes>>
  BY DEF PickMisses
<1>. QED
  BY <1>1, <1>2, StartFields, SyncerStep

LEMMA TakeSnapshotStep ==
  ASSUME IInv, TakeSnapshot
  PROVE  IInv'
<1>1. /\ syncer.pc = "snapshot"
      /\ syncer' = [syncer EXCEPT !.pc = "rebuild", !.list = auths]
      /\ UNCHANGED <<auths, authEpochs, reg, version, syncedVersion, sched, calls, changes>>
  BY DEF TakeSnapshot
<1>2. syncer \in Syncers /\ auths \in Maps /\ SyncInv
  BY DEF IInv, TypeOK
<1>3. syncer' \in Syncers /\ syncer'.list = auths /\ syncer'.ver = syncer.ver
  BY <1>1, <1>2 DEF Syncers
<1>4. syncedVersion < syncer.ver /\ syncer.ver <= version
  BY <1>1, <1>2 DEF SyncInv
<1>. QED
  BY <1>1, <1>3, <1>4, SyncerStep

\* The version is marked synced only when the index is.
LEMMA SyncedStep ==
  ASSUME IInv, syncer.pc # "idle", ~needsSyncFromMap(sched), syncer' = Idle,
         syncedVersion' = Later(syncer.ver),
         UNCHANGED <<auths, authEpochs, reg, version, sched, calls, changes>>
  PROVE  IInv'
<1>1. TypeOK /\ SyncInv
  BY DEF IInv
<1>2. /\ syncedVersion \in Nat /\ syncer.ver \in Nat /\ version \in Nat
      /\ syncedVersion < syncer.ver /\ syncer.ver <= version
  BY <1>1 DEF TypeOK, SyncInv, Syncers
<1>3. syncedVersion' = syncer.ver
  BY <1>2 DEF Later
<1>4. syncer' \in Syncers /\ syncer'.pc = "idle"
  BY DEF Idle, Syncers
<1>5. TypeOK'
  BY <1>1, <1>2, <1>3, <1>4 DEF TypeOK
<1>6. RegKept /\ ListKept
  BY <1>4 DEF RegKept, ListKept
<1>7. \A id \in Ids : CredentialInv(id)'
  BY <1>5, <1>6, QuietStep
<1>8. \A id \in Schedulable(auths) : InSync(id)
  BY DEF needsSyncFromMap, InSync
<1>9. \A id \in Ids : InSync(id)' <=> InSync(id)
  BY DEF InSync
<1>10. SyncInv'
  BY <1>2, <1>3, <1>4, <1>8, <1>9 DEF SyncInv, Schedulable
<1>. QED
  BY <1>5, <1>7, <1>10 DEF IInv

LEMMA CheckSyncStep ==
  ASSUME IInv, CheckSync
  PROVE  IInv'
<1>1. syncer \in Syncers /\ SyncInv /\ syncer.pc = "check"
  BY DEF IInv, TypeOK, CheckSync
<1>2. CASE needsSyncFromMap(sched)
  <2>1. /\ syncer' = [syncer EXCEPT !.pc = "snapshot"]
        /\ UNCHANGED <<auths, authEpochs, reg, version, syncedVersion, sched, calls, changes>>
    BY <1>2 DEF CheckSync
  <2>2. syncer' \in Syncers /\ syncer'.pc = "snapshot" /\ syncer'.ver = syncer.ver
    BY <1>1, <2>1 DEF Syncers
  <2>3. syncedVersion < syncer.ver /\ syncer.ver <= version
    BY <1>1 DEF SyncInv
  <2>. QED
    BY <2>1, <2>2, <2>3, SyncerStep
<1>3. CASE ~needsSyncFromMap(sched)
  <2>1. /\ syncer' = Idle
        /\ syncedVersion' = Later(syncer.ver)
        /\ UNCHANGED <<auths, authEpochs, reg, version, sched, calls, changes>>
    BY <1>3 DEF CheckSync
  <2>. QED
    BY <1>1, <1>3, <2>1, SyncedStep
<1>. QED
  BY <1>2, <1>3

LEMMA VerifySyncStep ==
  ASSUME IInv, VerifySync
  PROVE  IInv'
<1>1. /\ syncer.pc = "verify" /\ syncer' = Idle
      /\ UNCHANGED <<auths, authEpochs, reg, version, sched, calls, changes>>
  BY DEF VerifySync
<1>2. CASE needsSyncFromMap(sched)
  <2>1. syncedVersion' = syncedVersion /\ syncer' \in Syncers /\ syncer'.pc = "idle"
    BY <1>1, <1>2 DEF VerifySync, Idle, Syncers
  <2>. QED
    BY <1>1, <2>1, SyncerStep
<1>3. CASE ~needsSyncFromMap(sched)
  <2>1. syncedVersion' = Later(syncer.ver)
    BY <1>3 DEF VerifySync
  <2>. QED
    BY <1>1, <1>3, <2>1, SyncedStep
<1>. QED
  BY <1>2, <1>3

LEMMA RebuildStep ==
  ASSUME IInv, Rebuild
  PROVE  IInv'
<1>1. TypeOK /\ SyncInv /\ \A id \in Ids : CredentialInv(id)
  BY DEF IInv
<1>2. /\ syncer.pc = "rebuild"
      /\ syncer' = [syncer EXCEPT !.pc = "verify", !.list = None]
      /\ UNCHANGED <<auths, authEpochs, reg, version, syncedVersion, calls, changes>>
  BY DEF Rebuild
<1>3. syncer' \in Syncers /\ syncer'.pc = "verify" /\ syncer'.ver = syncer.ver
  BY <1>1, <1>2 DEF TypeOK, Syncers
<1>4. sched' \in Schedulers /\ \A id \in Ids : Moves(id, {})
  BY <1>1, RebuildMoves
<1>5. TypeOK'
  BY <1>1, <1>2, <1>3, <1>4 DEF TypeOK
<1>6. ASSUME NEW id \in Ids
      PROVE  CredentialInv(id)'
  <2>1. {} \in SUBSET Keys
    OBVIOUS
  <2>. QED
    BY <1>1, <1>4, <1>5, <2>1, MovesStep
<1>7. SyncInv'
  <2>1. syncer.ver \in Nat /\ version \in Nat /\ syncedVersion \in Nat
    BY <1>1 DEF TypeOK, Syncers
  <2>2. syncedVersion < syncer.ver /\ syncer.ver <= version
    BY <1>1, <1>2 DEF SyncInv
  <2>. QED
    BY <2>1, <2>2, <1>1, <1>2, <1>3 DEF SyncInv
<1>. QED
  BY <1>5, <1>6, <1>7 DEF IInv

LEMMA EnsureModelStep ==
  ASSUME IInv, NEW k \in Picked, EnsureModel(k)
  PROVE  IInv'
<1>1. TypeOK /\ SyncInv /\ \A id \in Ids : CredentialInv(id)
  BY DEF IInv
<1>2. UNCHANGED <<auths, authEpochs, reg, version, syncedVersion, syncer, calls, changes>>
  BY DEF EnsureModel
<1>3. sched' \in Schedulers /\ sched'.gens = sched.gens /\ sched'.metas = sched.metas
  BY <1>1, EnsureRow
<1>4. TypeOK'
  BY <1>1, <1>2, <1>3 DEF TypeOK
<1>5. ASSUME NEW id \in Ids
      PROVE  CredentialInv(id)'
  <2>1. Moves(id, {}) /\ {} \in SUBSET Keys
    BY <1>1, EnsureMoves
  <2>. QED
    BY <1>1, <1>4, <2>1, MovesStep
<1>6. SyncInv'
  <2>1. BumpDue' <=> BumpDue
    BY <1>2 DEF BumpDue, Todo
  <2>2. \A id \in Ids : InSync(id)' <=> InSync(id)
    BY <1>2, <1>3 DEF InSync
  <2>. QED
    BY <2>1, <2>2, <1>1, <1>2 DEF SyncInv, Schedulable
<1>. QED
  BY <1>4, <1>5, <1>6 DEF IInv

-----------------------------------------------------------------------------
(***************************************************************************)
(* A refresh, which schedules the credential under the manager's lock      *)
(***************************************************************************)
\* The new state a is published and scheduled in one step.
Refreshed(id, a) ==
  /\ auths[id] # None
  /\ a \in Auth /\ a # None /\ a.id = id
  /\ a.epoch = auths[id].epoch /\ a.gen = auths[id].gen + 1 /\ a.edit = a.gen
  /\ a.enabled = auths[id].enabled
  /\ a.blocked \subseteq a.states
  /\ auths' = [auths EXCEPT ![id] = a] /\ auths'[id] = a
  /\ sched' = upsertAuthLifecycle(sched, a, reg, reg)
  /\ changes' = changes + 1
  /\ UNCHANGED <<authEpochs, reg, version, syncedVersion, syncer, calls>>

LEMMA RefreshWriteFields ==
  ASSUME TypeOK, NEW id \in Ids, KnownInv(id), RefreshWrite(id)
  PROVE  \E a \in Auth : Refreshed(id, a)
<1>1. PICK old \in Auth : old = auths[id]
  BY PublishedFields DEF RefreshWrite
<1>2. auths[id] # None /\ old.id = id /\ old.blocked \subseteq old.states
  BY <1>1, PublishedFields DEF RefreshWrite
<1>3. PICK g \in Nat : g = old.gen + 1
  BY AuthFields
<1>4. PICK a : a = [old EXCEPT !.gen = g, !.edit = g, !.hard = TRUE, !.down = TRUE]
  OBVIOUS
<1>5. a \in Auth
  BY <1>4 DEF Auth
<1>6. /\ a.id = old.id /\ a.epoch = old.epoch /\ a.gen = g /\ a.edit = g
      /\ a.enabled = old.enabled /\ a.states = old.states /\ a.blocked = old.blocked
  BY <1>4 DEF Auth
<1>7. a = [auths[id] EXCEPT !.gen = @ + 1, !.edit = auths[id].gen + 1,
                            !.hard = TRUE, !.down = TRUE]
  BY <1>1, <1>3, <1>4
<1>8. /\ Publish(a)
      /\ sched' = upsertAuthLifecycle(sched, a, reg, reg)
      /\ changes' = changes + 1
      /\ UNCHANGED <<reg, version, syncedVersion, syncer, calls>>
  BY <1>7 DEF RefreshWrite
<1>9. auths' = [auths EXCEPT ![id] = a] /\ authEpochs' = authEpochs /\ auths'[id] = a
  BY <1>2, <1>6, <1>8 DEF Publish, TypeOK, Maps
<1>. QED
  BY <1>1, <1>2, <1>3, <1>5, <1>6, <1>8, <1>9, NoneIsNone DEF Refreshed

\* What the scheduler then holds of the credential.
RowRefreshed(id, a) ==
  /\ sched' \in Schedulers
  /\ sched'.gens[id] = Version(a)
  /\ RowMove(sched, sched', id, {a}, {}, {})
  /\ RegMove(sched, sched', id, reg, reg)
  /\ MetaKept(sched, sched', id, {a}, {})
  /\ sched'.gens[id] # sched.gens[id]
  /\ \A j \in Ids \ {id} : SameRow(sched, sched', j)

LEMMA RefreshedRow ==
  ASSUME TypeOK, NEW id \in Ids, CredentialInv(id), NEW a \in Auth, Refreshed(id, a)
  PROVE  RowRefreshed(id, a)
<1>1. /\ sched \in Schedulers /\ reg \in Registries /\ a.id = id
      /\ sched' = upsertAuthLifecycle(sched, a, reg, reg)
  BY DEF TypeOK, Refreshed
<1>2. /\ sched' \in Schedulers
      /\ RowMove(sched, sched', id, {a}, {}, {})
      /\ RegMove(sched, sched', id, reg, reg)
      /\ MetaKept(sched, sched', id, {a}, {})
      /\ Reached(sched', id, a)
      /\ \A j \in Ids \ {id} : SameRow(sched, sched', j)
  BY <1>1, LifecycleRow
<1>3. ~Reached(sched, id, a)
  <2>1. /\ a.epoch = authEpochs[id] /\ a.gen = auths[id].gen + 1
        /\ auths[id] # None /\ auths[id].gen \in Nat /\ authEpochs[id] \in Nat
    BY PublishedFields, IdTyped DEF CredentialInv, KnownInv, Refreshed, Current
  <2>. QED
    BY <2>1, IdTyped DEF Reached, CredentialInv, IndexInv, GensInv
<1>4. sched'.gens[id] # sched.gens[id]
  BY <1>2, <1>3 DEF Reached
<1>5. sched'.gens[id] = Version(a)
  BY <1>2, <1>4 DEF RowMove, GensMove, Adopts
<1>. QED
  BY <1>2, <1>4, <1>5 DEF RowRefreshed

LEMMA RefreshedStep ==
  ASSUME TypeOK, TypeOK', NEW id \in Ids, CredentialInv(id), NEW a \in Auth, Refreshed(id, a),
         RowRefreshed(id, a)
  PROVE  CredentialInv(id)'
<1> DEFINE old == auths[id]
<1>1. /\ authEpochs' = authEpochs /\ reg' = reg /\ syncer' = syncer /\ calls' = calls
      /\ auths'[id] = a /\ Todo' = Todo
      /\ a # None /\ a.id = id /\ a.epoch = old.epoch /\ a.gen = old.gen + 1 /\ a.edit = a.gen
      /\ a.blocked \subseteq a.states /\ old # None /\ a.enabled = old.enabled
  BY DEF Refreshed, Todo
<1>2. /\ sched' \in Schedulers /\ sched'.gens[id] = Version(a) /\ sched'.gens[id] # sched.gens[id]
      /\ MetaMove(sched, sched', id, {a})
      /\ \A k \in Keys : EntryMove(sched, sched', id, k, {})
      /\ RegMove(sched, sched', id, reg, reg)
  BY DEF RowRefreshed, RowMove
<1>3. /\ old \in Known(id) /\ Sound(id, old) /\ Current(id, old) /\ old \in Auth
      /\ old.gen \in Nat /\ a.gen \in Nat /\ old.gen < a.gen /\ a.epoch = authEpochs[id]
      /\ authEpochs[id] \in Nat
  <2>1. old \in Known(id)
    BY <1>1, KnownIs
  <2>2. Sound(id, old) /\ Current(id, old)
    BY <1>1, <2>1 DEF CredentialInv, KnownInv
  <2>3. old \in Auth /\ old.gen \in Nat
    BY <2>2, AuthFields DEF Sound
  <2>. QED
    BY <2>1, <2>2, <2>3, <1>1, IdTyped DEF Current
<1>. HIDE DEF old
<1>4. sched'.metas[id] = None \/ (sched'.metas[id].snap = a /\ a.enabled)
  BY <1>2 DEF MetaMove
<1>5. ASSUME NEW b \in Known(id)'
      PROVE  b = a \/ (b \in Known(id) /\ Sound(id, b) /\ b.gen \in Nat
                       /\ (Current(id, b) => b.gen <= old.gen))
  <2>1. b \in Known(id) \/ b = a
    BY <1>1, <1>4, KnownIs, KnownIsNext
  <2>2. CASE b \in Known(id)
    <3>1. Sound(id, b)
      BY <2>2 DEF CredentialInv, KnownInv
    <3>. QED
      BY <2>2, <3>1, AuthFields DEF Sound, old
  <2>. QED
    BY <2>1, <2>2
<1>6. KnownInv(id)'
  <2>1. ASSUME NEW b \in Known(id)'
        PROVE  Sound(id, b)'
    <3>1. CASE b = a
      <4>1. Sound(id, a)'
        BY <1>1, <1>3 DEF Sound, Current
      <4>. QED
        BY <3>1, <4>1
    <3>2. CASE b # a
      <4>1. Sound(id, b) /\ b.gen \in Nat /\ (Current(id, b) => b.gen < a.gen)
        BY <1>3, <1>5, <2>1, <3>2
      <4>. QED
        BY <4>1, <1>1, <1>3 DEF Sound, Current
    <3>. QED
      BY <3>1, <3>2
  <2>. QED
    BY <2>1, <1>1, <1>3 DEF KnownInv, Current
<1>7. Version(a) # None /\ Version(a).epoch = a.epoch /\ Version(a).gen = a.gen
  BY AuthFields, NoneIsNone DEF Version
<1>8. ASSUME NEW e \in Auth, Reached(sched, id, e)
      PROVE  Reached(sched', id, e) /\ (Current(id, e) => e.gen <= old.gen)
  <2> DEFINE g == sched.gens[id]
  <2>1. /\ g # None /\ g.epoch \in Nat /\ g.gen \in Nat /\ e.epoch \in Nat /\ e.gen \in Nat
        /\ g.epoch <= authEpochs[id]
        /\ g.epoch = authEpochs[id] => g.gen <= old.gen
    BY <1>1, <1>8, IdTyped, AuthFields DEF Reached, CredentialInv, IndexInv, GensInv, old
  <2>2. g.epoch > e.epoch \/ (g.epoch = e.epoch /\ g.gen >= e.gen)
    BY <1>8 DEF Reached
  <2>. HIDE DEF g
  <2>. QED
    BY <2>1, <2>2, <1>2, <1>3, <1>7 DEF Reached, Current
<1>9. IndexInv(id)'
  <2>1. GensInv(id)'
    BY <1>1, <1>2, <1>3, <1>7 DEF GensInv
  <2>2. MetaInv(id)'
    BY <1>2, <1>4 DEF MetaInv
  <2>3. RegInv(id)'
    <3>1. RegInv(id) /\ reg[id].epoch \in Nat
      BY IdTyped DEF CredentialInv, IndexInv
    <3>. QED
      BY <3>1, <1>1, <1>2 DEF RegInv, RegMove
  <2>4. ASSUME NEW k \in Keys, Entry(sched', id, k) # None
        PROVE  /\ sched'.metas[id] # None
               /\ Entry(sched', id, k) \in Auth
               /\ Entry(sched', id, k).blocked \subseteq Entry(sched', id, k).states
               /\ Reached(sched', id, Entry(sched', id, k))
               /\ IF k = AnyModel THEN Entry(sched', id, k) = sched'.metas[id].snap
                  ELSE k \in sched'.metas[id].models
               /\ isCredentialBlocked(Entry(sched', id, k), sched'.metas[id].models)
                    <=> isCredentialBlocked(sched'.metas[id].snap, sched'.metas[id].models)
    <3>1. CASE /\ sched'.metas[id] # None
               /\ Entry(sched', id, k) = sched'.metas[id].snap
               /\ supportsModel(sched'.metas[id], k)
      <4>1. Reached(sched', id, a)
        BY <1>1, <1>2, RecordedReached
      <4>. QED
        BY <3>1, <4>1, <1>1, <1>4 DEF supportsModel
    <3>2. CASE EntryKept(sched, sched', id, k, {})
      <4>1. PICK e : e = Entry(sched, id, k)
        OBVIOUS
      <4>2. e # None /\ Entry(sched', id, k) = e
        BY <2>4, <3>2, <4>1 DEF EntryKept
      <4>3. /\ sched.metas[id] # None /\ e \in Auth /\ e.blocked \subseteq e.states
            /\ Reached(sched, id, e)
            /\ IF k = AnyModel THEN e = sched.metas[id].snap ELSE k \in sched.metas[id].models
            /\ isCredentialBlocked(e, sched.metas[id].models)
                 <=> isCredentialBlocked(sched.metas[id].snap, sched.metas[id].models)
        BY <4>1, <4>2 DEF CredentialInv, IndexInv, EntryInv
      <4>4. /\ k # AnyModel
            /\ sched'.metas[id] # None
            /\ sched'.metas[id].models = sched.metas[id].models
            /\ isCredentialBlocked(sched.metas[id].snap, sched.metas[id].models)
                 <=> isCredentialBlocked(sched'.metas[id].snap, sched.metas[id].models)
        BY <3>2, <1>2 DEF EntryKept
      <4>5. Reached(sched', id, e)
        BY <4>3, <1>8
      <4>. QED
        BY <4>2, <4>3, <4>4, <4>5
    <3>. QED
      BY <2>4, <3>1, <3>2, <1>2 DEF EntryMove
  <2>5. EntryInv(id)'
    BY <2>4 DEF EntryInv
  <2>. QED
    BY <2>1, <2>2, <2>3, <2>5 DEF IndexInv
<1>10. TombInv(id)'
  BY <1>1 DEF CredentialInv, DueInv, TombInv, old
<1>11. LastInv(id)'
  BY <1>1, <1>2 DEF LastInv
<1>12. \A b \in Known(id)' : Current(id, b) /\ b # a => isStaleScheduledAuth(sched', b)
  <2>1. ASSUME NEW b \in Known(id)', Current(id, b), b # a
        PROVE  isStaleScheduledAuth(sched', b)
    <3>1. Sound(id, b) /\ b.gen \in Nat /\ b.gen < a.gen
      BY <2>1, <1>3, <1>5
    <3>2. b.id = id /\ b.epoch = a.epoch
      BY <2>1, <3>1, <1>3 DEF Sound, Current
    <3>. QED
      BY <3>1, <3>2, <1>2, <1>7 DEF isStaleScheduledAuth
  <2>. QED
    BY <2>1
<1>13. EnabledInv(id)'
  BY <1>1, <1>12 DEF EnabledInv, Current
<1>14. HistoryInv(id)'
  <2>1. ASSUME NEW k \in Models, NEW b \in Known(id)', Current(id, b),
               NEW c \in Known(id)', Current(id, c), ~isStaleScheduledAuth(sched', c)
        PROVE  Follows(id, k, c, b)'
    <3>1. c = a
      BY <2>1, <1>12
    <3>2. b = a \/ (b.gen \in Nat /\ b.gen < a.gen)
      BY <2>1, <1>3, <1>5
    <3>. QED
      BY <3>1, <3>2, <1>3 DEF Follows, SameFor
  <2>2. ASSUME NEW k \in Models, NEW b \in Known(id)', Current(id, b),
               NEW e, e = Entry(sched', id, k), e # None, Current(id, e)
        PROVE  Follows(id, k, e, b)'
    <3>0. k \in Keys
      BY DEF Keys
    <3>1. CASE sched'.metas[id] # None /\ e = sched'.metas[id].snap
      <4>1. e = a
        BY <3>1, <1>4
      <4>2. a \in Known(id)' /\ ~isStaleScheduledAuth(sched', a) /\ Current(id, a)
        BY <1>1, <1>2, <1>3, <1>7, KnownIsNext DEF isStaleScheduledAuth, Current
      <4>. QED
        BY <4>1, <4>2, <2>1, <2>2
    <3>2. CASE EntryKept(sched, sched', id, k, {})
      <4>1. e = Entry(sched, id, k)
        BY <2>2, <3>2 DEF EntryKept
      <4>2. e \in Auth /\ Reached(sched, id, e)
        BY <2>2, <3>0, <4>1 DEF CredentialInv, IndexInv, EntryInv
      <4>3. e.gen \in Nat /\ e.gen < a.gen
        BY <4>2, <2>2, <1>3, <1>8, AuthFields
      <4>4. CASE b = a
        BY <4>3, <4>4, <1>1, <1>3 DEF Follows
      <4>5. CASE b # a
        <5>1. b \in Known(id)
          BY <4>5, <1>5
        <5>2. Follows(id, k, e, b)
          BY <5>1, <4>1, <2>2 DEF CredentialInv, HistoryInv
        <5>. QED
          BY <5>2, <1>1 DEF Follows, Overtaken, Current
      <4>. QED
        BY <4>4, <4>5
    <3>. QED
      BY <3>0, <3>1, <3>2, <1>2, <2>2 DEF EntryMove
  <2>. QED
    BY <2>1, <2>2, <1>1 DEF HistoryInv, Current
<1>. QED
  BY <1>6, <1>9, <1>10, <1>11, <1>13, <1>14 DEF CredentialInv, DueInv

LEMMA RefreshWriteStep ==
  ASSUME IInv, NEW id \in Ids, RefreshWrite(id)
  PROVE  IInv'
<1>1. TypeOK /\ SyncInv /\ \A j \in Ids : CredentialInv(j)
  BY DEF IInv
<1>2. PICK a \in Auth : Refreshed(id, a)
  BY <1>1, RefreshWriteFields DEF CredentialInv
<1>3. RowRefreshed(id, a)
  BY <1>1, <1>2, RefreshedRow
<1>4. /\ auths' = [auths EXCEPT ![id] = a]
      /\ changes' = changes + 1
      /\ UNCHANGED <<authEpochs, reg, version, syncedVersion, syncer, calls>>
  BY <1>2 DEF Refreshed
<1>5. \A j \in Ids \ {id} : auths'[j] = auths[j] /\ SameRow(sched, sched', j)
  BY <1>1, <1>3, <1>4 DEF TypeOK, Maps, RowRefreshed
<1>6. TypeOK'
  BY <1>1, <1>3, <1>4 DEF TypeOK, Maps, RowRefreshed
<1>7. ASSUME NEW j \in Ids
      PROVE  CredentialInv(j)'
  <2>1. CASE j = id
    BY <2>1, <1>1, <1>2, <1>3, <1>6, RefreshedStep
  <2>2. CASE j # id
    <3>1. /\ auths'[j] = auths[j]
          /\ RowMove(sched, sched', j, Known(j), Due(j), {})
          /\ RegMove(sched, sched', j, reg, reg')
      BY <2>2, <1>5 DEF SameRow, RowMove, GensMove, MetaMove, EntryMove, EntryKept, RegMove
    <3>2. Todo' = Todo
      BY <1>4 DEF Todo
    <3>3. ListKept
      BY <1>1, <1>4, ListStays
    <3>4. Moves(j, {}) /\ {} \in SUBSET Keys
      BY <3>1, <3>2, <3>3, <1>4 DEF Moves, ListKept
    <3>. QED
      BY <3>4, <1>1, <1>6, MovesStep
  <2>. QED
    BY <2>1, <2>2
<1>8. SyncInv'
  <2>1. BumpDue' <=> BumpDue
    BY <1>4 DEF BumpDue, Todo
  <2>2. ASSUME NEW j \in Schedulable(auths'), version = syncedVersion, ~BumpDue
        PROVE  InSync(j)'
    <3>1. CASE j # id
      <4>1. j \in Schedulable(auths) /\ SameRow(sched, sched', j) /\ auths'[j] = auths[j]
        BY <2>2, <3>1, <1>5 DEF Schedulable
      <4>2. InSync(j)
        BY <4>1, <2>2, <1>1 DEF SyncInv
      <4>. QED
        BY <4>1, <4>2, <1>4 DEF InSync, SameRow
    <3>2. CASE j = id
      <4>1. id \in Schedulable(auths) /\ a.enabled /\ auths'[id] = a /\ a.epoch = auths[id].epoch
        BY <2>2, <3>2, <1>2 DEF Schedulable, Refreshed
      <4>2. InSync(id)
        BY <4>1, <2>2, <1>1 DEF SyncInv
      <4>3. sched'.metas[id] # None
        BY <4>1, <4>2, <1>3 DEF RowRefreshed, MetaKept, InSync
      <4>4. sched'.metas[id].regEpoch = reg[id].epoch
        BY <4>2, <4>3, <1>3 DEF RowRefreshed, RegMove, InSync
      <4>5. sched'.gens[id] # None /\ sched'.gens[id].epoch = a.epoch
        BY <1>3, AuthFields, NoneIsNone DEF RowRefreshed, Version
      <4>. QED
        BY <3>2, <4>1, <4>3, <4>4, <4>5, <1>4 DEF InSync
    <3>. QED
      BY <3>1, <3>2
  <2>. QED
    BY <2>1, <2>2, <1>1, <1>4 DEF SyncInv, Schedulable
<1>. QED
  BY <1>6, <1>7, <1>8 DEF IInv

-----------------------------------------------------------------------------
(***************************************************************************)
(* The invariant                                                           *)
(***************************************************************************)
\* What the start-up leaves: the credentials it registered, scheduled.
Started(id) ==
  /\ auths[id] = IF id \in Initially THEN Fresh(id, 1) ELSE None
  /\ authEpochs[id] = IF id \in Initially THEN 1 ELSE 0
  /\ reg[id] = [models |-> IF id \in Initially THEN Models ELSE {},
                epoch  |-> IF id \in Initially THEN 1 ELSE 0]
  /\ sched.gens[id] = IF id \in Initially THEN Version(auths[id]) ELSE None
  /\ sched.metas[id] = IF id \in Initially
                       THEN [snap |-> auths[id], models |-> reg[id].models,
                             regEpoch |-> reg[id].epoch]
                       ELSE None
  /\ \A k \in Keys : Entry(sched, id, k) = None

LEMMA StartIndex ==
  ASSUME Init
  PROVE  /\ TypeOK
         /\ Todo = {}
         /\ \A id \in Ids : Started(id)
<1> DEFINE s == [gens   |-> [id \in Ids |-> None],
                 metas  |-> [id \in Ids |-> None],
                 shards |-> [k \in Keys |-> None]]
<1>1. /\ auths = [id \in Ids |-> IF id \in Initially THEN Fresh(id, 1) ELSE None]
      /\ authEpochs = [id \in Ids |-> IF id \in Initially THEN 1 ELSE 0]
      /\ reg = [id \in Ids |-> [models |-> IF id \in Initially THEN Models ELSE {},
                                epoch  |-> IF id \in Initially THEN 1 ELSE 0]]
      /\ version = 1 /\ syncedVersion = 1
      /\ sched = rebuild(s, auths, reg, reg)
      /\ syncer = [pc |-> "idle", ver |-> 0, list |-> None]
      /\ calls = [p \in Callers |-> << >>]
      /\ changes = 0
  BY DEF Init
<1>2. s \in Schedulers
  BY DEF Schedulers
<1>3. /\ s.gens = [id \in Ids |-> None] /\ s.metas = [id \in Ids |-> None]
  OBVIOUS
<1>. HIDE DEF s
<1>4. auths \in Maps /\ authEpochs \in [Ids -> Nat] /\ reg \in Registries
  <2>1. auths \in Maps
    BY <1>1, FreshFields DEF Maps
  <2>2. reg \in Registries
    BY <1>1 DEF Registries
  <2>. QED
    BY <2>1, <2>2, <1>1
<1>5. ASSUME NEW id \in Ids
      PROVE  Filed(s, auths, id)
  BY <1>1, <1>3, FreshFields DEF Filed
<1>6. /\ sched \in Schedulers
      /\ \A id \in Ids :
           /\ sched.gens[id] = IF Use(s, auths, id) = None THEN s.gens[id]
                               ELSE Version(Use(s, auths, id))
           /\ sched.metas[id] = IF Use(s, auths, id) = None THEN None
                                ELSE [snap |-> Use(s, auths, id), models |-> reg[id].models,
                                      regEpoch |-> reg[id].epoch]
           /\ \A k \in Keys : Entry(sched, id, k) = None
  <2> DEFINE t == rebuild(s, auths, reg, reg)
  <2>1. /\ t \in Schedulers
        /\ \A id \in Ids :
             /\ t.gens[id] = IF Use(s, auths, id) = None THEN s.gens[id]
                            ELSE Version(Use(s, auths, id))
             /\ t.metas[id] = IF Use(s, auths, id) = None THEN None
                             ELSE [snap |-> Use(s, auths, id), models |-> reg[id].models,
                                   regEpoch |-> reg[id].epoch]
             /\ \A k \in Keys : Entry(t, id, k) = None
    BY <1>2, <1>4, <1>5, RebuildFields
  <2>2. sched = t
    BY <1>1
  <2>. HIDE DEF t
  <2>. QED
    BY <2>1, <2>2
<1>7. TypeOK
  <2>1. syncer \in Syncers /\ syncer.pc = "idle"
    BY <1>1 DEF Syncers
  <2>2. calls \in [Callers -> Seq(Steps)]
    BY <1>1
  <2>. QED
    BY <2>1, <2>2, <1>1, <1>4, <1>6 DEF TypeOK
<1>8. Todo = {}
  BY <1>1 DEF Todo
<1>9. ASSUME NEW id \in Ids
      PROVE  Started(id)
  <2>1. Use(s, auths, id) = auths[id]
    <3>1. CASE id \in Initially
      <4>1. auths[id] = Fresh(id, 1) /\ auths[id] # None /\ auths[id].id = id /\ auths[id].enabled
        BY <3>1, <1>1, FreshFields
      <4>2. s.gens[auths[id].id] = None
        BY <4>1, <1>3
      <4>. QED
        BY <4>1, <4>2 DEF Use, Scheduled
    <3>2. CASE id \notin Initially
      BY <3>2, <1>1 DEF Use
    <3>. QED
      BY <3>1, <3>2
  <2>2. auths[id] = None <=> id \notin Initially
    BY <1>1, FreshFields
  <2>. QED
    BY <2>1, <2>2, <1>1, <1>3, <1>6 DEF Started
<1>. QED
  BY <1>7, <1>8, <1>9

LEMMA InitInv ==
  ASSUME Init
  PROVE  IInv
<1>1. /\ TypeOK
      /\ Todo = {}
      /\ \A id \in Ids : Started(id)
  BY StartIndex
<1>2. /\ version = 1 /\ syncedVersion = 1
      /\ syncer.pc = "idle"
  BY DEF Init
<1>3. ASSUME NEW id \in Ids, id \in Initially
      PROVE  CredentialInv(id) /\ InSync(id)
  <2> DEFINE a == auths[id]
  <2>1. /\ a = Fresh(id, 1) /\ authEpochs[id] = 1
        /\ reg[id].models = Models /\ reg[id].epoch = 1
        /\ sched.gens[id] = Version(a)
        /\ sched.metas[id] = [snap |-> a, models |-> Models, regEpoch |-> 1]
        /\ \A k \in Keys : Entry(sched, id, k) = None
    <3>1. Started(id)
      BY <1>1
    <3>2. a = Fresh(id, 1) /\ authEpochs[id] = 1 /\ reg[id] = [models |-> Models, epoch |-> 1]
      BY <3>1, <1>3 DEF Started
    <3>3. reg[id].models = Models /\ reg[id].epoch = 1
      BY <3>2
    <3>4. /\ sched.gens[id] = Version(a)
          /\ sched.metas[id] = [snap |-> a, models |-> reg[id].models, regEpoch |-> reg[id].epoch]
          /\ \A k \in Keys : Entry(sched, id, k) = None
      <4>. HIDE <3>2, <3>3
      <4>. QED
        BY <3>1, <1>3 DEF Started
    <3>. QED
      BY <3>2, <3>3, <3>4
  <2>2. /\ a \in Auth /\ a # None /\ a.id = id /\ a.epoch = 1 /\ a.gen = 1
        /\ a.enabled /\ a.blocked = {} /\ a.states = {}
        /\ Version(a) # None /\ Version(a).epoch = 1 /\ Version(a).gen = 1
    BY <2>1, FreshFields, AuthFields, NoneIsNone DEF Version
  <2>3. /\ sched.metas[id] # None /\ sched.metas[id].snap = a
        /\ sched.metas[id].models = Models /\ sched.metas[id].regEpoch = 1
    <3>1. sched.metas[id] \in scheduledAuthMeta
      BY <2>1, <2>2 DEF scheduledAuthMeta
    <3>. QED
      BY <3>1, <2>1, NoneIsNone
  <2>. HIDE DEF a
  <2>4. \A b \in Known(id) : b = a
    BY <1>1, <1>2, <2>3, KnownIs DEF a
  <2>5. KnownInv(id)
    BY <2>1, <2>2, <2>4 DEF KnownInv, Sound, Current, a
  <2>6. GensInv(id) /\ MetaInv(id) /\ RegInv(id) /\ EntryInv(id)
    BY <2>1, <2>2, <2>3 DEF GensInv, MetaInv, RegInv, EntryInv, a
  <2>7. TombInv(id) /\ LastInv(id) /\ EnabledInv(id)
    BY <1>1, <2>1, <2>2, <2>4 DEF TombInv, LastInv, EnabledInv, a
  <2>8. HistoryInv(id)
    BY <2>1, <2>4 DEF HistoryInv, Follows, SameFor, Keys
  <2>9. InSync(id)
    BY <2>1, <2>2, <2>3 DEF InSync, a
  <2>. QED
    BY <2>5, <2>6, <2>7, <2>8, <2>9 DEF CredentialInv, IndexInv, DueInv
<1>4. ASSUME NEW id \in Ids, id \notin Initially
      PROVE  CredentialInv(id)
  <2>1. /\ auths[id] = None /\ authEpochs[id] = 0
        /\ sched.gens[id] = None /\ sched.metas[id] = None
        /\ \A k \in Keys : Entry(sched, id, k) = None
    BY <1>1, <1>4 DEF Started
  <2>2. Known(id) = {}
    BY <1>1, <1>2, <2>1, KnownIs
  <2>. QED
    BY <1>1, <2>1, <2>2
    DEF CredentialInv, KnownInv, IndexInv, GensInv, MetaInv, RegInv, EntryInv,
        DueInv, TombInv, LastInv, EnabledInv, HistoryInv
<1>5. SyncInv
  <2>1. \A id \in Schedulable(auths) : InSync(id)
    BY <1>1, <1>3 DEF Schedulable, Started
  <2>. QED
    BY <2>1, <1>2 DEF SyncInv
<1>. QED
  BY <1>1, <1>3, <1>4, <1>5 DEF IInv

LEMMA NextStep ==
  ASSUME IInv, Next
  PROVE  IInv'
<1>1. ASSUME NEW p \in Callers, Change(p)
      PROVE  IInv'
  BY <1>1, ChangeStep
<1>2. ASSUME NEW p \in Callers, Step(p)
      PROVE  IInv'
  BY <1>2, DeliverStep, BumpStep, LoadSyncsStep DEF Step
<1>3. ASSUME NEW p \in Callers, NEW S \in ModelSets, DeliverAcrossRegister(p, S)
      PROVE  IInv'
  BY <1>3, DeliverAcrossRegisterStep
<1>4. ASSUME NEW id \in Ids, RefreshWrite(id)
      PROVE  IInv'
  BY <1>4, RefreshWriteStep
<1>5. ASSUME NEW id \in Ids, NEW S \in ModelSets, RegisterClient(id, S)
      PROVE  IInv'
  BY <1>5, RegisterClientStep
<1>6. ASSUME NEW k \in Picked, EnsureModel(k)
      PROVE  IInv'
  BY <1>6, EnsureModelStep
<1>7. ASSUME NEW m \in Picked \cap Models, PickMisses(m)
      PROVE  IInv'
  BY <1>7, PickMissesStep
<1>8. CASE Sync
  BY <1>8, CheckSyncStep, TakeSnapshotStep, RebuildStep, VerifySyncStep DEF Sync
<1>. QED
  BY <1>1, <1>2, <1>3, <1>4, <1>5, <1>6, <1>7, <1>8 DEF Next

LEMMA StutterStep ==
  ASSUME IInv, UNCHANGED vars
  PROVE  IInv'
<1>1. UNCHANGED <<auths, authEpochs, reg, version, syncedVersion, sched, syncer, calls, changes>>
  BY DEF vars
<1>2. TypeOK /\ SyncInv /\ \A id \in Ids : CredentialInv(id)
  BY DEF IInv
<1>3. TypeOK' /\ RegKept /\ ListKept
  BY <1>1, <1>2, ListStays DEF TypeOK, RegKept
<1>4. \A id \in Ids : CredentialInv(id)'
  BY <1>1, <1>3, QuietStep
<1>5. SyncInv'
  <2>1. BumpDue' <=> BumpDue
    BY <1>1 DEF BumpDue, Todo
  <2>2. \A id \in Ids : InSync(id)' <=> InSync(id)
    BY <1>1 DEF InSync
  <2>. QED
    BY <2>1, <2>2, <1>1, <1>2 DEF SyncInv, Schedulable
<1>. QED
  BY <1>3, <1>4, <1>5 DEF IInv

\* What is known, what is due and what the index holds of every credential stay
\* as the parts of IInv relate them, through every step of Spec.
THEOREM Invariance == Spec => []IInv
<1>1. Init => IInv
  BY InitInv
<1>2. IInv /\ [Next]_vars => IInv'
  BY NextStep, StutterStep
<1>. QED
  BY <1>1, <1>2, PTL DEF Spec

\* Every variable keeps its type, for any number of credentials, models and
\* goroutines and any number of changes.
THEOREM TypeCorrect == Spec => []TypeOK
<1>1. IInv => TypeOK
  BY DEF IInv
<1>. QED
  BY <1>1, Invariance, PTL

-----------------------------------------------------------------------------
(***************************************************************************)
(* What the invariant says once the deliveries have arrived                *)
(***************************************************************************)
LEMMA SettledTodo ==
  ASSUME NEW id \in Ids, Settled(id), NEW t \in Todo
  PROVE  t.id # id
BY TodoIs DEF Settled

\* The meta that is as new as the published credential holds that credential.
LEMMA MetaIsPublished ==
  ASSUME TypeOK, NEW id \in Ids, CredentialInv(id), auths[id] # None,
         sched.metas[id] # None, sched.gens[id] = Version(auths[id])
  PROVE  sched.metas[id].snap = auths[id]
<1>1. PICK a : a = sched.metas[id].snap
  OBVIOUS
<1>2. a \in Known(id) /\ Version(a) = Version(auths[id])
  BY <1>1, KnownIs DEF CredentialInv, IndexInv, MetaInv
<1>3. a.epoch = auths[id].epoch /\ a.gen = auths[id].gen
  BY <1>2 DEF Version
<1>. QED
  BY <1>1, <1>2, <1>3 DEF CredentialInv, KnownInv, Sound, Current

LEMMA GoneFromIndex ==
  ASSUME TypeOK, NEW id \in Ids, CredentialInv(id), Settled(id), id \notin Schedulable(auths)
  PROVE  sched.metas[id] = None /\ Entries(id) = {}
<1>1. sched.metas[id] = None
  <2>1. SUFFICES ASSUME sched.metas[id] # None
                 PROVE  FALSE
    OBVIOUS
  <2>2. PICK a : a = sched.metas[id].snap
    OBVIOUS
  <2>3. /\ a \in Known(id) /\ Sound(id, a) /\ a.enabled /\ sched.gens[id] = Version(a)
    BY <2>1, <2>2, KnownIs DEF CredentialInv, KnownInv, IndexInv, MetaInv
  <2>4. a.gen \in Nat /\ a.gen >= 1 /\ a.epoch \in Nat /\ a.epoch <= authEpochs[id]
        /\ authEpochs[id] \in Nat
    BY <2>3, AuthFields, IdTyped DEF Sound
  <2>5. CASE auths[id] = None
    <3>1. a.epoch # authEpochs[id]
      BY <2>3, <2>5 DEF Sound, Current
    <3>2. authEpochs[id] > 0
      BY <2>4, <3>1
    <3>3. Tombstone(id, authEpochs[id]) \notin Todo
      BY SettledTodo DEF Tombstone
    <3>4. sched.gens[id] = [epoch |-> authEpochs[id], gen |-> 0]
      BY <2>5, <3>2, <3>3 DEF CredentialInv, DueInv, TombInv
    <3>5. a.gen = 0
      BY <2>3, <3>4 DEF Version
    <3>. QED
      BY <2>4, <3>5
  <2>6. CASE auths[id] # None
    <3>1. ~auths[id].enabled
      BY <2>6 DEF Schedulable
    <3>2. auths[id] \notin Flying(id)
      BY FlyingIs, SettledTodo
    <3>3. sched.gens[id] = Version(auths[id])
      BY <2>6, <3>1, <3>2 DEF CredentialInv, DueInv, LastInv
    <3>4. a = auths[id]
      BY <2>1, <2>2, <2>6, <3>3, MetaIsPublished
    <3>. QED
      BY <2>3, <3>1, <3>4
  <2>. QED
    BY <2>5, <2>6
<1>2. Entries(id) = {}
  BY <1>1 DEF Entries, Entry, CredentialInv, IndexInv, EntryInv
<1>. QED
  BY <1>1, <1>2

\* A removed or disabled credential is in no part of the index once its
\* deliveries have arrived: its tombstone or its last snapshot is recorded, and
\* nothing older is scheduled after that (RecordRemovalTombstone,
\* isStaleScheduledAuth, upsertAuthRebuildLocked).
THEOREM NoResurrectionHolds == Spec => []NoResurrection
<1>1. IInv => NoResurrection
  BY GoneFromIndex DEF IInv, NoResurrection
<1>. QED
  BY <1>1, Invariance, PTL

LEMMA SyncedIndex ==
  ASSUME IInv, version = syncedVersion, \A p \in Callers : calls[p] = << >>, NEW id \in Ids
  PROVE  IF id \in Schedulable(auths)
         THEN /\ sched.metas[id] # None
              /\ sched.metas[id].snap = auths[id]
              /\ sched.metas[id].models = reg[id].models
         ELSE sched.metas[id] = None
<1>1. TypeOK /\ SyncInv /\ CredentialInv(id)
  BY DEF IInv
<1>2. Todo = {}
  <2>1. ASSUME NEW t \in Todo
        PROVE  FALSE
    <3>1. PICK p \in Callers : \E i \in 1..Len(calls[p]) : t = calls[p][i]
      BY <2>1, TodoIs
    <3>2. Len(calls[p]) = 0
      OBVIOUS
    <3>. QED
      BY <3>1, <3>2
  <2>. QED
    BY <2>1
<1>3. CASE id \in Schedulable(auths)
  <2>1. InSync(id) /\ auths[id] # None
    BY <1>1, <1>2, <1>3 DEF SyncInv, BumpDue, Schedulable
  <2>2. /\ sched.metas[id] # None
        /\ sched.gens[id] # None /\ sched.gens[id].epoch = authEpochs[id]
        /\ sched.metas[id].regEpoch = reg[id].epoch
        /\ authEpochs[id] \in Nat
    BY <2>1, <1>1, IdTyped DEF InSync, CredentialInv, KnownInv, Current
  <2>3. auths[id] \notin Flying(id)
    BY <1>2, FlyingIs
  <2>4. sched.gens[id] = Version(auths[id])
    BY <2>1, <2>2, <2>3, <1>1 DEF CredentialInv, DueInv, LastInv
  <2>5. sched.metas[id].snap = auths[id]
    BY <2>1, <2>2, <2>4, <1>1, MetaIsPublished
  <2>6. sched.metas[id].models = reg[id].models
    BY <2>2, <1>1 DEF CredentialInv, IndexInv, RegInv
  <2>. QED
    BY <1>3, <2>2, <2>5, <2>6
<1>4. CASE id \notin Schedulable(auths)
  <2>1. Settled(id)
    BY <1>2, TodoIs DEF Settled
  <2>. QED
    BY <1>1, <1>4, <2>1, GoneFromIndex
<1>. QED
  BY <1>3, <1>4

\* When the version is synced and nothing is due, the index is the map: every
\* schedulable credential is in it with its published state and the models of
\* the registry, and no other is (checkAndSyncScheduler, needsSyncFromMap).
THEOREM SyncedIsExactHolds == Spec => []SyncedIsExact
<1>1. IInv => SyncedIsExact
  BY SyncedIndex DEF SyncedIsExact
<1>. QED
  BY <1>1, Invariance, PTL

\* Nothing but results of other models lies between an entry of model k and the
\* published credential, and both block the whole credential alike.
LEMMA SameBlock ==
  ASSUME NEW e \in Auth, NEW y \in Auth, NEW M \in SUBSET Models, NEW k \in M,
         e.blocked \subseteq e.states, y.blocked \subseteq y.states, y.states \subseteq M,
         k # AnyModel, SameFor(e, y, k),
         isCredentialBlocked(e, M) <=> isCredentialBlocked(y, M)
  PROVE  isAuthBlockedForModel(e, k) <=> isAuthBlockedForModel(y, k)
<1>1. CASE e = y
  BY <1>1
<1>2. CASE /\ k \in e.blocked <=> k \in y.blocked
           /\ y.hard => e.hard
           /\ y.states # {}
           /\ y.down <=> y.hard \/ y.states \subseteq y.blocked
  <2>1. IsFiniteSet(M)
    BY FiniteAssumption, FS_Subset
  <2>2. /\ Cardinality(y.states) \in Nat /\ Cardinality(M) \in Nat
        /\ Cardinality(y.states) >= Cardinality(M) <=> y.states = M
    <3>1. /\ IsFiniteSet(y.states) /\ Cardinality(y.states) <= Cardinality(M)
          /\ Cardinality(M) = Cardinality(y.states) => M = y.states
      BY <2>1, FS_Subset
    <3>2. Cardinality(y.states) \in Nat /\ Cardinality(M) \in Nat
      BY <2>1, <3>1, FS_CardinalityType
    <3>. QED
      BY <3>1, <3>2
  <2>3. CASE y.hard
    BY <2>3, <1>2 DEF isAuthBlockedForModel
  <2>4. CASE ~y.hard /\ isCredentialBlocked(y, M)
    <3>1. y.states = M /\ y.states \subseteq y.blocked
      BY <2>2, <2>4, <1>2 DEF isCredentialBlocked
    <3>2. k \in y.blocked /\ k \in e.blocked /\ e.states # {}
      BY <3>1, <1>2
    <3>. QED
      BY <3>2, <1>2 DEF isAuthBlockedForModel
  <2>5. CASE ~y.hard /\ ~isCredentialBlocked(y, M)
    <3>1. ~e.hard /\ ~(e.down /\ e.states = {})
      BY <2>5 DEF isCredentialBlocked
    <3>. QED
      BY <2>5, <3>1, <1>2 DEF isAuthBlockedForModel
  <2>. QED
    BY <2>3, <2>4, <2>5
<1>. QED
  BY <1>1, <1>2 DEF SameFor

LEMMA ShardFollows ==
  ASSUME TypeOK, NEW id \in Ids, CredentialInv(id), auths[id] # None, Settled(id),
         sched.metas[id] # None, auths[id].states \subseteq sched.metas[id].models,
         NEW k \in Keys, NEW e, e = Entry(sched, id, k), e # None,
         e.epoch = auths[id].epoch, e.gen >= auths[id].edit
  PROVE  isAuthBlockedForModel(e, k) <=> isAuthBlockedForModel(auths[id], k)
<1>1. PICK y : y = auths[id]
  OBVIOUS
<1>2. /\ y \in Known(id) /\ y \in Auth /\ y.gen \in Nat /\ y.edit \in Nat
      /\ y.blocked \subseteq y.states /\ Current(id, y) /\ authEpochs[id] \in Nat
  <2>1. y \in Known(id)
    BY <1>1, KnownIs
  <2>. QED
    BY <2>1, <1>1, AuthFields, IdTyped DEF CredentialInv, KnownInv, Sound
<1>3. /\ e \in Auth /\ e.gen \in Nat /\ e.blocked \subseteq e.states /\ Reached(sched, id, e)
      /\ IF k = AnyModel THEN e = sched.metas[id].snap ELSE k \in sched.metas[id].models
      /\ isCredentialBlocked(e, sched.metas[id].models)
           <=> isCredentialBlocked(sched.metas[id].snap, sched.metas[id].models)
  BY AuthFields DEF CredentialInv, IndexInv, EntryInv
<1>4. Current(id, e)
  BY <1>1, <1>2 DEF Current
<1>5. /\ sched.gens[id] # None /\ sched.gens[id].epoch = authEpochs[id]
      /\ sched.gens[id].gen >= e.gen /\ sched.gens[id].gen <= y.gen /\ sched.gens[id].gen \in Nat
  BY <1>1, <1>2, <1>3, <1>4, IdTyped DEF Reached, Current, CredentialInv, IndexInv, GensInv
<1>6. sched.gens[id] = Version(y)
  <2>1. y \notin Flying(id)
    BY FlyingIs, SettledTodo
  <2>. QED
    BY <2>1, <1>1, <1>2, <1>5 DEF CredentialInv, DueInv, LastInv
<1>7. sched.metas[id].snap = y
  BY <1>1, <1>6, MetaIsPublished
<1>8. CASE k = AnyModel
  BY <1>1, <1>3, <1>7, <1>8
<1>9. CASE k # AnyModel
  <2>1. k \in Models /\ k \in sched.metas[id].models /\ sched.metas[id].models \in SUBSET Models
    BY <1>3, <1>9, IdTyped, MetaFields DEF Keys
  <2>2. Follows(id, k, e, y)
    BY <2>1, <1>2, <1>4 DEF CredentialInv, HistoryInv
  <2>3. ~Overtaken(id, k, e, y)
    BY SettledTodo DEF Overtaken
  <2>4. y.edit <= e.gen /\ e.gen <= y.gen
    BY <1>1, <1>2, <1>3, <1>5
  <2>5. SameFor(e, y, k)
    BY <2>2, <2>3, <2>4 DEF Follows
  <2>. QED
    BY <2>1, <2>5, <1>1, <1>2, <1>3, <1>7, <1>9, SameBlock
<1>. QED
  BY <1>8, <1>9

\* When every delivery has arrived, a shard that has seen the last change of the
\* whole credential offers it exactly when the manager considers it available
\* for that shard's model, in whatever order the results came
\* (upsertAuthResultLocked).
THEOREM ShardsFollowResultsHolds == Spec => []ShardsFollowResults
<1>1. ASSUME IInv
      PROVE  ShardsFollowResults
  <2> SUFFICES ASSUME NEW id \in Ids, auths[id] # None, Settled(id), sched.metas[id] # None,
                      auths[id].states \subseteq sched.metas[id].models,
                      NEW k \in Entries(id),
                      sched.shards[k][id].epoch = auths[id].epoch,
                      sched.shards[k][id].gen >= auths[id].edit
               PROVE  isAuthBlockedForModel(sched.shards[k][id], k)
                        <=> isAuthBlockedForModel(auths[id], k)
    BY DEF ShardsFollowResults
  <2>1. TypeOK /\ CredentialInv(id)
    BY <1>1 DEF IInv
  <2>2. PICK e : e = Entry(sched, id, k)
    OBVIOUS
  <2>3. k \in Keys /\ e = sched.shards[k][id] /\ e # None
    BY <2>2 DEF Entries, Entry
  <2>. QED
    BY <2>1, <2>2, <2>3, ShardFollows
<1>. QED
  BY <1>1, Invariance, PTL
=============================================================================
