------------------------ MODULE CredentialStoreProofs ------------------------
(***************************************************************************)
(* Proofs about CredentialStore, for any number of credentials, mutators   *)
(* and savers: once nobody works on a credential, the store holds what is  *)
(* published unless its last save failed, and no write that was made while *)
(* a save was under way is lost.                                           *)
(***************************************************************************)
EXTENDS CredentialStore, TLAPS

(***************************************************************************)
(* What the proofs need to say about a state                               *)
(***************************************************************************)
Workers == Mutators \cup Savers

(* A credential's values of run are numbers of events so far.              *)
Auth == [epoch : Nat, gen : Nat, edit : Nat, run : 0..events, hint : Nat, stamp : Nat]
Saved == [edit : Nat, hint : Nat]
Version == [epoch : Nat, gen : Nat]

(* What a mutator and a saver know before and after they prepare a save.   *)
Asked == [kind : AllKinds, id : Ids, n : 1..events, snap : Auth \cup {None}]
Prepared == [kind : AllKinds, id : Ids, auth : Auth, before : Auth \cup {None}, saved : Auth]
HintAsked == [kind : {"hint"}, id : Ids, n : Nat, epoch : Nat]
HintPrepared == [kind : {"hint"}, id : Ids, auth : Auth, before : Auth]

Outside == {"barrier", "gate"}                     \* without the gate
Unprepared == {"clone", "locked"}
HintUnprepared == {"save gate", "foreground", "check"}
Busy == {"persist", "drain", "saving", "publish"}

DataType ==
    /\ events \in Nat
    /\ auths \in [Ids -> Auth \cup {None}]
    /\ authEpochs \in [Ids -> Nat]
    /\ store \in [Ids -> Saved \cup {None}]
    /\ persisted \in [Ids -> Version]
    /\ unsaved \in [Ids -> BOOLEAN]
    /\ owed \in [Ids -> 0..events]

ControlType ==
    /\ holders \subseteq Actors
    /\ gate \in [Ids -> Workers \cup {None}]
    /\ pc[Loader] \in {"idle", "barrier", "list", "replace"}
    /\ DOMAIN pc = Actors /\ DOMAIN op = Workers
    /\ items \in [Ids -> Saved \cup {None}]

TypeOK == DataType /\ ControlType

(* What a goroutine works on, by its progress.                             *)
MutatorOp(p) ==
    \/ pc[p] = "idle" /\ op[p] = NoOp
    \/ /\ pc[p] \in Outside \cup Unprepared /\ op[p] \in Asked
       /\ op[p].snap # None => op[p].snap.epoch <= authEpochs[op[p].id]
       /\ op[p].kind \in {"update", "refresh"} => op[p].snap # None
       /\ op[p].kind = "modify" /\ pc[p] = "locked" => op[p].snap # None
    \/ pc[p] \in Busy /\ op[p] \in Prepared

SaverOp(q) ==
    \/ pc[q] = "idle" /\ op[q] = NoOp
    \/ pc[q] \in Outside \cup HintUnprepared /\ op[q] \in HintAsked
    \/ pc[q] \in {"saving", "publish"} /\ op[q] \in HintPrepared

OpInv == (\A p \in Mutators : MutatorOp(p)) /\ (\A q \in Savers : SaverOp(q))

(* A goroutine past the barrier holds a share of it, and Load holds all of *)
(* it; a goroutine past the gate of its credential holds the gate.         *)
Holding(a) == pc[a] \in Unprepared \cup HintUnprepared \cup Busy

LockInv ==
    /\ \A a \in Actors : a \in holders <=> pc[a] \notin {"idle", "barrier"}
    /\ Loader \in holders => holders = {Loader}
    /\ \A a \in Workers : Holding(a) => gate[op[a].id] = a
    /\ \A i \in Ids : gate[i] # None => Holding(gate[i]) /\ op[gate[i]].id = i

(* Epochs only grow, a save is never of a later registration than the      *)
(* current one, and Load replaces by what it has listed.                   *)
EpochInv ==
    /\ \A i \in Ids : /\ persisted[i].epoch <= authEpochs[i]
                      /\ auths[i] # None => auths[i].epoch <= authEpochs[i]
    /\ pc[Loader] = "replace" => items = store

(* The started saves are not ahead of the published object by more than    *)
(* one mutation, which has then not been saved.                            *)
VersionFits(i) ==
    persisted[i].epoch = authEpochs[i] =>
        /\ persisted[i].gen <= auths[i].gen + 1
        /\ auths[i].gen < persisted[i].gen => unsaved[i]

SavedAs(i, a) == unsaved[i] \/ store[i] = Durable(a)

(* A credential on which nobody works.                                     *)
Rested(i) ==
    auths[i] # None =>
        /\ auths[i].epoch = authEpochs[i]
        /\ SavedAs(i, auths[i])
        /\ VersionFits(i)
        /\ auths[i].run = owed[i]

SameContent(a, b) == a.edit = b.edit /\ a.hint = b.hint

WorkedOn(i) == \E a \in Workers : pc[a] \in Busy /\ op[a].id = i

RestInv == \A i \in Ids : ~ WorkedOn(i) => Rested(i)

(* A mutator between its two critical sections, and the object that its    *)
(* Publish is going to put in place.                                       *)
StartedSave(p, i) ==
    /\ pc[p] = "persist" => ~ Outdated(op[p].auth, i)
    /\ pc[p] # "persist" => persisted[i] = [epoch |-> op[p].auth.epoch, gen |-> op[p].auth.gen]
    /\ pc[p] = "publish" => SavedAs(i, op[p].auth)

RunMerges(o, i) ==
    /\ o.before # None
    /\ IF o.before.run = auths[i].run THEN owed[i] = o.auth.run ELSE owed[i] = auths[i].run

Replaces(o, i) ==
    /\ auths[i] # None /\ auths[i].epoch = authEpochs[i]
    /\ o.kind \in {"update", "modify", "refresh"} =>
          SameContent(o.before, auths[i]) /\ RunMerges(o, i)
    /\ o.kind = "refresh" => owed[i] = auths[i].run /\ o.auth.gen <= auths[i].gen + 1
    /\ o.kind = "result" =>
          /\ SameContent(o.auth, auths[i]) /\ owed[i] = auths[i].run
          /\ o.auth.gen <= auths[i].gen

MutatorWorks(p, i) ==
    /\ authEpochs[i] = op[p].auth.epoch
    /\ op[p].saved \in {op[p].auth, Enriched(op[p].auth)}
    /\ op[p].kind # "remove"
    /\ StartedSave(p, i)
    /\ op[p].kind = "register" => op[p].auth.run = 0
    /\ op[p].kind # "register" => Replaces(op[p], i)

MutatorInv == \A p \in Mutators : pc[p] \in Busy => MutatorWorks(p, op[p].id)

(* A saver between the same two critical sections.                         *)
SaverWorks(q, i) ==
    /\ auths[i] # None /\ auths[i].epoch = authEpochs[i] /\ op[q].auth.epoch = authEpochs[i]
    /\ op[q].auth.edit = op[q].before.edit /\ op[q].auth.run = op[q].before.run
    /\ SameContent(op[q].before, auths[i])
    /\ auths[i].run = owed[i]
    /\ VersionFits(i)
    /\ SavedAs(i, IF pc[q] = "saving" THEN auths[i] ELSE op[q].auth)

SaverInv == \A q \in Savers : pc[q] \in {"saving", "publish"} => SaverWorks(q, op[q].id)

IInv ==
    /\ TypeOK /\ OpInv /\ LockInv /\ EpochInv
    /\ RestInv /\ MutatorInv /\ SaverInv

-----------------------------------------------------------------------------
(***************************************************************************)
(* The objects                                                             *)
(***************************************************************************)
LEMMA AuthGrows ==
    ASSUME events \in Nat, events' \in {events, events + 1}
    PROVE  /\ \A x \in Auth : x \in Auth'
           /\ 0..events \subseteq (0..events)' /\ 1..events \subseteq (1..events)'
           /\ events' \in Nat
  BY DEF Auth

LEMMA EnrichedIs ==
    ASSUME NEW a \in Auth
    PROVE  /\ Enriched(a) \in Auth
           /\ Enriched(a).epoch = a.epoch /\ Enriched(a).gen = a.gen
           /\ Enriched(a).edit = a.edit /\ Enriched(a).run = a.run /\ Enriched(a).hint = a.hint
  BY DEF Enriched, Auth

LEMMA DurableIs ==
    ASSUME NEW a, NEW b
    PROVE  /\ a \in Auth => Durable(a) \in Saved
           /\ SameContent(a, b) => Durable(a) = Durable(b)
  BY DEF Auth, Durable, Saved, SameContent

LEMMA OpType ==
    /\ \A o \in Asked : /\ o.kind \in AllKinds /\ o.id \in Ids /\ o.n \in 1..events
                        /\ o.snap \in Auth \cup {None} /\ o # NoOp
    /\ \A o \in Prepared : /\ o.kind \in AllKinds /\ o.id \in Ids /\ o.auth \in Auth
                           /\ o.before \in Auth \cup {None} /\ o.saved \in Auth /\ o # NoOp
    /\ \A o \in HintAsked : o.kind = "hint" /\ o.id \in Ids /\ o.n \in Nat /\ o # NoOp
    /\ \A o \in HintPrepared : /\ o.kind = "hint" /\ o.id \in Ids /\ o.auth \in Auth
                               /\ o.before \in Auth /\ o # NoOp
<1>1. \A o \in Asked : /\ o.kind \in AllKinds /\ o.id \in Ids /\ o.n \in 1..events
                       /\ o.snap \in Auth \cup {None}
  BY DEF Asked
<1>2. \A o \in Prepared : /\ o.kind \in AllKinds /\ o.id \in Ids /\ o.auth \in Auth
                          /\ o.before \in Auth \cup {None} /\ o.saved \in Auth
  BY DEF Prepared
<1>3. \A o \in HintAsked : o.kind = "hint" /\ o.id \in Ids /\ o.n \in Nat
  BY DEF HintAsked
<1>4. \A o \in HintPrepared : o.kind = "hint" /\ o.id \in Ids /\ o.auth \in Auth /\ o.before \in Auth
  BY DEF HintPrepared
<1>5. NoOp.kind = "none" /\ "none" \notin AllKinds
  BY DEF NoOp, AllKinds
<1>. QED
  BY <1>1, <1>2, <1>3, <1>4, <1>5

(***************************************************************************)
(* What a step leaves alone                                                *)
(***************************************************************************)

(* Goroutine a alone moves, to pc x, and leaves op alone or sets its own.  *)
Moves(a, x) ==
    /\ pc' = [pc EXCEPT ![a] = x]
    /\ \/ op' = op
       \/ a \in Workers /\ \E y : op' = [op EXCEPT ![a] = y]

LEMMA MovesIs ==
    ASSUME ControlType, NEW a \in Actors, NEW x, Moves(a, x)
    PROVE  /\ pc'[a] = x
           /\ \A b \in Actors : b # a => pc'[b] = pc[b]
           /\ \A b \in Workers : b # a => op'[b] = op[b]
           /\ DOMAIN pc' = Actors /\ DOMAIN op' = Workers
           /\ Workers \subseteq Actors
  BY DEF ControlType, Moves, Workers, Actors

(* The Manager and the store keep what they hold of credential j.          *)
SameData(j) ==
    /\ auths'[j] = auths[j] /\ authEpochs'[j] = authEpochs[j] /\ store'[j] = store[j]
    /\ persisted'[j] = persisted[j] /\ unsaved'[j] = unsaved[j] /\ owed'[j] = owed[j]

LEMMA DataFrame ==
    ASSUME NEW j, SameData(j)
    PROVE  /\ Rested(j) => Rested(j)'
           /\ VersionFits(j) <=> VersionFits(j)'
           /\ \A b : pc'[b] = pc[b] /\ op'[b] = op[b] =>
                 /\ MutatorWorks(b, j) => MutatorWorks(b, j)'
                 /\ SaverWorks(b, j) => SaverWorks(b, j)'
<1>1. \A a : SavedAs(j, a) <=> (unsaved'[j] \/ store'[j] = Durable(a))
  BY DEF SameData, SavedAs
<1>2. VersionFits(j) <=> VersionFits(j)'
  BY DEF SameData, VersionFits
<1>3. Rested(j) => Rested(j)'
  BY <1>1, <1>2 DEF Rested, SameData, SavedAs, Durable
<1>4. ASSUME NEW b, pc'[b] = pc[b], op'[b] = op[b]
      PROVE  /\ MutatorWorks(b, j) => MutatorWorks(b, j)'
             /\ SaverWorks(b, j) => SaverWorks(b, j)'
  <2>1. StartedSave(b, j) => StartedSave(b, j)'
    BY <1>4 DEF SameData, StartedSave, Outdated, SavedAs, Durable
  <2>2. Replaces(op[b], j) => Replaces(op[b], j)'
    BY <1>4 DEF SameData, Replaces, RunMerges, SameContent
  <2>3. MutatorWorks(b, j) => MutatorWorks(b, j)'
    BY <1>4, <2>1, <2>2 DEF SameData, MutatorWorks, Enriched
  <2>4. SaverWorks(b, j) => SaverWorks(b, j)'
    BY <1>2, <1>4 DEF SameData, SaverWorks, SavedAs, Durable, SameContent
  <2>. QED
    BY <2>3, <2>4
<1>. QED
  BY <1>2, <1>3, <1>4

(* A goroutine whose progress and op a step leaves alone.                  *)
LEMMA OpFrame ==
    ASSUME events \in Nat, events' \in {events, events + 1}, authEpochs \in [Ids -> Nat],
           \A i \in Ids : authEpochs'[i] \in Nat /\ authEpochs'[i] >= authEpochs[i],
           NEW a, pc'[a] = pc[a], op'[a] = op[a]
    PROVE  /\ MutatorOp(a) => MutatorOp(a)'
           /\ SaverOp(a) => SaverOp(a)'
<1>1. \A x \in Auth : x \in Auth'
  BY AuthGrows
<1>2. Asked \subseteq Asked'
  <2>1. 1..events \subseteq (1..events)'
    BY AuthGrows
  <2>2. Auth \subseteq Auth'
    BY <1>1
  <2>. QED
    BY <2>1, <2>2 DEF Asked
<1>3. Prepared \subseteq Prepared' /\ HintPrepared \subseteq HintPrepared'
  BY <1>1 DEF Prepared, HintPrepared
<1>4. ASSUME op[a] \in Asked, op[a].snap # None, op[a].snap.epoch <= authEpochs[op[a].id]
      PROVE  op[a].snap.epoch <= authEpochs'[op[a].id]
  <2>1. op[a].id \in Ids /\ op[a].snap \in Auth
    BY <1>4, OpType
  <2>2. op[a].snap.epoch \in Nat
    BY <2>1 DEF Auth
  <2>. QED
    BY <1>4, <2>1, <2>2
<1>5. MutatorOp(a) => MutatorOp(a)'
  BY <1>2, <1>3, <1>4 DEF MutatorOp
<1>6. HintAsked' = HintAsked
  BY DEF HintAsked
<1>7. SaverOp(a) => SaverOp(a)'
  BY <1>3, <1>6 DEF SaverOp
<1>. QED
  BY <1>5, <1>7

(***************************************************************************)
(* The barrier and the gates                                               *)
(***************************************************************************)
LEMMA NobodyIsNone == None \notin Actors /\ None \notin Workers /\ Loader \notin Workers
                      /\ Mutators \cap Savers = {} /\ Actors = Workers \cup {Loader}
  BY CredentialStoreAssumption DEF Actors, Workers

LEMMA LockMove ==
    ASSUME ControlType, LockInv, \A b \in Workers : Holding(b) => op[b].id \in Ids, NEW a \in Actors, NEW x, Moves(a, x),
           holders' = IF x \in {"idle", "barrier"} THEN holders \ {a} ELSE holders \cup {a},
           Loader \in holders' => holders' = {Loader},
           \A j \in Ids : gate'[j] = IF a \in Workers /\ Holding(a)' /\ op'[a].id = j THEN a
                                     ELSE IF gate[j] = a THEN None ELSE gate[j],
           a \in Workers /\ Holding(a)' => op'[a].id \in Ids /\ gate[op'[a].id] \in {a, None}
    PROVE  LockInv'
<1>1. /\ pc'[a] = x
      /\ \A b \in Actors : b # a => pc'[b] = pc[b]
      /\ \A b \in Workers : b # a => op'[b] = op[b]
  BY MovesIs
<1>2. ASSUME NEW b \in Actors PROVE b \in holders' <=> pc'[b] \notin {"idle", "barrier"}
  BY <1>1 DEF LockInv
<1>3. \A b \in Workers : b # a => (Holding(b) <=> Holding(b)')
  BY <1>1, NobodyIsNone DEF Holding
<1>4. ASSUME NEW b \in Workers, Holding(b)'
      PROVE  gate'[op'[b].id] = b
  <2>1. CASE b = a
    BY <1>4, <2>1
  <2>2. CASE b # a
    <3>1. gate[op[b].id] = b /\ op'[b] = op[b] /\ op[b].id \in Ids
      BY <1>1, <1>3, <1>4, <2>2 DEF LockInv
    <3>2. ~ (a \in Workers /\ Holding(a)' /\ op'[a].id = op[b].id)
      BY <1>4, <2>2, <3>1, NobodyIsNone
    <3>. QED
      BY <1>4, <2>2, <3>1, <3>2
  <2>. QED
    BY <2>1, <2>2
<1>5. ASSUME NEW i \in Ids, gate'[i] # None
      PROVE  (Holding(gate[i]) /\ op[gate[i]].id = i)'
  <2>1. CASE a \in Workers /\ Holding(a)' /\ op'[a].id = i
    <3>1. gate'[i] = a
      BY <2>1
    <3>. QED
      BY <2>1, <3>1 DEF Holding
  <2>2. CASE ~ (a \in Workers /\ Holding(a)' /\ op'[a].id = i)
    <3>1. gate'[i] = gate[i] /\ gate[i] # None /\ gate[i] # a
      BY <1>5, <2>2
    <3>2. gate[i] \in Workers
      BY <3>1 DEF ControlType
    <3>3. Holding(gate[i]) /\ op[gate[i]].id = i /\ op'[gate[i]] = op[gate[i]]
      BY <1>1, <3>1, <3>2 DEF LockInv
    <3>4. pc'[gate[i]] = pc[gate[i]]
      BY <1>1, <3>1, <3>2, NobodyIsNone
    <3>. QED
      BY <3>1, <3>3, <3>4 DEF Holding
  <2>. QED
    BY <2>1, <2>2
<1>. QED
  BY <1>2, <1>4, <1>5 DEF LockInv

(* The forms in which a goroutine uses its locks.                          *)
LEMMA LockStays ==
    ASSUME ControlType, LockInv, \A b \in Workers : Holding(b) => op[b].id \in Ids,
           NEW a \in Actors, NEW x, Moves(a, x), UNCHANGED <<holders, gate>>,
           x \in {"idle", "barrier"} <=> pc[a] \in {"idle", "barrier"},
           a \in Workers => /\ Holding(a)' <=> Holding(a)
                            /\ Holding(a) => op'[a].id = op[a].id
    PROVE  LockInv'
<1>1. pc'[a] = x
  BY MovesIs
<1>2. holders' = IF x \in {"idle", "barrier"} THEN holders \ {a} ELSE holders \cup {a}
  BY DEF LockInv
<1>3. \A j \in Ids : gate[j] = a => Holding(a) /\ op[a].id = j
  BY NobodyIsNone DEF LockInv
<1>4. a \in Workers /\ Holding(a)' => op'[a].id \in Ids /\ gate[op'[a].id] \in {a, None}
  BY DEF LockInv
<1>5. \A j \in Ids : gate'[j] = IF a \in Workers /\ Holding(a)' /\ op'[a].id = j THEN a
                                ELSE IF gate[j] = a THEN None ELSE gate[j]
  <2>1. ASSUME NEW j \in Ids, a \in Workers, Holding(a)', op'[a].id = j PROVE gate'[j] = a
    BY <2>1 DEF LockInv
  <2>2. ASSUME NEW j \in Ids, ~ (a \in Workers /\ Holding(a)' /\ op'[a].id = j)
        PROVE  gate[j] # a
    <3>1. SUFFICES ASSUME gate[j] = a PROVE FALSE
      OBVIOUS
    <3>2. Holding(a) /\ op[a].id = j /\ gate[j] # None
      BY <1>3, <3>1, NobodyIsNone
    <3>3. a \in Workers
      BY <3>1, <3>2 DEF ControlType
    <3>. QED
      BY <2>2, <3>2, <3>3
  <2>. QED
    BY <2>1, <2>2
<1>6. Loader \in holders' => holders' = {Loader}
  BY DEF LockInv
<1>. QED
  BY <1>2, <1>4, <1>5, <1>6, LockMove

(* The end of a goroutine that holds the gate of i, or no gate.            *)
LEMMA LockLeaves ==
    ASSUME ControlType, LockInv, \A b \in Workers : Holding(b) => op[b].id \in Ids,
           NEW a \in Workers, Moves(a, "idle"), NEW i \in Ids, op[a].id = i,
           holders' = holders \ {a},
           gate' = [gate EXCEPT ![i] = IF @ = a THEN None ELSE @]
    PROVE  LockInv'
<1>1. pc'[a] = "idle" /\ a \in Actors
  BY MovesIs, NobodyIsNone
<1>2. ~ Holding(a)'
  BY <1>1 DEF Holding, Unprepared, HintUnprepared, Busy
<1>3. \A j \in Ids : gate[j] = a => j = i
  BY NobodyIsNone DEF LockInv
<1>4. \A j \in Ids : gate'[j] = IF gate[j] = a THEN None ELSE gate[j]
  BY <1>3 DEF ControlType
<1>5. Loader \in holders' => holders' = {Loader}
  BY DEF LockInv
<1>. QED
  BY <1>1, <1>2, <1>4, <1>5, LockMove

(***************************************************************************)
(* The credentials and the goroutines that work on them                    *)
(***************************************************************************)

(* A step of goroutine a that concerns no other credential than i.         *)
LEMMA WorkerStep ==
    ASSUME ControlType, RestInv, MutatorInv, SaverInv, NEW a \in Workers, NEW x, Moves(a, x),
           NEW i \in Ids, \A j \in Ids : j # i => SameData(j),
           \A b \in Workers : pc[b] \in Busy => op[b].id \in Ids,
           \A b \in Workers : b # a /\ pc[b] \in Busy => op[b].id # i,
           pc[a] \in Busy => op[a].id = i,
           x \in Busy => /\ op'[a].id = i
                         /\ a \in Mutators => MutatorWorks(a, i)'
                         /\ a \in Savers => SaverWorks(a, i)',
           x \notin Busy => Rested(i)'
    PROVE  RestInv' /\ MutatorInv' /\ SaverInv'
<1>0. Mutators \subseteq Workers /\ Savers \subseteq Workers /\ a \in Actors
      /\ {"saving", "publish"} \subseteq Busy
  BY DEF Workers, Actors, Busy
<1>1. /\ pc'[a] = x
      /\ \A b \in Workers : b # a => pc'[b] = pc[b] /\ op'[b] = op[b]
  BY <1>0, MovesIs
<1>2. ASSUME NEW j \in Ids, ~ WorkedOn(j)' PROVE Rested(j)'
  <2>1. CASE j = i
    <3>1. x \notin Busy
      BY <1>1, <1>2, <2>1 DEF WorkedOn
    <3>. QED
      BY <2>1, <3>1
  <2>2. CASE j # i
    <3>1. ~ WorkedOn(j)
      <4>1. SUFFICES ASSUME NEW b \in Workers, pc[b] \in Busy, op[b].id = j PROVE FALSE
        BY DEF WorkedOn
      <4>2. b # a
        BY <2>2, <4>1
      <4>. QED
        BY <1>1, <1>2, <4>1, <4>2 DEF WorkedOn
    <3>. QED
      BY <2>2, <3>1, DataFrame DEF RestInv
  <2>. QED
    BY <2>1, <2>2
<1>3. ASSUME NEW p \in Mutators, pc'[p] \in Busy PROVE MutatorWorks(p, op[p].id)'
  <2>1. CASE p = a
    <3>1. MutatorWorks(a, i)' /\ op'[a].id = i
      BY <1>1, <1>3, <2>1
    <3>. QED
      BY <2>1, <3>1
  <2>2. CASE p # a
    <3>1. /\ p \in Workers /\ pc'[p] = pc[p] /\ op'[p] = op[p]
          /\ op[p].id \in Ids /\ op[p].id # i
      BY <1>0, <1>1, <1>3, <2>2
    <3>2. PICK j \in Ids : j = op[p].id
      BY <3>1
    <3>3. MutatorWorks(p, j)
      BY <1>3, <3>1, <3>2 DEF MutatorInv
    <3>4. SameData(j)
      BY <3>1, <3>2
    <3>5. MutatorWorks(p, j)'
      BY <3>1, <3>3, <3>4, DataFrame
    <3>6. j = op'[p].id
      BY <3>1, <3>2
    <3>. QED
      BY <3>5, <3>6
  <2>. QED
    BY <2>1, <2>2
<1>4. ASSUME NEW q \in Savers, pc'[q] \in {"saving", "publish"} PROVE SaverWorks(q, op[q].id)'
  <2>1. CASE q = a
    <3>1. SaverWorks(a, i)' /\ op'[a].id = i
      BY <1>0, <1>1, <1>4, <2>1
    <3>. QED
      BY <2>1, <3>1
  <2>2. CASE q # a
    <3>1. /\ q \in Workers /\ pc'[q] = pc[q] /\ op'[q] = op[q]
          /\ op[q].id \in Ids /\ op[q].id # i
      BY <1>0, <1>1, <1>4, <2>2
    <3>2. PICK j \in Ids : j = op[q].id
      BY <3>1
    <3>3. SaverWorks(q, j)
      BY <1>4, <3>1, <3>2 DEF SaverInv
    <3>4. SameData(j)
      BY <3>1, <3>2
    <3>5. SaverWorks(q, j)'
      BY <3>1, <3>3, <3>4, DataFrame
    <3>6. j = op'[q].id
      BY <3>1, <3>2
    <3>. QED
      BY <3>5, <3>6
  <2>. QED
    BY <2>1, <2>2
<1>. QED
  BY <1>2, <1>3, <1>4 DEF RestInv, MutatorInv, SaverInv

LEMMA WorkersIds ==
    ASSUME OpInv
    PROVE  /\ \A b \in Workers : pc[b] # "idle" => op[b].id \in Ids
           /\ \A b \in Workers : Holding(b) => op[b].id \in Ids
           /\ \A b \in Workers : pc[b] \in Busy => op[b].id \in Ids
<1>1. ASSUME NEW b \in Workers, pc[b] # "idle" PROVE op[b].id \in Ids
  <2>1. CASE b \in Mutators
    <3>1. op[b] \in Asked \cup Prepared
      BY <1>1, <2>1 DEF OpInv, MutatorOp
    <3>. QED
      BY <3>1, OpType
  <2>2. CASE b \in Savers
    <3>1. op[b] \in HintAsked \cup HintPrepared
      BY <1>1, <2>2 DEF OpInv, SaverOp
    <3>. QED
      BY <3>1, OpType
  <2>. QED
    BY <2>1, <2>2 DEF Workers
<1>2. \A b : Holding(b) \/ pc[b] \in Busy => pc[b] # "idle"
  BY DEF Holding, Unprepared, HintUnprepared, Busy
<1>. QED
  BY <1>1, <1>2

(* A step of a goroutine that has no gate before and after.                *)
LEMMA LockOutside ==
    ASSUME ControlType, OpInv, LockInv, NEW a \in Actors, NEW x, Moves(a, x), gate' = gate,
           a \in Workers => ~ Holding(a) /\ x \notin Unprepared \cup HintUnprepared \cup Busy,
           holders' = IF x \in {"idle", "barrier"} THEN holders \ {a} ELSE holders \cup {a},
           Loader \in holders' => holders' = {Loader}
    PROVE  LockInv'
<1>1. pc'[a] = x
  BY MovesIs
<1>2. ~ (a \in Workers /\ Holding(a)')
  BY <1>1 DEF Holding
<1>3. \A j \in Ids : gate[j] # a
  <2>1. ASSUME NEW j \in Ids, gate[j] = a PROVE FALSE
    <3>1. a \in Workers
      BY <2>1, NobodyIsNone DEF ControlType
    <3>2. Holding(a)
      BY <2>1, <3>1, NobodyIsNone DEF LockInv
    <3>. QED
      BY <3>1, <3>2
  <2>. QED
    BY <2>1
<1>. QED
  BY <1>2, <1>3, LockMove, WorkersIds

(* The types and the ops after a step of goroutine a.                      *)
LEMMA ControlKeeps ==
    ASSUME IInv, NEW a \in Actors, NEW x, Moves(a, x),
           events' \in {events, events + 1},
           \A i \in Ids : authEpochs'[i] \in Nat /\ authEpochs'[i] >= authEpochs[i],
           holders' \subseteq Actors, gate' \in [Ids -> Workers \cup {None}],
           items' \in [Ids -> Saved \cup {None}],
           a = Loader => x \in {"idle", "barrier", "list", "replace"},
           a \in Mutators => MutatorOp(a)', a \in Savers => SaverOp(a)'
    PROVE  ControlType' /\ OpInv'
<1>. USE DEF IInv, TypeOK
<1>1. /\ pc'[a] = x /\ DOMAIN pc' = Actors /\ DOMAIN op' = Workers
      /\ \A b \in Actors : b # a => pc'[b] = pc[b]
      /\ \A b \in Workers : b # a => op'[b] = op[b]
  BY MovesIs
<1>2. ControlType'
  <2>1. pc'[Loader] \in {"idle", "barrier", "list", "replace"}
    BY <1>1, NobodyIsNone DEF ControlType
  <2>. QED
    BY <1>1, <2>1 DEF ControlType
<1>3. events \in Nat /\ authEpochs \in [Ids -> Nat]
  BY DEF DataType
<1>4. ASSUME NEW p \in Mutators PROVE MutatorOp(p)'
  <2>1. CASE p = a
    BY <2>1
  <2>2. CASE p # a
    BY <1>1, <1>3, <2>2, OpFrame, NobodyIsNone DEF OpInv, Workers
  <2>. QED
    BY <2>1, <2>2
<1>5. ASSUME NEW q \in Savers PROVE SaverOp(q)'
  <2>1. CASE q = a
    BY <2>1
  <2>2. CASE q # a
    BY <1>1, <1>3, <2>2, OpFrame, NobodyIsNone DEF OpInv, Workers
  <2>. QED
    BY <2>1, <2>2
<1>. QED
  BY <1>2, <1>4, <1>5 DEF OpInv

LEMMA SameDataAll ==
    ASSUME UNCHANGED <<mgrVars, diskVars>>
    PROVE  \A j : SameData(j)
  BY DEF mgrVars, diskVars, SameData

LEMMA DataTypeKept ==
    ASSUME DataType, UNCHANGED <<mgrVars, diskVars>>, events' \in {events, events + 1}
    PROVE  DataType'
<1>1. /\ \A y \in Auth : y \in Auth'
      /\ 0..events \subseteq (0..events)' /\ events' \in Nat
  BY AuthGrows DEF DataType
<1>2. auths' \in [Ids -> Auth' \cup {None}]
  BY <1>1 DEF DataType, mgrVars
<1>3. owed' \in [Ids -> (0..events)']
  BY <1>1 DEF DataType, mgrVars
<1>. QED
  BY <1>1, <1>2, <1>3 DEF DataType, mgrVars, diskVars, Saved, Version

(* A step of a goroutine that does not concern what is published or saved. *)
LEMMA LightKeeps ==
    ASSUME IInv, NEW a \in Actors, NEW x, Moves(a, x), UNCHANGED <<mgrVars, diskVars>>,
           events' \in {events, events + 1},
           pc[a] \notin Busy, x \notin Busy, LockInv',
           holders' \subseteq Actors, gate' \in [Ids -> Workers \cup {None}],
           items' \in [Ids -> Saved \cup {None}],
           a # Loader => items' = items,
           a = Loader => x \in {"idle", "barrier", "list", "replace"},
           a = Loader /\ x = "replace" => items' = store,
           a \in Mutators => MutatorOp(a)', a \in Savers => SaverOp(a)'
    PROVE  IInv'
<1>. USE DEF IInv, TypeOK
<1>1. /\ pc'[a] = x
      /\ \A b \in Actors : b # a => pc'[b] = pc[b]
      /\ \A b \in Workers : b # a => op'[b] = op[b]
  BY MovesIs
<1>2. DataType'
  BY DataTypeKept
<1>3. ControlType' /\ OpInv'
  <2>1. \A i \in Ids : authEpochs'[i] \in Nat /\ authEpochs'[i] >= authEpochs[i]
    BY DEF mgrVars, DataType
  <2>. QED
    BY <2>1, ControlKeeps
<1>4. EpochInv'
  <2>1. \A i \in Ids : /\ persisted'[i].epoch <= authEpochs'[i]
                       /\ auths'[i] # None => auths'[i].epoch <= authEpochs'[i]
    BY DEF EpochInv, mgrVars, diskVars
  <2>2. pc'[Loader] = "replace" => items' = store'
    BY <1>1, NobodyIsNone DEF EpochInv, diskVars
  <2>. QED
    BY <2>1, <2>2 DEF EpochInv
<1>5. \A j : SameData(j)
  BY SameDataAll
<1>6. \A b \in Workers : /\ pc'[b] \in Busy <=> pc[b] \in Busy
                         /\ pc[b] \in Busy => pc'[b] = pc[b] /\ op'[b] = op[b]
  <2>1. Workers \subseteq Actors
    BY NobodyIsNone
  <2>. QED
    BY <1>1, <2>1
<1>7. RestInv'
  <2>1. ASSUME NEW j \in Ids, ~ WorkedOn(j)' PROVE Rested(j)'
    <3>1. ~ WorkedOn(j)
      BY <1>6, <2>1 DEF WorkedOn
    <3>. QED
      BY <1>5, <3>1, DataFrame DEF RestInv
  <2>. QED
    BY <2>1 DEF RestInv
<1>8. MutatorInv'
  <2>1. ASSUME NEW p \in Mutators, pc'[p] \in Busy PROVE MutatorWorks(p, op[p].id)'
    <3>1. pc'[p] = pc[p] /\ op'[p] = op[p] /\ pc[p] \in Busy
      BY <1>6, <2>1 DEF Workers
    <3>2. PICK j : j = op[p].id
      OBVIOUS
    <3>3. MutatorWorks(p, j)'
      BY <1>5, <3>1, <3>2, DataFrame DEF MutatorInv
    <3>. QED
      BY <3>1, <3>2, <3>3
  <2>. QED
    BY <2>1 DEF MutatorInv
<1>9. SaverInv'
  <2>1. ASSUME NEW q \in Savers, pc'[q] \in {"saving", "publish"} PROVE SaverWorks(q, op[q].id)'
    <3>1. pc'[q] = pc[q] /\ op'[q] = op[q]
      BY <1>6, <2>1 DEF Workers, Busy
    <3>2. PICK j : j = op[q].id
      OBVIOUS
    <3>3. SaverWorks(q, j)'
      BY <1>5, <2>1, <3>1, <3>2, DataFrame DEF SaverInv
    <3>. QED
      BY <3>1, <3>2, <3>3
  <2>. QED
    BY <2>1 DEF SaverInv
<1>. QED
  BY <1>2, <1>3, <1>4, <1>7, <1>8, <1>9

-----------------------------------------------------------------------------
(***************************************************************************)
(* Steps outside the two critical sections                                 *)
(***************************************************************************)
LEMMA BeginKeeps ==
    ASSUME IInv, NEW p \in Mutators, NEW k \in Kinds, NEW i \in Ids, Begin(p, k, i)
    PROVE  IInv'
<1>. USE DEF IInv, TypeOK
<1>1. /\ p \in Workers /\ p \in Actors /\ pc[p] = "idle" /\ p # Loader
      /\ k \in AllKinds /\ p \notin Savers
  BY NobodyIsNone, CredentialStoreAssumption DEF Begin, Workers
<1>2. Moves(p, "barrier") /\ op'[p] = [kind |-> k, id |-> i, n |-> events + 1,
                                snap |-> IF k \in {"update", "refresh"} THEN auths[i] ELSE None]
  BY <1>1 DEF Begin, Enqueue, Moves, ControlType
<1>3. /\ events' = events + 1 /\ UNCHANGED <<mgrVars, diskVars, holders, gate, items>>
      /\ k \in {"update", "refresh"} => auths[i] # None
  BY DEF Begin
<1>4. MutatorOp(p)'
  <2>1. pc'[p] = "barrier" /\ events \in Nat /\ auths[i] \in Auth \cup {None}
    BY <1>1, <1>2, MovesIs DEF DataType
  <2>2. Auth \subseteq Auth' /\ events + 1 \in (1..events)'
    <3>1. events + 1 \in 1..(events + 1)
      BY <2>1
    <3>2. (1..events)' = 1..(events + 1)
      BY <1>3
    <3>. QED
      BY <1>3, <2>1, <3>1, <3>2, AuthGrows
  <2>3. op'[p] \in Asked'
    BY <1>1, <1>2, <2>1, <2>2 DEF Asked
  <2>4. op'[p].kind = k /\ op'[p].id = i
        /\ op'[p].snap = IF k \in {"update", "refresh"} THEN auths[i] ELSE None
    BY <1>2
  <2>5. op'[p].snap # None => op'[p].snap = auths[i] /\ auths[i] # None
    BY <2>4
  <2>6. op'[p].snap # None => op'[p].snap.epoch <= authEpochs'[op'[p].id]
    BY <1>3, <2>4, <2>5 DEF EpochInv, mgrVars
  <2>7. op'[p].kind \in {"update", "refresh"} => op'[p].snap # None
    BY <1>3, <2>4
  <2>. QED
    BY <2>1, <2>3, <2>6, <2>7 DEF MutatorOp, Outside
<1>5. LockInv'
  <2>1. ~ Holding(p) /\ "barrier" \notin Unprepared \cup HintUnprepared \cup Busy
    BY <1>1 DEF Holding, Unprepared, HintUnprepared, Busy
  <2>2. p \notin holders
    BY <1>1 DEF LockInv
  <2>3. holders' = holders \ {p} /\ gate' = gate /\ (Loader \in holders' => holders' = {Loader})
    BY <1>3, <2>2 DEF LockInv
  <2>. QED
    BY <1>1, <1>2, <2>1, <2>3, LockOutside
<1>6. pc[p] \notin Busy /\ "barrier" \notin Busy /\ events' \in {events, events + 1}
      /\ holders' \subseteq Actors /\ gate' \in [Ids -> Workers \cup {None}]
      /\ items' = items /\ items' \in [Ids -> Saved \cup {None}]
  BY <1>1, <1>3 DEF Busy, ControlType
<1>. QED
  BY <1>1, <1>2, <1>3, <1>4, <1>5, <1>6, LightKeeps

LEMMA BeginHintKeeps ==
    ASSUME IInv, NEW q \in Savers, NEW i \in Ids, BeginHint(q, i)
    PROVE  IInv'
<1>. USE DEF IInv, TypeOK
<1>1. q \in Workers /\ q \in Actors /\ pc[q] = "idle" /\ q # Loader /\ q \notin Mutators
  BY NobodyIsNone DEF BeginHint, Workers
<1>2. Moves(q, "barrier") /\ op'[q] = [kind |-> "hint", id |-> i, n |-> events + 1,
                                       epoch |-> auths[i].epoch]
  BY <1>1 DEF BeginHint, Enqueue, Moves, ControlType
<1>3. /\ events' = events + 1 /\ UNCHANGED <<mgrVars, diskVars, holders, gate, items>>
      /\ auths[i] # None
  BY DEF BeginHint
<1>4. SaverOp(q)'
  <2>1. pc'[q] = "barrier" /\ events + 1 \in Nat
    BY <1>1, <1>2, MovesIs DEF DataType
  <2>2. auths[i] \in Auth
    BY <1>3 DEF DataType
  <2>3. auths[i].epoch \in Nat
    BY <2>2 DEF Auth
  <2>4. op'[q] \in HintAsked'
    BY <1>2, <2>1, <2>3 DEF HintAsked
  <2>. QED
    BY <2>1, <2>4 DEF SaverOp, Outside
<1>5. LockInv'
  <2>1. ~ Holding(q) /\ "barrier" \notin Unprepared \cup HintUnprepared \cup Busy
    BY <1>1 DEF Holding, Unprepared, HintUnprepared, Busy
  <2>2. q \notin holders
    BY <1>1 DEF LockInv
  <2>3. holders' = holders \ {q} /\ gate' = gate /\ (Loader \in holders' => holders' = {Loader})
    BY <1>3, <2>2 DEF LockInv
  <2>. QED
    BY <1>1, <1>2, <2>1, <2>3, LockOutside
<1>6. pc[q] \notin Busy /\ "barrier" \notin Busy /\ events' \in {events, events + 1}
      /\ holders' \subseteq Actors /\ gate' \in [Ids -> Workers \cup {None}]
      /\ items' = items /\ items' \in [Ids -> Saved \cup {None}]
  BY <1>1, <1>3 DEF Busy, ControlType
<1>. QED
  BY <1>1, <1>2, <1>3, <1>4, <1>5, <1>6, LightKeeps

LEMMA PassBarrierKeeps ==
    ASSUME IInv, NEW a \in Actors, PassBarrier(a)
    PROVE  IInv'
<1>. USE DEF IInv, TypeOK
<1>. DEFINE x == IF a = Loader THEN "list" ELSE "gate"
<1>1. /\ pc[a] = "barrier" /\ Moves(a, x) /\ holders' = holders \cup {a}
      /\ UNCHANGED <<mgrVars, diskVars, gate, op, items, events>>
  BY DEF PassBarrier, Moves
<1>2. pc'[a] = x
  BY <1>1, MovesIs
<1>3. x \in {"list", "gate"} /\ x \notin {"idle", "barrier"} /\ x \notin Busy
      /\ pc[a] \notin Busy /\ x # "replace"
      /\ x \notin Unprepared \cup HintUnprepared \cup Busy
  BY <1>1 DEF Busy, Unprepared, HintUnprepared
<1>4. a # Loader => x = "gate"
  OBVIOUS
<1>5. a = Loader => x = "list"
  OBVIOUS
<1>. HIDE DEF x
<1>6. LockInv'
  <2>1. ~ Holding(a)
    BY <1>1 DEF Holding, Unprepared, HintUnprepared, Busy
  <2>2. Loader \in holders' => holders' = {Loader}
    <3>1. CASE a = Loader
      BY <1>1, <3>1 DEF PassBarrier, Fits
    <3>2. CASE a # Loader
      BY <1>1, <3>2 DEF PassBarrier, Fits
    <3>. QED
      BY <3>1, <3>2
  <2>. QED
    BY <1>1, <1>3, <2>1, <2>2, LockOutside
<1>7. a \in Mutators => MutatorOp(a)'
  <2>1. SUFFICES ASSUME a \in Mutators PROVE MutatorOp(a)'
    OBVIOUS
  <2>2. MutatorOp(a) /\ pc'[a] = "gate" /\ a # Loader
    BY <1>2, <1>4, <2>1, NobodyIsNone DEF OpInv, Workers
  <2>3. UNCHANGED <<op, events, authEpochs>>
    BY <1>1 DEF mgrVars
  <2>. QED
    BY <1>1, <2>2, <2>3 DEF MutatorOp, Outside, Unprepared, Busy, Asked, Auth
<1>8. a \in Savers => SaverOp(a)'
  <2>1. SUFFICES ASSUME a \in Savers PROVE SaverOp(a)'
    OBVIOUS
  <2>2. SaverOp(a) /\ pc'[a] = "gate"
    BY <1>2, <1>4, <2>1, NobodyIsNone DEF OpInv, Workers
  <2>. QED
    BY <1>1, <2>2 DEF SaverOp, Outside, HintUnprepared, HintAsked
<1>9. /\ holders' \subseteq Actors /\ gate' \in [Ids -> Workers \cup {None}]
      /\ items' = items /\ items' \in [Ids -> Saved \cup {None}] /\ events' \in {events, events + 1}
  BY <1>1 DEF ControlType
<1>. QED
  BY <1>1, <1>3, <1>5, <1>6, <1>7, <1>8, <1>9, LightKeeps

(* A worker that ends before it has prepared a save.                       *)
LEMMA EndKeeps ==
    ASSUME IInv, NEW a \in Workers, Moves(a, "idle"), op'[a] = NoOp, pc[a] \notin Busy,
           UNCHANGED <<mgrVars, diskVars, items, events>>, holders' = holders \ {a},
           NEW i \in Ids, op[a].id = i, gate' = [gate EXCEPT ![i] = IF @ = a THEN None ELSE @]
    PROVE  IInv'
<1>. USE DEF IInv, TypeOK
<1>1. a \in Actors /\ a # Loader /\ pc'[a] = "idle" /\ "idle" \notin Busy
  BY NobodyIsNone, MovesIs DEF Busy
<1>2. LockInv'
  BY LockLeaves, WorkersIds
<1>3. MutatorOp(a)' /\ SaverOp(a)'
  BY <1>1 DEF MutatorOp, SaverOp, NoOp
<1>4. gate' \in [Ids -> Workers \cup {None}] /\ holders' \subseteq Actors
      /\ items' = items /\ items' \in [Ids -> Saved \cup {None}] /\ events' \in {events, events + 1}
  BY DEF ControlType
<1>. QED
  BY <1>1, <1>2, <1>3, <1>4, LightKeeps

LEMMA EndsKeep ==
    ASSUME IInv,
           \/ \E p \in Mutators : GiveUpWaiting(p) \/ Refuse(p)
           \/ \E q \in Savers : AbortHint(q) \/ RejectHint(q)
    PROVE  IInv'
<1>. USE DEF IInv, TypeOK
<1>1. ASSUME NEW p \in Mutators, GiveUpWaiting(p) PROVE IInv'
  <2>1. p \in Workers /\ op[p].id \in Ids /\ pc[p] \in Outside
    BY <1>1, WorkersIds DEF GiveUpWaiting, Workers, Outside
  <2>2. \A j \in Ids : gate[j] # p
    <3>1. ~ Holding(p)
      BY <2>1 DEF Holding, Outside, Unprepared, HintUnprepared, Busy
    <3>. QED
      BY <2>1, <3>1, NobodyIsNone DEF LockInv
  <2>3. PICK i \in Ids : i = op[p].id
    BY <2>1
  <2>4. gate = [gate EXCEPT ![i] = IF @ = p THEN None ELSE @]
    BY <2>2 DEF ControlType
  <2>5. Moves(p, "idle") /\ op'[p] = NoOp /\ gate' = gate /\ holders' = holders \ {p}
        /\ UNCHANGED <<mgrVars, diskVars, items, events>>
    BY <1>1, <2>1 DEF GiveUpWaiting, Moves, ControlType
  <2>6. pc[p] \notin Busy
    BY <2>1 DEF Outside, Busy
  <2>. QED
    BY <2>1, <2>3, <2>4, <2>5, <2>6, EndKeeps
<1>2. ASSUME NEW p \in Mutators, Refuse(p) PROVE IInv'
  <2>1. p \in Workers /\ op[p].id \in Ids /\ pc[p] = "locked"
    BY <1>2, WorkersIds DEF Refuse, Workers
  <2>2. gate[op[p].id] = p
    BY <2>1 DEF LockInv, Holding, Unprepared
  <2>3. PICK i \in Ids : i = op[p].id
    BY <2>1
  <2>4. Moves(p, "idle") /\ op'[p] = NoOp /\ holders' = holders \ {p}
        /\ gate' = [gate EXCEPT ![i] = None]
        /\ UNCHANGED <<mgrVars, diskVars, items, events>>
    BY <1>2, <2>1, <2>3 DEF Refuse, Leave, Moves, ControlType
  <2>5. gate' = [gate EXCEPT ![i] = IF @ = p THEN None ELSE @]
    BY <2>2, <2>3, <2>4
  <2>6. pc[p] \notin Busy
    BY <2>1 DEF Busy
  <2>. QED
    BY <2>1, <2>3, <2>4, <2>5, <2>6, EndKeeps
<1>3. ASSUME NEW q \in Savers, AbortHint(q) \/ RejectHint(q) PROVE IInv'
  <2>1. q \in Workers /\ op[q].id \in Ids
        /\ pc[q] \in {"barrier", "gate", "save gate", "foreground", "check"}
    BY <1>3, WorkersIds DEF AbortHint, RejectHint, Workers
  <2>2. PICK i \in Ids : i = op[q].id
    BY <2>1
  <2>3. LeaveHint(q) /\ UNCHANGED <<mgrVars, diskVars, items, events>>
    BY <1>3 DEF AbortHint, RejectHint
  <2>4. Moves(q, "idle") /\ op'[q] = NoOp /\ holders' = holders \ {q}
        /\ gate' = [gate EXCEPT ![i] = IF @ = q THEN None ELSE @]
    BY <2>1, <2>2, <2>3 DEF LeaveHint, Moves, ControlType
  <2>5. pc[q] \notin Busy
    BY <2>1 DEF Busy
  <2>. QED
    BY <2>1, <2>2, <2>3, <2>4, <2>5, EndKeeps
<1>. QED
  BY <1>1, <1>2, <1>3

(* A worker takes the gate of its credential.                              *)
LEMMA LockTakes ==
    ASSUME ControlType, OpInv, LockInv, NEW a \in Workers, NEW x, Moves(a, x),
           pc[a] = "gate", x \in Unprepared \cup HintUnprepared, op' = op,
           gate[op[a].id] = None, gate' = [gate EXCEPT ![op[a].id] = a], holders' = holders
    PROVE  LockInv'
<1>1. pc'[a] = x /\ a \in Actors /\ op[a].id \in Ids
  BY MovesIs, NobodyIsNone, WorkersIds
<1>2. ~ Holding(a) /\ Holding(a)' /\ x \notin {"idle", "barrier"}
  BY <1>1 DEF Holding, Unprepared, HintUnprepared, Busy
<1>3. \A j \in Ids : gate[j] # a
  BY <1>2, NobodyIsNone DEF LockInv
<1>4. holders' = holders \cup {a} /\ (Loader \in holders' => holders' = {Loader})
  BY <1>1 DEF LockInv
<1>5. \A j \in Ids : gate'[j] = IF op[a].id = j THEN a ELSE gate[j]
  BY DEF ControlType
<1>. QED
  BY <1>1, <1>2, <1>3, <1>4, <1>5, LockMove, WorkersIds

LEMMA TakeGateKeeps ==
    ASSUME IInv, NEW p \in Mutators, TakeGate(p)
    PROVE  IInv'
<1>. USE DEF IInv, TypeOK
<1>. DEFINE x == IF op[p].kind = "modify" THEN "clone" ELSE "locked"
<1>1. p \in Workers /\ p \in Actors /\ p # Loader /\ p \notin Savers /\ pc[p] = "gate"
  BY NobodyIsNone DEF TakeGate, Workers
<1>2. /\ Moves(p, x) /\ op' = op /\ gate[op[p].id] = None /\ gate' = [gate EXCEPT ![op[p].id] = p]
      /\ UNCHANGED <<mgrVars, diskVars, holders, items, events>>
  BY DEF TakeGate, Moves
<1>3. pc'[p] = x
  BY <1>1, <1>2, MovesIs
<1>4. x \in Unprepared /\ x \notin Busy /\ pc[p] \notin Busy
  BY <1>1 DEF Unprepared, Busy
<1>5. LockInv'
  BY <1>1, <1>2, <1>4, LockTakes
<1>6. MutatorOp(p)'
  <2>1. op[p] \in Asked /\ (op[p].snap # None => op[p].snap.epoch <= authEpochs[op[p].id])
        /\ (op[p].kind \in {"update", "refresh"} => op[p].snap # None)
    BY <1>1 DEF OpInv, MutatorOp, Busy
  <2>2. Asked' = Asked /\ authEpochs' = authEpochs
    BY <1>2 DEF Asked, Auth, mgrVars
  <2>3. op[p].kind = "modify" => pc'[p] = "clone"
    BY <1>3
  <2>. QED
    BY <1>2, <1>3, <1>4, <2>1, <2>2, <2>3 DEF MutatorOp
<1>7. holders' \subseteq Actors /\ gate' \in [Ids -> Workers \cup {None}]
      /\ items' = items /\ items' \in [Ids -> Saved \cup {None}] /\ events' \in {events, events + 1}
  BY <1>1, <1>2 DEF ControlType
<1>. HIDE DEF x
<1>. QED
  BY <1>1, <1>2, <1>4, <1>5, <1>6, <1>7, LightKeeps

LEMMA CloneKeeps ==
    ASSUME IInv, NEW p \in Mutators, CloneCurrent(p)
    PROVE  IInv'
<1>. USE DEF IInv, TypeOK
<1>1. p \in Workers /\ p \in Actors /\ p # Loader /\ p \notin Savers /\ pc[p] = "clone"
      /\ op[p].id \in Ids
  BY NobodyIsNone, WorkersIds DEF CloneCurrent, Workers
<1>2. PICK i \in Ids : i = op[p].id
  BY <1>1
<1>3. UNCHANGED <<mgrVars, diskVars, items, events>> /\ pc[p] \notin Busy /\ gate[i] = p
  BY <1>1, <1>2 DEF CloneCurrent, Busy, LockInv, Holding, Unprepared
<1>4. CASE auths[i] = None
  <2>1. Moves(p, "idle") /\ op'[p] = NoOp /\ holders' = holders \ {p}
        /\ gate' = [gate EXCEPT ![i] = None]
    BY <1>1, <1>2, <1>4 DEF CloneCurrent, Leave, Moves, ControlType
  <2>2. gate' = [gate EXCEPT ![i] = IF @ = p THEN None ELSE @]
    BY <1>3, <2>1
  <2>. QED
    BY <1>1, <1>2, <1>3, <2>1, <2>2, EndKeeps
<1>5. CASE auths[i] # None
  <2>1. /\ op' = [op EXCEPT ![p].snap = auths[i]] /\ UNCHANGED <<gate, holders>>
        /\ pc' = [pc EXCEPT ![p] = "locked"]
    BY <1>2, <1>5 DEF CloneCurrent
  <2>2. Moves(p, "locked") /\ op'[p] = [op[p] EXCEPT !.snap = auths[i]]
    BY <1>1, <2>1 DEF Moves, ControlType
  <2>3. pc'[p] = "locked"
    BY <1>1, <2>2, MovesIs
  <2>4. op[p] \in Asked /\ auths[i] \in Auth
    BY <1>1, <1>2, <1>5 DEF OpInv, MutatorOp, Busy, DataType
  <2>5. op'[p] \in Asked /\ op'[p].snap = auths[i] /\ op'[p].id = i /\ op'[p].kind = op[p].kind
    BY <1>2, <2>2, <2>4 DEF Asked
  <2>6. Asked' = Asked /\ authEpochs' = authEpochs
    BY <1>3 DEF Asked, Auth, mgrVars
  <2>7. MutatorOp(p)'
    BY <1>5, <2>3, <2>5, <2>6 DEF MutatorOp, Unprepared, EpochInv
  <2>8. LockInv'
    BY <1>1, <1>2, <2>1, <2>2, <2>3, <2>5, LockStays, WorkersIds DEF Holding, Unprepared
  <2>9. holders' \subseteq Actors /\ gate' \in [Ids -> Workers \cup {None}] /\ "locked" \notin Busy
        /\ items' = items /\ items' \in [Ids -> Saved \cup {None}] /\ events' \in {events, events + 1}
    BY <1>3, <2>1 DEF ControlType, Busy
  <2>. QED
    BY <1>1, <1>3, <2>2, <2>7, <2>8, <2>9, LightKeeps
<1>. QED
  BY <1>4, <1>5

LEMMA HintStepKeeps ==
    ASSUME IInv, NEW q \in Savers, TakeGateHint(q) \/ TakeSaveGate(q) \/ RegisterSave(q)
    PROVE  IInv'
<1>. USE DEF IInv, TypeOK
<1>1. q \in Workers /\ q \in Actors /\ q # Loader /\ q \notin Mutators
  BY NobodyIsNone DEF Workers
<1>2. UNCHANGED <<mgrVars, diskVars, op, holders, items, events>>
  BY DEF TakeGateHint, TakeSaveGate, RegisterSave, gateVars
<1>3. ASSUME NEW x \in HintUnprepared, Moves(q, x), pc[q] \in {"gate"} \cup HintUnprepared,
             gate' \in [Ids -> Workers \cup {None}], LockInv'
      PROVE  IInv'
  <2>1. pc'[q] = x /\ pc[q] \notin Busy /\ x \notin Busy
    BY <1>1, <1>3, MovesIs DEF HintUnprepared, Busy
  <2>2. SaverOp(q)'
    <3>1. op[q] \in HintAsked
      BY <1>3 DEF OpInv, SaverOp, HintUnprepared
    <3>. QED
      BY <1>2, <1>3, <2>1, <3>1 DEF SaverOp, HintAsked
  <2>3. holders' \subseteq Actors /\ items' = items /\ items' \in [Ids -> Saved \cup {None}]
        /\ events' \in {events, events + 1}
    BY <1>2 DEF ControlType
  <2>. QED
    BY <1>1, <1>2, <1>3, <2>1, <2>2, <2>3, LightKeeps
<1>4. CASE TakeGateHint(q)
  <2>1. /\ pc[q] = "gate" /\ Moves(q, "save gate") /\ gate[op[q].id] = None
        /\ gate' = [gate EXCEPT ![op[q].id] = q]
    BY <1>4 DEF TakeGateHint, Moves
  <2>2. "save gate" \in HintUnprepared
    BY DEF HintUnprepared
  <2>3. LockInv'
    BY <1>1, <1>2, <2>1, <2>2, LockTakes
  <2>4. gate' \in [Ids -> Workers \cup {None}]
    BY <1>1, <2>1 DEF ControlType
  <2>. QED
    BY <1>3, <2>1, <2>2, <2>3, <2>4
<1>5. ASSUME NEW x \in HintUnprepared, Moves(q, x), pc[q] \in HintUnprepared, gate' = gate
      PROVE  IInv'
  <2>1. pc'[q] = x
    BY <1>1, <1>5, MovesIs
  <2>2. Holding(q) /\ Holding(q)' /\ x \notin {"idle", "barrier"} /\ pc[q] \notin {"idle", "barrier"}
    BY <1>5, <2>1 DEF Holding, HintUnprepared
  <2>3. LockInv'
    BY <1>1, <1>2, <1>5, <2>2, LockStays, WorkersIds
  <2>4. gate' \in [Ids -> Workers \cup {None}]
    BY <1>5 DEF ControlType
  <2>. QED
    BY <1>3, <1>5, <2>3, <2>4
<1>6. CASE TakeSaveGate(q)
  <2>1. pc[q] = "save gate" /\ Moves(q, "foreground") /\ gate' = gate
    BY <1>6 DEF TakeSaveGate, Moves, gateVars
  <2>. QED
    BY <1>5, <2>1 DEF HintUnprepared
<1>7. CASE RegisterSave(q)
  <2>1. pc[q] = "foreground" /\ Moves(q, "check") /\ gate' = gate
    BY <1>7 DEF RegisterSave, Moves, gateVars
  <2>. QED
    BY <1>5, <2>1 DEF HintUnprepared
<1>. QED
  BY <1>4, <1>6, <1>7

LEMMA LoaderKeeps ==
    ASSUME IInv, BeginLoad \/ ListStore
    PROVE  IInv'
<1>. USE DEF IInv, TypeOK
<1>1. Loader \in Actors /\ Loader \notin Workers /\ Loader \notin Mutators /\ Loader \notin Savers
  BY NobodyIsNone DEF Workers
<1>2. CASE BeginLoad
  <2>1. /\ pc[Loader] = "idle" /\ Moves(Loader, "barrier") /\ events' = events + 1
        /\ UNCHANGED <<mgrVars, diskVars, holders, gate, items>>
    BY <1>2 DEF BeginLoad, Enqueue, Moves
  <2>2. Loader \notin holders
    BY <1>1, <2>1 DEF LockInv
  <2>3. holders' = holders \ {Loader} /\ (Loader \in holders' => holders' = {Loader})
    BY <2>1, <2>2
  <2>4. LockInv'
    BY <1>1, <2>1, <2>3, LockOutside
  <2>5. pc[Loader] \notin Busy /\ "barrier" \notin Busy /\ events' \in {events, events + 1}
        /\ holders' \subseteq Actors /\ gate' \in [Ids -> Workers \cup {None}]
        /\ items' \in [Ids -> Saved \cup {None}]
    BY <2>1 DEF Busy, ControlType
  <2>. QED
    BY <1>1, <2>1, <2>4, <2>5, LightKeeps
<1>3. CASE ListStore
  <2>1. /\ pc[Loader] = "list" /\ Moves(Loader, "replace") /\ items' = store
        /\ UNCHANGED <<mgrVars, diskVars, holders, gate, events>>
    BY <1>3 DEF ListStore, Moves, gateVars
  <2>2. Loader \in holders
    BY <1>1, <2>1 DEF LockInv
  <2>3. holders' = holders \cup {Loader} /\ (Loader \in holders' => holders' = {Loader})
    BY <2>1, <2>2 DEF LockInv
  <2>4. LockInv'
    BY <1>1, <2>1, <2>3, LockOutside
  <2>5. pc[Loader] \notin Busy /\ "replace" \notin Busy /\ events' \in {events, events + 1}
        /\ holders' \subseteq Actors /\ gate' \in [Ids -> Workers \cup {None}]
        /\ items' \in [Ids -> Saved \cup {None}]
    BY <2>1 DEF Busy, ControlType, DataType
  <2>. QED
    BY <1>1, <2>1, <2>4, <2>5, LightKeeps
<1>. QED
  BY <1>2, <1>3

(* A step outside what the invariant speaks of.                            *)
LEMMA StutterKeeps ==
    ASSUME IInv, UNCHANGED <<mgrVars, diskVars, holders, gate, pc, op, items, events>>
    PROVE  IInv'
<1>. USE DEF IInv, TypeOK
<1>1. DataType'
  BY DataTypeKept DEF DataType
<1>2. ControlType'
  BY DEF ControlType, Saved
<1>3. Auth' = Auth /\ authEpochs' = authEpochs
  BY DEF Auth, mgrVars
<1>4. OpInv'
  BY <1>3 DEF OpInv, MutatorOp, SaverOp, Asked, Prepared, HintAsked, HintPrepared
<1>5. LockInv'
  BY DEF LockInv, Holding
<1>6. EpochInv'
  BY DEF EpochInv, mgrVars, diskVars
<1>7. \A j : SameData(j)
  BY SameDataAll
<1>8. \A j : WorkedOn(j)' <=> WorkedOn(j)
  BY DEF WorkedOn
<1>9. RestInv'
  BY <1>7, <1>8, DataFrame DEF RestInv
<1>10. MutatorInv'
  <2>1. ASSUME NEW p \in Mutators, pc'[p] \in Busy PROVE MutatorWorks(p, op[p].id)'
    <3>1. PICK j : j = op[p].id
      OBVIOUS
    <3>2. MutatorWorks(p, j)'
      BY <1>7, <2>1, <3>1, DataFrame DEF MutatorInv
    <3>. QED
      BY <3>1, <3>2
  <2>. QED
    BY <2>1 DEF MutatorInv
<1>11. SaverInv'
  <2>1. ASSUME NEW q \in Savers, pc'[q] \in {"saving", "publish"} PROVE SaverWorks(q, op[q].id)'
    <3>1. PICK j : j = op[q].id
      OBVIOUS
    <3>2. SaverWorks(q, j)'
      BY <1>7, <2>1, <3>1, DataFrame DEF SaverInv
    <3>. QED
      BY <3>1, <3>2
  <2>. QED
    BY <2>1 DEF SaverInv
<1>. QED
  BY <1>1, <1>2, <1>4, <1>5, <1>6, <1>9, <1>10, <1>11

-----------------------------------------------------------------------------
(***************************************************************************)
(* Steps of a goroutine that holds the gate of a credential                *)
(***************************************************************************)

(* It concerns no other credential, and comes between nobody's two         *)
(* critical sections: gate and barrier keep everyone else out.             *)
LEMMA HeldStep ==
    ASSUME IInv, NEW a \in Workers, NEW x, Moves(a, x), NEW i \in Ids,
           Holding(a), op[a].id = i, \A j \in Ids : j # i => SameData(j),
           DataType', events' \in {events, events + 1}, items' = items,
           authEpochs'[i] >= authEpochs[i], persisted'[i].epoch <= authEpochs'[i],
           auths'[i] # None => auths'[i].epoch <= authEpochs'[i],
           \/ /\ x \in Busy /\ UNCHANGED <<holders, gate>> /\ op'[a].id = i
              /\ a \in Mutators => MutatorOp(a)' /\ MutatorWorks(a, i)'
              /\ a \in Savers => SaverOp(a)' /\ SaverWorks(a, i)'
           \/ /\ x = "idle" /\ op'[a] = NoOp /\ holders' = holders \ {a}
              /\ gate' = [gate EXCEPT ![i] = None]
              /\ Rested(i)'
    PROVE  IInv'
<1>. USE DEF IInv, TypeOK
<1>1. /\ a \in Actors /\ a # Loader /\ pc'[a] = x /\ gate[i] = a
      /\ \A b \in Actors : b # a => pc'[b] = pc[b]
  BY NobodyIsNone, MovesIs DEF LockInv
<1>2. pc[a] \notin {"idle", "barrier"}
  BY DEF Holding, Unprepared, HintUnprepared, Busy
<1>3. pc[Loader] \notin {"list", "replace"}
  BY <1>1, <1>2, NobodyIsNone DEF LockInv
<1>4. \A b \in Workers : b # a /\ pc[b] \in Busy => op[b].id # i
  <2>1. \A b \in Workers : pc[b] \in Busy => Holding(b)
    BY DEF Holding
  <2>. QED
    BY <1>1, <2>1 DEF LockInv
<1>5. LockInv'
  <2>1. CASE x \in Busy
    <3>1. UNCHANGED <<holders, gate>> /\ op'[a].id = i /\ Holding(a)' /\ x \notin {"idle", "barrier"}
      BY <1>1, <2>1 DEF Busy, Holding
    <3>. QED
      BY <1>1, <1>2, <3>1, LockStays, WorkersIds
  <2>2. CASE x = "idle"
    <3>1. gate' = [gate EXCEPT ![i] = IF @ = a THEN None ELSE @] /\ holders' = holders \ {a}
      BY <1>1, <2>2 DEF Busy
    <3>. QED
      BY <2>2, <3>1, LockLeaves, WorkersIds
  <2>. QED
    BY <2>1, <2>2
<1>6. ControlType' /\ OpInv'
  <2>1. \A j \in Ids : authEpochs'[j] \in Nat /\ authEpochs'[j] >= authEpochs[j]
    BY DEF DataType, SameData
  <2>2. holders' \subseteq Actors /\ gate' \in [Ids -> Workers \cup {None}]
        /\ items' \in [Ids -> Saved \cup {None}]
    BY DEF ControlType
  <2>3. op'[a] = NoOp /\ x = "idle" => MutatorOp(a)' /\ SaverOp(a)'
    BY <1>1 DEF MutatorOp, SaverOp, NoOp
  <2>. QED
    BY <1>1, <2>1, <2>2, <2>3, ControlKeeps
<1>7. EpochInv'
  <2>1. \A j \in Ids : /\ persisted'[j].epoch <= authEpochs'[j]
                       /\ auths'[j] # None => auths'[j].epoch <= authEpochs'[j]
    BY DEF EpochInv, SameData
  <2>2. pc'[Loader] # "replace"
    BY <1>1, <1>3, NobodyIsNone
  <2>. QED
    BY <2>1, <2>2 DEF EpochInv
<1>8. RestInv' /\ MutatorInv' /\ SaverInv'
  <2>1. "idle" \notin Busy
    BY DEF Busy
  <2>. QED
    BY <1>4, <2>1, WorkerStep, WorkersIds
<1>. QED
  BY <1>5, <1>6, <1>7, <1>8

(* The data after a change of credential i.                                *)
LEMMA DataTypeChanged ==
    ASSUME DataType, NEW i \in Ids, events' \in {events, events + 1},
           auths' = auths \/ \E v \in Auth' \cup {None} : auths' = [auths EXCEPT ![i] = v],
           authEpochs' = authEpochs \/ \E v \in Nat : authEpochs' = [authEpochs EXCEPT ![i] = v],
           store' = store \/ \E v \in Saved : store' = [store EXCEPT ![i] = v],
           persisted' = persisted \/ \E v \in Version : persisted' = [persisted EXCEPT ![i] = v],
           unsaved' = unsaved \/ \E v \in BOOLEAN : unsaved' = [unsaved EXCEPT ![i] = v],
           owed' = owed \/ \E v \in (0..events)' : owed' = [owed EXCEPT ![i] = v]
    PROVE  DataType' /\ \A j \in Ids : j # i => SameData(j)
<1>1. /\ \A y \in Auth : y \in Auth'
      /\ 0..events \subseteq (0..events)' /\ events' \in Nat
  BY AuthGrows DEF DataType
<1>2. auths' \in [Ids -> Auth' \cup {None}] /\ (\A j \in Ids : j # i => auths'[j] = auths[j])
  <2>1. auths \in [Ids -> Auth' \cup {None}]
    BY <1>1 DEF DataType
  <2>. QED
    BY <2>1
<1>3. authEpochs' \in [Ids -> Nat] /\ (\A j \in Ids : j # i => authEpochs'[j] = authEpochs[j])
  BY DEF DataType
<1>4. store' \in [Ids -> Saved \cup {None}] /\ (\A j \in Ids : j # i => store'[j] = store[j])
  BY DEF DataType
<1>5. persisted' \in [Ids -> Version] /\ (\A j \in Ids : j # i => persisted'[j] = persisted[j])
  BY DEF DataType
<1>6. unsaved' \in [Ids -> BOOLEAN] /\ (\A j \in Ids : j # i => unsaved'[j] = unsaved[j])
  BY DEF DataType
<1>7. owed' \in [Ids -> (0..events)'] /\ (\A j \in Ids : j # i => owed'[j] = owed[j])
  <2>1. owed \in [Ids -> (0..events)']
    BY <1>1 DEF DataType
  <2>. QED
    BY <2>1
<1>8. Saved' = Saved /\ Version' = Version
  BY DEF Saved, Version
<1>. QED
  BY <1>1, <1>2, <1>3, <1>4, <1>5, <1>6, <1>7, <1>8 DEF DataType, SameData

(* An object to save is never None, and never older than the published one *)
(* or than a save that was started before.                                 *)
LEMMA AuthIsObject ==
    ASSUME events \in Nat, events' \in Nat
    PROVE  None \notin Auth /\ None \notin Auth'
<1>1. \A n \in Nat : [epoch : Nat, gen : Nat, edit : Nat, run : 0..n, hint : Nat, stamp : Nat]
                        \subseteq Objects
  BY DEF Objects
<1>. QED
  BY <1>1, CredentialStoreAssumption DEF Auth

LEMMA RestedWhenHeld ==
    ASSUME IInv, NEW a \in Workers, Holding(a), pc[a] \notin Busy
    PROVE  op[a].id \in Ids /\ Rested(op[a].id)
<1>1. op[a].id \in Ids /\ gate[op[a].id] = a
  BY WorkersIds DEF IInv, LockInv
<1>2. ~ WorkedOn(op[a].id)
  <2>1. SUFFICES ASSUME NEW b \in Workers, pc[b] \in Busy, op[b].id = op[a].id PROVE FALSE
    BY DEF WorkedOn
  <2>2. Holding(b)
    BY <2>1 DEF Holding
  <2>3. gate[op[b].id] = b
    BY <2>2 DEF IInv, LockInv
  <2>. QED
    BY <1>1, <2>1, <2>3
<1>. QED
  BY <1>1, <1>2 DEF IInv, RestInv

LEMMA NewAuthIs ==
    ASSUME IInv, NEW p \in Mutators, pc[p] = "locked", op[p].kind # "remove", ~ Refused(p),
           NEW i \in Ids, i = op[p].id
    PROVE  LET a == NewAuth(p)
           IN  /\ a \in Auth /\ a.epoch >= authEpochs[i] /\ ~ Outdated(a, i)
               /\ op[p].kind = "register" => a.run = 0
               /\ op[p].kind # "register" =>
                     /\ auths[i] \in Auth /\ auths[i] # None /\ auths[i].epoch = authEpochs[i]
                     /\ auths[i].run = owed[i] /\ a.epoch = authEpochs[i]
               /\ op[p].kind = "refresh" => a.run = auths[i].run /\ a.gen = auths[i].gen + 1
               /\ op[p].kind = "result" => SameContent(a, auths[i])
<1>. DEFINE a == NewAuth(p)
            cur == auths[i]
            snap == op[p].snap
<1>1. /\ p \in Workers /\ Holding(p) /\ pc[p] \notin Busy
      /\ op[p] \in Asked
      /\ snap # None => snap.epoch <= authEpochs[i]
      /\ op[p].kind \in {"update", "modify", "refresh"} => snap # None
  <2>1. p \in Workers /\ Holding(p) /\ pc[p] \notin Busy
    BY DEF Workers, Holding, Unprepared, Busy
  <2>2. MutatorOp(p)
    BY DEF IInv, OpInv
  <2>. QED
    BY <2>1, <2>2 DEF MutatorOp, Busy
<1>2. Rested(i)
  BY <1>1, RestedWhenHeld
<1>3. /\ op[p].n \in 1..events /\ snap \in Auth \cup {None} /\ cur \in Auth \cup {None}
      /\ events \in Nat /\ authEpochs[i] \in Nat /\ persisted[i] \in Version
      /\ op[p].kind \in AllKinds
  BY <1>1, OpType DEF IInv, TypeOK, DataType
<1>4. persisted[i].epoch \in Nat /\ persisted[i].gen \in Nat /\ persisted[i].epoch <= authEpochs[i]
  BY <1>3 DEF Version, IInv, EpochInv
<1>5. CASE op[p].kind = "register"
  <2>1. a = [epoch |-> authEpochs[i] + 1, gen |-> 1, edit |-> op[p].n, run |-> 0, hint |-> 0,
             stamp |-> 0]
    BY <1>5 DEF NewAuth
  <2>2. a \in Auth
    BY <1>3, <2>1 DEF Auth
  <2>3. a.epoch = authEpochs[i] + 1 /\ a.run = 0
    BY <2>1
  <2>. HIDE DEF a
  <2>4. a.epoch >= authEpochs[i] /\ ~ Outdated(a, i)
    BY <1>3, <1>4, <2>3 DEF Outdated
  <2>. QED
    BY <1>5, <2>2, <2>3, <2>4 DEF a
<1>6. CASE op[p].kind # "register"
  <2>1. cur # None /\ cur \in Auth
    BY <1>3, <1>6 DEF Refused
  <2>2. cur.epoch = authEpochs[i] /\ cur.run = owed[i] /\ VersionFits(i)
    BY <1>2, <2>1 DEF Rested
  <2>3. cur.gen \in Nat /\ cur.edit \in Nat /\ cur.hint \in Nat /\ cur.run \in 0..events
    BY <2>1 DEF Auth
  <2>4. a \in Auth /\ a.epoch = authEpochs[i] /\ a.gen \in Nat /\ a.gen >= cur.gen + 1
        /\ (op[p].kind = "refresh" => a.run = cur.run /\ a.gen = cur.gen + 1)
        /\ (op[p].kind = "result" => SameContent(a, cur))
    <3>1. CASE op[p].kind \in {"update", "modify"}
      <4>1. snap \in Auth /\ snap.epoch <= authEpochs[i] /\ ~ (snap.epoch < authEpochs[i])
        BY <1>1, <1>3, <3>1 DEF Refused
      <4>2. snap.epoch = authEpochs[i] /\ snap.gen \in Nat
        BY <1>3, <4>1 DEF Auth
      <4>3. a = [snap EXCEPT !.edit = op[p].n, !.gen = Larger(snap.gen, cur.gen) + 1,
                             !.hint = IF cur.hint # 0 THEN cur.hint ELSE @]
        BY <3>1 DEF NewAuth
      <4>4. Larger(snap.gen, cur.gen) \in Nat /\ Larger(snap.gen, cur.gen) >= cur.gen
        BY <2>3, <4>2 DEF Larger
      <4>. DEFINE g == Larger(snap.gen, cur.gen) + 1
      <4>5. g \in Nat /\ g >= cur.gen + 1
        BY <2>3, <4>4
      <4>. HIDE DEF g
      <4>6. a = [snap EXCEPT !.edit = op[p].n, !.gen = g,
                             !.hint = IF cur.hint # 0 THEN cur.hint ELSE @]
        BY <4>3 DEF g
      <4>7. a \in Auth /\ a.epoch = snap.epoch /\ a.gen = g
        <5>1. op[p].n \in Nat /\ snap.hint \in Nat
          BY <1>3, <4>1 DEF Auth
        <5>2. PICK h \in Nat : h = IF cur.hint # 0 THEN cur.hint ELSE snap.hint
          BY <2>3, <5>1
        <5>3. PICK o \in Auth : o = snap
          BY <4>1
        <5>4. PICK n \in Nat : n = op[p].n
          BY <5>1
        <5>5. PICK m \in Nat : m = g
          BY <4>5
        <5>6. a = [o EXCEPT !.edit = n, !.gen = m, !.hint = h]
          BY <4>6, <5>2, <5>3, <5>4, <5>5
        <5>. HIDE DEF a, snap
        <5>7. a \in Auth /\ a.epoch = o.epoch /\ a.gen = m
          BY <5>6 DEF Auth
        <5>. QED
          BY <5>3, <5>5, <5>7
      <4>. HIDE DEF a
      <4>. QED
        BY <3>1, <4>2, <4>5, <4>7
    <3>2. CASE op[p].kind = "refresh"
      <4>1. a = [cur EXCEPT !.edit = op[p].n, !.gen = @ + 1]
        BY <3>2 DEF NewAuth
      <4>2. a \in Auth /\ a.epoch = cur.epoch /\ a.gen = cur.gen + 1 /\ a.run = cur.run
        <5>1. op[p].n \in Nat /\ cur.gen + 1 \in Nat
          BY <1>3, <2>3
        <5>2. PICK o \in Auth : o = cur
          BY <2>1
        <5>3. PICK n \in Nat : n = op[p].n
          BY <5>1
        <5>4. PICK m \in Nat : m = cur.gen + 1
          BY <5>1
        <5>5. a = [o EXCEPT !.edit = n, !.gen = m]
          BY <4>1, <5>2, <5>3, <5>4
        <5>. HIDE DEF a, cur
        <5>6. a \in Auth /\ a.epoch = o.epoch /\ a.gen = m /\ a.run = o.run
          BY <5>5 DEF Auth
        <5>. QED
          BY <5>2, <5>4, <5>6
      <4>. HIDE DEF a
      <4>. QED
        BY <2>2, <2>3, <3>2, <4>2
    <3>3. CASE op[p].kind = "result"
      <4>1. a = [cur EXCEPT !.run = op[p].n, !.gen = @ + 1]
        BY <3>3 DEF NewAuth
      <4>2. a \in Auth /\ a.epoch = cur.epoch /\ a.gen = cur.gen + 1
            /\ a.edit = cur.edit /\ a.hint = cur.hint
        <5>1. op[p].n \in 0..events /\ cur.gen + 1 \in Nat
          BY <1>3, <2>3
        <5>2. PICK o \in Auth : o = cur
          BY <2>1
        <5>3. PICK n \in 0..events : n = op[p].n
          BY <5>1
        <5>4. PICK m \in Nat : m = cur.gen + 1
          BY <5>1
        <5>5. a = [o EXCEPT !.run = n, !.gen = m]
          BY <4>1, <5>2, <5>3, <5>4
        <5>. HIDE DEF a, cur
        <5>6. a \in Auth /\ a.epoch = o.epoch /\ a.gen = m /\ a.edit = o.edit /\ a.hint = o.hint
          BY <5>5 DEF Auth
        <5>. QED
          BY <5>2, <5>4, <5>6
      <4>. HIDE DEF a
      <4>. QED
        BY <2>2, <2>3, <3>3, <4>2 DEF SameContent
    <3>. QED
      BY <1>3, <1>6, <3>1, <3>2, <3>3 DEF AllKinds
  <2>. HIDE DEF a
  <2>5. ~ Outdated(a, i)
    <3>1. persisted[i].epoch = authEpochs[i] => persisted[i].gen <= cur.gen + 1
      BY <2>2 DEF VersionFits
    <3>. QED
      BY <1>3, <1>4, <2>3, <2>4, <3>1 DEF Outdated
  <2>6. a.epoch >= authEpochs[i]
    BY <1>3, <2>4
  <2>. QED
    BY <1>6, <2>1, <2>2, <2>4, <2>5, <2>6 DEF a
<1>. QED
  BY <1>5, <1>6

LEMMA PrepareKeeps ==
    ASSUME IInv, NEW p \in Mutators, Prepare(p)
    PROVE  IInv'
<1>1. /\ p \in Workers /\ p \notin Savers /\ Holding(p) /\ pc[p] \notin Busy /\ pc[p] = "locked"
      /\ op[p].kind # "remove" /\ ~ Refused(p)
  BY NobodyIsNone DEF Prepare, Workers, Holding, Unprepared, Busy
<1>2. PICK i \in Ids : i = op[p].id
  BY <1>1, RestedWhenHeld
<1>3. PICK a : a = NewAuth(p)
  OBVIOUS
<1>4. PICK k : k = op[p].kind
  OBVIOUS
<1>5. Rested(i)
  BY <1>1, <1>2, RestedWhenHeld
<1>6. /\ a \in Auth /\ a.epoch >= authEpochs[i] /\ ~ Outdated(a, i)
      /\ k = "register" => a.run = 0
      /\ k # "register" =>
            /\ auths[i] \in Auth /\ auths[i] # None /\ auths[i].epoch = authEpochs[i]
            /\ auths[i].run = owed[i] /\ a.epoch = authEpochs[i]
      /\ k = "refresh" => a.run = auths[i].run /\ a.gen = auths[i].gen + 1
      /\ k = "result" => SameContent(a, auths[i])
  BY <1>1, <1>2, <1>3, <1>4, NewAuthIs
<1>7. k \in AllKinds /\ k # "remove"
  <2>1. op[p] \in Asked
    BY <1>1 DEF IInv, OpInv, MutatorOp, Busy
  <2>. QED
    BY <1>1, <1>4, <2>1, OpType
<1>8. /\ op' = [op EXCEPT ![p] = [kind |-> k, id |-> i, auth |-> a, before |-> auths[i], saved |-> a]]
      /\ pc' = [pc EXCEPT ![p] = "persist"]
      /\ authEpochs' = [authEpochs EXCEPT ![i] = a.epoch]
      /\ auths' = IF k = "result" THEN [auths EXCEPT ![i] = a] ELSE auths
      /\ owed' = [owed EXCEPT ![i] = IF k = "refresh" THEN @ ELSE a.run]
      /\ UNCHANGED <<diskVars, holders, gate, items, events>>
  BY <1>2, <1>3, <1>4 DEF Prepare, gateVars
<1>. DEFINE o == [kind |-> k, id |-> i, auth |-> a, before |-> auths[i], saved |-> a]
<1>9. /\ DataType /\ ControlType /\ EpochInv
  BY DEF IInv, TypeOK
<1>10. Auth' = Auth /\ Prepared' = Prepared
  BY <1>8 DEF Auth, Prepared
<1>11. a.epoch \in Nat /\ a.gen \in Nat /\ a.run \in 0..events
  BY <1>6 DEF Auth
<1>12. DataType' /\ \A j \in Ids : j # i => SameData(j)
  <2>1. auths' = auths \/ \E v \in Auth' \cup {None} : auths' = [auths EXCEPT ![i] = v]
    BY <1>6, <1>8, <1>10
  <2>2. \E v \in Nat : authEpochs' = [authEpochs EXCEPT ![i] = v]
    BY <1>8, <1>11
  <2>3. \E v \in (0..events)' : owed' = [owed EXCEPT ![i] = v]
    <3>1. owed[i] \in 0..events
      BY <1>9 DEF DataType
    <3>2. CASE k = "refresh"
      BY <1>8, <3>1, <3>2
    <3>3. CASE k # "refresh"
      BY <1>8, <1>11, <3>3
    <3>. QED
      BY <3>2, <3>3
  <2>4. store' = store /\ persisted' = persisted /\ unsaved' = unsaved /\ events' \in {events, events + 1}
    BY <1>8 DEF diskVars
  <2>. QED
    BY <1>9, <2>1, <2>2, <2>3, <2>4, DataTypeChanged
<1>13. Moves(p, "persist") /\ op'[p] = o
  BY <1>1, <1>8, <1>9 DEF Moves, ControlType
<1>14. /\ op'[p].id = i /\ op'[p].kind = k /\ op'[p].auth = a /\ op'[p].saved = a
       /\ op'[p].before = auths[i] /\ pc'[p] = "persist"
  BY <1>1, <1>13, <1>9, MovesIs, NobodyIsNone
<1>15. MutatorOp(p)'
  <2>1. auths[i] \in Auth \cup {None}
    BY <1>9 DEF DataType
  <2>2. o \in Prepared
    BY <1>6, <1>7, <2>1 DEF Prepared
  <2>. QED
    BY <1>10, <1>13, <1>14, <2>2 DEF MutatorOp, Busy
<1>16. /\ authEpochs'[i] = a.epoch
       /\ auths'[i] = IF k = "result" THEN a ELSE auths[i]
       /\ owed'[i] = IF k = "refresh" THEN owed[i] ELSE a.run
       /\ persisted' = persisted
  BY <1>8, <1>9 DEF DataType, diskVars
<1>. HIDE DEF o
<1>17. MutatorWorks(p, i)'
  <2>1. StartedSave(p, i)'
    BY <1>6, <1>14, <1>16 DEF StartedSave, Outdated
  <2>2. ASSUME k # "register" PROVE Replaces(op[p], i)'
    <3>1. auths'[i] # None /\ auths'[i].epoch = authEpochs'[i]
      <4>1. a # None
        BY <1>6, AuthIsObject, <1>9, <1>8 DEF DataType
      <4>. QED
        BY <1>6, <1>16, <2>2, <4>1
    <3>2. CASE k \in {"update", "modify", "refresh"}
      <4>1. auths'[i] = auths[i] /\ owed'[i] = a.run
        BY <1>6, <1>16, <3>2
      <4>2. SameContent(op[p].before, auths[i])'
        BY <1>14, <4>1 DEF SameContent
      <4>3. RunMerges(op[p], i)'
        BY <1>6, <1>14, <2>2, <4>1 DEF RunMerges
      <4>4. k = "refresh" => owed'[i] = auths'[i].run /\ a.gen <= auths'[i].gen + 1
        <5>1. k = "refresh" => a.gen = auths[i].gen + 1 /\ a.run = auths[i].run
          BY <1>6
        <5>2. k = "refresh" => a.gen <= auths[i].gen + 1
          BY <1>11, <5>1
        <5>. QED
          BY <4>1, <5>1, <5>2
      <4>5. op'[p].kind # "result" /\ op'[p].kind \in {"update", "modify", "refresh"}
        BY <1>14, <3>2
      <4>. QED
        BY <1>14, <3>1, <4>2, <4>3, <4>4, <4>5 DEF Replaces
    <3>3. CASE k = "result"
      <4>1. auths'[i] = a /\ owed'[i] = a.run
        BY <1>16, <3>3
      <4>2. SameContent(op[p].auth, auths[i])' /\ a.gen <= a.gen
        BY <1>11, <1>14, <4>1 DEF SameContent
      <4>. QED
        BY <1>14, <3>1, <3>3, <4>1, <4>2 DEF Replaces
    <3>. QED
      BY <1>7, <2>2, <3>2, <3>3 DEF AllKinds
  <2>. QED
    BY <1>6, <1>7, <1>14, <1>16, <2>1, <2>2 DEF MutatorWorks
<1>18. /\ authEpochs'[i] >= authEpochs[i] /\ persisted'[i].epoch <= authEpochs'[i]
       /\ auths'[i] # None => auths'[i].epoch <= authEpochs'[i]
  <2>1. authEpochs[i] \in Nat /\ persisted[i].epoch \in Nat /\ persisted[i].epoch <= authEpochs[i]
    BY <1>9 DEF DataType, EpochInv, Version
  <2>2. auths[i] # None => auths[i].epoch \in Nat /\ auths[i].epoch <= authEpochs[i]
    BY <1>9 DEF DataType, EpochInv, Auth
  <2>3. persisted'[i].epoch <= a.epoch /\ (auths[i] # None => auths[i].epoch <= a.epoch)
    BY <1>6, <1>11, <1>16, <2>1, <2>2
  <2>4. a.epoch <= a.epoch
    BY <1>11
  <2>. QED
    BY <1>6, <1>16, <2>3, <2>4
<1>. QED
  BY <1>1, <1>2, <1>8, <1>12, <1>13, <1>14, <1>15, <1>17, <1>18, HeldStep DEF Busy

LEMMA RemoveKeeps ==
    ASSUME IInv, NEW p \in Mutators, Remove(p)
    PROVE  IInv'
<1>1. p \in Workers /\ p \notin Savers /\ Holding(p) /\ pc[p] = "locked"
  BY NobodyIsNone DEF Remove, Workers, Holding, Unprepared
<1>2. PICK i \in Ids : i = op[p].id
  BY <1>1, WorkersIds DEF IInv
<1>3. /\ auths' = [auths EXCEPT ![i] = None]
      /\ authEpochs' = IF auths[i] = None THEN authEpochs ELSE [authEpochs EXCEPT ![i] = @ + 1]
      /\ UNCHANGED <<diskVars, owed, items, events>>
      /\ holders' = holders \ {p} /\ gate' = [gate EXCEPT ![i] = None]
  BY <1>2 DEF Remove, Leave
<1>4. DataType /\ ControlType /\ EpochInv
  BY DEF IInv, TypeOK
<1>5. Moves(p, "idle") /\ op'[p] = NoOp
  BY <1>1, <1>4 DEF Remove, Leave, Moves, ControlType
<1>6. authEpochs[i] \in Nat /\ persisted[i].epoch \in Nat /\ persisted[i].epoch <= authEpochs[i]
  BY <1>4 DEF DataType, EpochInv, Version
<1>7. auths'[i] = None /\ authEpochs'[i] \in {authEpochs[i], authEpochs[i] + 1} /\ persisted' = persisted
  BY <1>3, <1>4 DEF DataType, diskVars
<1>8. DataType' /\ \A j \in Ids : j # i => SameData(j)
  <2>1. \E v \in Auth' \cup {None} : auths' = [auths EXCEPT ![i] = v]
    BY <1>3
  <2>2. authEpochs' = authEpochs \/ \E v \in Nat : authEpochs' = [authEpochs EXCEPT ![i] = v]
    <3>1. authEpochs[i] + 1 \in Nat
      BY <1>6
    <3>. QED
      BY <1>3, <3>1
  <2>3. /\ store' = store /\ persisted' = persisted /\ unsaved' = unsaved /\ owed' = owed
        /\ events' \in {events, events + 1}
    BY <1>3 DEF diskVars
  <2>. QED
    BY <1>4, <2>1, <2>2, <2>3, DataTypeChanged
<1>9. authEpochs'[i] >= authEpochs[i] /\ persisted'[i].epoch <= authEpochs'[i]
  BY <1>6, <1>7
<1>10. Rested(i)'
  BY <1>7 DEF Rested
<1>. QED
  BY <1>1, <1>2, <1>3, <1>5, <1>7, <1>8, <1>9, <1>10, HeldStep

(* A step of a mutator towards and in its save.                            *)
LEMMA SaveStep ==
    ASSUME IInv, NEW p \in Mutators, pc[p] \in Busy, NEW x \in Busy, Moves(p, x), NEW i \in Ids, op[p].id = i,
           op'[p].kind = op[p].kind, op'[p].id = i, op'[p].auth = op[p].auth,
           op'[p].before = op[p].before, op'[p].saved \in {op[p].saved, Enriched(op[p].auth)},
           op'[p] = op[p] \/ op'[p] = [op[p] EXCEPT !.saved = Enriched(op[p].auth)],
           UNCHANGED <<mgrVars, holders, gate, items>>, events' \in {events, events + 1},
           store' = store \/ \E v \in Saved : store' = [store EXCEPT ![i] = v],
           persisted' = persisted \/ \E v \in Version : persisted' = [persisted EXCEPT ![i] = v],
           unsaved' = unsaved \/ \E v \in BOOLEAN : unsaved' = [unsaved EXCEPT ![i] = v],
           persisted'[i].epoch <= authEpochs[i], StartedSave(p, i)'
    PROVE  IInv'
<1>1. p \in Workers /\ p \notin Savers /\ Holding(p) /\ DataType /\ ControlType
  BY NobodyIsNone DEF Workers, Holding, IInv, TypeOK
<1>2. auths' = auths /\ authEpochs' = authEpochs /\ owed' = owed
  BY DEF mgrVars
<1>3. DataType' /\ \A j \in Ids : j # i => SameData(j)
  BY <1>1, <1>2, DataTypeChanged
<1>4. pc'[p] = x
  BY <1>1, MovesIs, NobodyIsNone
<1>5. op[p] \in Prepared
  <2>1. MutatorOp(p)
    BY DEF IInv, OpInv
  <2>. QED
    BY <2>1 DEF MutatorOp, Busy, Outside, Unprepared
<1>6. MutatorOp(p)'
  <2>1. Enriched(op[p].auth) \in Auth
    BY <1>5, OpType, EnrichedIs
  <2>2. op'[p] \in Prepared
    BY <1>5, <2>1 DEF Prepared
  <2>3. Prepared \subseteq Prepared'
    BY <1>1, AuthGrows DEF DataType, Prepared
  <2>. QED
    BY <1>4, <2>2, <2>3 DEF MutatorOp
<1>7. MutatorWorks(p, i)'
  <2>1. MutatorWorks(p, i)
    BY DEF IInv, MutatorInv
  <2>2. Replaces(op[p], i) => Replaces(op[p], i)'
    BY <1>2 DEF Replaces, RunMerges, SameContent
  <2>3. op'[p].saved \in {op'[p].auth, Enriched(op[p].auth)'}
    BY <2>1 DEF MutatorWorks, Enriched
  <2>. QED
    BY <1>2, <2>1, <2>2, <2>3 DEF MutatorWorks
<1>8. /\ authEpochs'[i] >= authEpochs[i] /\ persisted'[i].epoch <= authEpochs'[i]
      /\ auths'[i] # None => auths'[i].epoch <= authEpochs'[i]
  <2>1. authEpochs[i] \in Nat
    BY <1>1 DEF DataType
  <2>2. auths[i] # None => auths[i].epoch <= authEpochs[i]
    BY DEF IInv, EpochInv
  <2>. QED
    BY <1>2, <2>1, <2>2
<1>. QED
  BY <1>1, <1>3, <1>6, <1>7, <1>8, HeldStep

LEMMA SaveStepsKeep ==
    ASSUME IInv, NEW p \in Mutators, StartSave(p) \/ Drained(p) \/ SaveSucceeds(p) \/ SaveFails(p)
    PROVE  IInv'
<1>1. pc[p] \in Busy /\ p \in Workers /\ p \in Actors /\ DataType /\ ControlType
  BY NobodyIsNone DEF StartSave, Drained, SaveSucceeds, SaveFails, Busy, Workers, IInv, TypeOK
<1>2. PICK i \in Ids : i = op[p].id
  BY <1>1, WorkersIds DEF IInv
<1>3. op[p] \in Prepared
  <2>1. MutatorOp(p)
    BY DEF IInv, OpInv
  <2>. QED
    BY <1>1, <2>1 DEF MutatorOp, Busy, Outside, Unprepared
<1>4. PICK a : a = op[p].auth
  OBVIOUS
<1>5. a \in Auth /\ a.epoch \in Nat /\ a.gen \in Nat
  <2>1. a \in Auth
    BY <1>3, <1>4, OpType
  <2>. QED
    BY <2>1 DEF Auth
<1>6. MutatorWorks(p, i)
  BY <1>1, <1>2 DEF IInv, MutatorInv
<1>7. a.epoch = authEpochs[i] /\ StartedSave(p, i) /\ persisted[i].epoch <= authEpochs[i]
  BY <1>2, <1>4, <1>6 DEF MutatorWorks, IInv, EpochInv
<1>8. UNCHANGED <<mgrVars, holders, gate, items>> /\ events' \in {events, events + 1}
  BY DEF StartSave, Drained, SaveSucceeds, SaveFails, gateVars
<1>9. ASSUME op' = op
      PROVE  /\ op'[p].kind = op[p].kind /\ op'[p].id = i /\ op'[p].auth = a
             /\ op'[p].before = op[p].before /\ op'[p].saved = op[p].saved /\ op'[p] = op[p]
  BY <1>2, <1>4, <1>9
<1>10. ASSUME StartSave(p) PROVE IInv'
  <2>1. pc[p] = "persist" /\ ~ Outdated(a, i)
    BY <1>4, <1>7, <1>10 DEF StartSave, StartedSave
  <2>2. PICK x \in {"saving", "drain"} : pc' = [pc EXCEPT ![p] = x]
    BY <1>2, <1>4, <1>10, <2>1 DEF StartSave
  <2>3. persisted' = [persisted EXCEPT ![i] = [epoch |-> a.epoch, gen |-> a.gen]]
        /\ store' = store /\ unsaved' = unsaved /\ op' = op
    BY <1>2, <1>4, <1>10, <2>1 DEF StartSave, Persisting
  <2>4. Moves(p, x) /\ x \in Busy /\ pc'[p] = x
    BY <1>1, <2>2, <2>3 DEF Moves, Busy, ControlType
  <2>5. persisted'[i] = [epoch |-> a.epoch, gen |-> a.gen]
    BY <1>1, <2>3 DEF DataType
  <2>6. persisted'[i].epoch <= authEpochs[i] /\ [epoch |-> a.epoch, gen |-> a.gen] \in Version
    <3>1. persisted'[i].epoch = a.epoch /\ [epoch |-> a.epoch, gen |-> a.gen] \in Version
      BY <1>5, <2>5 DEF Version
    <3>. QED
      BY <1>5, <1>7, <3>1
  <2>7. StartedSave(p, i)'
    BY <1>4, <2>2, <2>3, <2>4, <2>5 DEF StartedSave
  <2>. QED
    BY <1>1, <1>2, <1>4, <1>8, <1>9, <2>3, <2>4, <2>6, <2>7, SaveStep
<1>11. ASSUME Drained(p) PROVE IInv'
  <2>1. /\ pc[p] = "drain" /\ pc' = [pc EXCEPT ![p] = "saving"] /\ op' = op
        /\ store' = store /\ unsaved' = unsaved /\ persisted' = persisted
    BY <1>11 DEF Drained, diskVars
  <2>2. Moves(p, "saving") /\ "saving" \in Busy /\ pc'[p] = "saving"
    BY <1>1, <2>1 DEF Moves, Busy, ControlType
  <2>3. StartedSave(p, i)'
    BY <1>7, <2>1, <2>2 DEF StartedSave
  <2>. QED
    BY <1>1, <1>2, <1>4, <1>7, <1>8, <1>9, <2>1, <2>2, <2>3, SaveStep
<1>12. ASSUME SaveSucceeds(p) PROVE IInv'
  <2>1. /\ pc[p] = "saving" /\ pc' = [pc EXCEPT ![p] = "publish"]
        /\ op' = [op EXCEPT ![p].saved = Enriched(op[p].auth)]
        /\ store' = [store EXCEPT ![i] = Durable(a)] /\ unsaved' = [unsaved EXCEPT ![i] = FALSE]
        /\ persisted' = persisted
    BY <1>2, <1>4, <1>12 DEF SaveSucceeds
  <2>2. Moves(p, "publish") /\ "publish" \in Busy /\ pc'[p] = "publish"
    BY <1>1, <2>1 DEF Moves, Busy, ControlType
  <2>3. op'[p] = [op[p] EXCEPT !.saved = Enriched(op[p].auth)]
    BY <1>1, <2>1 DEF ControlType
  <2>4. /\ op'[p].kind = op[p].kind /\ op'[p].id = i /\ op'[p].auth = a
        /\ op'[p].before = op[p].before /\ op'[p].saved = Enriched(op[p].auth)
    BY <1>2, <1>3, <1>4, <2>3 DEF Prepared
  <2>5. store'[i] = Durable(a) /\ Durable(a) \in Saved
    BY <1>1, <1>5, <2>1, DurableIs DEF DataType
  <2>6. persisted'[i] = [epoch |-> a.epoch, gen |-> a.gen]
    BY <1>4, <1>7, <2>1 DEF StartedSave
  <2>7. StartedSave(p, i)'
    <3>1. Durable(a)' = Durable(a)
      BY DEF Durable
    <3>. QED
      BY <2>2, <2>4, <2>5, <2>6, <3>1 DEF StartedSave, SavedAs
  <2>. QED
    BY <1>1, <1>2, <1>4, <1>7, <1>8, <2>1, <2>2, <2>3, <2>4, <2>5, <2>7, SaveStep
<1>13. ASSUME SaveFails(p) PROVE IInv'
  <2>1. /\ pc[p] \in {"drain", "saving"} /\ pc' = [pc EXCEPT ![p] = "publish"]
        /\ op' = op /\ store' = store /\ unsaved' = [unsaved EXCEPT ![i] = TRUE]
        /\ persisted' = persisted
    BY <1>2, <1>13 DEF SaveFails
  <2>2. Moves(p, "publish") /\ "publish" \in Busy /\ pc'[p] = "publish"
    BY <1>1, <2>1 DEF Moves, Busy, ControlType
  <2>3. persisted'[i] = [epoch |-> a.epoch, gen |-> a.gen] /\ unsaved'[i]
    BY <1>1, <1>4, <1>7, <2>1 DEF StartedSave, DataType
  <2>4. StartedSave(p, i)'
    BY <1>4, <2>1, <2>2, <2>3 DEF StartedSave, SavedAs
  <2>. QED
    BY <1>1, <1>2, <1>4, <1>7, <1>8, <1>9, <2>1, <2>2, <2>4, SaveStep
<1>. QED
  BY <1>10, <1>11, <1>12, <1>13

(* What Publish puts in place is what has been saved, with every runtime   *)
(* write that was made since.                                              *)
LEMMA MergedIs ==
    ASSUME IInv, NEW p \in Mutators, pc[p] = "publish", NEW i \in Ids, i = op[p].id
    PROVE  LET v == Merged(p)
               o == op[p]
           IN  /\ v \in Auth /\ v.epoch = o.auth.epoch /\ SameContent(o.auth, v)
               /\ v.gen >= o.auth.gen
               /\ v.run = IF o.kind = "register" THEN 0 ELSE owed[i]
<1>. DEFINE v == Merged(p)
            o == op[p]
            cur == auths[i]
<1>1. o \in Prepared
  <2>1. MutatorOp(p)
    BY DEF IInv, OpInv
  <2>. QED
    BY <2>1 DEF MutatorOp, Busy, Outside, Unprepared
<1>2. MutatorWorks(p, i)
  BY DEF Busy, IInv, MutatorInv
<1>3. /\ o.kind \in AllKinds /\ o.kind # "remove"
      /\ o.auth \in Auth /\ o.saved \in {o.auth, Enriched(o.auth)}
  BY <1>1, <1>2, OpType DEF MutatorWorks
<1>4. /\ o.saved \in Auth /\ o.saved.epoch = o.auth.epoch /\ o.saved.gen = o.auth.gen
      /\ o.saved.edit = o.auth.edit /\ o.saved.run = o.auth.run /\ o.saved.hint = o.auth.hint
  BY <1>3, EnrichedIs
<1>5. o.auth.gen \in Nat
  BY <1>3 DEF Auth
<1>6. CASE o.kind = "register"
  <2>1. v = o.saved /\ o.auth.run = 0
    BY <1>2, <1>6 DEF Merged, MutatorWorks
  <2>. HIDE DEF v, o
  <2>. QED
    BY <1>4, <1>5, <1>6, <2>1 DEF v, o, SameContent
<1>7. ASSUME o.kind # "register"
      PROVE  /\ Replaces(o, i) /\ cur \in Auth /\ cur # None /\ cur.epoch = o.auth.epoch
             /\ cur.gen \in Nat
  <2>1. Replaces(o, i) /\ cur # None /\ cur.epoch = o.auth.epoch
    BY <1>2, <1>7 DEF MutatorWorks, Replaces
  <2>2. cur \in Auth
    BY <2>1 DEF IInv, TypeOK, DataType
  <2>. QED
    BY <2>1, <2>2 DEF Auth
<1>8. CASE o.kind = "result"
  <2>1. v = Merge(cur, o.auth, o.saved, TRUE)
    BY <1>8 DEF Merged
  <2>2. SameContent(o.auth, cur) /\ owed[i] = cur.run /\ o.auth.gen <= cur.gen
    BY <1>7, <1>8 DEF Replaces
  <2>3. PICK t \in Auth : t = cur
    BY <1>7, <1>8
  <2>4. PICK b \in Auth : b = o.auth
    BY <1>3
  <2>5. PICK s \in Auth : s = o.saved
    BY <1>4
  <2>6. v = Merge(t, b, s, TRUE)
    BY <2>1, <2>3, <2>4, <2>5
  <2>7. b.edit = s.edit /\ b.run = s.run /\ b.hint = s.hint
    BY <1>4, <2>4, <2>5
  <2>. HIDE DEF v, o, cur
  <2>8. v \in Auth /\ v.epoch = t.epoch /\ v.gen = t.gen /\ v.edit = t.edit /\ v.hint = t.hint
        /\ v.run = t.run
    <3>1. v \in Auth /\ v.epoch = t.epoch /\ v.gen = t.gen
      BY <2>6 DEF Merge, Owned, Auth
    <3>2. v.edit = IF b.edit = s.edit \/ t.edit # b.edit THEN t.edit ELSE s.edit
      BY <2>6 DEF Merge, Owned, Auth
    <3>3. v.hint = IF b.hint = s.hint \/ t.hint # b.hint THEN t.hint ELSE s.hint
      BY <2>6 DEF Merge, Owned, Auth
    <3>4. v.run = IF b.run = s.run \/ t.run # b.run THEN t.run ELSE s.run
      BY <2>6 DEF Merge, Owned, Auth
    <3>. QED
      BY <2>7, <3>1, <3>2, <3>3, <3>4
  <2>9. v.gen >= o.auth.gen
    BY <1>5, <1>7, <1>8, <2>2, <2>3, <2>8
  <2>10. v.epoch = o.auth.epoch /\ SameContent(o.auth, v) /\ v.run = owed[i]
    BY <1>7, <1>8, <2>2, <2>3, <2>8 DEF SameContent
  <2>. QED
    BY <1>8, <2>8, <2>9, <2>10 DEF v, o
<1>9. CASE o.kind \in {"update", "modify", "refresh"}
  <2>1. v = LET m == Merge(o.saved, o.before, cur, FALSE)
            IN [m EXCEPT !.gen = IF cur.gen >= @ THEN cur.gen + 1 ELSE @]
    BY <1>9 DEF Merged
  <2>2. SameContent(o.before, cur) /\ o.before # None
        /\ IF o.before.run = cur.run THEN owed[i] = o.auth.run ELSE owed[i] = cur.run
    BY <1>7, <1>9 DEF Replaces, RunMerges
  <2>3. PICK t \in Auth : t = o.saved
    BY <1>4
  <2>4. PICK b \in Auth : b = o.before
    BY <1>1, <2>2, OpType
  <2>5. PICK s \in Auth : s = cur
    BY <1>7, <1>9
  <2>6. PICK m : m = Merge(t, b, s, FALSE)
    OBVIOUS
  <2>7. v = [m EXCEPT !.gen = IF s.gen >= @ THEN s.gen + 1 ELSE @]
    BY <2>1, <2>3, <2>4, <2>5, <2>6
  <2>8. b.edit = s.edit /\ b.hint = s.hint
    BY <2>2, <2>4, <2>5 DEF SameContent
  <2>. HIDE DEF v, o, cur
  <2>9. m \in Auth /\ m.epoch = t.epoch /\ m.gen = t.gen /\ m.edit = t.edit /\ m.hint = t.hint
        /\ m.run = IF b.run = s.run THEN t.run ELSE s.run
    <3>1. m \in Auth /\ m.epoch = t.epoch /\ m.gen = t.gen
      BY <2>6 DEF Merge, Owned, Auth
    <3>2. m.edit = IF b.edit = s.edit THEN t.edit ELSE s.edit
      BY <2>6 DEF Merge, Owned, Auth
    <3>3. m.hint = IF b.hint = s.hint THEN t.hint ELSE s.hint
      BY <2>6 DEF Merge, Owned, Auth
    <3>4. m.run = IF b.run = s.run THEN t.run ELSE s.run
      BY <2>6 DEF Merge, Owned, Auth
    <3>. QED
      BY <2>8, <3>1, <3>2, <3>3, <3>4
  <2>10. m.gen \in Nat /\ s.gen \in Nat
    BY <2>9 DEF Auth
  <2>11. PICK g \in Nat : g = (IF s.gen >= m.gen THEN s.gen + 1 ELSE m.gen) /\ g >= m.gen
    BY <2>10
  <2>12. v = [m EXCEPT !.gen = g]
    BY <2>7, <2>11
  <2>13. v \in Auth /\ v.epoch = m.epoch /\ v.gen = g /\ v.edit = m.edit /\ v.hint = m.hint
         /\ v.run = m.run
    BY <2>9, <2>12 DEF Auth
  <2>14. v.epoch = o.auth.epoch /\ SameContent(o.auth, v)
    BY <1>4, <2>3, <2>9, <2>13 DEF SameContent
  <2>15. v.gen >= o.auth.gen
    BY <1>4, <2>3, <2>9, <2>11, <2>13
  <2>16. v.run = owed[i]
    BY <1>4, <2>2, <2>3, <2>4, <2>5, <2>9, <2>13
  <2>. QED
    BY <1>9, <2>13, <2>14, <2>15, <2>16 DEF v, o
<1>. QED
  BY <1>3, <1>6, <1>8, <1>9 DEF AllKinds

LEMMA PublishKeeps ==
    ASSUME IInv, NEW p \in Mutators, Publish(p)
    PROVE  IInv'
<1>1. /\ p \in Workers /\ p \notin Savers /\ Holding(p) /\ pc[p] = "publish" /\ pc[p] \in Busy
      /\ DataType /\ ControlType /\ EpochInv
  BY NobodyIsNone DEF Publish, Workers, Holding, Busy, IInv, TypeOK
<1>2. PICK i \in Ids : i = op[p].id
  BY <1>1, WorkersIds DEF IInv
<1>3. MutatorWorks(p, i)
  BY <1>1, <1>2 DEF IInv, MutatorInv
<1>4. PICK a : a = op[p].auth
  OBVIOUS
<1>5. PICK k : k = op[p].kind
  OBVIOUS
<1>6. PICK v : v = Merged(p)
  OBVIOUS
<1>7. v \in Auth /\ v.epoch = a.epoch /\ SameContent(a, v) /\ v.gen >= a.gen
      /\ v.run = IF k = "register" THEN 0 ELSE owed[i]
  BY <1>1, <1>2, <1>4, <1>5, <1>6, MergedIs
<1>8. /\ authEpochs[i] = a.epoch /\ persisted[i] = [epoch |-> a.epoch, gen |-> a.gen]
      /\ SavedAs(i, a) /\ a \in Auth
  <2>1. op[p] \in Prepared
    BY <1>1 DEF IInv, OpInv, MutatorOp, Outside, Unprepared
  <2>. QED
    BY <1>1, <1>3, <1>4, <2>1, OpType DEF MutatorWorks, StartedSave
<1>9. a.epoch \in Nat /\ a.gen \in Nat /\ v.gen \in Nat /\ v.epoch \in Nat
  BY <1>7, <1>8 DEF Auth
<1>10. /\ UNCHANGED <<authEpochs, store, persisted, unsaved, items, events>>
       /\ holders' = holders \ {p} /\ gate' = [gate EXCEPT ![i] = None]
       /\ owed' = [owed EXCEPT ![i] = IF k = "register" THEN 0 ELSE @]
       /\ auths' = IF Withheld(p) THEN auths ELSE [auths EXCEPT ![i] = v]
  BY <1>2, <1>4, <1>5, <1>6, <1>8 DEF Publish, Leave, diskVars
<1>11. Moves(p, "idle") /\ op'[p] = NoOp
  BY <1>1 DEF Publish, Leave, Moves, ControlType
<1>12. DataType' /\ \A j \in Ids : j # i => SameData(j)
  <2>1. Auth' = Auth /\ (0..events)' = 0..events
    BY <1>10 DEF Auth
  <2>2. auths' = auths \/ \E w \in Auth' \cup {None} : auths' = [auths EXCEPT ![i] = w]
    BY <1>7, <1>10, <2>1
  <2>3. owed[i] \in 0..events /\ 0 \in 0..events
    BY <1>1 DEF DataType
  <2>4. \E w \in (0..events)' : owed' = [owed EXCEPT ![i] = w]
    BY <1>10, <2>1, <2>3
  <2>. QED
    BY <1>1, <1>10, <2>2, <2>4, DataTypeChanged
<1>13. owed'[i] = IF k = "register" THEN 0 ELSE owed[i]
  BY <1>1, <1>10 DEF DataType
<1>14. authEpochs'[i] = a.epoch /\ persisted'[i].epoch = a.epoch /\ persisted'[i].gen = a.gen
       /\ \A w : SavedAs(i, w)' <=> SavedAs(i, w)
  BY <1>8, <1>10 DEF SavedAs, Durable
<1>15. authEpochs'[i] >= authEpochs[i] /\ persisted'[i].epoch <= authEpochs'[i]
       /\ op[p].id = i /\ events' \in {events, events + 1} /\ items' = items
  BY <1>2, <1>8, <1>9, <1>10, <1>14
<1>16. CASE Withheld(p)
  <2>1. k = "refresh" /\ unsaved[i]
    BY <1>2, <1>5, <1>16 DEF Withheld
  <2>2. Replaces(op[p], i)
    BY <1>3, <1>5, <2>1 DEF MutatorWorks
  <2>3. auths[i].epoch = a.epoch /\ owed[i] = auths[i].run /\ a.gen <= auths[i].gen + 1
    BY <1>4, <1>5, <1>8, <2>1, <2>2 DEF Replaces
  <2>4. auths'[i] = auths[i] /\ owed'[i] = owed[i] /\ unsaved'[i]
    BY <1>10, <1>13, <1>16, <2>1
  <2>5. VersionFits(i)'
    BY <1>14, <2>3, <2>4 DEF VersionFits
  <2>6. Rested(i)'
    BY <1>14, <2>3, <2>4, <2>5 DEF Rested, SavedAs
  <2>7. auths'[i].epoch <= authEpochs'[i]
    BY <1>9, <1>14, <2>3, <2>4
  <2>. QED
    BY <1>1, <1>10, <1>11, <1>12, <1>15, <2>6, <2>7, HeldStep
<1>17. CASE ~ Withheld(p)
  <2>1. auths'[i] = v
    BY <1>1, <1>10, <1>17 DEF DataType
  <2>2. SavedAs(i, v)'
    <3>1. Durable(a) = Durable(v)
      BY <1>7, DurableIs
    <3>. QED
      BY <1>8, <1>10, <3>1 DEF SavedAs, Durable
  <2>3. VersionFits(i)'
    BY <1>7, <1>9, <1>14, <2>1 DEF VersionFits
  <2>4. Rested(i)'
    BY <1>7, <1>13, <1>14, <2>1, <2>2, <2>3 DEF Rested, SavedAs
  <2>5. auths'[i].epoch <= authEpochs'[i]
    BY <1>7, <1>9, <1>14, <2>1
  <2>. QED
    BY <1>1, <1>10, <1>11, <1>12, <1>15, <2>4, <2>5, HeldStep
<1>. QED
  BY <1>16, <1>17

LEMMA SaverKnows ==
    ASSUME IInv, NEW q \in Savers, pc[q] \in HintUnprepared \cup {"saving", "publish"}
    PROVE  /\ q \in Workers /\ q \in Actors /\ q \notin Mutators /\ Holding(q)
           /\ op[q].id \in Ids /\ DataType /\ ControlType /\ EpochInv
           /\ pc[q] \in HintUnprepared => op[q] \in HintAsked
           /\ pc[q] \in {"saving", "publish"} => op[q] \in HintPrepared /\ SaverWorks(q, op[q].id)
<1>1. q \in Workers /\ q \in Actors /\ q \notin Mutators /\ Holding(q) /\ pc[q] # "idle"
  BY NobodyIsNone DEF Workers, Holding, HintUnprepared, Busy
<1>2. SaverOp(q)
  BY DEF IInv, OpInv
<1>3. /\ pc[q] \in HintUnprepared => op[q] \in HintAsked
      /\ pc[q] \in {"saving", "publish"} => op[q] \in HintPrepared
  BY <1>2 DEF SaverOp, HintUnprepared, Outside
<1>. QED
  BY <1>1, <1>3, WorkersIds DEF IInv, TypeOK, SaverInv

LEMMA PrepareHintKeeps ==
    ASSUME IInv, NEW q \in Savers, PrepareHint(q)
    PROVE  IInv'
<1>1. pc[q] = "check" /\ pc[q] \in HintUnprepared /\ pc[q] \notin Busy
  BY DEF PrepareHint, HintUnprepared, Busy
<1>2. /\ q \in Workers /\ q \in Actors /\ q \notin Mutators /\ Holding(q)
      /\ DataType /\ ControlType /\ EpochInv /\ op[q] \in HintAsked
  BY <1>1, SaverKnows
<1>3. PICK i \in Ids : i = op[q].id
  BY <1>1, SaverKnows
<1>4. Rested(i)
  BY <1>1, <1>2, <1>3, RestedWhenHeld
<1>5. PICK cur : cur = auths[i]
  OBVIOUS
<1>6. cur # None /\ cur \in Auth
  BY <1>2, <1>3, <1>5 DEF PrepareHint, DataType
<1>7. PICK n \in Nat : n = op[q].n
  BY <1>2, OpType
<1>8. PICK a : a = [cur EXCEPT !.hint = n]
  OBVIOUS
<1>9. /\ a \in Auth /\ a.epoch = cur.epoch /\ a.gen = cur.gen /\ a.edit = cur.edit /\ a.run = cur.run
      /\ a.epoch \in Nat /\ a.gen \in Nat
  <2>1. a \in Auth /\ a.epoch = cur.epoch /\ a.gen = cur.gen /\ a.edit = cur.edit /\ a.run = cur.run
    BY <1>6, <1>8 DEF Auth
  <2>. QED
    BY <2>1 DEF Auth
<1>10. cur.epoch = authEpochs[i] /\ SavedAs(i, cur) /\ VersionFits(i) /\ cur.run = owed[i]
  BY <1>4, <1>5, <1>6 DEF Rested
<1>11. /\ op' = [op EXCEPT ![q] = [kind |-> "hint", id |-> i, auth |-> a, before |-> cur]]
       /\ IF Outdated(a, i)
          THEN pc' = [pc EXCEPT ![q] = "publish"] /\ UNCHANGED persisted
          ELSE pc' = [pc EXCEPT ![q] = "saving"] /\ Persisting(a, i)
       /\ UNCHANGED <<mgrVars, store, unsaved, holders, gate, items, events>>
  BY <1>3, <1>5, <1>7, <1>8 DEF PrepareHint, gateVars
<1>12. PICK x \in {"publish", "saving"} :
          pc' = [pc EXCEPT ![q] = x] /\ (x = "publish" <=> Outdated(a, i))
  BY <1>11
<1>13. Moves(q, x) /\ x \in Busy
  BY <1>2, <1>11, <1>12 DEF Moves, Busy
<1>14. /\ pc'[q] = x /\ op'[q] = [kind |-> "hint", id |-> i, auth |-> a, before |-> cur]
  BY <1>2, <1>11, <1>12 DEF ControlType
<1>15. op'[q].id = i /\ op'[q].auth = a /\ op'[q].before = cur
  BY <1>14
<1>16. auths' = auths /\ authEpochs' = authEpochs /\ owed' = owed /\ store' = store
       /\ unsaved' = unsaved /\ Auth' = Auth /\ events' \in {events, events + 1} /\ items' = items
  BY <1>11 DEF mgrVars, Auth
<1>17. persisted' = IF x = "publish" THEN persisted
                    ELSE [persisted EXCEPT ![i] = [epoch |-> a.epoch, gen |-> a.gen]]
  BY <1>11, <1>12 DEF Persisting
<1>18. DataType' /\ \A j \in Ids : j # i => SameData(j)
  <2>1. [epoch |-> a.epoch, gen |-> a.gen] \in Version
    BY <1>9 DEF Version
  <2>2. persisted' = persisted \/ \E v \in Version : persisted' = [persisted EXCEPT ![i] = v]
    BY <1>17, <2>1
  <2>. QED
    BY <1>2, <1>16, <2>2, DataTypeChanged
<1>19. /\ x = "publish" => persisted'[i] = persisted[i]
       /\ x # "publish" => persisted'[i].epoch = a.epoch /\ persisted'[i].gen = a.gen
  BY <1>2, <1>17 DEF DataType
<1>20. authEpochs[i] \in Nat /\ persisted[i].epoch \in Nat /\ persisted[i].gen \in Nat
       /\ persisted[i].epoch <= authEpochs[i]
  BY <1>2 DEF DataType, Version, EpochInv
<1>21. SaverOp(q)'
  <2>1. op'[q] \in HintPrepared'
    BY <1>6, <1>9, <1>14, <1>16 DEF HintPrepared
  <2>. QED
    BY <1>12, <1>14, <2>1 DEF SaverOp
<1>22. VersionFits(i)'
  <2>1. CASE x = "publish"
    BY <1>10, <1>16, <1>19, <2>1 DEF VersionFits
  <2>2. CASE x # "publish"
    <3>1. persisted'[i].gen <= cur.gen + 1 /\ ~ (cur.gen < persisted'[i].gen)
      BY <1>9, <1>19, <2>2
    <3>. QED
      BY <1>5, <1>16, <3>1 DEF VersionFits
  <2>. QED
    BY <2>1, <2>2
<1>23. SavedAs(i, IF x = "saving" THEN cur ELSE a)'
  <2>1. CASE x = "saving"
    BY <1>10, <1>16, <2>1 DEF SavedAs, Durable
  <2>2. CASE x # "saving"
    <3>1. Outdated(a, i)
      BY <1>12, <2>2
    <3>2. persisted[i].epoch = authEpochs[i] /\ cur.gen < persisted[i].gen
      BY <1>9, <1>10, <1>20, <3>1 DEF Outdated
    <3>3. unsaved[i]
      BY <1>5, <1>10, <3>2 DEF VersionFits
    <3>. QED
      BY <1>16, <3>3 DEF SavedAs
  <2>. QED
    BY <2>1, <2>2
<1>24. SaverWorks(q, i)'
  <2>1. SameContent(op[q].before, auths[i])'
    BY <1>5, <1>15, <1>16 DEF SameContent
  <2>2. SavedAs(i, IF pc[q] = "saving" THEN auths[i] ELSE op[q].auth)'
    BY <1>5, <1>14, <1>15, <1>16, <1>23
  <2>. QED
    BY <1>5, <1>6, <1>9, <1>10, <1>15, <1>16, <1>22, <2>1, <2>2 DEF SaverWorks
<1>25. /\ authEpochs'[i] >= authEpochs[i] /\ persisted'[i].epoch <= authEpochs'[i]
       /\ auths'[i] # None => auths'[i].epoch <= authEpochs'[i]
  BY <1>5, <1>9, <1>10, <1>16, <1>19, <1>20
<1>26. UNCHANGED <<holders, gate>>
  BY <1>11
<1>. QED
  BY <1>2, <1>3, <1>13, <1>15, <1>16, <1>18, <1>21, <1>24, <1>25, <1>26, HeldStep

LEMMA HintSavedKeeps ==
    ASSUME IInv, NEW q \in Savers, HintSaved(q)
    PROVE  IInv'
<1>1. pc[q] = "saving"
  BY DEF HintSaved
<1>2. /\ q \in Workers /\ q \in Actors /\ q \notin Mutators /\ Holding(q)
      /\ DataType /\ ControlType /\ EpochInv /\ op[q] \in HintPrepared
  BY <1>1, SaverKnows
<1>3. PICK i \in Ids : i = op[q].id /\ SaverWorks(q, i)
  BY <1>1, SaverKnows
<1>4. PICK a \in Auth : a = op[q].auth
  BY <1>2, OpType
<1>5. /\ pc' = [pc EXCEPT ![q] = "publish"] /\ op' = [op EXCEPT ![q].auth = Enriched(@)]
      /\ store' = [store EXCEPT ![i] = Durable(a)]
      /\ UNCHANGED <<mgrVars, persisted, unsaved, holders, gate, items, events>>
  BY <1>3, <1>4 DEF HintSaved, gateVars
<1>6. Moves(q, "publish") /\ "publish" \in Busy
  BY <1>2, <1>5 DEF Moves, Busy
<1>7. pc'[q] = "publish" /\ op'[q] = [op[q] EXCEPT !.auth = Enriched(a)]
  BY <1>2, <1>4, <1>5 DEF ControlType
<1>8. /\ Enriched(a) \in Auth /\ Enriched(a).epoch = a.epoch /\ Enriched(a).gen = a.gen
      /\ Enriched(a).edit = a.edit /\ Enriched(a).run = a.run /\ Enriched(a).hint = a.hint
  BY EnrichedIs
<1>9. op'[q] \in HintPrepared /\ op'[q].id = i /\ op'[q].auth = Enriched(a) /\ op'[q].before = op[q].before
  BY <1>2, <1>3, <1>7, <1>8 DEF HintPrepared
<1>10. auths' = auths /\ authEpochs' = authEpochs /\ owed' = owed /\ persisted' = persisted
       /\ unsaved' = unsaved /\ Auth' = Auth /\ events' \in {events, events + 1} /\ items' = items
       /\ UNCHANGED <<holders, gate>>
  BY <1>5 DEF mgrVars, Auth
<1>11. Durable(a) \in Saved /\ Durable(Enriched(a)) = Durable(a)
  BY <1>8 DEF Durable, Saved, Auth
<1>12. DataType' /\ \A j \in Ids : j # i => SameData(j)
  BY <1>2, <1>5, <1>10, <1>11, DataTypeChanged
<1>13. store'[i] = Durable(a)
  BY <1>2, <1>5 DEF DataType
<1>14. SaverOp(q)'
  BY <1>7, <1>9, <1>10 DEF SaverOp, HintPrepared
<1>15. SaverWorks(q, i)'
  <2>1. VersionFits(i)'
    BY <1>3, <1>10 DEF SaverWorks, VersionFits
  <2>2. PICK w : w = op'[q].auth
    OBVIOUS
  <2>3. SavedAs(i, w)'
    <3>1. store'[i] = Durable(w)
      BY <1>9, <1>11, <1>13, <2>2
    <3>. QED
      BY <3>1 DEF SavedAs, Durable
  <2>4. SavedAs(i, IF pc[q] = "saving" THEN auths[i] ELSE op[q].auth)'
    BY <1>7, <2>2, <2>3
  <2>5. SameContent(op[q].before, auths[i])'
    BY <1>3, <1>9, <1>10 DEF SaverWorks, SameContent
  <2>. QED
    BY <1>3, <1>4, <1>8, <1>9, <1>10, <2>1, <2>4, <2>5 DEF SaverWorks
<1>16. /\ authEpochs'[i] >= authEpochs[i] /\ persisted'[i].epoch <= authEpochs'[i]
       /\ auths'[i] # None => auths'[i].epoch <= authEpochs'[i]
  BY <1>2, <1>10 DEF DataType, EpochInv
<1>. QED
  BY <1>2, <1>3, <1>6, <1>9, <1>10, <1>12, <1>14, <1>15, <1>16, HeldStep

(* The end of a saver whose save is over.                                  *)
LEMMA HintEnds ==
    ASSUME IInv, NEW q \in Savers, pc[q] \in {"saving", "publish"}, LeaveHint(q),
           NEW i \in Ids, op[q].id = i, UNCHANGED <<authEpochs, owed, persisted, items, events>>,
           auths' = auths \/ \E v \in Auth : auths' = [auths EXCEPT ![i] = v] /\ v.epoch = authEpochs[i],
           store' = store \/ \E v \in Saved : store' = [store EXCEPT ![i] = v],
           unsaved' = unsaved \/ \E v \in BOOLEAN : unsaved' = [unsaved EXCEPT ![i] = v],
           Rested(i)'
    PROVE  IInv'
<1>1. /\ q \in Workers /\ q \in Actors /\ q \notin Mutators /\ Holding(q)
      /\ DataType /\ ControlType /\ EpochInv
  BY SaverKnows
<1>2. gate[i] = q
  BY <1>1 DEF IInv, LockInv
<1>3. Moves(q, "idle") /\ op'[q] = NoOp /\ holders' = holders \ {q} /\ gate' = [gate EXCEPT ![i] = None]
  BY <1>1, <1>2 DEF LeaveHint, Moves, ControlType
<1>4. Auth' = Auth
  BY DEF Auth
<1>5. DataType' /\ \A j \in Ids : j # i => SameData(j)
  <2>1. auths' = auths \/ \E v \in Auth' \cup {None} : auths' = [auths EXCEPT ![i] = v]
    BY <1>4
  <2>. QED
    BY <1>1, <2>1, DataTypeChanged
<1>6. /\ authEpochs'[i] >= authEpochs[i] /\ persisted'[i].epoch <= authEpochs'[i]
      /\ auths'[i] # None => auths'[i].epoch <= authEpochs'[i]
  <2>1. authEpochs[i] \in Nat
    BY <1>1 DEF DataType
  <2>2. auths'[i] = auths[i] \/ auths'[i].epoch = authEpochs[i]
    BY <1>1 DEF DataType
  <2>. QED
    BY <1>1, <2>1, <2>2 DEF EpochInv
<1>. QED
  BY <1>1, <1>3, <1>5, <1>6, HeldStep

LEMMA HintSaveFailsKeeps ==
    ASSUME IInv, NEW q \in Savers, HintSaveFails(q)
    PROVE  IInv'
<1>1. pc[q] = "saving" /\ LeaveHint(q)
      /\ UNCHANGED <<auths, authEpochs, owed, persisted, items, events>>
  BY DEF HintSaveFails, mgrVars
<1>2. DataType /\ op[q] \in HintPrepared
  BY <1>1, SaverKnows
<1>3. PICK i \in Ids : i = op[q].id /\ SaverWorks(q, i)
  BY <1>1, SaverKnows
<1>4. PICK d \in Saved : d = Durable(op[q].auth)
  <2>1. op[q].auth \in Auth
    BY <1>2, OpType
  <2>. QED
    BY <2>1, DurableIs
<1>5. PICK w \in {store[i], d} :
         /\ store' = [store EXCEPT ![i] = w]
         /\ unsaved' = [unsaved EXCEPT ![i] = @ \/ w # store[i]]
  BY <1>3, <1>4 DEF HintSaveFails
<1>6. store' = store \/ \E v \in Saved : store' = [store EXCEPT ![i] = v]
  BY <1>2, <1>5 DEF DataType
<1>7. \E v \in BOOLEAN : unsaved' = [unsaved EXCEPT ![i] = v]
  BY <1>5
<1>8. store'[i] = w /\ (unsaved'[i] <=> (unsaved[i] \/ w # store[i]))
  BY <1>2, <1>5 DEF DataType
<1>9. /\ auths[i] # None /\ auths[i].epoch = authEpochs[i] /\ auths[i].run = owed[i]
      /\ VersionFits(i) /\ SavedAs(i, auths[i])
  BY <1>1, <1>3 DEF SaverWorks
<1>10. VersionFits(i)'
  BY <1>1, <1>8, <1>9 DEF VersionFits
<1>11. SavedAs(i, auths[i])'
  <2>1. unsaved'[i] \/ store'[i] = store[i]
    BY <1>8
  <2>. QED
    BY <1>1, <1>8, <1>9, <2>1 DEF SavedAs, Durable
<1>12. Rested(i)'
  BY <1>1, <1>9, <1>10, <1>11 DEF Rested
<1>. QED
  BY <1>1, <1>3, <1>6, <1>7, <1>12, HintEnds

LEMMA PublishHintKeeps ==
    ASSUME IInv, NEW q \in Savers, NEW valid \in {TRUE, FALSE}, PublishHint(q, valid)
    PROVE  IInv'
<1>1. pc[q] = "publish" /\ LeaveHint(q)
      /\ UNCHANGED <<store, authEpochs, owed, persisted, items, events>>
  BY DEF PublishHint
<1>2. DataType /\ op[q] \in HintPrepared
  BY <1>1, SaverKnows
<1>3. PICK i \in Ids : i = op[q].id /\ SaverWorks(q, i)
  BY <1>1, SaverKnows
<1>4. PICK t \in Auth : t = op[q].auth
  BY <1>2, OpType
<1>5. PICK b \in Auth : b = op[q].before
  BY <1>2, OpType
<1>6. PICK s \in Auth : s = auths[i]
  BY <1>2, <1>3 DEF SaverWorks, DataType
<1>7. /\ s # None /\ s.epoch = authEpochs[i] /\ t.epoch = authEpochs[i]
      /\ t.run = b.run /\ s.edit = b.edit /\ s.hint = b.hint /\ s.run = owed[i]
      /\ VersionFits(i) /\ SavedAs(i, t)
  BY <1>1, <1>3, <1>4, <1>5, <1>6 DEF SaverWorks, SameContent
<1>8. PICK m : m = Merge(t, b, s, FALSE)
  OBVIOUS
<1>9. /\ m \in Auth /\ m.epoch = t.epoch /\ m.gen = t.gen /\ m.edit = t.edit /\ m.hint = t.hint
      /\ m.run = owed[i]
  <2>1. m \in Auth /\ m.epoch = t.epoch /\ m.gen = t.gen
    BY <1>8 DEF Merge, Owned, Auth
  <2>2. m.edit = IF b.edit = s.edit THEN t.edit ELSE s.edit
    BY <1>8 DEF Merge, Owned, Auth
  <2>3. m.hint = IF b.hint = s.hint THEN t.hint ELSE s.hint
    BY <1>8 DEF Merge, Owned, Auth
  <2>4. m.run = IF b.run = s.run THEN t.run ELSE s.run
    BY <1>8 DEF Merge, Owned, Auth
  <2>. QED
    BY <1>7, <2>1, <2>2, <2>3, <2>4
<1>10. m.gen \in Nat /\ s.gen \in Nat
  BY <1>9 DEF Auth
<1>11. PICK g \in Nat : g = Larger(m.gen, s.gen) /\ g >= s.gen
  BY <1>10 DEF Larger
<1>12. PICK v : v = IF valid THEN [m EXCEPT !.gen = g] ELSE [s EXCEPT !.hint = 0]
  OBVIOUS
<1>13. auths' = [auths EXCEPT ![i] = v] /\ unsaved' = [unsaved EXCEPT ![i] = @ \/ ~ valid]
  BY <1>3, <1>4, <1>5, <1>6, <1>7, <1>8, <1>11, <1>12 DEF PublishHint
<1>14. v \in Auth /\ v.epoch = authEpochs[i] /\ v.run = owed[i] /\ v.gen >= s.gen
       /\ (valid => SameContent(t, v))
  <2>1. CASE valid
    <3>1. v = [m EXCEPT !.gen = g]
      BY <1>12, <2>1
    <3>2. v \in Auth /\ v.epoch = m.epoch /\ v.run = m.run /\ v.gen = g /\ v.edit = m.edit /\ v.hint = m.hint
      BY <1>9, <3>1 DEF Auth
    <3>. QED
      BY <1>7, <1>9, <1>11, <3>2 DEF SameContent
  <2>2. CASE ~ valid
    <3>1. v = [s EXCEPT !.hint = 0]
      BY <1>12, <2>2
    <3>2. v \in Auth /\ v.epoch = s.epoch /\ v.run = s.run /\ v.gen = s.gen
      BY <3>1 DEF Auth
    <3>3. v.gen >= s.gen
      BY <1>10, <3>2
    <3>. QED
      BY <1>7, <2>2, <3>2, <3>3
  <2>. QED
    BY <2>1, <2>2
<1>15. auths'[i] = v /\ (unsaved'[i] <=> (unsaved[i] \/ ~ valid))
  BY <1>2, <1>13 DEF DataType
<1>16. SavedAs(i, v)'
  <2>1. CASE valid
    <3>1. Durable(v) = Durable(t)
      BY <1>14, <2>1, DurableIs
    <3>. QED
      BY <1>1, <1>7, <1>15, <2>1, <3>1 DEF SavedAs, Durable
  <2>2. CASE ~ valid
    BY <1>15, <2>2 DEF SavedAs
  <2>. QED
    BY <2>1, <2>2
<1>17. VersionFits(i)'
  <2>1. persisted[i].gen \in Nat /\ v.gen \in Nat
    BY <1>2, <1>14 DEF DataType, Version, Auth
  <2>2. persisted[i].epoch = authEpochs[i] =>
           persisted[i].gen <= s.gen + 1 /\ (s.gen < persisted[i].gen => unsaved[i])
    BY <1>6, <1>7 DEF VersionFits
  <2>3. persisted[i].gen <= s.gen + 1 => persisted[i].gen <= v.gen + 1
    BY <1>10, <1>14, <2>1
  <2>4. v.gen < persisted[i].gen => s.gen < persisted[i].gen
    BY <1>10, <1>14, <2>1
  <2>. QED
    BY <1>1, <1>15, <2>2, <2>3, <2>4 DEF VersionFits
<1>18. Rested(i)'
  BY <1>1, <1>14, <1>15, <1>16, <1>17 DEF Rested, SavedAs
<1>19. \E w \in BOOLEAN : unsaved' = [unsaved EXCEPT ![i] = w]
  BY <1>13
<1>. QED
  BY <1>1, <1>3, <1>13, <1>14, <1>18, <1>19, HintEnds

-----------------------------------------------------------------------------
(***************************************************************************)
(* Load and the runtime writers                                            *)
(***************************************************************************)

(* Load holds all of the barrier: nobody works on a credential.  What it   *)
(* puts in place is what the store holds.                                  *)
LEMMA ReplaceAuthsKeeps ==
    ASSUME IInv, ReplaceAuths
    PROVE  IInv'
<1>1. /\ Loader \in Actors /\ Loader \notin Workers /\ Loader \notin Mutators /\ Loader \notin Savers
      /\ DataType /\ ControlType /\ EpochInv
  BY NobodyIsNone DEF Workers, IInv, TypeOK
<1>2. /\ pc[Loader] = "replace" /\ items = store
      /\ Moves(Loader, "idle") /\ op' = op /\ holders' = holders \ {Loader}
      /\ UNCHANGED <<store, persisted, gate, events>>
      /\ items' = [i \in Ids |-> None] /\ unsaved' = [i \in Ids |-> FALSE]
      /\ owed' = [i \in Ids |-> 0]
  BY <1>1 DEF ReplaceAuths, Moves, EpochInv
<1>3. holders = {Loader}
  BY <1>1, <1>2 DEF IInv, LockInv
<1>4. \A b \in Workers : pc[b] \in {"idle", "barrier"} /\ pc[b] \notin Busy
  <2>1. \A b \in Workers : b \notin holders /\ b \in Actors
    BY <1>1, <1>3, NobodyIsNone
  <2>2. \A b \in Workers : pc[b] \in {"idle", "barrier"}
    BY <2>1 DEF IInv, LockInv
  <2>. QED
    BY <2>2 DEF Busy
<1>5. /\ pc'[Loader] = "idle" /\ \A b \in Workers : pc'[b] = pc[b]
  BY <1>1, <1>2, MovesIs, NobodyIsNone
<1>6. ASSUME NEW i \in Ids
      PROVE  /\ authEpochs[i] \in Nat /\ persisted[i].epoch \in Nat
             /\ persisted[i].epoch <= authEpochs[i]
             /\ authEpochs'[i] \in {authEpochs[i], authEpochs[i] + 1}
             /\ items[i] # None => authEpochs'[i] = authEpochs[i] + 1
             /\ items[i] \in Saved \cup {None}
  BY <1>1 DEF ReplaceAuths, DataType, Version, EpochInv, ControlType
<1>7. ASSUME NEW i \in Ids
      PROVE  auths'[i] = IF items[i] = None THEN None
                         ELSE [epoch |-> authEpochs'[i], gen |-> 1, edit |-> items[i].edit, run |-> 0,
                               hint |-> items[i].hint, stamp |-> 1]
  BY DEF ReplaceAuths
<1>8. ASSUME NEW i \in Ids, items[i] # None
      PROVE  /\ auths'[i] \in Auth /\ auths'[i].epoch = authEpochs'[i] /\ auths'[i].run = 0
             /\ Durable(auths'[i]) = items[i]
  <2>1. items[i] \in Saved /\ authEpochs'[i] \in Nat /\ events \in Nat
    BY <1>1, <1>6, <1>8 DEF DataType
  <2>2. PICK e \in Nat : e = authEpochs'[i]
    BY <2>1
  <2>3. PICK s \in Saved : s = items[i]
    BY <2>1
  <2>4. auths'[i] = [epoch |-> e, gen |-> 1, edit |-> s.edit, run |-> 0, hint |-> s.hint, stamp |-> 1]
    BY <1>7, <1>8, <2>2, <2>3
  <2>5. s.edit \in Nat /\ s.hint \in Nat /\ s = [edit |-> s.edit, hint |-> s.hint]
    BY DEF Saved
  <2>6. auths'[i] \in Auth
    BY <2>1, <2>4, <2>5 DEF Auth
  <2>7. Durable(auths'[i]) = [edit |-> s.edit, hint |-> s.hint]
    BY <2>4 DEF Durable
  <2>. QED
    BY <2>2, <2>3, <2>4, <2>5, <2>6, <2>7
<1>9. \A i \in Ids : authEpochs'[i] \in Nat /\ authEpochs'[i] >= authEpochs[i]
  BY <1>6
<1>10. DataType'
  <2>1. Auth' = Auth /\ (0..events)' = 0..events /\ 0 \in 0..events
    BY <1>1, <1>2 DEF Auth, DataType
  <2>2. auths' \in [Ids -> Auth \cup {None}]
    <3>1. \A i \in Ids : auths'[i] \in Auth \cup {None}
      BY <1>7, <1>8
    <3>2. auths' = [i \in Ids |-> auths'[i]]
      BY DEF ReplaceAuths
    <3>. QED
      BY <3>1, <3>2
  <2>3. authEpochs' \in [Ids -> Nat]
    <3>1. authEpochs' = [i \in Ids |-> authEpochs'[i]]
      BY DEF ReplaceAuths
    <3>. QED
      BY <1>9, <3>1
  <2>4. owed' \in [Ids -> (0..events)'] /\ unsaved' \in [Ids -> BOOLEAN]
    BY <1>2, <2>1
  <2>. QED
    BY <1>1, <1>2, <2>1, <2>2, <2>3, <2>4 DEF DataType, Saved, Version
<1>11. ControlType' /\ OpInv'
  <2>1. holders' \subseteq Actors /\ gate' \in [Ids -> Workers \cup {None}]
        /\ items' \in [Ids -> Saved \cup {None}] /\ events' \in {events, events + 1}
    BY <1>1, <1>2 DEF ControlType
  <2>. QED
    BY <1>1, <1>2, <1>9, <2>1, ControlKeeps
<1>12. LockInv'
  <2>1. Loader \in holders' => holders' = {Loader}
    BY <1>2
  <2>. QED
    BY <1>1, <1>2, <2>1, LockOutside DEF IInv
<1>13. EpochInv'
  <2>1. ASSUME NEW i \in Ids
        PROVE  /\ persisted'[i].epoch <= authEpochs'[i]
               /\ auths'[i] # None => auths'[i].epoch <= authEpochs'[i]
    <3>1. persisted'[i].epoch <= authEpochs'[i]
      BY <1>2, <1>6
    <3>2. auths'[i] # None => auths'[i].epoch = authEpochs'[i]
      BY <1>7, <1>8
    <3>. QED
      BY <1>9, <3>1, <3>2
  <2>. QED
    BY <1>5, <2>1 DEF EpochInv
<1>14. RestInv'
  <2>1. ASSUME NEW i \in Ids PROVE Rested(i)'
    <3>1. SUFFICES ASSUME auths'[i] # None PROVE Rested(i)'
      BY DEF Rested
    <3>2. items[i] # None
      BY <1>7, <3>1
    <3>3. /\ auths'[i].epoch = authEpochs'[i] /\ auths'[i].run = 0 /\ Durable(auths'[i]) = items[i]
      BY <1>8, <3>2
    <3>4. SavedAs(i, auths[i])'
      <4>1. store'[i] = Durable(auths'[i])
        BY <1>2, <3>3
      <4>. QED
        BY <4>1 DEF SavedAs, Durable
    <3>5. VersionFits(i)'
      <4>1. persisted'[i].epoch # authEpochs'[i]
        BY <1>2, <1>6, <3>2
      <4>. QED
        BY <4>1 DEF VersionFits
    <3>6. owed'[i] = 0
      BY <1>2
    <3>. QED
      BY <3>3, <3>4, <3>5, <3>6 DEF Rested
  <2>. QED
    BY <2>1 DEF RestInv
<1>15. MutatorInv' /\ SaverInv'
  BY <1>4, <1>5 DEF MutatorInv, SaverInv, Workers, Busy
<1>. QED
  BY <1>10, <1>11, <1>12, <1>13, <1>14, <1>15 DEF IInv, TypeOK

(* A write under Manager.mu alone, which may come while a save is under    *)
(* way: its number is new, so Publish sees that run has changed.           *)
LEMMA RuntimeWriteKeeps ==
    ASSUME IInv, NEW i \in Ids, RuntimeWrite(i)
    PROVE  IInv'
<1>1. DataType /\ ControlType /\ EpochInv /\ OpInv /\ LockInv
  BY DEF IInv, TypeOK
<1>2. PICK s \in Auth : s = auths[i]
  BY <1>1 DEF RuntimeWrite, DataType
<1>3. events \in Nat /\ s.gen \in Nat /\ s.epoch \in Nat
  BY <1>1 DEF DataType, Auth
<1>4. PICK e \in Nat : e = events + 1
  BY <1>3
<1>5. PICK g \in Nat : g = s.gen + 1
  BY <1>3
<1>6. PICK v : v = [s EXCEPT !.run = e, !.gen = g]
  OBVIOUS
<1>7. /\ auths' = [auths EXCEPT ![i] = v] /\ owed' = [owed EXCEPT ![i] = e] /\ events' = e
      /\ UNCHANGED <<authEpochs, diskVars, holders, gate, pc, op, items>>
  <2>1. DOMAIN auths = Ids /\ DOMAIN auths' = Ids
    BY <1>1 DEF RuntimeWrite, DataType
  <2>2. \A j \in Ids : j # i => auths'[j] = auths[j]
    BY <1>1 DEF RuntimeWrite, DataType
  <2>3. auths'[i] = [auths[i] EXCEPT !.run = events + 1, !.gen = @ + 1]
    BY <1>1 DEF RuntimeWrite, DataType
  <2>4. auths'[i] = v
    BY <1>2, <1>4, <1>5, <1>6, <2>3
  <2>5. auths' = [auths EXCEPT ![i] = v]
    BY <1>1, <2>1, <2>2, <2>4 DEF RuntimeWrite, DataType
  <2>. QED
    BY <1>4, <2>5 DEF RuntimeWrite, gateVars
<1>8. /\ v \in Auth' /\ v.epoch = s.epoch /\ v.gen = g /\ v.edit = s.edit /\ v.hint = s.hint
      /\ v.run = e
  <2>1. (0..events)' = 0..e /\ e \in 0..e /\ 0..events \subseteq 0..e
    BY <1>3, <1>4, <1>7
  <2>2. Auth' = [epoch : Nat, gen : Nat, edit : Nat, run : 0..e, hint : Nat, stamp : Nat]
    BY <1>7 DEF Auth
  <2>. QED
    BY <1>6, <2>1, <2>2 DEF Auth
<1>9. /\ auths'[i] = v /\ owed'[i] = e /\ authEpochs' = authEpochs /\ persisted' = persisted
      /\ store' = store /\ unsaved' = unsaved
      /\ \A j \in Ids : j # i => auths'[j] = auths[j]
  BY <1>1, <1>7 DEF DataType, diskVars
<1>10. DataType' /\ \A j \in Ids : j # i => SameData(j)
  <2>1. \E w \in Auth' \cup {None} : auths' = [auths EXCEPT ![i] = w]
    BY <1>7, <1>8
  <2>2. \E w \in (0..events)' : owed' = [owed EXCEPT ![i] = w]
    <3>1. e \in (0..events)'
      BY <1>7
    <3>. QED
      BY <1>7, <3>1
  <2>. QED
    BY <1>1, <1>4, <1>7, <1>9, <2>1, <2>2, DataTypeChanged
<1>11. ControlType'
  BY <1>1, <1>7 DEF ControlType, Saved
<1>12. OpInv'
  <2>1. \A j \in Ids : authEpochs'[j] \in Nat /\ authEpochs'[j] >= authEpochs[j]
    BY <1>1, <1>7 DEF DataType
  <2>2. authEpochs \in [Ids -> Nat] /\ events' \in {events, events + 1}
    BY <1>1, <1>4, <1>7 DEF DataType
  <2>3. \A a : (MutatorOp(a) => MutatorOp(a)') /\ (SaverOp(a) => SaverOp(a)')
    BY <1>3, <1>7, <2>1, <2>2, OpFrame
  <2>. QED
    BY <1>1, <2>3 DEF OpInv
<1>13. LockInv'
  BY <1>1, <1>7 DEF LockInv, Holding
<1>14. EpochInv'
  <2>1. v.epoch <= authEpochs[i]
    BY <1>1, <1>2, <1>8 DEF EpochInv, RuntimeWrite
  <2>2. \A j \in Ids : auths'[j] # None => auths'[j].epoch <= authEpochs'[j]
    BY <1>1, <1>9, <2>1 DEF EpochInv
  <2>3. (\A j \in Ids : persisted'[j].epoch <= authEpochs'[j])
        /\ (pc'[Loader] = "replace" => items' = store')
    BY <1>1, <1>7, <1>9 DEF EpochInv
  <2>. QED
    BY <2>2, <2>3 DEF EpochInv
<1>15. v # None
  BY <1>3, <1>4, <1>7, <1>8, AuthIsObject
<1>16. VersionFits(i) => VersionFits(i)'
  <2>1. persisted[i].gen \in Nat
    BY <1>1 DEF DataType, Version
  <2>2. /\ persisted[i].gen <= s.gen + 1 => persisted[i].gen <= g + 1
        /\ g < persisted[i].gen => s.gen < persisted[i].gen
    BY <1>3, <1>5, <2>1
  <2>. QED
    BY <1>2, <1>8, <1>9, <2>2 DEF VersionFits
<1>17. \A w : SavedAs(i, w) => SavedAs(i, w)'
  BY <1>9 DEF SavedAs, Durable
<1>18. SavedAs(i, s) => SavedAs(i, v)'
  <2>1. Durable(v) = Durable(s)
    BY <1>8 DEF Durable
  <2>. QED
    BY <1>9, <2>1 DEF SavedAs, Durable
<1>19. RestInv'
  <2>1. ASSUME NEW j \in Ids, ~ WorkedOn(j)' PROVE Rested(j)'
    <3>1. Rested(j)
      BY <1>7, <2>1 DEF IInv, RestInv, WorkedOn
    <3>2. CASE j # i
      BY <1>10, <3>1, <3>2, DataFrame
    <3>3. CASE j = i
      <4>1. s.epoch = authEpochs[i] /\ SavedAs(i, s) /\ VersionFits(i)
        BY <1>2, <3>1, <3>3 DEF Rested, RuntimeWrite
      <4>2. SavedAs(i, auths[i])'
        BY <1>9, <1>18, <4>1 DEF SavedAs, Durable
      <4>3. VersionFits(i)'
        BY <1>16, <4>1
      <4>. QED
        BY <1>8, <1>9, <3>3, <4>1, <4>2, <4>3 DEF Rested
    <3>. QED
      BY <3>2, <3>3
  <2>. QED
    BY <2>1 DEF RestInv
<1>20. MutatorInv'
  <2>1. ASSUME NEW p \in Mutators, pc'[p] \in Busy PROVE MutatorWorks(p, op[p].id)'
    <3>1. pc'[p] = pc[p] /\ op'[p] = op[p] /\ pc[p] \in Busy
      BY <1>7, <2>1
    <3>2. PICK j \in Ids : j = op[p].id
      BY <1>1, <3>1, WorkersIds DEF Workers
    <3>3. MutatorWorks(p, j)
      BY <3>1, <3>2 DEF IInv, MutatorInv
    <3>4. op[p] \in Prepared
      BY <1>1, <3>1 DEF OpInv, MutatorOp, Busy, Outside, Unprepared
    <3>5. CASE j # i
      BY <1>10, <3>1, <3>2, <3>3, <3>5, DataFrame
    <3>6. CASE j = i
      <4>1. StartedSave(p, i)'
        BY <1>9, <1>17, <3>1, <3>3, <3>6 DEF MutatorWorks, StartedSave, Outdated, SavedAs, Durable
      <4>2. ASSUME op[p].kind # "register" PROVE Replaces(op[p], i)'
        <5>1. Replaces(op[p], i)
          BY <3>3, <3>6, <4>2 DEF MutatorWorks
        <5>2. PICK o : o = op[p]
          OBVIOUS
        <5>3. o.auth \in Auth /\ o.before \in Auth \cup {None}
          BY <3>4, <5>2, OpType
        <5>4. o.auth.gen \in Nat
          BY <5>3 DEF Auth
        <5>5. /\ o.auth.gen <= s.gen + 1 => o.auth.gen <= g + 1
              /\ o.auth.gen <= s.gen => o.auth.gen <= g
          BY <1>3, <1>5, <5>4
        <5>6. o.before # None => o.before.run # e
          <6>1. o.before # None => o.before.run \in 0..events
            BY <5>3 DEF Auth
          <6>. QED
            BY <1>3, <1>4, <6>1
        <5>7. /\ SameContent(o.before, s) => SameContent(o.before, v)
              /\ SameContent(o.auth, s) => SameContent(o.auth, v)
          BY <1>8 DEF SameContent
        <5>8. RunMerges(o, i) => RunMerges(o, i)'
          BY <1>8, <1>9, <5>6 DEF RunMerges
        <5>9. Replaces(o, i)'
          BY <1>2, <1>8, <1>9, <1>15, <5>1, <5>2, <5>5, <5>7, <5>8 DEF Replaces, SameContent
        <5>. QED
          BY <3>1, <5>2, <5>9
      <4>. QED
        BY <1>9, <3>1, <3>2, <3>3, <3>6, <4>1, <4>2 DEF MutatorWorks, Enriched
    <3>. QED
      BY <3>5, <3>6
  <2>. QED
    BY <2>1 DEF MutatorInv
<1>21. SaverInv'
  <2>1. ASSUME NEW q \in Savers, pc'[q] \in {"saving", "publish"} PROVE SaverWorks(q, op[q].id)'
    <3>1. pc'[q] = pc[q] /\ op'[q] = op[q] /\ pc[q] \in {"saving", "publish"}
      BY <1>7, <2>1
    <3>2. PICK j \in Ids : j = op[q].id /\ SaverWorks(q, j)
      BY <3>1, SaverKnows
    <3>3. CASE j # i
      BY <1>10, <3>1, <3>2, <3>3, DataFrame
    <3>4. CASE j = i
      <4>1. /\ s.epoch = authEpochs[i] /\ op[q].auth.epoch = authEpochs[i]
            /\ op[q].auth.edit = op[q].before.edit /\ op[q].auth.run = op[q].before.run
            /\ SameContent(op[q].before, s) /\ VersionFits(i)
            /\ SavedAs(i, IF pc[q] = "saving" THEN s ELSE op[q].auth)
        BY <1>2, <3>2, <3>4 DEF SaverWorks
      <4>2. SameContent(op[q].before, auths[i])'
        BY <1>8, <1>9, <3>1, <4>1 DEF SameContent
      <4>3. SavedAs(i, IF pc[q] = "saving" THEN auths[i] ELSE op[q].auth)'
        <5>1. CASE pc[q] = "saving"
          BY <1>9, <1>18, <3>1, <4>1, <5>1 DEF SavedAs, Durable
        <5>2. CASE pc[q] # "saving"
          BY <1>9, <3>1, <4>1, <5>2 DEF SavedAs, Durable
        <5>. QED
          BY <5>1, <5>2
      <4>4. VersionFits(i)'
        BY <1>16, <4>1
      <4>5. SaverWorks(q, i)'
        BY <1>8, <1>9, <1>15, <3>1, <4>1, <4>2, <4>3, <4>4 DEF SaverWorks
      <4>. QED
        BY <3>1, <3>2, <3>4, <4>5
    <3>. QED
      BY <3>3, <3>4
  <2>. QED
    BY <2>1 DEF SaverInv
<1>. QED
  BY <1>10, <1>11, <1>12, <1>13, <1>14, <1>19, <1>20, <1>21 DEF IInv, TypeOK

-----------------------------------------------------------------------------
(***************************************************************************)
(* The invariant                                                           *)
(***************************************************************************)
LEMMA InitInv ==
    Init => IInv
<1>. SUFFICES ASSUME Init PROVE IInv
  OBVIOUS
<1>1. /\ Loader \in Actors /\ Loader \notin Workers /\ Workers \subseteq Actors /\ None \notin Actors
  BY NobodyIsNone
<1>2. /\ \A a \in Actors : pc[a] = "idle"
      /\ \A a \in Workers : op[a] = NoOp
  BY DEF Init, Workers
<1>3. events = 0 /\ 0..events = {0}
  BY DEF Init
<1>4. ASSUME NEW i \in Ids
      PROVE  /\ store[i] \in Saved \cup {None}
             /\ authEpochs[i] = IF store[i] = None THEN 0 ELSE 1
             /\ store[i] # None =>
                   /\ auths[i] \in Auth /\ auths[i].epoch = 1 /\ auths[i].run = 0 /\ auths[i].gen = 1
                   /\ Durable(auths[i]) = store[i]
             /\ store[i] = None => auths[i] = None
  <2>1. store[i] \in {[edit |-> 0, hint |-> 0], None}
    BY DEF Init
  <2>2. [edit |-> 0, hint |-> 0] \in Saved
    BY DEF Saved
  <2>3. authEpochs[i] = IF store[i] = None THEN 0 ELSE 1
    BY DEF Init
  <2>4. PICK x : x = [epoch |-> 1, gen |-> 1, edit |-> 0, run |-> 0, hint |-> 0, stamp |-> 1]
    OBVIOUS
  <2>5. auths[i] = IF store[i] = None THEN None ELSE x
    BY <2>4 DEF Init
  <2>6. x \in Auth /\ x.epoch = 1 /\ x.run = 0 /\ x.gen = 1 /\ Durable(x) = [edit |-> 0, hint |-> 0]
    BY <1>3, <2>4 DEF Auth, Durable
  <2>. QED
    BY <2>1, <2>2, <2>3, <2>5, <2>6
<1>5. \A i \in Ids : /\ persisted[i] = [epoch |-> 0, gen |-> 0] /\ gate[i] = None /\ owed[i] = 0
  BY DEF Init
<1>6. DataType
  <2>1. auths \in [Ids -> Auth \cup {None}]
    <3>1. \A i \in Ids : auths[i] \in Auth \cup {None}
      BY <1>4
    <3>2. auths = [i \in Ids |-> auths[i]]
      BY DEF Init
    <3>. QED
      BY <3>1, <3>2
  <2>2. authEpochs \in [Ids -> Nat]
    BY DEF Init
  <2>3. store \in [Ids -> Saved \cup {None}]
    BY DEF Init, Saved
  <2>4. persisted \in [Ids -> Version]
    BY DEF Init, Version
  <2>5. unsaved \in [Ids -> BOOLEAN] /\ owed \in [Ids -> 0..events] /\ events \in Nat
    BY <1>3 DEF Init
  <2>. QED
    BY <2>1, <2>2, <2>3, <2>4, <2>5 DEF DataType
<1>7. ControlType
  BY <1>1, <1>2 DEF Init, ControlType, Workers
<1>8. OpInv
  BY <1>1, <1>2 DEF OpInv, MutatorOp, SaverOp, Workers
<1>9. LockInv
  <2>1. \A a \in Workers : ~ Holding(a)
    BY <1>1, <1>2 DEF Holding, Unprepared, HintUnprepared, Busy
  <2>2. holders = {}
    BY DEF Init
  <2>. QED
    BY <1>2, <1>5, <2>1, <2>2 DEF LockInv
<1>10. EpochInv
  <2>1. ASSUME NEW i \in Ids PROVE persisted[i].epoch = 0 /\ authEpochs[i] \in {0, 1}
    BY <1>4, <1>5
  <2>2. ASSUME NEW i \in Ids PROVE persisted[i].epoch <= authEpochs[i]
    <3>1. PICK x \in {0, 1} : x = authEpochs[i]
      BY <2>1
    <3>2. 0 <= x
      OBVIOUS
    <3>. QED
      BY <2>1, <3>1, <3>2
  <2>3. \A i \in Ids : auths[i] # None => auths[i].epoch <= authEpochs[i]
    BY <1>4
  <2>4. pc[Loader] # "replace"
    BY <1>1, <1>2
  <2>. QED
    BY <2>2, <2>3, <2>4 DEF EpochInv
<1>11. RestInv
  <2>1. ASSUME NEW i \in Ids, auths[i] # None PROVE Rested(i)
    <3>1. /\ store[i] # None /\ authEpochs[i] = 1 /\ auths[i].epoch = 1 /\ auths[i].run = 0
          /\ Durable(auths[i]) = store[i]
      BY <1>4, <2>1
    <3>2. VersionFits(i)
      BY <1>5, <3>1 DEF VersionFits
    <3>. QED
      BY <1>5, <3>1, <3>2 DEF Rested, SavedAs
  <2>. QED
    BY <2>1 DEF RestInv, Rested
<1>12. MutatorInv /\ SaverInv
  BY <1>1, <1>2 DEF MutatorInv, SaverInv, Busy, Workers
<1>. QED
  BY <1>6, <1>7, <1>8, <1>9, <1>10, <1>11, <1>12 DEF IInv, TypeOK

LEMMA Step ==
    ASSUME IInv, [Next]_vars
    PROVE  IInv'
<1>1. ASSUME NEW p \in Mutators, \E k \in Kinds, i \in Ids : Begin(p, k, i)
      PROVE  IInv'
  BY <1>1, BeginKeeps
<1>2. ASSUME NEW p \in Mutators, MutatorStep(p) \/ GiveUpWaiting(p) \/ SaveFails(p)
      PROVE  IInv'
  <2>1. p \in Actors
    BY DEF Actors
  <2>. QED
    BY <1>2, <2>1, PassBarrierKeeps, TakeGateKeeps, CloneKeeps, PrepareKeeps, EndsKeep, RemoveKeeps,
       SaveStepsKeep, PublishKeeps DEF MutatorStep
<1>3. ASSUME NEW q \in Savers, \E i \in Ids : BeginHint(q, i)
      PROVE  IInv'
  BY <1>3, BeginHintKeeps
<1>4. ASSUME NEW q \in Savers, SaverStep(q) \/ RejectHint(q) \/ HintSaved(q) \/ HintSaveFails(q)
      PROVE  IInv'
  <2>1. q \in Actors
    BY DEF Actors
  <2>2. ASSUME PublishHint(q, TRUE) \/ PublishHint(q, FALSE) PROVE IInv'
    BY <2>2, PublishHintKeeps
  <2>. QED
    BY <1>4, <2>1, <2>2, PassBarrierKeeps, HintStepKeeps, EndsKeep, PrepareHintKeeps, HintSavedKeeps,
       HintSaveFailsKeeps DEF SaverStep
<1>5. ASSUME NEW q \in Savers, CancelHint(q) PROVE IInv'
  BY <1>5, StutterKeeps DEF CancelHint, gateVars
<1>6. ASSUME BeginLoad \/ LoaderStep PROVE IInv'
  <2>1. Loader \in Actors
    BY DEF Actors
  <2>. QED
    BY <1>6, <2>1, PassBarrierKeeps, LoaderKeeps, ReplaceAuthsKeeps DEF LoaderStep
<1>7. ASSUME NEW i \in Ids, RuntimeWrite(i) PROVE IInv'
  BY <1>7, RuntimeWriteKeeps
<1>8. CASE UNCHANGED vars
  BY <1>8, StutterKeeps DEF vars, gateVars
<1>. QED
  BY <1>1, <1>2, <1>3, <1>4, <1>5, <1>6, <1>7, <1>8 DEF Next

(* The inductive invariant holds in every state the Manager reaches.       *)
THEOREM Invariance ==
    Spec => []IInv
<1>1. Init => IInv
  BY InitInv
<1>2. IInv /\ [Next]_vars => IInv'
  BY Step
<1>. QED
  BY <1>1, <1>2, PTL DEF Spec

(* Every variable that the Manager decides by keeps its type, through      *)
(* every interleaving of mutations, metadata saves, reloads and runtime    *)
(* writes.                                                                 *)
THEOREM TypeCorrect ==
    Spec => []TypeOK
<1>1. IInv => TypeOK
  BY DEF IInv
<1>. QED
  BY <1>1, Invariance, PTL

(* Nobody is between the two critical sections of a quiet credential.      *)
LEMMA QuietIsRested ==
    ASSUME IInv, NEW i \in Ids, Quiet(i)
    PROVE  Rested(i)
<1>1. SUFFICES ASSUME NEW a \in Workers, pc[a] \in Busy, op[a].id = i PROVE FALSE
  BY DEF IInv, RestInv, WorkedOn
<1>2. op[a] # NoOp
  <2>1. CASE a \in Mutators
    <3>1. op[a] \in Prepared
      BY <1>1, <2>1 DEF IInv, OpInv, MutatorOp, Busy, Outside, Unprepared
    <3>. QED
      BY <3>1, OpType
  <2>2. CASE a \in Savers
    <3>1. op[a] \in HintPrepared
      BY <1>1, <2>2 DEF IInv, OpInv, SaverOp, Busy, Outside, HintUnprepared
    <3>. QED
      BY <3>1, OpType
  <2>. QED
    BY <2>1, <2>2 DEF Workers
<1>. QED
  BY <1>1, <1>2 DEF Quiet, Workers, Busy

(* No interleaving of mutations, metadata saves and reloads leaves the     *)
(* store or the memory with the older of two contents: what is published   *)
(* for a quiet credential is what a restart would find, unless its last    *)
(* save failed.                                                            *)
THEOREM StoreMatches ==
    Spec => []StoreMatchesPublished
<1>1. IInv => StoreMatchesPublished
  BY QuietIsRested DEF StoreMatchesPublished, Rested, SavedAs
<1>. QED
  BY <1>1, Invariance, PTL

(* A runtime write made while Store.Save ran without Manager.mu is still   *)
(* there after the publication that follows the save.                      *)
THEOREM RuntimeWritesKept ==
    Spec => []NoLostRuntimeWrite
<1>1. IInv => NoLostRuntimeWrite
  BY QuietIsRested DEF NoLostRuntimeWrite, Rested
<1>. QED
  BY <1>1, Invariance, PTL
=============================================================================
