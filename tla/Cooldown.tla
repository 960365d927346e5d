------------------------------ MODULE Cooldown ------------------------------
(***************************************************************************)
(* Result accounting for one credential: MarkResult's cooldowns            *)
(* (sdk/cliproxy/auth/conductor_cooldown.go), the early end of a           *)
(* credential quota (applyDevinQuotaRestoration, conductor_refresh.go) and *)
(* ResetQuota.                                                             *)
(*                                                                         *)
(* Executions overlap: a result arrives in any order after its dispatch.   *)
(* A failure cools the model it names until a deadline; a credential-      *)
(* scoped quota failure wraps every model of the credential, and while it  *)
(* does each model's own cooldown lives on in a shadow beneath it.         *)
(*                                                                         *)
(* The clock counts units in which the retry times are Short, Mid and Long;*)
(* zero is the zero time.  Backoff levels are abstracted: a quota window   *)
(* that opens lasts any time of Backoffs.  Cooling is enabled, the         *)
(* credential is not condemned by a 401, and results name a model.         *)
(***************************************************************************)
EXTENDS Naturals, FiniteSetsExt, TLC

CONSTANTS
  Models,        \* models of the credential
  Kinds,         \* classes of failure
  Short,         \* transientErrorCooldown
  Mid,           \* 30 minutes
  Long,          \* 12 hours, or an explicit retry hint
  Backoffs,      \* lengths of a quota window without a hint
  MaxClock,      \* bound on the clock
  MaxDispatch,   \* bound on the executions dispatched
  MaxAdmin,      \* bound on resets, replacements and quota observations
  None

ASSUME TimesAssumption ==
  /\ {Short, Mid, Long} \subseteq Nat \ {0}
  /\ Backoffs \subseteq Nat \ {0}

AllKinds == {"support", "mid", "apikey", "transient", "server", "challenge",
             "quota", "hint", "credquota", "credhint"}
ASSUME KindsAssumption == Kinds \subseteq AllKinds

\* Models are interchangeable.
Symmetry == Permutations(Models)

VARIABLES
  now,       \* the clock
  seq,       \* m.executionSeq
  running,   \* executions dispatched and not yet reported
  st,        \* auth.ModelStates
  quota,     \* auth.Quota: reason and NextRecoverAt
  epoch,     \* RegistrationEpoch
  cver,      \* CredentialVersion
  observed,  \* a quota observation of a refresh that is on its way
  admin,     \* administrative steps taken
  own,       \* history: the deadline each model's own failures justify
  cred,      \* history: the deadline of the credential quota
  ownSeq,    \* history: executions dispatched before own was last extended
  credSeq    \* history: executions dispatched before cred was last extended

vars == <<now, seq, running, st, quota, epoch, cver, observed, admin,
          own, cred, ownSeq, credSeq>>
history == <<own, cred, ownSeq, credSeq>>

-----------------------------------------------------------------------------
(* Model states *)

Reasons == {"", "cloudflare challenge", "quota", "credential_quota"}

\* A shadow has no shadow of its own.
Shadows == [unavail : BOOLEAN, retry : Nat, until : Nat, reason : Reasons,
            seq : Nat, wrapped : BOOLEAN, shadow : {None}]

ModelStates == [unavail : BOOLEAN, retry : Nat, until : Nat, reason : Reasons,
                seq : Nat, wrapped : BOOLEAN, shadow : {None} \cup Shadows]

ASSUME NoneAssumption == None \notin ModelStates

\* A clean state, as resetModelState and ensureModelState leave it.
Clean == [unavail |-> FALSE, retry |-> 0, until |-> 0, reason |-> "",
          seq |-> 0, wrapped |-> FALSE, shadow |-> None]

NoQuota == [reason |-> "", until |-> 0]

Later(a, b) == IF a > b THEN a ELSE b

cloneShallow(s) == [s EXCEPT !.shadow = None]

isModelStateActiveCooldown(s) == s.retry > now \/ s.until > now

\* The auth-level credential quota is in force.
CredLive(q) == q.reason = "credential_quota" /\ q.until > now

\* What the selector sees (isAuthBlockedForModel, availabilityBlock).
Blocked(m) ==
  \/ CredLive(quota)
  \/ /\ st[m] # None
     /\ st[m].unavail \/ st[m].reason # ""
     /\ isModelStateActiveCooldown(st[m])

Wrapped(s) == s.wrapped \/ s.reason = "credential_quota"

\* The independent layer of a state whose wrap is gone.
Unwrapped(s) ==
  IF s.shadow # None /\ isModelStateActiveCooldown(s.shadow)
  THEN cloneShallow(s.shadow) ELSE Clean

\* A naturally expired wrap is dropped before a new result is applied.
Normalised(s, q) == IF Wrapped(s) /\ ~CredLive(q) THEN Unwrapped(s) ELSE s

\* updateAggregatedAvailability: expired deadlines are cleared, and the
\* credential's quota follows the models' unless a credential quota is in force.
AggregatedStates(f, q) ==
  [m \in Models |->
     IF ~CredLive(q) /\ f[m] # None /\ f[m].unavail /\ f[m].retry \in 1..now
     THEN [f[m] EXCEPT !.unavail = FALSE, !.retry = 0] ELSE f[m]]

AggregatedQuota(f, q) ==
  LET exceeded == {m \in Models : f[m] # None /\ f[m].reason # ""}
      untils   == {f[m].until : m \in exceeded}
  IN  IF CredLive(q) THEN q
      ELSE IF exceeded # {}
      THEN [reason |-> "quota", until |-> Later(q.until, Min(untils))]
      ELSE IF q.reason # "" /\ q.until > now THEN q ELSE NoQuota

\* The states f and the quota q, and the availability aggregated from them.
Aggregate(f, q) ==
  /\ st' = AggregatedStates(f, q)
  /\ quota' = AggregatedQuota(f, q)

-----------------------------------------------------------------------------
(* A failure of one model *)

Scoped(kind) == kind \in {"credquota", "credhint"}

\* quotaCooldownAfterFailure: an open window is reused, d is the length of a
\* new one.
QuotaWindow(q, d) == IF q.until > now THEN q.until ELSE now + d

\* The quota a failure without a hint continues.
Continued(kind, s) ==
  IF ~Scoped(kind) THEN [reason |-> s.reason, until |-> s.until]
  ELSE IF quota.reason = "credential_quota" THEN quota ELSE NoQuota

\* The deadline of a quota failure before the model's own quota is considered.
QuotaNext(kind, s, d) ==
  IF kind \in {"hint", "credhint"} THEN now + Long
  ELSE QuotaWindow(Continued(kind, s), d)

\* The layer s after a failure of this kind.
Failed(s, kind, d) ==
  LET q == Later(QuotaNext(kind, s, d), IF s.reason # "" THEN s.until ELSE 0)
      r == CASE kind = "support"    -> [s EXCEPT !.retry = now + Long]
             [] kind = "mid"        -> [s EXCEPT !.retry = now + Mid]
             [] kind = "server"     -> [s EXCEPT !.retry = now + Short]
             [] kind = "transient"  -> [s EXCEPT !.retry =
                    Later(now + Short, IF s.reason # "" THEN s.until ELSE 0)]
             [] kind = "challenge"  -> [s EXCEPT !.retry = now + d,
                    !.until = now + d, !.reason = "cloudflare challenge"]
             [] kind = "apikey"     -> [s EXCEPT !.retry = now + Mid,
                    !.until = now + Mid, !.reason = "credential_quota"]
             [] OTHER               -> [s EXCEPT !.retry = q, !.until = q,
                    !.reason = "quota"]
  IN  [r EXCEPT !.unavail = TRUE,
                !.shadow  = IF kind \in {"quota", "hint"} THEN None ELSE @]

\* A later failure only extends a still-live cooldown.
Extended(s, prev) ==
  IF prev > s.retry /\ prev > now THEN [s EXCEPT !.retry = prev] ELSE s

\* The own failure of a model beneath a credential quota: the outer state is
\* composed from the saved propagated layer and the independent one.
Composed(saved, ind) ==
  [saved EXCEPT
     !.shadow  = IF isModelStateActiveCooldown(ind) THEN cloneShallow(ind) ELSE None,
     !.seq     = seq,
     !.wrapped = TRUE,
     !.unavail = TRUE,
     !.retry   = Later(Later(@, ind.retry), quota.until),
     !.until   = IF saved.reason = "credential_quota" THEN @ ELSE quota.until,
     !.reason  = "credential_quota"]

\* The state of the reporting model after its failure.
Reported(m, kind, d) ==
  LET s       == Normalised(IF st[m] = None THEN Clean ELSE st[m], quota)
      pending == ~Scoped(kind) /\ CredLive(quota)
      layer   == IF ~pending THEN s
                 ELSE IF s.shadow # None THEN s.shadow ELSE Clean
      failed  == [Extended(Failed(layer, kind, d), layer.retry) EXCEPT !.seq = seq]
      first   == Scoped(kind) /\ ~Wrapped(s)
      kept    == IF s.retry > now
                 THEN [cloneShallow(s) EXCEPT !.unavail = TRUE] ELSE None
  IN  IF pending THEN Composed(cloneShallow(s), failed)
      ELSE IF ~Scoped(kind) THEN failed
      ELSE [failed EXCEPT !.wrapped = TRUE,
                          !.shadow = IF first THEN kept ELSE s.shadow]

\* Mutant: a repeated propagation takes its own layer for the model's.
SnapshotAgain(o, next) ==
  LET s == Normalised(o, quota)
      u == Later(next, IF s.reason # "" THEN s.until ELSE 0)
  IN  [s EXCEPT !.shadow  = IF isModelStateActiveCooldown(s)
                            THEN cloneShallow(s) ELSE None,
                !.wrapped = TRUE, !.unavail = TRUE, !.seq = seq,
                !.retry = Later(@, u), !.until = u, !.reason = "credential_quota"]

\* A credential quota that ends at next propagates to another model: the first
\* wrap keeps a live own cooldown beneath it.
Propagated(o, next) ==
  LET s == Normalised(o, quota)
      u == Later(next, IF s.reason # "" THEN s.until ELSE 0)
  IN  [s EXCEPT !.shadow  = IF Wrapped(s) THEN @
                            ELSE IF isModelStateActiveCooldown(s)
                            THEN cloneShallow(s) ELSE None,
                !.wrapped = TRUE, !.unavail = TRUE, !.seq = seq,
                !.retry = Later(@, u), !.until = u, !.reason = "credential_quota"]

\* The invalid_api_key branch writes the same block over every other model.
Overwritten(o) ==
  [o EXCEPT !.unavail = TRUE, !.retry = now + Mid, !.until = now + Mid,
            !.reason = "credential_quota"]

Sibling(o, m, kind, d) ==
  IF o = None THEN None
  ELSE IF Scoped(kind)
       THEN Propagated(o, QuotaNext(kind, Normalised(IF st[m] = None THEN Clean
                                                     ELSE st[m], quota), d))
  ELSE IF kind = "apikey" THEN Overwritten(o) ELSE o

CredentialQuota(m, kind, d) ==
  IF kind = "apikey" THEN [reason |-> "credential_quota", until |-> now + Mid]
  ELSE IF ~Scoped(kind) THEN quota
  ELSE [reason |-> "credential_quota",
        until  |-> Later(QuotaNext(kind, Clean, d),
                         IF quota.reason = "credential_quota" THEN quota.until ELSE 0)]

\* The deadline a failure justifies: nothing new when a quota window was open.
Justified(kind, s, d) ==
  CASE kind = "support"                          -> now + Long
    [] kind \in {"mid", "apikey"}                -> now + Mid
    [] kind \in {"server", "transient"}          -> now + Short
    [] kind = "challenge"                        -> now + d
    [] kind \in {"hint", "credhint"}             -> now + Long
    [] kind \in {"quota", "credquota"}           ->
         IF Continued(kind, s).until > now THEN 0 ELSE now + d

-----------------------------------------------------------------------------
Init ==
  /\ now = 1 /\ seq = 0
  /\ running = {}
  /\ st = [m \in Models |-> None]
  /\ quota = NoQuota
  /\ epoch = 1 /\ cver = 1
  /\ observed = "none"
  /\ admin = 0
  /\ own = [m \in Models |-> 0] /\ cred = 0
  /\ ownSeq = [m \in Models |-> 0] /\ credSeq = 0

Tick ==
  /\ now < MaxClock
  /\ now' = now + 1
  /\ UNCHANGED <<seq, running, st, quota, epoch, cver, observed, admin, history>>

\* nextExecutionSeq and the request that carries it.  A request goes out with
\* the registration and version its credential had when it was picked.
Dispatch(m) ==
  /\ seq < MaxDispatch
  /\ ~Blocked(m)
  /\ seq' = seq + 1
  /\ running' = running \cup {[seq |-> seq + 1, model |-> m,
                               epoch |-> epoch, cver |-> cver]}
  /\ UNCHANGED <<now, st, quota, epoch, cver, observed, admin, history>>

\* auth.UpdatedAt moves past a quota observation made before.
Touch == observed' = IF observed = "fresh" THEN "old" ELSE observed

\* isStaleExecutionResult.
isStaleExecutionResult(x) == x.epoch < epoch \/ x.cver < cver

StaleResult(x) ==
  /\ isStaleExecutionResult(x)
  /\ running' = running \ {x}
  /\ UNCHANGED <<now, seq, st, quota, epoch, cver, observed, admin, history>>

\* Mutant: a success lifts whatever cooldown there is.
NeverRetain(x) == FALSE

\* A success of an execution dispatched before a live cooldown was recorded.
retainModelCooldown(x) ==
  /\ st[x.model] # None
  /\ isModelStateActiveCooldown(st[x.model])
  /\ st[x.model].seq > 0
  /\ x.seq <= st[x.model].seq

Success(x) ==
  LET m == x.model
  IN  /\ ~isStaleExecutionResult(x)
      /\ running' = running \ {x}
      /\ Touch
      /\ IF CredLive(quota) \/ retainModelCooldown(x)
         THEN UNCHANGED <<st, quota>>
         ELSE Aggregate([st EXCEPT ![m] = Clean], quota)
      /\ IF cred > now \/ (own[m] > now /\ x.seq <= Later(ownSeq[m], credSeq))
         THEN UNCHANGED history
         ELSE /\ own' = [own EXCEPT ![m] = 0]
              /\ UNCHANGED <<cred, ownSeq, credSeq>>
      /\ UNCHANGED <<now, seq, epoch, cver, admin>>

Failure(x, kind, d) ==
  LET m    == x.model
      s    == Normalised(IF st[m] = None THEN Clean ELSE st[m], quota)
      base == IF ~Scoped(kind) /\ CredLive(quota)
              THEN IF s.shadow # None THEN s.shadow ELSE Clean
              ELSE s
      due  == Justified(kind, base, d)
      wide == Scoped(kind) \/ kind = "apikey"
  IN  /\ ~isStaleExecutionResult(x)
      /\ running' = running \ {x}
      /\ Touch
      /\ Aggregate([o \in Models |-> IF o = m THEN Reported(m, kind, d)
                                     ELSE Sibling(st[o], m, kind, d)],
                   CredentialQuota(m, kind, d))
      /\ own'     = IF wide THEN own ELSE [own EXCEPT ![m] = Later(@, due)]
      /\ ownSeq'  = IF wide THEN ownSeq ELSE [ownSeq EXCEPT ![m] = seq]
      /\ cred'    = IF wide THEN Later(cred, due) ELSE cred
      /\ credSeq' = IF wide THEN seq ELSE credSeq
      /\ UNCHANGED <<now, seq, epoch, cver, admin>>

Admin ==
  /\ admin < MaxAdmin
  /\ admin' = admin + 1

\* ResetQuota: an administrator ends every cooldown.
ResetQuota ==
  /\ Admin
  /\ st' = [m \in Models |-> IF st[m] = None THEN None ELSE Clean]
  /\ quota' = NoQuota
  /\ Touch
  /\ own' = [m \in Models |-> 0] /\ cred' = 0
  /\ ownSeq' = [m \in Models |-> 0] /\ credSeq' = 0
  /\ UNCHANGED <<now, seq, running, epoch, cver>>

\* Register: a new registration without model states.
Register ==
  /\ Admin
  /\ epoch' = epoch + 1
  /\ cver' = cver + 1
  /\ st' = [m \in Models |-> None]
  /\ quota' = NoQuota
  /\ Touch
  /\ own' = [m \in Models |-> 0] /\ cred' = 0
  /\ ownSeq' = [m \in Models |-> 0] /\ credSeq' = 0
  /\ UNCHANGED <<now, seq, running>>

\* Update with other tokens: a new version that keeps the model states.
Update ==
  /\ Admin
  /\ cver' = cver + 1
  /\ Touch
  /\ UNCHANGED <<now, seq, running, st, quota, epoch, history>>

\* A refresh reads the remaining quota upstream, and brings it back later.
ObserveQuota ==
  /\ Admin
  /\ observed = "none"
  /\ observed' = "fresh"
  /\ UNCHANGED <<now, seq, running, st, quota, epoch, cver, history>>

\* applyDevinQuotaRestoration for one model: only the propagated layer goes.
Restored(s) ==
  IF s # None /\ s.reason # "" /\ (s.reason = "quota" \/ Wrapped(s))
  THEN Unwrapped(s) ELSE s

\* The observation arrives.  It ends a credential quota in force if nothing
\* was written since it was made (devinQuotaObservationRestored).
QuotaObserved ==
  /\ observed # "none"
  /\ observed' = "none"
  /\ IF observed = "fresh" /\ CredLive(quota)
     THEN /\ Aggregate([m \in Models |-> Restored(st[m])], NoQuota)
          /\ cred' = 0 /\ credSeq' = 0
          /\ UNCHANGED <<own, ownSeq>>
     ELSE UNCHANGED <<st, quota, history>>
  /\ UNCHANGED <<now, seq, running, epoch, cver, admin>>

Report(x) ==
  \/ StaleResult(x)
  \/ Success(x)
  \/ \E kind \in Kinds, d \in Backoffs : Failure(x, kind, d)

Next ==
  \/ Tick
  \/ \E m \in Models : Dispatch(m)
  \/ \E x \in running : Report(x)
  \/ ResetQuota
  \/ Register
  \/ Update
  \/ ObserveQuota
  \/ QuotaObserved

Spec == Init /\ [][Next]_vars

-----------------------------------------------------------------------------
\* Until the deadline that a model's own failures or a credential quota
\* justify, the model is not selectable: no success of an execution dispatched
\* before, no later failure with a nearer deadline, no wrap, no end of a wrap
\* and no result of a replaced credential ends a cooldown early (MarkResult,
\* applyDevinQuotaRestoration).
CooldownHolds ==
  \A m \in Models : own[m] > now \/ cred > now => Blocked(m)

\* A model is held only as long as its own failures or a credential quota
\* justify: its own deadline never inherits that of the quota that was
\* propagated to it, and a quota restored early leaves nothing behind.
CooldownEnds ==
  \A m \in Models : Blocked(m) => own[m] > now \/ cred > now

\* "A later failure only extends a still-live cooldown; it never shortens one"
\* (conductor_cooldown.go:1303): a failure reported for a model never moves that
\* model's live deadline nearer.
FailureExtends ==
  [][\A x \in running :
        x \notin running' /\ st[x.model] # None /\ st[x.model].retry > now
          => \/ st'[x.model].retry >= st[x.model].retry
             \/ st'[x.model] = Clean]_vars
=============================================================================
