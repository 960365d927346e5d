-------------------------- MODULE ExecutionRegistry --------------------------
(***************************************************************************)
(* The execution registry of one Home subscriber lifetime                  *)
(* (sdk/cliproxy/executionregistry).  A dispatch is begun while the answer *)
(* of Home is outstanding, installed as a scope when Home grants a         *)
(* credential, and ended by its owner.  Drain and Close shut the registry  *)
(* down while requests are still beginning, binding and ending.            *)
(*                                                                         *)
(* A step is one critical section of Registry.mu (or of Scope.mu, or one   *)
(* atomic operation on Registry.state); everything the code does between   *)
(* two critical sections is a separate step, so every interleaving of      *)
(* owners, drainers, closers, the close goroutines and the in-flight       *)
(* publisher is a behaviour.  Reading state and inserting in the same      *)
(* critical section is one step: Drain's compare-and-swap, which does not  *)
(* take the mutex, only changes state, so it commutes with the insertion.  *)
(***************************************************************************)
EXTENDS Integers, FiniteSets

CONSTANTS
    Groups,       \* release groups: (credential, model) pairs that are accounted
    Unaccounted,  \* the spec of a scope that Home does not account
    Drainers,     \* callers of Registry.Drain
    Closers,      \* callers of Registry.Close
    Waiters,      \* callers of Registry.WaitPending
    MaxDispatch,  \* bound: dispatches begun
    MaxSink,      \* bound: non-nil release sinks installed
    MaxBarrier,   \* bound: Home observation barriers
    MaxSnapshot   \* bound: in-flight snapshots taken

ASSUME RegistryAssumption ==
    /\ Unaccounted \notin Groups
    /\ IsFiniteSet(Groups)
    /\ {MaxDispatch, MaxSink, MaxBarrier, MaxSnapshot} \subseteq Nat
    /\ Drainers \cap Closers = {}
    /\ Drainers \cap Waiters = {}
    /\ Closers \cap Waiters = {}

Ids == 1..MaxDispatch
Sinks == 0..MaxSink                \* 0 is the nil sink
States == {"accepting", "draining", "closed"}
EndPcs == {"open", "inactive", "closing", "marked", "told", "gone"}
CallerPcs == {"idle", "swap", "snap", "closing", "await", "check", "wait", "join",
              "ok", "failed"}

VARIABLES
    state,        \* Registry.state
    next,         \* Registry.next: the last id handed out
    pending,      \* keys of Registry.pending
    scopes,       \* keys of Registry.scopes
    group,        \* Scope.spec, reduced to its release group
    active,       \* Scope.active
    bound,        \* Scope.closeFn # nil
    closeDone,    \* Scope.closeDone: nil, open (close running) or closed
    closing,      \* number of goroutines that ever ran the scope's closeFn
    endPc,        \* progress of Scope.EndWithRelease
    relSink,      \* the sink EndWithRelease took under the mutex
    relSeq,       \* the cumulative sequence it took with it
    seqs,         \* Registry.releaseSequences
    sink,         \* Registry.releaseSink
    sinks,        \* number of non-nil sinks installed so far
    calls,        \* replay calls of SetReleaseSink not made yet
    seen,         \* per sink and group: the largest sequence it was told
    observed,     \* Registry.observedBarrier
    barrierSeq,   \* Registry.pendingBarrierSequence
    published,    \* Registry.publishedBarrier
    revision,     \* Registry.snapshotRevision
    freeze,       \* the last Freeze: its barrier and its executions
    barrierAt,    \* history: value of next when a barrier was observed
    pc,           \* progress of the Drain, Close and WaitPending callers
    todo,         \* the scopes a Drain or Close copied and still has to close
    current,      \* the scope a Close is waiting for
    asleep,       \* callers blocked on the changed channel they copied
    closeOwner    \* Registry.closeStarted/closeDone: none, running or done

scopeVars == <<group, active, bound, closeDone, closing, endPc, relSink, relSeq>>
sinkVars == <<seqs, sink, sinks, calls, seen>>
barrierVars == <<observed, barrierSeq, published, revision, freeze, barrierAt>>
callerVars == <<pc, todo, current, closeOwner>>
vars == <<state, next, pending, scopes, scopeVars, sinkVars, barrierVars,
          callerVars, asleep>>

Callers == Drainers \cup Closers \cup Waiters

Init ==
    /\ state = "accepting"
    /\ next = 0
    /\ pending = {}
    /\ scopes = {}
    /\ group = [i \in Ids |-> Unaccounted]
    /\ active = [i \in Ids |-> FALSE]
    /\ bound = [i \in Ids |-> FALSE]
    /\ closeDone = [i \in Ids |-> "nil"]
    /\ closing = [i \in Ids |-> 0]
    /\ endPc = [i \in Ids |-> "open"]
    /\ relSink = [i \in Ids |-> 0]
    /\ relSeq = [i \in Ids |-> 0]
    /\ seqs = [g \in Groups |-> 0]
    /\ sink = 0
    /\ sinks = 0
    /\ calls = {}
    /\ seen = [k \in Sinks |-> [g \in Groups |-> 0]]
    /\ observed = 0
    /\ barrierSeq = 0
    /\ published = 0
    /\ revision = 0
    /\ freeze = [barrier |-> 0, executions |-> {}]
    /\ barrierAt = [b \in 1..MaxBarrier |-> 0]
    /\ pc = [c \in Callers |-> "idle"]
    /\ todo = [c \in Callers |-> {}]
    /\ current = [c \in Callers |-> 0]
    /\ asleep = {}
    /\ closeOwner = "none"

-----------------------------------------------------------------------------
(* Mutant: signalLocked installs a new channel without closing the old     *)
(* one.                                                                    *)
SignalNobody == UNCHANGED asleep

(* signalLocked closes the changed channel: every caller blocked on the    *)
(* copy it took wakes up.                                                  *)
SignalLocked == asleep' = {}

(* BeginDispatch: reserve an id while the registry accepts traffic.        *)
BeginDispatch ==
    /\ state = "accepting"
    /\ next < MaxDispatch
    /\ next' = next + 1
    /\ pending' = pending \cup {next + 1}
    /\ UNCHANGED <<state, scopes, scopeVars, sinkVars, barrierVars, callerVars, asleep>>

(* PendingDispatch.End: give the id back without installing it; the once   *)
(* makes every later call a no-op.                                         *)
EndPending(i) ==
    /\ i \in pending
    /\ pending' = pending \ {i}
    /\ SignalLocked
    /\ UNCHANGED <<state, next, scopes, scopeVars, sinkVars, barrierVars, callerVars>>

(* Install while accepting: the id moves from pending to scopes in one     *)
(* critical section.                                                       *)
Install(i, g) ==
    /\ state = "accepting"
    /\ i \in pending
    /\ pending' = pending \ {i}
    /\ scopes' = scopes \cup {i}
    /\ group' = [group EXCEPT ![i] = g]
    /\ active' = [active EXCEPT ![i] = TRUE]
    /\ SignalLocked
    /\ UNCHANGED <<state, next, bound, closeDone, closing, endPc, relSink, relSeq,
                   sinkVars, barrierVars, callerVars>>

(* Install once the registry stopped accepting: the token is consumed      *)
(* (whether or not it still was pending).                                  *)
InstallRejected(i) ==
    /\ state # "accepting"
    /\ i <= next
    /\ pending' = pending \ {i}
    /\ SignalLocked
    /\ UNCHANGED <<state, next, scopes, scopeVars, sinkVars, barrierVars, callerVars>>

(* Bind: a live scope accepts exactly one resource.                        *)
Bind(i) ==
    /\ state = "accepting"
    /\ active[i]
    /\ ~bound[i]
    /\ closeDone[i] = "nil"
    /\ bound' = [bound EXCEPT ![i] = TRUE]
    /\ UNCHANGED <<state, next, pending, scopes, group, active, closeDone, closing,
                   endPc, relSink, relSeq, sinkVars, barrierVars, callerVars, asleep>>

(* Mutant: startBoundResourceClose leaves closeFn in place and does not    *)
(* look at closeDone.                                                      *)
StartCloseAgain(i) ==
    IF bound[i]
    THEN /\ closeDone' = [closeDone EXCEPT ![i] = "open"]
         /\ closing' = [closing EXCEPT ![i] = @ + 1]
         /\ UNCHANGED bound
    ELSE UNCHANGED <<bound, closeDone, closing>>

(* startBoundResourceClose: the first caller hands closeFn to a goroutine, *)
(* later ones only get the channel that goroutine closes.                  *)
StartClose(i) ==
    IF closeDone[i] = "nil" /\ bound[i]
    THEN /\ bound' = [bound EXCEPT ![i] = FALSE]
         /\ closeDone' = [closeDone EXCEPT ![i] = "open"]
         /\ closing' = [closing EXCEPT ![i] = @ + 1]
    ELSE UNCHANGED <<bound, closeDone, closing>>

(* The goroutine: closeFn returned (an error is only logged).              *)
ResourceClosed(i) ==
    /\ closeDone[i] = "open"
    /\ closeDone' = [closeDone EXCEPT ![i] = "closed"]
    /\ UNCHANGED <<state, next, pending, scopes, group, active, bound, closing, endPc,
                   relSink, relSeq, sinkVars, barrierVars, callerVars, asleep>>

-----------------------------------------------------------------------------
(* EndWithRelease, guarded by Scope.ended: the scope stops accepting a     *)
(* resource ...                                                            *)
EndDeactivate(i) ==
    /\ i \in scopes
    /\ endPc[i] = "open"
    /\ active' = [active EXCEPT ![i] = FALSE]
    /\ endPc' = [endPc EXCEPT ![i] = "inactive"]
    /\ UNCHANGED <<state, next, pending, scopes, group, bound, closeDone, closing,
                   relSink, relSeq, sinkVars, barrierVars, callerVars, asleep>>

(* ... its resource starts to close ...                                    *)
EndStartClose(i) ==
    /\ endPc[i] = "inactive"
    /\ StartClose(i)
    /\ endPc' = [endPc EXCEPT ![i] = "closing"]
    /\ UNCHANGED <<state, next, pending, scopes, group, active, relSink, relSeq,
                   sinkVars, barrierVars, callerVars, asleep>>

(* Mutant: a release is counted only while a sink is installed.            *)
EndMarkReleasedToSink(i) ==
    /\ endPc[i] = "closing"
    /\ closeDone[i] # "open"
    /\ endPc' = [endPc EXCEPT ![i] = "marked"]
    /\ IF group[i] \in Groups /\ sink # 0
       THEN /\ seqs' = [seqs EXCEPT ![group[i]] = @ + 1]
            /\ relSink' = [relSink EXCEPT ![i] = sink]
            /\ relSeq' = [relSeq EXCEPT ![i] = seqs[group[i]] + 1]
       ELSE UNCHANGED <<seqs, relSink, relSeq>>
    /\ UNCHANGED <<state, next, pending, scopes, group, active, bound, closeDone, closing,
                   sink, sinks, calls, seen, barrierVars, callerVars, asleep>>

(* ... once it is closed the release is counted, and the current sink is   *)
(* taken, under the registry mutex ...                                     *)
EndMarkReleased(i) ==
    /\ endPc[i] = "closing"
    /\ closeDone[i] # "open"
    /\ endPc' = [endPc EXCEPT ![i] = "marked"]
    /\ IF group[i] \in Groups
       THEN /\ seqs' = [seqs EXCEPT ![group[i]] = @ + 1]
            /\ relSink' = [relSink EXCEPT ![i] = sink]
            /\ relSeq' = [relSeq EXCEPT ![i] = seqs[group[i]] + 1]
       ELSE UNCHANGED <<seqs, relSink, relSeq>>
    /\ UNCHANGED <<state, next, pending, scopes, group, active, bound, closeDone, closing,
                   sink, sinks, calls, seen, barrierVars, callerVars, asleep>>

(* What a sink does with a cumulative sequence: MarkDirty keeps the        *)
(* largest one.                                                            *)
Tell(k, g, n) ==
    seen' = [seen EXCEPT ![k][g] = IF n > @ THEN n ELSE @]

(* ... the sink is told, without the mutex ...                             *)
EndTellSink(i) ==
    /\ endPc[i] = "marked"
    /\ endPc' = [endPc EXCEPT ![i] = "told"]
    /\ IF relSink[i] # 0 /\ relSeq[i] > 0
       THEN Tell(relSink[i], group[i], relSeq[i])
       ELSE UNCHANGED seen
    /\ UNCHANGED <<state, next, pending, scopes, group, active, bound, closeDone, closing,
                   relSink, relSeq, seqs, sink, sinks, calls, barrierVars, callerVars,
                   asleep>>

(* Mutant: the scope is deleted together with the count, before the sink   *)
(* is told.                                                                *)
EndForgetEarly(i) ==
    /\ endPc[i] \in {"marked", "told"}
    /\ endPc' = [endPc EXCEPT ![i] = "gone"]
    /\ scopes' = scopes \ {i}
    /\ SignalLocked
    /\ UNCHANGED <<state, next, pending, group, active, bound, closeDone, closing,
                   relSink, relSeq, sinkVars, barrierVars, callerVars>>

(* ... and only then the registry forgets the scope.                       *)
EndForget(i) ==
    /\ endPc[i] = "told"
    /\ endPc' = [endPc EXCEPT ![i] = "gone"]
    /\ scopes' = scopes \ {i}
    /\ SignalLocked
    /\ UNCHANGED <<state, next, pending, group, active, bound, closeDone, closing,
                   relSink, relSeq, sinkVars, barrierVars, callerVars>>

(* Mutant: a new sink starts without the sequences known so far.           *)
SetReleaseSinkOnly ==
    /\ sinks < MaxSink
    /\ sinks' = sinks + 1
    /\ sink' = sinks + 1
    /\ UNCHANGED <<state, next, pending, scopes, scopeVars, seqs, calls, seen, barrierVars,
                   callerVars, asleep>>

(* SetReleaseSink(sink): install and copy the sequences under the mutex... *)
SetReleaseSink ==
    /\ sinks < MaxSink
    /\ sinks' = sinks + 1
    /\ sink' = sinks + 1
    /\ calls' = calls \cup {[sink |-> sinks + 1, group |-> g, seq |-> seqs[g]] :
                              g \in {h \in Groups : seqs[h] > 0}}
    /\ UNCHANGED <<state, next, pending, scopes, scopeVars, seqs, seen, barrierVars,
                   callerVars, asleep>>

(* ... then replay each copied sequence without it.                        *)
ReplaySequence(m) ==
    /\ m \in calls
    /\ calls' = calls \ {m}
    /\ Tell(m.sink, m.group, m.seq)
    /\ UNCHANGED <<state, next, pending, scopes, scopeVars, seqs, sink, sinks, barrierVars,
                   callerVars, asleep>>

(* SetReleaseSink(nil).                                                    *)
ClearReleaseSink ==
    /\ sink # 0
    /\ sink' = 0
    /\ UNCHANGED <<state, next, pending, scopes, scopeVars, seqs, sinks, calls, seen,
                   barrierVars, callerVars, asleep>>

-----------------------------------------------------------------------------
(* ObserveBarrier: Home announced a newer barrier revision.                *)
ObserveBarrier(b) ==
    /\ b > observed
    /\ observed' = b
    /\ barrierSeq' = next
    /\ barrierAt' = [barrierAt EXCEPT ![b] = next]
    /\ UNCHANGED <<state, next, pending, scopes, scopeVars, sinkVars, published, revision,
                   freeze, callerVars, asleep>>

(* Mutant: a barrier is published as soon as it is observed.               *)
BarrierObserved == observed > published

(* The observed barrier may be published once no dispatch that was pending *)
(* when it was observed is still pending.                                  *)
BarrierReached ==
    /\ observed > published
    /\ \A i \in pending : i > barrierSeq

(* FreezeInFlight: the publisher's snapshot.                               *)
FreezeInFlight ==
    /\ revision < MaxSnapshot
    /\ revision' = revision + 1
    /\ published' = IF BarrierReached THEN observed ELSE published
    /\ freeze' = [barrier |-> published', executions |-> scopes]
    /\ UNCHANGED <<state, next, pending, scopes, scopeVars, sinkVars, observed, barrierSeq,
                   barrierAt, callerVars, asleep>>

-----------------------------------------------------------------------------
Goto(c, l) == pc' = [pc EXCEPT ![c] = l]

registryVars == <<next, pending, scopes, sinkVars, barrierVars>>

(* Drain: accepting -> draining, or join a drain that is already running;  *)
(* it returns an error from any other state.                               *)
DrainSwap(d) ==
    /\ pc[d] \in {"idle", "failed"}
    /\ state \in {"accepting", "draining"}
    /\ state' = "draining"
    /\ Goto(d, "snap")
    /\ UNCHANGED <<registryVars, scopeVars, todo, current, closeOwner, asleep>>

(* Drain and Close copy the current scopes under the mutex.                *)
CopyScopes(c) ==
    /\ pc[c] = "snap"
    /\ todo' = [todo EXCEPT ![c] = scopes]
    /\ Goto(c, "closing")
    /\ UNCHANGED <<state, registryVars, scopeVars, current, closeOwner, asleep>>

(* Drain starts to close every copied scope and waits for none of them.    *)
DrainStartClose(d, i) ==
    /\ pc[d] = "closing"
    /\ i \in todo[d]
    /\ StartClose(i)
    /\ todo' = [todo EXCEPT ![d] = @ \ {i}]
    /\ UNCHANGED <<state, registryVars, group, active, endPc, relSink, relSeq, pc, current,
                   closeOwner, asleep>>

DrainClosesStarted(d) ==
    /\ pc[d] = "closing"
    /\ todo[d] = {}
    /\ Goto(d, "check")
    /\ UNCHANGED <<state, registryVars, scopeVars, todo, current, closeOwner, asleep>>

(* Mutant: Drain waits for the scopes but not for the pending dispatches.  *)
DrainCheckScopes(d) ==
    /\ pc[d] = "check"
    /\ \/ /\ scopes = {}
          /\ state' = "closed"
          /\ Goto(d, "ok")
          /\ UNCHANGED asleep
       \/ /\ scopes # {}
          /\ asleep' = asleep \cup {d}
          /\ Goto(d, "wait")
          /\ UNCHANGED state
    /\ UNCHANGED <<registryVars, scopeVars, todo, current, closeOwner>>

(* Under the mutex: finish, or copy the changed channel and block on it.   *)
DrainCheck(d) ==
    /\ pc[d] = "check"
    /\ \/ /\ pending = {} /\ scopes = {}
          /\ state' = "closed"
          /\ Goto(d, "ok")
          /\ UNCHANGED asleep
       \/ /\ pending # {} \/ scopes # {}
          /\ asleep' = asleep \cup {d}
          /\ Goto(d, "wait")
          /\ UNCHANGED state
    /\ UNCHANGED <<registryVars, scopeVars, todo, current, closeOwner>>

(* WaitPending: the same loop over pending alone.                          *)
WaitPendingCall(w) ==
    /\ pc[w] \in {"idle", "ok", "failed"}
    /\ Goto(w, "check")
    /\ UNCHANGED <<state, registryVars, scopeVars, todo, current, closeOwner, asleep>>

WaitPendingCheck(w) ==
    /\ pc[w] = "check"
    /\ \/ pending = {} /\ Goto(w, "ok") /\ UNCHANGED asleep
       \/ pending # {} /\ Goto(w, "wait") /\ asleep' = asleep \cup {w}
    /\ UNCHANGED <<state, registryVars, scopeVars, todo, current, closeOwner>>

(* The copied channel was closed: take the mutex and look again.           *)
Wake(c) ==
    /\ pc[c] = "wait"
    /\ c \notin asleep
    /\ Goto(c, "check")
    /\ UNCHANGED <<state, registryVars, scopeVars, todo, current, closeOwner, asleep>>

(* ctx.Done won the select: the caller returns ctx.Err().                  *)
Expire(c) ==
    /\ pc[c] = "wait"
    /\ Goto(c, "failed")
    /\ asleep' = asleep \ {c}
    /\ UNCHANGED <<state, registryVars, scopeVars, todo, current, closeOwner>>

-----------------------------------------------------------------------------
(* Close: the first caller owns the shutdown; the others block on its      *)
(* closeDone; after a completed Drain there is nothing to do.              *)
CloseCall(c) ==
    /\ pc[c] = "idle"
    /\ \/ closeOwner # "none" /\ Goto(c, "join") /\ UNCHANGED closeOwner
       \/ closeOwner = "none" /\ state = "closed" /\ Goto(c, "ok") /\ UNCHANGED closeOwner
       \/ closeOwner = "none" /\ state # "closed" /\ Goto(c, "swap") /\ closeOwner' = "running"
    /\ UNCHANGED <<state, registryVars, scopeVars, todo, current, asleep>>

(* The compare-and-swap loop moves any state to closed.                    *)
CloseSwap(c) ==
    /\ pc[c] = "swap"
    /\ state' = "closed"
    /\ Goto(c, "snap")
    /\ UNCHANGED <<registryVars, scopeVars, todo, current, closeOwner, asleep>>

(* Close takes the scopes one after the other: it starts one close ...     *)
CloseStart(c, i) ==
    /\ pc[c] = "closing"
    /\ i \in todo[c]
    /\ StartClose(i)
    /\ todo' = [todo EXCEPT ![c] = @ \ {i}]
    /\ current' = [current EXCEPT ![c] = i]
    /\ Goto(c, "await")
    /\ UNCHANGED <<state, registryVars, group, active, endPc, relSink, relSeq, closeOwner,
                   asleep>>

(* Mutant: Close does not wait for the close goroutine.                    *)
CloseNotAwaited(c) ==
    /\ pc[c] = "await"
    /\ Goto(c, "closing")
    /\ UNCHANGED <<state, registryVars, scopeVars, todo, current, closeOwner, asleep>>

(* ... and waits until that one is done.                                   *)
CloseAwaited(c) ==
    /\ pc[c] = "await"
    /\ closeDone[current[c]] # "open"
    /\ Goto(c, "closing")
    /\ UNCHANGED <<state, registryVars, scopeVars, todo, current, closeOwner, asleep>>

(* Mutant: the owner of the shutdown returns without closing closeDone.    *)
CloseFinishSilent(c) ==
    /\ pc[c] = "closing"
    /\ todo[c] = {}
    /\ Goto(c, "ok")
    /\ UNCHANGED <<state, registryVars, scopeVars, todo, current, closeOwner, asleep>>

(* The owner of the shutdown closes closeDone and returns; the callers     *)
(* that joined it return after that.                                       *)
CloseFinish(c) ==
    /\ pc[c] = "closing"
    /\ todo[c] = {}
    /\ closeOwner' = "done"
    /\ Goto(c, "ok")
    /\ UNCHANGED <<state, registryVars, scopeVars, todo, current, asleep>>

CloseJoined(c) ==
    /\ pc[c] = "join"
    /\ closeOwner = "done"
    /\ Goto(c, "ok")
    /\ UNCHANGED <<state, registryVars, scopeVars, todo, current, closeOwner, asleep>>

-----------------------------------------------------------------------------
(* The owner of one dispatch.                                              *)
OwnerStep(i) ==
    \/ EndPending(i)
    \/ \E g \in Groups \cup {Unaccounted} : Install(i, g)
    \/ InstallRejected(i)
    \/ Bind(i)
    \/ EndDeactivate(i)
    \/ EndStartClose(i)
    \/ EndMarkReleased(i)
    \/ EndTellSink(i)
    \/ EndForget(i)

DrainStep(d) ==
    \/ DrainSwap(d)
    \/ CopyScopes(d)
    \/ \E i \in Ids : DrainStartClose(d, i)
    \/ DrainClosesStarted(d)
    \/ DrainCheck(d)
    \/ Wake(d)

CloseStep(c) ==
    \/ CloseCall(c)
    \/ CloseSwap(c)
    \/ CopyScopes(c)
    \/ \E i \in Ids : CloseStart(c, i)
    \/ CloseAwaited(c)
    \/ CloseFinish(c)
    \/ CloseJoined(c)

WaiterStep(w) ==
    \/ WaitPendingCall(w)
    \/ WaitPendingCheck(w)
    \/ Wake(w)

SinkStep ==
    \/ SetReleaseSink
    \/ \E m \in calls : ReplaySequence(m)
    \/ ClearReleaseSink

BarrierStep ==
    \/ \E b \in 1..MaxBarrier : ObserveBarrier(b)
    \/ FreezeInFlight

Next ==
    \/ BeginDispatch
    \/ \E i \in Ids : OwnerStep(i) \/ ResourceClosed(i)
    \/ SinkStep
    \/ BarrierStep
    \/ \E d \in Drainers : DrainStep(d)
    \/ \E c \in Closers : CloseStep(c)
    \/ \E w \in Waiters : WaiterStep(w)
    \/ \E c \in Drainers \cup Waiters : Expire(c)

Spec == Init /\ [][Next]_vars

(***************************************************************************)
(* Fairness.  A goroutine that can run eventually runs: the close          *)
(* goroutines, the shutdown callers, and EndWithRelease once called.  The  *)
(* owner of a dispatch always ends it (conductor_home.go defers the End of *)
(* the pending dispatch and of the selection), so ending is fair as well;  *)
(* whether it binds, or its context expires, is left open.                 *)
(***************************************************************************)
EndStep(i) ==
    \/ EndPending(i)
    \/ EndDeactivate(i)
    \/ EndStartClose(i)
    \/ EndMarkReleased(i)
    \/ EndTellSink(i)
    \/ EndForget(i)

Fairness ==
    /\ \A i \in Ids : WF_vars(EndStep(i)) /\ WF_vars(ResourceClosed(i))
    /\ \A d \in Drainers : WF_vars(DrainStep(d) /\ pc[d] \notin {"idle", "failed"})
    /\ \A c \in Closers : WF_vars(CloseStep(c) /\ pc[c] # "idle")
    /\ WF_vars(\E m \in calls : ReplaySequence(m))

FairSpec == Spec /\ Fairness
-----------------------------------------------------------------------------
RegistryType ==
    /\ state \in States
    /\ next \in 0..MaxDispatch
    /\ pending \subseteq 1..next
    /\ scopes \subseteq 1..next
    /\ pending \cap scopes = {}

ScopeType ==
    /\ group \in [Ids -> Groups \cup {Unaccounted}]
    /\ active \in [Ids -> BOOLEAN]
    /\ bound \in [Ids -> BOOLEAN]
    /\ closeDone \in [Ids -> {"nil", "open", "closed"}]
    /\ closing \in [Ids -> Nat]
    /\ endPc \in [Ids -> EndPcs]
    /\ relSink \in [Ids -> Sinks]
    /\ relSeq \in [Ids -> Nat]

SinkType ==
    /\ seqs \in [Groups -> Nat]
    /\ sink \in Sinks
    /\ sinks \in Sinks
    /\ calls \subseteq [sink : Sinks, group : Groups, seq : Nat]
    /\ seen \in [Sinks -> [Groups -> Nat]]

BarrierType ==
    /\ observed \in 0..MaxBarrier
    /\ barrierSeq \in 0..MaxDispatch
    /\ published \in 0..MaxBarrier
    /\ revision \in 0..MaxSnapshot
    /\ freeze \in [barrier : 0..MaxBarrier, executions : SUBSET Ids]
    /\ barrierAt \in [1..MaxBarrier -> 0..MaxDispatch]

CallerType ==
    /\ pc \in [Callers -> CallerPcs]
    /\ todo \in [Callers -> SUBSET Ids]
    /\ current \in [Callers -> 0..MaxDispatch]
    /\ asleep \subseteq Drainers \cup Waiters
    /\ closeOwner \in {"none", "running", "done"}

(* Every variable stays in its range, and an id is a pending dispatch, an  *)
(* installed scope or neither, never both: Install moves it in one step.   *)
TypeOK == RegistryType /\ ScopeType /\ SinkType /\ BarrierType /\ CallerType

(* A Drain that returned nil left nothing behind, and nothing was admitted *)
(* after it: no dispatch is pending, no execution is running, and the      *)
(* registry stays closed.                                                  *)
DrainedIsEmpty ==
    (\E d \in Drainers : pc[d] = "ok") =>
        state = "closed" /\ pending = {} /\ scopes = {}

ResourceReleased(i) == ~bound[i] /\ closeDone[i] # "open"

(* After a successful Drain or Close no execution resource is left bound   *)
(* or half closed, whichever of the concurrent End, Drain and Close calls  *)
(* was the one to close it.                                                *)
ShutdownReleasesResources ==
    (\E c \in Drainers \cup Closers : pc[c] = "ok") =>
        \A i \in Ids : ResourceReleased(i)

(* closeFn runs at most once per scope, however many of End, Drain and     *)
(* Close race for it, and the registry forgets a scope only after its      *)
(* resource is closed.                                                     *)
ClosedExactlyOnce ==
    \A i \in Ids :
        /\ closing[i] <= 1
        /\ endPc[i] = "gone" => ResourceReleased(i)

(* A caller of Drain or WaitPending never sleeps on a condition that       *)
(* already holds: signalLocked is called at every change that could wake   *)
(* it.                                                                     *)
NoLostWakeup ==
    /\ \A d \in asleep \cap Drainers : pending # {} \/ scopes # {}
    /\ asleep \cap Waiters # {} => pending # {}

Released(g) == {i \in Ids : group[i] = g /\ endPc[i] \in {"marked", "told", "gone"}}

(* The cumulative release sequence of a group is the number of its         *)
(* executions that were released: none is lost and none counted twice.     *)
ReleaseCounted == \A g \in Groups : seqs[g] = Cardinality(Released(g))

(* An accounted execution disappears from the in-flight snapshots only     *)
(* after the sink it was released to was told a sequence that covers it.   *)
ToldBeforeForgotten ==
    \A i \in Ids \ scopes :
        endPc[i] = "gone" /\ relSink[i] # 0 => seen[relSink[i]][group[i]] >= relSeq[i]

Owed(g) ==
    \/ \E m \in calls : m.sink = sink /\ m.group = g
    \/ \E i \in Ids : endPc[i] = "marked" /\ group[i] = g /\ relSink[i] = sink

(* A sink that replaces another one while executions are ending is told    *)
(* every release: once no call to it is outstanding it knows the latest    *)
(* sequence of each group.                                                 *)
SinkCatchesUp ==
    sink # 0 => \A g \in Groups : seen[sink][g] = seqs[g] \/ Owed(g)

(* Sinks are told outside the mutex, may be replaced meanwhile, and still  *)
(* none misses a release.                                                  *)
SinksInformed == ToldBeforeForgotten /\ SinkCatchesUp

(* Home may reconcile against the snapshot that carries a barrier: every   *)
(* dispatch begun before Home announced the barrier, and still running, is *)
(* one of the executions of that snapshot, and none is waiting to be       *)
(* installed after it.                                                     *)
BarrierSound ==
    freeze.barrier > 0 =>
        \A i \in pending \cup scopes :
            i <= barrierAt[freeze.barrier] => i \in freeze.executions

(* Once the registry left accepting, no dispatch or scope is admitted.     *)
NoAdmissionAfterShutdown ==
    [][state # "accepting" =>
         /\ state' # "accepting"
         /\ pending' \subseteq pending
         /\ scopes' \subseteq scopes]_vars

(* A Drain always returns: with an error if its context expires, and       *)
(* otherwise because every owner ends its dispatch and wakes it.           *)
DrainReturns ==
    \A d \in Drainers : (pc[d] = "snap") ~> (pc[d] \in {"ok", "failed"})

(* Close returns to each of its callers.                                   *)
CloseReturns ==
    \A c \in Closers : (pc[c] \in {"swap", "join"}) ~> (pc[c] = "ok")
=============================================================================
