----------------------- MODULE ExecutionRegistryProofs -----------------------
(***************************************************************************)
(* Proofs about ExecutionRegistry, for every set of callers and groups and *)
(* every bound.  The inductive invariant is the conjunction of TypeOK with *)
(* the named parts below.                                                  *)
(***************************************************************************)
EXTENDS ExecutionRegistry, FiniteSetTheorems, TLAPS

(* A scope and its resource: closeFn, closeDone and the progress of End    *)
(* agree, and what is not in scopes is either gone or was never installed. *)
ScopeInv ==
    \A i \in Ids :
        /\ closing[i] = IF closeDone[i] = "nil" THEN 0 ELSE 1
        /\ bound[i] => closeDone[i] = "nil"
        /\ active[i] => i \in scopes /\ endPc[i] = "open"
        /\ endPc[i] \in {"closing", "marked", "told", "gone"} => ~bound[i]
        /\ endPc[i] \in {"marked", "told", "gone"} => closeDone[i] # "open"
        /\ i \in scopes => endPc[i] # "gone"
        /\ i \notin scopes =>
             /\ endPc[i] \in {"open", "gone"}
             /\ ~bound[i] /\ closeDone[i] # "open"
        /\ i \in pending \/ i > next => endPc[i] = "open"

(* A caller of Close: its owner works in a closed registry and has every   *)
(* resource that is still open on its list.                                *)
CloserInv(c) ==
    /\ pc[c] \in {"idle", "swap", "snap", "closing", "await", "join", "ok"}
    /\ pc[c] \in {"swap", "snap", "closing", "await"} => closeOwner # "none"
    /\ pc[c] \in {"snap", "closing", "await"} => state = "closed"
    /\ pc[c] = "closing" => \A i \in Ids : ResourceReleased(i) \/ i \in todo[c]
    /\ pc[c] = "await" =>
         /\ current[c] \in Ids
         /\ ~bound[current[c]]
         /\ \A i \in Ids : ResourceReleased(i) \/ i \in todo[c] \/ i = current[c]
    /\ pc[c] = "ok" => state = "closed" /\ \A i \in Ids : ResourceReleased(i)

(* A finished Close left no resource open, and a registry that was closed  *)
(* by a Drain is empty.                                                    *)
CloseInv ==
    /\ \A c \in Closers : CloserInv(c)
    /\ closeOwner = "done" => state = "closed" /\ \A i \in Ids : ResourceReleased(i)
    /\ state = "closed" /\ closeOwner = "none" => pending = {} /\ scopes = {}

(* Barriers: the last published one is the one of the last snapshot, and   *)
(* what was begun before it is resolved and, if running, in that snapshot. *)
BarrierInv ==
    /\ published <= observed
    /\ freeze.barrier = published
    /\ barrierSeq <= next
    /\ observed > 0 => barrierSeq = barrierAt[observed]
    /\ published > 0 => \A i \in pending : i > barrierAt[published]
    /\ published > 0 => \A i \in scopes : i <= barrierAt[published] => i \in freeze.executions
    /\ published > 0 => barrierAt[published] <= next

(* Releases: what a sink is told never exceeds the sequence, and the       *)
(* current sink knows each sequence or is about to be told exactly it.     *)
OwnReleaseInv(i) ==
    /\ endPc[i] \in {"open", "inactive", "closing"} => relSink[i] = 0 /\ relSeq[i] = 0
    /\ relSink[i] # 0 => group[i] \in Groups /\ relSeq[i] > 0
    /\ group[i] \in Groups => relSeq[i] <= seqs[group[i]]
    /\ endPc[i] \in {"told", "gone"} /\ relSink[i] # 0 =>
         seen[relSink[i]][group[i]] >= relSeq[i]

CallsInv == \A m \in calls : m.seq <= seqs[m.group]

SeenInv == \A k \in Sinks, g \in Groups : seen[k][g] <= seqs[g]

ReleaseInv ==
    /\ \A i \in Ids : OwnReleaseInv(i)
    /\ CallsInv
    /\ SeenInv
    /\ sink <= sinks

CurrentSinkInv ==
    sink # 0 => \A g \in Groups :
        \/ seen[sink][g] = seqs[g]
        \/ \E m \in calls : m.sink = sink /\ m.group = g /\ m.seq = seqs[g]
        \/ \E i \in Ids :
             endPc[i] = "marked" /\ group[i] = g /\ relSink[i] = sink /\ relSeq[i] = seqs[g]

IInv ==
    /\ TypeOK
    /\ ScopeInv
    /\ CloseInv
    /\ DrainedIsEmpty
    /\ NoLostWakeup
    /\ BarrierInv
    /\ ReleaseInv
    /\ CurrentSinkInv
    /\ ReleaseCounted

-----------------------------------------------------------------------------
(* Type correctness, part by part.  Each proof first narrows the step to   *)
(* the actions that write the variables of that part.                      *)

(* Every step keeps ids in one of pending and scopes, below next.          *)
LEMMA RegistryTypeStep == TypeOK /\ [Next]_vars => RegistryType'
<1>. SUFFICES ASSUME TypeOK, [Next]_vars PROVE RegistryType'
  OBVIOUS
<1>1. CASE UNCHANGED <<state, next, pending, scopes>>
  BY <1>1 DEF TypeOK, RegistryType
<1>2. \/ UNCHANGED <<state, next, pending, scopes>>
      \/ BeginDispatch
      \/ \E i \in Ids : EndPending(i) \/ InstallRejected(i) \/ EndForget(i)
      \/ \E i \in Ids, g \in Groups \cup {Unaccounted} : Install(i, g)
      \/ \E d \in Drainers : DrainSwap(d) \/ DrainCheck(d)
      \/ \E c \in Closers : CloseSwap(c)
  BY DEF vars, Next, OwnerStep, DrainStep, CloseStep, WaiterStep, SinkStep, BarrierStep,
         Bind, ResourceClosed, EndDeactivate, EndStartClose, EndMarkReleased, EndTellSink,
         SetReleaseSink, ReplaySequence, ClearReleaseSink, ObserveBarrier, FreezeInFlight,
         registryVars, CopyScopes, DrainStartClose, DrainClosesStarted, WaitPendingCall,
         WaitPendingCheck, Wake, Expire, CloseCall, CloseStart, CloseAwaited, CloseFinish,
         CloseJoined
<1>. USE RegistryAssumption DEF TypeOK, RegistryType, States
<1>3. CASE BeginDispatch
  <2>1. /\ UNCHANGED <<state, scopes>>
        /\ next' = next + 1 /\ next < MaxDispatch
        /\ pending' = pending \cup {next + 1}
    BY <1>3 DEF BeginDispatch
  <2>2. next' \in 0..MaxDispatch /\ 1..next \subseteq 1..next'
    BY <2>1
  <2>3. next + 1 \in 1..next' /\ next + 1 \notin 1..next
    BY <2>1
  <2>. QED
    BY <2>1, <2>2, <2>3
<1>4. ASSUME NEW i \in Ids, EndPending(i) \/ InstallRejected(i) \/ EndForget(i)
      PROVE  RegistryType'
  BY <1>4 DEF EndPending, InstallRejected, EndForget
<1>5. ASSUME NEW i \in Ids, NEW g \in Groups \cup {Unaccounted}, Install(i, g)
      PROVE  RegistryType'
  BY <1>5 DEF Install
<1>6. ASSUME NEW d \in Drainers, DrainSwap(d) \/ DrainCheck(d) PROVE RegistryType'
  BY <1>6 DEF DrainSwap, DrainCheck, registryVars
<1>7. ASSUME NEW c \in Closers, CloseSwap(c) PROVE RegistryType'
  BY <1>7 DEF CloseSwap, registryVars
<1>. QED
  BY <1>1, <1>2, <1>3, <1>4, <1>5, <1>6, <1>7

(* Every step keeps the fields of the scopes in their ranges.              *)
LEMMA ScopeTypeStep == TypeOK /\ [Next]_vars => ScopeType'
<1>. SUFFICES ASSUME TypeOK, [Next]_vars PROVE ScopeType'
  OBVIOUS
<1>1. CASE UNCHANGED scopeVars
  BY <1>1 DEF TypeOK, ScopeType, scopeVars
<1>2. \/ UNCHANGED scopeVars
      \/ \E i \in Ids, g \in Groups \cup {Unaccounted} : Install(i, g)
      \/ \E i \in Ids : Bind(i) \/ ResourceClosed(i) \/ EndDeactivate(i) \/ EndForget(i)
      \/ \E i \in Ids : EndStartClose(i)
      \/ \E i \in Ids : EndMarkReleased(i) \/ EndTellSink(i)
      \/ \E d \in Drainers, i \in Ids : DrainStartClose(d, i)
      \/ \E c \in Closers, i \in Ids : CloseStart(c, i)
  BY DEF vars, Next, OwnerStep, DrainStep, CloseStep, WaiterStep, SinkStep, BarrierStep,
         BeginDispatch, EndPending, InstallRejected, SetReleaseSink, ReplaySequence,
         ClearReleaseSink, ObserveBarrier, FreezeInFlight, DrainSwap, CopyScopes,
         DrainClosesStarted, DrainCheck, WaitPendingCall, WaitPendingCheck, Wake, Expire,
         CloseCall, CloseSwap, CloseAwaited, CloseFinish, CloseJoined
<1>. USE DEF TypeOK, ScopeType
<1>3. ASSUME NEW i \in Ids, NEW g \in Groups \cup {Unaccounted}, Install(i, g)
      PROVE  ScopeType'
  BY <1>3 DEF Install
<1>4. ASSUME NEW i \in Ids, Bind(i) \/ ResourceClosed(i) \/ EndDeactivate(i) \/ EndForget(i)
      PROVE  ScopeType'
  BY <1>4 DEF Bind, ResourceClosed, EndDeactivate, EndForget, EndPcs
<1>5. ASSUME NEW i \in Ids, StartClose(i)
      PROVE  /\ bound' \in [Ids -> BOOLEAN]
             /\ closeDone' \in [Ids -> {"nil", "open", "closed"}]
             /\ closing' \in [Ids -> Nat]
  <2>1. CASE closeDone[i] = "nil" /\ bound[i]
    <3>1. /\ bound' = [bound EXCEPT ![i] = FALSE]
          /\ closeDone' = [closeDone EXCEPT ![i] = "open"]
          /\ closing' = [closing EXCEPT ![i] = closing[i] + 1]
      BY <1>5, <2>1 DEF StartClose
    <3>. QED
      BY <3>1
  <2>2. CASE ~(closeDone[i] = "nil" /\ bound[i])
    BY <1>5, <2>2 DEF StartClose
  <2>. QED
    BY <2>1, <2>2
<1>6. ASSUME NEW i \in Ids, EndStartClose(i) PROVE ScopeType'
  BY <1>5, <1>6 DEF EndStartClose, EndPcs
<1>7. ASSUME NEW i \in Ids, EndMarkReleased(i) \/ EndTellSink(i) PROVE ScopeType'
  <2>1. endPc' \in [Ids -> EndPcs]
    BY <1>7 DEF EndMarkReleased, EndTellSink, EndPcs
  <2>2. relSink' \in [Ids -> Sinks] /\ relSeq' \in [Ids -> Nat]
    <3>1. CASE EndMarkReleased(i) /\ group[i] \in Groups
      <4>1. seqs[group[i]] + 1 \in Nat /\ sink \in Sinks
        BY <3>1 DEF SinkType
      <4>2. /\ relSink' = [relSink EXCEPT ![i] = sink]
            /\ relSeq' = [relSeq EXCEPT ![i] = seqs[group[i]] + 1]
        BY <3>1 DEF EndMarkReleased
      <4>. QED
        BY <4>1, <4>2
    <3>2. CASE UNCHANGED <<relSink, relSeq>>
      BY <3>2
    <3>. QED
      BY <1>7, <3>1, <3>2 DEF EndMarkReleased, EndTellSink
  <2>. QED
    BY <1>7, <2>1, <2>2 DEF EndMarkReleased, EndTellSink
<1>8. ASSUME NEW d \in Drainers, NEW i \in Ids, DrainStartClose(d, i) PROVE ScopeType'
  BY <1>5, <1>8 DEF DrainStartClose
<1>9. ASSUME NEW c \in Closers, NEW i \in Ids, CloseStart(c, i) PROVE ScopeType'
  BY <1>5, <1>9 DEF CloseStart
<1>. QED
  BY <1>1, <1>2, <1>3, <1>4, <1>6, <1>7, <1>8, <1>9

(* Telling a sink a sequence keeps what the sinks have seen typed.         *)
LEMMA TellType ==
    ASSUME SinkType, NEW k \in Sinks, NEW g \in Groups, NEW n \in Nat, Tell(k, g, n)
    PROVE  seen' \in [Sinks -> [Groups -> Nat]]
<1>1. seen' = [seen EXCEPT ![k] = [seen[k] EXCEPT ![g] = IF n > seen[k][g] THEN n ELSE seen[k][g]]]
  BY DEF Tell
<1>2. seen[k] \in [Groups -> Nat]
  BY DEF SinkType
<1>3. [seen[k] EXCEPT ![g] = IF n > seen[k][g] THEN n ELSE seen[k][g]] \in [Groups -> Nat]
  BY <1>2
<1>. QED
  BY <1>1, <1>3 DEF SinkType

(* Every step keeps the release sequences and the calls of sinks typed.    *)
LEMMA SinkTypeStep == TypeOK /\ ReleaseInv /\ [Next]_vars => SinkType'
<1>. SUFFICES ASSUME TypeOK, ReleaseInv, [Next]_vars PROVE SinkType'
  OBVIOUS
<1>1. CASE UNCHANGED sinkVars
  BY <1>1 DEF TypeOK, SinkType, sinkVars
<1>2. \/ UNCHANGED sinkVars
      \/ \E i \in Ids : EndMarkReleased(i) \/ EndTellSink(i)
      \/ SetReleaseSink
      \/ ClearReleaseSink
      \/ \E m \in calls : ReplaySequence(m)
  BY DEF vars, Next, OwnerStep, DrainStep, CloseStep, WaiterStep, SinkStep, BarrierStep,
         BeginDispatch, EndPending, Install, InstallRejected, Bind, ResourceClosed,
         EndDeactivate, EndStartClose, EndForget, ObserveBarrier, FreezeInFlight,
         registryVars, DrainSwap, CopyScopes, DrainStartClose, DrainClosesStarted, DrainCheck,
         WaitPendingCall, WaitPendingCheck, Wake, Expire, CloseCall, CloseSwap, CloseStart,
         CloseAwaited, CloseFinish, CloseJoined
<1>. USE RegistryAssumption DEF TypeOK, SinkType, Sinks
<1>3. ASSUME NEW i \in Ids, EndMarkReleased(i) PROVE SinkType'
  <2>1. CASE group[i] \in Groups
    <3>1. seqs' = [seqs EXCEPT ![group[i]] = seqs[group[i]] + 1]
      BY <1>3, <2>1 DEF EndMarkReleased
    <3>. QED
      BY <1>3, <2>1, <3>1 DEF EndMarkReleased
  <2>. QED
    BY <1>3, <2>1 DEF EndMarkReleased
<1>4. ASSUME NEW i \in Ids, EndTellSink(i) PROVE SinkType'
  <2>1. CASE UNCHANGED seen
    BY <1>4, <2>1 DEF EndTellSink
  <2>2. CASE relSink[i] # 0 /\ relSeq[i] > 0
    <3>1. relSink[i] \in Sinks /\ group[i] \in Groups /\ relSeq[i] \in Nat
      BY <2>2 DEF ReleaseInv, OwnReleaseInv, ScopeType
    <3>2. seen' \in [Sinks -> [Groups -> Nat]]
      BY <1>4, <2>2, <3>1, TellType DEF EndTellSink
    <3>. QED
      BY <1>4, <3>2 DEF EndTellSink
  <2>. QED
    BY <1>4, <2>1, <2>2 DEF EndTellSink
<1>5. CASE SetReleaseSink
  BY <1>5 DEF SetReleaseSink
<1>6. CASE ClearReleaseSink
  BY <1>6 DEF ClearReleaseSink
<1>7. ASSUME NEW m \in calls, ReplaySequence(m) PROVE SinkType'
  BY <1>7, TellType DEF ReplaySequence
<1>. QED
  BY <1>1, <1>2, <1>3, <1>4, <1>5, <1>6, <1>7

(* Every step keeps barriers and snapshots typed.                          *)
LEMMA BarrierTypeStep == TypeOK /\ [Next]_vars => BarrierType'
<1>. SUFFICES ASSUME TypeOK, [Next]_vars PROVE BarrierType'
  OBVIOUS
<1>1. CASE UNCHANGED barrierVars
  BY <1>1 DEF TypeOK, BarrierType, barrierVars
<1>2. \/ UNCHANGED barrierVars
      \/ \E b \in 1..MaxBarrier : ObserveBarrier(b)
      \/ FreezeInFlight
  BY DEF vars, Next, OwnerStep, DrainStep, CloseStep, WaiterStep, SinkStep, BarrierStep,
         BeginDispatch, EndPending, Install, InstallRejected, Bind, ResourceClosed,
         EndDeactivate, EndStartClose, EndMarkReleased, EndTellSink, EndForget,
         SetReleaseSink, ReplaySequence, ClearReleaseSink, registryVars, DrainSwap,
         CopyScopes, DrainStartClose, DrainClosesStarted, DrainCheck, WaitPendingCall,
         WaitPendingCheck, Wake, Expire, CloseCall, CloseSwap, CloseStart, CloseAwaited,
         CloseFinish, CloseJoined
<1>. USE RegistryAssumption DEF TypeOK, BarrierType, RegistryType, Ids
<1>3. ASSUME NEW b \in 1..MaxBarrier, ObserveBarrier(b) PROVE BarrierType'
  BY <1>3 DEF ObserveBarrier
<1>4. CASE FreezeInFlight
  BY <1>4 DEF FreezeInFlight
<1>. QED
  BY <1>1, <1>2, <1>3, <1>4

(* Every step keeps the callers typed.                                     *)
LEMMA CallerTypeStep == TypeOK /\ [Next]_vars => CallerType'
<1>. SUFFICES ASSUME TypeOK, [Next]_vars PROVE CallerType'
  OBVIOUS
<1>1. CASE UNCHANGED callerVars /\ (UNCHANGED asleep \/ asleep' = {})
  BY <1>1 DEF TypeOK, CallerType, callerVars
<1>2. \/ UNCHANGED callerVars /\ (UNCHANGED asleep \/ asleep' = {})
      \/ \E d \in Drainers : DrainStep(d)
      \/ \E c \in Closers : CloseStep(c)
      \/ \E w \in Waiters : WaiterStep(w)
      \/ \E c \in Drainers \cup Waiters : Expire(c)
  BY DEF vars, Next, OwnerStep, SinkStep, BarrierStep, BeginDispatch, EndPending, Install,
         InstallRejected, Bind, ResourceClosed, EndDeactivate, EndStartClose, EndMarkReleased,
         EndTellSink, EndForget, SetReleaseSink, ReplaySequence, ClearReleaseSink,
         ObserveBarrier, FreezeInFlight, SignalLocked
<1>. USE DEF TypeOK, CallerType, Goto, CallerPcs, Callers
<1>3. ASSUME NEW c \in Drainers \cup Closers, CopyScopes(c) PROVE CallerType'
  <2>1. scopes \in SUBSET Ids
    BY RegistryAssumption DEF RegistryType, Ids
  <2>. QED
    BY <1>3, <2>1 DEF CopyScopes
<1>4. ASSUME NEW c \in Drainers \cup Waiters, Wake(c) \/ Expire(c) PROVE CallerType'
  BY <1>4 DEF Wake, Expire
<1>5. ASSUME NEW d \in Drainers, DrainStep(d) PROVE CallerType'
  <2>1. CASE DrainSwap(d) \/ DrainClosesStarted(d)
    BY <2>1 DEF DrainSwap, DrainClosesStarted
  <2>2. ASSUME NEW i \in Ids, DrainStartClose(d, i) PROVE CallerType'
    BY <2>2 DEF DrainStartClose
  <2>3. CASE DrainCheck(d)
    BY <2>3 DEF DrainCheck
  <2>. QED
    BY <1>3, <1>4, <1>5, <2>1, <2>2, <2>3 DEF DrainStep
<1>6. ASSUME NEW c \in Closers, CloseStep(c) PROVE CallerType'
  <2>1. CASE CloseCall(c)
    BY <2>1 DEF CloseCall
  <2>2. CASE CloseSwap(c) \/ CloseAwaited(c) \/ CloseFinish(c) \/ CloseJoined(c)
    BY <2>2 DEF CloseSwap, CloseAwaited, CloseFinish, CloseJoined
  <2>3. ASSUME NEW i \in Ids, CloseStart(c, i) PROVE CallerType'
    BY <2>3, RegistryAssumption DEF CloseStart, Ids
  <2>. QED
    BY <1>3, <1>6, <2>1, <2>2, <2>3 DEF CloseStep
<1>7. ASSUME NEW w \in Waiters, WaiterStep(w) PROVE CallerType'
  <2>1. CASE WaitPendingCall(w) \/ WaitPendingCheck(w)
    BY <2>1 DEF WaitPendingCall, WaitPendingCheck
  <2>. QED
    BY <1>4, <1>7, <2>1 DEF WaiterStep
<1>. QED
  BY <1>1, <1>2, <1>4, <1>5, <1>6, <1>7

-----------------------------------------------------------------------------
(* What a call of startBoundResourceClose leaves behind.                   *)
LEMMA StartCloseEffect ==
    ASSUME TypeOK, ScopeInv, NEW i \in Ids, StartClose(i)
    PROVE  /\ ~bound'[i]
           /\ \A j \in Ids : bound'[j] => bound[j]
           /\ \A j \in Ids : closing'[j] = IF closeDone'[j] = "nil" THEN 0 ELSE 1
           /\ \A j \in Ids : bound'[j] => closeDone'[j] = "nil"
           /\ \A j \in Ids : closeDone'[j] # closeDone[j] => j = i /\ bound[i]
           /\ \A j \in Ids : j # i => bound'[j] = bound[j] /\ closeDone'[j] = closeDone[j]
<1>1. CASE closeDone[i] = "nil" /\ bound[i]
  <2>1. /\ bound' = [bound EXCEPT ![i] = FALSE]
        /\ closeDone' = [closeDone EXCEPT ![i] = "open"]
        /\ closing' = [closing EXCEPT ![i] = closing[i] + 1]
    BY <1>1 DEF StartClose
  <2>2. closing[i] = 0
    BY <1>1 DEF ScopeInv
  <2>. QED
    BY <1>1, <2>1, <2>2 DEF TypeOK, ScopeType, ScopeInv
<1>2. CASE ~(closeDone[i] = "nil" /\ bound[i])
  BY <1>2 DEF StartClose, TypeOK, ScopeType, ScopeInv
<1>. QED
  BY <1>1, <1>2

(* Every step keeps the fields of a scope in agreement.                    *)
LEMMA ScopeStep == TypeOK /\ ScopeInv /\ [Next]_vars => ScopeInv'
<1>. SUFFICES ASSUME TypeOK, ScopeInv, [Next]_vars PROVE ScopeInv'
  OBVIOUS
<1>1. CASE UNCHANGED <<next, pending, scopes, scopeVars>>
  BY <1>1 DEF ScopeInv, scopeVars
<1>2. \/ UNCHANGED <<next, pending, scopes, scopeVars>>
      \/ BeginDispatch
      \/ \E i \in Ids : EndPending(i) \/ InstallRejected(i)
      \/ \E i \in Ids, g \in Groups \cup {Unaccounted} : Install(i, g)
      \/ \E i \in Ids : Bind(i)
      \/ \E i \in Ids : ResourceClosed(i)
      \/ \E i \in Ids : EndDeactivate(i)
      \/ \E i \in Ids : EndStartClose(i)
      \/ \E i \in Ids : EndMarkReleased(i)
      \/ \E i \in Ids : EndTellSink(i)
      \/ \E i \in Ids : EndForget(i)
      \/ \E d \in Drainers, i \in Ids : DrainStartClose(d, i)
      \/ \E c \in Closers, i \in Ids : CloseStart(c, i)
  BY DEF vars, Next, OwnerStep, DrainStep, CloseStep, WaiterStep, SinkStep, BarrierStep,
         SetReleaseSink, ReplaySequence, ClearReleaseSink, ObserveBarrier, FreezeInFlight,
         registryVars, DrainSwap, CopyScopes, DrainClosesStarted, DrainCheck, WaitPendingCall,
         WaitPendingCheck, Wake, Expire, CloseCall, CloseSwap, CloseAwaited, CloseFinish,
         CloseJoined
<1>. USE DEF TypeOK, RegistryType, ScopeType
<1>3. CASE BeginDispatch
  BY <1>3 DEF BeginDispatch, scopeVars, ScopeInv, Ids
<1>4. ASSUME NEW i \in Ids, EndPending(i) \/ InstallRejected(i) PROVE ScopeInv'
  BY <1>4 DEF EndPending, InstallRejected, scopeVars, ScopeInv
<1>5. ASSUME NEW i \in Ids, NEW g \in Groups \cup {Unaccounted}, Install(i, g)
      PROVE  ScopeInv'
  BY <1>5 DEF Install, ScopeInv, Ids
<1>6. ASSUME NEW i \in Ids, Bind(i) PROVE ScopeInv'
  BY <1>6 DEF Bind, ScopeInv
<1>7. ASSUME NEW i \in Ids, ResourceClosed(i) PROVE ScopeInv'
  BY <1>7 DEF ResourceClosed, ScopeInv
<1>8. ASSUME NEW i \in Ids, EndDeactivate(i) PROVE ScopeInv'
  BY <1>8 DEF EndDeactivate, ScopeInv
<1>9. ASSUME NEW i \in Ids, EndStartClose(i) PROVE ScopeInv'
  BY <1>9, StartCloseEffect DEF EndStartClose, ScopeInv
<1>10. ASSUME NEW i \in Ids, EndMarkReleased(i) PROVE ScopeInv'
  BY <1>10 DEF EndMarkReleased, ScopeInv
<1>11. ASSUME NEW i \in Ids, EndTellSink(i) PROVE ScopeInv'
  BY <1>11 DEF EndTellSink, ScopeInv
<1>12. ASSUME NEW i \in Ids, EndForget(i) PROVE ScopeInv'
  BY <1>12 DEF EndForget, ScopeInv
<1>13. ASSUME NEW d \in Drainers, NEW i \in Ids, DrainStartClose(d, i) PROVE ScopeInv'
  BY <1>13, StartCloseEffect DEF DrainStartClose, registryVars, ScopeInv
<1>14. ASSUME NEW c \in Closers, NEW i \in Ids, CloseStart(c, i) PROVE ScopeInv'
  BY <1>14, StartCloseEffect DEF CloseStart, registryVars, ScopeInv
<1>. QED
  BY <1>1, <1>2, <1>3, <1>4, <1>5, <1>6, <1>7, <1>8, <1>9, <1>10, <1>11, <1>12, <1>13, <1>14

-----------------------------------------------------------------------------
(* In a closed registry a released resource stays released: Bind is        *)
(* rejected and startBoundResourceClose finds nothing to close.            *)
LEMMA ReleasedStable ==
    ASSUME TypeOK, ScopeInv, [Next]_vars, state = "closed", NEW i \in Ids, ResourceReleased(i)
    PROVE  ResourceReleased(i)'
<1>1. CASE UNCHANGED <<bound, closeDone>>
  BY <1>1 DEF ResourceReleased
<1>2. \/ UNCHANGED <<bound, closeDone>>
      \/ \E j \in Ids : ResourceClosed(j)
      \/ \E j \in Ids : StartClose(j)
  BY DEF vars, Next, OwnerStep, DrainStep, CloseStep, WaiterStep, SinkStep, BarrierStep,
         scopeVars, BeginDispatch, EndPending, Install, InstallRejected, Bind, EndDeactivate,
         EndStartClose, EndMarkReleased, EndTellSink, EndForget, SetReleaseSink,
         ReplaySequence, ClearReleaseSink, ObserveBarrier, FreezeInFlight, DrainSwap,
         CopyScopes, DrainStartClose, DrainClosesStarted, DrainCheck, WaitPendingCall,
         WaitPendingCheck, Wake, Expire, CloseCall, CloseSwap, CloseStart, CloseAwaited,
         CloseFinish, CloseJoined
<1>3. ASSUME NEW j \in Ids, ResourceClosed(j) PROVE ResourceReleased(i)'
  BY <1>3 DEF ResourceClosed, ResourceReleased, TypeOK, ScopeType
<1>4. ASSUME NEW j \in Ids, StartClose(j) PROVE ResourceReleased(i)'
  BY <1>4, StartCloseEffect DEF ResourceReleased
<1>. QED
  BY <1>1, <1>2, <1>3, <1>4

(* A closed registry stays closed.                                         *)
LEMMA ClosedStable == ASSUME [Next]_vars, state = "closed" PROVE state' = "closed"
  BY DEF vars, Next, OwnerStep, DrainStep, CloseStep, WaiterStep, SinkStep, BarrierStep,
         BeginDispatch, EndPending, Install, InstallRejected, Bind, ResourceClosed,
         EndDeactivate, EndStartClose, EndMarkReleased, EndTellSink, EndForget,
         SetReleaseSink, ReplaySequence, ClearReleaseSink, ObserveBarrier, FreezeInFlight,
         DrainSwap, CopyScopes, DrainStartClose, DrainClosesStarted, DrainCheck,
         WaitPendingCall, WaitPendingCheck, Wake, Expire, CloseCall, CloseSwap, CloseStart,
         CloseAwaited, CloseFinish, CloseJoined

(* Once the registry left accepting, a step admits neither a dispatch nor  *)
(* a scope, and it never accepts again.                                    *)
LEMMA NoAdmissionStep ==
    ASSUME [Next]_vars, state # "accepting"
    PROVE  state' # "accepting" /\ pending' \subseteq pending /\ scopes' \subseteq scopes
  BY DEF vars, Next, OwnerStep, DrainStep, CloseStep, WaiterStep, SinkStep, BarrierStep,
         registryVars, BeginDispatch, EndPending, Install, InstallRejected, Bind,
         ResourceClosed, EndDeactivate, EndStartClose, EndMarkReleased, EndTellSink,
         EndForget, SetReleaseSink, ReplaySequence, ClearReleaseSink, ObserveBarrier,
         FreezeInFlight, DrainSwap, CopyScopes, DrainStartClose, DrainClosesStarted,
         DrainCheck, WaitPendingCall, WaitPendingCheck, Wake, Expire, CloseCall, CloseSwap,
         CloseStart, CloseAwaited, CloseFinish, CloseJoined

(* A step that is not the caller's own leaves it where it is and cannot    *)
(* bind a resource behind its back.                                        *)
LEMMA CloserUndisturbed ==
    ASSUME TypeOK, ScopeInv, [Next]_vars, NEW c \in Closers, CloserInv(c),
           pc'[c] = pc[c], todo'[c] = todo[c], current'[c] = current[c]
    PROVE  CloserInv(c)'
<1>1. closeOwner # "none" => closeOwner' # "none"
  BY DEF vars, Next, OwnerStep, DrainStep, CloseStep, WaiterStep, SinkStep, BarrierStep,
         callerVars, BeginDispatch, EndPending, Install, InstallRejected, Bind,
         ResourceClosed, EndDeactivate, EndStartClose, EndMarkReleased, EndTellSink,
         EndForget, SetReleaseSink, ReplaySequence, ClearReleaseSink, ObserveBarrier,
         FreezeInFlight, DrainSwap, CopyScopes, DrainStartClose, DrainClosesStarted,
         DrainCheck, WaitPendingCall, WaitPendingCheck, Wake, Expire, CloseCall, CloseSwap,
         CloseStart, CloseAwaited, CloseFinish, CloseJoined
<1>2. ASSUME state = "closed", NEW i \in Ids, ~bound[i] PROVE ~bound'[i]
  <2>1. \/ UNCHANGED bound
        \/ \E j \in Ids : StartClose(j)
    BY <1>2 DEF vars, Next, OwnerStep, DrainStep, CloseStep, WaiterStep, SinkStep, BarrierStep,
         scopeVars, BeginDispatch, EndPending, Install, InstallRejected, Bind, ResourceClosed,
         EndDeactivate, EndStartClose, EndMarkReleased, EndTellSink, EndForget,
         SetReleaseSink, ReplaySequence, ClearReleaseSink, ObserveBarrier, FreezeInFlight,
         DrainSwap, CopyScopes, DrainStartClose, DrainClosesStarted, DrainCheck,
         WaitPendingCall, WaitPendingCheck, Wake, Expire, CloseCall, CloseSwap, CloseStart,
         CloseAwaited, CloseFinish, CloseJoined
  <2>. QED
    BY <1>2, <2>1, StartCloseEffect
<1>3. state = "closed" => \A i \in Ids : ResourceReleased(i) => ResourceReleased(i)'
  BY ReleasedStable
<1>. QED
  BY <1>1, <1>2, <1>3, ClosedStable DEF CloserInv

(* Every step keeps CloseInv.                                              *)
LEMMA CloseInvStep ==
    TypeOK /\ ScopeInv /\ CloseInv /\ [Next]_vars => CloseInv'
<1>. SUFFICES ASSUME TypeOK, ScopeInv, CloseInv, [Next]_vars PROVE CloseInv'
  OBVIOUS
<1>1. \A c \in Closers : CloserInv(c)
  BY DEF CloseInv
<1>2. ASSUME NEW c \in Closers PROVE CloserInv(c)'
  <2>1. CASE pc'[c] = pc[c] /\ todo'[c] = todo[c] /\ current'[c] = current[c]
    BY <1>1, <2>1, CloserUndisturbed
  <2>2. \/ pc'[c] = pc[c] /\ todo'[c] = todo[c] /\ current'[c] = current[c]
        \/ CloseStep(c)
    <3>. USE DEF TypeOK, CallerType, Callers, Goto
    <3>1. CASE UNCHANGED callerVars
      BY <3>1 DEF callerVars
    <3>2. ASSUME NEW d \in Drainers, DrainStep(d)
          PROVE  pc'[c] = pc[c] /\ todo'[c] = todo[c] /\ current'[c] = current[c]
      BY <3>2, RegistryAssumption DEF DrainStep, DrainSwap, CopyScopes, DrainStartClose,
         DrainClosesStarted, DrainCheck, Wake
    <3>3. ASSUME NEW w \in Drainers \cup Waiters, WaiterStep(w) \/ Expire(w)
          PROVE  pc'[c] = pc[c] /\ todo'[c] = todo[c] /\ current'[c] = current[c]
      BY <3>3, RegistryAssumption DEF WaiterStep, WaitPendingCall, WaitPendingCheck, Wake,
         Expire
    <3>4. ASSUME NEW b \in Closers, b # c, CloseStep(b)
          PROVE  pc'[c] = pc[c] /\ todo'[c] = todo[c] /\ current'[c] = current[c]
      BY <3>4 DEF CloseStep, CloseCall, CloseSwap, CopyScopes, CloseStart, CloseAwaited,
         CloseFinish, CloseJoined
    <3>5. \/ UNCHANGED callerVars
          \/ \E d \in Drainers : DrainStep(d)
          \/ \E w \in Drainers \cup Waiters : WaiterStep(w) \/ Expire(w)
          \/ \E b \in Closers : CloseStep(b)
      BY DEF vars, Next, OwnerStep, SinkStep, BarrierStep, BeginDispatch, EndPending, Install,
         InstallRejected, Bind, ResourceClosed, EndDeactivate, EndStartClose, EndMarkReleased,
         EndTellSink, EndForget, SetReleaseSink, ReplaySequence, ClearReleaseSink,
         ObserveBarrier, FreezeInFlight
    <3>. QED
      BY <3>1, <3>2, <3>3, <3>4, <3>5
  <2>. USE DEF TypeOK, CallerType, Callers, Goto
  <2>3. CASE CloseCall(c)
    BY <1>1, <2>3 DEF CloseCall, CloserInv, CloseInv, ScopeInv, ResourceReleased, scopeVars
  <2>4. CASE CloseSwap(c)
    BY <1>1, <2>4 DEF CloseSwap, CloserInv
  <2>5. CASE CopyScopes(c)
    BY <1>1, <2>5 DEF CopyScopes, CloserInv, ScopeInv, ResourceReleased, scopeVars
  <2>6. ASSUME NEW i \in Ids, CloseStart(c, i) PROVE CloserInv(c)'
    <3>1. \A j \in Ids : ResourceReleased(j) => ResourceReleased(j)'
      BY <1>1, <2>6, ReleasedStable DEF CloseStart, CloserInv
    <3>2. ~bound'[i]
      BY <2>6, StartCloseEffect DEF CloseStart
    <3>. QED
      BY <1>1, <2>6, <3>1, <3>2 DEF CloseStart, CloserInv
  <2>7. CASE CloseAwaited(c)
    BY <1>1, <2>7 DEF CloseAwaited, CloserInv, ResourceReleased, scopeVars
  <2>8. CASE CloseFinish(c)
    BY <1>1, <2>8 DEF CloseFinish, CloserInv, ResourceReleased, scopeVars
  <2>9. CASE CloseJoined(c)
    BY <1>1, <2>9 DEF CloseJoined, CloserInv, CloseInv, ResourceReleased, scopeVars
  <2>. QED
    BY <2>1, <2>2, <2>3, <2>4, <2>5, <2>6, <2>7, <2>8, <2>9 DEF CloseStep
<1>3. closeOwner' = "done" => state' = "closed" /\ \A i \in Ids : ResourceReleased(i)'
  <2>1. CASE closeOwner = "done"
    BY <2>1, ClosedStable, ReleasedStable DEF CloseInv
  <2>2. CASE closeOwner' # closeOwner
    <3>1. PICK c \in Closers : CloseCall(c) \/ CloseFinish(c)
      BY <2>2 DEF vars, Next, OwnerStep, DrainStep, CloseStep, WaiterStep, SinkStep, BarrierStep,
         callerVars, BeginDispatch, EndPending, Install, InstallRejected, Bind,
         ResourceClosed, EndDeactivate, EndStartClose, EndMarkReleased, EndTellSink,
         EndForget, SetReleaseSink, ReplaySequence, ClearReleaseSink, ObserveBarrier,
         FreezeInFlight, DrainSwap, CopyScopes, DrainStartClose, DrainClosesStarted,
         DrainCheck, WaitPendingCall, WaitPendingCheck, Wake, Expire, CloseSwap,
         CloseStart, CloseAwaited, CloseJoined
    <3>. QED
      BY <1>1, <2>2, <3>1 DEF CloseCall, CloseFinish, CloserInv, ResourceReleased, scopeVars
  <2>. QED
    BY <2>1, <2>2
<1>4. state' = "closed" /\ closeOwner' = "none" => pending' = {} /\ scopes' = {}
  <2>1. closeOwner' = "none" => closeOwner = "none"
    BY <1>1 DEF vars, Next, OwnerStep, DrainStep, CloseStep, WaiterStep, SinkStep, BarrierStep,
         callerVars, BeginDispatch, EndPending, Install, InstallRejected, Bind,
         ResourceClosed, EndDeactivate, EndStartClose, EndMarkReleased, EndTellSink,
         EndForget, SetReleaseSink, ReplaySequence, ClearReleaseSink, ObserveBarrier,
         FreezeInFlight, DrainSwap, CopyScopes, DrainStartClose, DrainClosesStarted,
         DrainCheck, WaitPendingCall, WaitPendingCheck, Wake, Expire, CloseCall, CloseSwap,
         CloseStart, CloseAwaited, CloseFinish, CloseJoined
  <2>2. CASE state = "closed"
    BY <2>1, <2>2, NoAdmissionStep DEF CloseInv
  <2>3. CASE state # "closed" /\ state' = "closed"
    <3>1. \/ \E d \in Drainers : DrainCheck(d)
          \/ \E c \in Closers : CloseSwap(c)
      BY <2>3 DEF vars, Next, OwnerStep, DrainStep, CloseStep, WaiterStep, SinkStep, BarrierStep,
         BeginDispatch, EndPending, Install, InstallRejected, Bind, ResourceClosed,
         EndDeactivate, EndStartClose, EndMarkReleased, EndTellSink, EndForget,
         SetReleaseSink, ReplaySequence, ClearReleaseSink, ObserveBarrier, FreezeInFlight,
         DrainSwap, CopyScopes, DrainStartClose, DrainClosesStarted, WaitPendingCall,
         WaitPendingCheck, Wake, Expire, CloseCall, CloseStart, CloseAwaited, CloseFinish,
         CloseJoined
    <3>2. ASSUME NEW d \in Drainers, DrainCheck(d) PROVE pending' = {} /\ scopes' = {}
      BY <2>3, <3>2 DEF DrainCheck, registryVars
    <3>3. ASSUME NEW c \in Closers, CloseSwap(c) PROVE closeOwner' # "none"
      BY <1>1, <3>3 DEF CloseSwap, CloserInv
    <3>. QED
      BY <3>1, <3>2, <3>3
  <2>. QED
    BY <2>2, <2>3
<1>. QED
  BY <1>2, <1>3, <1>4 DEF CloseInv

-----------------------------------------------------------------------------
(* A Drain that returned keeps an empty, closed registry.                  *)
LEMMA DrainedStep ==
    TypeOK /\ CloseInv /\ DrainedIsEmpty /\ [Next]_vars => DrainedIsEmpty'
<1>. SUFFICES ASSUME TypeOK, DrainedIsEmpty, [Next]_vars, NEW d \in Drainers, pc'[d] = "ok"
              PROVE  state' = "closed" /\ pending' = {} /\ scopes' = {}
  BY DEF DrainedIsEmpty
<1>1. CASE pc[d] = "ok"
  BY <1>1, ClosedStable, NoAdmissionStep DEF DrainedIsEmpty
<1>2. CASE pc[d] # "ok"
  <2>. USE DEF TypeOK, CallerType, Callers, Goto
  <2>1. DrainStep(d) \/ UNCHANGED <<pc[d]>>
    <3>1. ASSUME NEW c \in Callers, c # d,
                 DrainStep(c) \/ CloseStep(c) \/ WaiterStep(c) \/ Expire(c)
          PROVE  pc'[d] = pc[d]
      BY <3>1 DEF DrainStep, DrainSwap, CopyScopes, DrainStartClose, DrainClosesStarted,
         DrainCheck, CloseStep, CloseCall, CloseSwap, CloseStart, CloseAwaited, CloseFinish,
         CloseJoined, WaiterStep, WaitPendingCall, WaitPendingCheck, Wake, Expire
    <3>2. \/ UNCHANGED pc
          \/ \E c \in Drainers : DrainStep(c) \/ Expire(c)
          \/ \E c \in Closers \cup Waiters : CloseStep(c) \/ WaiterStep(c) \/ Expire(c)
      BY DEF vars, callerVars, Next, OwnerStep, SinkStep, BarrierStep, BeginDispatch,
         EndPending, Install, InstallRejected, Bind, ResourceClosed, EndDeactivate,
         EndStartClose, EndMarkReleased, EndTellSink, EndForget, SetReleaseSink,
         ReplaySequence, ClearReleaseSink, ObserveBarrier, FreezeInFlight
    <3>3. ~Expire(d)
      BY DEF Expire
    <3>. QED
      BY <3>1, <3>2, <3>3, RegistryAssumption
  <2>. QED
    BY <1>2, <2>1 DEF DrainStep, DrainSwap, CopyScopes, DrainStartClose, DrainClosesStarted,
       DrainCheck, Wake, registryVars
<1>. QED
  BY <1>1, <1>2

(* Every change that empties pending or scopes wakes the sleepers.         *)
LEMMA WakeupStep == TypeOK /\ NoLostWakeup /\ [Next]_vars => NoLostWakeup'
<1>. SUFFICES ASSUME TypeOK, NoLostWakeup, [Next]_vars PROVE NoLostWakeup'
  OBVIOUS
<1>1. CASE asleep' \subseteq asleep /\ UNCHANGED <<pending, scopes>>
  BY <1>1 DEF NoLostWakeup
<1>2. CASE asleep' = {}
  BY <1>2 DEF NoLostWakeup
<1>3. CASE BeginDispatch
  BY <1>3 DEF BeginDispatch, NoLostWakeup
<1>4. ASSUME NEW d \in Drainers, DrainCheck(d) PROVE NoLostWakeup'
  BY <1>4, RegistryAssumption DEF DrainCheck, registryVars, NoLostWakeup
<1>5. ASSUME NEW w \in Waiters, WaitPendingCheck(w) PROVE NoLostWakeup'
  BY <1>5, RegistryAssumption DEF WaitPendingCheck, registryVars, NoLostWakeup
<1>6. \/ asleep' \subseteq asleep /\ UNCHANGED <<pending, scopes>>
      \/ asleep' = {}
      \/ BeginDispatch
      \/ \E d \in Drainers : DrainCheck(d)
      \/ \E w \in Waiters : WaitPendingCheck(w)
  BY DEF vars, Next, OwnerStep, DrainStep, CloseStep, WaiterStep, SinkStep, BarrierStep,
         registryVars, SignalLocked, EndPending, Install, InstallRejected, Bind,
         ResourceClosed, EndDeactivate, EndStartClose, EndMarkReleased, EndTellSink,
         EndForget, SetReleaseSink, ReplaySequence, ClearReleaseSink, ObserveBarrier,
         FreezeInFlight, DrainSwap, CopyScopes, DrainStartClose, DrainClosesStarted,
         WaitPendingCall, Wake, Expire, CloseCall, CloseSwap, CloseStart, CloseAwaited,
         CloseFinish, CloseJoined
<1>. QED
  BY <1>1, <1>2, <1>3, <1>4, <1>5, <1>6

(* A dispatch begun after a barrier has a larger id, and one that was      *)
(* begun before it is resolved before the barrier is published.            *)
LEMMA BarrierStepInv == TypeOK /\ BarrierInv /\ [Next]_vars => BarrierInv'
<1>. SUFFICES ASSUME TypeOK, BarrierInv, [Next]_vars PROVE BarrierInv'
  OBVIOUS
<1>. USE RegistryAssumption DEF TypeOK, RegistryType, BarrierType, Ids
<1>1. CASE UNCHANGED barrierVars /\ UNCHANGED next /\ pending' \subseteq pending
           /\ scopes' \subseteq scopes
  BY <1>1 DEF BarrierInv, barrierVars
<1>2. CASE BeginDispatch
  BY <1>2 DEF BeginDispatch, BarrierInv, barrierVars
<1>3. ASSUME NEW i \in Ids, NEW g \in Groups \cup {Unaccounted}, Install(i, g)
      PROVE  BarrierInv'
  BY <1>3 DEF Install, BarrierInv, barrierVars
<1>4. ASSUME NEW b \in 1..MaxBarrier, ObserveBarrier(b) PROVE BarrierInv'
  BY <1>4 DEF ObserveBarrier, BarrierInv
<1>5. CASE FreezeInFlight
  <2>1. published' = IF BarrierReached THEN observed ELSE published
    BY <1>5 DEF FreezeInFlight
  <2>2. freeze'.barrier = published' /\ freeze'.executions = scopes
    BY <1>5 DEF FreezeInFlight
  <2>3. CASE BarrierReached
    BY <1>5, <2>1, <2>2, <2>3 DEF FreezeInFlight, BarrierReached, BarrierInv
  <2>4. CASE ~BarrierReached
    BY <1>5, <2>1, <2>2, <2>4 DEF FreezeInFlight, BarrierInv
  <2>. QED
    BY <2>3, <2>4
<1>6. \/ UNCHANGED barrierVars /\ UNCHANGED next /\ pending' \subseteq pending
         /\ scopes' \subseteq scopes
      \/ BeginDispatch
      \/ \E i \in Ids, g \in Groups \cup {Unaccounted} : Install(i, g)
      \/ \E b \in 1..MaxBarrier : ObserveBarrier(b)
      \/ FreezeInFlight
  BY DEF vars, Next, OwnerStep, DrainStep, CloseStep, WaiterStep, SinkStep, BarrierStep,
         registryVars, EndPending, InstallRejected, Bind, ResourceClosed, EndDeactivate,
         EndStartClose, EndMarkReleased, EndTellSink, EndForget, SetReleaseSink,
         ReplaySequence, ClearReleaseSink, DrainSwap, CopyScopes, DrainStartClose,
         DrainClosesStarted, DrainCheck, WaitPendingCall, WaitPendingCheck, Wake, Expire,
         CloseCall, CloseSwap, CloseStart, CloseAwaited, CloseFinish, CloseJoined
<1>. QED
  BY <1>1, <1>2, <1>3, <1>4, <1>5, <1>6

-----------------------------------------------------------------------------
(* A release is the only step that raises a sequence; it raises it by one  *)
(* and takes the new value and the sink of that moment with it.            *)
LEMMA MarkEffect ==
    ASSUME TypeOK, NEW i \in Ids, EndMarkReleased(i)
    PROVE  /\ endPc' = [endPc EXCEPT ![i] = "marked"]
           /\ UNCHANGED <<group, sink, sinks, calls, seen>>
           /\ group[i] \in Groups =>
                /\ seqs' = [seqs EXCEPT ![group[i]] = seqs[group[i]] + 1]
                /\ relSink' = [relSink EXCEPT ![i] = sink]
                /\ relSeq' = [relSeq EXCEPT ![i] = seqs[group[i]] + 1]
           /\ group[i] \notin Groups => UNCHANGED <<seqs, relSink, relSeq>>
  BY DEF EndMarkReleased

(* A sink keeps the largest sequence it was told.                          *)
LEMMA TellEffect ==
    ASSUME SinkType, NEW k \in Sinks, NEW g \in Groups, NEW n \in Nat, Tell(k, g, n)
    PROVE  /\ seen'[k][g] = IF n > seen[k][g] THEN n ELSE seen[k][g]
           /\ \A l \in Sinks, h \in Groups : l # k \/ h # g => seen'[l][h] = seen[l][h]
           /\ seen'[k][g] \in Nat /\ seen'[k][g] >= n /\ seen'[k][g] >= seen[k][g]
<1>1. seen' = [seen EXCEPT ![k] = [seen[k] EXCEPT ![g] = IF n > seen[k][g] THEN n ELSE seen[k][g]]]
  BY DEF Tell
<1>2. seen[k] \in [Groups -> Nat]
  BY DEF SinkType
<1>. QED
  BY <1>1, <1>2 DEF SinkType

(* What is told to a sink is bounded by the sequence, so every sink's      *)
(* knowledge stays bounded and grows.                                      *)
LEMMA TellKeeps ==
    ASSUME TypeOK, ReleaseInv, NEW k \in Sinks, NEW g \in Groups, NEW n \in Nat,
           n <= seqs[g], Tell(k, g, n), UNCHANGED seqs
    PROVE  /\ SeenInv'
           /\ \A l \in Sinks, h \in Groups :
                seen[l][h] \in Nat /\ seen'[l][h] \in Nat /\ seen'[l][h] >= seen[l][h]
           /\ seen'[k][g] >= n
<1>1. SinkType
  BY DEF TypeOK
<1>2. /\ seen'[k][g] = IF n > seen[k][g] THEN n ELSE seen[k][g]
      /\ \A l \in Sinks, h \in Groups : l # k \/ h # g => seen'[l][h] = seen[l][h]
      /\ seen'[k][g] \in Nat /\ seen'[k][g] >= n /\ seen'[k][g] >= seen[k][g]
  BY <1>1, TellEffect
<1>3. \A l \in Sinks, h \in Groups : seen[l][h] \in Nat /\ seqs[h] \in Nat
  BY <1>1 DEF SinkType
<1>4. SeenInv'
  BY <1>2, <1>3 DEF ReleaseInv, SeenInv
<1>5. ASSUME NEW l \in Sinks, NEW h \in Groups
      PROVE  seen[l][h] \in Nat /\ seen'[l][h] \in Nat /\ seen'[l][h] >= seen[l][h]
  BY <1>2, <1>3
<1>. QED
  BY <1>2, <1>4, <1>5

(* The steps that write the sequences, the sinks or the release fields.    *)
LEMMA ReleaseFrame ==
    [Next]_vars =>
      \/ UNCHANGED <<sinkVars, group, endPc, relSink, relSeq>>
      \/ \E i \in Ids, g \in Groups \cup {Unaccounted} : Install(i, g)
      \/ \E i \in Ids : EndDeactivate(i) \/ EndStartClose(i) \/ EndForget(i)
      \/ \E i \in Ids : EndMarkReleased(i)
      \/ \E i \in Ids : EndTellSink(i)
      \/ SetReleaseSink
      \/ ClearReleaseSink
      \/ \E m \in calls : ReplaySequence(m)
  BY DEF vars, Next, OwnerStep, DrainStep, CloseStep, WaiterStep, SinkStep, BarrierStep,
         scopeVars, registryVars, BeginDispatch, EndPending, InstallRejected, Bind,
         ResourceClosed, ObserveBarrier, FreezeInFlight, DrainSwap, CopyScopes,
         DrainStartClose, DrainClosesStarted, DrainCheck, WaitPendingCall, WaitPendingCheck,
         Wake, Expire, CloseCall, CloseSwap, CloseStart, CloseAwaited, CloseFinish,
         CloseJoined

(* Every step keeps ReleaseInv.                                            *)
LEMMA ReleaseStep == TypeOK /\ ScopeInv /\ ReleaseInv /\ [Next]_vars => ReleaseInv'
<1>. SUFFICES ASSUME TypeOK, ScopeInv, ReleaseInv, [Next]_vars PROVE ReleaseInv'
  OBVIOUS
<1>1. CASE UNCHANGED <<sinkVars, group, endPc, relSink, relSeq>>
  BY <1>1 DEF ReleaseInv, OwnReleaseInv, CallsInv, SeenInv, sinkVars
<1>2. ASSUME NEW i \in Ids, NEW g \in Groups \cup {Unaccounted}, Install(i, g)
      PROVE  ReleaseInv'
  <2>1. endPc[i] = "open"
    BY <1>2 DEF Install, ScopeInv
  <2>2. relSink[i] = 0 /\ relSeq[i] = 0
    BY <2>1 DEF ReleaseInv, OwnReleaseInv
  <2>. QED
    BY <1>2, <2>1, <2>2 DEF Install, ReleaseInv, OwnReleaseInv, CallsInv, SeenInv, sinkVars,
       TypeOK, ScopeType, SinkType
<1>3. ASSUME NEW i \in Ids, EndDeactivate(i) \/ EndStartClose(i) \/ EndForget(i)
      PROVE  ReleaseInv'
  BY <1>3 DEF EndDeactivate, EndStartClose, EndForget, ReleaseInv, OwnReleaseInv, CallsInv,
     SeenInv, sinkVars, TypeOK, ScopeType
<1>4. ASSUME NEW i \in Ids, EndMarkReleased(i) PROVE ReleaseInv'
  <2>1. /\ endPc' = [endPc EXCEPT ![i] = "marked"]
        /\ UNCHANGED <<group, sink, sinks, calls, seen>>
        /\ group[i] \in Groups =>
             /\ seqs' = [seqs EXCEPT ![group[i]] = seqs[group[i]] + 1]
             /\ relSink' = [relSink EXCEPT ![i] = sink]
             /\ relSeq' = [relSeq EXCEPT ![i] = seqs[group[i]] + 1]
        /\ group[i] \notin Groups => UNCHANGED <<seqs, relSink, relSeq>>
    BY <1>4, MarkEffect
  <2>2. CASE group[i] \in Groups
    <3>1. ASSUME NEW g \in Groups
          PROVE  seqs[g] \in Nat /\ seqs'[g] \in Nat /\ seqs[g] <= seqs'[g]
      BY <2>1, <2>2 DEF TypeOK, SinkType
    <3>2. CallsInv'
      <4>1. \A m \in calls : m.seq \in Nat /\ m.group \in Groups /\ m.seq <= seqs[m.group]
        BY DEF TypeOK, SinkType, ReleaseInv, CallsInv
      <4>. QED
        BY <2>1, <3>1, <4>1 DEF CallsInv
    <3>3. SeenInv'
      <4>1. \A k \in Sinks, g \in Groups : seen[k][g] \in Nat /\ seen[k][g] <= seqs[g]
        BY DEF TypeOK, SinkType, ReleaseInv, SeenInv
      <4>. QED
        BY <2>1, <3>1, <4>1 DEF SeenInv
    <3>4. ASSUME NEW j \in Ids, j # i PROVE OwnReleaseInv(j)'
      <4>1. /\ endPc'[j] = endPc[j] /\ relSink'[j] = relSink[j] /\ relSeq'[j] = relSeq[j]
            /\ relSeq[j] \in Nat
        BY <2>1, <2>2, <3>4 DEF TypeOK, ScopeType
      <4>2. OwnReleaseInv(j)
        BY DEF ReleaseInv
      <4>. QED
        BY <2>1, <3>1, <4>1, <4>2 DEF OwnReleaseInv
    <3>5. OwnReleaseInv(i)'
      <4>1. /\ endPc'[i] = "marked" /\ relSeq'[i] = seqs[group[i]] + 1
            /\ seqs'[group[i]] = seqs[group[i]] + 1 /\ seqs[group[i]] \in Nat
        BY <2>1, <2>2 DEF TypeOK, ScopeType, SinkType
      <4>. QED
        BY <2>1, <2>2, <4>1 DEF OwnReleaseInv
    <3>. QED
      BY <2>1, <3>2, <3>3, <3>4, <3>5 DEF ReleaseInv
  <2>3. CASE group[i] \notin Groups
    <3>1. endPc[i] = "closing"
      BY <1>4 DEF EndMarkReleased
    <3>. QED
      BY <2>1, <2>3, <3>1 DEF ReleaseInv, OwnReleaseInv, CallsInv, SeenInv, TypeOK, ScopeType
  <2>. QED
    BY <2>2, <2>3
<1>5. ASSUME NEW i \in Ids, EndTellSink(i) PROVE ReleaseInv'
  <2>1. UNCHANGED <<group, relSink, relSeq, seqs, sink, sinks, calls>>
        /\ endPc' = [endPc EXCEPT ![i] = "told"] /\ endPc[i] = "marked"
    BY <1>5 DEF EndTellSink
  <2>2. CASE relSink[i] # 0
    <3>1. group[i] \in Groups /\ relSeq[i] > 0 /\ relSeq[i] \in Nat /\ relSink[i] \in Sinks
          /\ relSeq[i] <= seqs[group[i]]
      BY <2>2 DEF ReleaseInv, OwnReleaseInv, TypeOK, ScopeType
    <3>2. Tell(relSink[i], group[i], relSeq[i])
      BY <1>5, <2>2, <3>1 DEF EndTellSink
    <3>3. /\ SeenInv'
          /\ \A l \in Sinks, h \in Groups :
               seen[l][h] \in Nat /\ seen'[l][h] \in Nat /\ seen'[l][h] >= seen[l][h]
          /\ seen'[relSink[i]][group[i]] >= relSeq[i]
      BY <2>1, <3>1, <3>2, TellKeeps
    <3>4. CallsInv'
      BY <2>1 DEF ReleaseInv, CallsInv
    <3>5. ASSUME NEW j \in Ids, j # i PROVE OwnReleaseInv(j)'
      <4>1. OwnReleaseInv(j) /\ relSeq[j] \in Nat /\ relSink[j] \in Sinks /\ endPc'[j] = endPc[j]
        BY <2>1, <3>5 DEF ReleaseInv, TypeOK, ScopeType
      <4>. QED
        BY <2>1, <3>3, <4>1 DEF OwnReleaseInv
    <3>6. OwnReleaseInv(i)'
      <4>1. OwnReleaseInv(i) /\ endPc'[i] = "told"
        BY <2>1 DEF ReleaseInv, TypeOK, ScopeType
      <4>. QED
        BY <2>1, <3>1, <3>3, <4>1 DEF OwnReleaseInv
    <3>. QED
      BY <2>1, <3>3, <3>4, <3>5, <3>6 DEF ReleaseInv
  <2>3. CASE relSink[i] = 0
    BY <1>5, <2>1, <2>3 DEF EndTellSink, ReleaseInv, OwnReleaseInv, CallsInv, SeenInv, TypeOK,
       ScopeType
  <2>. QED
    BY <2>2, <2>3
<1>6. CASE SetReleaseSink
  BY <1>6, RegistryAssumption DEF SetReleaseSink, scopeVars, ReleaseInv, OwnReleaseInv, CallsInv,
     SeenInv, TypeOK, SinkType, Sinks
<1>7. CASE ClearReleaseSink
  <2>1. sink' <= sinks'
    BY <1>7, RegistryAssumption DEF ClearReleaseSink, TypeOK, SinkType, Sinks
  <2>. QED
    BY <1>7, <2>1 DEF ClearReleaseSink, scopeVars, ReleaseInv, OwnReleaseInv, CallsInv, SeenInv
<1>8. ASSUME NEW m \in calls, ReplaySequence(m) PROVE ReleaseInv'
  <2>1. m.sink \in Sinks /\ m.group \in Groups /\ m.seq \in Nat /\ m.seq <= seqs[m.group]
    BY DEF ReleaseInv, CallsInv, TypeOK, SinkType
  <2>2. UNCHANGED <<group, endPc, relSink, relSeq, seqs, sink, sinks>> /\ calls' \subseteq calls
    BY <1>8 DEF ReplaySequence, scopeVars
  <2>3. Tell(m.sink, m.group, m.seq)
    BY <1>8 DEF ReplaySequence
  <2>4. /\ SeenInv'
        /\ \A l \in Sinks, h \in Groups :
             seen[l][h] \in Nat /\ seen'[l][h] \in Nat /\ seen'[l][h] >= seen[l][h]
    BY <2>1, <2>2, <2>3, TellKeeps
  <2>5. CallsInv'
    BY <2>2 DEF ReleaseInv, CallsInv
  <2>6. ASSUME NEW j \in Ids PROVE OwnReleaseInv(j)'
    <3>1. OwnReleaseInv(j) /\ relSeq[j] \in Nat /\ relSink[j] \in Sinks
      BY DEF ReleaseInv, TypeOK, ScopeType
    <3>. QED
      BY <2>2, <2>4, <3>1 DEF OwnReleaseInv
  <2>. QED
    BY <2>2, <2>4, <2>5, <2>6 DEF ReleaseInv
<1>. QED
  BY <1>1, <1>2, <1>3, <1>4, <1>5, <1>6, <1>7, <1>8, ReleaseFrame

(* What the current sink still has to hear of a group, exactly.            *)
Settled(g) ==
    \/ seen[sink][g] = seqs[g]
    \/ \E m \in calls : m.sink = sink /\ m.group = g /\ m.seq = seqs[g]
    \/ \E i \in Ids :
         endPc[i] = "marked" /\ group[i] = g /\ relSink[i] = sink /\ relSeq[i] = seqs[g]

(* Telling any sink keeps the current one settled, and settles the group   *)
(* it was told the latest sequence of.                                     *)
LEMMA TellSettles ==
    ASSUME TypeOK, ReleaseInv, NEW k \in Sinks, NEW g \in Groups, NEW n \in Nat,
           n <= seqs[g], Tell(k, g, n), UNCHANGED <<seqs, sink>>
    PROVE  /\ \A h \in Groups : seen[sink][h] = seqs[h] => seen'[sink][h] = seqs[h]
           /\ k = sink /\ n = seqs[g] => seen'[sink][g] = seqs[g]
<1>1. /\ SeenInv'
      /\ \A l \in Sinks, h \in Groups :
           seen[l][h] \in Nat /\ seen'[l][h] \in Nat /\ seen'[l][h] >= seen[l][h]
      /\ seen'[k][g] >= n
  BY TellKeeps
<1>2. sink \in Sinks /\ \A h \in Groups : seqs[h] \in Nat
  BY DEF TypeOK, SinkType
<1>. QED
  BY <1>1, <1>2 DEF SeenInv

(* Every step keeps the current sink settled or owed a call.               *)
LEMMA CurrentSinkStep ==
    TypeOK /\ ScopeInv /\ ReleaseInv /\ CurrentSinkInv /\ [Next]_vars => CurrentSinkInv'
<1>. SUFFICES ASSUME TypeOK, ScopeInv, ReleaseInv, CurrentSinkInv, [Next]_vars
              PROVE  CurrentSinkInv'
  OBVIOUS
<1>0. sink # 0 => \A g \in Groups : Settled(g)
  BY DEF CurrentSinkInv, Settled
<1>1. CASE UNCHANGED <<sinkVars, group, endPc, relSink, relSeq>>
  BY <1>1 DEF CurrentSinkInv, sinkVars
<1>2. ASSUME NEW i \in Ids, endPc[i] # "marked", endPc'[i] # "marked", UNCHANGED sinkVars,
             \A j \in Ids \ {i} :
               /\ endPc'[j] = endPc[j] /\ group'[j] = group[j]
               /\ relSink'[j] = relSink[j] /\ relSeq'[j] = relSeq[j]
      PROVE  CurrentSinkInv'
  BY <1>2 DEF CurrentSinkInv, sinkVars
<1>3. ASSUME NEW i \in Ids, NEW g \in Groups \cup {Unaccounted}, Install(i, g)
      PROVE  CurrentSinkInv'
  <2>1. endPc[i] = "open"
    BY <1>3 DEF Install, ScopeInv
  <2>. QED
    BY <1>2, <1>3, <2>1 DEF Install, TypeOK, ScopeType
<1>4. ASSUME NEW i \in Ids, EndDeactivate(i) \/ EndStartClose(i) \/ EndForget(i)
      PROVE  CurrentSinkInv'
  BY <1>2, <1>4 DEF EndDeactivate, EndStartClose, EndForget, TypeOK, ScopeType
<1>5. ASSUME NEW i \in Ids, EndMarkReleased(i) PROVE CurrentSinkInv'
  <2>1. /\ endPc' = [endPc EXCEPT ![i] = "marked"]
        /\ UNCHANGED <<group, sink, sinks, calls, seen>>
        /\ group[i] \in Groups =>
             /\ seqs' = [seqs EXCEPT ![group[i]] = seqs[group[i]] + 1]
             /\ relSink' = [relSink EXCEPT ![i] = sink]
             /\ relSeq' = [relSeq EXCEPT ![i] = seqs[group[i]] + 1]
        /\ group[i] \notin Groups => UNCHANGED <<seqs, relSink, relSeq>>
    BY <1>5, MarkEffect
  <2>2. endPc[i] = "closing"
    BY <1>5 DEF EndMarkReleased
  <2>3. ASSUME NEW g \in Groups, sink # 0 PROVE Settled(g)'
    <3>1. CASE g = group[i]
      BY <2>1, <3>1 DEF Settled, TypeOK, ScopeType, SinkType
    <3>2. CASE g # group[i]
      <4>1. Settled(g)
        BY <1>0, <2>3
      <4>2. seqs'[g] = seqs[g]
        BY <2>1, <3>2 DEF TypeOK, SinkType
      <4>3. \A j \in Ids \ {i} : endPc'[j] = endPc[j] /\ relSink'[j] = relSink[j]
                                 /\ relSeq'[j] = relSeq[j]
        BY <2>1 DEF TypeOK, ScopeType
      <4>. QED
        BY <2>1, <2>2, <4>1, <4>2, <4>3 DEF Settled
    <3>. QED
      BY <3>1, <3>2
  <2>. QED
    BY <2>1, <2>3 DEF CurrentSinkInv, Settled
<1>6. ASSUME NEW i \in Ids, EndTellSink(i) PROVE CurrentSinkInv'
  <2>1. UNCHANGED <<group, relSink, relSeq, seqs, sink, sinks, calls>>
        /\ endPc' = [endPc EXCEPT ![i] = "told"] /\ endPc[i] = "marked"
    BY <1>6 DEF EndTellSink
  <2>2. \A j \in Ids \ {i} : endPc'[j] = endPc[j]
    BY <2>1 DEF TypeOK, ScopeType
  <2>3. CASE relSink[i] # 0
    <3>1. group[i] \in Groups /\ relSeq[i] > 0 /\ relSeq[i] \in Nat /\ relSink[i] \in Sinks
          /\ relSeq[i] <= seqs[group[i]]
      BY <2>3 DEF ReleaseInv, OwnReleaseInv, TypeOK, ScopeType
    <3>2. Tell(relSink[i], group[i], relSeq[i])
      BY <1>6, <2>3, <3>1 DEF EndTellSink
    <3>3. /\ \A h \in Groups : seen[sink][h] = seqs[h] => seen'[sink][h] = seqs[h]
          /\ relSink[i] = sink /\ relSeq[i] = seqs[group[i]] =>
               seen'[sink][group[i]] = seqs[group[i]]
      BY <2>1, <3>1, <3>2, TellSettles
    <3>. QED
      BY <2>1, <2>2, <3>3 DEF CurrentSinkInv
  <2>4. CASE relSink[i] = 0
    BY <1>6, <2>1, <2>2, <2>4 DEF EndTellSink, CurrentSinkInv
  <2>. QED
    BY <2>3, <2>4
<1>7. CASE SetReleaseSink
  <2>1. /\ UNCHANGED <<seqs, seen>> /\ sink' = sinks + 1 /\ sinks + 1 \in Sinks
        /\ calls' = calls \cup {[sink |-> sinks + 1, group |-> g, seq |-> seqs[g]] :
                                  g \in {h \in Groups : seqs[h] > 0}}
    BY <1>7, RegistryAssumption DEF SetReleaseSink, TypeOK, SinkType, Sinks
  <2>2. ASSUME NEW g \in Groups PROVE Settled(g)'
    <3>1. CASE seqs[g] > 0
      <4>1. [sink |-> sinks + 1, group |-> g, seq |-> seqs[g]] \in calls'
        BY <2>1, <3>1
      <4>. QED
        BY <2>1, <4>1 DEF Settled
    <3>2. CASE ~(seqs[g] > 0)
      BY <2>1, <3>2 DEF Settled, ReleaseInv, SeenInv, TypeOK, SinkType
    <3>. QED
      BY <3>1, <3>2
  <2>. QED
    BY <2>2 DEF CurrentSinkInv, Settled
<1>8. CASE ClearReleaseSink
  BY <1>8 DEF ClearReleaseSink, CurrentSinkInv
<1>9. ASSUME NEW m \in calls, ReplaySequence(m) PROVE CurrentSinkInv'
  <2>1. m.sink \in Sinks /\ m.group \in Groups /\ m.seq \in Nat /\ m.seq <= seqs[m.group]
    BY DEF ReleaseInv, CallsInv, TypeOK, SinkType
  <2>2. UNCHANGED <<group, endPc, relSink, relSeq, seqs, sink, sinks>> /\ calls' = calls \ {m}
    BY <1>9 DEF ReplaySequence, scopeVars
  <2>3. Tell(m.sink, m.group, m.seq)
    BY <1>9 DEF ReplaySequence
  <2>4. /\ \A h \in Groups : seen[sink][h] = seqs[h] => seen'[sink][h] = seqs[h]
        /\ m.sink = sink /\ m.seq = seqs[m.group] => seen'[sink][m.group] = seqs[m.group]
    BY <2>1, <2>2, <2>3, TellSettles
  <2>. QED
    BY <2>2, <2>4 DEF CurrentSinkInv
<1>10. \/ UNCHANGED <<sinkVars, group, endPc, relSink, relSeq>>
       \/ \E i \in Ids, g \in Groups \cup {Unaccounted} : Install(i, g)
       \/ \E i \in Ids : EndDeactivate(i) \/ EndStartClose(i) \/ EndForget(i)
       \/ \E i \in Ids : EndMarkReleased(i)
       \/ \E i \in Ids : EndTellSink(i)
       \/ SetReleaseSink
       \/ ClearReleaseSink
       \/ \E m \in calls : ReplaySequence(m)
  BY ReleaseFrame
<1>. QED
  BY <1>1, <1>3, <1>4, <1>5, <1>6, <1>7, <1>8, <1>9, <1>10

(* Every step keeps the sequence of a group equal to its releases.         *)
LEMMA CountStep ==
    TypeOK /\ ScopeInv /\ ReleaseCounted /\ [Next]_vars => ReleaseCounted'
<1>. SUFFICES ASSUME TypeOK, ScopeInv, ReleaseCounted, [Next]_vars, NEW g \in Groups
              PROVE  seqs'[g] = Cardinality(Released(g)')
  BY DEF ReleaseCounted
<1>1. seqs[g] = Cardinality(Released(g))
  BY DEF ReleaseCounted
<1>2. CASE UNCHANGED seqs /\ Released(g)' = Released(g)
  BY <1>1, <1>2
<1>3. CASE UNCHANGED <<sinkVars, group, endPc, relSink, relSeq>>
  BY <1>2, <1>3 DEF sinkVars, Released
<1>4. ASSUME NEW i \in Ids, NEW h \in Groups \cup {Unaccounted}, Install(i, h)
      PROVE  UNCHANGED seqs /\ Released(g)' = Released(g)
  <2>1. endPc[i] = "open"
    BY <1>4 DEF Install, ScopeInv
  <2>. QED
    BY <1>4, <2>1 DEF Install, sinkVars, Released, TypeOK, ScopeType
<1>5. ASSUME NEW i \in Ids, EndDeactivate(i) \/ EndStartClose(i) \/ EndForget(i) \/ EndTellSink(i)
      PROVE  UNCHANGED seqs /\ Released(g)' = Released(g)
  BY <1>5 DEF EndDeactivate, EndStartClose, EndForget, EndTellSink, sinkVars, Released, TypeOK,
     ScopeType
<1>6. ASSUME NEW i \in Ids, EndMarkReleased(i) PROVE seqs'[g] = Cardinality(Released(g)')
  <2>1. /\ endPc' = [endPc EXCEPT ![i] = "marked"]
        /\ UNCHANGED group
        /\ group[i] \in Groups => seqs' = [seqs EXCEPT ![group[i]] = seqs[group[i]] + 1]
        /\ group[i] \notin Groups => UNCHANGED seqs
    BY <1>6, MarkEffect
  <2>2. endPc[i] = "closing"
    BY <1>6 DEF EndMarkReleased
  <2>3. CASE group[i] # g
    <3>1. seqs'[g] = seqs[g]
      BY <2>1, <2>3 DEF TypeOK, SinkType
    <3>2. Released(g)' = Released(g)
      BY <2>1, <2>3 DEF Released, TypeOK, ScopeType
    <3>. QED
      BY <1>1, <3>1, <3>2
  <2>4. CASE group[i] = g
    <3>1. seqs'[g] = seqs[g] + 1
      BY <2>1, <2>4 DEF TypeOK, SinkType
    <3>2. Released(g)' = Released(g) \cup {i} /\ i \notin Released(g)
      BY <2>1, <2>2, <2>4 DEF Released, TypeOK, ScopeType
    <3>3. IsFiniteSet(Released(g))
      <4>1. IsFiniteSet(Ids)
        BY FS_Interval, RegistryAssumption DEF Ids
      <4>. QED
        BY <4>1, FS_Subset DEF Released
    <3>4. Cardinality(Released(g) \cup {i}) = Cardinality(Released(g)) + 1
      BY <3>2, <3>3, FS_AddElement
    <3>. QED
      BY <1>1, <3>1, <3>2, <3>4
  <2>. QED
    BY <2>3, <2>4
<1>7. CASE SetReleaseSink \/ ClearReleaseSink \/ \E m \in calls : ReplaySequence(m)
  BY <1>2, <1>7 DEF SetReleaseSink, ClearReleaseSink, ReplaySequence, scopeVars, Released
<1>. QED
  BY <1>2, <1>3, <1>4, <1>5, <1>6, <1>7, ReleaseFrame

-----------------------------------------------------------------------------
(* The initial state satisfies the inductive invariant.                    *)
LEMMA InitIInv == Init => IInv
<1>. SUFFICES ASSUME Init PROVE IInv
  OBVIOUS
<1>. USE RegistryAssumption DEF Init, Ids, Sinks
<1>1. TypeOK
  BY DEF TypeOK, RegistryType, ScopeType, SinkType, BarrierType, CallerType, States, EndPcs,
         CallerPcs, Callers
<1>2. ScopeInv
  BY DEF ScopeInv
<1>3. CloseInv /\ DrainedIsEmpty /\ NoLostWakeup
  BY DEF CloseInv, CloserInv, DrainedIsEmpty, NoLostWakeup, Callers
<1>4. BarrierInv
  BY DEF BarrierInv
<1>5. ReleaseInv /\ CurrentSinkInv
  BY DEF ReleaseInv, OwnReleaseInv, CallsInv, SeenInv, CurrentSinkInv
<1>6. ReleaseCounted
  <2>1. ASSUME NEW g \in Groups PROVE Released(g) = {}
    BY DEF Released
  <2>. QED
    BY <2>1, FS_EmptySet DEF ReleaseCounted
<1>. QED
  BY <1>1, <1>2, <1>3, <1>4, <1>5, <1>6 DEF IInv

(* Every step preserves the inductive invariant.                           *)
LEMMA NextIInv == IInv /\ [Next]_vars => IInv'
<1>. SUFFICES ASSUME IInv, [Next]_vars PROVE IInv'
  OBVIOUS
<1>. USE DEF IInv
<1>1. TypeOK'
  BY RegistryTypeStep, ScopeTypeStep, SinkTypeStep, BarrierTypeStep, CallerTypeStep
  DEF TypeOK
<1>. QED
  BY <1>1, ScopeStep, CloseInvStep, DrainedStep, WakeupStep, BarrierStepInv, ReleaseStep,
     CurrentSinkStep, CountStep

(* The inductive invariant holds in every reachable state.                 *)
LEMMA Invariance == Spec => []IInv
  BY InitIInv, NextIInv, PTL DEF Spec

(* Type correctness: among others, an id is never both a pending dispatch  *)
(* and an installed scope.                                                 *)
THEOREM TypeCorrect == Spec => []TypeOK
<1>1. IInv => TypeOK
  BY DEF IInv
<1>. QED
  BY <1>1, Invariance, PTL

(* After a Drain returned nil the registry is closed and empty, for ever.  *)
THEOREM DrainCorrect == Spec => []DrainedIsEmpty
<1>1. IInv => DrainedIsEmpty
  BY DEF IInv
<1>. QED
  BY <1>1, Invariance, PTL

(* After Drain or Close returned, no resource is bound or half closed.     *)
THEOREM ShutdownCorrect == Spec => []ShutdownReleasesResources
<1>1. IInv => ShutdownReleasesResources
  BY DEF IInv, CloseInv, CloserInv, DrainedIsEmpty, ScopeInv, ShutdownReleasesResources,
         ResourceReleased
<1>. QED
  BY <1>1, Invariance, PTL

(* closeFn runs at most once, and before the scope is forgotten.           *)
THEOREM CloseOnce == Spec => []ClosedExactlyOnce
<1>1. IInv => ClosedExactlyOnce
  BY DEF IInv, ScopeInv, ClosedExactlyOnce, ResourceReleased
<1>. QED
  BY <1>1, Invariance, PTL

(* No caller of Drain or WaitPending sleeps on a condition that holds.     *)
THEOREM WakeupCorrect == Spec => []NoLostWakeup
<1>1. IInv => NoLostWakeup
  BY DEF IInv
<1>. QED
  BY <1>1, Invariance, PTL

(* A published barrier resolves every dispatch begun before it.            *)
THEOREM BarrierCorrect == Spec => []BarrierSound
<1>1. IInv => BarrierSound
  BY DEF IInv, BarrierInv, BarrierSound, TypeOK, RegistryType, BarrierType
<1>. QED
  BY <1>1, Invariance, PTL

(* The cumulative sequence of a group counts its releases exactly.         *)
THEOREM ReleaseCountCorrect == Spec => []ReleaseCounted
<1>1. IInv => ReleaseCounted
  BY DEF IInv
<1>. QED
  BY <1>1, Invariance, PTL

(* A sink hears of a release before the registry forgets the execution.    *)
THEOREM ToldCorrect == Spec => []ToldBeforeForgotten
<1>1. IInv => ToldBeforeForgotten
  BY DEF IInv, ReleaseInv, OwnReleaseInv, ToldBeforeForgotten
<1>. QED
  BY <1>1, Invariance, PTL

(* A replaced sink catches up with every release.                          *)
THEOREM SinkCorrect == Spec => []SinkCatchesUp
<1>1. IInv => SinkCatchesUp
  BY DEF IInv, CurrentSinkInv, SinkCatchesUp, Owed
<1>. QED
  BY <1>1, Invariance, PTL

(* No sink misses a release, whatever replaces it meanwhile.               *)
THEOREM SinksCorrect == Spec => []SinksInformed
  BY ToldCorrect, SinkCorrect, PTL DEF SinksInformed

(* Nothing is admitted once the registry left accepting.                   *)
THEOREM AdmissionCorrect == Spec => NoAdmissionAfterShutdown
<1>1. [Next]_vars => [state # "accepting" =>
         /\ state' # "accepting"
         /\ pending' \subseteq pending
         /\ scopes' \subseteq scopes]_vars
  BY NoAdmissionStep
<1>. QED
  BY <1>1, PTL DEF Spec, NoAdmissionAfterShutdown
=============================================================================
