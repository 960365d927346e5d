---------------------------- MODULE HomeLifetimes ----------------------------
(***************************************************************************)
(* How a node keeps its membership at Home over the lifetimes of its       *)
(* client: runHomeSubscriber with its config worker                        *)
(* (sdk/cliproxy/service_home.go), the fences and recovery states of the   *)
(* client (internal/home/client.go, cluster_balance.go) and the dispatch   *)
(* of a request (sdk/cliproxy/auth/conductor_home.go), over the contracts  *)
(* of the execution registry and the release flusher.                      *)
(*                                                                         *)
(* Home counts a slot for every accounted dispatch of a membership and     *)
(* frees slots by the cumulative release sequence the node reports.  A new *)
(* client either takes the old membership over, with its slots, or enters  *)
(* a fresh one, which has none.  The node has to choose so that Home's     *)
(* count and its own executions agree: an answer that may have been lost   *)
(* forbids the takeover, and a fresh membership needs an empty registry.   *)
(*                                                                         *)
(* Home speaks the protocol with lifecycle revisions, every dispatch is    *)
(* accounted, and all dispatches are of one release group.                 *)
(***************************************************************************)
EXTENDS Naturals, FiniteSets

CONSTANTS
    Requests,       \* goroutines that dispatch and execute
    MaxDispatch,    \* bound on the dispatches that are sent to Home
    MaxFaults,      \* bound on failures, lost answers, rebalances, timeouts
    None

ASSUME BoundsAssumption == MaxDispatch \in Nat /\ MaxFaults \in Nat

VARIABLES
    home,       \* external: membership, counted dispatches, released so far
    client,     \* the client of the current lifetime
    sub,        \* where runHomeSubscriber is, and the error of the lifetime
    stopped,    \* homeCtx is cancelled
    bundle,     \* homeDispatchBundle: lifetime and registry, or None
    registry,   \* the execution registry: number, accepting, sink installed
    released,   \* the executions whose release the registry has counted
    flusher,    \* the release flusher: running, latest and acknowledged
    req,        \* per request: where it is, its lifetime, registry, dispatch
    sent,       \* dispatches sent to Home so far
    faults      \* faults so far

vars == <<home, client, sub, stopped, bundle, registry, released, flusher,
          req, sent, faults>>

NoMember == [member |-> FALSE, issued |-> {}, rel |-> 0]
FreshMember == [NoMember EXCEPT !.member = TRUE]
Idle == [pc |-> "idle", n |-> 0, g |-> 0, d |-> 0]
NewFlusher == [run |-> FALSE, latest |-> 0, acked |-> 0]

NewClient(n, rec, legacy) ==
    [n |-> n, rec |-> rec, legacy |-> legacy, hb |-> FALSE, fenced |-> FALSE,
     releaseFenced |-> FALSE, ready |-> FALSE, ambiguous |-> FALSE, closed |-> FALSE]

-----------------------------------------------------------------------------
(* The recovery state of a client *)

markMembershipTakeoverEligible(rec) ==
    CASE rec = "stable" -> "eligible" [] rec = "switching" -> "switchingTakeover" [] OTHER -> rec

SuppressTakeover(rec) ==
    CASE rec = "eligible" -> "stable" [] rec = "switchingTakeover" -> "switching" [] OTHER -> rec

switchToNode(rec) ==
    CASE rec = "stable" -> "switching" [] rec = "eligible" -> "switchingTakeover" [] OTHER -> rec

TakesOver == ~client.legacy /\ client.rec \in {"eligible", "switchingTakeover"}

\* A failed lifetime may reach the threshold and go to another Home node.
AfterFailure(c) == {c, [c EXCEPT !.rec = switchToNode(c.rec), !.ready = FALSE]}

\* Close and AbortAmbiguousDispatch: no dispatch and no release goes out.
Shut(c) == [c EXCEPT !.fenced = TRUE, !.releaseFenced = TRUE, !.hb = FALSE]

Fault == faults < MaxFaults /\ faults' = faults + 1

-----------------------------------------------------------------------------
(* The registry and the flusher, by what they promise *)

Pending(g) ==
    {r \in Requests : req[r].g = g /\ req[r].pc \in {"fence", "rpop", "reply", "ambiguous", "ending"}}
Executing(g) == {r \in Requests : req[r].g = g /\ req[r].pc = "run"}

\* WaitPending returns once every dispatch is installed or given up.
Settled == Pending(registry.g) = {}

\* Mutant: Drain waits for dispatches and not for executions.
DrainedOfPending == Settled

\* Drain returns nil once nothing is pending and every owner has ended.
Drained == Settled /\ Executing(registry.g) = {}

\* PushConcurrencyRelease: concurrencyReleaseClient gives a connection.
MayRelease ==
    /\ ~client.releaseFenced
    /\ client.rec = "stable" \/ (client.rec = "eligible" /\ client.ready)

ReleaseSent ==
    /\ flusher.run /\ flusher.latest > flusher.acked /\ MayRelease
    /\ flusher' = [flusher EXCEPT !.acked = flusher.latest]
    /\ home' = IF home.member /\ flusher.latest > home.rel
               THEN [home EXCEPT !.rel = flusher.latest] ELSE home
    /\ UNCHANGED <<client, sub, stopped, bundle, registry, released, req, sent, faults>>

\* The frame arrived, its answer did not: the flusher keeps it pending.
ReleaseAnswerLost ==
    /\ flusher.run /\ flusher.latest > flusher.acked /\ MayRelease
    /\ home.member /\ flusher.latest > home.rel
    /\ Fault
    /\ home' = [home EXCEPT !.rel = flusher.latest]
    /\ UNCHANGED <<client, sub, stopped, bundle, registry, released, flusher, req, sent>>

-----------------------------------------------------------------------------
(* A request: pickNextViaHome *)

\* The request finds a lifetime whose heartbeat is good.
LoadBundle(r) ==
    /\ req[r].pc = "idle" /\ bundle # None /\ sent < MaxDispatch
    /\ bundle.n = client.n /\ client.hb
    /\ req' = [req EXCEPT ![r] = [Idle EXCEPT !.pc = "begin", !.n = bundle.n, !.g = bundle.g]]
    /\ UNCHANGED <<home, client, sub, stopped, bundle, registry, released, flusher, sent, faults>>

BeginDispatch(r) ==
    /\ req[r].pc = "begin"
    /\ req' = [req EXCEPT ![r] = IF req[r].g = registry.g /\ registry.accepting
                                 THEN [@ EXCEPT !.pc = "fence"] ELSE Idle]
    /\ UNCHANGED <<home, client, sub, stopped, bundle, registry, released, flusher, sent, faults>>

\* The last look at the fence before RPOP; an earlier client is closed.
CheckFence(r) ==
    /\ req[r].pc = "fence"
    /\ IF req[r].n = client.n /\ ~client.fenced /\ sent < MaxDispatch
       THEN /\ sent' = sent + 1
            /\ req' = [req EXCEPT ![r].pc = "rpop", ![r].d = sent + 1]
       ELSE /\ req' = [req EXCEPT ![r] = Idle]
            /\ UNCHANGED sent
    /\ UNCHANGED <<home, client, sub, stopped, bundle, registry, released, flusher, faults>>

Connected(r) == req[r].n = client.n /\ ~client.closed /\ ~client.ambiguous

\* External: Home gives out a credential and counts the dispatch, perhaps when
\* the request no longer waits for it.
CountDispatch(r) ==
    /\ req[r].pc \in {"rpop", "ambiguous", "ending"} /\ req[r].n = client.n
    /\ home.member /\ req[r].d \notin home.issued
    /\ home' = [home EXCEPT !.issued = @ \cup {req[r].d}]
    /\ UNCHANGED <<client, sub, stopped, bundle, registry, released, flusher, req, sent, faults>>

RPopAnswered(r) ==
    /\ req[r].pc = "rpop" /\ Connected(r) /\ req[r].d \in home.issued
    /\ req' = [req EXCEPT ![r].pc = "reply"]
    /\ UNCHANGED <<home, client, sub, stopped, bundle, registry, released, flusher, sent, faults>>

\* Home has no credential or answers with an error of its own.
RPopRefused(r) ==
    /\ req[r].pc = "rpop" /\ Connected(r) /\ req[r].d \notin home.issued
    /\ IF home.member THEN Fault ELSE UNCHANGED faults
    /\ req' = [req EXCEPT ![r] = Idle]
    /\ UNCHANGED <<home, client, sub, stopped, bundle, registry, released, flusher, sent>>

\* The request's context, the connection or the client ends after the command
\* was written: the node cannot tell whether Home has counted it.
RPopLost(r) ==
    /\ req[r].pc = "rpop"
    /\ IF Connected(r) THEN Fault ELSE UNCHANGED faults
    /\ req' = [req EXCEPT ![r].pc = "ambiguous"]
    /\ UNCHANGED <<home, client, sub, stopped, bundle, registry, released, flusher, sent>>

AbortAmbiguousDispatch(r) ==
    IF req[r].n = client.n
    THEN client' = [Shut(client) EXCEPT !.ambiguous = TRUE]
    ELSE UNCHANGED client

\* The client is marked first, then the dispatch is given up (pending.End).
Abort(r) ==
    /\ req[r].pc = "ambiguous"
    /\ AbortAmbiguousDispatch(r)
    /\ req' = [req EXCEPT ![r].pc = "ending"]
    /\ UNCHANGED <<home, sub, stopped, bundle, registry, released, flusher, sent, faults>>

EndPending(r) ==
    /\ req[r].pc = "ending"
    /\ req' = [req EXCEPT ![r] = Idle]
    /\ UNCHANGED <<home, client, sub, stopped, bundle, registry, released, flusher, sent, faults>>

\* installHomeConcurrencyScope; a registry that drains refuses.
Install(r) ==
    /\ req[r].pc = "reply"
    /\ req' = [req EXCEPT ![r].pc = IF registry.accepting THEN "run" ELSE "ambiguous"]
    /\ UNCHANGED <<home, client, sub, stopped, bundle, registry, released, flusher, sent, faults>>

\* Home's concurrency tuple cannot be used.
RejectReply(r) ==
    /\ req[r].pc = "reply"
    /\ Fault
    /\ req' = [req EXCEPT ![r].pc = "ambiguous"]
    /\ UNCHANGED <<home, client, sub, stopped, bundle, registry, released, flusher, sent>>

\* The rest of the answer contradicts the tuple after its scope was installed:
\* the client is aborted, the owner ends the scope.
RejectInstalled(r) ==
    /\ req[r].pc = "run" /\ req[r].n = client.n
    /\ Fault
    /\ AbortAmbiguousDispatch(r)
    /\ UNCHANGED <<home, sub, stopped, bundle, registry, released, flusher, req, sent>>

\* The owner ends its scope: the registry counts the release and tells the
\* sink, which is the flusher's MarkDirty.
EndScope(r) ==
    /\ req[r].pc = "run"
    /\ released' = released \cup {req[r].d}
    /\ flusher' = IF registry.sink THEN [flusher EXCEPT !.latest = Cardinality(released) + 1]
                  ELSE flusher
    /\ req' = [req EXCEPT ![r] = Idle]
    /\ UNCHANGED <<home, client, sub, stopped, bundle, registry, sent, faults>>

-----------------------------------------------------------------------------
(* RunConfigSubscriberLifetime *)

Goto(pc) == sub' = [sub EXCEPT !.pc = pc]
Ends(err) == sub' = [sub EXCEPT !.pc = "ended", !.err = err]

\* The loop begins a lifetime; a planned move goes to the target's address.
NewLifetime ==
    /\ sub.pc = "new" /\ ~stopped
    /\ client' = NewClient(client.n + 1,
                           IF sub.err = "rebalance" THEN switchToNode(client.rec) ELSE client.rec,
                           client.legacy)
    /\ flusher' = [flusher EXCEPT !.run = TRUE]
    /\ sub' = [sub EXCEPT !.pc = "get", !.published = FALSE]
    /\ UNCHANGED <<home, stopped, bundle, registry, released, req, sent, faults>>

GetConfig ==
    /\ sub.pc = "get" /\ ~stopped
    /\ Goto("subscribe")
    /\ UNCHANGED <<home, client, stopped, bundle, registry, released, flusher, req, sent, faults>>

\* GetConfig, SUBSCRIBE or its ACK fails, or homeCtx is cancelled meanwhile; a
\* SUBSCRIBE may have reached Home all the same.
ConnectFails ==
    /\ sub.pc \in {"get", "subscribe"}
    /\ IF stopped THEN UNCHANGED <<faults, client>>
       ELSE Fault /\ client' \in AfterFailure(client)
    /\ home' \in {home} \cup {h \in {FreshMember} : sub.pc = "subscribe" /\ ~TakesOver}
    /\ Ends("failed")
    /\ UNCHANGED <<stopped, bundle, registry, released, flusher, req, sent>>

\* Home cannot preserve the membership.
TakeoverUnavailable ==
    /\ sub.pc = "subscribe" /\ TakesOver
    /\ IF home.member THEN Fault ELSE UNCHANGED faults
    /\ home' = NoMember
    /\ client' \in AfterFailure(client)
    /\ Ends("unavailable")
    /\ UNCHANGED <<stopped, bundle, registry, released, flusher, req, sent>>

\* An older Home does not know the arguments.
LegacyProtocol ==
    /\ sub.pc = "subscribe" /\ ~client.legacy
    /\ Fault
    /\ client' \in AfterFailure(client)
    /\ Ends("legacy")
    /\ UNCHANGED <<home, stopped, bundle, registry, released, flusher, req, sent>>

SubscriptionACK ==
    /\ sub.pc = "subscribe"
    /\ TakesOver => home.member
    /\ home' = IF TakesOver THEN home ELSE FreshMember
    /\ client' = [client EXCEPT !.rec = markMembershipTakeoverEligible(client.rec)]
    /\ Goto("acked")
    /\ UNCHANGED <<stopped, bundle, registry, released, flusher, req, sent, faults>>

ProbeSucceeds ==
    /\ sub.pc = "acked"
    /\ client' = [client EXCEPT !.ready = TRUE, !.rec = "stable", !.hb = TRUE]
    /\ Goto("up")
    /\ UNCHANGED <<home, stopped, bundle, registry, released, flusher, req, sent, faults>>

ProbeFails ==
    /\ sub.pc = "acked"
    /\ IF stopped THEN UNCHANGED <<faults, client>>
       ELSE Fault /\ client' \in AfterFailure(client)
    /\ Ends("failed")
    /\ UNCHANGED <<home, stopped, bundle, registry, released, flusher, req, sent>>

\* failReceive: silence, a broken connection (after Abort for certain), or a
\* cancelled homeCtx, which leaves the releases open.
FailReceive ==
    /\ sub.pc = "up"
    /\ stopped \/ client.ambiguous \/ faults < MaxFaults
    /\ faults' = IF stopped \/ client.ambiguous THEN faults ELSE faults + 1
    /\ client' = [client EXCEPT
         !.rec = IF ~stopped /\ client.hb THEN markMembershipTakeoverEligible(@) ELSE @,
         !.releaseFenced = @ \/ ~stopped, !.fenced = TRUE, !.hb = FALSE]
    /\ Goto("broken")
    /\ UNCHANGED <<home, stopped, bundle, registry, released, flusher, req, sent>>

\* endReceiveFailure, after failReceive or after a control message that could
\* not be processed.
EndReceiveFailure ==
    /\ \/ sub.pc = "broken" /\ UNCHANGED faults
       \/ sub.pc = "up" /\ ~stopped /\ Fault
    /\ client' \in IF stopped THEN {[client EXCEPT !.hb = FALSE]}
                   ELSE AfterFailure([client EXCEPT !.hb = FALSE,
                                        !.rec = markMembershipTakeoverEligible(@)])
    /\ Ends("failed")
    /\ UNCHANGED <<home, stopped, bundle, registry, released, flusher, req, sent>>

\* Home asks the node to move: executeClusterRebalance.
Rebalance ==
    /\ sub.pc = "up" /\ ~stopped
    /\ client.hb /\ ~client.fenced /\ ~client.ambiguous /\ ~client.legacy /\ client.rec = "stable"
    /\ Fault
    /\ client' = [client EXCEPT !.rec = "eligible", !.hb = FALSE]
    /\ Ends("rebalance")
    /\ UNCHANGED <<home, stopped, bundle, registry, released, flusher, req, sent>>

\* The config worker has committed the first configuration: publish.
Publish ==
    /\ sub.pc \in {"up", "broken", "ended", "settle"} /\ client.ready /\ ~stopped /\ ~sub.published
    /\ bundle' = [n |-> client.n, g |-> registry.g]
    /\ sub' = [sub EXCEPT !.published = TRUE]
    /\ UNCHANGED <<home, client, stopped, registry, released, flusher, req, sent, faults>>

-----------------------------------------------------------------------------
(* runHomeSubscriber after a lifetime *)

\* A planned move fences the dispatches and waits for them on the connections
\* that are still open; then the worker is stopped.
Fence ==
    /\ sub.pc = "ended"
    /\ IF sub.err = "rebalance"
       THEN client' = [client EXCEPT !.fenced = TRUE] /\ Goto("settle")
       ELSE UNCHANGED client /\ Goto("detach")
    /\ UNCHANGED <<home, stopped, bundle, registry, released, flusher, req, sent, faults>>

SettlePlanned ==
    /\ sub.pc = "settle" /\ Settled
    /\ Goto("detach")
    /\ UNCHANGED <<home, client, stopped, bundle, registry, released, flusher, req, sent, faults>>

SettlePlannedTimeout ==
    /\ sub.pc = "settle" /\ ~Settled
    /\ Fault
    /\ sub' = [sub EXCEPT !.pc = "detach", !.err = "unsettled"]
    /\ UNCHANGED <<home, client, stopped, bundle, registry, released, flusher, req, sent>>

\* detachHomeSubscriberLifetime; with a retry, the flusher is stopped and the
\* client closed.
Detach ==
    /\ sub.pc = "detach"
    /\ bundle' = None
    /\ Goto(IF stopped THEN "drain" ELSE "close")
    /\ registry' = [registry EXCEPT !.accepting = @ /\ ~stopped]
    /\ UNCHANGED <<home, client, stopped, released, flusher, req, sent, faults>>

CloseClient ==
    /\ sub.pc = "close"
    /\ flusher' = [flusher EXCEPT !.run = FALSE]
    /\ client' = [Shut(client) EXCEPT !.closed = TRUE]
    /\ Goto(IF sub.err = "unsettled" THEN "fail" ELSE "pending")
    /\ UNCHANGED <<home, stopped, bundle, registry, released, req, sent, faults>>

\* Mutant: a dispatch whose answer was lost is no reason to drain.
UnsafeByError == sub.err \in {"unavailable", "legacy"} \/ client.legacy

\* The next lifetime may not take the membership over.
UnsafeReplacement ==
    client.ambiguous \/ sub.err \in {"unavailable", "legacy"} \/ client.legacy

\* All dispatches are settled: the registry goes on in the next lifetime, or
\* loses its sink and is drained.
Decide ==
    /\ sub.pc = "pending" /\ (Settled \/ sub.err = "rebalance")
    /\ client' = IF sub.err = "legacy"
                 THEN [client EXCEPT !.legacy = TRUE, !.rec = SuppressTakeover(@)] ELSE client
    /\ IF UnsafeReplacement
       THEN registry' = [registry EXCEPT !.accepting = FALSE, !.sink = FALSE] /\ Goto("unsafe")
       ELSE UNCHANGED registry /\ Goto("new")
    /\ UNCHANGED <<home, stopped, bundle, released, flusher, req, sent, faults>>

\* Mutant: the new registry is not connected to the new flusher.
NewRegistryMute == registry' = [g |-> registry.g + 1, accepting |-> TRUE, sink |-> FALSE]

NewRegistry == registry' = [g |-> registry.g + 1, accepting |-> TRUE, sink |-> TRUE]

ReplaceRegistry ==
    /\ sub.pc = "unsafe" /\ Drained
    /\ client' = [client EXCEPT !.rec = SuppressTakeover(@)]
    /\ NewRegistry
    /\ released' = {}
    /\ flusher' = NewFlusher
    /\ Goto("new")
    /\ UNCHANGED <<home, stopped, bundle, req, sent, faults>>

\* A wait that takes longer than cancelBound ends the service.
Timeout ==
    /\ \/ sub.pc = "pending" /\ ~Settled /\ sub.err # "rebalance" /\ Fault
       \/ sub.pc = "unsafe" /\ ~Drained /\ Fault
       \/ sub.pc = "fail" /\ UNCHANGED faults
    /\ stopped' = TRUE
    /\ Goto("done")
    /\ registry' = [registry EXCEPT !.accepting = FALSE, !.sink = FALSE]
    /\ UNCHANGED <<home, client, bundle, released, flusher, req, sent>>

\* homeCtx was cancelled between two lifetimes: the deferred drain is left.
LeaveLoop ==
    /\ sub.pc = "new" /\ stopped
    /\ Goto("done")
    /\ registry' = [registry EXCEPT !.accepting = FALSE, !.sink = FALSE]
    /\ UNCHANGED <<home, client, stopped, bundle, released, flusher, req, sent, faults>>

\* Without a retry: Drain, Flush, then the end of the client.
Flushed == Drained /\ flusher.acked = flusher.latest

EndSubscriber ==
    /\ client' = [Shut(client) EXCEPT !.closed = TRUE]
    /\ flusher' = [flusher EXCEPT !.run = FALSE]
    /\ registry' = [registry EXCEPT !.sink = FALSE]
    /\ Goto("done")
    /\ UNCHANGED <<home, stopped, bundle, released, req, sent>>

DrainAndFlush ==
    /\ sub.pc = "drain" /\ Flushed
    /\ EndSubscriber
    /\ UNCHANGED faults

\* cancelBound passes; certain to when the client may not send releases.
DrainTimeout ==
    /\ sub.pc = "drain" /\ ~Flushed
    /\ IF MayRelease THEN Fault ELSE UNCHANGED faults
    /\ EndSubscriber

-----------------------------------------------------------------------------
\* Shutdown cancels homeCtx and waits for the subscriber.
Shutdown ==
    /\ ~stopped /\ Fault
    /\ stopped' = TRUE
    /\ UNCHANGED <<home, client, sub, bundle, registry, released, flusher, req, sent>>

\* External: Home drops a membership whose node is not subscribed.
Expire ==
    /\ home.member /\ sub.pc \notin {"acked", "up"}
    /\ IF sub.pc = "done" THEN UNCHANGED faults ELSE Fault
    /\ home' = NoMember
    /\ UNCHANGED <<client, sub, stopped, bundle, registry, released, flusher, req, sent>>

Init ==
    /\ home = NoMember
    /\ client = NewClient(0, "stable", FALSE)
    /\ sub = [pc |-> "new", err |-> "", published |-> FALSE]
    /\ stopped = FALSE
    /\ bundle = None
    /\ registry = [g |-> 1, accepting |-> TRUE, sink |-> TRUE]
    /\ released = {}
    /\ flusher = NewFlusher
    /\ req = [r \in Requests |-> Idle]
    /\ sent = 0
    /\ faults = 0

Request(r) ==
    \/ BeginDispatch(r) \/ CheckFence(r) \/ CountDispatch(r) \/ RPopAnswered(r)
    \/ Abort(r) \/ EndPending(r) \/ Install(r) \/ EndScope(r)

Subscriber ==
    \/ NewLifetime \/ GetConfig \/ SubscriptionACK \/ ProbeSucceeds
    \/ Fence \/ SettlePlanned \/ Detach \/ CloseClient \/ Decide
    \/ ReplaceRegistry \/ LeaveLoop \/ DrainAndFlush

Next ==
    \/ \E r \in Requests :
          LoadBundle(r) \/ Request(r) \/ RPopRefused(r) \/ RPopLost(r) \/ RejectReply(r)
          \/ RejectInstalled(r)
    \/ Subscriber \/ Publish \/ ConnectFails \/ TakeoverUnavailable \/ LegacyProtocol
    \/ ProbeFails \/ FailReceive \/ EndReceiveFailure \/ Rebalance
    \/ SettlePlannedTimeout \/ Timeout \/ DrainTimeout
    \/ ReleaseSent \/ ReleaseAnswerLost
    \/ Shutdown \/ Expire

(* Goroutines that can go on do.  A command on a connection that is gone    *)
(* fails, a lifetime whose client was aborted or cancelled ends, a refused  *)
(* takeover is answered, and Home drops the membership of a node that has   *)
(* left.  Sends are retried (ReleaseFlusher) and get through.               *)
Fairness ==
    /\ \A r \in Requests :
          WF_vars(Request(r)) /\ WF_vars(RPopRefused(r) /\ ~home.member)
          /\ WF_vars(RPopLost(r) /\ ~Connected(r))
    /\ WF_vars(Subscriber)
    /\ WF_vars(TakeoverUnavailable /\ ~home.member)
    /\ WF_vars((FailReceive \/ EndReceiveFailure) /\ faults' = faults)
    /\ WF_vars((ConnectFails \/ ProbeFails) /\ stopped)
    /\ WF_vars(Timeout /\ sub.pc = "fail")
    /\ WF_vars(DrainTimeout /\ ~MayRelease)
    /\ WF_vars(ReleaseSent)
    /\ WF_vars(Expire /\ sub.pc = "done")

Spec == Init /\ [][Next]_vars /\ Fairness

-----------------------------------------------------------------------------
(* Properties *)

\* Home considers the node subscribed, and so does the node.
Subscribed == sub.pc = "up" /\ ~client.ambiguous

\* A slot that Home counts is explained: its dispatch is still to be settled,
\* its execution runs, or the registry has counted its release and the flusher
\* knows.  A takeover after a lost answer, or a release sequence that starts
\* again in an old membership, would leave a slot that nobody ever frees
\* (runHomeSubscriber, AbortAmbiguousDispatch).
NoLeakedSlot ==
    Subscribed =>
        /\ \A d \in home.issued :
              d \in released \/ \E r \in Requests : req[r].d = d /\ req[r].g = registry.g
        /\ home.rel <= Cardinality(released)
        /\ registry.sink => flusher.latest = Cardinality(released)

\* An execution that runs while the node is subscribed is counted by Home: a
\* fresh membership is entered only when the executions of the old one have
\* ended (the drain after an unsafe subscriber replacement).
NoUncountedExecution ==
    Subscribed => \A r \in Requests : req[r].pc = "run" => req[r].d \in home.issued

\* Every slot is given back in the end, by a release or with its membership,
\* over failures of the connection, lost answers, moves and shutdown.
SlotsReturned == <>[](home.rel = Cardinality(home.issued))
=============================================================================
