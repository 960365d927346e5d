------------------------- MODULE HomeLifetimesProofs -------------------------
(***************************************************************************)
(* Proofs about HomeLifetimes, for every set of requests and every bound:  *)
(* while the node is subscribed, each slot that Home counts is explained   *)
(* by a dispatch, an execution or a release of the node, and each          *)
(* execution is counted by Home.                                           *)
(*                                                                         *)
(* Neither is inductive.  A lifetime passes through stages in which Home   *)
(* and the node may disagree, and they must agree again once the next      *)
(* client is subscribed: the invariant says of each stage what the         *)
(* requests of the past lifetimes may still do (LifetimeInv, SealInv), and *)
(* that a client which would take the old membership over has the right    *)
(* to (ExplainedInv, CountedInv).                                          *)
(***************************************************************************)
EXTENDS HomeLifetimes, TLAPS, FiniteSetTheorems

(***************************************************************************)
(* What the proof needs to say about a state                               *)
(***************************************************************************)
Recoveries == {"stable", "eligible", "switching", "switchingTakeover"}
Takeover == {"eligible", "switchingTakeover"}
SubscriberPcs == {"new", "get", "subscribe", "acked", "up", "broken", "ended", "settle",
                  "detach", "close", "pending", "unsafe", "fail", "drain", "done"}
Errors == {"", "failed", "unavailable", "legacy", "rebalance", "unsettled"}
RequestPcs == {"idle", "begin", "fence", "rpop", "reply", "ambiguous", "ending", "run"}

Homes == [member : BOOLEAN, issued : SUBSET Nat, rel : Nat]
Clients == [n : Nat, rec : Recoveries, legacy : BOOLEAN, hb : BOOLEAN, fenced : BOOLEAN,
            releaseFenced : BOOLEAN, ready : BOOLEAN, ambiguous : BOOLEAN, closed : BOOLEAN]
Subscribers == [pc : SubscriberPcs, err : Errors, published : BOOLEAN]
Registries == [g : Nat, accepting : BOOLEAN, sink : BOOLEAN]
Flushers == [run : BOOLEAN, latest : Nat, acked : Nat]
States == [pc : RequestPcs, n : Nat, g : Nat, d : Nat]

TypeOK ==
    /\ home \in Homes
    /\ client \in Clients
    /\ sub \in Subscribers
    /\ stopped \in BOOLEAN
    /\ bundle = None \/ bundle \in [n : Nat, g : Nat]
    /\ registry \in Registries
    /\ released \in SUBSET Nat
    /\ flusher \in Flushers
    /\ req \in [Requests -> States]
    /\ sent \in Nat

\* Sent to Home and not settled; with the installed ones, those of a number.
Outstanding(r) == req[r].pc \in {"rpop", "reply", "ambiguous", "ending"}
Live(r) == Outstanding(r) \/ req[r].pc = "run"

NoneOutstanding == \A r \in Requests : ~Outstanding(r)
NoneLive == \A r \in Requests : ~Live(r)

\* A dispatch has a number of its own, that is not released yet, in the
\* registry of now; a client leaves with its last unsettled dispatch.
Dispatch(r) ==
    /\ req[r].n <= client.n
    /\ IF Live(r) THEN req[r].d \in (1..sent) \ released ELSE req[r].d = 0
    /\ Live(r) \/ req[r].pc = "fence" => req[r].g = registry.g
    /\ Outstanding(r) => req[r].n = client.n
    /\ req[r].pc = "ending" => client.ambiguous

DispatchInv ==
    /\ \A r \in Requests : Dispatch(r)
    /\ \A r, q \in Requests : Live(r) /\ req[r].d = req[q].d => r = q

NumberInv ==
    /\ home.issued \subseteq 1..sent
    /\ released \subseteq 1..sent
    /\ bundle # None => bundle.n <= client.n

\* What the flusher is told is what the registry has counted.
FlusherInv ==
    /\ flusher.latest <= Cardinality(released)
    /\ registry.sink => flusher.latest = Cardinality(released)

\* No request has ever used this client, and none can.
Unused ==
    /\ ~client.ready
    /\ bundle = None
    /\ \A r \in Requests : req[r].pc # "idle" => req[r].n < client.n

\* No request can use this client any more.
Sealed == client.fenced \/ \A r \in Requests : req[r].pc = "idle"

Ended == sub.pc \in {"close", "pending"} \/ (sub.pc \in {"ended", "settle", "detach"} /\ ~stopped)

LifetimeInv ==
    /\ sub.pc \in {"get", "subscribe", "acked"} => Unused
    /\ Ended /\ ~client.legacy /\ client.rec \notin Takeover => Unused /\ NoneLive
    /\ sub.pc \in {"new", "get", "subscribe"} /\ ~TakesOver => NoneLive
    /\ sub.pc = "acked" => client.rec \in Takeover
    /\ sub.pc \in {"acked", "up"} => home.member

SealInv ==
    /\ sub.pc \in {"close", "pending", "unsafe", "fail", "drain", "new", "get", "subscribe", "acked"}
          => bundle = None
    /\ sub.pc = "settle" => client.fenced
    /\ sub.pc \in {"pending", "unsafe", "new"} => Sealed
    /\ sub.pc \in {"unsafe", "new"} => NoneOutstanding
    /\ sub.pc \in {"detach", "close", "pending"} /\ sub.err = "rebalance" => client.fenced /\ NoneOutstanding

\* The node is in its membership, or the next client would take it over.
Relied == sub.pc \in {"acked", "up", "broken"} \/ TakesOver

Explained ==
    /\ \A d \in home.issued :
          d \in released \/ \E r \in Requests : req[r].d = d /\ req[r].g = registry.g
    /\ home.rel <= Cardinality(released)

ExplainedInv == Relied /\ (~client.ambiguous \/ sub.pc = "new") => Explained

CountedInv ==
    Relied /\ home.member =>
        \A r \in Requests : req[r].pc \in {"reply", "run"} => req[r].d \in home.issued

IInv == TypeOK /\ DispatchInv /\ NumberInv /\ FlusherInv /\ LifetimeInv /\ SealInv
        /\ ExplainedInv /\ CountedInv

-----------------------------------------------------------------------------
(***************************************************************************)
(* The three kinds of steps                                                *)
(***************************************************************************)
RequestStep(r) ==
    LoadBundle(r) \/ Request(r) \/ RPopRefused(r) \/ RPopLost(r) \/ RejectReply(r)
    \/ RejectInstalled(r)

Fails == ConnectFails \/ TakeoverUnavailable \/ LegacyProtocol \/ ProbeFails

LifetimeStep ==
    \/ Subscriber \/ Publish \/ Fails \/ FailReceive \/ EndReceiveFailure \/ Rebalance
    \/ SettlePlannedTimeout \/ Timeout \/ DrainTimeout

OutsideStep == ReleaseSent \/ ReleaseAnswerLost \/ Shutdown \/ Expire

LEMMA StepKinds ==
    ASSUME Next
    PROVE  (\E r \in Requests : RequestStep(r)) \/ LifetimeStep \/ OutsideStep
BY DEF Next, RequestStep, LifetimeStep, OutsideStep, Fails

-----------------------------------------------------------------------------
(***************************************************************************)
(* What the operations on a client do                                      *)
(***************************************************************************)
LEMMA ShutClient ==
    ASSUME NEW c \in Clients
    PROVE  /\ Shut(c) \in Clients /\ [Shut(c) EXCEPT !.ambiguous = TRUE] \in Clients
           /\ [Shut(c) EXCEPT !.closed = TRUE] \in Clients
BY DEF Clients, Shut

LEMMA FailedClient ==
    ASSUME NEW c \in Clients, NEW e \in AfterFailure(c)
    PROVE  /\ e \in Clients
           /\ e.n = c.n /\ e.legacy = c.legacy /\ e.fenced = c.fenced /\ e.ambiguous = c.ambiguous
           /\ e.rec \in Takeover <=> c.rec \in Takeover
           /\ e.ready => c.ready
BY DEF Clients, AfterFailure, switchToNode, Recoveries, Takeover

LEMMA EligibleClient ==
    ASSUME NEW rec \in Recoveries
    PROVE  /\ markMembershipTakeoverEligible(rec) \in Recoveries \cap Takeover
           /\ SuppressTakeover(rec) \in Recoveries \ Takeover
           /\ switchToNode(rec) \in Recoveries
           /\ switchToNode(rec) \in Takeover <=> rec \in Takeover
BY DEF markMembershipTakeoverEligible, SuppressTakeover, switchToNode, Recoveries, Takeover

LEMMA ClientType ==
    ASSUME TypeOK, Next
    PROVE  client' \in Clients
<1>. USE DEF TypeOK
<1>0. client.rec \in Recoveries /\ client.n \in Nat /\ client.legacy \in BOOLEAN
  BY DEF Clients
<1>1. ASSUME NEW r \in Requests, Abort(r) \/ RejectInstalled(r) PROVE client' \in Clients
  BY <1>1, ShutClient DEF Abort, RejectInstalled, AbortAmbiguousDispatch
<1>2. CASE NewLifetime
  BY <1>0, <1>2, EligibleClient DEF NewLifetime, NewClient, Clients
<1>3. CASE Fails
  BY <1>3, FailedClient
     DEF Fails, ConnectFails, TakeoverUnavailable, LegacyProtocol, ProbeFails
<1>4. CASE SubscriptionACK
  BY <1>0, <1>4, EligibleClient DEF SubscriptionACK, Clients
<1>5. CASE ProbeSucceeds
  BY <1>5 DEF ProbeSucceeds, Clients, Recoveries
<1>6. CASE FailReceive
  BY <1>0, <1>6, EligibleClient DEF FailReceive, Clients
<1>7. CASE EndReceiveFailure
  <2>1. /\ [client EXCEPT !.hb = FALSE] \in Clients
        /\ [client EXCEPT !.hb = FALSE, !.rec = markMembershipTakeoverEligible(@)] \in Clients
    BY <1>0, EligibleClient DEF Clients
  <2>. QED
    BY <1>7, <2>1, FailedClient DEF EndReceiveFailure
<1>8. CASE Rebalance
  BY <1>8 DEF Rebalance, Clients, Recoveries
<1>9. CASE Fence
  BY <1>9 DEF Fence, Clients
<1>10. CASE CloseClient \/ DrainAndFlush \/ DrainTimeout
  BY <1>10, ShutClient DEF CloseClient, DrainAndFlush, DrainTimeout, EndSubscriber
<1>11. CASE Decide
  BY <1>0, <1>11, EligibleClient DEF Decide, Clients
<1>12. CASE ReplaceRegistry
  BY <1>0, <1>12, EligibleClient DEF ReplaceRegistry, Clients
<1>13. CASE UNCHANGED client
  BY <1>13
<1>. QED
  BY <1>1, <1>2, <1>3, <1>4, <1>5, <1>6, <1>7, <1>8, <1>9, <1>10, <1>11, <1>12, <1>13
     DEF Next, Request, Subscriber, Fails, LoadBundle, BeginDispatch, CheckFence, CountDispatch,
         RPopAnswered, RPopRefused, RPopLost, EndPending, Install, RejectReply, EndScope,
         GetConfig, SettlePlanned, Detach, LeaveLoop, Publish, SettlePlannedTimeout, Timeout,
         ReleaseSent, ReleaseAnswerLost, Shutdown, Expire

LEMMA RequestType ==
    ASSUME TypeOK, Next
    PROVE  req' \in [Requests -> States] /\ sent' \in Nat
<1>. USE DEF TypeOK
<1>0. Idle \in States /\ client.n \in Nat /\ registry.g \in Nat
  BY DEF Idle, States, RequestPcs, Clients, Registries
<1>1. ASSUME NEW r \in Requests, LoadBundle(r) PROVE req' \in [Requests -> States] /\ sent' \in Nat
  <2>1. [Idle EXCEPT !.pc = "begin", !.n = bundle.n, !.g = bundle.g] \in States
    BY <1>1 DEF LoadBundle, Idle, States, RequestPcs
  <2>. QED
    BY <1>1, <2>1 DEF LoadBundle
<1>2. ASSUME NEW r \in Requests, CheckFence(r) PROVE req' \in [Requests -> States] /\ sent' \in Nat
  BY <1>0, <1>2 DEF CheckFence, States, RequestPcs
<1>3. ASSUME NEW r \in Requests,
             BeginDispatch(r) \/ RPopAnswered(r) \/ RPopRefused(r) \/ RPopLost(r) \/ Abort(r)
             \/ EndPending(r) \/ Install(r) \/ RejectReply(r) \/ EndScope(r)
      PROVE  req' \in [Requests -> States] /\ sent' \in Nat
  <2>1. \E s \in States : req' = [req EXCEPT ![r] = s]
    <3>1. \A pc \in RequestPcs : [req[r] EXCEPT !.pc = pc] \in States
      BY DEF States
    <3>2. {"fence", "reply", "ambiguous", "ending", "run"} \subseteq RequestPcs
      BY DEF RequestPcs
    <3>. QED
      BY <1>0, <1>3, <3>1, <3>2
         DEF BeginDispatch, RPopAnswered, RPopRefused, RPopLost, Abort, EndPending, Install,
             RejectReply, EndScope
  <2>2. sent' = sent
    BY <1>3 DEF BeginDispatch, RPopAnswered, RPopRefused, RPopLost, Abort, EndPending, Install,
                RejectReply, EndScope
  <2>. QED
    BY <2>1, <2>2
<1>4. CASE UNCHANGED <<req, sent>>
  BY <1>4
<1>. QED
  BY <1>1, <1>2, <1>3, <1>4
     DEF Next, Request, Subscriber, CountDispatch, RejectInstalled, NewLifetime, GetConfig,
         SubscriptionACK, ProbeSucceeds, Fence, SettlePlanned, Detach, CloseClient, Decide,
         ReplaceRegistry, LeaveLoop, DrainAndFlush, EndSubscriber, Publish, ConnectFails,
         TakeoverUnavailable, LegacyProtocol, ProbeFails, FailReceive, EndReceiveFailure,
         Rebalance, SettlePlannedTimeout, Timeout, DrainTimeout, ReleaseSent, ReleaseAnswerLost,
         Shutdown, Expire

LEMMA HomeType ==
    ASSUME TypeOK, Next
    PROVE  home' \in Homes
<1>. USE DEF TypeOK, Homes
<1>0. NoMember \in Homes /\ FreshMember \in Homes
  BY DEF NoMember, FreshMember
<1>1. ASSUME NEW r \in Requests, CountDispatch(r) PROVE home' \in Homes
  <2>1. req[r].d \in Nat
    BY DEF States
  <2>. QED
    BY <1>1, <2>1 DEF CountDispatch
<1>2. CASE ReleaseSent \/ ReleaseAnswerLost
  <2>1. flusher.latest \in Nat
    BY DEF Flushers
  <2>. QED
    BY <1>2, <2>1 DEF ReleaseSent, ReleaseAnswerLost
<1>3. CASE home' \in {home, NoMember, FreshMember}
  BY <1>0, <1>3
<1>. QED
  BY <1>1, <1>2, <1>3
     DEF Next, Request, Subscriber, LoadBundle, BeginDispatch, CheckFence, RPopAnswered,
         RPopRefused, RPopLost, Abort, EndPending, Install, RejectReply, RejectInstalled, EndScope,
         NewLifetime, GetConfig, SubscriptionACK, ProbeSucceeds, Fence, SettlePlanned, Detach,
         CloseClient, Decide, ReplaceRegistry, LeaveLoop, DrainAndFlush, EndSubscriber, Publish,
         ConnectFails, TakeoverUnavailable, LegacyProtocol, ProbeFails, FailReceive,
         EndReceiveFailure, Rebalance, SettlePlannedTimeout, Timeout, DrainTimeout, Shutdown, Expire

LEMMA ReleasedFinite ==
    ASSUME TypeOK, NumberInv
    PROVE  /\ IsFiniteSet(released) /\ Cardinality(released) \in Nat
           /\ \A d : d \notin released => Cardinality(released \cup {d}) = Cardinality(released) + 1
<1>1. IsFiniteSet(1..sent)
  BY FS_Interval DEF TypeOK
<1>2. IsFiniteSet(released)
  BY <1>1, FS_Subset DEF NumberInv
<1>. QED
  BY <1>2, FS_CardinalityType, FS_AddElement

LEMMA ReleaseTypes ==
    ASSUME TypeOK, NumberInv, Next
    PROVE  released' \in SUBSET Nat /\ flusher' \in Flushers
<1>. USE DEF TypeOK
<1>1. ASSUME NEW r \in Requests, EndScope(r) PROVE released' \in SUBSET Nat /\ flusher' \in Flushers
  <2>1. req[r].d \in Nat
    BY DEF States
  <2>2. Cardinality(released) + 1 \in Nat
    BY ReleasedFinite
  <2>. QED
    BY <1>1, <2>1, <2>2 DEF EndScope, Flushers
<1>2. CASE ReplaceRegistry
  BY <1>2 DEF ReplaceRegistry, NewFlusher, Flushers
<1>3. CASE released' = released /\ flusher' \in {flusher, [flusher EXCEPT !.run = TRUE],
                      [flusher EXCEPT !.run = FALSE], [flusher EXCEPT !.acked = flusher.latest]}
  BY <1>3 DEF Flushers
<1>. QED
  BY <1>1, <1>2, <1>3
     DEF Next, Request, Subscriber, LoadBundle, BeginDispatch, CheckFence, CountDispatch,
         RPopAnswered, RPopRefused, RPopLost, Abort, EndPending, Install, RejectReply,
         RejectInstalled, NewLifetime, GetConfig, SubscriptionACK, ProbeSucceeds, Fence,
         SettlePlanned, Detach, CloseClient, Decide, LeaveLoop, DrainAndFlush, EndSubscriber,
         Publish, ConnectFails, TakeoverUnavailable, LegacyProtocol, ProbeFails, FailReceive,
         EndReceiveFailure, Rebalance, SettlePlannedTimeout, Timeout, DrainTimeout, ReleaseSent,
         ReleaseAnswerLost, Shutdown, Expire

LEMMA SubscriberTypes ==
    ASSUME TypeOK, Next
    PROVE  /\ sub' \in Subscribers /\ stopped' \in BOOLEAN /\ registry' \in Registries
           /\ bundle' = None \/ bundle' \in [n : Nat, g : Nat]
<1>. USE DEF TypeOK, Registries
<1>1. ASSUME NEW r \in Requests, RequestStep(r) PROVE UNCHANGED <<sub, stopped, registry, bundle>>
  BY <1>1 DEF RequestStep, Request, LoadBundle, BeginDispatch, CheckFence, CountDispatch,
              RPopAnswered, RPopRefused, RPopLost, Abort, EndPending, Install, RejectReply,
              RejectInstalled, EndScope
<1>2. CASE OutsideStep
  BY <1>2 DEF OutsideStep, ReleaseSent, ReleaseAnswerLost, Shutdown, Expire
<1>3. CASE LifetimeStep
  <2>1. sub' \in Subscribers
    <3>1. /\ \A pc \in SubscriberPcs : [sub EXCEPT !.pc = pc] \in Subscribers
          /\ \A err \in Errors : [sub EXCEPT !.pc = "ended", !.err = err] \in Subscribers
          /\ [sub EXCEPT !.pc = "get", !.published = FALSE] \in Subscribers
          /\ [sub EXCEPT !.published = TRUE] \in Subscribers
          /\ [sub EXCEPT !.pc = "detach", !.err = "unsettled"] \in Subscribers
      BY DEF Subscribers, SubscriberPcs, Errors
    <3>2. /\ {"subscribe", "acked", "up", "broken", "settle", "detach", "close", "pending",
              "unsafe", "fail", "drain", "done", "new"} \subseteq SubscriberPcs
          /\ {"failed", "unavailable", "legacy", "rebalance"} \subseteq Errors
      BY DEF SubscriberPcs, Errors
    <3>3. CASE \E pc \in SubscriberPcs : Goto(pc)
      BY <3>1, <3>3 DEF Goto
    <3>4. CASE Fails \/ EndReceiveFailure \/ Rebalance
      <4>1. \E err \in Errors : Ends(err)
        BY <3>2, <3>4 DEF Fails, ConnectFails, TakeoverUnavailable, LegacyProtocol, ProbeFails,
                          EndReceiveFailure, Rebalance
      <4>. QED
        BY <3>1, <4>1 DEF Ends
    <3>5. CASE NewLifetime \/ Publish \/ SettlePlannedTimeout
      BY <3>1, <3>5 DEF NewLifetime, Publish, SettlePlannedTimeout
    <3>6. CASE Fence \/ Detach \/ CloseClient \/ Decide
      BY <3>2, <3>3, <3>6 DEF Fence, Detach, CloseClient, Decide
    <3>7. CASE GetConfig \/ SubscriptionACK \/ ProbeSucceeds \/ SettlePlanned \/ ReplaceRegistry
               \/ LeaveLoop \/ DrainAndFlush \/ FailReceive \/ Timeout \/ DrainTimeout
      BY <3>2, <3>3, <3>7 DEF GetConfig, SubscriptionACK, ProbeSucceeds, SettlePlanned,
         ReplaceRegistry, LeaveLoop, DrainAndFlush, EndSubscriber, FailReceive, Timeout, DrainTimeout
    <3>. QED
      BY <1>3, <3>4, <3>5, <3>6, <3>7 DEF LifetimeStep, Subscriber
  <2>2. stopped' \in BOOLEAN /\ registry' \in Registries
    <3>1. CASE Timeout \/ LeaveLoop \/ DrainAndFlush \/ DrainTimeout \/ Detach
      BY <3>1 DEF Timeout, LeaveLoop, DrainAndFlush, DrainTimeout, EndSubscriber, Detach
    <3>2. CASE Decide
      BY <3>2 DEF Decide
    <3>4. CASE ReplaceRegistry
      BY <3>4 DEF ReplaceRegistry, NewRegistry
    <3>3. CASE UNCHANGED <<stopped, registry>>
      BY <3>3
    <3>. QED
      BY <1>3, <3>1, <3>2, <3>3, <3>4
         DEF LifetimeStep, Fails, Subscriber, NewLifetime, GetConfig, SubscriptionACK,
             ProbeSucceeds, Fence, SettlePlanned, CloseClient, Publish, ConnectFails,
             TakeoverUnavailable, LegacyProtocol, ProbeFails, FailReceive, EndReceiveFailure,
             Rebalance, SettlePlannedTimeout
  <2>3. CASE Publish
    BY <2>2, <2>1, <2>3 DEF Publish, Clients
  <2>4. CASE Detach
    BY <2>2, <2>1, <2>4 DEF Detach
  <2>5. CASE UNCHANGED bundle
    BY <2>1, <2>2, <2>5
  <2>. QED
    BY <1>3, <2>3, <2>4, <2>5
       DEF LifetimeStep, Fails, Subscriber, NewLifetime, GetConfig, SubscriptionACK,
         ProbeSucceeds, Fence, SettlePlanned, CloseClient, Decide, ReplaceRegistry,
         LeaveLoop, DrainAndFlush, EndSubscriber, ConnectFails, TakeoverUnavailable,
         LegacyProtocol, ProbeFails, FailReceive, EndReceiveFailure, Rebalance,
         SettlePlannedTimeout, Timeout, DrainTimeout
<1>. QED
  BY <1>1, <1>2, <1>3, StepKinds

LEMMA TypeStep ==
    TypeOK /\ NumberInv /\ [Next]_vars => TypeOK'
<1>. SUFFICES ASSUME TypeOK, NumberInv, [Next]_vars PROVE TypeOK'
  OBVIOUS
<1>1. CASE Next
  BY <1>1, ClientType, RequestType, HomeType, ReleaseTypes, SubscriberTypes DEF TypeOK
<1>2. CASE UNCHANGED vars
  BY <1>2 DEF TypeOK, vars
<1>. QED
  BY <1>1, <1>2

-----------------------------------------------------------------------------
(***************************************************************************)
(* What each kind of step leaves alone                                     *)
(***************************************************************************)

\* A request touches its own state, and the client only to abort it.
LEMMA RequestFrame ==
    ASSUME TypeOK, NEW r \in Requests, RequestStep(r)
    PROVE  /\ UNCHANGED <<sub, stopped, bundle, registry>>
           /\ \A q \in Requests : q # r => req'[q] = req[q]
           /\ client'.n = client.n /\ client'.rec = client.rec /\ client'.legacy = client.legacy
           /\ client'.ready = client.ready
           /\ client.fenced => client'.fenced
           /\ client.ambiguous => client'.ambiguous
           /\ TakesOver' <=> TakesOver
<1>1. /\ UNCHANGED <<sub, stopped, bundle, registry>>
      /\ \A q \in Requests : q # r => req'[q] = req[q]
  BY DEF RequestStep, Request, LoadBundle, BeginDispatch, CheckFence, CountDispatch,
         RPopAnswered, RPopRefused, RPopLost, Abort, EndPending, Install, RejectReply,
         RejectInstalled, EndScope, TypeOK
<1>2. client' \in {client, [Shut(client) EXCEPT !.ambiguous = TRUE]}
  BY DEF RequestStep, Request, LoadBundle, BeginDispatch, CheckFence, CountDispatch,
         RPopAnswered, RPopRefused, RPopLost, Abort, EndPending, Install, RejectReply,
         RejectInstalled, EndScope, AbortAmbiguousDispatch
<1>3. /\ client'.n = client.n /\ client'.rec = client.rec /\ client'.legacy = client.legacy
      /\ client'.ready = client.ready
      /\ client.fenced => client'.fenced
      /\ client.ambiguous => client'.ambiguous
  BY <1>2 DEF TypeOK, Clients, Shut
<1>. QED
  BY <1>1, <1>3 DEF TakesOver

\* A lifetime leaves the requests alone; only the registry's replacement
\* starts the releases again.
LEMMA LifetimeFrame ==
    ASSUME TypeOK, LifetimeStep
    PROVE  /\ UNCHANGED <<req, sent>>
           /\ ~ ReplaceRegistry => UNCHANGED released /\ registry'.g = registry.g
           /\ ~ NewLifetime => client'.n = client.n
                               /\ (client.fenced => client'.fenced)
                               /\ client'.ambiguous = client.ambiguous
<1>1. UNCHANGED <<req, sent>>
  BY DEF LifetimeStep, Fails, Subscriber, NewLifetime, GetConfig, SubscriptionACK,
         ProbeSucceeds, Fence, SettlePlanned, Detach, CloseClient, Decide, ReplaceRegistry,
         LeaveLoop, DrainAndFlush, EndSubscriber, Publish, ConnectFails, TakeoverUnavailable,
         LegacyProtocol, ProbeFails, FailReceive, EndReceiveFailure, Rebalance,
         SettlePlannedTimeout, Timeout, DrainTimeout
<1>2. ASSUME ~ ReplaceRegistry PROVE UNCHANGED released /\ registry'.g = registry.g
  BY <1>2 DEF LifetimeStep, Fails, Subscriber, NewLifetime, GetConfig, SubscriptionACK,
         ProbeSucceeds, Fence, SettlePlanned, Detach, CloseClient, Decide,
         LeaveLoop, DrainAndFlush, EndSubscriber, Publish, ConnectFails, TakeoverUnavailable,
         LegacyProtocol, ProbeFails, FailReceive, EndReceiveFailure, Rebalance,
         SettlePlannedTimeout, Timeout, DrainTimeout, TypeOK, Registries
<1>3. ASSUME ~ NewLifetime
      PROVE  /\ client'.n = client.n
             /\ (client.fenced => client'.fenced)
             /\ client'.ambiguous = client.ambiguous
  <2>1. CASE Fails
    BY <2>1, FailedClient DEF Fails, ConnectFails, TakeoverUnavailable, LegacyProtocol,
         ProbeFails, TypeOK
  <2>2. CASE EndReceiveFailure
    <3>. DEFINE c == [client EXCEPT !.hb = FALSE]
                e == [client EXCEPT !.hb = FALSE, !.rec = markMembershipTakeoverEligible(@)]
    <3>1. /\ c.n = client.n /\ c.fenced = client.fenced /\ c.ambiguous = client.ambiguous
          /\ e.n = client.n /\ e.fenced = client.fenced /\ e.ambiguous = client.ambiguous
          /\ e \in Clients
      <4>1. client \in Clients /\ client.rec \in Recoveries
        BY DEF TypeOK, Clients
      <4>. QED
        BY <4>1, EligibleClient DEF Clients
    <3>2. client' = c \/ client' \in AfterFailure(e)
      BY <2>2 DEF EndReceiveFailure
    <3>. HIDE DEF c, e
    <3>. QED
      BY <3>1, <3>2, FailedClient
  <2>3. CASE UNCHANGED client
    BY <2>3
  <2>. QED
    BY <1>3, <2>1, <2>2, <2>3
       DEF LifetimeStep, Fails, Subscriber, GetConfig, SubscriptionACK,
         ProbeSucceeds, Fence, SettlePlanned, Detach, CloseClient, Decide, ReplaceRegistry,
         LeaveLoop, DrainAndFlush, EndSubscriber, Publish, FailReceive, Rebalance,
         SettlePlannedTimeout, Timeout, DrainTimeout, TypeOK, Clients, Shut
<1>. QED
  BY <1>1, <1>2, <1>3

LEMMA OutsideFrame ==
    ASSUME OutsideStep
    PROVE  UNCHANGED <<client, sub, bundle, registry, released, req, sent>>
BY DEF OutsideStep, ReleaseSent, ReleaseAnswerLost, Shutdown, Expire

-----------------------------------------------------------------------------
(***************************************************************************)
(* The dispatches and their numbers                                        *)
(***************************************************************************)
Quiet(r) == req[r].pc \in {"idle", "begin"}

\* Once the registry is drained, no request is between BeginDispatch and the
\* end of its scope.
LEMMA DrainedIsQuiet ==
    ASSUME TypeOK, DispatchInv, Drained
    PROVE  \A r \in Requests : Quiet(r)
<1>1. SUFFICES ASSUME NEW r \in Requests, ~ Quiet(r) PROVE FALSE
  OBVIOUS
<1>2. req[r].pc \in RequestPcs \ {"idle", "begin"}
  BY <1>1 DEF Quiet, TypeOK, States
<1>3. req[r].g = registry.g
  BY <1>2 DEF DispatchInv, Dispatch, Live, Outstanding, RequestPcs
<1>. QED
  BY <1>2, <1>3 DEF Drained, Settled, Pending, Executing, RequestPcs

LEMMA SettledIsSettled ==
    ASSUME DispatchInv, Settled
    PROVE  NoneOutstanding
BY DEF DispatchInv, Dispatch, Live, Settled, Pending, NoneOutstanding, Outstanding

\* How the state of the request that takes the step changes.
Is(s, pc, n, g, d) == s.pc = pc /\ s.n = n /\ s.g = g /\ s.d = d

LEMMA RequestMoves ==
    ASSUME TypeOK, NEW r \in Requests, RequestStep(r)
    PROVE  \/ Is(req'[r], "idle", 0, 0, 0) /\ UNCHANGED sent
           \/ /\ Is(req'[r], "begin", client.n, bundle.g, 0) /\ UNCHANGED sent
              /\ req[r].pc = "idle" /\ bundle # None /\ bundle.n = client.n
           \/ /\ Is(req'[r], "fence", req[r].n, req[r].g, req[r].d) /\ UNCHANGED sent
              /\ req[r].pc = "begin" /\ req[r].g = registry.g
           \/ /\ Is(req'[r], "rpop", req[r].n, req[r].g, sent + 1) /\ sent' = sent + 1
              /\ req[r].pc = "fence" /\ req[r].n = client.n /\ ~ client.fenced
           \/ /\ Is(req'[r], "reply", req[r].n, req[r].g, req[r].d) /\ UNCHANGED <<sent, home>>
              /\ req[r].pc = "rpop" /\ req[r].d \in home.issued
           \/ /\ Is(req'[r], "ambiguous", req[r].n, req[r].g, req[r].d) /\ UNCHANGED sent
              /\ req[r].pc \in {"rpop", "reply"}
           \/ /\ Is(req'[r], "ending", req[r].n, req[r].g, req[r].d) /\ UNCHANGED sent
              /\ req[r].pc = "ambiguous" /\ (req[r].n = client.n => client'.ambiguous)
           \/ /\ Is(req'[r], "run", req[r].n, req[r].g, req[r].d) /\ UNCHANGED <<sent, home>>
              /\ req[r].pc = "reply"
           \/ req'[r] = req[r] /\ UNCHANGED sent
<1>. USE DEF TypeOK, States, Is, Idle
<1>1. CASE LoadBundle(r)
  BY <1>1 DEF LoadBundle
<1>2. CASE BeginDispatch(r)
  BY <1>2 DEF BeginDispatch
<1>3. CASE CheckFence(r)
  BY <1>3 DEF CheckFence
<1>4. CASE CountDispatch(r) \/ RejectInstalled(r)
  BY <1>4 DEF CountDispatch, RejectInstalled
<1>5. CASE RPopAnswered(r)
  BY <1>5 DEF RPopAnswered
<1>6. CASE RPopLost(r) \/ RejectReply(r)
  BY <1>6 DEF RPopLost, RejectReply
<1>7. CASE Abort(r)
  <2>1. req[r].n = client.n => client'.ambiguous
    BY <1>7 DEF Abort, AbortAmbiguousDispatch, Clients, Shut
  <2>. QED
    BY <1>7, <2>1 DEF Abort
<1>8. CASE Install(r)
  BY <1>8 DEF Install
<1>9. CASE EndPending(r) \/ EndScope(r) \/ RPopRefused(r)
  BY <1>9 DEF EndPending, EndScope, RPopRefused
<1>. QED
  BY <1>1, <1>2, <1>3, <1>4, <1>5, <1>6, <1>7, <1>8, <1>9 DEF RequestStep, Request

LEMMA ReleasedChanges ==
    ASSUME TypeOK, NEW r \in Requests, RequestStep(r)
    PROVE  \/ UNCHANGED released
           \/ released' = released \cup {req[r].d} /\ Live(r) /\ ~ Live(r)'
BY DEF RequestStep, Request, LoadBundle, BeginDispatch, CheckFence, CountDispatch, RPopAnswered,
       RPopRefused, RPopLost, Abort, EndPending, Install, RejectReply, RejectInstalled, EndScope,
       TypeOK, Live, Outstanding, Idle

\* A request keeps its number until it is idle; a new number is larger.
LEMMA NumberMoves ==
    ASSUME TypeOK, DispatchInv, NEW r \in Requests, RequestStep(r)
    PROVE  \/ ~ Live(r)' /\ req'[r].d = 0 /\ sent' = sent
           \/ Live(r)' /\ Live(r) /\ req'[r].d = req[r].d /\ sent' = sent
           \/ Live(r)' /\ ~ Live(r) /\ req'[r].d = sent + 1 /\ sent' = sent + 1
<1>1. req[r] \in States /\ Dispatch(r)
  BY DEF TypeOK, DispatchInv
<1>. QED
  BY <1>1, RequestMoves DEF Dispatch, Live, Outstanding, Is

LEMMA DispatchStep ==
    ASSUME TypeOK, DispatchInv, NumberInv, SealInv, [Next]_vars
    PROVE  DispatchInv'
<1>1. ASSUME NEW r \in Requests, RequestStep(r) PROVE DispatchInv'
  <2>0. /\ client'.n = client.n /\ registry' = registry
        /\ client.ambiguous => client'.ambiguous
        /\ \A q \in Requests : q # r => req'[q] = req[q]
        /\ sent' \in {sent, sent + 1} /\ sent \in Nat
    BY <1>1, RequestFrame, NumberMoves DEF TypeOK
  <2>1. ASSUME NEW q \in Requests, q # r PROVE Dispatch(q)'
    <3>1. Dispatch(q) /\ req'[q] = req[q] /\ req[q] \in States
      BY <2>0, <2>1 DEF DispatchInv, TypeOK
    <3>2. Live(q) => req[q].d \in (1..sent') \ released'
      <4>1. Live(q) => req[q].d \in (1..sent) \ released
        BY <3>1 DEF Dispatch
      <4>2. Live(q) /\ Live(r) => req[q].d # req[r].d
        BY <2>1 DEF DispatchInv
      <4>. QED
        BY <1>1, <2>0, <4>1, <4>2, ReleasedChanges
    <3>. QED
      BY <2>0, <3>1, <3>2 DEF Dispatch, Live, Outstanding
  <2>2. Dispatch(r)'
    <3>1. Dispatch(r) /\ req[r] \in States
      BY DEF DispatchInv, TypeOK
    <3>2. req'[r].n <= client'.n
      <4>1. bundle # None => bundle.n <= client.n
        BY DEF NumberInv
      <4>2. client.n \in Nat /\ 0 <= client.n
        BY DEF TypeOK, Clients
      <4>. QED
        BY <1>1, <2>0, <3>1, <4>1, <4>2, RequestMoves DEF Dispatch, Is
    <3>3. IF Live(r)' THEN req'[r].d \in (1..sent') \ released' ELSE req'[r].d = 0
      <4>1. CASE ~ Live(r)'
        BY <1>1, <4>1, NumberMoves
      <4>2. CASE Live(r)' /\ Live(r) /\ req'[r].d = req[r].d /\ sent' = sent
        BY <1>1, <3>1, <4>2, ReleasedChanges DEF Dispatch
      <4>3. CASE Live(r)' /\ req'[r].d = sent + 1 /\ sent' = sent + 1
        <5>2. released' = released
          BY <1>1, <4>3, ReleasedChanges
        <5>3. sent + 1 \in 1..(sent + 1) /\ sent + 1 \notin 1..sent
          BY <2>0
        <5>. QED
          BY <4>3, <5>2, <5>3 DEF NumberInv
      <4>. QED
        BY <1>1, <4>1, <4>2, <4>3, NumberMoves
    <3>4. /\ Live(r)' \/ req'[r].pc = "fence" => req'[r].g = registry'.g
          /\ Outstanding(r)' => req'[r].n = client'.n
          /\ req'[r].pc = "ending" => client'.ambiguous
      BY <1>1, <2>0, <3>1, RequestMoves DEF Dispatch, Live, Outstanding, Is
    <3>. QED
      BY <3>2, <3>3, <3>4 DEF Dispatch
  <2>3. ASSUME NEW p \in Requests, NEW q \in Requests, Live(p)', req'[p].d = req'[q].d PROVE p = q
    <3>1. \A s \in Requests : req[s].d \in 0..sent
      BY <2>0 DEF DispatchInv, Dispatch
    <3>2. \A s \in Requests : s # r => (Live(s)' <=> Live(s)) /\ req'[s].d = req[s].d
      BY <2>0 DEF Live, Outstanding
    <3>3. Dispatch(p)' /\ Dispatch(q)'
      BY <2>1, <2>2
    <3>4. Live(q)'
      BY <2>3, <3>3 DEF Dispatch
    <3>5. \A m \in 0..sent : m # sent + 1
      BY <2>0
    <3>. QED
      BY <1>1, <2>3, <3>1, <3>2, <3>4, <3>5, NumberMoves DEF DispatchInv
  <2>. QED
    BY <2>1, <2>2, <2>3 DEF DispatchInv
<1>2. CASE NewLifetime
  <2>1. NoneOutstanding /\ UNCHANGED <<req, sent, released, registry>> /\ client'.n = client.n + 1
    BY <1>2 DEF NewLifetime, SealInv, NewClient
  <2>2. client.n \in Nat /\ \A r \in Requests : req[r].n \in Nat
    BY DEF TypeOK, Clients, States
  <2>3. \A r \in Requests : req[r].pc # "ending"
    BY <2>1 DEF NoneOutstanding, Outstanding
  <2>. QED
    BY <2>1, <2>2, <2>3 DEF DispatchInv, Dispatch, NoneOutstanding, Outstanding, Live
<1>3. CASE ReplaceRegistry
  <2>1. UNCHANGED <<req, sent>> /\ Drained /\ client'.n = client.n
    BY <1>3 DEF ReplaceRegistry, TypeOK, Clients
  <2>2. \A r \in Requests : ~ Live(r) /\ ~ Outstanding(r) /\ req[r].pc \notin {"fence", "ending"}
    BY <2>1, DrainedIsQuiet DEF Quiet, Live, Outstanding
  <2>. QED
    BY <2>1, <2>2 DEF DispatchInv, Dispatch, Live, Outstanding
<1>4. CASE LifetimeStep /\ ~ NewLifetime /\ ~ ReplaceRegistry
  BY <1>4, LifetimeFrame DEF DispatchInv, Dispatch, Live, Outstanding
<1>5. CASE OutsideStep
  BY <1>5, OutsideFrame DEF DispatchInv, Dispatch, Live, Outstanding
<1>6. CASE UNCHANGED vars
  BY <1>6 DEF vars, DispatchInv, Dispatch, Live, Outstanding
<1>. QED
  BY <1>1, <1>2, <1>3, <1>4, <1>5, <1>6, StepKinds

LEMMA IssuedChanges ==
    ASSUME TypeOK, NEW r \in Requests, RequestStep(r)
    PROVE  /\ home'.member = home.member /\ home'.rel = home.rel
           /\ \/ home'.issued = home.issued
              \/ /\ home'.issued = home.issued \cup {req[r].d} /\ Live(r) /\ req'[r] = req[r]
                 /\ UNCHANGED <<released, client>>
BY DEF RequestStep, Request, LoadBundle, BeginDispatch, CheckFence, CountDispatch, RPopAnswered,
       RPopRefused, RPopLost, Abort, EndPending, Install, RejectReply, RejectInstalled, EndScope,
       TypeOK, Homes, Live, Outstanding

LEMMA MembershipChanges ==
    ASSUME TypeOK, LifetimeStep \/ OutsideStep
    PROVE  \/ home'.issued = home.issued /\ home'.member = home.member
              /\ home'.rel \in {home.rel, flusher.latest}
           \/ home' = NoMember /\ (TakeoverUnavailable \/ Expire)
           \/ home' = FreshMember /\ (SubscriptionACK \/ ConnectFails) /\ ~ TakesOver
BY DEF LifetimeStep, OutsideStep, Fails, Subscriber, NewLifetime, GetConfig, SubscriptionACK,
       ProbeSucceeds, Fence, SettlePlanned, Detach, CloseClient, Decide, ReplaceRegistry,
       LeaveLoop, DrainAndFlush, EndSubscriber, Publish, ConnectFails, TakeoverUnavailable,
       LegacyProtocol, ProbeFails, FailReceive, EndReceiveFailure, Rebalance,
       SettlePlannedTimeout, Timeout, DrainTimeout, ReleaseSent, ReleaseAnswerLost, Shutdown, Expire,
       TypeOK, Homes

LEMMA NumberStep ==
    ASSUME TypeOK, TypeOK', DispatchInv, NumberInv, [Next]_vars
    PROVE  NumberInv'
<1>0. sent \in Nat /\ client.n \in Nat /\ (bundle # None => bundle.n \in Nat)
  BY DEF TypeOK, Clients
<1>1. ASSUME NEW r \in Requests, RequestStep(r) PROVE NumberInv'
  <2>1. bundle' = bundle /\ client'.n = client.n
    BY <1>1, RequestFrame
  <2>2. 1..sent \subseteq 1..sent'
    BY <1>0, <1>1, NumberMoves
  <2>3. Live(r) => req[r].d \in 1..sent
    BY DEF DispatchInv, Dispatch
  <2>4. home'.issued \subseteq 1..sent'
    BY <1>1, <2>2, <2>3, IssuedChanges DEF NumberInv
  <2>5. released' \subseteq 1..sent'
    BY <1>1, <2>2, <2>3, ReleasedChanges DEF NumberInv
  <2>. QED
    BY <2>1, <2>4, <2>5 DEF NumberInv
<1>2. CASE LifetimeStep \/ OutsideStep
  <2>1. sent' = sent
    BY <1>2, LifetimeFrame, OutsideFrame
  <2>2. home'.issued \subseteq 1..sent
    BY <1>2, MembershipChanges DEF NumberInv, NoMember, FreshMember
  <2>3. released' \in {released, {}}
    BY <1>2, LifetimeFrame, OutsideFrame DEF ReplaceRegistry
  <2>4. client.n <= client'.n
    <3>1. NewLifetime => client'.n = client.n + 1
      BY DEF NewLifetime, NewClient
    <3>. QED
      BY <1>0, <1>2, <3>1, LifetimeFrame, OutsideFrame
  <2>5. bundle' \in {bundle, None} \/ bundle'.n = client.n
    BY <1>2 DEF LifetimeStep, OutsideStep, Fails, Subscriber, NewLifetime, GetConfig,
       SubscriptionACK, ProbeSucceeds, Fence, SettlePlanned, Detach, CloseClient, Decide,
       ReplaceRegistry, LeaveLoop, DrainAndFlush, EndSubscriber, Publish, ConnectFails,
       TakeoverUnavailable, LegacyProtocol, ProbeFails, FailReceive, EndReceiveFailure, Rebalance,
       SettlePlannedTimeout, Timeout, DrainTimeout, ReleaseSent, ReleaseAnswerLost, Shutdown, Expire
  <2>6. client'.n \in Nat
    BY DEF TypeOK, Clients
  <2>7. bundle' # None => bundle'.n <= client'.n
    BY <1>0, <2>4, <2>5, <2>6 DEF NumberInv
  <2>. QED
    BY <2>1, <2>2, <2>3, <2>7 DEF NumberInv
<1>3. CASE UNCHANGED vars
  BY <1>3 DEF vars, NumberInv
<1>. QED
  BY <1>1, <1>2, <1>3, StepKinds

LEMMA FlusherStep ==
    ASSUME TypeOK, DispatchInv, NumberInv, FlusherInv, [Next]_vars
    PROVE  FlusherInv'
<1>0. /\ Cardinality(released) \in Nat /\ flusher.latest \in Nat
      /\ \A d : d \notin released => Cardinality(released \cup {d}) = Cardinality(released) + 1
  BY ReleasedFinite DEF TypeOK, Flushers
<1>1. ASSUME NEW r \in Requests, EndScope(r) PROVE FlusherInv'
  <2>1. req[r].d \notin released
    BY <1>1 DEF EndScope, DispatchInv, Dispatch, Live
  <2>2. Cardinality(released') = Cardinality(released) + 1 /\ registry' = registry
    BY <1>0, <1>1, <2>1 DEF EndScope
  <2>3. flusher'.latest = IF registry.sink THEN Cardinality(released) + 1 ELSE flusher.latest
    BY <1>1 DEF EndScope, TypeOK, Flushers
  <2>. QED
    BY <1>0, <2>2, <2>3 DEF FlusherInv
<1>2. CASE ReplaceRegistry
  <2>1. flusher'.latest = 0 /\ Cardinality(released') = 0
    BY <1>2, FS_EmptySet DEF ReplaceRegistry, NewFlusher
  <2>. QED
    BY <2>1 DEF FlusherInv
<1>3. ASSUME flusher'.latest = flusher.latest, released' = released, registry'.sink => registry.sink
      PROVE  FlusherInv'
  BY <1>3 DEF FlusherInv
<1>4. ASSUME NEW r \in Requests, RequestStep(r), ~ EndScope(r) PROVE FlusherInv'
  BY <1>3, <1>4 DEF RequestStep, Request, LoadBundle, BeginDispatch, CheckFence, CountDispatch,
     RPopAnswered, RPopRefused, RPopLost, Abort, EndPending, Install, RejectReply, RejectInstalled
<1>5. CASE LifetimeStep /\ ~ ReplaceRegistry
  <2>1. released' = released
    BY <1>5, LifetimeFrame
  <2>2. registry'.sink => registry.sink
    <3>1. registry' = registry \/ registry' \in {[registry EXCEPT !.accepting = @ /\ ~stopped],
             [registry EXCEPT !.accepting = FALSE, !.sink = FALSE], [registry EXCEPT !.sink = FALSE]}
      BY <1>5 DEF LifetimeStep, Fails, Subscriber, NewLifetime, GetConfig, SubscriptionACK,
         ProbeSucceeds, Fence, SettlePlanned, Detach, CloseClient, Decide, LeaveLoop,
         DrainAndFlush, EndSubscriber, Publish, ConnectFails, TakeoverUnavailable,
         LegacyProtocol, ProbeFails, FailReceive, EndReceiveFailure, Rebalance,
         SettlePlannedTimeout, Timeout, DrainTimeout
    <3>. QED
      BY <3>1 DEF TypeOK, Registries
  <2>3. flusher'.latest = flusher.latest
    <3>1. flusher' \in {flusher, [flusher EXCEPT !.run = TRUE], [flusher EXCEPT !.run = FALSE]}
      BY <1>5 DEF LifetimeStep, Fails, Subscriber, NewLifetime, GetConfig, SubscriptionACK,
         ProbeSucceeds, Fence, SettlePlanned, Detach, CloseClient, Decide, LeaveLoop,
         DrainAndFlush, EndSubscriber, Publish, ConnectFails, TakeoverUnavailable,
         LegacyProtocol, ProbeFails, FailReceive, EndReceiveFailure, Rebalance,
         SettlePlannedTimeout, Timeout, DrainTimeout
    <3>. QED
      BY <3>1 DEF TypeOK, Flushers
  <2>. QED
    BY <1>3, <2>1, <2>2, <2>3
<1>6. CASE OutsideStep
  <2>1. flusher'.latest = flusher.latest
    BY <1>6 DEF OutsideStep, ReleaseSent, ReleaseAnswerLost, Shutdown, Expire, TypeOK, Flushers
  <2>. QED
    BY <1>3, <1>6, <2>1, OutsideFrame
<1>7. CASE UNCHANGED vars
  BY <1>3, <1>7 DEF vars
<1>. QED
  BY <1>1, <1>2, <1>4, <1>5, <1>6, <1>7, StepKinds

-----------------------------------------------------------------------------
(***************************************************************************)
(* The stages of a lifetime                                                *)
(***************************************************************************)

\* Only a request at the fence of an open client sends a new dispatch.
LEMMA NewlyLive ==
    ASSUME TypeOK, NEW r \in Requests, RequestStep(r)
    PROVE  /\ \A q \in Requests : Outstanding(q)' => Outstanding(q) \/ (q = r /\ req[r].pc = "fence")
           /\ \A q \in Requests : Live(q)' => Live(q) \/ (q = r /\ req[r].pc = "fence")
           /\ Live(r)' /\ ~ Live(r) =>
                 req[r].pc = "fence" /\ req[r].n = client.n /\ ~ client.fenced
           /\ bundle = None /\ req[r].pc = "idle" => req'[r].pc = "idle"
           /\ bundle = None /\ req'[r].pc # "idle" => req'[r].n = req[r].n
BY RequestMoves, RequestFrame DEF Live, Outstanding, Is

LEMMA SealStep ==
    ASSUME TypeOK, DispatchInv, SealInv, [Next]_vars
    PROVE  SealInv'
<1>. USE DEF SealInv
<1>1. ASSUME NEW r \in Requests, RequestStep(r) PROVE SealInv'
  <2>1. /\ sub' = sub /\ bundle' = bundle /\ (client.fenced => client'.fenced)
        /\ \A q \in Requests : q # r => req'[q] = req[q]
    BY <1>1, RequestFrame
  <2>2. ASSUME Sealed, NoneOutstanding PROVE NoneOutstanding'
    BY <1>1, <2>1, <2>2, NewlyLive DEF Sealed, NoneOutstanding, Live, Outstanding
  <2>3. ASSUME Sealed, bundle = None PROVE Sealed'
    BY <1>1, <2>1, <2>3, NewlyLive DEF Sealed
  <2>4. client.fenced => Sealed
    BY DEF Sealed
  <2>. QED
    BY <2>1, <2>2, <2>3, <2>4
<1>2. ASSUME LifetimeStep, ~ NewLifetime
      PROVE  /\ NoneOutstanding' <=> NoneOutstanding
             /\ client.fenced => client'.fenced
             /\ Sealed => Sealed'
  BY <1>2, LifetimeFrame DEF NoneOutstanding, Outstanding, Sealed
<1>3. CASE NewLifetime
  BY <1>3 DEF NewLifetime, TypeOK, Subscribers
<1>4. CASE GetConfig
  BY <1>4 DEF GetConfig, Goto, TypeOK, Subscribers
<1>5. CASE SubscriptionACK
  BY <1>5 DEF SubscriptionACK, Goto, TypeOK, Subscribers
<1>6. CASE ProbeSucceeds
  BY <1>6 DEF ProbeSucceeds, Goto, TypeOK, Subscribers
<1>7. CASE Fails \/ EndReceiveFailure \/ Rebalance
  <2>1. sub'.pc = "ended"
    BY <1>7 DEF Fails, ConnectFails, TakeoverUnavailable, LegacyProtocol, ProbeFails,
                EndReceiveFailure, Rebalance, Ends, TypeOK, Subscribers
  <2>. QED
    BY <2>1
<1>8. CASE FailReceive
  BY <1>8 DEF FailReceive, Goto, TypeOK, Subscribers
<1>9. CASE Publish
  <2>1. client' = client /\ sub'.pc = sub.pc /\ sub.pc \in {"up", "broken", "ended", "settle"}
    BY <1>9 DEF Publish, TypeOK, Subscribers
  <2>. QED
    BY <2>1
<1>10. CASE Fence
  <2>1. CASE sub.err = "rebalance"
    BY <1>10, <2>1 DEF Fence, Goto, TypeOK, Subscribers, Clients
  <2>2. CASE sub.err # "rebalance"
    BY <1>10, <2>2 DEF Fence, Goto, TypeOK, Subscribers
  <2>. QED
    BY <2>1, <2>2
<1>11. CASE SettlePlanned
  <2>1. sub.pc = "settle" /\ sub'.pc = "detach" /\ client' = client /\ NoneOutstanding
    BY <1>11, SettledIsSettled DEF SettlePlanned, Goto, TypeOK, Subscribers
  <2>2. NoneOutstanding'
    BY <1>2, <1>11, <2>1 DEF LifetimeStep, Subscriber, NewLifetime
  <2>. QED
    BY <2>1, <2>2
<1>12. CASE SettlePlannedTimeout
  BY <1>12 DEF SettlePlannedTimeout, TypeOK, Subscribers
<1>13. CASE Detach
  <2>1. /\ sub.pc = "detach" /\ sub'.pc \in {"drain", "close"} /\ sub'.err = sub.err
        /\ bundle' = None /\ UNCHANGED <<client, req>>
    BY <1>13 DEF Detach, Goto, TypeOK, Subscribers
  <2>. QED
    BY <2>1 DEF NoneOutstanding, Outstanding
<1>14. CASE CloseClient
  <2>1. /\ sub.pc = "close" /\ sub'.pc \in {"fail", "pending"} /\ sub'.err = sub.err
        /\ UNCHANGED <<bundle, req>> /\ client'.fenced
    BY <1>14 DEF CloseClient, Goto, TypeOK, Subscribers, Shut, Clients
  <2>. QED
    BY <2>1 DEF NoneOutstanding, Outstanding, Sealed
<1>15. CASE Decide
  <2>1. /\ sub.pc = "pending" /\ sub'.pc \in {"unsafe", "new"} /\ sub'.err = sub.err
        /\ UNCHANGED <<bundle, req>> /\ (Settled \/ sub.err = "rebalance")
    BY <1>15 DEF Decide, Goto, TypeOK, Subscribers
  <2>2. NoneOutstanding
    BY <2>1, SettledIsSettled
  <2>3. NoneOutstanding' /\ Sealed'
    BY <1>2, <1>15, <2>1, <2>2 DEF LifetimeStep, Subscriber, Decide, NewLifetime
  <2>. QED
    BY <2>1, <2>3
<1>16. CASE ReplaceRegistry
  <2>1. /\ sub.pc = "unsafe" /\ sub'.pc = "new" /\ UNCHANGED bundle
    BY <1>16 DEF ReplaceRegistry, Goto, TypeOK, Subscribers
  <2>2. NoneOutstanding' /\ Sealed'
    BY <1>2, <1>16, <2>1 DEF LifetimeStep, Subscriber, NewLifetime
  <2>. QED
    BY <2>1, <2>2
<1>17. CASE Timeout \/ LeaveLoop \/ DrainAndFlush \/ DrainTimeout
  <2>1. sub'.pc = "done"
    BY <1>17 DEF Timeout, LeaveLoop, DrainAndFlush, DrainTimeout, EndSubscriber, Goto, TypeOK,
                 Subscribers
  <2>. QED
    BY <2>1
<1>18. CASE OutsideStep
  BY <1>18, OutsideFrame DEF Sealed, NoneOutstanding, Outstanding
<1>19. CASE UNCHANGED vars
  BY <1>19 DEF vars, Sealed, NoneOutstanding, Outstanding
<1>. QED
  BY <1>1, <1>3, <1>4, <1>5, <1>6, <1>7, <1>8, <1>9, <1>10, <1>11, <1>12, <1>13, <1>14, <1>15,
     <1>16, <1>17, <1>18, <1>19, StepKinds DEF LifetimeStep, Subscriber

LEMMA LifetimeInvStep ==
    ASSUME TypeOK, DispatchInv, LifetimeInv, SealInv, [Next]_vars
    PROVE  LifetimeInv'
<1>0. client.n \in Nat /\ \A r \in Requests : req[r].n \in Nat /\ req[r].n <= client.n
  BY DEF TypeOK, Clients, States, DispatchInv, Dispatch
<1>1. ASSUME NEW r \in Requests, RequestStep(r) PROVE LifetimeInv'
  <2>1. /\ UNCHANGED <<sub, stopped, bundle>> /\ (TakesOver' <=> TakesOver)
        /\ client'.n = client.n /\ client'.rec = client.rec /\ client'.legacy = client.legacy
        /\ client'.ready = client.ready
        /\ \A q \in Requests : q # r => req'[q] = req[q]
    BY <1>1, RequestFrame
  <2>2. home'.member = home.member
    BY <1>1, IssuedChanges
  <2>3. ASSUME Unused PROVE Unused'
    BY <1>1, <2>1, <2>3, NewlyLive DEF Unused
  <2>4. ASSUME NoneLive, Unused \/ Sealed PROVE NoneLive'
    BY <1>0, <1>1, <2>1, <2>4, NewlyLive DEF Unused, Sealed, NoneLive
  <2>5. sub.pc = "new" => Sealed
    BY DEF SealInv
  <2>. QED
    BY <2>1, <2>2, <2>3, <2>4, <2>5 DEF LifetimeInv, Ended
<1>2. ASSUME UNCHANGED <<bundle, req>>, client'.n = client.n, client'.ready => client.ready
      PROVE  /\ Unused => Unused'
             /\ NoneLive => NoneLive'
  BY <1>2 DEF Unused, NoneLive, Live, Outstanding
<1>3. CASE NewLifetime
  <2>1. /\ sub.pc = "new" /\ sub'.pc = "get" /\ UNCHANGED <<bundle, req, home>>
        /\ client'.n = client.n + 1 /\ ~ client'.ready /\ client'.legacy = client.legacy
        /\ client'.rec \in Takeover <=> client.rec \in Takeover
    BY <1>3, EligibleClient DEF NewLifetime, NewClient, TypeOK, Subscribers, Clients
  <2>2. Unused'
    BY <1>0, <2>1 DEF Unused, SealInv
  <2>3. ~ TakesOver' => NoneLive'
    BY <2>1 DEF TakesOver, Takeover, LifetimeInv, NoneLive, Live, Outstanding
  <2>. QED
    BY <2>1, <2>2, <2>3 DEF LifetimeInv, Ended
<1>4. CASE GetConfig
  <2>1. sub.pc = "get" /\ sub'.pc = "subscribe" /\ UNCHANGED <<bundle, req, client, home>>
    BY <1>4 DEF GetConfig, Goto, TypeOK, Subscribers
  <2>. QED
    BY <1>2, <2>1 DEF LifetimeInv, Ended, TakesOver
<1>5. CASE SubscriptionACK
  <2>1. /\ sub.pc = "subscribe" /\ sub'.pc = "acked" /\ UNCHANGED <<bundle, req>>
        /\ client'.n = client.n /\ client'.ready = client.ready /\ client'.rec \in Takeover
        /\ home'.member
    BY <1>5, EligibleClient
       DEF SubscriptionACK, Goto, TypeOK, Subscribers, Clients, Homes, FreshMember, NoMember
  <2>. QED
    BY <1>2, <2>1 DEF LifetimeInv, Ended
<1>6. CASE ProbeSucceeds
  <2>1. sub.pc = "acked" /\ sub'.pc = "up" /\ UNCHANGED home
    BY <1>6 DEF ProbeSucceeds, Goto, TypeOK, Subscribers
  <2>. QED
    BY <2>1 DEF LifetimeInv, Ended
<1>7. CASE Fails
  <2>1. /\ sub.pc \in {"get", "subscribe", "acked"} /\ sub'.pc = "ended"
        /\ sub.pc = "acked" \/ ~ TakeoverUnavailable \/ TakesOver
        /\ UNCHANGED <<bundle, req, stopped>>
    BY <1>7 DEF Fails, ConnectFails, TakeoverUnavailable, LegacyProtocol, ProbeFails, Ends,
                TypeOK, Subscribers
  <2>2. client' = client \/ client' \in AfterFailure(client)
    BY <1>7 DEF Fails, ConnectFails, TakeoverUnavailable, LegacyProtocol, ProbeFails
  <2>3. /\ client'.n = client.n /\ client'.legacy = client.legacy /\ (client'.ready => client.ready)
        /\ client'.rec \in Takeover <=> client.rec \in Takeover
    BY <2>2, FailedClient DEF TypeOK
  <2>. QED
    BY <1>2, <2>1, <2>3 DEF LifetimeInv, Ended, TakesOver, Takeover
<1>8. CASE FailReceive
  <2>1. sub'.pc = "broken"
    BY <1>8 DEF FailReceive, Goto, TypeOK, Subscribers
  <2>. QED
    BY <2>1 DEF LifetimeInv, Ended
<1>9. CASE EndReceiveFailure
  <2>1. sub'.pc = "ended" /\ UNCHANGED stopped
    BY <1>9 DEF EndReceiveFailure, Ends, TypeOK, Subscribers
  <2>2. ~ stopped => client'.rec \in Takeover
    <3>. DEFINE e == [client EXCEPT !.hb = FALSE, !.rec = markMembershipTakeoverEligible(@)]
    <3>1. e \in Clients /\ e.rec \in Takeover
      <4>1. client \in Clients /\ client.rec \in Recoveries
        BY DEF TypeOK, Clients
      <4>. QED
        BY <4>1, EligibleClient DEF Clients
    <3>2. ~ stopped => client' \in AfterFailure(e)
      BY <1>9 DEF EndReceiveFailure
    <3>. HIDE DEF e
    <3>. QED
      BY <3>1, <3>2, FailedClient
  <2>. QED
    BY <2>1, <2>2 DEF LifetimeInv, Ended
<1>10. CASE Rebalance
  <2>1. sub'.pc = "ended" /\ client'.rec = "eligible"
    BY <1>10 DEF Rebalance, Ends, TypeOK, Subscribers, Clients
  <2>. QED
    BY <2>1 DEF LifetimeInv, Ended, Takeover
<1>11. CASE Publish
  <2>1. /\ sub'.pc = sub.pc /\ sub.pc \in {"up", "broken", "ended", "settle"}
        /\ UNCHANGED <<client, stopped, home>> /\ client.ready
    BY <1>11 DEF Publish, TypeOK, Subscribers
  <2>. QED
    BY <2>1 DEF LifetimeInv, Ended, Unused
<1>12. CASE Fence \/ SettlePlanned \/ SettlePlannedTimeout \/ CloseClient
  <2>1. /\ sub.pc \in {"ended", "settle", "close"}
        /\ sub'.pc \in {"settle", "detach", "pending", "fail"}
        /\ sub.pc # "close" => sub'.pc # "pending"
        /\ UNCHANGED <<bundle, req, stopped>>
    BY <1>12 DEF Fence, SettlePlanned, SettlePlannedTimeout, CloseClient, Goto, TypeOK, Subscribers
  <2>2. /\ client'.n = client.n /\ client'.legacy = client.legacy /\ client'.rec = client.rec
        /\ client'.ready = client.ready
    BY <1>12 DEF Fence, SettlePlanned, SettlePlannedTimeout, CloseClient, Shut, TypeOK, Clients
  <2>. QED
    BY <1>2, <2>1, <2>2 DEF LifetimeInv, Ended
<1>13. CASE Detach
  <2>1. /\ sub.pc = "detach" /\ sub'.pc = (IF stopped THEN "drain" ELSE "close")
        /\ bundle' = None /\ UNCHANGED <<req, stopped, client>>
    BY <1>13 DEF Detach, Goto, TypeOK, Subscribers
  <2>. QED
    BY <2>1 DEF LifetimeInv, Ended, Unused, NoneLive, Live, Outstanding
<1>14. CASE Decide
  <2>1. /\ sub.pc = "pending" /\ sub'.pc \in {"unsafe", "new"} /\ UNCHANGED <<bundle, req>>
        /\ sub'.pc = "new" => client' = client /\ ~ client.legacy
    BY <1>14 DEF Decide, UnsafeReplacement, Goto, TypeOK, Subscribers
  <2>. QED
    BY <2>1 DEF LifetimeInv, Ended, TakesOver, Takeover, NoneLive, Live, Outstanding
<1>15. CASE ReplaceRegistry
  <2>1. /\ sub'.pc = "new" /\ Drained /\ UNCHANGED req
    BY <1>15 DEF ReplaceRegistry, Goto, TypeOK, Subscribers
  <2>2. NoneLive'
    BY <2>1, DrainedIsQuiet DEF Quiet, NoneLive, Live, Outstanding
  <2>. QED
    BY <2>1, <2>2 DEF LifetimeInv, Ended
<1>16. CASE Timeout \/ LeaveLoop \/ DrainAndFlush \/ DrainTimeout
  <2>1. sub'.pc = "done"
    BY <1>16 DEF Timeout, LeaveLoop, DrainAndFlush, DrainTimeout, EndSubscriber, Goto, TypeOK,
                 Subscribers
  <2>. QED
    BY <2>1 DEF LifetimeInv, Ended
<1>17. CASE OutsideStep
  <2>1. UNCHANGED <<client, sub, bundle, req>>
    BY <1>17, OutsideFrame
  <2>2. stopped' = stopped \/ stopped'
    BY <1>17 DEF OutsideStep, ReleaseSent, ReleaseAnswerLost, Shutdown, Expire
  <2>3. sub.pc \in {"acked", "up"} => home'.member = home.member
    BY <1>17 DEF OutsideStep, ReleaseSent, ReleaseAnswerLost, Shutdown, Expire, TypeOK, Homes
  <2>. QED
    BY <1>2, <2>1, <2>2, <2>3 DEF LifetimeInv, Ended, TakesOver
<1>18. CASE UNCHANGED vars
  BY <1>2, <1>18 DEF vars, LifetimeInv, Ended, TakesOver
<1>. QED
  BY <1>1, <1>3, <1>4, <1>5, <1>6, <1>7, <1>8, <1>9, <1>10, <1>11, <1>12, <1>13, <1>14, <1>15,
     <1>16, <1>17, <1>18, StepKinds DEF LifetimeStep, Subscriber

-----------------------------------------------------------------------------
(***************************************************************************)
(* The slots at Home                                                       *)
(***************************************************************************)

\* The node relies on its membership only once it has entered it.
LEMMA ReliedKeeps ==
    ASSUME TypeOK, LifetimeStep, Relied'
    PROVE  ~ ReplaceRegistry /\ (Relied \/ (SubscriptionACK /\ ~ TakesOver))
<1>0. sub \in Subscribers /\ client \in Clients /\ client.rec \in Recoveries
  BY DEF TypeOK, Clients
<1>1. CASE NewLifetime
  <2>1. /\ sub'.pc = "get" /\ client'.legacy = client.legacy
        /\ client'.rec \in Takeover <=> client.rec \in Takeover
    BY <1>0, <1>1, EligibleClient DEF NewLifetime, NewClient, Subscribers, Clients
  <2>2. ~ ReplaceRegistry
    BY <1>1 DEF NewLifetime, ReplaceRegistry
  <2>. QED
    BY <2>1, <2>2 DEF Relied, TakesOver, Takeover
<1>2. CASE SubscriptionACK
  <2>1. ~ ReplaceRegistry
    BY <1>2 DEF SubscriptionACK, ReplaceRegistry
  <2>. QED
    BY <1>2, <2>1 DEF Relied
<1>3. CASE ProbeSucceeds \/ ProbeFails \/ FailReceive \/ EndReceiveFailure \/ Rebalance
  BY <1>3 DEF Relied, ProbeSucceeds, ProbeFails, FailReceive, EndReceiveFailure, Rebalance,
              ReplaceRegistry
<1>4. CASE ConnectFails \/ TakeoverUnavailable \/ LegacyProtocol
  <2>1. sub'.pc = "ended" /\ sub.pc # "unsafe"
    BY <1>0, <1>4 DEF ConnectFails, TakeoverUnavailable, LegacyProtocol, Ends, Subscribers
  <2>2. client' = client \/ client' \in AfterFailure(client)
    BY <1>4 DEF ConnectFails, TakeoverUnavailable, LegacyProtocol
  <2>3. client'.legacy = client.legacy /\ (client'.rec \in Takeover <=> client.rec \in Takeover)
    BY <1>0, <2>2, FailedClient
  <2>. QED
    BY <2>1, <2>3 DEF Relied, TakesOver, Takeover, ReplaceRegistry
<1>5. CASE Publish
  <2>1. sub'.pc = sub.pc /\ client' = client /\ sub.pc # "unsafe"
    BY <1>0, <1>5 DEF Publish, Subscribers
  <2>. QED
    BY <2>1 DEF Relied, TakesOver, ReplaceRegistry
<1>6. CASE Decide
  <2>1. sub.pc = "pending" /\ sub'.pc \in {"unsafe", "new"}
    BY <1>0, <1>6 DEF Decide, Goto, Subscribers
  <2>2. client' = client \/ client'.legacy
    BY <1>0, <1>6 DEF Decide, Clients
  <2>. QED
    BY <2>1, <2>2 DEF Relied, TakesOver, ReplaceRegistry
<1>7. CASE ReplaceRegistry
  <2>1. sub'.pc = "new" /\ client'.rec \notin Takeover
    BY <1>0, <1>7, EligibleClient DEF ReplaceRegistry, Goto, Subscribers, Clients
  <2>. QED
    BY <2>1 DEF Relied, TakesOver, Takeover
<1>8. CASE \/ GetConfig \/ Fence \/ SettlePlanned \/ SettlePlannedTimeout \/ Detach \/ CloseClient
           \/ Timeout \/ LeaveLoop \/ DrainAndFlush \/ DrainTimeout
  <2>1. sub'.pc \notin {"acked", "up", "broken"}
    BY <1>0, <1>8 DEF GetConfig, Fence, SettlePlanned, SettlePlannedTimeout, Detach, CloseClient,
       Timeout, LeaveLoop, DrainAndFlush, DrainTimeout, EndSubscriber, Goto, Subscribers
  <2>2. client'.legacy = client.legacy /\ client'.rec = client.rec
    BY <1>0, <1>8 DEF GetConfig, Fence, SettlePlanned, SettlePlannedTimeout, Detach, CloseClient,
       Timeout, LeaveLoop, DrainAndFlush, DrainTimeout, EndSubscriber, Shut, Clients
  <2>. QED
    BY <1>7, <2>1, <2>2 DEF Relied, TakesOver
<1>. QED
  BY <1>1, <1>2, <1>3, <1>4, <1>5, <1>6, <1>7, <1>8 DEF LifetimeStep, Subscriber, Fails

\* A number leaves its request by a release, by an answer that was never
\* counted, or when an ambiguous dispatch is given up.
LEMMA LeavesLive ==
    ASSUME TypeOK, NEW r \in Requests, RequestStep(r), Live(r), ~ Live(r)'
    PROVE  \/ req[r].d \in released'
           \/ req[r].d \notin home'.issued
           \/ req[r].pc = "ending"
<1>1. CASE EndScope(r)
  BY <1>1 DEF EndScope
<1>2. CASE RPopRefused(r)
  BY <1>2 DEF RPopRefused
<1>3. CASE EndPending(r)
  BY <1>3 DEF EndPending
<1>4. ASSUME NEW pc \in {"reply", "ambiguous", "ending", "run"}, req' = [req EXCEPT ![r].pc = pc]
      PROVE  Live(r)'
  BY <1>4 DEF Live, Outstanding, TypeOK, States
<1>5. CASE LoadBundle(r) \/ BeginDispatch(r) \/ CheckFence(r)
  BY <1>5 DEF LoadBundle, BeginDispatch, CheckFence, Live, Outstanding
<1>6. CASE UNCHANGED req
  BY <1>6 DEF Live, Outstanding
<1>7. CASE RPopAnswered(r) \/ RPopLost(r) \/ RejectReply(r) \/ Abort(r)
  BY <1>4, <1>7 DEF RPopAnswered, RPopLost, RejectReply, Abort
<1>8. CASE Install(r)
  BY <1>4, <1>8 DEF Install
<1>. QED
  BY <1>1, <1>2, <1>3, <1>5, <1>6, <1>7, <1>8
     DEF RequestStep, Request, CountDispatch, RejectInstalled

LEMMA ExplainedStep ==
    ASSUME TypeOK, DispatchInv, DispatchInv', NumberInv, FlusherInv, SealInv, ExplainedInv,
           [Next]_vars
    PROVE  ExplainedInv'
<1>1. SUFFICES ASSUME Relied', ~ client'.ambiguous \/ sub'.pc = "new" PROVE Explained'
  BY DEF ExplainedInv
<1>2. Cardinality(released) \in Nat /\ home.rel \in Nat /\ flusher.latest \in Nat
  BY ReleasedFinite DEF TypeOK, Homes, Flushers
<1>3. ASSUME NEW r \in Requests, RequestStep(r) PROVE Explained'
  <2>1. /\ UNCHANGED <<sub, registry>> /\ (TakesOver' <=> TakesOver)
        /\ client.ambiguous => client'.ambiguous
        /\ \A q \in Requests : q # r => req'[q] = req[q]
    BY <1>3, RequestFrame
  <2>2. Explained
    BY <1>1, <2>1 DEF ExplainedInv, Relied
  <2>3. req[r].pc # "ending"
    BY <1>1, <2>1 DEF DispatchInv, Dispatch, SealInv, NoneOutstanding, Outstanding
  <2>4. home'.rel <= Cardinality(released')
    <3>1. released' = released \/ released' = released \cup {req[r].d}
      BY <1>3, ReleasedChanges
    <3>2. released \cup {req[r].d} = released
          \/ Cardinality(released \cup {req[r].d}) = Cardinality(released) + 1
      BY ReleasedFinite
    <3>. QED
      BY <1>2, <1>3, <2>2, <3>1, <3>2, IssuedChanges DEF Explained
  <2>5. ASSUME NEW d \in home'.issued, d \notin released'
        PROVE  \E q \in Requests : req'[q].d = d /\ req'[q].g = registry'.g
    <3>1. released \subseteq released'
      BY <1>3, ReleasedChanges
    <3>2. CASE d \notin home.issued
      <4>1. d = req[r].d /\ Live(r) /\ req'[r] = req[r]
        BY <1>3, <2>5, <3>2, IssuedChanges
      <4>2. req[r].g = registry.g
        BY <4>1 DEF DispatchInv, Dispatch
      <4>. QED
        BY <2>1, <4>1, <4>2
    <3>3. CASE d \in home.issued
      <4>1. PICK q \in Requests : req[q].d = d /\ req[q].g = registry.g
        BY <2>2, <2>5, <3>1, <3>3 DEF Explained
      <4>2. Live(q)
        <5>1. d # 0
          BY <3>3 DEF NumberInv, TypeOK
        <5>. QED
          BY <4>1, <5>1 DEF DispatchInv, Dispatch
      <4>3. CASE q # r
        BY <2>1, <4>1, <4>3
      <4>4. CASE q = r
        <5>1. Live(r)'
          BY <1>3, <2>3, <2>5, <4>1, <4>2, <4>4, LeavesLive
        <5>2. req'[r].d = d
          BY <1>3, <4>1, <4>2, <4>4, <5>1, NumberMoves
        <5>3. req'[r].g = registry'.g
          BY <5>1 DEF DispatchInv, Dispatch
        <5>. QED
          BY <5>2, <5>3
      <4>. QED
        BY <4>3, <4>4
    <3>. QED
      BY <3>2, <3>3
  <2>. QED
    BY <2>4, <2>5 DEF Explained
<1>4. ASSUME home' = NoMember \/ home' = FreshMember,
             Cardinality(released') \in Nat
      PROVE  Explained'
  BY <1>4 DEF Explained, NoMember, FreshMember
<1>5. ASSUME UNCHANGED <<released, req>>, registry'.g = registry.g, home'.issued = home.issued,
             home'.rel \in {home.rel, flusher.latest}, Explained
      PROVE  Explained'
  BY <1>2, <1>5 DEF Explained, FlusherInv
<1>6. CASE LifetimeStep
  <2>1. /\ ~ ReplaceRegistry /\ (Relied \/ (SubscriptionACK /\ ~ TakesOver))
        /\ UNCHANGED <<released, req>> /\ registry'.g = registry.g
    BY <1>1, <1>6, ReliedKeeps, LifetimeFrame
  <2>2. CASE SubscriptionACK /\ ~ TakesOver
    BY <1>2, <1>4, <2>1, <2>2 DEF SubscriptionACK
  <2>3. CASE Relied
    <3>1. ~ client.ambiguous \/ sub.pc = "new"
      <4>1. CASE NewLifetime
        BY <4>1 DEF NewLifetime
      <4>2. CASE Decide
        BY <1>1, <1>6, <4>2, LifetimeFrame
           DEF Decide, UnsafeReplacement, NewLifetime, Goto, TypeOK, Subscribers
      <4>3. CASE sub'.pc = sub.pc \/ sub'.pc # "new"
        BY <1>1, <1>6, <4>3, LifetimeFrame DEF NewLifetime
      <4>. QED
        BY <1>6, <2>1, <4>1, <4>2, <4>3
           DEF LifetimeStep, Fails, Subscriber, GetConfig,
           SubscriptionACK, ProbeSucceeds, Fence, SettlePlanned, Detach, CloseClient,
           LeaveLoop, DrainAndFlush, EndSubscriber, Publish, ConnectFails,
           TakeoverUnavailable, LegacyProtocol, ProbeFails, FailReceive, EndReceiveFailure,
           Rebalance, SettlePlannedTimeout, Timeout, DrainTimeout, Goto, Ends, TypeOK, Subscribers
    <3>2. Explained
      BY <2>3, <3>1 DEF ExplainedInv
    <3>. QED
      BY <1>2, <1>4, <1>5, <1>6, <2>1, <3>2, MembershipChanges
  <2>. QED
    BY <2>1, <2>2, <2>3
<1>7. CASE OutsideStep
  <2>1. UNCHANGED <<client, sub, registry, released, req>>
    BY <1>7, OutsideFrame
  <2>2. Explained
    BY <1>1, <2>1 DEF ExplainedInv, Relied, TakesOver
  <2>. QED
    BY <1>2, <1>4, <1>5, <1>7, <2>1, <2>2, MembershipChanges
<1>8. CASE UNCHANGED vars
  <2>1. Explained
    BY <1>1, <1>8 DEF vars, ExplainedInv, Relied, TakesOver
  <2>. QED
    BY <1>5, <1>8, <2>1 DEF vars
<1>. QED
  BY <1>3, <1>6, <1>7, <1>8, StepKinds

LEMMA CountedStep ==
    ASSUME TypeOK, LifetimeInv, CountedInv, [Next]_vars
    PROVE  CountedInv'
<1>1. SUFFICES ASSUME Relied', home'.member, NEW q \in Requests, req'[q].pc \in {"reply", "run"}
               PROVE  req'[q].d \in home'.issued
  BY DEF CountedInv
<1>2. ASSUME NEW r \in Requests, RequestStep(r) PROVE req'[q].d \in home'.issued
  <2>1. /\ UNCHANGED sub /\ (TakesOver' <=> TakesOver)
        /\ \A s \in Requests : s # r => req'[s] = req[s]
    BY <1>2, RequestFrame
  <2>2. home'.member = home.member /\ home.issued \subseteq home'.issued
    BY <1>2, IssuedChanges
  <2>3. \A s \in Requests : req[s].pc \in {"reply", "run"} => req[s].d \in home.issued
    BY <1>1, <2>1, <2>2 DEF CountedInv, Relied
  <2>4. CASE q # r
    BY <1>1, <2>1, <2>2, <2>3, <2>4
  <2>5. CASE q = r
    <3>1. req'[r].d = req[r].d /\ req[r].d \in home.issued
      BY <1>1, <1>2, <2>3, <2>5, RequestMoves DEF Is
    <3>. QED
      BY <2>2, <2>5, <3>1
  <2>. QED
    BY <2>4, <2>5
<1>3. CASE LifetimeStep
  <2>1. req' = req /\ (Relied \/ (SubscriptionACK /\ ~ TakesOver))
    BY <1>1, <1>3, ReliedKeeps, LifetimeFrame
  <2>2. CASE SubscriptionACK /\ ~ TakesOver
    <3>1. sub.pc = "subscribe"
      BY <2>2 DEF SubscriptionACK
    <3>. QED
      BY <1>1, <2>1, <2>2, <3>1 DEF LifetimeInv, NoneLive, Live, Outstanding
  <2>3. CASE home'.issued = home.issued /\ home'.member = home.member
    BY <1>1, <2>1, <2>2, <2>3 DEF CountedInv
  <2>4. CASE home' = NoMember
    BY <1>1, <2>4 DEF NoMember
  <2>5. CASE ConnectFails /\ home' = FreshMember /\ ~ TakesOver
    <3>1. sub.pc \in {"get", "subscribe"}
      BY <2>5 DEF ConnectFails
    <3>. QED
      BY <1>1, <2>1, <2>5, <3>1 DEF LifetimeInv, NoneLive, Live, Outstanding
  <2>. QED
    BY <1>3, <2>2, <2>3, <2>4, <2>5, MembershipChanges
<1>4. CASE OutsideStep
  <2>1. UNCHANGED <<client, sub, req>>
    BY <1>4, OutsideFrame
  <2>2. CASE home'.issued = home.issued /\ home'.member = home.member
    BY <1>1, <2>1, <2>2 DEF CountedInv, Relied, TakesOver
  <2>3. CASE home' = NoMember
    BY <1>1, <2>3 DEF NoMember
  <2>. QED
    BY <1>4, <2>2, <2>3, MembershipChanges
       DEF OutsideStep, ReleaseSent, ReleaseAnswerLost, Shutdown, Expire, TypeOK, Homes
<1>5. CASE UNCHANGED vars
  BY <1>1, <1>5 DEF vars, CountedInv, Relied, TakesOver
<1>. QED
  BY <1>2, <1>3, <1>4, <1>5, StepKinds

-----------------------------------------------------------------------------
(***************************************************************************)
(* The theorems                                                            *)
(***************************************************************************)
LEMMA Initially == Init => IInv
<1>. SUFFICES ASSUME Init PROVE IInv
  OBVIOUS
<1>1. client \in Clients /\ client.n = 0 /\ client.rec = "stable" /\ ~ client.ready
  BY DEF Init, NewClient, Clients, Recoveries
<1>2. TypeOK
  BY <1>1 DEF Init, TypeOK, NoMember, Homes, Subscribers, SubscriberPcs, Errors, Registries, NewFlusher,
              Flushers, States, RequestPcs, Idle
<1>3. DispatchInv /\ NumberInv
  <2>1. \A r \in Requests : req[r].pc = "idle" /\ req[r].n = 0 /\ req[r].d = 0
    BY DEF Init, Idle
  <2>2. DispatchInv
    BY <1>1, <2>1 DEF DispatchInv, Dispatch, Live, Outstanding
  <2>3. home.issued = {} /\ released = {} /\ bundle = None
    BY DEF Init, NoMember
  <2>. QED
    BY <2>2, <2>3 DEF NumberInv
<1>4. FlusherInv
  <2>1. flusher.latest = 0 /\ Cardinality(released) = 0
    BY FS_EmptySet DEF Init, NewFlusher
  <2>. QED
    BY <2>1 DEF FlusherInv
<1>5. LifetimeInv /\ SealInv
  BY <1>1 DEF Init, LifetimeInv, SealInv, Ended, NoneLive, NoneOutstanding, Live, Outstanding, Idle, Sealed
<1>6. ExplainedInv /\ CountedInv
  BY <1>1 DEF Init, ExplainedInv, CountedInv, Relied, TakesOver
<1>. QED
  BY <1>2, <1>3, <1>4, <1>5, <1>6 DEF IInv

LEMMA Inductive == IInv /\ [Next]_vars => IInv'
<1>. SUFFICES ASSUME IInv, [Next]_vars PROVE IInv'
  OBVIOUS
<1>. USE DEF IInv
<1>1. TypeOK'
  BY TypeStep
<1>2. DispatchInv'
  BY DispatchStep
<1>3. NumberInv'
  BY <1>1, NumberStep
<1>4. FlusherInv' /\ SealInv' /\ LifetimeInv'
  BY FlusherStep, SealStep, LifetimeInvStep
<1>5. ExplainedInv'
  BY <1>2, ExplainedStep
<1>6. CountedInv'
  BY CountedStep
<1>. QED
  BY <1>1, <1>2, <1>3, <1>4, <1>5, <1>6

\* The inductive invariant, of which the theorems below are consequences.
THEOREM Invariance == Spec => []IInv
<1>1. Init => IInv
  BY Initially
<1>2. IInv /\ [Next]_vars => IInv'
  BY Inductive
<1>. QED
  BY <1>1, <1>2, PTL DEF Spec

\* Every variable keeps its type, whatever the bounds.
THEOREM TypeCorrect == Spec => []TypeOK
<1>1. IInv => TypeOK
  BY DEF IInv
<1>. QED
  BY <1>1, Invariance, PTL

\* A slot that Home counts for a subscribed node is explained by a dispatch
\* that is not settled, an execution, or a release that the flusher knows
\* (runHomeSubscriber, AbortAmbiguousDispatch).
THEOREM SlotsExplained == Spec => []NoLeakedSlot
<1>1. IInv => NoLeakedSlot
  BY DEF IInv, NoLeakedSlot, Subscribed, ExplainedInv, Explained, Relied, FlusherInv
<1>. QED
  BY <1>1, Invariance, PTL

\* Home counts each execution that runs while the node is subscribed: also
\* after a takeover, a lost membership or the drain of an unsafe replacement.
THEOREM ExecutionsCounted == Spec => []NoUncountedExecution
<1>1. IInv => NoUncountedExecution
  BY DEF IInv, NoUncountedExecution, Subscribed, CountedInv, LifetimeInv, Relied
<1>. QED
  BY <1>1, Invariance, PTL
=============================================================================
