----------------------------- MODULE UsageQueue -----------------------------
(***************************************************************************)
(* The usage queue (internal/redisqueue/queue.go): usage records go to the *)
(* subscribers if there are any, and otherwise wait in memory for a pop,   *)
(* by the management API or by the forwarder that pushes them to Home      *)
(* (startHomeUsageForwarder in sdk/cliproxy/service_home.go).              *)
(*                                                                         *)
(* A step is one critical section of queue.mu, one access to the atomic    *)
(* enabled, or one close of a channel outside the mutex.  An event stands  *)
(* for a payload.  The error queue, errorGlobal, is the same type with     *)
(* publish only.                                                           *)
(***************************************************************************)
EXTENDS Integers, Sequences, FiniteSets, TLC

CONSTANTS
    Events,       \* usage records
    Subscribers,  \* calls of SubscribeUsage
    Poppers,      \* callers of PopOldest other than the forwarder
    None,         \* no event
    Refresh,      \* support_refresh, the initial payload, and refresh
    Buffer,       \* usageSubscriberBuffer
    Batch,        \* the count of a pop: 64 in the forwarder
    Compact,      \* the 1024 of maybeCompactLocked
    Retention,    \* retentionSeconds
    MaxTime,      \* bound: the clock
    MaxCalls,     \* bound: calls of SetEnabled(false) and NotifyUsageRefresh
    MaxFailures   \* bound: failed pushes to Home

ASSUME UsageQueueAssumption ==
    /\ Buffer \in Nat \ {0}
    /\ Batch \in Nat \ {0}
    /\ Compact \in Nat
    /\ Retention \in Nat
    /\ {MaxTime, MaxCalls, MaxFailures} \subseteq Nat
    /\ None \notin Events /\ Refresh \notin Events

VARIABLES
    now,          \* the clock
    enabled,      \* the atomic enabled
    disables,     \* calls of SetEnabled(false) so far
    clearing,     \* SetEnabled(false) has stored enabled and not cleared yet
    toClose,      \* channels that clear or unsubscribe took out of the map
    items,        \* queue.items
    head,         \* queue.head
    subscribers,  \* queue.subscribers
    subState,     \* a subscriber's life
    channel,      \* the subscribers' channels
    chClosed,     \* closed channels
    notified,     \* calls of NotifyUsageRefresh so far
    producer,     \* progress of Enqueue, per event
    stamp,        \* the local now of enqueue, per event
    popper,       \* progress of the PopOldest callers: "idle", or the time read
    fwd,          \* progress of the forwarder
    batch,        \* what the forwarder has popped and not pushed
    failures,     \* failed pushes so far
    out,          \* history: what the last pop returned
    fate          \* history: what became of an event

queueVars == <<items, head>>
subVars == <<subscribers, subState, channel, chClosed, notified, toClose>>
fwdVars == <<fwd, batch, failures>>
vars == <<now, enabled, disables, clearing, queueVars, subVars, producer, stamp,
          popper, fwdVars, out, fate>>

Calls == disables + notified

Init ==
    /\ now = 0
    /\ enabled = TRUE
    /\ disables = 0
    /\ clearing = FALSE
    /\ toClose = {}
    /\ items = <<>>
    /\ head = 0
    /\ subscribers = {}
    /\ subState = [s \in Subscribers |-> "new"]
    /\ channel = [s \in Subscribers |-> <<>>]
    /\ chClosed = {}
    /\ notified = 0
    /\ producer = [e \in Events |-> "new"]
    /\ stamp = [e \in Events |-> 0]
    /\ popper = [p \in Poppers |-> [pc |-> "idle", at |-> 0]]
    /\ fwd = [pc |-> "idle", at |-> 0, event |-> None]
    /\ batch = <<>>
    /\ failures = 0
    /\ out = <<>>
    /\ fate = [e \in Events |-> "none"]

-----------------------------------------------------------------------------
(* The queue proper                                                        *)

(* The events from position k on, as a sequence of events.                 *)
EventsFrom(q, k) == [i \in 1..(Len(q) - k) |-> q[k + i].event]
Fifo == EventsFrom(items, head)
InQueue == {items[i].event : i \in (head + 1)..Len(items)}

(* pruneLocked: head moves over the items that are too old, up to the      *)
(* first one that is not.                                                  *)
PruneHead(q, h, t) ==
    CHOOSE k \in h..Len(q) :
        /\ \A i \in (h + 1)..k : q[i].at < t - Retention
        /\ k < Len(q) => ~ (q[k + 1].at < t - Retention)

(* A plausible slip: the copy starts one late.                             *)
CompactItemsLate(q, h) ==
    IF h = 0 \/ (h < Len(q) /\ h < Compact /\ h * 2 < Len(q))
    THEN [items |-> q, head |-> h]
    ELSE [items |-> SubSeq(q, h + 2, Len(q)), head |-> 0]

(* maybeCompactLocked copies the rest once head is large enough.           *)
CompactItems(q, h) ==
    IF h = 0 \/ (h < Len(q) /\ h < Compact /\ h * 2 < Len(q))
    THEN [items |-> q, head |-> h]
    ELSE [items |-> SubSeq(q, h + 1, Len(q)), head |-> 0]

SetQueue(r) == items' = r.items /\ head' = r.head

(* The events that pruning at time t removes.                              *)
Expired(t) == {items[i].event : i \in (head + 1)..PruneHead(items, head, t)}

Tick ==
    /\ now < MaxTime
    /\ now' = now + 1
    /\ UNCHANGED <<enabled, disables, clearing, queueVars, subVars, producer, stamp,
                   popper, fwdVars, out, fate>>

-----------------------------------------------------------------------------
(* Enqueue: the producer of an event, or the forwarder on its behalf       *)

HandleUsage(e) ==
    /\ producer[e] = "new"
    /\ producer' = [producer EXCEPT ![e] = "check"]
    /\ UNCHANGED <<now, enabled, disables, clearing, queueVars, subVars, stamp, popper,
                   fwdVars, out, fate>>

CheckEnabled(e) ==
    /\ producer[e] = "check"
    /\ producer' = [producer EXCEPT ![e] = IF enabled THEN "publish" ELSE "done"]
    /\ fate' = IF enabled THEN fate ELSE [fate EXCEPT ![e] = "refused"]
    /\ UNCHANGED <<now, enabled, disables, clearing, queueVars, subVars, stamp, popper,
                   fwdVars, out>>

(* publishToSubscribers: whoever has no room is dropped and closed.        *)
Room == {s \in subscribers : Len(channel[s]) < Buffer}

PublishTo(x) ==
    /\ channel' = [s \in Subscribers |-> IF s \in Room THEN Append(channel[s], x)
                                         ELSE channel[s]]
    /\ subscribers' = Room
    /\ chClosed' = chClosed \cup (subscribers \ Room)

(* Without subscribers, enqueue follows, which reads the clock before it   *)
(* takes the mutex.                                                        *)
Publish(e) ==
    /\ producer[e] = "publish"
    /\ \/ /\ subscribers = {}
          /\ producer' = [producer EXCEPT ![e] = "enqueue"]
          /\ stamp' = [stamp EXCEPT ![e] = now]
          /\ UNCHANGED <<channel, subscribers, chClosed, fate>>
       \/ /\ subscribers # {}
          /\ PublishTo(e)
          /\ producer' = [producer EXCEPT ![e] = "done"]
          /\ fate' = [fate EXCEPT ![e] = IF Room # {} THEN "published" ELSE "dropped"]
          /\ UNCHANGED stamp
    /\ UNCHANGED <<now, enabled, disables, clearing, queueVars, subState, notified,
                   toClose, popper, fwdVars, out>>

Enqueue(e) ==
    /\ producer[e] = "enqueue"
    /\ producer' = [producer EXCEPT ![e] = "done"]
    /\ LET k == PruneHead(items, head, stamp[e])
           q == IF head = Len(items) THEN <<>> ELSE items
           h == IF head = Len(items) THEN 0 ELSE k
       IN SetQueue(CompactItems(Append(q, [event |-> e, at |-> stamp[e]]), h))
    /\ fate' = [x \in Events |-> IF x \in Expired(stamp[e]) THEN "expired" ELSE fate[x]]
    /\ stamp' = [stamp EXCEPT ![e] = 0]
    /\ UNCHANGED <<now, enabled, disables, clearing, subVars, popper, fwdVars, out>>

-----------------------------------------------------------------------------
(* Subscribers                                                             *)

SubscribeUsage(s) ==
    /\ subState[s] = "new"
    /\ subState' = [subState EXCEPT ![s] = "open"]
    /\ subscribers' = subscribers \cup {s}
    /\ channel' = [channel EXCEPT ![s] = <<Refresh>>]
    /\ UNCHANGED <<now, enabled, disables, clearing, queueVars, chClosed, notified, toClose,
                   producer, stamp, popper, fwdVars, out, fate>>

(* streamRedisSubscription writes the next message to its connection.      *)
Consume(s) ==
    /\ subState[s] = "open"
    /\ channel[s] # <<>>
    /\ channel' = [channel EXCEPT ![s] = Tail(@)]
    /\ UNCHANGED <<now, enabled, disables, clearing, queueVars, subscribers, subState,
                   chClosed, notified, toClose, producer, stamp, popper, fwdVars, out, fate>>

NotifyUsageRefresh ==
    /\ Calls < MaxCalls
    /\ notified' = notified + 1
    /\ PublishTo(Refresh)
    /\ UNCHANGED <<now, enabled, disables, clearing, queueVars, subState, toClose, producer,
                   stamp, popper, fwdVars, out, fate>>

(* unsubscribe takes the subscriber out of the map, if it is there ...     *)
Unsubscribe(s) ==
    /\ subState[s] = "open"
    /\ subState' = [subState EXCEPT ![s] = "gone"]
    /\ subscribers' = subscribers \ {s}
    /\ toClose' = toClose \cup (subscribers \cap {s})
    /\ UNCHANGED <<now, enabled, disables, clearing, queueVars, channel, chClosed, notified,
                   producer, stamp, popper, fwdVars, out, fate>>

(* ... and closes its channel after the unlock.                            *)
CloseChannel(s) ==
    /\ s \in toClose
    /\ toClose' = toClose \ {s}
    /\ chClosed' = chClosed \cup {s}
    /\ UNCHANGED <<now, enabled, disables, clearing, queueVars, subscribers, subState,
                   channel, notified, producer, stamp, popper, fwdVars, out, fate>>

(* SetEnabled(false) and (true).                                           *)
Disable ==
    /\ ~ clearing
    /\ Calls < MaxCalls
    /\ disables' = disables + 1
    /\ enabled' = FALSE
    /\ clearing' = TRUE
    /\ UNCHANGED <<now, queueVars, subVars, producer, stamp, popper, fwdVars, out, fate>>

(* A plausible slip: clear leaves the subscribers in the map.              *)
ClearItems ==
    /\ clearing
    /\ clearing' = FALSE
    /\ items' = <<>>
    /\ head' = 0
    /\ toClose' = toClose \cup subscribers
    /\ fate' = [e \in Events |-> IF e \in InQueue THEN "cleared" ELSE fate[e]]
    /\ UNCHANGED <<now, enabled, disables, subscribers, subState, channel, chClosed, notified,
                   producer, stamp, popper, fwdVars, out>>

Clear ==
    /\ clearing
    /\ clearing' = FALSE
    /\ items' = <<>>
    /\ head' = 0
    /\ subscribers' = {}
    /\ toClose' = toClose \cup subscribers
    /\ fate' = [e \in Events |-> IF e \in InQueue THEN "cleared" ELSE fate[e]]
    /\ UNCHANGED <<now, enabled, disables, subState, channel, chClosed, notified, producer,
                   stamp, popper, fwdVars, out>>

Enable ==
    /\ ~ clearing
    /\ ~ enabled
    /\ enabled' = TRUE
    /\ UNCHANGED <<now, disables, clearing, queueVars, subVars, producer, stamp, popper,
                   fwdVars, out, fate>>

-----------------------------------------------------------------------------
(* PopOldest                                                               *)

(* popOldest with a clock reading from before the lock.                    *)
Popped(t) ==
    LET k == PruneHead(items, head, t)
        n == IF Len(items) - k < Batch THEN Len(items) - k ELSE Batch
    IN SubSeq(EventsFrom(items, k), 1, n)

PopOldest(t) ==
    LET k == PruneHead(items, head, t)
        n == Len(Popped(t))
    IN /\ SetQueue(CompactItems(items, k + n))
       /\ out' = Popped(t)

(* Enabled() is true, and popOldest reads the clock.                       *)
PopCheck(p) ==
    /\ popper[p].pc = "idle"
    /\ enabled
    /\ popper' = [popper EXCEPT ![p] = [pc |-> "pop", at |-> now]]
    /\ UNCHANGED <<now, enabled, disables, clearing, queueVars, subVars, producer, stamp,
                   fwdVars, out, fate>>

Pop(p) ==
    /\ popper[p].pc = "pop"
    /\ popper' = [popper EXCEPT ![p] = [pc |-> "idle", at |-> 0]]
    /\ LET t == popper[p].at IN
       /\ PopOldest(t)
       /\ fate' = [e \in Events |->
                     IF e \in Expired(t) THEN "expired"
                     ELSE IF \E i \in DOMAIN Popped(t) : Popped(t)[i] = e THEN "popped"
                     ELSE fate[e]]
    /\ UNCHANGED <<now, enabled, disables, clearing, subVars, producer, stamp, fwdVars>>

(* The forwarder pops only while the heartbeat of the Home client is good. *)
FwdCheck ==
    /\ fwd.pc = "idle"
    /\ enabled
    /\ fwd' = [fwd EXCEPT !.pc = "pop", !.at = now]
    /\ UNCHANGED <<now, enabled, disables, clearing, queueVars, subVars, producer, stamp,
                   popper, batch, failures, out, fate>>

FwdPop ==
    /\ fwd.pc = "pop"
    /\ PopOldest(fwd.at)
    /\ batch' = Popped(fwd.at)
    /\ fwd' = [fwd EXCEPT !.at = 0, !.pc = IF Popped(fwd.at) = <<>> THEN "idle" ELSE "push"]
    /\ fate' = [e \in Events |-> IF e \in Expired(fwd.at) THEN "expired" ELSE fate[e]]
    /\ UNCHANGED <<now, enabled, disables, clearing, subVars, producer, stamp, popper, failures>>

FwdPush ==
    /\ fwd.pc = "push"
    /\ batch' = Tail(batch)
    /\ fate' = [fate EXCEPT ![Head(batch)] = "home"]
    /\ fwd' = [fwd EXCEPT !.pc = IF Len(batch) = 1 THEN "idle" ELSE "push"]
    /\ UNCHANGED <<now, enabled, disables, clearing, queueVars, subVars, producer, stamp,
                   popper, failures, out>>

(* A plausible slip: the event whose push failed is not enqueued again.    *)
FwdFailsSkip ==
    /\ fwd.pc = "push"
    /\ failures < MaxFailures
    /\ failures' = failures + 1
    /\ batch' = Tail(batch)
    /\ fwd' = [fwd EXCEPT !.pc = IF Len(batch) = 1 THEN "idle" ELSE "requeue"]
    /\ UNCHANGED <<now, enabled, disables, clearing, queueVars, subVars, producer, stamp,
                   popper, out, fate>>

(* The push fails: this event and the ones after it are enqueued again.    *)
FwdFails ==
    /\ fwd.pc = "push"
    /\ failures < MaxFailures
    /\ failures' = failures + 1
    /\ fwd' = [fwd EXCEPT !.pc = "requeue"]
    /\ UNCHANGED <<now, enabled, disables, clearing, queueVars, subVars, producer, stamp,
                   popper, batch, out, fate>>

FwdRequeue ==
    /\ fwd.pc = "requeue"
    /\ producer' = [producer EXCEPT ![Head(batch)] = "check"]
    /\ batch' = Tail(batch)
    /\ fwd' = [fwd EXCEPT !.pc = "wait", !.event = Head(batch)]
    /\ UNCHANGED <<now, enabled, disables, clearing, queueVars, subVars, stamp, popper,
                   failures, out, fate>>

(* Enqueue returns to the forwarder.                                       *)
FwdNext ==
    /\ fwd.pc = "wait"
    /\ producer[fwd.event] = "done"
    /\ fwd' = [fwd EXCEPT !.event = None, !.pc = IF batch = <<>> THEN "idle" ELSE "requeue"]
    /\ UNCHANGED <<now, enabled, disables, clearing, queueVars, subVars, producer, stamp,
                   popper, batch, failures, out, fate>>

-----------------------------------------------------------------------------
Next ==
    \/ Tick
    \/ \E e \in Events : HandleUsage(e) \/ CheckEnabled(e) \/ Publish(e) \/ Enqueue(e)
    \/ \E s \in Subscribers : \/ SubscribeUsage(s) \/ Consume(s)
                              \/ Unsubscribe(s) \/ CloseChannel(s)
    \/ NotifyUsageRefresh
    \/ Disable \/ Clear \/ Enable
    \/ \E p \in Poppers : PopCheck(p) \/ Pop(p)
    \/ FwdCheck \/ FwdPop \/ FwdPush \/ FwdFails \/ FwdRequeue \/ FwdNext

Spec == Init /\ [][Next]_vars

-----------------------------------------------------------------------------
(* publishToSubscribers never sends on a closed channel, and no channel is *)
(* closed twice, although clear and unsubscribe close outside the mutex.   *)
SubscribersOpen ==
    /\ subscribers \cap (chClosed \cup toClose) = {}
    /\ toClose \cap chClosed = {}

(* Where an event is: with its producer, in the queue, with the forwarder, *)
(* or out of the system for a reason that fate names.                      *)
Places(e) ==
    {x \in {"producer", "queue", "forwarder", "settled"} :
        \/ x = "producer" /\ producer[e] # "done"
        \/ x = "queue" /\ e \in InQueue
        \/ x = "forwarder" /\ \E i \in DOMAIN batch : batch[i] = e
        \/ x = "settled" /\ fate[e] # "none"}

(* A usage record is always in exactly one place: records are neither lost *)
(* between pop, push and requeue nor there twice, whatever subscribers,    *)
(* SetEnabled and other poppers do meanwhile.                              *)
EventInOnePlace ==
    /\ \A e \in Events : Cardinality(Places(e)) = 1
    /\ \A i, j \in (head + 1)..Len(items) : items[i].event = items[j].event => i = j

(* The slice with its head index and its compaction behaves like a queue.  *)
F == INSTANCE UsageFifo WITH fifo <- Fifo
ImplementsUsageFifo == F!Spec

Symmetry == Permutations(Events)
=============================================================================
