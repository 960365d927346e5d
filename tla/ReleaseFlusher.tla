--------------------------- MODULE ReleaseFlusher ---------------------------
(***************************************************************************)
(* The release flusher (internal/home/concurrency_release.go) between the  *)
(* execution registry, which calls MarkDirty with the cumulative release   *)
(* sequence of a group, and Home, which receives ConcurrencyReleaseFrames  *)
(* over a connection that fails.  runHomeSubscriber gives the flusher a    *)
(* sender and starts Run once per client lifetime, and waits for it to     *)
(* return before the next one.                                             *)
(*                                                                         *)
(* A step is one critical section of releaseFlusher.mu, one channel        *)
(* operation of Run's select, or one call of send, which runs without the  *)
(* mutex.  Durations are abstracted: an armed timer may fire at any time.  *)
(* The sender is never nil when flush looks at it, because SetSender comes *)
(* before the first Run.                                                   *)
(***************************************************************************)
EXTENDS Integers, FiniteSets

CONSTANTS
    Groups,       \* release groups
    Flushers,     \* callers of Flush
    NoForce,      \* the force channel is empty
    MaxSeq,       \* bound: releases of one group
    MaxLifetime   \* bound: client lifetimes, one Run each

ASSUME FlusherAssumption ==
    /\ MaxSeq \in Nat
    /\ MaxLifetime \in Nat
    /\ NoForce \notin Flushers

Seqs == 1..MaxSeq
Frames == [group : Groups, seq : Seqs]
RunPcs == {"off", "select", "copy", "send", "ack", "settle"}
FlushPcs == {"idle", "poll", "ok", "failed"}

VARIABLES
    released,     \* Registry.releaseSequences: executions that really ended
    unmarked,     \* MarkDirty calls the registry has not made yet
    latest,       \* releaseState.Latest
    acked,        \* releaseState.Acked
    waiters,      \* tickets whose done channel is in releaseState.waiters
    completed,    \* tickets whose done channel is closed
    pending,      \* releaseFlusher.pending; 0 stands for no entry
    wake,         \* the wake channel holds a token
    force,        \* the force channel: empty, or the Flush call that filled it
    run,          \* progress of Run
    lifetime,     \* number of Run calls started
    cancelled,    \* the context of the current Run is done
    timer,        \* timerC is not nil: the timer is running or has fired
    backingOff,   \* Run's local backingOff
    todo,         \* flush's copy of pending, not sent yet
    sent,         \* the frame whose send returned nil, not yet accounted
    failed,       \* flush's local failed
    received,     \* Home: the largest sequence received per group
    flushPc,      \* progress of the Flush callers
    owed          \* history: latest at the time Flush was called

markVars == <<latest, acked, waiters, completed, pending>>
runVars == <<run, lifetime, cancelled, timer, backingOff, todo, sent, failed>>
flushVars == <<flushPc, owed>>
releaseVars == <<released, unmarked, markVars, wake, force, runVars, received, flushVars>>

Zero == [g \in Groups |-> 0]

FlusherInit ==
    /\ released = Zero
    /\ unmarked = {}
    /\ latest = Zero
    /\ acked = Zero
    /\ waiters = {}
    /\ completed = {}
    /\ pending = Zero
    /\ wake = FALSE
    /\ force = NoForce
    /\ run = "off"
    /\ lifetime = 0
    /\ cancelled = FALSE
    /\ timer = FALSE
    /\ backingOff = FALSE
    /\ todo = {}
    /\ sent = {}
    /\ failed = FALSE
    /\ received = Zero
    /\ flushPc = [f \in Flushers |-> "idle"]
    /\ owed = [f \in Flushers |-> Zero]

-----------------------------------------------------------------------------
(* The registry counts a release under its mutex and calls the sink later, *)
(* without it.                                                             *)
Release(g) ==
    /\ released[g] < MaxSeq
    /\ released' = [released EXCEPT ![g] = @ + 1]
    /\ unmarked' = unmarked \cup {[group |-> g, seq |-> released[g] + 1]}
    /\ UNCHANGED <<markVars, wake, force, runVars, received, flushVars>>

Larger(m, n) == IF m > n THEN m ELSE n

(* MarkDirty, in any order of the sequences, and the signal that ends it.  *)
MarkDirty(x) ==
    /\ x \in unmarked
    /\ unmarked' = unmarked \ {x}
    /\ \/ /\ x.seq <= acked[x.group]
          /\ completed' = completed \cup {x}
          /\ UNCHANGED <<latest, waiters, pending>>
       \/ /\ x.seq > acked[x.group]
          /\ waiters' = waiters \cup {x}
          /\ latest' = [latest EXCEPT ![x.group] = Larger(x.seq, @)]
          /\ pending' = [pending EXCEPT ![x.group] = Larger(x.seq, @)]
          /\ UNCHANGED completed
    /\ wake' = TRUE
    /\ UNCHANGED <<released, acked, force, runVars, received, flushVars>>

Idle == \A g \in Groups : pending[g] = 0

-----------------------------------------------------------------------------
(* runHomeSubscriber: SetConfigProvider and SetSender for the new client   *)
(* (both signal), then go Run, which starts with an expired timer.         *)
StartRun ==
    /\ run = "off"
    /\ lifetime < MaxLifetime
    /\ lifetime' = lifetime + 1
    /\ run' = "select"
    /\ cancelled' = FALSE
    /\ timer' = TRUE
    /\ backingOff' = FALSE
    /\ wake' = TRUE
    /\ UNCHANGED <<released, unmarked, markVars, force, todo, sent, failed, received,
                   flushVars>>

(* releaseCancel.                                                          *)
CancelRun ==
    /\ run # "off"
    /\ ~cancelled
    /\ lifetime < MaxLifetime
    /\ cancelled' = TRUE
    /\ UNCHANGED <<released, unmarked, markVars, wake, force, run, lifetime, timer,
                   backingOff, todo, sent, failed, received, flushVars>>

RunDone ==
    /\ run = "select"
    /\ cancelled
    /\ run' = "off"
    /\ timer' = FALSE
    /\ UNCHANGED <<released, unmarked, markVars, wake, force, lifetime, cancelled, backingOff,
                   todo, sent, failed, received, flushVars>>

(* Mutant: the wake case forgets to restart the timer.                     *)
RunWakeOnly ==
    /\ run = "select"
    /\ wake
    /\ wake' = FALSE
    /\ UNCHANGED <<released, unmarked, markVars, force, runVars, received, flushVars>>

(* case <-f.wake: restart the timer at zero unless backing off.            *)
RunWake ==
    /\ run = "select"
    /\ wake
    /\ wake' = FALSE
    /\ timer' = (timer \/ ~backingOff)
    /\ UNCHANGED <<released, unmarked, markVars, force, run, lifetime, cancelled, backingOff,
                   todo, sent, failed, received, flushVars>>

(* case forceCtx := <-f.force: flush at once, backing off or not.          *)
RunForce ==
    /\ run = "select"
    /\ force # NoForce
    /\ force' = NoForce
    /\ timer' = TRUE
    /\ run' = "copy"
    /\ UNCHANGED <<released, unmarked, markVars, wake, lifetime, cancelled, backingOff, todo,
                   sent, failed, received, flushVars>>

(* case <-timerC.                                                          *)
RunTimer ==
    /\ run = "select"
    /\ timer
    /\ timer' = FALSE
    /\ run' = "copy"
    /\ UNCHANGED <<released, unmarked, markVars, wake, force, lifetime, cancelled, backingOff,
                   todo, sent, failed, received, flushVars>>

(* Mutant: flush sends the sequence after the recorded one.                *)
FlushCopyNext ==
    /\ run = "copy"
    /\ failed' = FALSE
    /\ todo' = {[group |-> g, seq |-> pending[g] + 1] : g \in {h \in Groups : pending[h] > 0}}
    /\ run' = "send"
    /\ UNCHANGED <<released, unmarked, markVars, wake, force, lifetime, cancelled, timer,
                   backingOff, sent, received, flushVars>>

(* flush copies the pending sequences under the mutex; an empty copy makes *)
(* it return at once.                                                      *)
FlushCopy ==
    /\ run = "copy"
    /\ failed' = FALSE
    /\ todo' = {[group |-> g, seq |-> pending[g]] : g \in {h \in Groups : pending[h] > 0}}
    /\ run' = "send"
    /\ UNCHANGED <<released, unmarked, markVars, wake, force, lifetime, cancelled, timer,
                   backingOff, sent, received, flushVars>>

(* Home keeps the largest sequence of a group.                             *)
HomeReceives(x) == received' = [received EXCEPT ![x.group] = Larger(x.seq, @)]

(* send returned nil: Home has the frame.                                  *)
SendOk(x) ==
    /\ run = "send"
    /\ x \in todo
    /\ todo' = todo \ {x}
    /\ sent' = {x}
    /\ run' = "ack"
    /\ HomeReceives(x)
    /\ UNCHANGED <<released, unmarked, markVars, wake, force, lifetime, cancelled, timer,
                   backingOff, failed, flushVars>>

(* Mutant: a failed send is accounted like a successful one.               *)
SendErrorIgnored(x) ==
    /\ run = "send"
    /\ x \in todo
    /\ todo' = todo \ {x}
    /\ sent' = {x}
    /\ run' = "ack"
    /\ \/ HomeReceives(x)
       \/ UNCHANGED received
    /\ UNCHANGED <<released, unmarked, markVars, wake, force, lifetime, cancelled, timer,
                   backingOff, failed, flushVars>>

(* send returned an error: the frame was lost, or only its answer was.     *)
SendError(x) ==
    /\ run = "send"
    /\ x \in todo
    /\ todo' = todo \ {x}
    /\ failed' = TRUE
    /\ \/ HomeReceives(x)
       \/ UNCHANGED received
    /\ UNCHANGED <<released, unmarked, markVars, wake, force, run, lifetime, cancelled, timer,
                   backingOff, sent, flushVars>>

(* Mutants of the accounting: the entry of the group is deleted even when  *)
(* a newer sequence was recorded during the send; only the waiters of      *)
(* exactly the acknowledged sequence are completed.                        *)
AckDropsPending(x) ==
    /\ run = "ack"
    /\ x \in sent
    /\ sent' = {}
    /\ run' = "send"
    /\ acked' = [acked EXCEPT ![x.group] = Larger(x.seq, @)]
    /\ LET reached == {w \in waiters : w.group = x.group /\ w.seq <= x.seq}
       IN  waiters' = waiters \ reached /\ completed' = completed \cup reached
    /\ pending' = [pending EXCEPT ![x.group] = 0]
    /\ UNCHANGED <<released, unmarked, latest, wake, force, lifetime, cancelled, timer,
                   backingOff, todo, failed, received, flushVars>>

AckExactWaiter(x) ==
    /\ run = "ack"
    /\ x \in sent
    /\ sent' = {}
    /\ run' = "send"
    /\ acked' = [acked EXCEPT ![x.group] = Larger(x.seq, @)]
    /\ waiters' = waiters \ {x}
    /\ completed' = completed \cup (waiters \cap {x})
    /\ pending' = [pending EXCEPT ![x.group] = IF @ <= x.seq THEN 0 ELSE @]
    /\ UNCHANGED <<released, unmarked, latest, wake, force, lifetime, cancelled, timer,
                   backingOff, todo, failed, received, flushVars>>

(* The rest of the loop body, under the mutex again: account the           *)
(* acknowledged sequence, complete the tickets it covers, and delete the   *)
(* entry unless a newer sequence was recorded meanwhile.                   *)
Ack(x) ==
    /\ run = "ack"
    /\ x \in sent
    /\ sent' = {}
    /\ run' = "send"
    /\ IF x.seq > acked[x.group]
       THEN LET reached == {w \in waiters : w.group = x.group /\ w.seq <= x.seq}
            IN  /\ acked' = [acked EXCEPT ![x.group] = x.seq]
                /\ waiters' = waiters \ reached
                /\ completed' = completed \cup reached
       ELSE UNCHANGED <<acked, waiters, completed>>
    /\ pending' = [pending EXCEPT ![x.group] = IF @ <= acked'[x.group] THEN 0 ELSE @]
    /\ UNCHANGED <<released, unmarked, latest, wake, force, lifetime, cancelled, timer,
                   backingOff, todo, failed, received, flushVars>>

FlushEnd ==
    /\ run = "send"
    /\ todo = {}
    /\ run' = "settle"
    /\ UNCHANGED <<released, unmarked, markVars, wake, force, lifetime, cancelled, timer,
                   backingOff, todo, sent, failed, received, flushVars>>

(* nextDelay, and the choice between sleeping and the next timer.          *)
Settle ==
    /\ run = "settle"
    /\ backingOff' = failed
    /\ timer' = ~(Idle /\ ~failed)
    /\ run' = "select"
    /\ UNCHANGED <<released, unmarked, markVars, wake, force, lifetime, cancelled, todo, sent,
                   failed, received, flushVars>>

-----------------------------------------------------------------------------
(* Flush: force one flush if the channel has room, then poll idle.         *)
Flush(f) ==
    /\ flushPc[f] = "idle"
    /\ flushPc' = [flushPc EXCEPT ![f] = "poll"]
    /\ owed' = [owed EXCEPT ![f] = latest]
    /\ force' = IF force = NoForce THEN f ELSE force
    /\ UNCHANGED <<released, unmarked, markVars, wake, runVars, received>>

(* Mutant: Flush returns once its force token was taken.                   *)
FlushPollForce(f) ==
    /\ flushPc[f] = "poll"
    /\ force # f
    /\ flushPc' = [flushPc EXCEPT ![f] = "ok"]
    /\ UNCHANGED <<released, unmarked, markVars, wake, force, runVars, received, owed>>

FlushPoll(f) ==
    /\ flushPc[f] = "poll"
    /\ Idle
    /\ flushPc' = [flushPc EXCEPT ![f] = "ok"]
    /\ UNCHANGED <<released, unmarked, markVars, wake, force, runVars, received, owed>>

(* The context of Flush expired first.                                     *)
FlushExpire(f) ==
    /\ flushPc[f] = "poll"
    /\ flushPc' = [flushPc EXCEPT ![f] = "failed"]
    /\ UNCHANGED <<released, unmarked, markVars, wake, force, runVars, received, owed>>

-----------------------------------------------------------------------------
RunStep ==
    \/ RunWake
    \/ RunForce
    \/ RunTimer
    \/ FlushCopy
    \/ \E x \in todo : SendOk(x) \/ SendError(x)
    \/ \E x \in sent : Ack(x)
    \/ FlushEnd
    \/ Settle

FlusherNext ==
    \/ \E g \in Groups : Release(g)
    \/ \E x \in unmarked : MarkDirty(x)
    \/ StartRun
    \/ CancelRun
    \/ RunDone
    \/ RunStep
    \/ \E f \in Flushers : Flush(f) \/ FlushPoll(f) \/ FlushExpire(f)

FlusherSpec == FlusherInit /\ [][FlusherNext]_releaseVars

(***************************************************************************)
(* Fairness.  The goroutines run: the registry makes the calls it owes,    *)
(* Run takes its steps, and runHomeSubscriber starts the next lifetime.    *)
(* Of Home only this is assumed: frames of a group that are sent again and *)
(* again are eventually accepted.                                          *)
(***************************************************************************)
Fairness ==
    /\ WF_releaseVars(\E x \in unmarked : MarkDirty(x))
    /\ WF_releaseVars(StartRun)
    /\ WF_releaseVars(RunStep)
    /\ \A g \in Groups : SF_releaseVars(\E x \in todo : x.group = g /\ SendOk(x))
    /\ \A f \in Flushers : WF_releaseVars(FlushPoll(f))

FairSpec == FlusherSpec /\ Fairness
-----------------------------------------------------------------------------
(* Every variable stays in its range.                                      *)
TypeOK ==
    /\ released \in [Groups -> 0..MaxSeq]
    /\ received \in [Groups -> 0..MaxSeq]
    /\ latest \in [Groups -> 0..MaxSeq]
    /\ acked \in [Groups -> 0..MaxSeq]
    /\ pending \in [Groups -> 0..MaxSeq]
    /\ unmarked \subseteq Frames
    /\ waiters \subseteq Frames
    /\ completed \subseteq Frames
    /\ wake \in BOOLEAN
    /\ cancelled \in BOOLEAN
    /\ timer \in BOOLEAN
    /\ backingOff \in BOOLEAN
    /\ failed \in BOOLEAN
    /\ force \in Flushers \cup {NoForce}
    /\ run \in RunPcs
    /\ lifetime \in 0..MaxLifetime
    /\ todo \subseteq Frames
    /\ sent \subseteq Frames
    /\ flushPc \in [Flushers -> FlushPcs]
    /\ owed \in [Flushers -> [Groups -> 0..MaxSeq]]

(* No release is forgotten while it is being sent: a group without an      *)
(* entry in pending is acknowledged up to its latest sequence, and an      *)
(* entry is exactly that sequence.                                         *)
NothingForgotten ==
    \A g \in Groups :
        /\ acked[g] <= latest[g]
        /\ pending[g] = IF acked[g] = latest[g] THEN 0 ELSE latest[g]

(* What the flusher takes as acknowledged was received by Home, and Home   *)
(* was never told of a release that did not happen, whatever was lost,     *)
(* repeated or reordered on the way.                                       *)
AckedIsReceived ==
    \A g \in Groups : acked[g] <= received[g] /\ received[g] <= released[g]

(* Between the registry and Home no release is lost and none invented.     *)
NothingLost == NothingForgotten /\ AckedIsReceived

(* The ticket of a release is completed exactly when Home acknowledged a   *)
(* sequence that covers it; every other ticket still waits.                *)
TicketsExact ==
    \A x \in Frames :
        released[x.group] >= x.seq /\ x \notin unmarked =>
            /\ x \in completed <=> x.seq <= acked[x.group]
            /\ x \in waiters <=> x.seq > acked[x.group]

(* Run never sleeps on dirty groups: in its select with work pending, the  *)
(* timer runs or a wake token is waiting.                                  *)
RunNeverSleepsOnWork == run = "select" /\ ~Idle => timer \/ wake

(* A Flush that returned nil left everything that was dirty when it was    *)
(* called acknowledged by Home.                                            *)
FlushedAll ==
    \A f \in Flushers : flushPc[f] = "ok" => \A g \in Groups : owed[f][g] <= received[g]

Home == INSTANCE CumulativeRelease

(* The flusher and its lossy connection implement the cumulative release   *)
(* channel that Home's accounting relies on.                               *)
ImplementsCumulativeRelease == Home!Spec

(* Every ticket is eventually completed, over failed sends and over client *)
(* lifetimes that end in the middle of a flush.                            *)
TicketsComplete ==
    \A x \in Frames : (released[x.group] >= x.seq) ~> (x \in completed)
=============================================================================
