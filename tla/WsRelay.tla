------------------------------ MODULE WsRelay ------------------------------
(***************************************************************************)
(* The websocket relay (internal/wsrelay): a Manager with one session per  *)
(* connected provider, and in every session the pending requests whose     *)
(* answers arrive as frames on the one websocket connection.               *)
(*                                                                         *)
(* Goroutines: the HTTP handler that registers a session, the session's    *)
(* reader (run), the winner of the session's closeOnce (cleanup), the      *)
(* context.AfterFunc of a request, the caller of NonStream or Stream, and  *)
(* Stop.  A step is one operation on the sync.Map, on sessMutex, on a      *)
(* channel, or one critical section of pendingRequest.mu.  The mutex is    *)
(* held over several steps in two places only: a reader that waits in      *)
(* deliver's select, and cancelWithError on a full channel.                *)
(*                                                                         *)
(* A frame is <<request, n>>: 1..Last-1 are stream frames, Last is the     *)
(* terminal one, and 0 is the error frame that cancelWithError makes up.   *)
(* Message ids are UUIDs, so a request is its own id.  The first heartbeat *)
(* comes heartbeatInterval after the upgrade, long after registration.     *)
(***************************************************************************)
EXTENDS Integers, Sequences, FiniteSets

CONSTANTS
    Sessions,        \* websocket connections
    Providers,       \* provider names
    Requests,        \* calls of NonStream or Stream
    NonStreamCalls,  \* those that are calls of NonStream
    None,            \* no session, no request
    Last,            \* frames of one answer
    Buffer           \* pendingChannelBuffer

ASSUME WsRelayAssumption ==
    /\ Last \in Nat \ {0}
    /\ Buffer \in Nat \ {0}
    /\ NonStreamCalls \subseteq Requests
    /\ None \notin Sessions \cup Providers \cup Requests

VARIABLES
    handler,     \* progress of handleWebsocket
    provider,    \* session.provider
    replaced,    \* handleWebsocket's local replaced
    sessions,    \* Manager.sessions
    stopping,    \* the sessions Stop has taken and not cleaned up yet
    stopAt,      \* the session Stop is cleaning up
    closed,      \* sessions whose closed channel is closed
    cleaner,     \* progress of cleanup: [pc, req, todo]
    wire,        \* frames on their way from the provider to the reader
    reader,      \* progress of run and dispatch: [pc, req, n, delivered]
    pending,     \* session.pending
    ch,          \* pendingRequest.ch
    prClosed,    \* pendingRequest.closed, and ch is closed
    terminal,    \* pendingRequest.terminal
    done,        \* pendingRequest.done is closed
    stopCancel,  \* pendingRequest.stopCancel is set
    squeeze,     \* cancelWithError found the channel full and holds the mutex
    after,       \* the AfterFunc of the request
    caller,      \* progress of NonStream or Stream
    target,      \* the session the caller found
    ctxDone,     \* requests whose context is done
    peer,        \* frames the provider has sent; -1: it has not got the request
    got,         \* frames of the answer the caller has received
    result       \* what the call returned

mgrVars == <<handler, provider, replaced, sessions, stopping, stopAt>>
prVars == <<ch, prClosed, terminal, done, stopCancel, squeeze, after>>
callVars == <<caller, target, ctxDone, got, result>>
vars == <<mgrVars, closed, cleaner, wire, reader, pending, prVars, callVars, peer>>

Frames == Requests \X (1..Last)
Idle == [pc |-> "none", req |-> None, todo |-> {}]
NotRunning == [pc |-> "none", req |-> None, n |-> 0, delivered |-> FALSE]

Init ==
    /\ handler = [s \in Sessions |-> "absent"]
    /\ provider = [s \in Sessions |-> None]
    /\ replaced = [s \in Sessions |-> None]
    /\ sessions = [p \in Providers |-> None]
    /\ stopping = {}
    /\ stopAt = None
    /\ closed = {}
    /\ cleaner = [s \in Sessions |-> Idle]
    /\ wire = [s \in Sessions |-> <<>>]
    /\ reader = [s \in Sessions |-> NotRunning]
    /\ pending = [s \in Sessions |-> {}]
    /\ ch = [r \in Requests |-> <<>>]
    /\ prClosed = [r \in Requests |-> FALSE]
    /\ terminal = [r \in Requests |-> FALSE]
    /\ done = [r \in Requests |-> FALSE]
    /\ stopCancel = [r \in Requests |-> FALSE]
    /\ squeeze = [r \in Requests |-> FALSE]
    /\ after = [r \in Requests |-> "unset"]
    /\ caller = [r \in Requests |-> "idle"]
    /\ target = [r \in Requests |-> None]
    /\ ctxDone = {}
    /\ peer = [r \in Requests |-> -1]
    /\ got = [r \in Requests |-> 0]
    /\ result = [r \in Requests |-> "none"]

-----------------------------------------------------------------------------
(* pendingRequest                                                          *)

(* The request's cancelWithError, whose caller waits for it, is not over.  *)
Squeezing(r) == \E q \in Requests : q = r /\ squeeze[q]

(* Someone waits while holding pendingRequest.mu.                          *)
Locked(r) ==
    \/ squeeze[r]
    \/ \E s \in Sessions : reader[s].pc = "select" /\ reader[s].req = r

(* A closer calls stopCancel, if request() has set it already.             *)
StopAfter(r) ==
    after' = IF stopCancel[r] /\ after[r] = "armed"
             THEN [after EXCEPT ![r] = "stopped"] ELSE after

(* close: the channel is closed, done is not.                              *)
Close(r) ==
    /\ ~ Locked(r)
    /\ IF prClosed[r]
       THEN UNCHANGED prVars
       ELSE /\ prClosed' = [prClosed EXCEPT ![r] = TRUE]
            /\ StopAfter(r)
            /\ UNCHANGED <<ch, terminal, done, stopCancel, squeeze>>

(* cancel: done and the channel are closed, without an error frame.        *)
Cancel(r) ==
    /\ ~ Locked(r)
    /\ IF prClosed[r]
       THEN UNCHANGED prVars
       ELSE /\ prClosed' = [prClosed EXCEPT ![r] = TRUE]
            /\ done' = [done EXCEPT ![r] = TRUE]
            /\ StopAfter(r)
            /\ UNCHANGED <<ch, terminal, stopCancel, squeeze>>

(* A plausible slip: without room the error frame is just dropped.         *)
CancelWithErrorNoRoom(r) ==
    /\ ~ Locked(r)
    /\ IF prClosed[r]
       THEN UNCHANGED prVars
       ELSE /\ done' = [done EXCEPT ![r] = TRUE]
            /\ StopAfter(r)
            /\ prClosed' = [prClosed EXCEPT ![r] = TRUE]
            /\ ch' = IF terminal[r] \/ Len(ch[r]) = Buffer THEN ch
                     ELSE [ch EXCEPT ![r] = Append(@, 0)]
            /\ UNCHANGED <<terminal, stopCancel, squeeze>>

(* cancelWithError: an error frame is the last one, unless the terminal    *)
(* frame is already in the channel.  When the channel is full the mutex    *)
(* stays held until Squeeze has made room.                                 *)
CancelWithError(r) ==
    /\ ~ Locked(r)
    /\ IF prClosed[r]
       THEN UNCHANGED prVars
       ELSE LET full == ~ terminal[r] /\ Len(ch[r]) = Buffer IN
            /\ done' = [done EXCEPT ![r] = TRUE]
            /\ StopAfter(r)
            /\ squeeze' = [squeeze EXCEPT ![r] = full]
            /\ prClosed' = [prClosed EXCEPT ![r] = ~ full]
            /\ ch' = IF terminal[r] \/ full THEN ch
                     ELSE [ch EXCEPT ![r] = Append(@, 0)]
            /\ UNCHANGED <<terminal, stopCancel>>

(* The rest of cancelWithError: drop the oldest frame, send, close.        *)
Squeeze(r) ==
    /\ squeeze[r]
    /\ squeeze' = [squeeze EXCEPT ![r] = FALSE]
    /\ prClosed' = [prClosed EXCEPT ![r] = TRUE]
    /\ ch' = [ch EXCEPT ![r] = Append(IF @ = <<>> THEN @ ELSE Tail(@), 0)]
    /\ UNCHANGED <<mgrVars, closed, cleaner, wire, reader, pending, terminal,
                   done, stopCancel, after, callVars, peer>>

-----------------------------------------------------------------------------
(* session.cleanup, run once by whoever wins closeOnce                     *)

BeginCleanup(s) ==
    /\ s \notin closed
    /\ closed' = closed \cup {s}
    /\ cleaner' = [cleaner EXCEPT ![s].pc = "closed"]

(* Range visits at least every key that is there when it starts.           *)
CleanRange(s) ==
    /\ cleaner[s].pc = "closed"
    /\ cleaner' = [cleaner EXCEPT ![s].pc = "range", ![s].todo = pending[s]]
    /\ UNCHANGED <<mgrVars, closed, wire, reader, pending, prVars, callVars, peer>>

CleanTake(s, r) ==
    /\ cleaner[s].pc = "range"
    /\ ~ Squeezing(cleaner[s].req)
    /\ r \in pending[s]
    /\ pending' = [pending EXCEPT ![s] = @ \ {r}]
    /\ cleaner' = [cleaner EXCEPT ![s].pc = "cancel", ![s].req = r]
    /\ UNCHANGED <<mgrVars, closed, wire, reader, prVars, callVars, peer>>

CleanCancel(s) ==
    /\ cleaner[s].pc = "cancel"
    /\ CancelWithError(cleaner[s].req)
    /\ cleaner' = [cleaner EXCEPT ![s].pc = "range"]
    /\ UNCHANGED <<mgrVars, closed, wire, reader, pending, callVars, peer>>

(* A plausible slip: the name is deleted whoever owns it.                  *)
ForgetAnySession(s) ==
    sessions' = IF provider[s] # None
                THEN [sessions EXCEPT ![provider[s]] = None] ELSE sessions

(* The connection is closed and handleSessionClosed takes the session out  *)
(* of the map, unless a newer one has its place.                           *)
ForgetSession(s) ==
    sessions' = IF provider[s] # None /\ sessions[provider[s]] = s
                THEN [sessions EXCEPT ![provider[s]] = None] ELSE sessions

CleanEnd(s) ==
    /\ cleaner[s].pc = "range"
    /\ ~ Squeezing(cleaner[s].req)
    /\ cleaner[s].todo \cap pending[s] = {}
    /\ cleaner' = [cleaner EXCEPT ![s] = [Idle EXCEPT !.pc = "done"]]
    /\ ForgetSession(s)
    /\ UNCHANGED <<handler, provider, replaced, stopping, stopAt, closed, wire,
                   reader, pending, prVars, callVars, peer>>

(* A write of the heartbeat fails.                                         *)
HeartbeatFails(s) ==
    /\ handler[s] \in {"replacing", "registered", "running"}
    /\ BeginCleanup(s)
    /\ UNCHANGED <<mgrVars, wire, reader, pending, prVars, callVars, peer>>

-----------------------------------------------------------------------------
(* Manager                                                                 *)

(* handleWebsocket up to the unlock of sessMutex.                          *)
Register(s, p) ==
    /\ handler[s] = "absent"
    /\ provider' = [provider EXCEPT ![s] = p]
    /\ replaced' = [replaced EXCEPT ![s] = sessions[p]]
    /\ sessions' = [sessions EXCEPT ![p] = s]
    /\ handler' = [handler EXCEPT ![s] = IF sessions[p] = None
                                         THEN "registered" ELSE "replacing"]
    /\ UNCHANGED <<stopping, stopAt, closed, cleaner, wire, reader, pending,
                   prVars, callVars, peer>>

(* providerFactory refuses the connection.                                 *)
Refuse(s) ==
    /\ handler[s] = "absent"
    /\ handler' = [handler EXCEPT ![s] = "refused"]
    /\ BeginCleanup(s)
    /\ UNCHANGED <<provider, replaced, sessions, stopping, stopAt, wire, reader,
                   pending, prVars, callVars, peer>>

(* replaced.cleanup, by this handler or by whoever came first.             *)
CleanReplaced(s) ==
    /\ handler[s] = "replacing"
    /\ BeginCleanup(replaced[s])
    /\ UNCHANGED <<mgrVars, wire, reader, pending, prVars, callVars, peer>>

Replaced(s) ==
    /\ handler[s] = "replacing"
    /\ cleaner[replaced[s]].pc = "done"
    /\ handler' = [handler EXCEPT ![s] = "registered"]
    /\ UNCHANGED <<provider, replaced, sessions, stopping, stopAt, closed, cleaner,
                   wire, reader, pending, prVars, callVars, peer>>

(* onConnected, go s.run.                                                  *)
StartReader(s) ==
    /\ handler[s] = "registered"
    /\ handler' = [handler EXCEPT ![s] = "running"]
    /\ reader' = [reader EXCEPT ![s].pc = "read"]
    /\ UNCHANGED <<provider, replaced, sessions, stopping, stopAt, closed, cleaner,
                   wire, pending, prVars, callVars, peer>>

(* Stop takes every session and leaves an empty map ...                    *)
Stop ==
    /\ stopping = {}
    /\ \E p \in Providers : sessions[p] # None
    /\ stopping' = {sessions[p] : p \in Providers} \ {None}
    /\ sessions' = [p \in Providers |-> None]
    /\ UNCHANGED <<handler, provider, replaced, stopAt, closed, cleaner, wire,
                   reader, pending, prVars, callVars, peer>>

(* ... and cleans the sessions up one after the other.                     *)
StopNext(s) ==
    /\ s \in stopping
    /\ stopAt = None
    /\ stopAt' = s
    /\ \/ BeginCleanup(s)
       \/ s \in closed /\ UNCHANGED <<closed, cleaner>>
    /\ UNCHANGED <<handler, provider, replaced, sessions, stopping, wire, reader,
                   pending, prVars, callVars, peer>>

StopDone ==
    /\ stopAt # None
    /\ cleaner[stopAt].pc = "done"
    /\ stopping' = stopping \ {stopAt}
    /\ stopAt' = None
    /\ UNCHANGED <<handler, provider, replaced, sessions, closed, cleaner, wire,
                   reader, pending, prVars, callVars, peer>>

-----------------------------------------------------------------------------
(* session.run and session.dispatch                                        *)

ReaderFrame == <<mgrVars, closed, cleaner, callVars, peer>>

(* A frame whose id is not pending is dropped.                             *)
Read(s) ==
    /\ reader[s].pc = "read"
    /\ ~ Squeezing(reader[s].req)
    /\ wire[s] # <<>>
    /\ wire' = [wire EXCEPT ![s] = Tail(@)]
    /\ LET r == Head(wire[s])[1] IN
       reader' = [reader EXCEPT ![s] =
                    IF r \in pending[s]
                    THEN [pc |-> "lock", req |-> r, n |-> Head(wire[s])[2],
                          delivered |-> FALSE]
                    ELSE [NotRunning EXCEPT !.pc = "read"]]
    /\ UNCHANGED <<ReaderFrame, pending, prVars>>

(* ReadJSON fails; run calls cleanup, or waits for the one that runs.      *)
ReadFails(s) ==
    /\ reader[s].pc = "read"
    /\ ~ Squeezing(reader[s].req)
    /\ reader' = [reader EXCEPT ![s] = [NotRunning EXCEPT !.pc = "exit"]]
    /\ \/ BeginCleanup(s)
       \/ s \in closed /\ UNCHANGED <<closed, cleaner>>
    /\ UNCHANGED <<mgrVars, wire, pending, prVars, callVars, peer>>

(* What deliver's return value leads to.                                   *)
AfterDeliver(s, delivered) ==
    reader' = [reader EXCEPT ![s].pc = IF reader[s].n < Last THEN "read" ELSE "settle",
                             ![s].delivered = delivered]

(* A plausible slip: deliver does not look again under the mutex.          *)
DeliverLockNoRecheck(s) ==
    /\ reader[s].pc = "lock"
    /\ ~ Locked(reader[s].req)
    /\ reader' = [reader EXCEPT ![s].pc = "select"]
    /\ UNCHANGED <<ReaderFrame, wire, pending, prVars>>

(* deliver and deliverTerminal lock the mutex and look at closed/terminal. *)
DeliverLock(s) ==
    /\ reader[s].pc = "lock"
    /\ ~ Locked(reader[s].req)
    /\ LET r == reader[s].req IN
       IF prClosed[r] \/ terminal[r]
       THEN AfterDeliver(s, FALSE)
       ELSE reader' = [reader EXCEPT ![s].pc = "select"]
    /\ UNCHANGED <<ReaderFrame, wire, pending, prVars>>

(* select: the channel has room.                                           *)
DeliverSend(s) ==
    /\ reader[s].pc = "select"
    /\ Len(ch[reader[s].req]) < Buffer
    /\ ch' = [ch EXCEPT ![reader[s].req] = Append(@, reader[s].n)]
    /\ terminal' = [terminal EXCEPT ![reader[s].req] = reader[s].n = Last]
    /\ AfterDeliver(s, TRUE)
    /\ UNCHANGED <<ReaderFrame, wire, pending, prClosed, done, stopCancel, squeeze, after>>

(* A plausible slip: the select does not watch the session.                *)
DeliverGiveUpDeaf(s) ==
    /\ reader[s].pc = "select"
    /\ done[reader[s].req] \/ reader[s].req \in ctxDone
    /\ AfterDeliver(s, FALSE)
    /\ UNCHANGED <<ReaderFrame, wire, pending, prVars>>

(* A plausible slip: a full channel drops the frame.                       *)
DeliverGiveUpFull(s) ==
    /\ reader[s].pc = "select"
    /\ \/ done[reader[s].req] \/ s \in closed \/ reader[s].req \in ctxDone
       \/ Len(ch[reader[s].req]) = Buffer
    /\ AfterDeliver(s, FALSE)
    /\ UNCHANGED <<ReaderFrame, wire, pending, prVars>>

(* select: done, the session's closed channel or the context is ready.     *)
DeliverGiveUp(s) ==
    /\ reader[s].pc = "select"
    /\ done[reader[s].req] \/ s \in closed \/ reader[s].req \in ctxDone
    /\ AfterDeliver(s, FALSE)
    /\ UNCHANGED <<ReaderFrame, wire, pending, prVars>>

(* The terminal frame takes the request out of the map; if it is still     *)
(* there, close after a delivery, and otherwise an error with its cause or *)
(* a bare cancel.                                                          *)
Settle(s) ==
    /\ reader[s].pc = "settle"
    /\ LET r == reader[s].req IN
       IF r \in pending[s]
       THEN /\ pending' = [pending EXCEPT ![s] = @ \ {r}]
            /\ IF reader[s].delivered THEN Close(r)
               ELSE IF s \in closed \/ r \in ctxDone THEN CancelWithError(r)
               ELSE Cancel(r)
       ELSE UNCHANGED <<pending, prVars>>
    /\ reader' = [reader EXCEPT ![s].pc = "read"]
    /\ UNCHANGED <<ReaderFrame, wire>>

(* The provider sends the next frame of an answer, if it is still there.   *)
PeerSends(r) ==
    /\ peer[r] \in 0..(Last - 1)
    /\ cleaner[target[r]].pc # "done"
    /\ peer' = [peer EXCEPT ![r] = @ + 1]
    /\ wire' = [wire EXCEPT ![target[r]] = Append(@, <<r, peer[r] + 1>>)]
    /\ UNCHANGED <<mgrVars, closed, cleaner, reader, pending, prVars, callVars>>

-----------------------------------------------------------------------------
(* session.request and its caller, NonStream or Stream                     *)

CallerFrame == <<mgrVars, closed, cleaner, wire, reader>>

Return(r, res) ==
    /\ caller' = [caller EXCEPT ![r] = "returned"]
    /\ result' = [result EXCEPT ![r] = res]

(* Manager.Send looks the session up.                                      *)
Send(r, p) ==
    /\ caller[r] = "idle"
    /\ IF sessions[p] = None
       THEN Return(r, "failed") /\ UNCHANGED target
       ELSE /\ caller' = [caller EXCEPT ![r] = "store"]
            /\ target' = [target EXCEPT ![r] = sessions[p]]
            /\ UNCHANGED result
    /\ UNCHANGED <<CallerFrame, pending, prVars, ctxDone, peer, got>>

Store(r) ==
    /\ caller[r] = "store"
    /\ caller' = [caller EXCEPT ![r] = "after"]
    /\ pending' = [pending EXCEPT ![target[r]] = @ \cup {r}]
    /\ UNCHANGED <<CallerFrame, prVars, target, ctxDone, peer, got, result>>

AfterFunc(r) ==
    /\ caller[r] = "after"
    /\ caller' = [caller EXCEPT ![r] = "setStop"]
    /\ after' = [after EXCEPT ![r] = "armed"]
    /\ UNCHANGED <<CallerFrame, pending, ch, prClosed, terminal, done, stopCancel,
                   squeeze, target, ctxDone, peer, got, result>>

SetStopCancel(r) ==
    /\ caller[r] = "setStop"
    /\ ~ Locked(r)
    /\ caller' = [caller EXCEPT ![r] = "check"]
    /\ stopCancel' = [stopCancel EXCEPT ![r] = TRUE]
    /\ UNCHANGED <<CallerFrame, pending, ch, prClosed, terminal, done, squeeze, after,
                   target, ctxDone, peer, got, result>>

(* A plausible slip: only the write tells whether the session is closed.   *)
CheckNothing(r) ==
    /\ caller[r] = "check"
    /\ caller' = [caller EXCEPT ![r] = "write"]
    /\ UNCHANGED <<CallerFrame, pending, prVars, target, ctxDone, peer, got, result>>

(* send looks at the session's closed channel before it writes.            *)
CheckClosed(r) ==
    /\ caller[r] = "check"
    /\ caller' = [caller EXCEPT ![r] = IF target[r] \in closed THEN "undo" ELSE "write"]
    /\ UNCHANGED <<CallerFrame, pending, prVars, target, ctxDone, peer, got, result>>

(* The frame goes out while the connection is open; a write into a         *)
(* connection that is breaking may still seem to succeed.                  *)
WriteSucceeds(r) ==
    /\ caller[r] = "write"
    /\ cleaner[target[r]].pc # "done"
    /\ caller' = [caller EXCEPT ![r] = "receive"]
    /\ peer' = [peer EXCEPT ![r] = 0]
    /\ UNCHANGED <<CallerFrame, pending, prVars, target, ctxDone, got, result>>

WriteFails(r) ==
    /\ caller[r] = "write"
    /\ caller' = [caller EXCEPT ![r] = "undo"]
    /\ UNCHANGED <<CallerFrame, pending, prVars, target, ctxDone, peer, got, result>>

(* send failed: take the request back, if nobody else has taken it.        *)
Undo(r) ==
    /\ caller[r] = "undo"
    /\ IF r \in pending[target[r]]
       THEN /\ pending' = [pending EXCEPT ![target[r]] = @ \ {r}]
            /\ Close(r)
       ELSE UNCHANGED <<pending, prVars>>
    /\ Return(r, "failed")
    /\ UNCHANGED <<CallerFrame, target, ctxDone, peer, got>>

(* The loop of NonStream and Stream takes a frame.                         *)
Receive(r) ==
    /\ caller[r] = "receive"
    /\ ch[r] # <<>>
    /\ ch' = [ch EXCEPT ![r] = Tail(@)]
    /\ IF Head(ch[r]) = 0
       THEN Return(r, "failed") /\ UNCHANGED got
       ELSE /\ got' = [got EXCEPT ![r] = @ + 1]
            /\ IF Head(ch[r]) = Last THEN Return(r, "ok")
               ELSE UNCHANGED <<caller, result>>
    /\ UNCHANGED <<CallerFrame, pending, prClosed, terminal, done, stopCancel, squeeze,
                   after, target, ctxDone, peer>>

(* The channel is closed and empty: Stream reports it, and so does         *)
(* NonStream unless it has seen a stream frame; then it returns what it    *)
(* has as a response.                                                      *)
ReceiveClosed(r) ==
    /\ caller[r] = "receive"
    /\ ch[r] = <<>>
    /\ prClosed[r]
    /\ Return(r, IF r \in NonStreamCalls /\ got[r] > 0 THEN "ok" ELSE "failed")
    /\ UNCHANGED <<CallerFrame, pending, prVars, target, ctxDone, peer, got>>

ReceiveCtx(r) ==
    /\ caller[r] = "receive"
    /\ r \in ctxDone
    /\ Return(r, "ctx")
    /\ UNCHANGED <<CallerFrame, pending, prVars, target, ctxDone, peer, got>>

CancelContext(r) ==
    /\ caller[r] # "idle"
    /\ r \notin ctxDone
    /\ ctxDone' = ctxDone \cup {r}
    /\ UNCHANGED <<CallerFrame, pending, prVars, caller, target, peer, got, result>>

(* The AfterFunc runs: it takes the request out of the map ...             *)
AfterRun(r) ==
    /\ after[r] = "armed"
    /\ r \in ctxDone
    /\ IF r \in pending[target[r]]
       THEN /\ pending' = [pending EXCEPT ![target[r]] = @ \ {r}]
            /\ after' = [after EXCEPT ![r] = "cancel"]
       ELSE after' = [after EXCEPT ![r] = "ended"] /\ UNCHANGED pending
    /\ UNCHANGED <<CallerFrame, ch, prClosed, terminal, done, stopCancel, squeeze,
                   callVars, peer>>

(* ... and cancels it.                                                     *)
AfterCancel(r) ==
    /\ after[r] = "cancel"
    /\ ~ Locked(r)
    /\ prClosed' = [prClosed EXCEPT ![r] = TRUE]
    /\ done' = [done EXCEPT ![r] = TRUE]
    /\ after' = [after EXCEPT ![r] = "ended"]
    /\ UNCHANGED <<CallerFrame, pending, ch, terminal, stopCancel, squeeze, callVars, peer>>

-----------------------------------------------------------------------------
SessionStep(s) ==
    \/ CleanRange(s) \/ CleanCancel(s) \/ CleanEnd(s)
    \/ \E r \in Requests : CleanTake(s, r)
    \/ CleanReplaced(s) \/ Replaced(s) \/ StartReader(s)
    \/ StopNext(s)
    \/ Read(s) \/ DeliverLock(s) \/ DeliverSend(s) \/ DeliverGiveUp(s) \/ Settle(s)

RequestStep(r) ==
    \/ Squeeze(r) \/ Store(r) \/ AfterFunc(r) \/ SetStopCancel(r) \/ CheckClosed(r)
    \/ WriteSucceeds(r) \/ WriteFails(r) \/ Undo(r)
    \/ ReceiveClosed(r) \/ ReceiveCtx(r) \/ AfterRun(r) \/ AfterCancel(r)

Environment ==
    \/ \E s \in Sessions : \/ \E p \in Providers : Register(s, p)
                           \/ Refuse(s) \/ HeartbeatFails(s) \/ ReadFails(s)
    \/ \E r \in Requests : \/ \E p \in Providers : Send(r, p)
                           \/ PeerSends(r) \/ CancelContext(r)
    \/ Stop

Next ==
    \/ \E s \in Sessions : SessionStep(s)
    \/ \E r \in Requests : RequestStep(r) \/ Receive(r)
    \/ StopDone
    \/ Environment

Spec == Init /\ [][Next]_vars

(* Goroutines that can run do run; nothing is assumed of the provider, of  *)
(* the contexts, of connections, or of how fast a caller takes its frames. *)
FairSpec ==
    /\ Spec
    /\ \A s \in Sessions :
        /\ WF_vars(CleanRange(s) \/ (\E r \in Requests : CleanTake(s, r))
                                 \/ CleanCancel(s) \/ CleanEnd(s))
        /\ WF_vars(CleanReplaced(s) \/ Replaced(s) \/ StartReader(s))
        /\ WF_vars(DeliverLock(s) \/ DeliverSend(s) \/ DeliverGiveUp(s) \/ Settle(s))
    /\ WF_vars(StopDone \/ \E s \in Sessions : StopNext(s))
    /\ \A r \in Requests : WF_vars(Squeeze(r) \/ AfterRun(r) \/ AfterCancel(r))

-----------------------------------------------------------------------------
(* A reader never reaches deliver's select with a closed channel, where a  *)
(* send would panic, although it looked the request up before it locked    *)
(* the mutex.                                                              *)
NoSendOnClosedChannel ==
    \A s \in Sessions : reader[s].pc = "select" => ~ prClosed[reader[s].req]

(* Whoever could still close the channel of a request: the session's map   *)
(* while cleanup has not gone through it, or the one goroutine that took   *)
(* the request out of the map.                                             *)
Closers(r) ==
    {<<"map", s>> : s \in {s \in Sessions : r \in pending[s] /\ cleaner[s].pc # "done"}}
    \cup {<<"cleanup", s>> : s \in {s \in Sessions : cleaner[s].pc = "cancel"
                                                     /\ cleaner[s].req = r}}
    \cup (IF after[r] = "cancel" THEN {<<"after", None>>} ELSE {})
    \cup (IF squeeze[r] THEN {<<"squeeze", None>>} ELSE {})

(* An open channel that a caller waits on has exactly one closer, so that  *)
(* it is closed once and never forgotten, even when request() runs against *)
(* cleanup.                                                                *)
OneCloser ==
    \A r \in Requests :
        /\ caller[r] = "receive" /\ ~ prClosed[r] => Cardinality(Closers(r)) = 1
        /\ prClosed[r] => Closers(r) = {}

(* No send on a closed channel, no second close, and no channel that       *)
(* nobody will close.                                                      *)
ChannelDiscipline == NoSendOnClosedChannel /\ OneCloser

(* Unless the context is done, a channel never just ends: the last frame a *)
(* caller gets is the terminal one or an error, even when cleanup finds    *)
(* the channel full, and dispatch's bare cancel is never reached.          *)
AnswerEndsExplicitly ==
    \A r \in Requests :
        caller[r] = "receive" /\ prClosed[r] /\ ch[r] = <<>> => r \in ctxDone

(* A response that lacks a frame is never returned as a success, unless    *)
(* the context is done or the session was closing meanwhile.               *)
SuccessIsComplete ==
    \A r \in Requests : result[r] = "ok" => \/ got[r] = Last
                                            \/ r \in ctxDone
                                            \/ target[r] \in closed

(* A session that is registered, not closing and not taken by Stop is the  *)
(* one its provider name leads to, unless a newer one is replacing it.     *)
LiveSessionIsFound ==
    \A s \in Sessions :
        (/\ handler[s] \in {"replacing", "registered", "running"}
         /\ s \notin closed \cup stopping
         /\ \A o \in Sessions : ~ (handler[o] = "replacing" /\ replaced[o] = s))
            => sessions[provider[s]] = s

(* The map never leads to a session whose cleanup has ended.               *)
NoDeadSession ==
    \A p \in Providers : sessions[p] # None => cleaner[sessions[p]].pc # "done"

(* Manager.sessions leads to the sessions that are alive and to no others, *)
(* whatever the order in which sessions are replaced, closed and stopped.  *)
SessionMapExact == LiveSessionIsFound /\ NoDeadSession

(* Whoever closes a session is done with it in the end, even when its      *)
(* reader sits in deliver before a full channel that nobody drains, and    *)
(* every call that loses its session or its context finds its channel      *)
(* closed, even when request() stored it after cleanup had gone through    *)
(* the map.  Nothing is assumed of the caller.                             *)
CleanupEnds ==
    []<>(/\ \A s \in closed : cleaner[s].pc = "done"
         /\ \A r \in Requests :
              caller[r] = "receive" /\ (r \in ctxDone \/ target[r] \in closed) => prClosed[r])
=============================================================================
