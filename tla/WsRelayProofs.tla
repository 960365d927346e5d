---------------------------- MODULE WsRelayProofs ----------------------------
(***************************************************************************)
(* Proofs about WsRelay for every set of sessions, providers and requests, *)
(* every answer length and every channel capacity.                         *)
(***************************************************************************)
EXTENDS WsRelay, FiniteSetTheorems, TLAPS

HandlerPcs == {"absent", "refused", "replacing", "registered", "running"}
CleanerPcs == {"none", "closed", "range", "cancel", "done"}
ReaderPcs == {"none", "read", "lock", "select", "settle", "exit"}
AfterPcs == {"unset", "armed", "stopped", "cancel", "ended"}
CallerPcs == {"idle", "store", "after", "setStop", "check", "write", "undo",
              "receive", "returned"}
Results == {"none", "ok", "failed", "ctx"}

Cleaners == [pc : CleanerPcs, req : Requests \cup {None}, todo : SUBSET Requests]
Readers == [pc : ReaderPcs, req : Requests \cup {None}, n : 0..Last, delivered : BOOLEAN]

Contents == Seq(0..Last)
Wires == Seq(Frames)

ManagerTypes ==
    /\ handler \in [Sessions -> HandlerPcs]
    /\ provider \in [Sessions -> Providers \cup {None}]
    /\ replaced \in [Sessions -> Sessions \cup {None}]
    /\ sessions \in [Providers -> Sessions \cup {None}]
    /\ stopping \subseteq Sessions
    /\ stopAt \in Sessions \cup {None}

SessionTypes ==
    /\ closed \subseteq Sessions
    /\ cleaner \in [Sessions -> Cleaners]
    /\ wire \in [Sessions -> Wires]
    /\ reader \in [Sessions -> Readers]
    /\ pending \in [Sessions -> SUBSET Requests]

RequestTypes ==
    /\ ch \in [Requests -> Contents]
    /\ prClosed \in [Requests -> BOOLEAN]
    /\ terminal \in [Requests -> BOOLEAN]
    /\ done \in [Requests -> BOOLEAN]
    /\ stopCancel \in [Requests -> BOOLEAN]
    /\ squeeze \in [Requests -> BOOLEAN]
    /\ after \in [Requests -> AfterPcs]

CallTypes ==
    /\ caller \in [Requests -> CallerPcs]
    /\ target \in [Requests -> Sessions \cup {None}]
    /\ ctxDone \subseteq Requests
    /\ peer \in [Requests -> -1..Last]
    /\ got \in [Requests -> Nat]
    /\ result \in [Requests -> Results]

TypeOK == ManagerTypes /\ SessionTypes /\ RequestTypes /\ CallTypes

-----------------------------------------------------------------------------
(* The manager's map *)

Present == {"replacing", "registered", "running"}

(* Names, sessions and their handlers agree.                               *)
MapInv ==
    /\ \A p \in Providers : sessions[p] # None =>
          /\ provider[sessions[p]] = p
          /\ handler[sessions[p]] \in Present
    /\ \A s \in Sessions : handler[s] \in Present => provider[s] \in Providers
    /\ \A s \in Sessions : handler[s] = "replacing" =>
          /\ replaced[s] \in Sessions
          /\ handler[replaced[s]] \in Present
    /\ \A s \in stopping : handler[s] \in Present
    /\ stopAt # None => stopAt \in stopping

(* Only a session that has been registered or refused is ever cleaned up.  *)
ManagerInv ==
    /\ MapInv
    /\ \A s \in Sessions : reader[s].pc # "none" => handler[s] = "running"
    /\ \A s \in Sessions : cleaner[s].pc = "none" <=> s \notin closed
    /\ \A s \in closed : handler[s] # "absent"

-----------------------------------------------------------------------------
(* Who closes a request's channel *)

Taken(s, r) == cleaner[s].pc = "cancel" /\ cleaner[s].req = r

Begun(r) == caller[r] \notin {"idle", "store"}

(* A request is in one of these hands at a time: the map, the cleanup that *)
(* took it, the AfterFunc that took it, a cancelWithError that makes room, *)
(* or closed; and from Store on it is in one of them.                      *)
Holder(r) ==
    /\ caller[r] = "idle" => target[r] = None
    /\ caller[r] \notin {"idle", "returned"} => target[r] \in Sessions
    /\ caller[r] \in {"idle", "store", "after"} => after[r] = "unset"
    /\ after[r] # "unset" => Begun(r) /\ target[r] \in Sessions
    /\ ~ Begun(r) => ~ squeeze[r] /\ ~ prClosed[r]
    /\ done[r] => squeeze[r] \/ prClosed[r]
    /\ after[r] = "cancel" => r \in ctxDone /\ ~ squeeze[r] /\ ~ prClosed[r]
    /\ squeeze[r] => ~ prClosed[r] /\ ~ terminal[r] /\ (target[r] \in closed \/ r \in ctxDone)
    /\ \A s \in Sessions : r \in pending[s] =>
          /\ target[r] = s /\ Begun(r) /\ ~ Taken(s, r)
          /\ after[r] # "cancel" /\ ~ squeeze[r] /\ ~ prClosed[r]
    /\ \A s \in Sessions : Taken(s, r) =>
          /\ target[r] = s /\ Begun(r)
          /\ after[r] # "cancel" /\ ~ squeeze[r] /\ ~ prClosed[r]
    /\ Begun(r) /\ target[r] \in Sessions =>
          \/ r \in pending[target[r]] \/ Taken(target[r], r)
          \/ after[r] = "cancel" \/ squeeze[r] \/ prClosed[r]

HolderInv ==
    /\ \A s \in Sessions : cleaner[s].pc = "cancel" => cleaner[s].req \in Requests
    /\ \A r \in Requests : Holder(r)

(* A request that is sent was in the map when cleanup began to range over  *)
(* it, unless it has left it.                                              *)
RangeInv ==
    \A s \in Sessions, r \in Requests :
        caller[r] \in {"write", "receive"} /\ r \in pending[s] =>
            \/ cleaner[s].pc \in {"none", "closed"}
            \/ cleaner[s].pc \in {"range", "cancel"} /\ r \in cleaner[s].todo

-----------------------------------------------------------------------------
(* Frames on their way *)

Holds(s) == reader[s].pc \in {"lock", "select", "settle"}

(* The provider has got a request whose caller receives.                   *)
PeerInv ==
    \A r \in Requests :
        /\ peer[r] # -1 => caller[r] \in {"receive", "returned"} /\ target[r] \in Sessions
        /\ caller[r] = "receive" => peer[r] # -1

(* The reader handles frames of its own session only, and sends into open  *)
(* channels that have no terminal frame yet.                               *)
Reader(s) ==
    /\ Holds(s) =>
          /\ reader[s].req \in Requests
          /\ target[reader[s].req] = s
          /\ reader[s].n \in 1..peer[reader[s].req]
    /\ reader[s].pc = "select" =>
          /\ ~ prClosed[reader[s].req]
          /\ ~ squeeze[reader[s].req]
          /\ ~ terminal[reader[s].req]
    /\ reader[s].pc = "settle" =>
          /\ reader[s].n = Last
          /\ reader[s].delivered => terminal[reader[s].req]
          /\ ~ reader[s].delivered => \/ reader[s].req \notin pending[s]
                                      \/ s \in closed
                                      \/ reader[s].req \in ctxDone

ReaderInv == \A s \in Sessions : Reader(s)

(* The frames of a request are on the wire in order, each once, behind the *)
(* one its reader handles.                                                 *)
Ordered(s) ==
    \A i \in 1..Len(wire[s]) :
        /\ target[wire[s][i][1]] = s
        /\ wire[s][i][2] <= peer[wire[s][i][1]]
        /\ Holds(s) /\ wire[s][i][1] = reader[s].req => reader[s].n < wire[s][i][2]
        /\ \A j \in 1..Len(wire[s]) :
              i < j /\ wire[s][i][1] = wire[s][j][1] => wire[s][i][2] < wire[s][j][2]

(* Nothing follows a terminal frame.                                       *)
Finished(r) ==
    /\ peer[r] = Last
    /\ \A s \in Sessions : \A i \in 1..Len(wire[s]) : wire[s][i][1] # r
    /\ \A s \in Sessions : reader[s].pc \in {"lock", "select"} => reader[s].req # r

WireInv ==
    /\ \A s \in Sessions : Ordered(s)
    /\ \A r \in Requests : terminal[r] => Finished(r)

(* Neither the context nor the session of the request has ended.           *)
Calm(r) == target[r] \in Sessions \ closed /\ r \notin ctxDone

Reading(r) == reader[target[r]].pc \in {"lock", "select"} /\ reader[target[r]].req = r

(* Frames received, in the channel, or in the reader's hands.              *)
Passed(r) == got[r] + Len(ch[r]) + (IF Reading(r) THEN 1 ELSE 0)

(* While nothing ends and no terminal frame came, no frame is missing:     *)
(* the reader has the next one, and the wire has the rest.                 *)
Piped(r) ==
    /\ Passed(r) <= peer[r]
    /\ Reading(r) => reader[target[r]].n = Passed(r)
    /\ \A i \in 1..Len(wire[target[r]]) :
          wire[target[r]][i][1] = r => Passed(r) < wire[target[r]][i][2]
    /\ \A n \in (Passed(r) + 1)..peer[r] :
          \E i \in 1..Len(wire[target[r]]) : wire[target[r]][i] = <<r, n>>

Flowing(r) ==
    Calm(r) /\ r \in pending[target[r]] /\ caller[r] = "receive" /\ ~ terminal[r]

PipeInv == \A r \in Requests : Flowing(r) => Piped(r)

(* What the channel of a call holds that has not returned.                 *)
Contained(r) ==
    /\ Calm(r) => \A i \in 1..Len(ch[r]) : ch[r][i] \in {got[r] + i, 0}
    /\ terminal[r] => ch[r] # <<>> /\ ch[r][Len(ch[r])] = Last
    /\ prClosed[r] /\ r \notin ctxDone =>
          ch[r] # <<>> /\ ch[r][Len(ch[r])] \in {0, Last}

ChannelInv ==
    \A r \in Requests :
        /\ peer[r] = -1 => got[r] = 0
        /\ peer[r] = -1 /\ target[r] \in Sessions /\ r \in pending[target[r]] => ch[r] = <<>>
        /\ ~ Begun(r) => ch[r] = <<>> /\ ~ terminal[r] /\ ~ done[r]
        /\ result[r] = "ok" => caller[r] = "returned"
        /\ caller[r] # "returned" => Contained(r)

IInv ==
    /\ TypeOK
    /\ ManagerInv
    /\ HolderInv
    /\ RangeInv
    /\ PeerInv
    /\ ReaderInv
    /\ WireInv
    /\ PipeInv
    /\ ChannelInv
    /\ SuccessIsComplete
    /\ SessionMapExact

-----------------------------------------------------------------------------
(* Sequences *)

LEMMA TailAt ==
    ASSUME NEW S, NEW q \in Seq(S), q # <<>>
    PROVE  /\ Tail(q) \in Seq(S)
           /\ Len(q) \in Nat \ {0}
           /\ Len(Tail(q)) = Len(q) - 1
           /\ Head(q) = q[1]
           /\ Head(q) \in S
           /\ \A i \in 1..(Len(q) - 1) : Tail(q)[i] = q[i + 1]
OBVIOUS

LEMMA AppendAt ==
    ASSUME NEW S, NEW q \in Seq(S), NEW e \in S
    PROVE  /\ Append(q, e) \in Seq(S)
           /\ Len(q) \in Nat
           /\ Len(Append(q, e)) = Len(q) + 1
           /\ \A i \in 1..Len(q) : Append(q, e)[i] = q[i]
           /\ Append(q, e)[Len(q) + 1] = e
OBVIOUS

LEMMA TypeInit == Init => TypeOK
BY WsRelayAssumption DEF Init, TypeOK, ManagerTypes, SessionTypes, RequestTypes, CallTypes,
   Cleaners, Readers, HandlerPcs, CleanerPcs, ReaderPcs, AfterPcs, CallerPcs, Results, Frames,
   Contents, Wires, Idle, NotRunning

LEMMA ManagerTypesStep == TypeOK /\ [Next]_vars => ManagerTypes'
<1>. SUFFICES ASSUME TypeOK, [Next]_vars PROVE ManagerTypes'
  OBVIOUS
<1>. USE DEF TypeOK, ManagerTypes, HandlerPcs
<1>1. ASSUME NEW s \in Sessions, NEW p \in Providers, Register(s, p) PROVE ManagerTypes'
  BY <1>1 DEF Register
<1>2. ASSUME NEW s \in Sessions,
             \/ CleanEnd(s) \/ Refuse(s) \/ Replaced(s) \/ StartReader(s) \/ StopNext(s)
      PROVE  ManagerTypes'
  BY <1>2 DEF CleanEnd, ForgetSession, Refuse, Replaced, StartReader, StopNext
<1>3. CASE Stop \/ StopDone
  BY <1>3 DEF Stop, StopDone
<1>4. CASE UNCHANGED mgrVars
  BY <1>4 DEF mgrVars
<1>. QED
  BY <1>1, <1>2, <1>3, <1>4
     DEF vars, Next, SessionStep, RequestStep, Environment, CleanRange, CleanTake, CleanCancel,
         CleanReplaced, HeartbeatFails, Read, ReadFails, DeliverLock, DeliverSend, DeliverGiveUp,
         Settle, PeerSends, Send, Store, AfterFunc, SetStopCancel, CheckClosed, WriteSucceeds,
         WriteFails, Undo, Receive, ReceiveClosed, ReceiveCtx, CancelContext, AfterRun,
         AfterCancel, Squeeze, ReaderFrame, CallerFrame

LEMMA CallTypesStep == TypeOK /\ [Next]_vars => CallTypes'
<1>. SUFFICES ASSUME TypeOK, [Next]_vars PROVE CallTypes'
  OBVIOUS
<1>. USE DEF TypeOK, CallTypes, CallerPcs, Results
<1>1. ASSUME NEW r \in Requests, NEW p \in Providers, Send(r, p) PROVE CallTypes'
  BY <1>1 DEF Send, Return, ManagerTypes
<1>2. ASSUME NEW r \in Requests,
             Store(r) \/ AfterFunc(r) \/ SetStopCancel(r) \/ CheckClosed(r) \/ WriteFails(r)
      PROVE  CallTypes'
  BY <1>2 DEF Store, AfterFunc, SetStopCancel, CheckClosed, WriteFails
<1>3. ASSUME NEW r \in Requests, WriteSucceeds(r) PROVE CallTypes'
  BY <1>3, WsRelayAssumption DEF WriteSucceeds
<1>4. ASSUME NEW r \in Requests, PeerSends(r) PROVE CallTypes'
  <2>1. peer[r] + 1 \in -1..Last
    <3>1. peer[r] \in 0..(Last - 1) /\ Last \in Nat
      BY <1>4, WsRelayAssumption DEF PeerSends
    <3>. QED
      BY <3>1
  <2>. QED
    BY <1>4, <2>1 DEF PeerSends, callVars
<1>5. ASSUME NEW r \in Requests, CancelContext(r) PROVE CallTypes'
  BY <1>5 DEF CancelContext
<1>6. ASSUME NEW r \in Requests, Undo(r) PROVE CallTypes'
  BY <1>6 DEF Undo, Return
<1>7. ASSUME NEW r \in Requests, ReceiveClosed(r) PROVE CallTypes'
  BY <1>7 DEF ReceiveClosed, Return
<1>8. ASSUME NEW r \in Requests, ReceiveCtx(r) PROVE CallTypes'
  BY <1>8 DEF ReceiveCtx, Return
<1>9. ASSUME NEW r \in Requests, Receive(r) PROVE CallTypes'
  <2>1. UNCHANGED <<target, ctxDone, peer>>
    BY <1>9 DEF Receive
  <2>2. (caller \in [Requests -> CallerPcs] /\ result \in [Requests -> Results])'
    BY <1>9 DEF Receive, Return
  <2>3. got' \in {got, [got EXCEPT ![r] = got[r] + 1]}
    BY <1>9 DEF Receive
  <2>. QED
    BY <2>1, <2>2, <2>3
<1>10. CASE UNCHANGED <<callVars, peer>>
  BY <1>10 DEF callVars
<1>. QED
  BY <1>1, <1>2, <1>3, <1>4, <1>5, <1>6, <1>7, <1>8, <1>9, <1>10
     DEF vars, Next, SessionStep, RequestStep, Environment, CleanRange, CleanTake, CleanCancel,
         CleanEnd, CleanReplaced, HeartbeatFails, Register, Refuse, Replaced, StartReader, Stop,
         StopNext, StopDone, Read, ReadFails, DeliverLock, DeliverSend, DeliverGiveUp, Settle,
         AfterRun, AfterCancel, Squeeze, ReaderFrame, CallerFrame

LEMMA RequestTypesStep == TypeOK /\ ReaderInv /\ [Next]_vars => RequestTypes'
<1>. SUFFICES ASSUME TypeOK, ReaderInv, [Next]_vars PROVE RequestTypes'
  OBVIOUS
<1>. USE DEF TypeOK, RequestTypes, AfterPcs
<1>1. ASSUME NEW r, StopAfter(r) PROVE (after \in [Requests -> AfterPcs])'
  BY <1>1 DEF StopAfter
<1>2. ASSUME NEW r, Close(r) \/ Cancel(r) PROVE RequestTypes'
  BY <1>1, <1>2 DEF Close, Cancel, prVars
<1>3. ASSUME NEW r, CancelWithError(r) PROVE RequestTypes'
  <2>1. CASE prClosed[r]
    BY <1>3, <2>1 DEF CancelWithError, prVars
  <2>2. CASE ~ prClosed[r]
    <3>1. UNCHANGED <<terminal, stopCancel>> /\ StopAfter(r)
      BY <1>3, <2>2 DEF CancelWithError
    <3>2. (/\ prClosed \in [Requests -> BOOLEAN]
           /\ done \in [Requests -> BOOLEAN]
           /\ squeeze \in [Requests -> BOOLEAN])'
      BY <1>3, <2>2 DEF CancelWithError
    <3>3. (ch \in [Requests -> Contents])'
      <4>1. ch' \in {ch, [ch EXCEPT ![r] = Append(ch[r], 0)]}
        BY <1>3, <2>2 DEF CancelWithError
      <4>2. \A q \in Requests : Append(ch[q], 0) \in Contents
        BY WsRelayAssumption DEF Contents
      <4>3. CASE r \in Requests
        BY <4>1, <4>2, <4>3
      <4>4. CASE r \notin Requests
        <5>. [ch EXCEPT ![r] = Append(ch[r], 0)] = ch
          BY <4>4
        <5>. QED
          BY <4>1
      <4>. QED
        BY <4>3, <4>4
    <3>. QED
      BY <1>1, <3>1, <3>2, <3>3
  <2>. QED
    BY <2>1, <2>2
<1>4. ASSUME NEW s \in Sessions, CleanCancel(s) PROVE RequestTypes'
  BY <1>4, <1>3 DEF CleanCancel
<1>5. ASSUME NEW s \in Sessions, Settle(s) PROVE RequestTypes'
  BY <1>5, <1>2, <1>3 DEF Settle, prVars
<1>6. ASSUME NEW r \in Requests, Undo(r) PROVE RequestTypes'
  BY <1>6, <1>2 DEF Undo, prVars
<1>7. ASSUME NEW s \in Sessions, DeliverSend(s) PROVE RequestTypes'
  <2>1. (ch \in [Requests -> Contents])'
    <3>1. reader[s].n \in 0..Last
      BY DEF SessionTypes, Readers
    <3>2. ch' = [ch EXCEPT ![reader[s].req] = Append(ch[reader[s].req], reader[s].n)]
      BY <1>7 DEF DeliverSend
    <3>3. \A q \in Requests : Append(ch[q], reader[s].n) \in Contents
      BY <3>1 DEF Contents
    <3>. QED
      BY <3>2, <3>3
  <2>2. (terminal \in [Requests -> BOOLEAN])'
    BY <1>7 DEF DeliverSend
  <2>3. UNCHANGED <<prClosed, done, stopCancel, squeeze, after>>
    BY <1>7 DEF DeliverSend
  <2>. QED
    BY <2>1, <2>2, <2>3
<1>8. ASSUME NEW r \in Requests, Squeeze(r) PROVE RequestTypes'
  <2>1. (ch \in [Requests -> Contents])'
    <3>1. (IF ch[r] = <<>> THEN ch[r] ELSE Tail(ch[r])) \in Contents
      BY TailAt DEF Contents
    <3>2. Append(IF ch[r] = <<>> THEN ch[r] ELSE Tail(ch[r]), 0) \in Contents
      BY <3>1, WsRelayAssumption DEF Contents
    <3>. QED
      BY <1>8, <3>2 DEF Squeeze
  <2>. QED
    BY <1>8, <2>1 DEF Squeeze
<1>9. ASSUME NEW r \in Requests, Receive(r) PROVE RequestTypes'
  <2>1. (ch \in [Requests -> Contents])'
    <3>1. ch[r] # <<>> /\ ch' = [ch EXCEPT ![r] = Tail(ch[r])]
      BY <1>9 DEF Receive
    <3>2. Tail(ch[r]) \in Contents
      BY <3>1, TailAt DEF Contents
    <3>. QED
      BY <3>1, <3>2
  <2>. QED
    BY <1>9, <2>1 DEF Receive
<1>10. ASSUME NEW r \in Requests,
              AfterFunc(r) \/ SetStopCancel(r) \/ AfterRun(r) \/ AfterCancel(r)
       PROVE  RequestTypes'
  BY <1>10 DEF AfterFunc, SetStopCancel, AfterRun, AfterCancel
<1>11. CASE UNCHANGED prVars
  BY <1>11 DEF prVars
<1>. QED
  BY <1>4, <1>5, <1>6, <1>7, <1>8, <1>9, <1>10, <1>11
     DEF vars, Next, SessionStep, RequestStep, Environment, CleanRange, CleanTake,
         CleanEnd, CleanReplaced, HeartbeatFails, Register, Refuse, Replaced, StartReader, Stop,
         StopNext, StopDone, Read, ReadFails, DeliverLock, DeliverGiveUp, PeerSends, Send, Store,
         CheckClosed, WriteSucceeds, WriteFails, ReceiveClosed, ReceiveCtx, CancelContext

LEMMA StartedReader == \A pc \in ReaderPcs : [NotRunning EXCEPT !.pc = pc] \in Readers
<1>. SUFFICES ASSUME NEW pc \in ReaderPcs PROVE [NotRunning EXCEPT !.pc = pc] \in Readers
  OBVIOUS
<1>1. 0 \in 0..Last
  BY WsRelayAssumption
<1>2. NotRunning \in Readers
  BY <1>1 DEF NotRunning, Readers, ReaderPcs
<1>. QED
  BY <1>2 DEF Readers

LEMMA SessionTypesStep == TypeOK /\ ManagerInv /\ [Next]_vars => SessionTypes'
<1>. SUFFICES ASSUME TypeOK, ManagerInv, [Next]_vars PROVE SessionTypes'
  OBVIOUS
<1>. USE DEF TypeOK, SessionTypes, CleanerPcs, ReaderPcs
<1>1. ASSUME NEW s \in Sessions, BeginCleanup(s)
      PROVE  (closed \subseteq Sessions /\ cleaner \in [Sessions -> Cleaners])'
  BY <1>1 DEF BeginCleanup, Cleaners
<1>2. ASSUME NEW s \in Sessions, CleanRange(s) PROVE SessionTypes'
  <2>1. (cleaner \in [Sessions -> Cleaners])'
    BY <1>2 DEF CleanRange, Cleaners
  <2>. QED
    BY <1>2, <2>1 DEF CleanRange
<1>3. ASSUME NEW s \in Sessions, NEW r \in Requests, CleanTake(s, r) PROVE SessionTypes'
  <2>1. (cleaner \in [Sessions -> Cleaners])'
    BY <1>3 DEF CleanTake, Cleaners
  <2>. QED
    BY <1>3, <2>1 DEF CleanTake
<1>4. ASSUME NEW s \in Sessions, CleanCancel(s) PROVE SessionTypes'
  <2>1. (cleaner \in [Sessions -> Cleaners])'
    BY <1>4 DEF CleanCancel, Cleaners
  <2>. QED
    BY <1>4, <2>1 DEF CleanCancel
<1>5. ASSUME NEW s \in Sessions, CleanEnd(s) PROVE SessionTypes'
  <2>1. (cleaner \in [Sessions -> Cleaners])'
    BY <1>5 DEF CleanEnd, Cleaners, Idle
  <2>. QED
    BY <1>5, <2>1 DEF CleanEnd
<1>6. ASSUME NEW s \in Sessions,
             HeartbeatFails(s) \/ Refuse(s) \/ CleanReplaced(s) \/ StopNext(s)
      PROVE  SessionTypes'
  BY <1>6, <1>1 DEF HeartbeatFails, Refuse, CleanReplaced, StopNext, ManagerInv, MapInv
<1>7. ASSUME NEW s \in Sessions, StartReader(s) PROVE SessionTypes'
  <2>1. (reader \in [Sessions -> Readers])'
    BY <1>7 DEF StartReader, Readers
  <2>. QED
    BY <1>7, <2>1 DEF StartReader
<1>8. ASSUME NEW s \in Sessions, Read(s) PROVE SessionTypes'
  <2>1. Tail(wire[s]) \in Wires /\ Head(wire[s]) \in Frames
    BY <1>8, TailAt DEF Read, Wires
  <2>2. (reader \in [Sessions -> Readers])'
    <3>1. \A f \in Frames : [pc |-> "lock", req |-> f[1], n |-> f[2], delivered |-> FALSE] \in Readers
      BY WsRelayAssumption DEF Frames, Readers
    <3>2. [NotRunning EXCEPT !.pc = "read"] \in Readers
      BY StartedReader
    <3>3. \E x \in Readers : reader' = [reader EXCEPT ![s] = x]
      BY <1>8, <2>1, <3>1, <3>2 DEF Read
    <3>. QED
      BY <3>3
  <2>3. (wire \in [Sessions -> Wires])'
    BY <1>8, <2>1 DEF Read
  <2>. QED
    BY <1>8, <2>2, <2>3 DEF Read, ReaderFrame
<1>9. ASSUME NEW s \in Sessions, ReadFails(s) PROVE SessionTypes'
  <2>1. (reader \in [Sessions -> Readers])'
    <3>1. [NotRunning EXCEPT !.pc = "exit"] \in Readers
      BY StartedReader
    <3>. QED
      BY <1>9, <3>1 DEF ReadFails
  <2>. QED
    BY <1>9, <1>1, <2>1 DEF ReadFails
<1>10. ASSUME NEW s \in Sessions, DeliverLock(s) \/ DeliverGiveUp(s) \/ DeliverSend(s)
       PROVE  SessionTypes'
  <2>1. (reader \in [Sessions -> Readers])'
    <3>1. \A x \in Readers, pc \in ReaderPcs, d \in BOOLEAN :
             [x EXCEPT !.pc = pc, !.delivered = d] \in Readers
      BY DEF Readers
    <3>2. \A d \in BOOLEAN : AfterDeliver(s, d) => (reader \in [Sessions -> Readers])'
      <4>. SUFFICES ASSUME NEW d \in BOOLEAN, AfterDeliver(s, d)
                    PROVE  (reader \in [Sessions -> Readers])'
        OBVIOUS
      <4>. DEFINE pc == IF reader[s].n < Last THEN "read" ELSE "settle"
      <4>1. reader' = [reader EXCEPT ![s] = [reader[s] EXCEPT !.pc = pc, !.delivered = d]]
        BY DEF AfterDeliver
      <4>2. pc \in ReaderPcs
        OBVIOUS
      <4>. QED
        BY <3>1, <4>1, <4>2
    <3>3. ASSUME reader' = [reader EXCEPT ![s].pc = "select"]
          PROVE  (reader \in [Sessions -> Readers])'
      BY <3>3 DEF Readers
    <3>. QED
      BY <1>10, <3>2, <3>3 DEF DeliverLock, DeliverGiveUp, DeliverSend
  <2>2. UNCHANGED <<closed, cleaner, wire, pending>>
    BY <1>10 DEF DeliverLock, DeliverGiveUp, DeliverSend, ReaderFrame
  <2>. QED
    BY <2>1, <2>2
<1>11. ASSUME NEW s \in Sessions, Settle(s) PROVE SessionTypes'
  <2>1. (reader \in [Sessions -> Readers])'
    BY <1>11 DEF Settle, Readers
  <2>2. UNCHANGED <<closed, cleaner, wire>> /\ (pending \in [Sessions -> SUBSET Requests])'
    BY <1>11 DEF Settle, ReaderFrame
  <2>. QED
    BY <2>1, <2>2
<1>12. ASSUME NEW r \in Requests, PeerSends(r) PROVE SessionTypes'
  <2>1. <<r, peer[r] + 1>> \in Frames
    BY <1>12, WsRelayAssumption DEF PeerSends, Frames, CallTypes
  <2>2. (wire \in [Sessions -> Wires])'
    <3>1. wire' = [wire EXCEPT ![target[r]] = Append(wire[target[r]], <<r, peer[r] + 1>>)]
      BY <1>12 DEF PeerSends
    <3>2. \A t \in Sessions : Append(wire[t], <<r, peer[r] + 1>>) \in Wires
      BY <2>1 DEF Wires
    <3>. QED
      BY <3>1, <3>2
  <2>. QED
    BY <1>12, <2>2 DEF PeerSends
<1>13. ASSUME NEW r \in Requests, Store(r) \/ Undo(r) \/ AfterRun(r) PROVE SessionTypes'
  <2>1. (pending \in [Sessions -> SUBSET Requests])'
    BY <1>13 DEF Store, Undo, AfterRun
  <2>. QED
    BY <1>13, <2>1 DEF Store, Undo, AfterRun, CallerFrame
<1>14. CASE UNCHANGED <<closed, cleaner, wire, reader, pending>>
  BY <1>14
<1>. QED
  BY <1>2, <1>3, <1>4, <1>5, <1>6, <1>7, <1>8, <1>9, <1>10, <1>11, <1>12, <1>13, <1>14
     DEF vars, Next, SessionStep, RequestStep, Environment, Register, Replaced, Stop, StopDone,
         Send, AfterFunc, SetStopCancel, CheckClosed, WriteSucceeds, WriteFails, Receive,
         ReceiveClosed, ReceiveCtx, CancelContext, AfterCancel, Squeeze, CallerFrame

LEMMA TypeStep == IInv /\ [Next]_vars => TypeOK'
BY ManagerTypesStep, SessionTypesStep, RequestTypesStep, CallTypesStep DEF IInv, TypeOK

-----------------------------------------------------------------------------
(* The manager's map stays consistent. *)

(* Readers start in StartReader only.                                      *)
LEMMA ReaderStarts ==
    ASSUME TypeOK, [Next]_vars, NEW t \in Sessions, reader[t].pc = "none", reader'[t].pc # "none"
    PROVE  handler[t] = "registered" /\ handler'[t] = "running"
<1>. USE DEF TypeOK, SessionTypes, Readers, ManagerTypes
<1>1. ASSUME NEW s \in Sessions, Read(s) \/ ReadFails(s) PROVE reader'[t] = reader[t]
  BY <1>1 DEF Read, ReadFails
<1>2. ASSUME NEW s \in Sessions, DeliverLock(s) \/ DeliverSend(s) \/ DeliverGiveUp(s) \/ Settle(s)
      PROVE  reader'[t] = reader[t]
  BY <1>2 DEF DeliverLock, DeliverSend, DeliverGiveUp, Settle, AfterDeliver
<1>3. ASSUME NEW s \in Sessions, StartReader(s)
      PROVE  handler[t] = "registered" /\ handler'[t] = "running"
  BY <1>3 DEF StartReader
<1>4. CASE UNCHANGED reader
  BY <1>4
<1>. QED
  BY <1>1, <1>2, <1>3, <1>4
     DEF vars, Next, SessionStep, RequestStep, Environment, CleanRange, CleanTake, CleanCancel,
         CleanEnd, CleanReplaced, HeartbeatFails, Register, Refuse, Replaced, Stop, StopNext,
         StopDone, PeerSends, Send, Store, AfterFunc, SetStopCancel, CheckClosed, WriteSucceeds,
         WriteFails, Undo, Receive, ReceiveClosed, ReceiveCtx, CancelContext, AfterRun,
         AfterCancel, Squeeze, ReaderFrame, CallerFrame

LEMMA RunningStays ==
    ASSUME TypeOK, [Next]_vars, NEW t \in Sessions, handler[t] = "running"
    PROVE  handler'[t] = "running"
<1>. USE DEF TypeOK, ManagerTypes
<1>1. ASSUME NEW s \in Sessions, NEW p \in Providers, Register(s, p) PROVE handler'[t] = handler[t]
  BY <1>1 DEF Register
<1>2. ASSUME NEW s \in Sessions, Refuse(s) \/ Replaced(s) \/ StartReader(s)
      PROVE  handler'[t] = handler[t]
  BY <1>2 DEF Refuse, Replaced, StartReader
<1>3. CASE UNCHANGED handler
  BY <1>3
<1>. QED
  BY <1>1, <1>2, <1>3
     DEF vars, mgrVars, Next, SessionStep, RequestStep, Environment, CleanRange, CleanTake,
         CleanCancel, CleanEnd, CleanReplaced, HeartbeatFails, Stop, StopNext, StopDone, Read,
         ReadFails, DeliverLock, DeliverSend, DeliverGiveUp, Settle, PeerSends, Send, Store,
         AfterFunc, SetStopCancel, CheckClosed, WriteSucceeds, WriteFails, Undo, Receive,
         ReceiveClosed, ReceiveCtx, CancelContext, AfterRun, AfterCancel, Squeeze, ReaderFrame,
         CallerFrame

(* Only a session that has been registered or refused begins its cleanup,  *)
(* and a cleanup that has begun never starts again.                        *)
LEMMA CleanerBegins ==
    ASSUME TypeOK, ManagerInv, [Next]_vars
    PROVE  /\ closed \subseteq closed'
           /\ \A t \in Sessions : cleaner'[t].pc = "none" <=> t \notin closed'
           /\ \A t \in closed' \ closed : handler[t] # "absent" \/ handler'[t] # "absent"
<1>. USE DEF TypeOK, SessionTypes, Cleaners, ManagerTypes
<1>. DEFINE Goal == /\ closed \subseteq closed'
                    /\ \A t \in Sessions : cleaner'[t].pc = "none" <=> t \notin closed'
                    /\ \A t \in closed' \ closed : handler[t] # "absent" \/ handler'[t] # "absent"
<1>1. ASSUME NEW s \in Sessions, BeginCleanup(s), handler[s] # "absent" \/ handler'[s] # "absent"
      PROVE  Goal
  BY <1>1 DEF BeginCleanup, ManagerInv
<1>2. ASSUME NEW s \in Sessions, HeartbeatFails(s) \/ Refuse(s) \/ CleanReplaced(s) PROVE Goal
  BY <1>1, <1>2 DEF HeartbeatFails, Refuse, CleanReplaced, ManagerInv, MapInv, Present
<1>3. ASSUME NEW s \in Sessions, StopNext(s) \/ ReadFails(s) PROVE Goal
  <2>1. CASE s \in closed /\ UNCHANGED <<closed, cleaner>>
    BY <2>1 DEF ManagerInv
  <2>2. CASE BeginCleanup(s)
    BY <1>1, <1>3, <2>2 DEF StopNext, ReadFails, ManagerInv, MapInv, Present
  <2>. QED
    BY <1>3, <2>1, <2>2 DEF StopNext, ReadFails
<1>4. ASSUME NEW s \in Sessions, CleanRange(s) \/ CleanCancel(s) \/ CleanEnd(s) PROVE Goal
  BY <1>4 DEF CleanRange, CleanCancel, CleanEnd, ManagerInv, Idle
<1>5. ASSUME NEW s \in Sessions, NEW r \in Requests, CleanTake(s, r) PROVE Goal
  BY <1>5 DEF CleanTake, ManagerInv
<1>6. CASE UNCHANGED <<closed, cleaner>>
  BY <1>6 DEF ManagerInv
<1>. QED
  BY <1>2, <1>3, <1>4, <1>5, <1>6
     DEF vars, Next, SessionStep, RequestStep, Environment, Register, Replaced, StartReader, Stop,
         StopDone, Read, DeliverLock, DeliverSend, DeliverGiveUp, Settle, PeerSends, Send, Store,
         AfterFunc, SetStopCancel, CheckClosed, WriteSucceeds, WriteFails, Undo, Receive,
         ReceiveClosed, ReceiveCtx, CancelContext, AfterRun, AfterCancel, Squeeze, ReaderFrame,
         CallerFrame

LEMMA MapStep ==
    ASSUME TypeOK, MapInv, [Next]_vars
    PROVE  MapInv' /\ \A s \in Sessions : handler[s] # "absent" => handler'[s] # "absent"
<1>. DEFINE Goal == MapInv' /\ \A s \in Sessions : handler[s] # "absent" => handler'[s] # "absent"
<1>. USE WsRelayAssumption DEF TypeOK, ManagerTypes, MapInv, Present
<1>1. ASSUME NEW s \in Sessions, NEW p \in Providers, Register(s, p) PROVE Goal
  BY <1>1 DEF Register
<1>2. ASSUME NEW s \in Sessions, CleanEnd(s) PROVE Goal
  BY <1>2 DEF CleanEnd, ForgetSession
<1>3. ASSUME NEW s \in Sessions, Refuse(s) PROVE Goal
  BY <1>3 DEF Refuse
<1>4. ASSUME NEW s \in Sessions, Replaced(s) PROVE Goal
  BY <1>4 DEF Replaced
<1>5. ASSUME NEW s \in Sessions, StartReader(s) PROVE Goal
  BY <1>5 DEF StartReader
<1>6. ASSUME NEW s \in Sessions, StopNext(s) PROVE Goal
  BY <1>6 DEF StopNext
<1>7. CASE Stop
  BY <1>7 DEF Stop
<1>8. CASE StopDone
  BY <1>8 DEF StopDone
<1>9. CASE UNCHANGED mgrVars
  BY <1>9 DEF mgrVars
<1>. QED
  BY <1>1, <1>2, <1>3, <1>4, <1>5, <1>6, <1>7, <1>8, <1>9
     DEF vars, Next, SessionStep, RequestStep, Environment, CleanRange, CleanTake, CleanCancel,
         CleanReplaced, HeartbeatFails, Read, ReadFails, DeliverLock, DeliverSend, DeliverGiveUp,
         Settle, PeerSends, Send, Store, AfterFunc, SetStopCancel, CheckClosed, WriteSucceeds,
         WriteFails, Undo, Receive, ReceiveClosed, ReceiveCtx, CancelContext, AfterRun,
         AfterCancel, Squeeze, ReaderFrame, CallerFrame

LEMMA ManagerStep == TypeOK /\ ManagerInv /\ [Next]_vars => ManagerInv'
<1>. SUFFICES ASSUME TypeOK, ManagerInv, [Next]_vars PROVE ManagerInv'
  OBVIOUS
<1>1. MapInv' /\ \A s \in Sessions : handler[s] # "absent" => handler'[s] # "absent"
  BY MapStep DEF ManagerInv
<1>2. \A s \in Sessions : reader'[s].pc # "none" => handler'[s] = "running"
  <2>. SUFFICES ASSUME NEW s \in Sessions, reader'[s].pc # "none" PROVE handler'[s] = "running"
    OBVIOUS
  <2>1. handler[s] = "running" => handler'[s] = "running"
    BY RunningStays
  <2>. QED
    BY <2>1, ReaderStarts DEF ManagerInv
<1>3. \A s \in closed' : handler'[s] # "absent"
  <2>1. closed' \subseteq Sessions
    BY SessionTypesStep DEF SessionTypes
  <2>2. \A s \in closed : handler[s] # "absent"
    BY DEF ManagerInv
  <2>. QED
    BY <1>1, <2>1, <2>2, CleanerBegins
<1>. QED
  BY <1>1, <1>2, <1>3, CleanerBegins DEF ManagerInv

-----------------------------------------------------------------------------
(* A request is in one hand at a time. *)

(* What closing an open channel does, with an error or without.            *)
LEMMA CloserEffect ==
    ASSUME TypeOK, NEW r \in Requests, ~ prClosed[r], Close(r) \/ Cancel(r) \/ CancelWithError(r)
    PROVE  /\ terminal' = terminal /\ stopCancel' = stopCancel
           /\ ~ squeeze[r]
           /\ \A s \in Sessions : reader[s].pc = "select" => reader[s].req # r
           /\ squeeze'[r] <=> ~ prClosed'[r]
           /\ squeeze'[r] => ~ terminal[r] /\ Len(ch[r]) = Buffer
           /\ after'[r] \in {after[r], "stopped"}
           /\ after[r] # "armed" => after'[r] = after[r]
           /\ \A q \in Requests : q # r =>
                 /\ prClosed'[q] = prClosed[q] /\ done'[q] = done[q]
                 /\ squeeze'[q] = squeeze[q] /\ after'[q] = after[q] /\ ch'[q] = ch[q]
<1>. USE DEF TypeOK, RequestTypes
<1>1. ~ squeeze[r] /\ \A s \in Sessions : reader[s].pc = "select" => reader[s].req # r
  BY DEF Close, Cancel, CancelWithError, Locked
<1>2. terminal' = terminal /\ stopCancel' = stopCancel /\ StopAfter(r)
  BY DEF Close, Cancel, CancelWithError
<1>3. after' = after \/ (after[r] = "armed" /\ after' = [after EXCEPT ![r] = "stopped"])
  BY <1>2 DEF StopAfter
<1>4. CASE Close(r) \/ Cancel(r)
  BY <1>1, <1>2, <1>3, <1>4 DEF Close, Cancel
<1>5. CASE CancelWithError(r)
  BY <1>1, <1>2, <1>3, <1>5 DEF CancelWithError
<1>. QED
  BY <1>4, <1>5

(* A cleanup cancels a request that it has taken from the map.             *)
LEMMA CleanerRequest ==
    ASSUME TypeOK, HolderInv, [Next]_vars, NEW t \in Sessions, cleaner'[t].pc = "cancel"
    PROVE  cleaner'[t].req \in Requests
<1>. USE DEF TypeOK, SessionTypes, Cleaners, HolderInv
<1>1. ASSUME NEW s \in Sessions, BeginCleanup(s) PROVE cleaner'[t].req \in Requests
  BY <1>1 DEF BeginCleanup
<1>2. ASSUME NEW s \in Sessions, CleanRange(s) \/ CleanCancel(s) PROVE cleaner'[t].req \in Requests
  BY <1>2 DEF CleanRange, CleanCancel
<1>3. ASSUME NEW s \in Sessions, CleanEnd(s) PROVE cleaner'[t].req \in Requests
  BY <1>3 DEF CleanEnd, Idle
<1>4. ASSUME NEW s \in Sessions, NEW r \in Requests, CleanTake(s, r)
      PROVE  cleaner'[t].req \in Requests
  BY <1>4 DEF CleanTake
<1>5. ASSUME NEW s \in Sessions, CleanReplaced(s) PROVE cleaner'[t].req \in Requests
  BY <1>5 DEF CleanReplaced, BeginCleanup
<1>6. CASE UNCHANGED cleaner
  BY <1>6
<1>. QED
  BY <1>1, <1>2, <1>3, <1>4, <1>5, <1>6
     DEF vars, Next, SessionStep, RequestStep, Environment, HeartbeatFails, Register, Refuse,
         Replaced, StartReader, Stop, StopNext, StopDone, Read, ReadFails, DeliverLock,
         DeliverSend, DeliverGiveUp, Settle, PeerSends, Send, Store, AfterFunc, SetStopCancel,
         CheckClosed, WriteSucceeds, WriteFails, Undo, Receive, ReceiveClosed, ReceiveCtx,
         CancelContext, AfterRun, AfterCancel, Squeeze, ReaderFrame, CallerFrame

LEMMA HolderStep == TypeOK /\ ManagerInv /\ HolderInv /\ ReaderInv /\ [Next]_vars => HolderInv'
<1>. SUFFICES ASSUME TypeOK, ManagerInv, HolderInv, ReaderInv, [Next]_vars, NEW q \in Requests
              PROVE  Holder(q)'
  BY CleanerRequest DEF HolderInv
<1>. USE DEF TypeOK, SessionTypes, RequestTypes, CallTypes, Cleaners, Holder, Taken, Begun
<1>0. \A r \in Requests : Holder(r)
  BY DEF HolderInv
<1>1. ASSUME NEW s \in Sessions, BeginCleanup(s), UNCHANGED <<pending, prVars, callVars>>
      PROVE  Holder(q)'
  BY <1>1, <1>0 DEF BeginCleanup, ManagerInv, prVars, callVars
<1>2. ASSUME NEW s \in Sessions, CleanRange(s) PROVE Holder(q)'
  BY <1>2, <1>0 DEF CleanRange, prVars, callVars
<1>3. ASSUME NEW s \in Sessions, CleanEnd(s) PROVE Holder(q)'
  BY <1>3, <1>0 DEF CleanEnd, prVars, callVars, Idle
<1>4. ASSUME NEW s \in Sessions, NEW r \in Requests, CleanTake(s, r) PROVE Holder(q)'
  BY <1>4, <1>0 DEF CleanTake, prVars, callVars
<1>5. ASSUME NEW s \in Sessions, CleanCancel(s) PROVE Holder(q)'
  <2>. DEFINE r == cleaner[s].req
  <2>1. r \in Requests /\ Holder(r) /\ Taken(s, r) /\ s \in closed
    BY <1>0, <1>5 DEF CleanCancel, HolderInv, ManagerInv
  <2>2. /\ CancelWithError(r) /\ cleaner' = [cleaner EXCEPT ![s].pc = "range"]
        /\ UNCHANGED <<closed, pending, callVars>>
    BY <1>5 DEF CleanCancel
  <2>. QED
    BY <1>0, <2>1, <2>2, CloserEffect DEF callVars
<1>6. ASSUME NEW s \in Sessions, Settle(s) PROVE Holder(q)'
  <2>. DEFINE r == reader[s].req
  <2>1. UNCHANGED <<closed, cleaner, callVars>>
    BY <1>6 DEF Settle, ReaderFrame
  <2>2. CASE r \in pending[s]
    <3>1. /\ pending' = [pending EXCEPT ![s] = @ \ {r}]
          /\ Close(r) \/ Cancel(r) \/ CancelWithError(r)
      BY <1>6, <2>2 DEF Settle
    <3>2. squeeze'[r] => target[r] \in closed \/ r \in ctxDone
      <4>1. s \in closed \/ r \in ctxDone \/ Close(r) \/ Cancel(r)
        BY <1>6, <2>2 DEF Settle
      <4>. QED
        BY <4>1, <2>2, <1>0 DEF Close, Cancel
    <3>. QED
      BY <1>0, <2>1, <2>2, <3>1, <3>2, CloserEffect DEF callVars
  <2>3. CASE r \notin pending[s]
    BY <1>0, <1>6, <2>1, <2>3 DEF Settle, prVars, callVars
  <2>. QED
    BY <2>2, <2>3
<1>7. ASSUME NEW s \in Sessions, DeliverSend(s) PROVE Holder(q)'
  BY <1>7, <1>0 DEF DeliverSend, ReaderInv, Reader, ReaderFrame, callVars
<1>8. ASSUME NEW r \in Requests, NEW p \in Providers, Send(r, p) PROVE Holder(q)'
  BY <1>8, <1>0, WsRelayAssumption DEF Send, Return, CallerFrame, prVars, ManagerTypes
<1>9. ASSUME NEW r \in Requests, Store(r) PROVE Holder(q)'
  BY <1>9, <1>0 DEF Store, CallerFrame, prVars
<1>10. ASSUME NEW r \in Requests, AfterFunc(r) PROVE Holder(q)'
  BY <1>10, <1>0 DEF AfterFunc, CallerFrame
<1>11. ASSUME NEW r \in Requests, SetStopCancel(r) \/ CheckClosed(r) \/ WriteSucceeds(r) \/ WriteFails(r)
       PROVE  Holder(q)'
  BY <1>11, <1>0 DEF SetStopCancel, CheckClosed, WriteSucceeds, WriteFails, CallerFrame, prVars
<1>12. ASSUME NEW r \in Requests, Undo(r) PROVE Holder(q)'
  <2>1. /\ UNCHANGED <<closed, cleaner, target, ctxDone>>
        /\ caller[r] = "undo" /\ caller' = [caller EXCEPT ![r] = "returned"]
    BY <1>12 DEF Undo, Return, CallerFrame
  <2>2. CASE r \in pending[target[r]]
    <3>1. pending' = [pending EXCEPT ![target[r]] = @ \ {r}] /\ Close(r)
      BY <1>12, <2>2 DEF Undo
    <3>2. ~ squeeze'[r]
      BY <1>0, <2>1, <2>2, <3>1 DEF Close
    <3>. QED
      BY <1>0, <2>1, <2>2, <3>1, <3>2, CloserEffect
  <2>3. CASE r \notin pending[target[r]]
    BY <1>0, <1>12, <2>1, <2>3 DEF Undo, prVars
  <2>. QED
    BY <2>2, <2>3
<1>13. ASSUME NEW r \in Requests, Receive(r) \/ ReceiveClosed(r) \/ ReceiveCtx(r)
       PROVE  Holder(q)'
  BY <1>13, <1>0 DEF Receive, ReceiveClosed, ReceiveCtx, Return, CallerFrame, prVars
<1>14. ASSUME NEW r \in Requests, CancelContext(r) PROVE Holder(q)'
  BY <1>14, <1>0 DEF CancelContext, CallerFrame, prVars
<1>15. ASSUME NEW r \in Requests, AfterRun(r) PROVE Holder(q)'
  <2>1. /\ UNCHANGED <<closed, cleaner, prClosed, done, terminal, squeeze, callVars>>
        /\ after[r] = "armed" /\ r \in ctxDone
    BY <1>15 DEF AfterRun, CallerFrame
  <2>2. CASE r \in pending[target[r]]
    <3>1. /\ pending' = [pending EXCEPT ![target[r]] = @ \ {r}]
          /\ after' = [after EXCEPT ![r] = "cancel"]
      BY <1>15, <2>2 DEF AfterRun
    <3>. QED
      BY <1>0, <2>1, <2>2, <3>1 DEF callVars
  <2>3. CASE r \notin pending[target[r]]
    BY <1>0, <1>15, <2>1, <2>3 DEF AfterRun, callVars
  <2>. QED
    BY <2>2, <2>3
<1>16. ASSUME NEW r \in Requests, AfterCancel(r) PROVE Holder(q)'
  BY <1>16, <1>0 DEF AfterCancel, CallerFrame, callVars
<1>17. ASSUME NEW r \in Requests, Squeeze(r) PROVE Holder(q)'
  BY <1>17, <1>0 DEF Squeeze, callVars
<1>18. CASE UNCHANGED <<closed, cleaner, pending, prVars, callVars>>
  BY <1>18, <1>0 DEF prVars, callVars
<1>. QED
  BY <1>1, <1>2, <1>3, <1>4, <1>5, <1>6, <1>7, <1>8, <1>9, <1>10, <1>11, <1>12, <1>13, <1>14,
     <1>15, <1>16, <1>17, <1>18
     DEF vars, Next, SessionStep, RequestStep, Environment, CleanReplaced, HeartbeatFails,
         Register, Refuse, Replaced, StartReader, Stop, StopNext, StopDone, Read, ReadFails,
         DeliverLock, DeliverGiveUp, PeerSends, ReaderFrame, ManagerInv, MapInv

LEMMA RangeStep == TypeOK /\ ManagerInv /\ HolderInv /\ RangeInv /\ [Next]_vars => RangeInv'
<1>. DEFINE Ranged(s, r) ==
              caller[r] \in {"write", "receive"} /\ r \in pending[s] =>
                  \/ cleaner[s].pc \in {"none", "closed"}
                  \/ cleaner[s].pc \in {"range", "cancel"} /\ r \in cleaner[s].todo
<1>. SUFFICES ASSUME TypeOK, ManagerInv, HolderInv, RangeInv, [Next]_vars,
                     NEW t \in Sessions, NEW q \in Requests
              PROVE  Ranged(t, q)'
  BY DEF RangeInv
<1>. USE DEF TypeOK, SessionTypes, CallTypes, Cleaners
<1>0. Ranged(t, q) /\ Holder(q)
  BY DEF RangeInv, HolderInv
<1>1. ASSUME NEW s \in Sessions, BeginCleanup(s), UNCHANGED <<pending, caller>>
      PROVE  Ranged(t, q)'
  BY <1>0, <1>1 DEF BeginCleanup, ManagerInv
<1>2. ASSUME NEW s \in Sessions, CleanRange(s) PROVE Ranged(t, q)'
  BY <1>0, <1>2 DEF CleanRange, callVars
<1>13. ASSUME NEW s \in Sessions, CleanCancel(s) PROVE Ranged(t, q)'
  BY <1>0, <1>13 DEF CleanCancel, callVars
<1>3. ASSUME NEW s \in Sessions, CleanEnd(s) PROVE Ranged(t, q)'
  BY <1>0, <1>3 DEF CleanEnd, callVars, Idle
<1>4. ASSUME NEW s \in Sessions, NEW r \in Requests, CleanTake(s, r) PROVE Ranged(t, q)'
  BY <1>0, <1>4 DEF CleanTake, callVars
<1>5. ASSUME NEW s \in Sessions, Settle(s) PROVE Ranged(t, q)'
  BY <1>0, <1>5 DEF Settle, ReaderFrame, callVars
<1>6. ASSUME NEW r \in Requests, Store(r) PROVE Ranged(t, q)'
  BY <1>0, <1>6 DEF Store, CallerFrame
<1>7. ASSUME NEW r \in Requests, CheckClosed(r) PROVE Ranged(t, q)'
  BY <1>0, <1>7 DEF CheckClosed, CallerFrame, Holder, ManagerInv
<1>8. ASSUME NEW r \in Requests, Undo(r) \/ AfterRun(r) PROVE Ranged(t, q)'
  BY <1>0, <1>8 DEF Undo, AfterRun, Return, CallerFrame, callVars
<1>9. ASSUME NEW r \in Requests,
             AfterFunc(r) \/ SetStopCancel(r) \/ WriteSucceeds(r) \/ WriteFails(r)
      PROVE  Ranged(t, q)'
  BY <1>0, <1>9 DEF AfterFunc, SetStopCancel, WriteSucceeds, WriteFails, CallerFrame
<1>10. ASSUME NEW r \in Requests, Receive(r) \/ ReceiveClosed(r) \/ ReceiveCtx(r)
       PROVE  Ranged(t, q)'
  BY <1>0, <1>10 DEF Receive, ReceiveClosed, ReceiveCtx, Return, CallerFrame
<1>11. ASSUME NEW r \in Requests, NEW p \in Providers, Send(r, p) PROVE Ranged(t, q)'
  BY <1>0, <1>11 DEF Send, Return, CallerFrame
<1>12. CASE UNCHANGED <<cleaner, pending, caller>>
  BY <1>0, <1>12
<1>. QED
  BY <1>1, <1>2, <1>3, <1>4, <1>5, <1>6, <1>7, <1>8, <1>9, <1>10, <1>11, <1>12, <1>13
     DEF vars, Next, SessionStep, RequestStep, Environment, CleanReplaced, HeartbeatFails,
         Register, Refuse, Replaced, StartReader, Stop, StopNext, StopDone, Read, ReadFails,
         DeliverLock, DeliverSend, DeliverGiveUp, PeerSends, CancelContext, AfterCancel, Squeeze,
         ReaderFrame, CallerFrame, callVars, ManagerInv, MapInv

-----------------------------------------------------------------------------
(* Frames on their way *)

LEMMA PeerStep == TypeOK /\ HolderInv /\ PeerInv /\ [Next]_vars => PeerInv'
<1>. SUFFICES ASSUME TypeOK, HolderInv, PeerInv, [Next]_vars PROVE PeerInv'
  OBVIOUS
<1>. USE DEF TypeOK, CallTypes, PeerInv
<1>1. ASSUME NEW r \in Requests, NEW p \in Providers, Send(r, p) PROVE PeerInv'
  BY <1>1 DEF Send, Return, HolderInv, Holder
<1>2. ASSUME NEW r \in Requests,
             Store(r) \/ AfterFunc(r) \/ SetStopCancel(r) \/ CheckClosed(r) \/ WriteFails(r)
      PROVE  PeerInv'
  BY <1>2 DEF Store, AfterFunc, SetStopCancel, CheckClosed, WriteFails
<1>3. ASSUME NEW r \in Requests, WriteSucceeds(r) PROVE PeerInv'
  BY <1>3 DEF WriteSucceeds, HolderInv, Holder
<1>4. ASSUME NEW r \in Requests, Undo(r) \/ ReceiveClosed(r) \/ ReceiveCtx(r)
      PROVE  PeerInv'
  BY <1>4 DEF Undo, ReceiveClosed, ReceiveCtx, Return
<1>5. ASSUME NEW r \in Requests, Receive(r) PROVE PeerInv'
  BY <1>5 DEF Receive, Return
<1>6. ASSUME NEW r \in Requests, PeerSends(r) PROVE PeerInv'
  BY <1>6, WsRelayAssumption DEF PeerSends, callVars
<1>7. CASE UNCHANGED <<caller, target, peer>>
  BY <1>7
<1>. QED
  BY <1>1, <1>2, <1>3, <1>4, <1>5, <1>6, <1>7
     DEF vars, callVars, Next, SessionStep, RequestStep, Environment, CleanRange, CleanTake,
         CleanCancel, CleanEnd, CleanReplaced, HeartbeatFails, Register, Refuse, Replaced,
         StartReader, Stop, StopNext, StopDone, Read, ReadFails, DeliverLock, DeliverSend,
         DeliverGiveUp, Settle, CancelContext, AfterRun, AfterCancel, Squeeze, ReaderFrame,
         CallerFrame

(* What a reader knows after deliver or deliverTerminal has returned.      *)
LEMMA AfterDeliverEffect ==
    ASSUME TypeOK, NEW s \in Sessions, NEW d \in BOOLEAN, AfterDeliver(s, d)
    PROVE  /\ \A t \in Sessions : t # s => reader'[t] = reader[t]
           /\ reader'[s].pc \in {"read", "settle"}
           /\ reader'[s].pc = "settle" => reader[s].n = Last
           /\ reader'[s].req = reader[s].req
           /\ reader'[s].n = reader[s].n
           /\ reader'[s].delivered = d
<1>1. reader[s].n < Last \/ reader[s].n = Last
  <2>1. reader[s].n \in 0..Last
    BY DEF TypeOK, SessionTypes, Readers
  <2>. QED
    BY <2>1, WsRelayAssumption
<1>. QED
  BY <1>1 DEF AfterDeliver, TypeOK, SessionTypes, Readers

LEMMA ReaderStep ==
    TypeOK /\ ManagerInv /\ HolderInv /\ PeerInv /\ ReaderInv /\ WireInv /\ [Next]_vars => ReaderInv'
<1>. SUFFICES ASSUME TypeOK, ManagerInv, HolderInv, PeerInv, ReaderInv, WireInv, [Next]_vars,
                     NEW t \in Sessions
              PROVE  Reader(t)'
  BY DEF ReaderInv
<1>. USE DEF TypeOK, SessionTypes, RequestTypes, CallTypes, Readers, Holds, Reader
<1>0. /\ \A s \in Sessions : Reader(s)
      /\ \A r \in Requests : Holder(r)
      /\ reader[t] \in Readers
  BY DEF ReaderInv, HolderInv
<1>1. ASSUME NEW s \in Sessions, Read(s) PROVE Reader(t)'
  <2>1. Head(wire[s]) = wire[s][1] /\ Head(wire[s]) \in Frames /\ 1 \in 1..Len(wire[s])
    BY <1>1, TailAt DEF Read, Wires
  <2>2. /\ target[Head(wire[s])[1]] = s
        /\ Head(wire[s])[1] \in Requests
        /\ Head(wire[s])[2] \in 1..peer[Head(wire[s])[1]]
    BY <2>1, WsRelayAssumption DEF WireInv, Ordered, Frames
  <2>. QED
    BY <1>0, <1>1, <2>2 DEF Read, ReaderFrame, prVars, callVars, NotRunning
<1>2. ASSUME NEW s \in Sessions, ReadFails(s) PROVE Reader(t)'
  BY <1>0, <1>2 DEF ReadFails, BeginCleanup, prVars, callVars, NotRunning
<1>3. ASSUME NEW s \in Sessions, DeliverLock(s) PROVE Reader(t)'
  <2>. DEFINE r == reader[s].req
  <2>1. /\ reader[s].pc = "lock" /\ ~ squeeze[r]
        /\ UNCHANGED <<closed, pending, prClosed, squeeze, terminal, target, ctxDone, peer>>
    BY <1>3 DEF DeliverLock, Locked, ReaderFrame, prVars, callVars
  <2>2. CASE prClosed[r] \/ terminal[r]
    <3>1. AfterDeliver(s, FALSE)
      BY <1>3, <2>2 DEF DeliverLock
    <3>2. ~ terminal[r]
      BY <1>0, <2>1 DEF WireInv, Finished
    <3>3. r \notin pending[s]
      BY <1>0, <2>1, <2>2, <3>2 DEF Holder
    <3>4. CASE t = s
      BY <1>0, <2>1, <3>1, <3>3, <3>4, AfterDeliverEffect
    <3>5. CASE t # s
      <4>1. reader'[t] = reader[t]
        BY <3>1, <3>5, AfterDeliverEffect
      <4>. QED
        BY <1>0, <2>1, <4>1
    <3>. QED
      BY <3>4, <3>5
  <2>3. CASE ~ (prClosed[r] \/ terminal[r])
    <3>1. reader' = [reader EXCEPT ![s].pc = "select"]
      BY <1>3, <2>3 DEF DeliverLock
    <3>. QED
      BY <1>0, <2>1, <2>3, <3>1
  <2>. QED
    BY <2>2, <2>3
<1>4. ASSUME NEW s \in Sessions, DeliverSend(s) PROVE Reader(t)'
  <2>. DEFINE r == reader[s].req
  <2>1. /\ reader[s].pc = "select" /\ AfterDeliver(s, TRUE)
        /\ terminal' = [terminal EXCEPT ![r] = reader[s].n = Last]
        /\ UNCHANGED <<closed, pending, prClosed, squeeze, target, ctxDone, peer>>
    BY <1>4 DEF DeliverSend, ReaderFrame, callVars
  <2>2. r \in Requests /\ target[r] = s /\ reader[s].n \in 1..Last /\ ~ terminal[r]
    BY <1>0, <2>1
  <2>3. CASE t = s
    <3>1. reader'[s].pc = "settle" => terminal'[r]
      BY <2>1, <2>2, AfterDeliverEffect
    <3>. QED
      BY <2>1, <2>2, <2>3, <3>1, <1>0, AfterDeliverEffect
  <2>4. CASE t # s
    <3>1. reader'[t] = reader[t]
      BY <2>1, <2>4, AfterDeliverEffect
    <3>2. Holds(t) => reader[t].req # r
      BY <1>0, <2>2, <2>4
    <3>. QED
      BY <1>0, <2>1, <3>1, <3>2
  <2>. QED
    BY <2>3, <2>4
<1>5. ASSUME NEW s \in Sessions, DeliverGiveUp(s) PROVE Reader(t)'
  <2>. DEFINE r == reader[s].req
  <2>1. /\ reader[s].pc = "select" /\ AfterDeliver(s, FALSE)
        /\ done[r] \/ s \in closed \/ r \in ctxDone
        /\ UNCHANGED <<closed, pending, prClosed, squeeze, terminal, target, ctxDone, peer>>
    BY <1>5 DEF DeliverGiveUp, ReaderFrame, prVars, callVars
  <2>2. r \notin pending[s] \/ s \in closed \/ r \in ctxDone
    BY <1>0, <2>1 DEF Holder
  <2>3. CASE t = s
    BY <1>0, <2>1, <2>2, <2>3, AfterDeliverEffect
  <2>4. CASE t # s
    <3>1. reader'[t] = reader[t]
      BY <2>1, <2>4, AfterDeliverEffect
    <3>. QED
      BY <1>0, <2>1, <3>1
  <2>. QED
    BY <2>3, <2>4
<1>6. ASSUME NEW s \in Sessions, Settle(s) PROVE Reader(t)'
  <2>. DEFINE r == reader[s].req
  <2>1. /\ reader' = [reader EXCEPT ![s].pc = "read"]
        /\ UNCHANGED <<closed, target, ctxDone, peer>>
    BY <1>6 DEF Settle, ReaderFrame, callVars
  <2>2. CASE r \in pending[s]
    <3>1. /\ pending' = [pending EXCEPT ![s] = @ \ {r}]
          /\ Close(r) \/ Cancel(r) \/ CancelWithError(r)
      BY <1>6, <2>2 DEF Settle
    <3>2. r \in Requests /\ ~ prClosed[r]
      BY <1>0, <2>2 DEF Holder
    <3>. QED
      BY <1>0, <2>1, <3>1, <3>2, CloserEffect
  <2>3. CASE r \notin pending[s]
    BY <1>0, <1>6, <2>1, <2>3 DEF Settle, prVars
  <2>. QED
    BY <2>2, <2>3
<1>7. ASSUME NEW s \in Sessions, StartReader(s) PROVE Reader(t)'
  BY <1>0, <1>7 DEF StartReader, prVars, callVars
<1>8. ASSUME NEW s \in Sessions, BeginCleanup(s), UNCHANGED <<reader, pending, prVars, callVars, peer>>
      PROVE  Reader(t)'
  BY <1>0, <1>8 DEF BeginCleanup, prVars, callVars
<1>9. ASSUME NEW s \in Sessions, CleanCancel(s) PROVE Reader(t)'
  <2>. DEFINE r == cleaner[s].req
  <2>1. CancelWithError(r) /\ UNCHANGED <<closed, reader, pending, target, ctxDone, peer>>
    BY <1>9 DEF CleanCancel, callVars
  <2>2. r \in Requests /\ ~ prClosed[r]
    BY <1>0, <1>9 DEF CleanCancel, Taken, Holder, HolderInv
  <2>3. terminal' = terminal /\ (reader[t].pc = "select" => reader[t].req # r)
    BY <2>1, <2>2, CloserEffect
  <2>4. \A q \in Requests : q # r => prClosed'[q] = prClosed[q] /\ squeeze'[q] = squeeze[q]
    BY <2>1, <2>2, CloserEffect
  <2>. QED
    BY <1>0, <2>1, <2>3, <2>4
<1>10. ASSUME NEW s \in Sessions, NEW r \in Requests, CleanTake(s, r) PROVE Reader(t)'
  BY <1>0, <1>10 DEF CleanTake, prVars, callVars
<1>11. ASSUME NEW r \in Requests, PeerSends(r) PROVE Reader(t)'
  <2>1. /\ UNCHANGED <<closed, reader, pending, prClosed, squeeze, terminal, target, ctxDone>>
        /\ peer[r] \in Nat /\ peer' = [peer EXCEPT ![r] = peer[r] + 1]
    BY <1>11 DEF PeerSends, prVars, callVars
  <2>2. \A q \in Requests : 1..peer[q] \subseteq 1..peer'[q]
    BY <2>1
  <2>. QED
    BY <1>0, <2>1, <2>2
<1>12. ASSUME NEW r \in Requests, NEW p \in Providers, Send(r, p) PROVE Reader(t)'
  BY <1>0, <1>12 DEF Send, CallerFrame, PeerInv, prVars
<1>13. ASSUME NEW r \in Requests, Store(r) PROVE Reader(t)'
  <2>1. /\ caller[r] = "store" /\ pending' = [pending EXCEPT ![target[r]] = @ \cup {r}]
        /\ UNCHANGED <<closed, reader, prClosed, squeeze, terminal, target, ctxDone, peer>>
    BY <1>13 DEF Store, CallerFrame, prVars
  <2>2. Holds(t) => reader[t].req # r
    BY <1>0, <2>1 DEF PeerInv
  <2>. QED
    BY <1>0, <2>1, <2>2
<1>14. ASSUME NEW r \in Requests, WriteSucceeds(r) PROVE Reader(t)'
  BY <1>0, <1>14 DEF WriteSucceeds, CallerFrame, PeerInv, prVars
<1>15. ASSUME NEW r \in Requests, Undo(r) PROVE Reader(t)'
  <2>1. UNCHANGED <<closed, reader, target, ctxDone, peer>>
    BY <1>15 DEF Undo, CallerFrame
  <2>2. CASE r \in pending[target[r]]
    <3>1. pending' = [pending EXCEPT ![target[r]] = @ \ {r}] /\ Close(r)
      BY <1>15, <2>2 DEF Undo
    <3>2. ~ prClosed[r]
      BY <1>0, <1>15, <2>2 DEF Holder, Undo
    <3>3. terminal' = terminal /\ (reader[t].pc = "select" => reader[t].req # r)
      BY <3>1, <3>2, CloserEffect
    <3>4. pending'[t] \subseteq pending[t]
      BY <3>1
    <3>. QED
      BY <1>0, <2>1, <3>1, <3>2, <3>3, <3>4, CloserEffect
  <2>3. CASE r \notin pending[target[r]]
    BY <1>0, <1>15, <2>1, <2>3 DEF Undo, prVars
  <2>. QED
    BY <2>2, <2>3
<1>16. ASSUME NEW r \in Requests, CancelContext(r) PROVE Reader(t)'
  BY <1>0, <1>16 DEF CancelContext, CallerFrame, prVars
<1>17. ASSUME NEW r \in Requests, AfterRun(r) PROVE Reader(t)'
  BY <1>0, <1>17 DEF AfterRun, CallerFrame, callVars
<1>18. ASSUME NEW r \in Requests, AfterCancel(r) \/ Squeeze(r) PROVE Reader(t)'
  <2>1. /\ UNCHANGED <<closed, reader, pending, terminal, target, ctxDone, peer>>
        /\ prClosed' = [prClosed EXCEPT ![r] = TRUE]
        /\ \A q \in Requests : squeeze'[q] => squeeze[q]
    BY <1>18 DEF AfterCancel, Squeeze, CallerFrame, callVars
  <2>2. reader[t].pc = "select" => reader[t].req # r
    BY <1>0, <1>18 DEF AfterCancel, Squeeze, Locked
  <2>. QED
    BY <1>0, <2>1, <2>2
<1>19. CASE UNCHANGED <<closed, reader, pending, prClosed, terminal, squeeze, target, ctxDone, peer>>
  BY <1>0, <1>19
<1>. QED
  BY <1>1, <1>2, <1>3, <1>4, <1>5, <1>6, <1>7, <1>8, <1>9, <1>10, <1>11, <1>12, <1>13, <1>14,
     <1>15, <1>16, <1>17, <1>18, <1>19
     DEF vars, prVars, callVars, Next, SessionStep, RequestStep, Environment, CleanRange, CleanEnd,
         CleanReplaced, HeartbeatFails, Register, Refuse, Replaced, Stop, StopNext, StopDone,
         AfterFunc, SetStopCancel, CheckClosed, WriteFails, Receive, ReceiveClosed, ReceiveCtx,
         CallerFrame, ManagerInv, MapInv

(* The reader's frame stays the same until it reads the next one.          *)
LEMMA ReaderKeeps ==
    ASSUME TypeOK, [Next]_vars, NEW t \in Sessions, ~ Read(t), Holds(t)'
    PROVE  Holds(t) /\ reader'[t].req = reader[t].req /\ reader'[t].n = reader[t].n
<1>. USE DEF TypeOK, SessionTypes, Readers, Holds
<1>1. ASSUME NEW s \in Sessions, s # t, Read(s) PROVE reader'[t] = reader[t]
  BY <1>1 DEF Read
<1>2. ASSUME NEW s \in Sessions, ReadFails(s) PROVE s # t /\ reader'[t] = reader[t]
  BY <1>2 DEF ReadFails, NotRunning
<1>3. ASSUME NEW s \in Sessions, StartReader(s) PROVE s # t /\ reader'[t] = reader[t]
  BY <1>3 DEF StartReader
<1>4. ASSUME NEW s \in Sessions, NEW d \in BOOLEAN, reader[s].pc \in {"lock", "select"},
             AfterDeliver(s, d)
      PROVE  Holds(t) /\ reader'[t].req = reader[t].req /\ reader'[t].n = reader[t].n
  <2>1. CASE s = t
    BY <1>4, <2>1, AfterDeliverEffect
  <2>2. CASE s # t
    <3>1. reader'[t] = reader[t]
      BY <1>4, <2>2, AfterDeliverEffect
    <3>. QED
      BY <3>1
  <2>. QED
    BY <2>1, <2>2
<1>5. ASSUME NEW s \in Sessions, DeliverLock(s)
      PROVE  Holds(t) /\ reader'[t].req = reader[t].req /\ reader'[t].n = reader[t].n
  <2>1. AfterDeliver(s, FALSE) \/ reader' = [reader EXCEPT ![s].pc = "select"]
    BY <1>5 DEF DeliverLock
  <2>2. reader[s].pc = "lock"
    BY <1>5 DEF DeliverLock
  <2>3. CASE reader' = [reader EXCEPT ![s].pc = "select"]
    BY <2>2, <2>3
  <2>. QED
    BY <1>4, <2>1, <2>2, <2>3
<1>6. ASSUME NEW s \in Sessions, DeliverSend(s) \/ DeliverGiveUp(s)
      PROVE  Holds(t) /\ reader'[t].req = reader[t].req /\ reader'[t].n = reader[t].n
  BY <1>4, <1>6 DEF DeliverSend, DeliverGiveUp
<1>7. ASSUME NEW s \in Sessions, Settle(s) PROVE s # t /\ reader'[t] = reader[t]
  BY <1>7 DEF Settle
<1>8. CASE UNCHANGED reader
  BY <1>8
<1>. QED
  BY <1>1, <1>2, <1>3, <1>5, <1>6, <1>7, <1>8
     DEF vars, Next, SessionStep, RequestStep, Environment, CleanRange, CleanTake, CleanCancel,
         CleanEnd, CleanReplaced, HeartbeatFails, Register, Refuse, Replaced, Stop, StopNext,
         StopDone, PeerSends, Send, Store, AfterFunc, SetStopCancel, CheckClosed, WriteSucceeds,
         WriteFails, Undo, Receive, ReceiveClosed, ReceiveCtx, CancelContext, AfterRun,
         AfterCancel, Squeeze, ReaderFrame, CallerFrame

(* A request that the provider has keeps its session, and its answer only  *)
(* grows.                                                                  *)
LEMMA PeerGrows ==
    ASSUME TypeOK, PeerInv, [Next]_vars, NEW q \in Requests, peer[q] # -1
    PROVE  /\ target'[q] = target[q]
           /\ peer'[q] = peer[q] \/ (PeerSends(q) /\ peer'[q] = peer[q] + 1)
<1>. USE DEF TypeOK, CallTypes, PeerInv
<1>1. ASSUME NEW r \in Requests, NEW p \in Providers, Send(r, p)
      PROVE  target'[q] = target[q] /\ peer'[q] = peer[q]
  BY <1>1 DEF Send
<1>2. ASSUME NEW r \in Requests, WriteSucceeds(r)
      PROVE  target'[q] = target[q] /\ peer'[q] = peer[q]
  BY <1>2 DEF WriteSucceeds
<1>3. ASSUME NEW r \in Requests, PeerSends(r)
      PROVE  /\ target'[q] = target[q]
             /\ peer'[q] = peer[q] \/ (PeerSends(q) /\ peer'[q] = peer[q] + 1)
  <2>1. target' = target /\ peer' = [peer EXCEPT ![r] = peer[r] + 1]
    BY <1>3 DEF PeerSends, callVars
  <2>. QED
    BY <1>3, <2>1
<1>4. CASE UNCHANGED <<target, peer>>
  BY <1>4
<1>. QED
  BY <1>1, <1>2, <1>3, <1>4
     DEF vars, callVars, Next, SessionStep, RequestStep, Environment, CleanRange, CleanTake,
         CleanCancel, CleanEnd, CleanReplaced, HeartbeatFails, Register, Refuse, Replaced,
         StartReader, Stop, StopNext, StopDone, Read, ReadFails, DeliverLock, DeliverSend,
         DeliverGiveUp, Settle, Store, AfterFunc, SetStopCancel, CheckClosed, WriteFails, Undo,
         Receive, ReceiveClosed, ReceiveCtx, CancelContext, AfterRun, AfterCancel, Squeeze,
         ReaderFrame, CallerFrame

(* A frame on the wire belongs to a request that the provider has.         *)
LEMMA FrameSent ==
    ASSUME TypeOK, WireInv, NEW s \in Sessions, NEW i \in 1..Len(wire[s])
    PROVE  /\ wire[s][i] \in Frames
           /\ wire[s][i][1] \in Requests
           /\ wire[s][i][2] \in 1..Last
           /\ wire[s][i] = <<wire[s][i][1], wire[s][i][2]>>
           /\ target[wire[s][i][1]] = s
           /\ wire[s][i][2] <= peer[wire[s][i][1]]
           /\ peer[wire[s][i][1]] # -1
<1>1. wire[s][i] \in Frames
  BY DEF TypeOK, SessionTypes, Wires
<1>2. /\ wire[s][i][1] \in Requests
      /\ wire[s][i][2] \in 1..Last
      /\ wire[s][i] = <<wire[s][i][1], wire[s][i][2]>>
  BY <1>1 DEF Frames
<1>. QED
  BY <1>1, <1>2, WsRelayAssumption DEF WireInv, Ordered

(* How the wire changes.                                                   *)
LEMMA WireChanges ==
    ASSUME TypeOK, [Next]_vars
    PROVE  \/ UNCHANGED wire /\ \A s \in Sessions : ~ Read(s)
           \/ \E s \in Sessions : Read(s)
           \/ \E r \in Requests : PeerSends(r) /\ UNCHANGED reader
<1>. SUFFICES ASSUME UNCHANGED wire PROVE \A s \in Sessions : ~ Read(s)
  BY DEF vars, Next, SessionStep, RequestStep, Environment, CleanRange, CleanTake,
         CleanCancel, CleanEnd, CleanReplaced, HeartbeatFails, Register, Refuse, Replaced,
         StartReader, Stop, StopNext, StopDone, ReadFails, DeliverLock, DeliverSend,
         DeliverGiveUp, Settle, PeerSends, Send, Store, AfterFunc, SetStopCancel, CheckClosed,
         WriteSucceeds, WriteFails, Undo, Receive, ReceiveClosed, ReceiveCtx, CancelContext,
         AfterRun, AfterCancel, Squeeze, ReaderFrame, CallerFrame
<1>. SUFFICES ASSUME NEW s \in Sessions, Read(s) PROVE FALSE
  OBVIOUS
<1>1. wire'[s] = Tail(wire[s]) /\ wire[s] # <<>> /\ wire[s] \in Seq(Frames)
  BY DEF Read, TypeOK, SessionTypes, Wires
<1>2. Len(Tail(wire[s])) = Len(wire[s]) - 1 /\ Len(wire[s]) \in Nat
  BY <1>1, TailAt
<1>3. Tail(wire[s]) = wire[s]
  BY <1>1
<1>4. Len(wire[s]) = Len(wire[s]) - 1
  BY <1>2, <1>3
<1>. QED
  BY <1>2, <1>4

LEMMA OrderedStep ==
    ASSUME TypeOK, PeerInv, ReaderInv, WireInv, [Next]_vars, NEW t \in Sessions
    PROVE  Ordered(t)'
<1>0. /\ Ordered(t) /\ Reader(t)
      /\ wire[t] \in Seq(Frames)
      /\ peer \in [Requests -> -1..Last] /\ Last \in Nat
  BY WsRelayAssumption DEF WireInv, ReaderInv, TypeOK, SessionTypes, CallTypes, Wires
<1>1. \A i \in 1..Len(wire[t]) :
         /\ target'[wire[t][i][1]] = t
         /\ wire[t][i][2] <= peer'[wire[t][i][1]]
  <2>. SUFFICES ASSUME NEW i \in 1..Len(wire[t])
                PROVE  /\ target'[wire[t][i][1]] = t
                       /\ wire[t][i][2] <= peer'[wire[t][i][1]]
    OBVIOUS
  <2>1. wire[t][i][1] \in Requests /\ wire[t][i][2] \in Nat /\ peer[wire[t][i][1]] \in Int
    BY <1>0, FrameSent
  <2>. QED
    BY <2>1, FrameSent, PeerGrows
<1>2. ~ Read(t) => \A i \in 1..Len(wire[t]) :
         Holds(t)' /\ wire[t][i][1] = reader'[t].req => reader'[t].n < wire[t][i][2]
  BY <1>0, ReaderKeeps DEF Ordered
<1>3. CASE wire'[t] = wire[t] /\ ~ Read(t)
  BY <1>0, <1>1, <1>2, <1>3 DEF Ordered
<1>4. CASE Read(t)
  <2>1. /\ wire' = [wire EXCEPT ![t] = Tail(wire[t])] /\ wire[t] # <<>>
        /\ Holds(t)' => reader'[t].req = wire[t][1][1] /\ reader'[t].n = wire[t][1][2]
    <3>1. wire[t] # <<>> /\ Head(wire[t]) = wire[t][1]
      BY <1>0, <1>4, TailAt DEF Read
    <3>. QED
      BY <1>4, <3>1 DEF Read, Holds, NotRunning, TypeOK, SessionTypes
  <2>2. /\ Len(wire[t]) \in Nat \ {0}
        /\ Len(wire'[t]) = Len(wire[t]) - 1
        /\ \A i \in 1..Len(wire'[t]) : wire'[t][i] = wire[t][i + 1] /\ i + 1 \in 1..Len(wire[t])
    BY <1>0, <2>1, TailAt DEF TypeOK, SessionTypes
  <2>3. ASSUME NEW i \in 1..Len(wire'[t]), Holds(t)', wire'[t][i][1] = reader'[t].req
        PROVE  reader'[t].n < wire'[t][i][2]
    <3>1. 1 \in 1..Len(wire[t]) /\ 1 < i + 1
      BY <2>2
    <3>. QED
      BY <1>0, <2>1, <2>2, <2>3, <3>1 DEF Ordered
  <2>4. ASSUME NEW i \in 1..Len(wire'[t]), NEW j \in 1..Len(wire'[t]), i < j,
               wire'[t][i][1] = wire'[t][j][1]
        PROVE  wire'[t][i][2] < wire'[t][j][2]
    <3>1. i + 1 < j + 1
      BY <2>2, <2>4
    <3>. QED
      BY <1>0, <2>2, <2>4, <3>1 DEF Ordered
  <2>. QED
    BY <1>1, <2>2, <2>3, <2>4 DEF Ordered
<1>5. ASSUME NEW r \in Requests, PeerSends(r), UNCHANGED reader PROVE Ordered(t)'
  <2>. DEFINE f == <<r, peer[r] + 1>>
  <2>1. /\ wire' = [wire EXCEPT ![target[r]] = Append(wire[target[r]], f)]
        /\ peer[r] \in 0..(Last - 1) /\ peer'[r] = peer[r] + 1
        /\ target[r] \in Sessions /\ target' = target
    BY <1>5, <1>0 DEF PeerSends, callVars, PeerInv
  <2>2. ~ Read(t)
    BY <1>0, <1>5, <2>1, TailAt, AppendAt DEF Read, TypeOK, SessionTypes
  <2>3. CASE target[r] # t
    BY <1>3, <2>1, <2>2, <2>3 DEF TypeOK, SessionTypes
  <2>4. CASE target[r] = t
    <3>1. /\ f \in Frames /\ f[1] = r /\ f[2] = peer[r] + 1
          /\ wire'[t] = Append(wire[t], f)
      BY <1>0, <2>1, <2>4 DEF Frames, TypeOK, SessionTypes
    <3>2. /\ Len(wire[t]) \in Nat /\ Len(wire'[t]) = Len(wire[t]) + 1
          /\ \A i \in 1..Len(wire[t]) : wire'[t][i] = wire[t][i]
          /\ wire'[t][Len(wire[t]) + 1] = f
      BY <1>0, <3>1, AppendAt
    <3>3. \A i \in 1..Len(wire'[t]) :
             \/ i \in 1..Len(wire[t]) /\ wire'[t][i] = wire[t][i]
             \/ i = Len(wire[t]) + 1 /\ wire'[t][i] = f
      BY <3>2
    <3>4. Holds(t)' /\ reader'[t].req = r => reader'[t].n < f[2]
      BY <1>0, <1>5, <2>1, <3>1 DEF Holds, Reader
    <3>5. \A i \in 1..Len(wire[t]) : wire[t][i][1] = r => wire[t][i][2] < f[2]
      <4>. SUFFICES ASSUME NEW i \in 1..Len(wire[t]), wire[t][i][1] = r PROVE wire[t][i][2] < f[2]
        OBVIOUS
      <4>1. wire[t][i][2] \in Nat /\ wire[t][i][2] <= peer[r]
        BY FrameSent
      <4>. QED
        BY <2>1, <3>1, <4>1
    <3>6. ASSUME NEW i \in 1..Len(wire'[t]), NEW j \in 1..Len(wire'[t]), i < j,
                 wire'[t][i][1] = wire'[t][j][1]
          PROVE  wire'[t][i][2] < wire'[t][j][2]
      <4>1. i \in 1..Len(wire[t]) /\ wire'[t][i] = wire[t][i]
        BY <3>2, <3>6
      <4>. QED
        BY <1>0, <3>1, <3>3, <3>5, <3>6, <4>1 DEF Ordered
    <3>7. ASSUME NEW i \in 1..Len(wire'[t])
          PROVE  /\ target'[wire'[t][i][1]] = t
                 /\ wire'[t][i][2] <= peer'[wire'[t][i][1]]
                 /\ Holds(t)' /\ wire'[t][i][1] = reader'[t].req => reader'[t].n < wire'[t][i][2]
      BY <1>1, <1>2, <2>1, <2>2, <2>4, <3>1, <3>3, <3>4
    <3>. QED
      BY <3>6, <3>7 DEF Ordered
  <2>. QED
    BY <2>3, <2>4
<1>6. CASE \E s \in Sessions : Read(s)
  <2>. PICK s \in Sessions : Read(s)
    BY <1>6
  <2>1. CASE s # t
    <3>1. wire'[t] = wire[t] /\ reader'[t] = reader[t]
      BY <2>1 DEF Read, TypeOK, SessionTypes
    <3>2. ~ Read(t)
      BY <1>0, <3>1, TailAt DEF Read, TypeOK, SessionTypes
    <3>. QED
      BY <1>3, <3>1, <3>2
  <2>. QED
    BY <1>4, <2>1
<1>. QED
  BY <1>3, <1>5, <1>6, WireChanges

(* The frame in the hands of a reader that delivers is one it has read.    *)
LEMMA ReaderKeepsBusy ==
    ASSUME TypeOK, [Next]_vars, NEW t \in Sessions, ~ Read(t),
           reader'[t].pc \in {"lock", "select"}
    PROVE  reader[t].pc \in {"lock", "select"} /\ reader'[t].req = reader[t].req
           /\ reader'[t].n = reader[t].n
<1>. USE DEF TypeOK, SessionTypes, Readers
<1>1. ASSUME NEW s \in Sessions, Settle(s) PROVE reader'[t] = reader[t]
  BY <1>1 DEF Settle
<1>2. Holds(t) /\ reader'[t].req = reader[t].req /\ reader'[t].n = reader[t].n
  BY ReaderKeeps DEF Holds
<1>3. ASSUME NEW s \in Sessions, NEW d \in BOOLEAN, AfterDeliver(s, d) PROVE reader'[t] = reader[t]
  BY <1>3, AfterDeliverEffect
<1>4. ASSUME NEW s \in Sessions, DeliverSend(s) \/ DeliverGiveUp(s) PROVE reader'[t] = reader[t]
  BY <1>3, <1>4 DEF DeliverSend, DeliverGiveUp
<1>5. ASSUME NEW s \in Sessions, DeliverLock(s)
      PROVE  reader'[t] = reader[t] \/ reader[t].pc = "lock"
  BY <1>3, <1>5 DEF DeliverLock
<1>6. ASSUME NEW s \in Sessions, Read(s) \/ ReadFails(s) \/ StartReader(s)
      PROVE  reader'[t] = reader[t]
  BY <1>6 DEF Read, ReadFails, StartReader, NotRunning
<1>7. reader'[t] = reader[t] \/ reader[t].pc = "lock"
  BY <1>1, <1>4, <1>5, <1>6
     DEF vars, Next, SessionStep, RequestStep, Environment, CleanRange, CleanTake, CleanCancel,
         CleanEnd, CleanReplaced, HeartbeatFails, Register, Refuse, Replaced, Stop, StopNext,
         StopDone, PeerSends, Send, Store, AfterFunc, SetStopCancel, CheckClosed, WriteSucceeds,
         WriteFails, Undo, Receive, ReceiveClosed, ReceiveCtx, CancelContext, AfterRun,
         AfterCancel, Squeeze, ReaderFrame, CallerFrame
<1>. QED
  BY <1>2, <1>7

(* Only the delivery of the last frame sets the terminal mark.             *)
LEMMA TerminalSet ==
    ASSUME TypeOK, [Next]_vars, NEW q \in Requests, terminal'[q]
    PROVE  \/ terminal[q]
           \/ \E s \in Sessions : DeliverSend(s) /\ reader[s].req = q /\ reader[s].n = Last
<1>. USE DEF TypeOK, RequestTypes
<1>1. ASSUME NEW s \in Sessions, DeliverSend(s), ~ terminal[q]
      PROVE  reader[s].req = q /\ reader[s].n = Last
  BY <1>1 DEF DeliverSend
<1>2. ASSUME NEW r, Close(r) \/ Cancel(r) \/ CancelWithError(r) PROVE terminal' = terminal
  BY <1>2 DEF Close, Cancel, CancelWithError, prVars
<1>. QED
  BY <1>1, <1>2
     DEF vars, prVars, Next, SessionStep, RequestStep, Environment, CleanRange, CleanTake,
         CleanCancel, CleanEnd, CleanReplaced, HeartbeatFails, Register, Refuse, Replaced,
         StartReader, Stop, StopNext, StopDone, Read, ReadFails, DeliverLock, DeliverGiveUp,
         Settle, PeerSends, Send, Store, AfterFunc, SetStopCancel, CheckClosed, WriteSucceeds,
         WriteFails, Undo, Receive, ReceiveClosed, ReceiveCtx, CancelContext, AfterRun,
         AfterCancel, Squeeze, ReaderFrame, CallerFrame

LEMMA FinishedStep ==
    ASSUME TypeOK, PeerInv, ReaderInv, WireInv, [Next]_vars,
           NEW q \in Requests, terminal'[q]
    PROVE  Finished(q)'
<1>0. /\ \A s \in Sessions : wire[s] \in Seq(Frames)
      /\ \A s \in Sessions : Reader(s) /\ Ordered(s)
      /\ peer \in [Requests -> -1..Last] /\ Last \in Nat \ {0}
  BY WsRelayAssumption DEF WireInv, ReaderInv, TypeOK, SessionTypes, CallTypes, Wires
(* An answer that was complete stays so.                                   *)
<1>1. ASSUME Finished(q) PROVE Finished(q)'
  <2>1. peer'[q] = Last /\ ~ PeerSends(q)
    <3>1. ~ PeerSends(q)
      BY <1>0, <1>1 DEF Finished, PeerSends
    <3>. QED
      BY <1>0, <1>1, <3>1, PeerGrows DEF Finished
  <2>2. ASSUME NEW s \in Sessions, NEW i \in 1..Len(wire'[s]) PROVE wire'[s][i][1] # q
    <3>1. CASE wire'[s] = wire[s]
      BY <1>1, <2>2, <3>1 DEF Finished
    <3>2. CASE Read(s)
      <4>1. wire[s] # <<>> /\ wire'[s] = Tail(wire[s])
        BY <3>2 DEF Read, TypeOK, SessionTypes
      <4>2. wire'[s][i] = wire[s][i + 1] /\ i + 1 \in 1..Len(wire[s])
        BY <1>0, <2>2, <4>1, TailAt
      <4>. QED
        BY <1>1, <4>2 DEF Finished
    <3>3. ASSUME NEW r \in Requests, PeerSends(r), target[r] = s PROVE wire'[s][i][1] # q
      <4>1. wire'[s] = Append(wire[s], <<r, peer[r] + 1>>) /\ <<r, peer[r] + 1>> \in Frames
        BY <1>0, <3>3 DEF PeerSends, Frames, TypeOK, SessionTypes
      <4>2. wire'[s][i] = <<r, peer[r] + 1>> \/ (i \in 1..Len(wire[s]) /\ wire'[s][i] = wire[s][i])
        BY <1>0, <2>2, <4>1, AppendAt
      <4>3. r # q
        BY <2>1, <3>3
      <4>. QED
        BY <1>1, <4>2, <4>3 DEF Finished
    <3>4. ASSUME NEW t \in Sessions, t # s, Read(t) PROVE wire'[s] = wire[s]
      BY <3>4 DEF Read, TypeOK, SessionTypes
    <3>5. ASSUME NEW r \in Requests, PeerSends(r), target[r] # s PROVE wire'[s] = wire[s]
      BY <3>5 DEF PeerSends, TypeOK, SessionTypes
    <3>. QED
      BY <3>1, <3>2, <3>3, <3>4, <3>5, WireChanges
  <2>3. ASSUME NEW s \in Sessions, reader'[s].pc \in {"lock", "select"}, reader'[s].req = q
        PROVE  FALSE
    <3>1. CASE Read(s)
      <4>1. wire[s] # <<>> /\ reader'[s].req = wire[s][1][1] /\ 1 \in 1..Len(wire[s])
        BY <1>0, <2>3, <3>1, TailAt DEF Read, NotRunning, TypeOK, SessionTypes
      <4>. QED
        BY <1>1, <2>3, <4>1 DEF Finished
    <3>2. CASE ~ Read(s)
      <4>1. reader[s].pc \in {"lock", "select"} /\ reader[s].req = q
        BY <2>3, <3>2, ReaderKeepsBusy
      <4>. QED
        BY <1>1, <4>1 DEF Finished
    <3>. QED
      BY <3>1, <3>2
  <2>. QED
    BY <2>1, <2>2, <2>3 DEF Finished
(* deliverTerminal completes an answer.                                    *)
<1>2. ASSUME NEW s \in Sessions, DeliverSend(s), reader[s].req = q, reader[s].n = Last
      PROVE  Finished(q)'
  <2>1. /\ reader[s].pc = "select" /\ AfterDeliver(s, TRUE) /\ UNCHANGED <<wire, peer>>
    BY <1>2 DEF DeliverSend, ReaderFrame
  <2>2. target[q] = s /\ peer[q] = Last
    BY <1>0, <1>2, <2>1 DEF Reader, Holds
  <2>3. ASSUME NEW t \in Sessions, NEW i \in 1..Len(wire[t]), wire[t][i][1] = q PROVE FALSE
    <3>1. t = s /\ wire[t][i][2] <= Last /\ wire[t][i][2] \in Nat
      BY <1>0, <2>2, <2>3, FrameSent
    <3>. QED
      BY <1>0, <1>2, <2>1, <2>3, <3>1 DEF Ordered, Holds
  <2>4. ASSUME NEW t \in Sessions, reader'[t].pc \in {"lock", "select"}, reader'[t].req = q
        PROVE  FALSE
    <3>1. t # s
      BY <2>1, <2>4, AfterDeliverEffect
    <3>2. reader'[t] = reader[t]
      BY <2>1, <3>1, AfterDeliverEffect
    <3>. QED
      BY <1>0, <2>2, <2>4, <3>1, <3>2 DEF Reader, Holds
  <2>. QED
    BY <2>1, <2>2, <2>3, <2>4 DEF Finished
<1>3. terminal[q] \/ \E s \in Sessions : DeliverSend(s) /\ reader[s].req = q /\ reader[s].n = Last
  BY TerminalSet
<1>. QED
  BY <1>1, <1>2, <1>3 DEF WireInv

LEMMA WireStep == TypeOK /\ PeerInv /\ ReaderInv /\ WireInv /\ [Next]_vars => WireInv'
BY OrderedStep, FinishedStep DEF WireInv

-----------------------------------------------------------------------------
(* No frame is missing while nothing ends. *)

LEMMA CtxGrows == [Next]_vars => ctxDone \subseteq ctxDone'
BY DEF vars, callVars, Next, SessionStep, RequestStep, Environment, CleanRange, CleanTake,
       CleanCancel, CleanEnd, CleanReplaced, HeartbeatFails, Register, Refuse, Replaced,
       StartReader, Stop, StopNext, StopDone, Read, ReadFails, DeliverLock, DeliverSend,
       DeliverGiveUp, Settle, PeerSends, Send, Store, AfterFunc, SetStopCancel, CheckClosed,
       WriteSucceeds, WriteFails, Undo, Receive, ReceiveClosed, ReceiveCtx, CancelContext,
       AfterRun, AfterCancel, Squeeze, ReaderFrame, CallerFrame

(* A call receives from the moment its frame has been written.             *)
LEMMA ReceiveStarts ==
    ASSUME TypeOK, [Next]_vars, NEW q \in Requests, caller'[q] = "receive"
    PROVE  target'[q] = target[q] /\ (caller[q] = "receive" \/ WriteSucceeds(q))
<1>. USE DEF TypeOK, CallTypes
<1>1. ASSUME NEW r \in Requests, NEW p \in Providers, Send(r, p)
      PROVE  caller[q] = "receive" /\ target'[q] = target[q]
  BY <1>1 DEF Send, Return
<1>2. ASSUME NEW r \in Requests,
             Store(r) \/ AfterFunc(r) \/ SetStopCancel(r) \/ CheckClosed(r) \/ WriteFails(r)
      PROVE  caller[q] = "receive" /\ target'[q] = target[q]
  BY <1>2 DEF Store, AfterFunc, SetStopCancel, CheckClosed, WriteFails
<1>3. ASSUME NEW r \in Requests, WriteSucceeds(r)
      PROVE  target'[q] = target[q] /\ (caller[q] = "receive" \/ WriteSucceeds(q))
  <2>1. caller' = [caller EXCEPT ![r] = "receive"] /\ target' = target
    BY <1>3 DEF WriteSucceeds
  <2>. QED
    BY <1>3, <2>1
<1>4. ASSUME NEW r \in Requests, Undo(r) \/ ReceiveClosed(r) \/ ReceiveCtx(r)
      PROVE  caller[q] = "receive" /\ target'[q] = target[q]
  BY <1>4 DEF Undo, ReceiveClosed, ReceiveCtx, Return
<1>5. ASSUME NEW r \in Requests, Receive(r)
      PROVE  caller[q] = "receive" /\ target'[q] = target[q]
  BY <1>5 DEF Receive, Return
<1>6. CASE UNCHANGED <<caller, target>>
  BY <1>6
<1>. QED
  BY <1>1, <1>2, <1>3, <1>4, <1>5, <1>6
     DEF vars, callVars, Next, SessionStep, RequestStep, Environment, CleanRange, CleanTake,
         CleanCancel, CleanEnd, CleanReplaced, HeartbeatFails, Register, Refuse, Replaced,
         StartReader, Stop, StopNext, StopDone, Read, ReadFails, DeliverLock, DeliverSend,
         DeliverGiveUp, Settle, PeerSends, CancelContext, AfterRun, AfterCancel, Squeeze,
         ReaderFrame, CallerFrame

(* Only Store puts a request into a map.                                   *)
LEMMA PendingStarts ==
    ASSUME TypeOK, [Next]_vars, NEW t \in Sessions, NEW q \in Requests, q \in pending'[t]
    PROVE  q \in pending[t] \/ Store(q)
<1>. USE DEF TypeOK, SessionTypes
<1>1. ASSUME NEW r \in Requests, Store(r) PROVE q \in pending[t] \/ Store(q)
  <2>1. pending' = [pending EXCEPT ![target[r]] = @ \cup {r}]
    BY <1>1 DEF Store
  <2>. QED
    BY <1>1, <2>1
<1>2. ASSUME NEW s \in Sessions, NEW r \in Requests, CleanTake(s, r) PROVE q \in pending[t]
  BY <1>2 DEF CleanTake
<1>3. ASSUME NEW s \in Sessions, Settle(s) PROVE q \in pending[t]
  BY <1>3 DEF Settle
<1>4. ASSUME NEW r \in Requests, Undo(r) \/ AfterRun(r) PROVE q \in pending[t]
  BY <1>4 DEF Undo, AfterRun
<1>5. CASE UNCHANGED pending
  BY <1>5
<1>. QED
  BY <1>1, <1>2, <1>3, <1>4, <1>5
     DEF vars, Next, SessionStep, RequestStep, Environment, CleanRange, CleanCancel, CleanEnd,
         CleanReplaced, HeartbeatFails, Register, Refuse, Replaced, StartReader, Stop, StopNext,
         StopDone, Read, ReadFails, DeliverLock, DeliverSend, DeliverGiveUp, PeerSends, Send,
         AfterFunc, SetStopCancel, CheckClosed, WriteSucceeds, WriteFails, Receive,
         ReceiveClosed, ReceiveCtx, CancelContext, AfterCancel, Squeeze, ReaderFrame, CallerFrame

(* A terminal frame stays delivered.                                       *)
LEMMA TerminalStays ==
    ASSUME TypeOK, ReaderInv, [Next]_vars, NEW q \in Requests, terminal[q]
    PROVE  terminal'[q]
<1>. USE DEF TypeOK, RequestTypes
<1>1. ASSUME NEW s \in Sessions, DeliverSend(s) PROVE terminal'[q]
  <2>1. reader[s].req # q
    BY <1>1 DEF DeliverSend, ReaderInv, Reader
  <2>. QED
    BY <1>1, <2>1 DEF DeliverSend
<1>2. ASSUME NEW r, Close(r) \/ Cancel(r) \/ CancelWithError(r) PROVE terminal' = terminal
  BY <1>2 DEF Close, Cancel, CancelWithError, prVars
<1>. QED
  BY <1>1, <1>2
     DEF vars, prVars, Next, SessionStep, RequestStep, Environment, CleanRange, CleanTake,
         CleanCancel, CleanEnd, CleanReplaced, HeartbeatFails, Register, Refuse, Replaced,
         StartReader, Stop, StopNext, StopDone, Read, ReadFails, DeliverLock, DeliverGiveUp,
         Settle, PeerSends, Send, Store, AfterFunc, SetStopCancel, CheckClosed, WriteSucceeds,
         WriteFails, Undo, Receive, ReceiveClosed, ReceiveCtx, CancelContext, AfterRun,
         AfterCancel, Squeeze, ReaderFrame, CallerFrame

(* How the frames received and the frames in the channel change.           *)
LEMMA ContentChanges ==
    ASSUME TypeOK, HolderInv, ReaderInv, [Next]_vars, NEW q \in Requests
    PROVE  \/ ch'[q] = ch[q] /\ got'[q] = got[q]
           \/ Receive(q)
           \/ \E s \in Sessions : DeliverSend(s) /\ reader[s].req = q
           \/ Squeeze(q)
           \/ /\ CancelWithError(q) /\ ~ prClosed[q] /\ got' = got
              /\ \E s \in Sessions : Taken(s, q) \/ (q \in pending[s] /\ q \notin pending'[s])
<1>. USE DEF TypeOK, RequestTypes, CallTypes
<1>. DEFINE Goal ==
           \/ ch'[q] = ch[q] /\ got'[q] = got[q]
           \/ Receive(q)
           \/ \E s \in Sessions : DeliverSend(s) /\ reader[s].req = q
           \/ Squeeze(q)
           \/ /\ CancelWithError(q) /\ ~ prClosed[q] /\ got' = got
              /\ \E s \in Sessions : Taken(s, q) \/ (q \in pending[s] /\ q \notin pending'[s])
<1>1. ASSUME NEW r \in Requests, r # q, CancelWithError(r) PROVE ch'[q] = ch[q]
  BY <1>1 DEF CancelWithError, prVars
<1>2. ASSUME NEW r, Close(r) \/ Cancel(r) PROVE ch' = ch
  BY <1>2 DEF Close, Cancel, prVars
<1>3. ASSUME NEW s \in Sessions, CleanCancel(s) PROVE Goal
  <2>1. CancelWithError(cleaner[s].req) /\ got' = got /\ cleaner[s].req \in Requests
    BY <1>3 DEF CleanCancel, callVars, HolderInv
  <2>2. CASE cleaner[s].req = q
    <3>1. Taken(s, q) /\ ~ prClosed[q]
      BY <1>3, <2>2 DEF CleanCancel, Taken, HolderInv, Holder
    <3>. QED
      BY <2>1, <2>2, <3>1
  <2>. QED
    BY <1>1, <2>1, <2>2
<1>4. ASSUME NEW s \in Sessions, Settle(s) PROVE Goal
  <2>. DEFINE r == reader[s].req
  <2>1. got' = got
    BY <1>4 DEF Settle, ReaderFrame, callVars
  <2>2. CASE r \notin pending[s]
    BY <1>4, <2>1, <2>2 DEF Settle, prVars
  <2>3. CASE r \in pending[s]
    <3>1. /\ r \in Requests /\ ~ prClosed[r] /\ r \notin pending'[s]
          /\ Close(r) \/ Cancel(r) \/ CancelWithError(r)
      BY <1>4, <2>3 DEF Settle, SessionTypes, HolderInv, Holder
    <3>. QED
      BY <1>1, <1>2, <2>1, <2>3, <3>1
  <2>. QED
    BY <2>2, <2>3
<1>5. ASSUME NEW r \in Requests, Undo(r) PROVE Goal
  BY <1>2, <1>5 DEF Undo, prVars
<1>6. ASSUME NEW r \in Requests, r # q, Squeeze(r) \/ Receive(r) PROVE Goal
  BY <1>6 DEF Squeeze, Receive, callVars
<1>7. ASSUME NEW s \in Sessions, reader[s].req # q, DeliverSend(s) PROVE Goal
  BY <1>7 DEF DeliverSend, ReaderFrame, callVars
<1>. QED
  BY <1>3, <1>4, <1>5, <1>6, <1>7
     DEF vars, prVars, callVars, Next, SessionStep, RequestStep, Environment, CleanRange,
         CleanTake, CleanEnd, CleanReplaced, HeartbeatFails, Register, Refuse, Replaced,
         StartReader, Stop, StopNext, StopDone, Read, ReadFails, DeliverLock, DeliverGiveUp,
         PeerSends, Send, Store, AfterFunc, SetStopCancel, CheckClosed, WriteSucceeds,
         WriteFails, ReceiveClosed, ReceiveCtx, CancelContext, AfterRun, AfterCancel,
         ReaderFrame, CallerFrame

(* How a reader stops delivering.                                          *)
LEMMA ReadingEnds ==
    ASSUME TypeOK, ManagerInv, [Next]_vars, NEW t \in Sessions, reader[t].pc \in {"lock", "select"},
           ~ (reader'[t].pc \in {"lock", "select"} /\ reader'[t].req = reader[t].req)
    PROVE  \/ DeliverSend(t)
           \/ DeliverGiveUp(t)
           \/ DeliverLock(t) /\ (prClosed[reader[t].req] \/ terminal[reader[t].req])
<1>. USE DEF TypeOK, SessionTypes, Readers
<1>1. ASSUME NEW s \in Sessions, s # t,
             Read(s) \/ ReadFails(s) \/ StartReader(s) \/ Settle(s)
      PROVE  reader'[t] = reader[t]
  BY <1>1 DEF Read, ReadFails, StartReader, Settle
<1>2. ~ Read(t) /\ ~ ReadFails(t) /\ ~ Settle(t)
  BY DEF Read, ReadFails, Settle
<1>3. ~ StartReader(t)
  BY DEF StartReader, ManagerInv
<1>4. ASSUME NEW s \in Sessions, s # t, DeliverSend(s) \/ DeliverGiveUp(s) PROVE reader'[t] = reader[t]
  BY <1>4, AfterDeliverEffect DEF DeliverSend, DeliverGiveUp
<1>5. ASSUME NEW s \in Sessions, s # t, DeliverLock(s) PROVE reader'[t] = reader[t]
  BY <1>5, AfterDeliverEffect DEF DeliverLock
<1>6. ASSUME DeliverLock(t) PROVE prClosed[reader[t].req] \/ terminal[reader[t].req]
  BY <1>6 DEF DeliverLock
<1>. QED
  BY <1>1, <1>2, <1>3, <1>4, <1>5, <1>6
     DEF vars, Next, SessionStep, RequestStep, Environment, CleanRange, CleanTake, CleanCancel,
         CleanEnd, CleanReplaced, HeartbeatFails, Register, Refuse, Replaced, Stop, StopNext,
         StopDone, PeerSends, Send, Store, AfterFunc, SetStopCancel, CheckClosed, WriteSucceeds,
         WriteFails, Undo, Receive, ReceiveClosed, ReceiveCtx, CancelContext, AfterRun,
         AfterCancel, Squeeze, ReaderFrame, CallerFrame

LEMMA FlowingBefore ==
    ASSUME TypeOK, ManagerInv, HolderInv, PeerInv, ReaderInv, [Next]_vars, NEW q \in Requests, Flowing(q)'
    PROVE  target'[q] = target[q] /\ (Flowing(q) \/ WriteSucceeds(q))
<1>1. target'[q] = target[q] /\ (caller[q] = "receive" \/ WriteSucceeds(q))
  BY ReceiveStarts DEF Flowing
<1>2. Calm(q)
  BY <1>1, CleanerBegins, CtxGrows DEF Flowing, Calm
<1>3. ~ terminal[q]
  BY TerminalStays DEF Flowing
<1>4. caller[q] = "receive" => q \in pending[target[q]]
  BY <1>1, <1>2, PendingStarts DEF Flowing, Calm, Store
<1>. QED
  BY <1>1, <1>2, <1>3, <1>4 DEF Flowing

LEMMA PipeStep ==
    ASSUME TypeOK, TypeOK', ManagerInv, HolderInv, PeerInv, ReaderInv, WireInv, PipeInv, ChannelInv,
           [Next]_vars
    PROVE  PipeInv'
<1>. SUFFICES ASSUME NEW q \in Requests, Flowing(q)' PROVE Piped(q)'
  BY DEF PipeInv
<1>. DEFINE t == target[q]
<1>0. /\ target'[q] = t /\ t \in Sessions
      /\ Flowing(q) \/ WriteSucceeds(q)
      /\ wire[t] \in Seq(Frames) /\ Len(wire[t]) \in Nat
      /\ peer \in [Requests -> -1..Last] /\ Last \in Nat \ {0}
      /\ got \in [Requests -> Nat]
      /\ \A r \in Requests : Len(ch[r]) \in Nat
      /\ Reader(t) /\ Ordered(t) /\ Holder(q)
      /\ reader[t].n \in Int /\ peer[q] \in Int /\ peer'[q] \in Int
      /\ Passed(q) \in Nat
  <2>1. target'[q] = t /\ t \in Sessions /\ (Flowing(q) \/ WriteSucceeds(q))
    BY FlowingBefore DEF Flowing, Calm
  <2>2. wire[t] \in Seq(Frames) /\ reader[t] \in Readers /\ ch \in [Requests -> Seq(0..Last)]
    BY <2>1 DEF TypeOK, SessionTypes, RequestTypes, Wires, Contents
  <2>3. /\ peer \in [Requests -> -1..Last] /\ peer' \in [Requests -> -1..Last]
        /\ got \in [Requests -> Nat] /\ Last \in Nat \ {0}
    BY WsRelayAssumption DEF TypeOK, CallTypes
  <2>4. Len(wire[t]) \in Nat /\ \A r \in Requests : Len(ch[r]) \in Nat
    BY <2>2
  <2>5. Passed(q) \in Nat
    BY <2>3, <2>4 DEF Passed
  <2>6. Reader(t) /\ Ordered(t) /\ Holder(q)
    BY <2>1 DEF ReaderInv, WireInv, HolderInv
  <2>7. reader[t].n \in Int /\ peer[q] \in Int /\ peer'[q] \in Int
    BY <2>2, <2>3 DEF Readers
  <2>. QED
    BY <2>1, <2>2, <2>3, <2>4, <2>5, <2>6, <2>7
(* The request goes out: nothing has been sent yet.                        *)
<1>1. CASE WriteSucceeds(q)
  <2>1. /\ caller[q] = "write" /\ peer'[q] = 0 /\ got' = got /\ ch' = ch /\ wire' = wire
        /\ reader' = reader /\ pending' = pending
    BY <1>1 DEF WriteSucceeds, CallerFrame, prVars, TypeOK, CallTypes
  <2>2. peer[q] = -1
    BY <2>1 DEF PeerInv
  <2>3. got[q] = 0 /\ ch[q] = <<>>
    BY <1>0, <2>1, <2>2 DEF ChannelInv, Flowing
  <2>4. ~ Reading(q)'
    BY <1>0, <2>1, <2>2 DEF Reading, Reader, Holds
  <2>5. \A i \in 1..Len(wire[t]) : wire[t][i][1] # q
    BY <1>0, <2>2, FrameSent
  <2>6. Passed(q)' = 0
    BY <2>1, <2>3, <2>4 DEF Passed
  <2>. QED
    BY <1>0, <2>1, <2>4, <2>5, <2>6 DEF Piped
<1>. SUFFICES ASSUME Flowing(q) PROVE Piped(q)'
  BY <1>0, <1>1
<1>2. /\ Piped(q) /\ q \in pending[t] /\ peer[q] # -1
      /\ ~ prClosed[q] /\ ~ squeeze[q] /\ ~ done[q] /\ ~ terminal[q]
      /\ t \notin closed /\ q \notin ctxDone
      /\ \A s \in Sessions : ~ Taken(s, q)
  BY <1>0 DEF PipeInv, Flowing, Calm, Holder, PeerInv
(* The reader's part in Passed changes by Read and DeliverSend only.       *)
<1>3. ~ Read(t) /\ ~ DeliverSend(t) =>
        /\ Reading(q)' <=> Reading(q)
        /\ Reading(q) => reader'[t].n = reader[t].n
  <2>. SUFFICES ASSUME ~ Read(t), ~ DeliverSend(t)
                PROVE  /\ Reading(q)' <=> Reading(q)
                       /\ Reading(q) => reader'[t].n = reader[t].n
    OBVIOUS
  <2>1. Reading(q)' => Reading(q) /\ reader'[t].n = reader[t].n
    BY <1>0, ReaderKeepsBusy DEF Reading
  <2>2. ~ (Reading(q) /\ DeliverGiveUp(t))
    BY <1>0, <1>2 DEF Reading, DeliverGiveUp
  <2>3. Reading(q) => Reading(q)'
    BY <1>0, <1>2, <2>2, ReadingEnds DEF Reading
  <2>. QED
    BY <2>1, <2>3
(* The caller's part changes by Receive and DeliverSend only.              *)
<1>4. \/ ch'[q] = ch[q] /\ got'[q] = got[q]
      \/ Receive(q)
      \/ DeliverSend(t) /\ reader[t].req = q
  <2>1. ASSUME NEW s \in Sessions, DeliverSend(s), reader[s].req = q PROVE s = t
    BY <2>1 DEF ReaderInv, Reader, Holds, DeliverSend
  <2>2. ~ Squeeze(q)
    BY <1>2 DEF Squeeze
  <2>3. ASSUME NEW s \in Sessions, q \in pending[s], q \notin pending'[s] PROVE FALSE
    BY <1>0, <2>3 DEF Holder, Flowing
  <2>. QED
    BY <1>2, <2>1, <2>2, <2>3, ContentChanges
(* The provider's part.                                                    *)
<1>5. peer'[q] = peer[q] \/ (PeerSends(q) /\ peer'[q] = peer[q] + 1)
  BY <1>2, PeerGrows
<1>6. CASE Read(t)
  <2>1. /\ wire[t] # <<>> /\ wire' = [wire EXCEPT ![t] = Tail(wire[t])]
        /\ reader[t].pc = "read" /\ ch' = ch /\ got' = got /\ peer' = peer
    BY <1>6 DEF Read, ReaderFrame, prVars, callVars
  <2>2. ~ Reading(q)
    BY <2>1 DEF Reading
  <2>3. /\ Head(wire[t]) = wire[t][1] /\ 1 \in 1..Len(wire[t])
        /\ Len(wire'[t]) = Len(wire[t]) - 1
        /\ \A i \in 1..Len(wire'[t]) : wire'[t][i] = wire[t][i + 1] /\ i + 1 \in 1..Len(wire[t])
    BY <1>0, <2>1, TailAt DEF TypeOK, SessionTypes
  <2>4. wire[t][1] \in Frames /\ wire[t][1] = <<wire[t][1][1], wire[t][1][2]>>
        /\ wire[t][1][2] \in Nat /\ wire[t][1][2] <= peer[wire[t][1][1]]
    BY <1>0, <2>3, FrameSent
  <2>5. CASE wire[t][1][1] = q
    <3>. DEFINE n == wire[t][1][2]
    <3>1. reader'[t].pc = "lock" /\ reader'[t].req = q /\ reader'[t].n = n
      BY <1>0, <1>2, <1>6, <2>3, <2>5 DEF Read, TypeOK, SessionTypes
    <3>2. Reading(q)' /\ Passed(q)' = Passed(q) + 1
      BY <1>0, <2>1, <2>2, <3>1 DEF Reading, Passed
    <3>3. Passed(q) < n /\ n <= peer[q]
      BY <1>2, <2>3, <2>4, <2>5 DEF Piped
    <3>4. n = Passed(q) + 1
      <4>1. Passed(q) + 1 \in (Passed(q) + 1)..peer[q]
        BY <1>0, <2>4, <3>3
      <4>2. PICK i \in 1..Len(wire[t]) : wire[t][i] = <<q, Passed(q) + 1>>
        BY <1>2, <4>1 DEF Piped
      <4>3. i = 1 \/ n < Passed(q) + 1
        <5>1. wire[t][i][1] = q /\ wire[t][i][2] = Passed(q) + 1
          BY <4>2
        <5>2. i = 1 \/ 1 < i
          BY <1>0
        <5>. QED
          BY <1>0, <2>3, <2>5, <5>1, <5>2 DEF Ordered
      <4>. QED
        BY <1>0, <2>4, <3>3, <4>2, <4>3
    <3>5. ASSUME NEW i \in 1..Len(wire'[t]), wire'[t][i][1] = q PROVE Passed(q)' < wire'[t][i][2]
      <4>1. 1 < i + 1
        BY <1>0, <2>3
      <4>. QED
        BY <1>0, <2>3, <2>5, <3>2, <3>4, <3>5, <4>1 DEF Ordered
    <3>6. ASSUME NEW m \in (Passed(q)' + 1)..peer'[q]
          PROVE  \E i \in 1..Len(wire'[t]) : wire'[t][i] = <<q, m>>
      <4>1. m \in (Passed(q) + 1)..peer[q] /\ m # n
        BY <1>0, <2>1, <3>2, <3>4
      <4>2. PICK i \in 1..Len(wire[t]) : wire[t][i] = <<q, m>>
        BY <1>2, <4>1 DEF Piped
      <4>3. i # 1
        BY <4>1, <4>2
      <4>4. i - 1 \in 1..Len(wire'[t]) /\ wire'[t][i - 1] = wire[t][(i - 1) + 1]
        BY <1>0, <2>3, <4>3
      <4>5. wire'[t][i - 1] = <<q, m>>
        BY <4>2, <4>4
      <4>. QED
        BY <4>4, <4>5
    <3>. QED
      BY <1>0, <2>1, <3>1, <3>2, <3>3, <3>4, <3>5, <3>6 DEF Piped
  <2>6. CASE wire[t][1][1] # q
    <3>1. ~ Reading(q)'
      BY <1>0, <1>6, <2>3, <2>6 DEF Read, Reading, NotRunning, TypeOK, SessionTypes
    <3>2. Passed(q)' = Passed(q)
      BY <1>0, <2>1, <2>2, <3>1 DEF Passed
    <3>3. ASSUME NEW i \in 1..Len(wire'[t]), wire'[t][i][1] = q PROVE Passed(q)' < wire'[t][i][2]
      BY <1>2, <2>3, <3>2, <3>3 DEF Piped
    <3>4. ASSUME NEW m \in (Passed(q)' + 1)..peer'[q]
          PROVE  \E i \in 1..Len(wire'[t]) : wire'[t][i] = <<q, m>>
      <4>1. PICK i \in 1..Len(wire[t]) : wire[t][i] = <<q, m>>
        BY <1>2, <2>1, <3>2 DEF Piped
      <4>2. i # 1
        BY <2>6, <4>1
      <4>3. i - 1 \in 1..Len(wire'[t]) /\ wire'[t][i - 1] = wire[t][(i - 1) + 1]
        BY <1>0, <2>3, <4>2
      <4>4. wire'[t][i - 1] = <<q, m>>
        BY <4>1, <4>3
      <4>. QED
        BY <4>3, <4>4
    <3>. QED
      BY <1>0, <1>2, <2>1, <3>1, <3>2, <3>3, <3>4 DEF Piped
  <2>. QED
    BY <2>5, <2>6
<1>7. CASE ~ Read(t)
  <2>1. Passed(q)' = Passed(q)
    <3>1. CASE DeliverSend(t) /\ reader[t].req = q
      <4>1. reader[t].pc = "select" /\ got' = got
        BY <3>1 DEF DeliverSend, ReaderFrame, callVars
      <4>2. ch'[q] = Append(ch[q], reader[t].n)
        BY <3>1 DEF DeliverSend, TypeOK, RequestTypes
      <4>3. Len(ch'[q]) = Len(ch[q]) + 1
        BY <4>2, AppendAt DEF TypeOK, RequestTypes, SessionTypes, Contents, Readers
      <4>4. Reading(q)
        BY <3>1, <4>1 DEF Reading
      <4>5. ~ Reading(q)'
        BY <1>0, <3>1, AfterDeliverEffect DEF DeliverSend, Reading
      <4>. QED
        BY <1>0, <4>1, <4>3, <4>4, <4>5 DEF Passed
    <3>2. CASE DeliverSend(t) /\ reader[t].req # q
      <4>1. ch'[q] = ch[q] /\ got' = got
        BY <3>2 DEF DeliverSend, ReaderFrame, callVars, TypeOK, RequestTypes
      <4>2. ~ Reading(q)
        BY <3>2 DEF Reading
      <4>3. ~ Reading(q)'
        BY <1>0, <1>7, <4>2, ReaderKeepsBusy DEF Reading
      <4>. QED
        BY <4>1, <4>2, <4>3 DEF Passed
    <3>3. CASE Receive(q)
      <4>1. /\ ch[q] # <<>> /\ ch'[q] = Tail(ch[q]) /\ UNCHANGED reader
            /\ Head(ch[q]) # 0 /\ got'[q] = got[q] + 1
        BY <3>3 DEF Receive, Return, CallerFrame, Flowing, TypeOK, RequestTypes, CallTypes
      <4>2. Len(ch'[q]) = Len(ch[q]) - 1
        BY <4>1, TailAt DEF TypeOK, RequestTypes, Contents
      <4>3. Reading(q)' <=> Reading(q)
        BY <1>0, <4>1 DEF Reading
      <4>. QED
        BY <1>0, <4>1, <4>2, <4>3 DEF Passed
    <3>4. CASE ~ DeliverSend(t) /\ ch'[q] = ch[q] /\ got'[q] = got[q]
      BY <1>3, <1>7, <3>4 DEF Passed
    <3>. QED
      BY <1>4, <3>1, <3>2, <3>3, <3>4
  <2>2. Reading(q)' => reader'[t].n = Passed(q)'
    BY <1>0, <1>2, <1>7, <2>1, ReaderKeepsBusy DEF Reading, Piped
  <2>3. CASE wire'[t] = wire[t] /\ peer'[q] = peer[q]
    BY <1>0, <1>2, <2>1, <2>2, <2>3 DEF Piped
  <2>4. ASSUME NEW r \in Requests, PeerSends(r), target[r] = t PROVE Piped(q)'
    <3>. DEFINE f == <<r, peer[r] + 1>>
    <3>1. /\ f \in Frames /\ wire'[t] = Append(wire[t], f)
          /\ peer' = [peer EXCEPT ![r] = peer[r] + 1] /\ peer[r] \in Nat
      <4>1. /\ peer[r] \in 0..(Last - 1) /\ peer' = [peer EXCEPT ![r] = peer[r] + 1]
            /\ wire' = [wire EXCEPT ![t] = Append(wire[t], f)]
        BY <2>4 DEF PeerSends
      <4>2. peer[r] + 1 \in 1..Last /\ peer[r] \in Nat
        BY <1>0, <4>1
      <4>. QED
        BY <1>0, <4>1, <4>2 DEF Frames, TypeOK, SessionTypes
    <3>2. /\ Len(wire'[t]) = Len(wire[t]) + 1
          /\ 1..Len(wire'[t]) = 1..Len(wire[t]) \cup {Len(wire[t]) + 1}
          /\ \A i \in 1..Len(wire[t]) : wire'[t][i] = wire[t][i]
          /\ wire'[t][Len(wire[t]) + 1] = f
      <4>1. /\ Len(wire'[t]) = Len(wire[t]) + 1
            /\ \A i \in 1..Len(wire[t]) : wire'[t][i] = wire[t][i]
            /\ wire'[t][Len(wire[t]) + 1] = f
        <5>1. wire[t] \in Seq(Frames)
          BY <1>0
        <5>. QED
          BY <3>1, <5>1, AppendAt
      <4>2. \A n \in Nat : 1..(n + 1) = 1..n \cup {n + 1}
        OBVIOUS
      <4>. QED
        BY <1>0, <4>1, <4>2
    <3>3. Passed(q)' <= peer'[q]
      BY <1>0, <1>2, <1>5, <2>1 DEF Piped
    <3>4. ASSUME NEW i \in 1..Len(wire'[t]), wire'[t][i][1] = q PROVE Passed(q)' < wire'[t][i][2]
      <4>1. CASE i \in 1..Len(wire[t])
        BY <1>2, <2>1, <3>2, <3>4, <4>1 DEF Piped
      <4>2. CASE i = Len(wire[t]) + 1
        <5>1. r = q /\ wire'[t][i][2] = peer[q] + 1
          BY <3>2, <3>4, <4>2
        <5>. QED
          BY <1>0, <1>2, <2>1, <5>1 DEF Piped
      <4>. QED
        BY <3>2, <4>1, <4>2
    <3>5. ASSUME NEW m \in (Passed(q)' + 1)..peer'[q]
          PROVE  \E i \in 1..Len(wire'[t]) : wire'[t][i] = <<q, m>>
      <4>1. CASE m \in (Passed(q) + 1)..peer[q]
        <5>1. PICK i \in 1..Len(wire[t]) : wire[t][i] = <<q, m>>
          BY <1>2, <4>1 DEF Piped
        <5>2. i \in 1..Len(wire'[t]) /\ wire'[t][i] = <<q, m>>
          BY <3>2, <5>1
        <5>. QED
          BY <5>2
      <4>2. CASE m \notin (Passed(q) + 1)..peer[q]
        <5>1. r = q /\ m = peer[q] + 1
          BY <1>0, <2>1, <3>1, <4>2
        <5>2. Len(wire[t]) + 1 \in 1..Len(wire'[t])
          BY <3>2
        <5>. QED
          BY <3>2, <5>1, <5>2
      <4>. QED
        BY <4>1, <4>2
    <3>. QED
      BY <1>0, <2>2, <3>3, <3>4, <3>5 DEF Piped
  <2>5. ASSUME NEW r \in Requests, PeerSends(r), target[r] # t
        PROVE  wire'[t] = wire[t] /\ peer'[q] = peer[q]
    BY <1>0, <2>5 DEF PeerSends, TypeOK, SessionTypes, CallTypes
  <2>6. ASSUME NEW s \in Sessions, Read(s) PROVE wire'[t] = wire[t] /\ peer'[q] = peer[q]
    <3>1. s # t /\ wire' = [wire EXCEPT ![s] = Tail(wire[s])] /\ peer' = peer
      BY <1>7, <2>6 DEF Read, ReaderFrame
    <3>. QED
      BY <1>0, <3>1 DEF TypeOK, SessionTypes
  <2>7. CASE UNCHANGED wire
    <3>1. ~ PeerSends(q)
      BY <1>0, <2>7, AppendAt DEF PeerSends, TypeOK, SessionTypes
    <3>. QED
      BY <1>5, <2>3, <2>7, <3>1
  <2>. QED
    BY <2>3, <2>4, <2>5, <2>6, <2>7, WireChanges
<1>. QED
  BY <1>6, <1>7

-----------------------------------------------------------------------------
(* What a caller finds in its channel. *)

(* A call that has begun keeps its session; it begins with Store, unless   *)
(* it fails at once.                                                       *)
LEMMA BegunKeeps ==
    ASSUME TypeOK, [Next]_vars, NEW q \in Requests
    PROVE  /\ caller[q] = "returned" => caller'[q] = "returned"
           /\ Begun(q) => Begun(q)' /\ target'[q] = target[q]
           /\ Begun(q)' => Begun(q) \/ Store(q) \/ caller'[q] = "returned"
<1>. USE DEF TypeOK, CallTypes, Begun
<1>. DEFINE Goal == /\ caller[q] = "returned" => caller'[q] = "returned"
                    /\ Begun(q) => Begun(q)' /\ target'[q] = target[q]
                    /\ Begun(q)' => Begun(q) \/ Store(q) \/ caller'[q] = "returned"
<1>1. ASSUME NEW r \in Requests, NEW p \in Providers, Send(r, p) PROVE Goal
  BY <1>1 DEF Send, Return
<1>2. ASSUME NEW r \in Requests, Store(r) PROVE Goal
  <2>1. caller[r] = "store" /\ caller' = [caller EXCEPT ![r] = "after"] /\ target' = target
    BY <1>2 DEF Store
  <2>2. CASE r = q
    BY <1>2, <2>1, <2>2
  <2>3. CASE r # q
    <3>1. caller'[q] = caller[q]
      BY <2>1, <2>3
    <3>. QED
      BY <2>1, <3>1
  <2>. QED
    BY <2>2, <2>3
<1>3. ASSUME NEW r \in Requests,
             \/ AfterFunc(r) \/ SetStopCancel(r) \/ CheckClosed(r) \/ WriteSucceeds(r)
             \/ WriteFails(r)
      PROVE  Goal
  BY <1>3 DEF AfterFunc, SetStopCancel, CheckClosed, WriteSucceeds, WriteFails
<1>4. ASSUME NEW r \in Requests, Undo(r) \/ ReceiveClosed(r) \/ ReceiveCtx(r) PROVE Goal
  BY <1>4 DEF Undo, ReceiveClosed, ReceiveCtx, Return
<1>5. ASSUME NEW r \in Requests, Receive(r) PROVE Goal
  BY <1>5 DEF Receive, Return
<1>6. CASE UNCHANGED <<caller, target>>
  BY <1>6
<1>. QED
  BY <1>1, <1>2, <1>3, <1>4, <1>5, <1>6
     DEF vars, callVars, Next, SessionStep, RequestStep, Environment, CleanRange, CleanTake,
         CleanCancel, CleanEnd, CleanReplaced, HeartbeatFails, Register, Refuse, Replaced,
         StartReader, Stop, StopNext, StopDone, Read, ReadFails, DeliverLock, DeliverSend,
         DeliverGiveUp, Settle, PeerSends, CancelContext, AfterRun, AfterCancel, Squeeze,
         ReaderFrame, CallerFrame

(* Results come with the return.                                           *)
LEMMA ResultSet ==
    ASSUME TypeOK, [Next]_vars, NEW q \in Requests, result'[q] = "ok"
    PROVE  \/ result[q] = "ok" /\ (caller[q] = "returned" => got'[q] = got[q])
           \/ /\ caller[q] = "receive" /\ caller'[q] = "returned"
              /\ \/ ReceiveClosed(q)
                 \/ Receive(q) /\ Head(ch[q]) = Last /\ got'[q] = got[q] + 1
<1>. USE DEF TypeOK, CallTypes
<1>. DEFINE Goal == \/ result[q] = "ok" /\ (caller[q] = "returned" => got'[q] = got[q])
                    \/ /\ caller[q] = "receive" /\ caller'[q] = "returned"
                       /\ \/ ReceiveClosed(q)
                          \/ Receive(q) /\ Head(ch[q]) = Last /\ got'[q] = got[q] + 1
<1>1. ASSUME NEW r \in Requests, NEW p \in Providers, Send(r, p) PROVE Goal
  BY <1>1 DEF Send, Return
<1>2. ASSUME NEW r \in Requests, Undo(r) \/ ReceiveCtx(r) PROVE Goal
  BY <1>2 DEF Undo, ReceiveCtx, Return
<1>3. ASSUME NEW r \in Requests, ReceiveClosed(r) PROVE Goal
  <2>1. r # q => result'[q] = result[q] /\ got' = got
    BY <1>3 DEF ReceiveClosed, Return
  <2>2. caller[r] = "receive" /\ caller'[r] = "returned"
    BY <1>3 DEF ReceiveClosed, Return
  <2>. QED
    BY <1>3, <2>1, <2>2
<1>4. ASSUME NEW r \in Requests, Receive(r) PROVE Goal
  <2>1. CASE r # q
    <3>1. result'[q] = result[q] /\ got'[q] = got[q]
      BY <1>4, <2>1 DEF Receive, Return
    <3>. QED
      BY <3>1
  <2>2. CASE r = q
    <3>1. caller[q] = "receive"
      BY <1>4, <2>2 DEF Receive
    <3>2. CASE Head(ch[q]) = 0
      BY <1>4, <2>2, <3>2 DEF Receive, Return
    <3>3. CASE Head(ch[q]) # 0 /\ Head(ch[q]) = Last
      BY <1>4, <2>2, <3>1, <3>3 DEF Receive, Return
    <3>4. CASE Head(ch[q]) # 0 /\ Head(ch[q]) # Last
      BY <1>4, <2>2, <3>1, <3>4 DEF Receive
    <3>. QED
      BY <3>2, <3>3, <3>4
  <2>. QED
    BY <2>1, <2>2
<1>5. CASE UNCHANGED <<result, got>>
  BY <1>5
<1>. QED
  BY <1>1, <1>2, <1>3, <1>4, <1>5
     DEF vars, callVars, Next, SessionStep, RequestStep, Environment, CleanRange, CleanTake,
         CleanCancel, CleanEnd, CleanReplaced, HeartbeatFails, Register, Refuse, Replaced,
         StartReader, Stop, StopNext, StopDone, Read, ReadFails, DeliverLock, DeliverSend,
         DeliverGiveUp, Settle, PeerSends, Store, AfterFunc, SetStopCancel, CheckClosed,
         WriteSucceeds, WriteFails, CancelContext, AfterRun, AfterCancel, Squeeze, ReaderFrame,
         CallerFrame

(* Who closes a channel.                                                   *)
LEMMA ClosesHow ==
    ASSUME TypeOK, HolderInv, [Next]_vars, NEW q \in Requests, ~ prClosed[q], prClosed'[q]
    PROVE  \/ Undo(q)
           \/ \E s \in Sessions :
                 /\ Settle(s) /\ reader[s].req = q /\ q \in pending[s]
                 /\ reader[s].delivered \/ (s \notin closed /\ q \notin ctxDone)
           \/ CancelWithError(q)
           \/ AfterCancel(q)
           \/ Squeeze(q)
<1>. USE DEF TypeOK, RequestTypes
<1>1. ASSUME NEW r \in Requests, r # q, CancelWithError(r) \/ Close(r) \/ Cancel(r) PROVE FALSE
  BY <1>1 DEF CancelWithError, Close, Cancel, prVars
<1>2. ASSUME NEW s \in Sessions, CleanCancel(s) PROVE CancelWithError(q)
  BY <1>1, <1>2 DEF CleanCancel, HolderInv
<1>3. ASSUME NEW s \in Sessions, Settle(s)
      PROVE  \/ CancelWithError(q)
             \/ /\ reader[s].req = q /\ q \in pending[s]
                /\ reader[s].delivered \/ (s \notin closed /\ q \notin ctxDone)
  <2>1. reader[s].req \in pending[s]
    BY <1>3 DEF Settle, prVars
  <2>2. reader[s].req \in Requests
    BY <2>1 DEF SessionTypes
  <2>3. Close(reader[s].req) \/ Cancel(reader[s].req) \/ CancelWithError(reader[s].req)
    BY <1>3, <2>1 DEF Settle
  <2>4. reader[s].req = q
    BY <1>1, <2>2, <2>3
  <2>5. CancelWithError(q) \/ reader[s].delivered \/ (s \notin closed /\ q \notin ctxDone)
    BY <1>3, <2>1, <2>4 DEF Settle
  <2>. QED
    BY <2>1, <2>4, <2>5
<1>4. ASSUME NEW r \in Requests, r # q, Undo(r) PROVE FALSE
  BY <1>1, <1>4 DEF Undo, prVars
<1>5. ASSUME NEW r \in Requests, r # q, AfterCancel(r) \/ Squeeze(r) PROVE FALSE
  BY <1>5 DEF AfterCancel, Squeeze
<1>. QED
  BY <1>2, <1>3, <1>4, <1>5
     DEF vars, prVars, Next, SessionStep, RequestStep, Environment, CleanRange, CleanTake, CleanEnd,
         CleanReplaced, HeartbeatFails, Register, Refuse, Replaced, StartReader, Stop, StopNext,
         StopDone, Read, ReadFails, DeliverLock, DeliverSend, DeliverGiveUp, PeerSends, Send,
         Store, AfterFunc, SetStopCancel, CheckClosed, WriteSucceeds, WriteFails, Receive,
         ReceiveClosed, ReceiveCtx, CancelContext, AfterRun, ReaderFrame, CallerFrame

(* The frame the reader sends is the next one, unless something ended.     *)
LEMMA NextFrame ==
    ASSUME TypeOK, ManagerInv, HolderInv, PeerInv, ReaderInv, PipeInv,
           NEW s \in Sessions, reader[s].pc = "select", Calm(reader[s].req),
           caller[reader[s].req] # "returned"
    PROVE  reader[s].n = got[reader[s].req] + Len(ch[reader[s].req]) + 1
<1>. DEFINE r == reader[s].req
<1>1. /\ r \in Requests /\ target[r] = s /\ peer[r] # -1
      /\ ~ prClosed[r] /\ ~ squeeze[r] /\ ~ terminal[r]
  BY DEF ReaderInv, Reader, Holds
<1>2. caller[r] = "receive" /\ s \notin closed /\ r \notin ctxDone
  BY <1>1 DEF PeerInv, Calm
<1>3. r \in pending[s]
  BY <1>1, <1>2 DEF HolderInv, Holder, Begun, Taken, ManagerInv
<1>4. Reading(r) /\ Piped(r)
  BY <1>1, <1>2, <1>3 DEF PipeInv, Flowing, Reading
<1>. QED
  BY <1>1, <1>4 DEF Piped, Passed

LEMMA ContainedStep ==
    ASSUME TypeOK, TypeOK', ManagerInv, HolderInv, HolderInv', PeerInv, ReaderInv, PipeInv, ChannelInv,
           [Next]_vars, NEW q \in Requests, Begun(q), caller'[q] # "returned"
    PROVE  Contained(q)'
<1>0. /\ Holder(q) /\ Contained(q) /\ caller[q] # "returned"
      /\ target'[q] = target[q]
      /\ Calm(q)' => Calm(q)
      /\ q \notin ctxDone' => q \notin ctxDone
      /\ ch[q] \in Seq(0..Last) /\ Len(ch[q]) \in Nat /\ ch'[q] \in Seq(0..Last)
      /\ got[q] \in Nat /\ Last \in Nat \ {0}
      /\ \A s \in Sessions : Reader(s)
  <2>1. Holder(q) /\ Contained(q) /\ caller[q] # "returned" /\ target'[q] = target[q]
    BY BegunKeeps DEF HolderInv, ChannelInv
  <2>2. (Calm(q)' => Calm(q)) /\ (q \notin ctxDone' => q \notin ctxDone)
    BY <2>1, CleanerBegins, CtxGrows DEF Calm
  <2>3. /\ ch[q] \in Seq(0..Last) /\ ch'[q] \in Seq(0..Last)
        /\ got[q] \in Nat /\ Last \in Nat \ {0}
    BY WsRelayAssumption DEF TypeOK, RequestTypes, CallTypes, Contents
  <2>. QED
    BY <2>1, <2>2, <2>3 DEF ReaderInv
(* An error frame at the end of the channel.                               *)
<1>1. ASSUME ch'[q] = Append(ch[q], 0), got'[q] = got[q], ~ terminal'[q] PROVE Contained(q)'
  <2>1. /\ Len(ch'[q]) = Len(ch[q]) + 1 /\ ch'[q][Len(ch[q]) + 1] = 0
        /\ \A i \in 1..Len(ch[q]) : ch'[q][i] = ch[q][i]
    BY <1>0, <1>1, AppendAt
  <2>2. ch'[q] # <<>> /\ ch'[q][Len(ch'[q])] = 0
    BY <1>0, <2>1
  <2>3. ASSUME Calm(q)', NEW i \in 1..Len(ch'[q]) PROVE ch'[q][i] \in {got'[q] + i, 0}
    BY <1>0, <1>1, <2>1, <2>3 DEF Contained
  <2>. QED
    BY <1>1, <2>2, <2>3 DEF Contained
(* cancelWithError on an open channel.                                     *)
<1>2. ASSUME CancelWithError(q), ~ prClosed[q], got' = got PROVE Contained(q)'
  <2>1. terminal' = terminal
    BY <1>2 DEF CancelWithError
  <2>2. CASE terminal[q]
    <3>1. ch'[q] = ch[q]
      BY <1>2, <2>2 DEF CancelWithError
    <3>. QED
      BY <1>0, <1>2, <2>1, <2>2, <3>1 DEF Contained
  <2>3. CASE ~ terminal[q] /\ Len(ch[q]) # Buffer
    <3>1. ch'[q] = Append(ch[q], 0)
      BY <1>2, <2>3 DEF CancelWithError, TypeOK, RequestTypes
    <3>. QED
      BY <1>1, <1>2, <2>1, <2>3, <3>1
  <2>4. CASE ~ terminal[q] /\ Len(ch[q]) = Buffer
    <3>1. ch'[q] = ch[q] /\ ~ prClosed'[q]
      BY <1>2, <2>4 DEF CancelWithError, TypeOK, RequestTypes
    <3>. QED
      BY <1>0, <1>2, <2>1, <2>4, <3>1 DEF Contained
  <2>. QED
    BY <2>2, <2>3, <2>4
<1>3. CASE Squeeze(q)
  <2>. DEFINE c == IF ch[q] = <<>> THEN ch[q] ELSE Tail(ch[q])
  <2>1. /\ ch'[q] = Append(c, 0) /\ terminal' = terminal /\ squeeze[q]
        /\ UNCHANGED <<closed, callVars>>
    BY <1>3 DEF Squeeze, TypeOK, RequestTypes
  <2>2. c \in Seq(0..Last)
    BY <1>0, TailAt
  <2>3. ch'[q] # <<>> /\ ch'[q][Len(ch'[q])] = 0
    BY <1>0, <2>1, <2>2, AppendAt
  <2>4. ~ terminal'[q] /\ ~ Calm(q)'
    BY <1>0, <2>1 DEF Holder, Calm, callVars
  <2>. QED
    BY <2>3, <2>4 DEF Contained
<1>4. ASSUME NEW s \in Sessions, DeliverSend(s), reader[s].req = q PROVE Contained(q)'
  <2>1. /\ reader[s].pc = "select" /\ got' = got /\ prClosed' = prClosed
        /\ ch'[q] = Append(ch[q], reader[s].n)
        /\ terminal'[q] => reader[s].n = Last
    BY <1>4 DEF DeliverSend, ReaderFrame, callVars, TypeOK, RequestTypes
  <2>2. ~ prClosed[q] /\ reader[s].n \in 0..Last
    BY <1>0, <1>4, <2>1 DEF Reader, TypeOK, SessionTypes, Readers
  <2>3. /\ Len(ch'[q]) = Len(ch[q]) + 1 /\ ch'[q][Len(ch[q]) + 1] = reader[s].n
        /\ \A i \in 1..Len(ch[q]) : ch'[q][i] = ch[q][i]
    BY <1>0, <2>1, <2>2, AppendAt
  <2>4. ch'[q] # <<>> /\ ch'[q][Len(ch'[q])] = reader[s].n
    BY <1>0, <2>3
  <2>5. ASSUME Calm(q)', NEW i \in 1..Len(ch'[q]) PROVE ch'[q][i] \in {got'[q] + i, 0}
    <3>1. CASE i \in 1..Len(ch[q])
      BY <1>0, <2>1, <2>3, <2>5, <3>1 DEF Contained
    <3>2. CASE i = Len(ch[q]) + 1
      <4>1. reader[s].n = got[q] + Len(ch[q]) + 1
        BY <1>0, <1>4, <2>1, <2>5, NextFrame
      <4>. QED
        BY <1>0, <2>1, <2>3, <3>2, <4>1
    <3>. QED
      BY <1>0, <2>3, <3>1, <3>2
  <2>. QED
    BY <2>1, <2>2, <2>4, <2>5 DEF Contained
<1>5. CASE Receive(q)
  <2>1. /\ ch[q] # <<>> /\ ch'[q] = Tail(ch[q])
        /\ UNCHANGED <<prClosed, terminal, closed, target, ctxDone>>
    BY <1>5 DEF Receive, CallerFrame, TypeOK, RequestTypes
  <2>2. Head(ch[q]) # 0 /\ Head(ch[q]) # Last /\ got'[q] = got[q] + 1
    BY <1>0, <1>5 DEF Receive, Return, TypeOK, CallTypes
  <2>3. /\ Head(ch[q]) = ch[q][1] /\ Len(ch'[q]) = Len(ch[q]) - 1
        /\ \A i \in 1..Len(ch'[q]) : ch'[q][i] = ch[q][i + 1] /\ i + 1 \in 1..Len(ch[q])
    BY <1>0, <2>1, TailAt
  <2>4. ASSUME Calm(q)', NEW i \in 1..Len(ch'[q]) PROVE ch'[q][i] \in {got'[q] + i, 0}
    <3>1. ch[q][i + 1] \in {got[q] + (i + 1), 0}
      BY <1>0, <2>3, <2>4 DEF Contained
    <3>2. got'[q] + i = got[q] + (i + 1)
      <4>1. got[q] \in Nat /\ i \in Nat
        BY <1>0, <2>3, <2>4
      <4>. QED
        BY <2>2, <4>1
    <3>. QED
      BY <2>3, <3>1, <3>2
  <2>5. ASSUME ch[q][Len(ch[q])] \in {0, Last}
        PROVE  ch'[q] # <<>> /\ ch'[q][Len(ch'[q])] = ch[q][Len(ch[q])]
    <3>1. Len(ch[q]) # 1 /\ Len(ch[q]) # 0
      BY <1>0, <2>1, <2>2, <2>3, <2>5
    <3>2. Len(ch'[q]) \in 1..Len(ch'[q]) /\ Len(ch'[q]) + 1 = Len(ch[q])
      <4>1. Len(ch[q]) \in Nat /\ Len(ch'[q]) = Len(ch[q]) - 1
        BY <1>0, <2>3
      <4>2. \A m \in Nat : m # 0 /\ m # 1 => m - 1 \in 1..(m - 1) /\ (m - 1) + 1 = m
        OBVIOUS
      <4>. QED
        BY <3>1, <4>1, <4>2
    <3>3. ch'[q] # <<>>
      BY <1>0, <3>2
    <3>. QED
      BY <2>3, <3>2, <3>3
  <2>. QED
    BY <1>0, <2>1, <2>4, <2>5 DEF Contained
<1>6. ASSUME NEW s \in Sessions, Taken(s, q) \/ (q \in pending[s] /\ q \notin pending'[s]),
             CancelWithError(q), ~ prClosed[q], got' = got
      PROVE  Contained(q)'
  BY <1>2, <1>6
(* The channel is closed, or nothing happens.                              *)
<1>7. CASE ch'[q] = ch[q] /\ got'[q] = got[q]
  <2>1. terminal'[q] => terminal[q]
    <3>1. ASSUME NEW s \in Sessions, DeliverSend(s), reader[s].req = q PROVE FALSE
      <4>1. ch'[q] = Append(ch[q], reader[s].n) /\ reader[s].n \in 0..Last
        BY <3>1 DEF DeliverSend, TypeOK, RequestTypes, SessionTypes, Readers
      <4>2. Len(ch'[q]) = Len(ch[q]) + 1
        BY <1>0, <4>1, AppendAt
      <4>. QED
        BY <1>0, <1>7, <4>2
    <3>. QED
      BY <3>1, TerminalSet
  <2>2. ASSUME prClosed'[q], q \notin ctxDone'
        PROVE  ch[q] # <<>> /\ ch[q][Len(ch[q])] \in {0, Last}
    <3>1. CASE prClosed[q]
      BY <1>0, <2>2, <3>1 DEF Contained
    <3>2. CASE ~ prClosed[q]
      <4>1. ~ Undo(q)
        BY DEF Undo, Return, TypeOK, CallTypes
      <4>2. ~ AfterCancel(q)
        BY <1>0, <2>2 DEF AfterCancel, Holder
      <4>3. CASE Squeeze(q)
        BY <1>3, <1>7, <2>2, <4>3 DEF Contained
      <4>4. ASSUME NEW s \in Sessions, Settle(s), reader[s].req = q, q \in pending[s],
                   reader[s].delivered \/ (s \notin closed /\ q \notin ctxDone)
            PROVE  terminal[q]
        <5>1. reader[s].pc = "settle"
          BY <4>4 DEF Settle
        <5>. QED
          BY <1>0, <4>4, <5>1 DEF Reader
      <4>5. CASE terminal[q]
        BY <1>0, <4>5 DEF Contained
      <4>6. CASE CancelWithError(q)
        <5>1. CASE ~ terminal[q] /\ Len(ch[q]) # Buffer
          <6>1. ch'[q] = Append(ch[q], 0)
            BY <3>2, <4>6, <5>1 DEF CancelWithError, TypeOK, RequestTypes
          <6>2. Len(ch'[q]) = Len(ch[q]) + 1
            BY <1>0, <6>1, AppendAt
          <6>. QED
            BY <1>0, <1>7, <6>2
        <5>2. CASE ~ terminal[q] /\ Len(ch[q]) = Buffer
          BY <2>2, <3>2, <4>6, <5>2 DEF CancelWithError, TypeOK, RequestTypes
        <5>. QED
          BY <4>5, <5>1, <5>2
      <4>. QED
        BY <2>2, <3>2, <4>1, <4>2, <4>3, <4>4, <4>5, <4>6, ClosesHow
    <3>. QED
      BY <3>1, <3>2
  <2>. QED
    BY <1>0, <1>7, <2>1, <2>2 DEF Contained
<1>. QED
  BY <1>3, <1>4, <1>5, <1>6, <1>7, ContentChanges

LEMMA ChannelStep ==
    ASSUME TypeOK, TypeOK', ManagerInv, HolderInv, HolderInv', PeerInv, ReaderInv, PipeInv, ChannelInv,
           [Next]_vars
    PROVE  ChannelInv'
<1>. SUFFICES ASSUME NEW q \in Requests
              PROVE  (/\ peer[q] = -1 => got[q] = 0
                      /\ peer[q] = -1 /\ target[q] \in Sessions /\ q \in pending[target[q]]
                            => ch[q] = <<>>
                      /\ ~ Begun(q) => ch[q] = <<>> /\ ~ terminal[q] /\ ~ done[q]
                      /\ result[q] = "ok" => caller[q] = "returned"
                      /\ caller[q] # "returned" => Contained(q))'
  BY DEF ChannelInv
<1>0. /\ Holder(q) /\ Holder(q)'
      /\ ~ Begun(q) => ch[q] = <<>> /\ ~ terminal[q] /\ ~ done[q] /\ peer[q] = -1
      /\ peer[q] = -1 => caller[q] # "receive" /\ got[q] = 0
      /\ \A s \in Sessions : Reader(s)
  BY DEF HolderInv, ChannelInv, ReaderInv, PeerInv, Begun
<1>1. ASSUME NEW s \in Sessions, DeliverSend(s), reader[s].req = q PROVE peer[q] # -1
  BY <1>0, <1>1 DEF DeliverSend, Reader, Holds
<1>2. peer'[q] = -1 => peer[q] = -1
  <2>1. peer[q] \in -1..Last
    BY DEF TypeOK, CallTypes
  <2>2. peer[q] # -1 => peer[q] + 1 # -1
    BY <2>1, WsRelayAssumption
  <2>3. PeerSends(q) => peer[q] + 1 # -1
    BY WsRelayAssumption DEF PeerSends
  <2>. QED
    BY <2>2, <2>3, PeerGrows
<1>3. ASSUME peer[q] = -1
      PROVE  /\ got'[q] = got[q]
             /\ \/ ch'[q] = ch[q]
                \/ Squeeze(q)
                \/ \E s \in Sessions : Taken(s, q) \/ (q \in pending[s] /\ q \notin pending'[s])
  <2>1. ~ Receive(q)
    BY <1>0, <1>3 DEF Receive
  <2>2. Squeeze(q) => got'[q] = got[q]
    BY DEF Squeeze, callVars
  <2>. QED
    BY <1>1, <1>3, <2>1, <2>2, ContentChanges
<1>4. peer'[q] = -1 => got'[q] = 0
  BY <1>0, <1>2, <1>3
<1>5. ASSUME peer'[q] = -1, target'[q] \in Sessions, q \in pending'[target'[q]]
      PROVE  ch'[q] = <<>>
  <2>1. CASE Store(q)
    <3>1. ch' = ch /\ ~ Begun(q)
      BY <2>1 DEF Store, prVars, Begun
    <3>. QED
      BY <1>0, <3>1
  <2>2. CASE ~ Store(q)
    <3>1. q \in pending[target'[q]] /\ target[q] = target'[q]
      BY <1>0, <1>5, <2>2, PendingStarts DEF Holder
    <3>2. ch[q] = <<>> /\ ~ squeeze[q] /\ \A s \in Sessions : ~ Taken(s, q)
      BY <1>0, <1>2, <1>5, <3>1 DEF ChannelInv, Holder
    <3>3. ASSUME NEW s \in Sessions, q \in pending[s], q \notin pending'[s] PROVE FALSE
      BY <1>0, <1>5, <3>1, <3>3 DEF Holder
    <3>. QED
      BY <1>2, <1>3, <1>5, <3>2, <3>3 DEF Squeeze
  <2>. QED
    BY <2>1, <2>2
<1>6. ASSUME ~ Begun(q)
      PROVE  ch'[q] = <<>> /\ ~ terminal'[q]
  <2>1. ~ squeeze[q] /\ \A s \in Sessions : ~ Taken(s, q) /\ q \notin pending[s]
    BY <1>0, <1>6 DEF Holder
  <2>2. ch'[q] = <<>>
    BY <1>0, <1>3, <1>6, <2>1 DEF Squeeze
  <2>3. ~ terminal'[q]
    BY <1>0, <1>1, <1>6, TerminalSet
  <2>. QED
    BY <2>2, <2>3
<1>7. ~ Begun(q)' => ch'[q] = <<>> /\ ~ terminal'[q] /\ ~ done'[q]
  BY <1>0, <1>6, BegunKeeps DEF Holder
<1>8. result'[q] = "ok" => caller'[q] = "returned"
  BY ResultSet, BegunKeeps DEF ChannelInv
<1>9. ASSUME caller'[q] # "returned" PROVE Contained(q)'
  <2>1. CASE Begun(q)
    BY <1>9, <2>1, ContainedStep
  <2>2. CASE ~ Begun(q)
    <3>1. ch'[q] = <<>> /\ ~ terminal'[q]
      BY <1>6, <2>2
    <3>2. ~ prClosed'[q]
      <4>1. CASE ~ Begun(q)'
        BY <1>0, <4>1 DEF Holder
      <4>2. CASE Store(q)
        BY <1>0, <2>2, <4>2 DEF Holder, Store, prVars
      <4>. QED
        BY <1>9, <2>2, <4>1, <4>2, BegunKeeps
    <3>. QED
      BY <3>1, <3>2 DEF Contained
  <2>. QED
    BY <2>1, <2>2
<1>. QED
  BY <1>4, <1>5, <1>7, <1>8, <1>9

-----------------------------------------------------------------------------
(* What calls return *)

LEMMA SuccessStep ==
    ASSUME TypeOK, ManagerInv, HolderInv, ChannelInv, AnswerEndsExplicitly, SuccessIsComplete,
           [Next]_vars
    PROVE  SuccessIsComplete'
<1>. SUFFICES ASSUME NEW q \in Requests, result'[q] = "ok"
              PROVE  got'[q] = Last \/ q \in ctxDone' \/ target'[q] \in closed'
  BY DEF SuccessIsComplete
<1>0. /\ ctxDone \subseteq ctxDone' /\ closed \subseteq closed'
      /\ Begun(q) => target'[q] = target[q]
      /\ ch[q] \in Seq(0..Last) /\ got[q] \in Nat /\ Last \in Nat \ {0}
  BY WsRelayAssumption, CtxGrows, CleanerBegins, BegunKeeps
     DEF TypeOK, RequestTypes, CallTypes, Contents
<1>1. CASE result[q] = "ok" /\ (caller[q] = "returned" => got'[q] = got[q])
  BY <1>0, <1>1 DEF SuccessIsComplete, ChannelInv, Begun
<1>2. CASE caller[q] = "receive" /\ ReceiveClosed(q)
  BY <1>0, <1>2 DEF AnswerEndsExplicitly, ReceiveClosed
<1>3. CASE caller[q] = "receive" /\ Receive(q) /\ Head(ch[q]) = Last /\ got'[q] = got[q] + 1
  <2>1. ch[q] # <<>>
    BY <1>3 DEF Receive
  <2>2. Head(ch[q]) = ch[q][1] /\ 1 \in 1..Len(ch[q])
    BY <1>0, <2>1, TailAt
  <2>3. CASE Calm(q)
    <3>1. ch[q][1] \in {got[q] + 1, 0}
      BY <1>3, <2>2, <2>3 DEF ChannelInv, Contained
    <3>. QED
      BY <1>0, <1>3, <2>2, <3>1
  <2>4. CASE ~ Calm(q)
    BY <1>0, <1>3, <2>4 DEF Calm, HolderInv, Holder, Begun
  <2>. QED
    BY <2>3, <2>4
<1>. QED
  BY <1>1, <1>2, <1>3, ResultSet

LEMMA AnswerEnds == ChannelInv => AnswerEndsExplicitly
BY DEF ChannelInv, Contained, AnswerEndsExplicitly

-----------------------------------------------------------------------------
(* Where provider names lead *)

LEMMA LiveStep ==
    ASSUME TypeOK, ManagerInv, SessionMapExact, [Next]_vars
    PROVE  LiveSessionIsFound'
<1>. DEFINE Unreplaced(t) == \A o \in Sessions : ~ (handler[o] = "replacing" /\ replaced[o] = t)
            Live(t) == handler[t] \in Present /\ t \notin closed \cup stopping /\ Unreplaced(t)
<1>. SUFFICES ASSUME NEW t \in Sessions, Live(t)' PROVE (sessions[provider[t]] = t)'
  BY DEF LiveSessionIsFound, Present
<1>. USE DEF TypeOK, ManagerTypes, Present
<1>0. /\ Live(t) => sessions[provider[t]] = t
      /\ MapInv /\ closed \subseteq closed'
      /\ \A s \in Sessions : cleaner[s].pc = "none" <=> s \notin closed
  BY CleanerBegins DEF SessionMapExact, LiveSessionIsFound, ManagerInv
<1>1. ASSUME NEW s \in Sessions, NEW p \in Providers, Register(s, p)
      PROVE  (sessions[provider[t]] = t)'
  BY <1>0, <1>1, WsRelayAssumption DEF Register, MapInv
<1>2. ASSUME NEW s \in Sessions, CleanEnd(s) PROVE (sessions[provider[t]] = t)'
  BY <1>0, <1>2 DEF CleanEnd, ForgetSession, SessionTypes, Cleaners
<1>3. ASSUME NEW s \in Sessions, Refuse(s) PROVE (sessions[provider[t]] = t)'
  BY <1>0, <1>3 DEF Refuse
<1>4. ASSUME NEW s \in Sessions, Replaced(s) PROVE (sessions[provider[t]] = t)'
  <2>1. replaced[s] \in closed
    BY <1>0, <1>4 DEF Replaced, MapInv
  <2>2. t # replaced[s]
    BY <1>0, <2>1
  <2>. QED
    BY <1>0, <1>4, <2>2 DEF Replaced
<1>5. ASSUME NEW s \in Sessions, StartReader(s) PROVE (sessions[provider[t]] = t)'
  BY <1>0, <1>5 DEF StartReader
<1>6. ASSUME NEW s \in Sessions, StopNext(s) PROVE (sessions[provider[t]] = t)'
  BY <1>0, <1>6 DEF StopNext
<1>7. CASE Stop
  <2>1. Live(t)
    BY <1>0, <1>7 DEF Stop
  <2>2. provider[t] \in Providers /\ sessions[provider[t]] = t
    BY <1>0, <2>1 DEF MapInv
  <2>3. t \in stopping'
    BY <1>7, <2>2, WsRelayAssumption DEF Stop
  <2>. QED
    BY <2>3
<1>8. CASE StopDone
  <2>1. stopAt \in closed
    BY <1>0, <1>8 DEF StopDone
  <2>. QED
    BY <1>0, <1>8, <2>1 DEF StopDone
<1>9. CASE UNCHANGED mgrVars
  BY <1>0, <1>9 DEF mgrVars
<1>. QED
  BY <1>1, <1>2, <1>3, <1>4, <1>5, <1>6, <1>7, <1>8, <1>9
     DEF vars, Next, SessionStep, RequestStep, Environment, CleanRange, CleanTake, CleanCancel,
         CleanReplaced, HeartbeatFails, Read, ReadFails, DeliverLock, DeliverSend, DeliverGiveUp,
         Settle, PeerSends, Send, Store, AfterFunc, SetStopCancel, CheckClosed, WriteSucceeds,
         WriteFails, Undo, Receive, ReceiveClosed, ReceiveCtx, CancelContext, AfterRun,
         AfterCancel, Squeeze, ReaderFrame, CallerFrame

(* Only CleanEnd ends a cleanup.                                           *)
LEMMA CleanerEnds ==
    ASSUME TypeOK, [Next]_vars, NEW t \in Sessions, cleaner'[t].pc = "done"
    PROVE  cleaner[t].pc = "done" \/ CleanEnd(t)
<1>. USE DEF TypeOK, SessionTypes, Cleaners
<1>1. ASSUME NEW s, BeginCleanup(s) PROVE cleaner[t].pc = "done"
  BY <1>1 DEF BeginCleanup
<1>2. ASSUME NEW s \in Sessions, CleanRange(s) \/ CleanCancel(s) PROVE cleaner[t].pc = "done"
  BY <1>2 DEF CleanRange, CleanCancel
<1>3. ASSUME NEW s \in Sessions, NEW r \in Requests, CleanTake(s, r) PROVE cleaner[t].pc = "done"
  BY <1>3 DEF CleanTake
<1>4. ASSUME NEW s \in Sessions, CleanEnd(s), s # t PROVE cleaner[t].pc = "done"
  BY <1>4 DEF CleanEnd
<1>. QED
  BY <1>1, <1>2, <1>3, <1>4
     DEF vars, Next, SessionStep, RequestStep, Environment, CleanReplaced, HeartbeatFails,
         Register, Refuse, Replaced, StartReader, Stop, StopNext, StopDone, Read, ReadFails,
         DeliverLock, DeliverSend, DeliverGiveUp, Settle, PeerSends, Send, Store, AfterFunc,
         SetStopCancel, CheckClosed, WriteSucceeds, WriteFails, Undo, Receive, ReceiveClosed,
         ReceiveCtx, CancelContext, AfterRun, AfterCancel, Squeeze, ReaderFrame, CallerFrame

LEMMA DeadStep ==
    ASSUME TypeOK, TypeOK', ManagerInv, SessionMapExact, [Next]_vars
    PROVE  NoDeadSession'
<1>. SUFFICES ASSUME NEW p \in Providers, sessions'[p] # None,
                     cleaner'[sessions'[p]].pc = "done"
              PROVE  FALSE
  BY DEF NoDeadSession
<1>. DEFINE t == sessions'[p]
<1>0. t \in Sessions
  BY DEF TypeOK, ManagerTypes
<1>1. CASE sessions[p] = t
  <2>1. cleaner[t].pc # "done" /\ provider[t] = p
    BY <1>0, <1>1, WsRelayAssumption DEF SessionMapExact, NoDeadSession, ManagerInv, MapInv
  <2>2. CleanEnd(t)
    BY <1>0, <2>1, CleanerEnds
  <2>3. sessions'[p] = None
    BY <1>1, <2>1, <2>2, WsRelayAssumption DEF CleanEnd, ForgetSession, TypeOK, ManagerTypes
  <2>. QED
    BY <2>3
<1>2. ASSUME NEW s \in Sessions, NEW o \in Providers, Register(s, o), sessions[p] # t PROVE FALSE
  <2>1. t = s /\ handler[s] = "absent" /\ cleaner' = cleaner
    BY <1>2 DEF Register, TypeOK, ManagerTypes
  <2>2. s \notin closed /\ cleaner[s].pc = "none"
    BY <2>1 DEF ManagerInv
  <2>. QED
    BY <2>1, <2>2
<1>3. ASSUME NEW s \in Sessions, CleanEnd(s), sessions[p] # t PROVE FALSE
  BY <1>3 DEF CleanEnd, ForgetSession, TypeOK, ManagerTypes
<1>4. CASE Stop
  BY <1>4 DEF Stop
<1>5. CASE UNCHANGED sessions
  BY <1>1, <1>5
<1>. QED
  BY <1>1, <1>2, <1>3, <1>4, <1>5
     DEF vars, mgrVars, Next, SessionStep, RequestStep, Environment, CleanRange, CleanTake,
         CleanCancel, CleanReplaced, HeartbeatFails, Refuse, Replaced, StartReader, StopNext,
         StopDone, Read, ReadFails, DeliverLock, DeliverSend, DeliverGiveUp, Settle, PeerSends,
         Send, Store, AfterFunc, SetStopCancel, CheckClosed, WriteSucceeds, WriteFails, Undo,
         Receive, ReceiveClosed, ReceiveCtx, CancelContext, AfterRun, AfterCancel, Squeeze,
         ReaderFrame, CallerFrame

-----------------------------------------------------------------------------
(* The invariant *)

LEMMA InvInit == Init => IInv
<1>. SUFFICES ASSUME Init PROVE IInv
  OBVIOUS
<1>. USE DEF Init
<1>1. TypeOK
  BY TypeInit
<1>2. ManagerInv /\ SessionMapExact
  BY WsRelayAssumption
     DEF ManagerInv, MapInv, Present, Idle, NotRunning, SessionMapExact, LiveSessionIsFound,
         NoDeadSession
<1>3. HolderInv /\ RangeInv /\ PeerInv
  BY WsRelayAssumption DEF HolderInv, Holder, Begun, Taken, RangeInv, PeerInv, Idle
<1>4. ReaderInv /\ PipeInv /\ SuccessIsComplete
  BY WsRelayAssumption
     DEF ReaderInv, Reader, Holds, PipeInv, Flowing, SuccessIsComplete, NotRunning
<1>5. WireInv
  BY DEF WireInv, Ordered
<1>6. ChannelInv
  BY DEF ChannelInv, Contained, Begun
<1>. QED
  BY <1>1, <1>2, <1>3, <1>4, <1>5, <1>6 DEF IInv

LEMMA InvStep == IInv /\ [Next]_vars => IInv'
<1>. SUFFICES ASSUME IInv, [Next]_vars PROVE IInv'
  OBVIOUS
<1>. USE DEF IInv
<1>1. TypeOK'
  BY TypeStep
<1>2. ManagerInv' /\ HolderInv' /\ RangeInv'
  BY ManagerStep, HolderStep, RangeStep
<1>3. PeerInv' /\ ReaderInv' /\ WireInv'
  BY PeerStep, ReaderStep, WireStep
<1>4. PipeInv' /\ ChannelInv'
  BY <1>1, <1>2, PipeStep, ChannelStep
<1>5. SuccessIsComplete'
  BY SuccessStep, AnswerEnds
<1>6. SessionMapExact'
  BY <1>1, LiveStep, DeadStep DEF SessionMapExact
<1>. QED
  BY <1>1, <1>2, <1>3, <1>4, <1>5, <1>6

LEMMA Invariance == Spec => []IInv
BY InvInit, InvStep, PTL DEF Spec

(* Every variable stays in its range.                                      *)
THEOREM TypeCorrect == Spec => []TypeOK
<1>1. IInv => TypeOK
  BY DEF IInv
<1>. QED
  BY <1>1, Invariance, PTL

(* A call that receives has its request in exactly one hand while its      *)
(* channel is open, and in none once it is closed.                         *)
LEMMA OneHand ==
    ASSUME IInv, NEW r \in Requests
    PROVE  /\ caller[r] = "receive" /\ ~ prClosed[r] => Cardinality(Closers(r)) = 1
           /\ prClosed[r] => Closers(r) = {}
<1>0. Holder(r) /\ \A s \in Sessions : cleaner[s].pc = "none" <=> s \notin closed
  BY DEF IInv, HolderInv, ManagerInv
<1>. DEFINE InMap(s) == r \in pending[s] /\ cleaner[s].pc # "done"
<1>1. ASSUME prClosed[r] PROVE Closers(r) = {}
  <2>1. \A s \in Sessions : ~ InMap(s) /\ ~ (cleaner[s].pc = "cancel" /\ cleaner[s].req = r)
    BY <1>0, <1>1 DEF Holder, Taken
  <2>2. after[r] # "cancel" /\ ~ squeeze[r]
    BY <1>0, <1>1 DEF Holder
  <2>. QED
    BY <2>1, <2>2 DEF Closers
<1>2. ASSUME caller[r] = "receive", ~ prClosed[r] PROVE Cardinality(Closers(r)) = 1
  <2>. DEFINE t == target[r]
  <2>1. t \in Sessions /\ Begun(r)
    BY <1>0, <1>2 DEF Holder, Begun
  <2>2. r \in pending[t] => InMap(t)
    BY <1>2, <2>1 DEF IInv, RangeInv
  <2>3. /\ \A s \in Sessions : InMap(s) => s = t /\ ~ Taken(t, r) /\ after[r] # "cancel" /\ ~ squeeze[r]
        /\ \A s \in Sessions : Taken(s, r) => s = t /\ after[r] # "cancel" /\ ~ squeeze[r]
        /\ after[r] = "cancel" => ~ squeeze[r]
        /\ InMap(t) \/ Taken(t, r) \/ after[r] = "cancel" \/ squeeze[r]
    BY <1>0, <1>2, <2>1, <2>2 DEF Holder
  <2>4. \E c : Closers(r) = {c}
    <3>1. CASE InMap(t)
      <4>1. Closers(r) = {<<"map", t>>}
        BY <2>1, <2>3, <3>1 DEF Closers, Taken
      <4>. QED
        BY <4>1
    <3>2. CASE Taken(t, r)
      <4>1. Closers(r) = {<<"cleanup", t>>}
        BY <2>1, <2>3, <3>2 DEF Closers, Taken
      <4>. QED
        BY <4>1
    <3>3. CASE after[r] = "cancel"
      <4>1. Closers(r) = {<<"after", None>>}
        BY <2>1, <2>3, <3>3 DEF Closers, Taken
      <4>. QED
        BY <4>1
    <3>4. CASE squeeze[r]
      <4>1. Closers(r) = {<<"squeeze", None>>}
        BY <2>1, <2>3, <3>4 DEF Closers, Taken
      <4>. QED
        BY <4>1
    <3>. QED
      BY <2>3, <3>1, <3>2, <3>3, <3>4
  <2>. QED
    BY <2>4, FS_Singleton
<1>. QED
  BY <1>1, <1>2

(* No reader sends into a closed channel, no channel is closed twice, and  *)
(* every channel that a caller waits on has exactly one goroutine, or the  *)
(* session's map, that will close it: request() and cleanup may meet in    *)
(* any order, and every frame and every context may come at any time.      *)
THEOREM Discipline == Spec => []ChannelDiscipline
<1>1. IInv => NoSendOnClosedChannel
  BY DEF IInv, ReaderInv, Reader, NoSendOnClosedChannel
<1>2. IInv => OneCloser
  BY OneHand DEF OneCloser
<1>. QED
  BY <1>1, <1>2, Invariance, PTL DEF ChannelDiscipline

(* Unless its context is done, a caller whose channel ends has got the     *)
(* terminal frame or an error: dispatch's bare cancel is never reached.    *)
THEOREM ExplicitEnd == Spec => []AnswerEndsExplicitly
<1>1. IInv => AnswerEndsExplicitly
  BY AnswerEnds DEF IInv
<1>. QED
  BY <1>1, Invariance, PTL

(* While neither the context nor the session ends, a call that succeeds    *)
(* has received every frame of its answer.                                 *)
THEOREM CompleteSuccess == Spec => []SuccessIsComplete
<1>1. IInv => SuccessIsComplete
  BY DEF IInv
<1>. QED
  BY <1>1, Invariance, PTL

(* Manager.sessions leads to every live session and to no dead one,        *)
(* whatever the order of replacements, failures and Stop.                  *)
THEOREM ExactSessionMap == Spec => []SessionMapExact
<1>1. IInv => SessionMapExact
  BY DEF IInv
<1>. QED
  BY <1>1, Invariance, PTL
=============================================================================
