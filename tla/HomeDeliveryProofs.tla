-------------------------- MODULE HomeDeliveryProofs --------------------------
(***************************************************************************)
(* Proofs about the two queues on the way to Home, for every value of the  *)
(* constants: the usage queue with its forwarder (UsageQueue) and the      *)
(* release flusher (ReleaseFlusher).                                       *)
(*                                                                         *)
(* UsageQueue: no channel is closed twice or sent on after its close,      *)
(* every record is in exactly one place, and the slice with its head index *)
(* is a queue.  ReleaseFlusher: no release is lost and none invented,      *)
(* tickets are completed exactly when Home has them, and the flusher       *)
(* implements CumulativeRelease.                                           *)
(***************************************************************************)
EXTENDS UsageQueue, ReleaseFlusher, SequenceTheorems, FiniteSetTheorems, WellFoundedInduction, TLAPS

(***************************************************************************)
(* What the proofs need to say about a state                               *)
(***************************************************************************)
Items == [event : Events, at : Nat]
Fates == {"none", "refused", "published", "dropped", "expired", "cleared", "popped", "home"}

UsageTypeOK ==
    /\ now \in Nat /\ enabled \in BOOLEAN /\ disables \in Nat /\ clearing \in BOOLEAN
    /\ items \in Seq(Items) /\ head \in 0..Len(items)
    /\ subscribers \subseteq Subscribers
    /\ toClose \subseteq Subscribers /\ chClosed \subseteq Subscribers
    /\ subState \in [Subscribers -> {"new", "open", "gone"}]
    /\ channel \in [Subscribers -> Seq(Events \cup {Refresh})]
    /\ notified \in Nat
    /\ producer \in [Events -> {"new", "check", "publish", "enqueue", "done"}]
    /\ stamp \in [Events -> Nat]
    /\ popper \in [Poppers -> [pc : {"idle", "pop"}, at : Nat]]
    /\ fwd \in [pc : {"idle", "pop", "push", "requeue", "wait"}, at : Nat,
                event : Events \cup {None}]
    /\ batch \in Seq(Events) /\ failures \in Nat
    /\ out \in Seq(Events)
    /\ fate \in [Events -> Fates]

(* A channel is in the map, then on its way to be closed, then closed.     *)
SubscriberInv ==
    /\ SubscribersOpen
    /\ \A s \in Subscribers :
          subState[s] = "new" => s \notin subscribers \cup toClose \cup chClosed

Distinct(q) == \A i, j \in 1..Len(q) : q[i] = q[j] => i = j
Members(q) == {q[i] : i \in 1..Len(q)}

(* The forwarder holds a batch exactly while it pushes or requeues it.     *)
ForwarderInv ==
    /\ fwd.pc \in {"idle", "pop"} => batch = <<>>
    /\ fwd.pc \in {"push", "requeue"} => batch # <<>>
    /\ Distinct(batch)

(* Exactly one of four.                                                    *)
One(p, q, f, s) ==
    /\ p \/ q \/ f \/ s
    /\ ~ (p /\ (q \/ f \/ s)) /\ ~ (q /\ (f \/ s)) /\ ~ (f /\ s)

InOnePlace(e) ==
    One(producer[e] # "done", e \in Members(Fifo), e \in Members(batch), fate[e] # "none")

PlaceInv == Distinct(Fifo) /\ \A e \in Events : InOnePlace(e)

UsageInv == UsageTypeOK /\ SubscriberInv /\ ForwarderInv /\ PlaceInv

-----------------------------------------------------------------------------
(***************************************************************************)
(* The slice as a queue                                                    *)
(***************************************************************************)
LEMMA SmallestNat ==
    ASSUME NEW S \in SUBSET Nat, S # {}
    PROVE  \E x \in S : \A y \in S : x <= y
<1>. DEFINE R == OpToRel(<, Nat)
<1>1. IsWellFoundedOn(R, Nat)
  BY NatLessThanWellFounded
<1>2. \A a, b \in Nat : a < b => <<a, b>> \in R
  BY DEF OpToRel
<1>. HIDE DEF R
<1>3. PICK x \in S : \A y \in S : ~ (<<y, x>> \in R)
  BY <1>1, WFMin
<1>4. ASSUME NEW y \in S PROVE x <= y
  <2>1. ~ (y < x)
    BY <1>2, <1>3
  <2>. QED
    BY <2>1
<1>. QED
  BY <1>3, <1>4

(* pruneLocked moves head forward, and not beyond the end.                 *)
LEMMA PruneRange ==
    ASSUME NEW q, NEW n \in Nat, Len(q) = n, NEW h \in 0..n, NEW t
    PROVE  PruneHead(q, h, t) \in h..n
<1>. DEFINE Old(i) == q[i].at < t - Retention
            S == {i \in (h + 1)..n : ~ Old(i)}
            Good(k) == /\ \A i \in (h + 1)..k : Old(i)
                       /\ k < n => ~ Old(k + 1)
<1>1. \E k \in h..n : Good(k)
  <2>1. CASE S = {}
    <3>. HIDE DEF Old
    <3>1. \A i \in (h + 1)..n : Old(i)
      BY <2>1
    <3>2. Good(n) /\ n \in h..n
      BY <3>1
    <3>. QED
      BY <3>2
  <2>2. CASE S # {}
    <3>1. S \in SUBSET Nat
      OBVIOUS
    <3>. HIDE DEF Old
    <3>2. PICK x \in S : \A y \in S : x <= y
      BY <2>2, <3>1, SmallestNat
    <3>3. x \in (h + 1)..n /\ ~ Old(x)
      BY <3>2
    <3>4. \A i \in (h + 1)..(x - 1) : i \in (h + 1)..n /\ ~ (x <= i)
      BY <3>3
    <3>5. \A i \in (h + 1)..(x - 1) : Old(i)
      BY <3>2, <3>4
    <3>6. (x - 1) + 1 = x /\ x - 1 \in h..n
      BY <3>3
    <3>7. Good(x - 1)
      BY <3>3, <3>5, <3>6
    <3>. QED
      BY <3>6, <3>7
  <2>. QED
    BY <2>1, <2>2
<1>2. PruneHead(q, h, t) = CHOOSE k \in h..n : Good(k)
  BY DEF PruneHead
<1>. HIDE DEF Good
<1>. QED
  BY <1>1, <1>2

LEMMA EventsFromIs ==
    ASSUME NEW q \in Seq(Items), NEW h \in 0..Len(q)
    PROVE  /\ EventsFrom(q, h) \in Seq(Events)
           /\ Len(EventsFrom(q, h)) = Len(q) - h
           /\ \A i \in 1..(Len(q) - h) : EventsFrom(q, h)[i] = q[h + i].event
<1>. DEFINE n == Len(q) - h
            f == [i \in 1..n |-> q[h + i].event]
<1>1. n \in Nat /\ Len(q) \in Nat /\ h \in Nat
  OBVIOUS
<1>2. \A i \in 1..n : h + i \in 1..Len(q)
  BY <1>1
<1>3. \A i \in 1..Len(q) : q[i].event \in Events
  <2>1. \A i \in 1..Len(q) : q[i] \in Items
    OBVIOUS
  <2>2. \A x \in Items : x.event \in Events
    BY DEF Items
  <2>. QED
    BY <2>1, <2>2
<1>4. f \in [1..n -> Events]
  BY <1>2, <1>3
<1>5. f \in Seq(Events) /\ Len(f) = n
  <2>. HIDE DEF f, n
  <2>. QED
    BY <1>1, <1>4
<1>. QED
  BY <1>5 DEF EventsFrom

(* Compaction moves the items and not the queue.                           *)
LEMMA CompactKeeps ==
    ASSUME NEW q \in Seq(Items), NEW h \in 0..Len(q)
    PROVE  LET r == CompactItems(q, h)
           IN  /\ r.items \in Seq(Items) /\ r.head \in 0..Len(r.items)
               /\ EventsFrom(r.items, r.head) = EventsFrom(q, h)
<1>. DEFINE r == CompactItems(q, h)
            c == SubSeq(q, h + 1, Len(q))
<1>1. CASE h = 0 \/ (h < Len(q) /\ h < Compact /\ h * 2 < Len(q))
  <2>1. r = [items |-> q, head |-> h]
    BY <1>1 DEF CompactItems
  <2>. QED
    BY <2>1
<1>2. CASE ~ (h = 0 \/ (h < Len(q) /\ h < Compact /\ h * 2 < Len(q)))
  <2>1. r = [items |-> c, head |-> 0]
    BY <1>2 DEF CompactItems
  <2>2. /\ c \in Seq(Items) /\ Len(c) = Len(q) - h
        /\ \A i \in 1..(Len(q) - h) : c[i] = q[h + i]
    <3>1. \A i \in (h + 1)..Len(q) : q[i] \in Items
      OBVIOUS
    <3>2. /\ c \in Seq(Items)
          /\ Len(c) = IF h + 1 <= Len(q) THEN Len(q) - (h + 1) + 1 ELSE 0
          /\ \A i \in 1..(Len(q) - (h + 1) + 1) : c[i] = q[(h + 1) + i - 1]
      BY <3>1, SubSeqProperties
    <3>3. Len(c) = Len(q) - h
      BY <3>2
    <3>. HIDE DEF c
    <3>. QED
      BY <3>2, <3>3
  <2>. HIDE DEF c
  <2>3. EventsFrom(c, 0) = EventsFrom(q, h)
    <3>1. 0 \in 0..Len(c)
      BY <2>2
    <3>2. /\ EventsFrom(c, 0) \in Seq(Events) /\ Len(EventsFrom(c, 0)) = Len(c) - 0
          /\ \A i \in 1..(Len(c) - 0) : EventsFrom(c, 0)[i] = c[0 + i].event
      BY <2>2, <3>1, EventsFromIs
    <3>3. /\ EventsFrom(q, h) \in Seq(Events) /\ Len(EventsFrom(q, h)) = Len(q) - h
          /\ \A i \in 1..(Len(q) - h) : EventsFrom(q, h)[i] = q[h + i].event
      BY EventsFromIs
    <3>4. Len(EventsFrom(c, 0)) = Len(EventsFrom(q, h))
      <4>1. Len(q) - h \in Int /\ \A i \in Int : i - 0 = i
        OBVIOUS
      <4>. QED
        BY <2>2, <3>2, <3>3, <4>1
    <3>5. ASSUME NEW i \in 1..Len(EventsFrom(c, 0))
          PROVE  EventsFrom(c, 0)[i] = EventsFrom(q, h)[i]
      <4>1. i \in 1..(Len(q) - h) /\ i \in 1..(Len(c) - 0) /\ 0 + i = i
        BY <2>2, <3>2
      <4>. QED
        BY <2>2, <3>2, <3>3, <4>1
    <3>. QED
      BY <3>2, <3>3, <3>4, <3>5, SeqEqual
  <2>4. 0 \in 0..Len(c)
    BY <2>2
  <2>. HIDE DEF r
  <2>. QED
    BY <2>1, <2>2, <2>3, <2>4 DEF r
<1>. QED
  BY <1>1, <1>2

(* What follows the first k - h events of the queue.                       *)
LEMMA EventsAfter ==
    ASSUME NEW q \in Seq(Items), NEW h \in 0..Len(q), NEW k \in h..Len(q)
    PROVE  EventsFrom(q, k) = SubSeq(EventsFrom(q, h), k - h + 1, Len(EventsFrom(q, h)))
<1>. DEFINE f == EventsFrom(q, h)
            g == EventsFrom(q, k)
            s == SubSeq(f, k - h + 1, Len(f))
<1>1. k \in 0..Len(q) /\ h \in Nat /\ k \in Nat /\ Len(q) \in Nat
  OBVIOUS
<1>2. /\ f \in Seq(Events) /\ Len(f) = Len(q) - h
      /\ \A i \in 1..(Len(q) - h) : f[i] = q[h + i].event
  BY EventsFromIs
<1>3. /\ g \in Seq(Events) /\ Len(g) = Len(q) - k
      /\ \A i \in 1..(Len(q) - k) : g[i] = q[k + i].event
  BY <1>1, EventsFromIs
<1>. HIDE DEF f, g
<1>4. /\ s \in Seq(Events) /\ Len(s) = Len(q) - k
      /\ \A i \in 1..(Len(q) - k) : s[i] = f[k - h + i]
  <2>1. \A i \in (k - h + 1)..Len(f) : f[i] \in Events
    BY <1>1, <1>2
  <2>2. k - h + 1 \in Int /\ Len(f) \in Int
    BY <1>1, <1>2
  <2>3. /\ s \in Seq(Events)
        /\ Len(s) = IF k - h + 1 <= Len(f) THEN Len(f) - (k - h + 1) + 1 ELSE 0
        /\ \A i \in 1..(Len(f) - (k - h + 1) + 1) : s[i] = f[(k - h + 1) + i - 1]
    BY <2>1, <2>2, SubSeqProperties
  <2>4. Len(f) - (k - h + 1) + 1 = Len(q) - k
    BY <1>1, <1>2
  <2>5. \A i \in 1..(Len(q) - k) : (k - h + 1) + i - 1 = k - h + i
    BY <1>1
  <2>. HIDE DEF s
  <2>6. Len(s) = Len(q) - k
    BY <1>1, <1>2, <2>3, <2>4
  <2>. QED
    BY <2>3, <2>4, <2>5, <2>6
<1>. HIDE DEF s
<1>5. \A i \in 1..Len(g) : g[i] = s[i]
  <2>1. SUFFICES ASSUME NEW i \in 1..Len(g) PROVE g[i] = s[i]
    OBVIOUS
  <2>2. i \in 1..(Len(q) - k) /\ k - h + i \in 1..(Len(q) - h) /\ h + (k - h + i) = k + i
    BY <1>1, <1>3
  <2>3. g[i] = q[k + i].event /\ s[i] = f[k - h + i]
    BY <1>3, <1>4, <2>2
  <2>4. f[k - h + i] = q[h + (k - h + i)].event
    BY <1>2, <2>2
  <2>. QED
    BY <2>2, <2>3, <2>4
<1>6. g = s
  BY <1>3, <1>4, <1>5, SeqEqual
<1>. QED
  BY <1>6 DEF g, s, f

LEMMA EventsAppend ==
    ASSUME NEW q \in Seq(Items), NEW h \in 0..Len(q), NEW x \in Items
    PROVE  /\ Append(q, x) \in Seq(Items) /\ h \in 0..Len(Append(q, x))
           /\ EventsFrom(Append(q, x), h) = Append(EventsFrom(q, h), x.event)
<1>. DEFINE a == Append(q, x)
            f == EventsFrom(q, h)
            g == EventsFrom(a, h)
<1>1. /\ a \in Seq(Items) /\ Len(a) = Len(q) + 1
      /\ \A i \in 1..Len(q) : a[i] = q[i]
      /\ a[Len(q) + 1] = x
  BY AppendProperties
<1>2. Len(q) \in Nat /\ h \in Nat /\ x.event \in Events
  BY DEF Items
<1>. HIDE DEF a
<1>3. h \in 0..Len(a)
  BY <1>1, <1>2
<1>4. /\ f \in Seq(Events) /\ Len(f) = Len(q) - h
      /\ \A i \in 1..(Len(q) - h) : f[i] = q[h + i].event
  BY EventsFromIs
<1>5. /\ g \in Seq(Events) /\ Len(g) = Len(a) - h
      /\ \A i \in 1..(Len(a) - h) : g[i] = a[h + i].event
  BY <1>1, <1>3, EventsFromIs
<1>. HIDE DEF f, g
<1>6. /\ Append(f, x.event) \in Seq(Events) /\ Len(Append(f, x.event)) = Len(f) + 1
      /\ \A i \in 1..Len(f) : Append(f, x.event)[i] = f[i]
      /\ Append(f, x.event)[Len(f) + 1] = x.event
  BY <1>2, <1>4, AppendProperties
<1>7. Len(g) = Len(Append(f, x.event))
  BY <1>1, <1>2, <1>4, <1>5, <1>6
<1>8. ASSUME NEW i \in 1..Len(g)
      PROVE  g[i] = Append(f, x.event)[i]
  <2>1. g[i] = a[h + i].event
    BY <1>5
  <2>2. CASE i <= Len(f)
    <3>1. i \in 1..Len(f) /\ i \in 1..(Len(q) - h) /\ h + i \in 1..Len(q)
      BY <1>2, <1>4, <1>5, <2>2
    <3>. QED
      BY <1>1, <1>4, <1>6, <2>1, <3>1
  <2>3. CASE ~ (i <= Len(f))
    <3>1. i = Len(f) + 1 /\ h + i = Len(q) + 1
      BY <1>1, <1>2, <1>4, <1>5, <2>3
    <3>. QED
      BY <1>1, <1>6, <2>1, <3>1
  <2>. QED
    BY <2>2, <2>3
<1>9. g = Append(f, x.event)
  BY <1>5, <1>6, <1>7, <1>8, SeqEqual
<1>. QED
  BY <1>1, <1>3, <1>9 DEF g, f, a

LEMMA FifoType ==
    ASSUME items \in Seq(Items), head \in 0..Len(items)
    PROVE  /\ Fifo \in Seq(Events) /\ Len(Fifo) = Len(items) - head
           /\ \A i \in 1..Len(Fifo) : Fifo[i] = items[head + i].event
           /\ InQueue = Members(Fifo)
<1>1. /\ Fifo \in Seq(Events) /\ Len(Fifo) = Len(items) - head
      /\ \A i \in 1..(Len(items) - head) : Fifo[i] = items[head + i].event
  BY EventsFromIs DEF Fifo
<1>2. ASSUME NEW x \in InQueue PROVE x \in Members(Fifo)
  <2>1. PICK i \in (head + 1)..Len(items) : x = items[i].event
    BY DEF InQueue
  <2>2. i - head \in 1..Len(Fifo) /\ head + (i - head) = i
    BY <1>1
  <2>3. Fifo[i - head] = x
    BY <1>1, <2>1, <2>2
  <2>. QED
    BY <2>2, <2>3 DEF Members
<1>3. ASSUME NEW x \in Members(Fifo) PROVE x \in InQueue
  <2>1. PICK i \in 1..Len(Fifo) : x = Fifo[i]
    BY DEF Members
  <2>2. head + i \in (head + 1)..Len(items) /\ x = items[head + i].event
    BY <1>1, <2>1
  <2>. QED
    BY <2>2 DEF InQueue
<1>. QED
  BY <1>1, <1>2, <1>3

(* The first k events of a queue.                                          *)
First(q, k) == {q[i] : i \in 1..k}

LEMMA ExpiredFirst ==
    ASSUME items \in Seq(Items), head \in 0..Len(items), NEW t
    PROVE  LET k == PruneHead(items, head, t)
           IN  /\ k \in head..Len(items) /\ k - head \in 0..Len(Fifo)
               /\ Expired(t) = First(Fifo, k - head)
               /\ EventsFrom(items, k) = SubSeq(Fifo, k - head + 1, Len(Fifo))
<1>. DEFINE k == PruneHead(items, head, t)
<1>1. k \in head..Len(items)
  BY PruneRange
<1>. HIDE DEF k
<1>2. /\ Fifo \in Seq(Events) /\ Len(Fifo) = Len(items) - head
      /\ \A i \in 1..Len(Fifo) : Fifo[i] = items[head + i].event
  BY FifoType
<1>3. Expired(t) = {items[i].event : i \in (head + 1)..k}
  BY DEF Expired, k
<1>4. ASSUME NEW x \in Expired(t) PROVE x \in First(Fifo, k - head)
  <2>1. PICK i \in (head + 1)..k : x = items[i].event
    BY <1>3
  <2>2. i - head \in 1..(k - head) /\ head + (i - head) = i /\ i - head \in 1..Len(Fifo)
    BY <1>1, <1>2
  <2>3. Fifo[i - head] = x
    BY <1>2, <2>1, <2>2
  <2>. QED
    BY <2>2, <2>3 DEF First
<1>5. ASSUME NEW x \in First(Fifo, k - head) PROVE x \in Expired(t)
  <2>1. PICK i \in 1..(k - head) : x = Fifo[i]
    BY DEF First
  <2>2. head + i \in (head + 1)..k /\ i \in 1..Len(Fifo)
    BY <1>1, <1>2, <2>1
  <2>3. x = items[head + i].event
    BY <1>2, <2>1, <2>2
  <2>. QED
    BY <1>3, <2>2, <2>3
<1>6. EventsFrom(items, k) = SubSeq(Fifo, k - head + 1, Len(Fifo))
  BY <1>1, EventsAfter DEF Fifo
<1>7. k - head \in 0..Len(Fifo)
  BY <1>1, <1>2
<1>. QED
  BY <1>1, <1>4, <1>5, <1>6, <1>7 DEF k

(* The tail of a queue without its first k events.                         *)
Rest(q, k) == SubSeq(q, k + 1, Len(q))

LEMMA EnqueueEffect ==
    ASSUME items \in Seq(Items), head \in 0..Len(items), NEW e \in Events, stamp[e] \in Nat,
           Enqueue(e)
    PROVE  /\ items' \in Seq(Items) /\ head' \in 0..Len(items')
           /\ \E k \in 0..Len(Fifo) : /\ Expired(stamp[e]) = First(Fifo, k)
                                      /\ Fifo' = Append(Rest(Fifo, k), e)
<1>. DEFINE t == stamp[e]
            k == PruneHead(items, head, t)
            q == IF head = Len(items) THEN <<>> ELSE items
            h == IF head = Len(items) THEN 0 ELSE k
            x == [event |-> e, at |-> t]
            r == CompactItems(Append(q, x), h)
<1>1. items' = r.items /\ head' = r.head
  BY DEF Enqueue, SetQueue
<1>2. /\ k \in head..Len(items) /\ k - head \in 0..Len(Fifo)
      /\ Expired(t) = First(Fifo, k - head)
      /\ EventsFrom(items, k) = SubSeq(Fifo, k - head + 1, Len(Fifo))
  BY ExpiredFirst
<1>. HIDE DEF k
<1>3. q \in Seq(Items) /\ h \in 0..Len(q) /\ EventsFrom(q, h) = EventsFrom(items, k)
  <2>1. CASE head = Len(items)
    <3>1. q = <<>> /\ h = 0 /\ k = Len(items) /\ <<>> \in Seq(Items) /\ Len(<<>>) = 0
      BY <1>2, <2>1
    <3>2. 0 \in 0..Len(<<>>) /\ k \in 0..Len(items)
      BY <1>2, <3>1
    <3>3. EventsFrom(<<>>, 0) \in Seq(Events) /\ Len(EventsFrom(<<>>, 0)) = 0 - 0
      BY <3>1, <3>2, EventsFromIs
    <3>4. EventsFrom(items, k) \in Seq(Events) /\ Len(EventsFrom(items, k)) = Len(items) - k
      BY <3>2, EventsFromIs
    <3>5. Len(EventsFrom(<<>>, 0)) = 0 /\ Len(EventsFrom(items, k)) = 0
      BY <3>1, <3>3, <3>4
    <3>6. EventsFrom(<<>>, 0) = EventsFrom(items, k)
      BY <3>3, <3>4, <3>5, EmptySeq
    <3>. QED
      BY <3>1, <3>2, <3>6
  <2>2. CASE head # Len(items)
    <3>1. q = items /\ h = k
      BY <2>2
    <3>2. k \in 0..Len(items)
      BY <1>2
    <3>. QED
      BY <3>1, <3>2
  <2>. QED
    BY <2>1, <2>2
<1>4. x \in Items /\ x.event = e
  BY DEF Items
<1>. HIDE DEF q, h, x
<1>5. /\ Append(q, x) \in Seq(Items) /\ h \in 0..Len(Append(q, x))
      /\ EventsFrom(Append(q, x), h) = Append(EventsFrom(q, h), e)
  BY <1>3, <1>4, EventsAppend
<1>6. /\ r.items \in Seq(Items) /\ r.head \in 0..Len(r.items)
      /\ EventsFrom(r.items, r.head) = EventsFrom(Append(q, x), h)
  BY <1>5, CompactKeeps
<1>7. Fifo' = Append(Rest(Fifo, k - head), e)
  BY <1>1, <1>2, <1>3, <1>5, <1>6 DEF Fifo, Rest
<1>. QED
  BY <1>1, <1>2, <1>6, <1>7

LEMMA PopEffect ==
    ASSUME items \in Seq(Items), head \in 0..Len(items), NEW t, PopOldest(t)
    PROVE  /\ items' \in Seq(Items) /\ head' \in 0..Len(items')
           /\ Popped(t) \in Seq(Events) /\ out' = Popped(t)
           /\ \E k \in 0..Len(Fifo) : \E n \in 0..(Len(Fifo) - k) :
                 /\ Expired(t) = First(Fifo, k)
                 /\ Popped(t) = SubSeq(Fifo, k + 1, k + n)
                 /\ Fifo' = Rest(Fifo, k + n)
<1>. DEFINE p == PruneHead(items, head, t)
            k == p - head
            g == EventsFrom(items, p)
            n == IF Len(items) - p < Batch THEN Len(items) - p ELSE Batch
            r == CompactItems(items, p + n)
<1>1. /\ p \in head..Len(items) /\ k \in 0..Len(Fifo)
      /\ Expired(t) = First(Fifo, k)
      /\ g = SubSeq(Fifo, k + 1, Len(Fifo))
  BY ExpiredFirst
<1>2. Fifo \in Seq(Events) /\ Len(Fifo) = Len(items) - head
  BY FifoType
<1>3. Popped(t) = SubSeq(g, 1, n)
  BY DEF Popped
<1>. HIDE DEF p
<1>4. n \in 0..(Len(items) - p)
  BY <1>1, UsageQueueAssumption
<1>. HIDE DEF n
<1>5. p \in 0..Len(items) /\ p + n \in 0..Len(items) /\ p + n \in head..Len(items)
      /\ k \in Nat /\ n \in Nat /\ Len(Fifo) - k = Len(items) - p
  BY <1>1, <1>2, <1>4
<1>6. g \in Seq(Events) /\ Len(g) = Len(items) - p
  BY <1>5, EventsFromIs
<1>7. /\ Popped(t) \in Seq(Events) /\ Len(Popped(t)) = n
      /\ \A i \in 1..n : Popped(t)[i] = g[i]
  <2>. HIDE DEF g
  <2>1. \A i \in 1..n : g[i] \in Events
    BY <1>4, <1>5, <1>6
  <2>2. /\ SubSeq(g, 1, n) \in Seq(Events)
        /\ Len(SubSeq(g, 1, n)) = IF 1 <= n THEN n - 1 + 1 ELSE 0
        /\ \A i \in 1..(n - 1 + 1) : SubSeq(g, 1, n)[i] = g[1 + i - 1]
    BY <1>5, <2>1, SubSeqProperties
  <2>3. n - 1 + 1 = n /\ (~ (1 <= n) => n = 0) /\ \A i \in 1..n : 1 + i - 1 = i
    BY <1>5
  <2>. QED
    BY <1>3, <2>2, <2>3
<1>8. /\ SubSeq(Fifo, k + 1, k + n) \in Seq(Events) /\ Len(SubSeq(Fifo, k + 1, k + n)) = n
      /\ \A i \in 1..n : SubSeq(Fifo, k + 1, k + n)[i] = Fifo[k + i]
  <2>. HIDE DEF k
  <2>1. \A i \in (k + 1)..(k + n) : i \in 1..Len(Fifo)
    BY <1>1, <1>4, <1>5
  <2>2. \A i \in (k + 1)..(k + n) : Fifo[i] \in Events
    BY <1>2, <2>1
  <2>3. /\ SubSeq(Fifo, k + 1, k + n) \in Seq(Events)
        /\ Len(SubSeq(Fifo, k + 1, k + n)) = IF k + 1 <= k + n THEN (k + n) - (k + 1) + 1 ELSE 0
        /\ \A i \in 1..((k + n) - (k + 1) + 1) : SubSeq(Fifo, k + 1, k + n)[i] = Fifo[(k + 1) + i - 1]
    BY <1>5, <2>2, SubSeqProperties
  <2>4. (k + n) - (k + 1) + 1 = n /\ (~ (k + 1 <= k + n) => n = 0)
        /\ \A i \in 1..n : (k + 1) + i - 1 = k + i
    BY <1>5
  <2>. QED
    BY <2>3, <2>4
<1>9. \A i \in 1..n : g[i] = Fifo[k + i]
  <2>. HIDE DEF k
  <2>1. \A i \in (k + 1)..Len(Fifo) : Fifo[i] \in Events
    <3>1. \A i \in (k + 1)..Len(Fifo) : i \in 1..Len(Fifo)
      BY <1>5
    <3>. QED
      BY <1>2, <3>1
  <2>2. \A i \in 1..(Len(Fifo) - (k + 1) + 1) : g[i] = Fifo[(k + 1) + i - 1]
    <3>1. k + 1 \in Nat /\ Len(Fifo) \in Nat
      BY <1>2, <1>5
    <3>2. \A i \in 1..(Len(Fifo) - (k + 1) + 1) :
             SubSeq(Fifo, k + 1, Len(Fifo))[i] = Fifo[(k + 1) + i - 1]
      BY <2>1, <3>1, SubSeqProperties
    <3>. QED
      BY <1>1, <3>2
  <2>3. \A i \in 1..n : i \in 1..(Len(Fifo) - (k + 1) + 1) /\ (k + 1) + i - 1 = k + i
    BY <1>1, <1>4, <1>5, <1>2
  <2>. QED
    BY <2>2, <2>3
<1>10. Popped(t) = SubSeq(Fifo, k + 1, k + n)
  <2>1. \A i \in 1..Len(Popped(t)) : Popped(t)[i] = SubSeq(Fifo, k + 1, k + n)[i]
    BY <1>7, <1>8, <1>9
  <2>. QED
    BY <1>7, <1>8, <2>1, SeqEqual
<1>11. items' = r.items /\ head' = r.head /\ out' = Popped(t)
  <2>1. SetQueue(CompactItems(items, p + Len(Popped(t)))) /\ out' = Popped(t)
    BY DEF PopOldest, p
  <2>. QED
    BY <1>7, <2>1 DEF SetQueue
<1>12. /\ r.items \in Seq(Items) /\ r.head \in 0..Len(r.items)
       /\ EventsFrom(r.items, r.head) = EventsFrom(items, p + n)
  BY <1>5, CompactKeeps
<1>13. Fifo' = Rest(Fifo, k + n)
  <2>1. EventsFrom(items, p + n) = SubSeq(Fifo, (p + n) - head + 1, Len(Fifo))
    BY <1>5, EventsAfter DEF Fifo
  <2>2. (p + n) - head + 1 = (k + n) + 1
    BY <1>1, <1>5
  <2>. QED
    BY <1>11, <1>12, <2>1, <2>2 DEF Fifo, Rest
<1>14. n \in 0..(Len(Fifo) - k)
  BY <1>4, <1>5
<1>. QED
  BY <1>1, <1>7, <1>10, <1>11, <1>12, <1>13, <1>14

(***************************************************************************)
(* Which events a sequence holds                                           *)
(***************************************************************************)
LEMMA SubIs ==
    ASSUME NEW q \in Seq(Events), NEW k \in 0..Len(q), NEW n \in 0..(Len(q) - k)
    PROVE  LET s == SubSeq(q, k + 1, k + n)
           IN  /\ s \in Seq(Events) /\ Len(s) = n
               /\ \A i \in 1..n : s[i] = q[k + i]
<1>. DEFINE s == SubSeq(q, k + 1, k + n)
<1>1. k \in Nat /\ n \in Nat /\ Len(q) \in Nat
  OBVIOUS
<1>2. \A i \in (k + 1)..(k + n) : q[i] \in Events
  OBVIOUS
<1>3. /\ s \in Seq(Events)
      /\ Len(s) = IF k + 1 <= k + n THEN (k + n) - (k + 1) + 1 ELSE 0
      /\ \A i \in 1..((k + n) - (k + 1) + 1) : s[i] = q[(k + 1) + i - 1]
  BY <1>1, <1>2, SubSeqProperties
<1>. HIDE DEF s
<1>4. (k + n) - (k + 1) + 1 = n /\ (~ (k + 1 <= k + n) => n = 0)
      /\ \A i \in 1..n : (k + 1) + i - 1 = k + i
  BY <1>1
<1>5. /\ s \in Seq(Events) /\ Len(s) = n /\ \A i \in 1..n : s[i] = q[k + i]
  BY <1>3, <1>4
<1>. QED
  BY <1>5 DEF s

LEMMA RestIs ==
    ASSUME NEW q \in Seq(Events), NEW k \in 0..Len(q)
    PROVE  /\ Rest(q, k) \in Seq(Events) /\ Len(Rest(q, k)) = Len(q) - k
           /\ \A i \in 1..(Len(q) - k) : Rest(q, k)[i] = q[k + i]
<1>. DEFINE n == Len(q) - k
<1>1. n \in 0..(Len(q) - k) /\ k + n = Len(q)
  OBVIOUS
<1>. HIDE DEF n
<1>2. LET s == SubSeq(q, k + 1, k + n)
      IN  /\ s \in Seq(Events) /\ Len(s) = n
          /\ \A i \in 1..n : s[i] = q[k + i]
  BY <1>1, SubIs
<1>3. Rest(q, k) = SubSeq(q, k + 1, k + n)
  BY <1>1 DEF Rest
<1>4. /\ Rest(q, k) \in Seq(Events) /\ Len(Rest(q, k)) = n
      /\ \A i \in 1..n : Rest(q, k)[i] = q[k + i]
  BY <1>2, <1>3
<1>. QED
  BY <1>4 DEF n

LEMMA DistinctSub ==
    ASSUME NEW q \in Seq(Events), Distinct(q), NEW k \in 0..Len(q), NEW s \in Seq(Events),
           Len(s) <= Len(q) - k, \A i \in 1..Len(s) : s[i] = q[k + i]
    PROVE  Distinct(s)
<1>. SUFFICES ASSUME NEW i \in 1..Len(s), NEW j \in 1..Len(s), s[i] = s[j]
              PROVE  i = j
  BY DEF Distinct
<1>1. k + i \in 1..Len(q) /\ k + j \in 1..Len(q)
  OBVIOUS
<1>2. q[k + i] = q[k + j]
  OBVIOUS
<1>3. k + i = k + j
  BY <1>1, <1>2 DEF Distinct
<1>. QED
  BY <1>3

LEMMA AppendDistinct ==
    ASSUME NEW q \in Seq(Events), NEW e \in Events
    PROVE  /\ Members(Append(q, e)) = Members(q) \cup {e}
           /\ Distinct(q) /\ e \notin Members(q) => Distinct(Append(q, e))
<1>. DEFINE a == Append(q, e)
<1>1. /\ a \in Seq(Events) /\ Len(a) = Len(q) + 1
      /\ \A i \in 1..Len(q) : a[i] = q[i]
      /\ a[Len(q) + 1] = e
  BY AppendProperties
<1>2. Len(q) \in Nat
  OBVIOUS
<1>. HIDE DEF a
<1>3. \A i \in 1..Len(a) : i \in 1..Len(q) \/ i = Len(q) + 1
  BY <1>1, <1>2
<1>4. Members(a) = Members(q) \cup {e}
  <2>1. \A x \in Members(a) : x \in Members(q) \cup {e}
    BY <1>1, <1>3 DEF Members
  <2>2. \A x \in Members(q) \cup {e} : x \in Members(a)
    <3>1. Len(q) + 1 \in 1..Len(a) /\ \A i \in 1..Len(q) : i \in 1..Len(a)
      BY <1>1, <1>2
    <3>2. e \in Members(a)
      BY <1>1, <3>1 DEF Members
    <3>3. ASSUME NEW x \in Members(q) PROVE x \in Members(a)
      <4>1. PICK i \in 1..Len(q) : x = q[i]
        BY DEF Members
      <4>. QED
        BY <1>1, <3>1, <4>1 DEF Members
    <3>. QED
      BY <3>2, <3>3
  <2>. QED
    BY <2>1, <2>2
<1>5. ASSUME Distinct(q), e \notin Members(q) PROVE Distinct(a)
  <2>1. \A i \in 1..Len(q) : q[i] # e
    BY <1>5 DEF Members
  <2>. QED
    BY <1>1, <1>3, <1>5, <2>1 DEF Distinct
<1>. QED
  BY <1>4, <1>5 DEF a

(* The events before position k, the next n and the others are disjoint.   *)
LEMMA CutThree ==
    ASSUME NEW q \in Seq(Events), Distinct(q), NEW k \in 0..Len(q), NEW n \in 0..(Len(q) - k)
    PROVE  LET A == First(q, k)
               B == Members(SubSeq(q, k + 1, k + n))
               C == Members(Rest(q, k + n))
           IN  /\ Members(q) = A \cup B \cup C
               /\ A \cap (B \cup C) = {} /\ B \cap C = {}
<1>. DEFINE s == SubSeq(q, k + 1, k + n)
            r == Rest(q, k + n)
<1>1. k \in Nat /\ n \in Nat /\ Len(q) \in Nat /\ k + n \in 0..Len(q)
  OBVIOUS
<1>2. s \in Seq(Events) /\ Len(s) = n /\ \A i \in 1..n : s[i] = q[k + i]
  BY SubIs
<1>3. /\ r \in Seq(Events) /\ Len(r) = Len(q) - (k + n)
      /\ \A i \in 1..(Len(q) - (k + n)) : r[i] = q[(k + n) + i]
  BY <1>1, RestIs
<1>. HIDE DEF s, r
<1>4. ASSUME NEW x
      PROVE  /\ x \in First(q, k) <=> \E i \in 1..Len(q) : x = q[i] /\ i <= k
             /\ x \in Members(s) <=> \E i \in 1..Len(q) : x = q[i] /\ k < i /\ i <= k + n
             /\ x \in Members(r) <=> \E i \in 1..Len(q) : x = q[i] /\ k + n < i
  <2>1. \A i \in 1..k : i \in 1..Len(q) /\ i <= k
    BY <1>1
  <2>2. \A i \in 1..Len(q) : i <= k => i \in 1..k
    BY <1>1
  <2>3. x \in First(q, k) <=> \E i \in 1..Len(q) : x = q[i] /\ i <= k
    BY <2>1, <2>2 DEF First
  <2>4. x \in Members(s) <=> \E i \in 1..Len(q) : x = q[i] /\ k < i /\ i <= k + n
    <3>1. ASSUME NEW i \in 1..n, x = s[i]
          PROVE  \E j \in 1..Len(q) : x = q[j] /\ k < j /\ j <= k + n
      <4>1. k + i \in 1..Len(q) /\ k < k + i /\ k + i <= k + n
        BY <1>1
      <4>. QED
        BY <1>2, <3>1, <4>1
    <3>2. ASSUME NEW j \in 1..Len(q), x = q[j], k < j, j <= k + n
          PROVE  \E i \in 1..n : x = s[i]
      <4>1. j - k \in 1..n /\ k + (j - k) = j
        BY <1>1, <3>2
      <4>. QED
        BY <1>2, <3>2, <4>1
    <3>. QED
      BY <1>2, <3>1, <3>2 DEF Members
  <2>5. x \in Members(r) <=> \E i \in 1..Len(q) : x = q[i] /\ k + n < i
    <3>. DEFINE m == Len(q) - (k + n)
    <3>0. m \in Nat
      BY <1>1
    <3>1. ASSUME NEW i \in 1..m, x = r[i]
          PROVE  \E j \in 1..Len(q) : x = q[j] /\ k + n < j
      <4>1. (k + n) + i \in 1..Len(q) /\ k + n < (k + n) + i
        BY <1>1
      <4>. QED
        BY <1>3, <3>1, <4>1
    <3>2. ASSUME NEW j \in 1..Len(q), x = q[j], k + n < j
          PROVE  \E i \in 1..m : x = r[i]
      <4>1. j - (k + n) \in 1..m /\ (k + n) + (j - (k + n)) = j
        BY <1>1, <3>2
      <4>. QED
        BY <1>3, <3>2, <4>1
    <3>. QED
      BY <1>3, <3>1, <3>2 DEF Members
  <2>. QED
    BY <2>3, <2>4, <2>5
<1>5. \A i, j \in 1..Len(q) : q[i] = q[j] => i = j
  BY DEF Distinct
<1>6. \A i \in 1..Len(q) : i <= k \/ (k < i /\ i <= k + n) \/ k + n < i
  BY <1>1
<1>7. \A i \in 1..Len(q) : ~ (i <= k /\ k < i) /\ ~ (i <= k /\ k + n < i)
                           /\ ~ (i <= k + n /\ k + n < i)
  BY <1>1
<1>8. \A x : x \in Members(q) <=> x \in First(q, k) \cup Members(s) \cup Members(r)
  BY <1>4, <1>6 DEF Members
<1>9. \A x : ~ (x \in First(q, k) /\ x \in Members(s)) /\ ~ (x \in First(q, k) /\ x \in Members(r))
             /\ ~ (x \in Members(s) /\ x \in Members(r))
  BY <1>4, <1>5, <1>7
<1>10. /\ Members(q) = First(q, k) \cup Members(s) \cup Members(r)
       /\ First(q, k) \cap (Members(s) \cup Members(r)) = {} /\ Members(s) \cap Members(r) = {}
  BY <1>8, <1>9
<1>. QED
  BY <1>10 DEF s, r

(* Head(b) leaves the batch b.                                             *)
LEMMA TailDistinct ==
    ASSUME NEW b \in Seq(Events), b # <<>>, Distinct(b)
    PROVE  /\ Head(b) \in Events /\ Tail(b) \in Seq(Events) /\ Distinct(Tail(b))
           /\ Head(b) \in Members(b)
           /\ Members(Tail(b)) = Members(b) \ {Head(b)}
           /\ Len(b) = 1 <=> Tail(b) = <<>>
<1>1. /\ Head(b) \in Events /\ Tail(b) \in Seq(Events) /\ Len(Tail(b)) = Len(b) - 1
      /\ \A i \in 1..Len(Tail(b)) : Tail(b)[i] = b[i + 1]
  BY HeadTailProperties
<1>2. Len(b) \in Nat /\ Len(b) >= 1 /\ Head(b) = b[1]
  <2>1. Len(b) # 0
    BY EmptySeq
  <2>. QED
    BY <2>1
<1>3. Distinct(Tail(b))
  <2>1. 1 \in 0..Len(b) /\ Len(Tail(b)) <= Len(b) - 1
    BY <1>1, <1>2
  <2>2. \A i \in 1..Len(Tail(b)) : Tail(b)[i] = b[1 + i]
    BY <1>1
  <2>. QED
    BY <1>1, <2>1, <2>2, DistinctSub
<1>4. Members(Tail(b)) = Members(b) \ {Head(b)}
  <2>1. ASSUME NEW x \in Members(Tail(b)) PROVE x \in Members(b) \ {Head(b)}
    <3>1. PICK i \in 1..Len(Tail(b)) : x = Tail(b)[i]
      BY DEF Members
    <3>2. i + 1 \in 1..Len(b) /\ x = b[i + 1] /\ i + 1 # 1 /\ 1 \in 1..Len(b)
      BY <1>1, <1>2, <3>1
    <3>. QED
      BY <1>2, <3>2 DEF Members, Distinct
  <2>2. ASSUME NEW x \in Members(b) \ {Head(b)} PROVE x \in Members(Tail(b))
    <3>1. PICK i \in 1..Len(b) : x = b[i]
      BY DEF Members
    <3>2. i # 1
      BY <1>2, <3>1
    <3>3. i - 1 \in 1..Len(Tail(b)) /\ (i - 1) + 1 = i
      BY <1>1, <1>2, <3>2
    <3>4. x = Tail(b)[i - 1]
      BY <1>1, <3>1, <3>3
    <3>. QED
      BY <3>3, <3>4 DEF Members
  <2>. QED
    BY <2>1, <2>2
<1>5. Head(b) \in Members(b)
  <2>1. 1 \in 1..Len(b)
    BY <1>2
  <2>. QED
    BY <1>2, <2>1 DEF Members
<1>6. Len(b) = 1 <=> Tail(b) = <<>>
  <2>1. Len(Tail(b)) = 0 <=> Tail(b) = <<>>
    BY <1>1, EmptySeq
  <2>. QED
    BY <1>1, <1>2, <2>1
<1>. QED
  BY <1>1, <1>3, <1>4, <1>5, <1>6
-----------------------------------------------------------------------------
(***************************************************************************)
(* The invariant: the initial state                                        *)
(***************************************************************************)
LEMMA InitInv == Init => UsageInv
<1>. SUFFICES ASSUME Init PROVE UsageInv
  OBVIOUS
<1>. USE DEF Init
<1>1. UsageTypeOK
  <2>1. items \in Seq(Items) /\ head \in 0..Len(items)
    OBVIOUS
  <2>2. batch \in Seq(Events) /\ out \in Seq(Events)
    OBVIOUS
  <2>3. channel \in [Subscribers -> Seq(Events \cup {Refresh})]
    OBVIOUS
  <2>4. fate \in [Events -> Fates]
    BY DEF Fates
  <2>. QED
    BY <2>1, <2>2, <2>3, <2>4 DEF UsageTypeOK
<1>2. SubscriberInv
  BY DEF SubscriberInv, SubscribersOpen
<1>3. ForwarderInv
  BY DEF ForwarderInv, Distinct
<1>4. PlaceInv
  <2>1. Fifo \in Seq(Events) /\ Len(Fifo) = 0
    <3>1. items \in Seq(Items) /\ head \in 0..Len(items) /\ Len(items) - head = 0
      OBVIOUS
    <3>. QED
      BY <3>1, FifoType
  <2>2. Distinct(Fifo) /\ Members(Fifo) = {}
    BY <2>1 DEF Distinct, Members
  <2>3. Members(batch) = {}
    BY DEF Members
  <2>. QED
    BY <2>2, <2>3 DEF PlaceInv, InOnePlace, One
<1>. QED
  BY <1>1, <1>2, <1>3, <1>4 DEF UsageInv

(***************************************************************************)
(* Types                                                                   *)
(***************************************************************************)
LEMMA PublishToType ==
    ASSUME UsageTypeOK, NEW x \in Events \cup {Refresh}, PublishTo(x)
    PROVE  /\ channel' \in [Subscribers -> Seq(Events \cup {Refresh})]
           /\ subscribers' \subseteq Subscribers /\ chClosed' \subseteq Subscribers
<1>1. channel \in [Subscribers -> Seq(Events \cup {Refresh})]
  BY DEF UsageTypeOK
<1>2. \A s \in Subscribers : Append(channel[s], x) \in Seq(Events \cup {Refresh})
  BY <1>1, AppendProperties
<1>3. channel' \in [Subscribers -> Seq(Events \cup {Refresh})]
  BY <1>1, <1>2 DEF PublishTo
<1>. QED
  BY <1>3 DEF PublishTo, UsageTypeOK, Room

LEMMA ProducerType ==
    ASSUME UsageTypeOK, NEW e \in Events, HandleUsage(e) \/ CheckEnabled(e) \/ Publish(e)
    PROVE  UsageTypeOK'
<1>1. CASE HandleUsage(e)
  BY <1>1 DEF UsageTypeOK, HandleUsage, queueVars, subVars, fwdVars
<1>2. CASE CheckEnabled(e)
  BY <1>2 DEF UsageTypeOK, CheckEnabled, Fates, queueVars, subVars, fwdVars
<1>3. CASE Publish(e)
  <2>1. /\ channel' \in [Subscribers -> Seq(Events \cup {Refresh})]
        /\ subscribers' \subseteq Subscribers /\ chClosed' \subseteq Subscribers
    BY <1>3, PublishToType DEF Publish, UsageTypeOK
  <2>2. fate' \in [Events -> Fates]
    BY <1>3 DEF Publish, UsageTypeOK, Fates
  <2>3. /\ producer' \in [Events -> {"new", "check", "publish", "enqueue", "done"}]
        /\ stamp' \in [Events -> Nat]
    BY <1>3 DEF Publish, UsageTypeOK
  <2>. QED
    BY <1>3, <2>1, <2>2, <2>3 DEF UsageTypeOK, Publish, queueVars, subVars, fwdVars
<1>. QED
  BY <1>1, <1>2, <1>3

LEMMA EnqueueType ==
    ASSUME UsageTypeOK, NEW e \in Events, Enqueue(e)
    PROVE  UsageTypeOK'
<1>1. items' \in Seq(Items) /\ head' \in 0..Len(items')
  BY EnqueueEffect DEF UsageTypeOK
<1>2. fate' \in [Events -> Fates]
  BY DEF Enqueue, UsageTypeOK, Fates
<1>3. /\ producer' \in [Events -> {"new", "check", "publish", "enqueue", "done"}]
      /\ stamp' \in [Events -> Nat]
  BY DEF Enqueue, UsageTypeOK
<1>4. UNCHANGED <<now, enabled, disables, clearing, subVars, popper, fwdVars, out>>
  BY DEF Enqueue
<1>. QED
  BY <1>1, <1>2, <1>3, <1>4 DEF UsageTypeOK, subVars, fwdVars

LEMMA SubscriberType ==
    ASSUME UsageTypeOK, NEW s \in Subscribers,
           SubscribeUsage(s) \/ Consume(s) \/ Unsubscribe(s) \/ CloseChannel(s)
    PROVE  UsageTypeOK'
<1>1. CASE SubscribeUsage(s)
  <2>1. channel' \in [Subscribers -> Seq(Events \cup {Refresh})]
    BY <1>1 DEF SubscribeUsage, UsageTypeOK
  <2>. QED
    BY <1>1, <2>1 DEF UsageTypeOK, SubscribeUsage, queueVars, fwdVars
<1>2. CASE Consume(s)
  <2>1. channel \in [Subscribers -> Seq(Events \cup {Refresh})] /\ channel[s] # <<>>
    BY <1>2 DEF Consume, UsageTypeOK
  <2>2. Tail(channel[s]) \in Seq(Events \cup {Refresh})
    BY <2>1, HeadTailProperties
  <2>3. channel' \in [Subscribers -> Seq(Events \cup {Refresh})]
    BY <1>2, <2>1, <2>2 DEF Consume
  <2>. QED
    BY <1>2, <2>3 DEF UsageTypeOK, Consume, queueVars, fwdVars
<1>3. CASE Unsubscribe(s)
  BY <1>3 DEF UsageTypeOK, Unsubscribe, queueVars, fwdVars
<1>4. CASE CloseChannel(s)
  BY <1>4 DEF UsageTypeOK, CloseChannel, queueVars, fwdVars
<1>. QED
  BY <1>1, <1>2, <1>3, <1>4

LEMMA ControlType ==
    ASSUME UsageTypeOK, Tick \/ NotifyUsageRefresh \/ Disable \/ Clear \/ Enable
    PROVE  UsageTypeOK'
<1>1. CASE Tick
  <2>1. now' \in Nat
    BY <1>1 DEF Tick, UsageTypeOK
  <2>2. UNCHANGED <<enabled, disables, clearing, queueVars, subVars, producer, stamp,
                    popper, fwdVars, out, fate>>
    BY <1>1 DEF Tick
  <2>. QED
    BY <2>1, <2>2 DEF UsageTypeOK, queueVars, subVars, fwdVars
<1>2. CASE NotifyUsageRefresh
  <2>1. /\ channel' \in [Subscribers -> Seq(Events \cup {Refresh})]
        /\ subscribers' \subseteq Subscribers /\ chClosed' \subseteq Subscribers
    BY <1>2, PublishToType DEF NotifyUsageRefresh
  <2>. QED
    BY <1>2, <2>1 DEF UsageTypeOK, NotifyUsageRefresh, queueVars, fwdVars
<1>3. CASE Disable
  <2>0. disables' \in Nat
    BY <1>3 DEF Disable, UsageTypeOK
  <2>1. enabled' \in BOOLEAN /\ clearing' \in BOOLEAN
    BY <1>3 DEF Disable
  <2>2. UNCHANGED <<now, queueVars, subVars, producer, stamp, popper, fwdVars, out, fate>>
    BY <1>3 DEF Disable
  <2>. QED
    BY <2>0, <2>1, <2>2 DEF UsageTypeOK, queueVars, subVars, fwdVars
<1>4. CASE Clear
  <2>1. items' \in Seq(Items) /\ head' \in 0..Len(items')
    BY <1>4 DEF Clear
  <2>2. fate' \in [Events -> Fates]
    BY <1>4 DEF Clear, UsageTypeOK, Fates
  <2>3. subscribers' \subseteq Subscribers /\ toClose' \subseteq Subscribers
    BY <1>4 DEF Clear, UsageTypeOK
  <2>. QED
    BY <1>4, <2>1, <2>2, <2>3 DEF UsageTypeOK, Clear, fwdVars
<1>5. CASE Enable
  BY <1>5 DEF UsageTypeOK, Enable, queueVars, subVars, fwdVars
<1>. QED
  BY <1>1, <1>2, <1>3, <1>4, <1>5

LEMMA PopperType ==
    ASSUME UsageTypeOK, NEW p \in Poppers, PopCheck(p) \/ Pop(p)
    PROVE  UsageTypeOK'
<1>1. CASE PopCheck(p)
  BY <1>1 DEF UsageTypeOK, PopCheck, queueVars, subVars, fwdVars
<1>2. CASE Pop(p)
  <2>. DEFINE t == popper[p].at
  <2>1. PopOldest(t)
    BY <1>2 DEF Pop
  <2>. HIDE DEF t
  <2>2. items' \in Seq(Items) /\ head' \in 0..Len(items') /\ out' \in Seq(Events)
    BY <2>1, PopEffect DEF UsageTypeOK
  <2>3. fate' \in [Events -> Fates]
    BY <1>2 DEF Pop, UsageTypeOK, Fates
  <2>4. popper' \in [Poppers -> [pc : {"idle", "pop"}, at : Nat]]
    BY <1>2 DEF Pop, UsageTypeOK
  <2>5. UNCHANGED <<now, enabled, disables, clearing, subVars, producer, stamp, fwdVars>>
    BY <1>2 DEF Pop
  <2>. QED
    BY <2>2, <2>3, <2>4, <2>5 DEF UsageTypeOK, subVars, fwdVars
<1>. QED
  BY <1>1, <1>2

LEMMA ForwarderType ==
    ASSUME UsageTypeOK, ForwarderInv,
           FwdCheck \/ FwdPop \/ FwdPush \/ FwdFails \/ FwdRequeue \/ FwdNext
    PROVE  UsageTypeOK'
<1>1. CASE FwdCheck
  BY <1>1 DEF UsageTypeOK, FwdCheck, queueVars, subVars
<1>2. CASE FwdPop
  <2>1. PopOldest(fwd.at) /\ batch' = Popped(fwd.at)
    BY <1>2 DEF FwdPop
  <2>2. /\ items' \in Seq(Items) /\ head' \in 0..Len(items') /\ out' \in Seq(Events)
        /\ batch' \in Seq(Events)
    <3>1. items \in Seq(Items) /\ head \in 0..Len(items)
      BY DEF UsageTypeOK
    <3>. QED
      BY <2>1, <3>1, PopEffect
  <2>3. fate' \in [Events -> Fates]
    BY <1>2 DEF FwdPop, UsageTypeOK, Fates
  <2>4. fwd' \in [pc : {"idle", "pop", "push", "requeue", "wait"}, at : Nat,
                  event : Events \cup {None}]
    BY <1>2 DEF FwdPop, UsageTypeOK
  <2>5. UNCHANGED <<now, enabled, disables, clearing, subVars, producer, stamp, popper, failures>>
    BY <1>2 DEF FwdPop
  <2>. QED
    BY <2>2, <2>3, <2>4, <2>5 DEF UsageTypeOK, subVars
<1>3. ASSUME fwd.pc \in {"push", "requeue"}
      PROVE  Head(batch) \in Events /\ Tail(batch) \in Seq(Events)
  BY <1>3, TailDistinct DEF UsageTypeOK, ForwarderInv
<1>4. CASE FwdPush
  <2>1. fate' \in [Events -> Fates]
    BY <1>3, <1>4 DEF FwdPush, UsageTypeOK, Fates
  <2>2. fwd' \in [pc : {"idle", "pop", "push", "requeue", "wait"}, at : Nat,
                  event : Events \cup {None}]
    BY <1>4 DEF FwdPush, UsageTypeOK
  <2>. QED
    BY <1>3, <1>4, <2>1, <2>2 DEF UsageTypeOK, FwdPush, queueVars, subVars
<1>5. CASE FwdFails
  <2>1. failures' \in Nat
    BY <1>5 DEF FwdFails, UsageTypeOK
  <2>2. fwd' \in [pc : {"idle", "pop", "push", "requeue", "wait"}, at : Nat,
                  event : Events \cup {None}]
    BY <1>5 DEF FwdFails, UsageTypeOK
  <2>3. UNCHANGED <<now, enabled, disables, clearing, queueVars, subVars, producer, stamp,
                    popper, batch, out, fate>>
    BY <1>5 DEF FwdFails
  <2>. QED
    BY <2>1, <2>2, <2>3 DEF UsageTypeOK, queueVars, subVars
<1>6. CASE FwdRequeue
  <2>1. fwd' \in [pc : {"idle", "pop", "push", "requeue", "wait"}, at : Nat,
                  event : Events \cup {None}]
    BY <1>3, <1>6 DEF FwdRequeue, UsageTypeOK
  <2>2. producer' \in [Events -> {"new", "check", "publish", "enqueue", "done"}]
    BY <1>3, <1>6 DEF FwdRequeue, UsageTypeOK
  <2>. QED
    BY <1>3, <1>6, <2>1, <2>2 DEF UsageTypeOK, FwdRequeue, queueVars, subVars
<1>7. CASE FwdNext
  <2>1. fwd' \in [pc : {"idle", "pop", "push", "requeue", "wait"}, at : Nat,
                  event : Events \cup {None}]
    BY <1>7 DEF FwdNext, UsageTypeOK
  <2>. QED
    BY <1>7, <2>1 DEF UsageTypeOK, FwdNext, queueVars, subVars
<1>. QED
  BY <1>1, <1>2, <1>4, <1>5, <1>6, <1>7

LEMMA UsageTypeStep ==
    ASSUME UsageTypeOK, ForwarderInv, [Next]_vars
    PROVE  UsageTypeOK'
<1>1. CASE Next
  BY <1>1, ProducerType, EnqueueType, SubscriberType, ControlType, PopperType, ForwarderType
  DEF Next
<1>2. CASE UNCHANGED vars
  BY <1>2 DEF UsageTypeOK, vars, queueVars, subVars, fwdVars
<1>. QED
  BY <1>1, <1>2

(***************************************************************************)
(* Channels                                                                *)
(***************************************************************************)
LEMMA PublishToChannels ==
    ASSUME UsageTypeOK, SubscriberInv, NEW x, PublishTo(x), UNCHANGED <<subState, toClose>>
    PROVE  SubscriberInv'
<1>1. /\ subscribers' \subseteq subscribers
      /\ chClosed' = chClosed \cup (subscribers \ subscribers')
  BY DEF PublishTo, Room
<1>. QED
  BY <1>1 DEF SubscriberInv, SubscribersOpen

LEMMA ChannelStep ==
    ASSUME UsageTypeOK, SubscriberInv, [Next]_vars
    PROVE  SubscriberInv'
<1>1. ASSUME UNCHANGED <<subscribers, subState, chClosed, toClose>>
      PROVE  SubscriberInv'
  BY <1>1 DEF SubscriberInv, SubscribersOpen
<1>2. ASSUME NEW e \in Events, Publish(e) PROVE SubscriberInv'
  <2>1. UNCHANGED <<subState, toClose>>
    BY <1>2 DEF Publish
  <2>2. CASE PublishTo(e)
    BY <2>1, <2>2, PublishToChannels
  <2>3. CASE UNCHANGED <<subscribers, chClosed>>
    BY <1>1, <2>1, <2>3
  <2>. QED
    BY <1>2, <2>2, <2>3 DEF Publish
<1>3. CASE NotifyUsageRefresh
  BY <1>3, PublishToChannels DEF NotifyUsageRefresh
<1>4. ASSUME NEW s \in Subscribers, SubscribeUsage(s) PROVE SubscriberInv'
  BY <1>4 DEF SubscribeUsage, SubscriberInv, SubscribersOpen, UsageTypeOK
<1>5. ASSUME NEW s \in Subscribers, Unsubscribe(s) PROVE SubscriberInv'
  BY <1>5 DEF Unsubscribe, SubscriberInv, SubscribersOpen, UsageTypeOK
<1>6. ASSUME NEW s \in Subscribers, CloseChannel(s) PROVE SubscriberInv'
  BY <1>6 DEF CloseChannel, SubscriberInv, SubscribersOpen, UsageTypeOK
<1>7. CASE Clear
  BY <1>7 DEF Clear, SubscriberInv, SubscribersOpen
<1>8. ASSUME NEW e \in Events, HandleUsage(e) \/ CheckEnabled(e) \/ Enqueue(e)
      PROVE  SubscriberInv'
  BY <1>1, <1>8 DEF HandleUsage, CheckEnabled, Enqueue, subVars
<1>9. ASSUME NEW s \in Subscribers, Consume(s) PROVE SubscriberInv'
  BY <1>1, <1>9 DEF Consume
<1>10. CASE Tick \/ Disable \/ Enable
  BY <1>1, <1>10 DEF Tick, Disable, Enable, subVars
<1>11. ASSUME NEW p \in Poppers, PopCheck(p) \/ Pop(p) PROVE SubscriberInv'
  BY <1>1, <1>11 DEF PopCheck, Pop, subVars
<1>12. CASE FwdCheck \/ FwdPop \/ FwdPush \/ FwdFails \/ FwdRequeue \/ FwdNext
  BY <1>1, <1>12 DEF FwdCheck, FwdPop, FwdPush, FwdFails, FwdRequeue, FwdNext, subVars
<1>13. CASE UNCHANGED vars
  BY <1>1, <1>13 DEF vars, subVars
<1>. QED
  BY <1>2, <1>3, <1>4, <1>5, <1>6, <1>7, <1>8, <1>9, <1>10, <1>11, <1>12, <1>13 DEF Next

(***************************************************************************)
(* The forwarder                                                           *)
(***************************************************************************)
LEMMA PoppedDistinct ==
    ASSUME UsageTypeOK, Distinct(Fifo), NEW t, PopOldest(t)
    PROVE  Popped(t) \in Seq(Events) /\ Distinct(Popped(t))
<1>1. items \in Seq(Items) /\ head \in 0..Len(items)
  BY DEF UsageTypeOK
<1>2. Fifo \in Seq(Events)
  BY <1>1, FifoType
<1>3. PICK k \in 0..Len(Fifo) :
         \E n \in 0..(Len(Fifo) - k) : Popped(t) = SubSeq(Fifo, k + 1, k + n)
  BY <1>1, PopEffect
<1>4. PICK n \in 0..(Len(Fifo) - k) : Popped(t) = SubSeq(Fifo, k + 1, k + n)
  BY <1>3
<1>5. LET s == SubSeq(Fifo, k + 1, k + n)
      IN  s \in Seq(Events) /\ Len(s) = n /\ \A i \in 1..n : s[i] = Fifo[k + i]
  BY <1>2, SubIs
<1>6. n <= Len(Fifo) - k
  BY <1>2
<1>. QED
  BY <1>2, <1>4, <1>5, <1>6, DistinctSub

LEMMA ForwarderStep ==
    ASSUME UsageTypeOK, ForwarderInv, PlaceInv, [Next]_vars
    PROVE  ForwarderInv'
<1>. DEFINE FwdType == [pc : {"idle", "pop", "push", "requeue", "wait"}, at : Nat,
                        event : Events \cup {None}]
<1>0. fwd \in FwdType /\ batch \in Seq(Events)
  BY DEF UsageTypeOK
<1>1. ASSUME UNCHANGED <<fwd, batch>> PROVE ForwarderInv'
  BY <1>1 DEF ForwarderInv, Distinct
<1>2. ASSUME NEW f, batch' = batch, f \in {"push", "requeue", "pop"}, fwd'.pc = f,
             f = "pop" => batch = <<>>, f # "pop" => batch # <<>>
      PROVE  ForwarderInv'
  BY <1>2 DEF ForwarderInv, Distinct
<1>3. CASE FwdCheck
  <2>1. fwd'.pc = "pop" /\ batch' = batch /\ batch = <<>>
    BY <1>0, <1>3 DEF FwdCheck, ForwarderInv
  <2>. QED
    BY <1>2, <2>1
<1>4. CASE FwdPop
  <2>1. PopOldest(fwd.at) /\ batch' = Popped(fwd.at)
    BY <1>4 DEF FwdPop
  <2>2. Distinct(batch')
    BY <2>1, PoppedDistinct DEF PlaceInv
  <2>3. fwd'.pc = IF Popped(fwd.at) = <<>> THEN "idle" ELSE "push"
    BY <1>0, <1>4 DEF FwdPop
  <2>4. fwd'.pc \in {"idle", "pop"} => batch' = <<>>
    BY <2>1, <2>3
  <2>5. fwd'.pc \in {"push", "requeue"} => batch' # <<>>
    BY <2>1, <2>3
  <2>6. Distinct(batch)'
    BY <2>2 DEF Distinct
  <2>. QED
    BY <2>4, <2>5, <2>6 DEF ForwarderInv
<1>5. ASSUME fwd.pc \in {"push", "requeue"}
      PROVE  /\ Distinct(Tail(batch)) /\ (Len(batch) = 1 <=> Tail(batch) = <<>>)
  BY <1>0, <1>5, TailDistinct DEF ForwarderInv
<1>6. CASE FwdPush
  <2>1. batch' = Tail(batch) /\ fwd'.pc = IF Len(batch) = 1 THEN "idle" ELSE "push"
    BY <1>0, <1>6 DEF FwdPush
  <2>2. Distinct(Tail(batch)) /\ (Len(batch) = 1 <=> Tail(batch) = <<>>)
    BY <1>5, <1>6 DEF FwdPush
  <2>3. Distinct(batch)'
    BY <2>1, <2>2 DEF Distinct
  <2>. QED
    BY <2>1, <2>2, <2>3 DEF ForwarderInv
<1>7. CASE FwdFails
  <2>1. fwd'.pc = "requeue" /\ batch' = batch /\ batch # <<>>
    BY <1>0, <1>7 DEF FwdFails, ForwarderInv
  <2>. QED
    BY <1>2, <2>1
<1>8. CASE FwdRequeue
  <2>1. batch' = Tail(batch) /\ fwd'.pc = "wait"
    BY <1>0, <1>8 DEF FwdRequeue
  <2>2. Distinct(Tail(batch))
    BY <1>5, <1>8 DEF FwdRequeue
  <2>3. Distinct(batch)'
    BY <2>1, <2>2 DEF Distinct
  <2>. QED
    BY <2>1, <2>3 DEF ForwarderInv
<1>9. CASE FwdNext
  <2>1. batch' = batch /\ fwd'.pc = IF batch = <<>> THEN "idle" ELSE "requeue"
    BY <1>0, <1>9 DEF FwdNext
  <2>2. Distinct(batch)'
    BY <2>1 DEF ForwarderInv, Distinct
  <2>. QED
    BY <2>1, <2>2 DEF ForwarderInv
<1>10. ASSUME NEW e \in Events, HandleUsage(e) \/ CheckEnabled(e) \/ Publish(e) \/ Enqueue(e)
       PROVE  ForwarderInv'
  BY <1>1, <1>10 DEF HandleUsage, CheckEnabled, Publish, Enqueue, fwdVars
<1>11. ASSUME NEW s \in Subscribers,
              SubscribeUsage(s) \/ Consume(s) \/ Unsubscribe(s) \/ CloseChannel(s)
       PROVE  ForwarderInv'
  BY <1>1, <1>11 DEF SubscribeUsage, Consume, Unsubscribe, CloseChannel, fwdVars
<1>12. CASE Tick \/ NotifyUsageRefresh \/ Disable \/ Clear \/ Enable
  BY <1>1, <1>12 DEF Tick, NotifyUsageRefresh, Disable, Clear, Enable, fwdVars
<1>13. ASSUME NEW p \in Poppers, PopCheck(p) \/ Pop(p) PROVE ForwarderInv'
  BY <1>1, <1>13 DEF PopCheck, Pop, fwdVars
<1>14. CASE UNCHANGED vars
  BY <1>1, <1>14 DEF vars, fwdVars
<1>. QED
  BY <1>3, <1>4, <1>6, <1>7, <1>8, <1>9, <1>10, <1>11, <1>12, <1>13, <1>14 DEF Next

(***************************************************************************)
(* Where the events are                                                    *)
(***************************************************************************)
LEMMA NothingMoves ==
    ASSUME PlaceInv, UNCHANGED <<queueVars, producer, batch, fate>>
    PROVE  PlaceInv'
<1>1. Fifo' = Fifo
  BY DEF Fifo, EventsFrom, queueVars
<1>. QED
  BY <1>1 DEF PlaceInv, InOnePlace, One, Distinct, Members

(* An event goes on with its producer, or leaves it for good.              *)
LEMMA ProducerMoves ==
    ASSUME UsageTypeOK, PlaceInv, NEW e \in Events, producer[e] # "done", NEW pc, NEW f,
           producer' = [producer EXCEPT ![e] = pc],
           fate' = [fate EXCEPT ![e] = f],
           \/ pc # "done" /\ f = fate[e]
           \/ pc = "done" /\ f # "none",
           UNCHANGED <<queueVars, batch>>
    PROVE  PlaceInv'
<1>0. Fifo' = Fifo /\ batch' = batch
  BY DEF Fifo, EventsFrom, queueVars
<1>1. Members(Fifo)' = Members(Fifo) /\ Distinct(Fifo)' /\ Members(batch)' = Members(batch)
  BY <1>0 DEF PlaceInv, Distinct, Members
<1>2. ASSUME NEW x \in Events PROVE InOnePlace(x)'
  <2>1. producer \in [Events -> {"new", "check", "publish", "enqueue", "done"}]
        /\ fate \in [Events -> Fates]
    BY DEF UsageTypeOK
  <2>2. CASE x = e
    <3>1. producer'[x] = pc /\ fate'[x] = f
      BY <2>1, <2>2
    <3>2. InOnePlace(e)
      BY DEF PlaceInv
    <3>. QED
      BY <1>1, <2>2, <3>1, <3>2 DEF InOnePlace, One
  <2>3. CASE x # e
    <3>1. producer'[x] = producer[x] /\ fate'[x] = fate[x]
      BY <2>1, <2>3
    <3>2. InOnePlace(x)
      BY DEF PlaceInv
    <3>. QED
      BY <1>1, <3>1, <3>2 DEF InOnePlace, One
  <2>. QED
    BY <2>2, <2>3
<1>. QED
  BY <1>1, <1>2 DEF PlaceInv

LEMMA ProducerPlaces ==
    ASSUME UsageTypeOK, PlaceInv, NEW e \in Events, HandleUsage(e) \/ CheckEnabled(e) \/ Publish(e)
    PROVE  PlaceInv'
<1>1. producer \in [Events -> {"new", "check", "publish", "enqueue", "done"}]
      /\ fate \in [Events -> Fates]
  BY DEF UsageTypeOK
<1>2. fate = [fate EXCEPT ![e] = fate[e]]
  BY <1>1
<1>3. CASE HandleUsage(e)
  <2>1. /\ producer[e] # "done" /\ producer' = [producer EXCEPT ![e] = "check"]
        /\ fate' = [fate EXCEPT ![e] = fate[e]] /\ UNCHANGED <<queueVars, batch>>
    BY <1>2, <1>3 DEF HandleUsage, fwdVars
  <2>. QED
    BY <2>1, ProducerMoves
<1>4. CASE CheckEnabled(e)
  <2>1. producer[e] # "done" /\ UNCHANGED <<queueVars, batch>>
    BY <1>4 DEF CheckEnabled, fwdVars
  <2>2. CASE enabled
    <3>1. /\ producer' = [producer EXCEPT ![e] = "publish"]
          /\ fate' = [fate EXCEPT ![e] = fate[e]]
      BY <1>2, <1>4, <2>2 DEF CheckEnabled
    <3>. QED
      BY <2>1, <3>1, ProducerMoves
  <2>3. CASE ~ enabled
    <3>1. /\ producer' = [producer EXCEPT ![e] = "done"]
          /\ fate' = [fate EXCEPT ![e] = "refused"]
      BY <1>4, <2>3 DEF CheckEnabled
    <3>. QED
      BY <2>1, <3>1, ProducerMoves
  <2>. QED
    BY <2>2, <2>3
<1>5. CASE Publish(e)
  <2>1. producer[e] # "done" /\ UNCHANGED <<queueVars, batch>>
    BY <1>5 DEF Publish, fwdVars
  <2>2. CASE subscribers = {}
    <3>1. /\ producer' = [producer EXCEPT ![e] = "enqueue"]
          /\ fate' = [fate EXCEPT ![e] = fate[e]]
      BY <1>2, <1>5, <2>2 DEF Publish
    <3>. QED
      BY <2>1, <3>1, ProducerMoves
  <2>3. CASE subscribers # {}
    <3>. DEFINE f == IF Room # {} THEN "published" ELSE "dropped"
    <3>1. /\ producer' = [producer EXCEPT ![e] = "done"]
          /\ fate' = [fate EXCEPT ![e] = f]
      BY <1>5, <2>3 DEF Publish
    <3>2. f # "none"
      OBVIOUS
    <3>. HIDE DEF f
    <3>. QED
      BY <2>1, <3>1, <3>2, ProducerMoves
  <2>. QED
    BY <2>2, <2>3
<1>. QED
  BY <1>3, <1>4, <1>5

(* Some of the first events expire and e comes in at the end.              *)
LEMMA EnqueuePlaces ==
    ASSUME UsageTypeOK, PlaceInv, NEW e \in Events, Enqueue(e)
    PROVE  PlaceInv'
<1>1. /\ items \in Seq(Items) /\ head \in 0..Len(items) /\ stamp[e] \in Nat
      /\ producer \in [Events -> {"new", "check", "publish", "enqueue", "done"}]
      /\ fate \in [Events -> Fates]
  BY DEF UsageTypeOK
<1>2. Fifo \in Seq(Events) /\ Distinct(Fifo)
  BY <1>1, FifoType DEF PlaceInv
<1>3. PICK k \in 0..Len(Fifo) : /\ Expired(stamp[e]) = First(Fifo, k)
                                /\ Fifo' = Append(Rest(Fifo, k), e)
  BY <1>1, EnqueueEffect
<1>. DEFINE A == First(Fifo, k)
            C == Members(Rest(Fifo, k))
<1>4. Members(Fifo) = A \cup C /\ A \cap C = {}
  <2>1. 0 \in 0..(Len(Fifo) - k) /\ k + 0 = k
    BY <1>2
  <2>2. Members(SubSeq(Fifo, k + 1, k + 0)) = {}
    <3>1. Len(SubSeq(Fifo, k + 1, k + 0)) = 0
      BY <1>2, <2>1, SubIs
    <3>. QED
      BY <3>1 DEF Members
  <2>3. /\ Members(Fifo) = A \cup Members(SubSeq(Fifo, k + 1, k + 0))
                              \cup Members(Rest(Fifo, k + 0))
        /\ A \cap (Members(SubSeq(Fifo, k + 1, k + 0)) \cup Members(Rest(Fifo, k + 0))) = {}
    BY <1>2, <2>1, CutThree
  <2>4. Rest(Fifo, k + 0) = Rest(Fifo, k)
    BY <2>1
  <2>. QED
    BY <2>2, <2>3, <2>4
<1>5. Rest(Fifo, k) \in Seq(Events) /\ Distinct(Rest(Fifo, k))
  <2>1. /\ Rest(Fifo, k) \in Seq(Events) /\ Len(Rest(Fifo, k)) = Len(Fifo) - k
        /\ \A i \in 1..(Len(Fifo) - k) : Rest(Fifo, k)[i] = Fifo[k + i]
    BY <1>2, RestIs
  <2>2. Len(Rest(Fifo, k)) <= Len(Fifo) - k
    BY <1>2, <2>1
  <2>. QED
    BY <1>2, <2>1, <2>2, DistinctSub
<1>6. \A x \in Events : InOnePlace(x)
  BY DEF PlaceInv
<1>7. /\ producer[e] = "enqueue" /\ producer' = [producer EXCEPT ![e] = "done"]
      /\ fate' = [x \in Events |-> IF x \in A THEN "expired" ELSE fate[x]]
      /\ batch' = batch
  BY <1>3 DEF Enqueue, fwdVars
<1>8. e \notin Members(Fifo)
  BY <1>6, <1>7 DEF InOnePlace, One
<1>. HIDE DEF A, C
<1>9. Distinct(Append(Rest(Fifo, k), e)) /\ Members(Append(Rest(Fifo, k), e)) = C \cup {e}
  BY <1>4, <1>5, <1>8, AppendDistinct DEF C
<1>10. Distinct(Fifo)' /\ Members(Fifo)' = C \cup {e} /\ Members(batch)' = Members(batch)
  BY <1>3, <1>7, <1>9 DEF Distinct, Members
<1>11. ASSUME NEW x \in Events PROVE InOnePlace(x)'
  <2>1. producer'[x] = IF x = e THEN "done" ELSE producer[x]
    BY <1>1, <1>7
  <2>2. fate'[x] = IF x \in A THEN "expired" ELSE fate[x]
    BY <1>7
  <2>3. InOnePlace(x)
    BY <1>6
  <2>. QED
    BY <1>4, <1>7, <1>8, <1>10, <2>1, <2>2, <2>3 DEF InOnePlace, One
<1>. QED
  BY <1>10, <1>11 DEF PlaceInv

LEMMA ClearPlaces ==
    ASSUME UsageTypeOK, PlaceInv, Clear
    PROVE  PlaceInv'
<1>1. InQueue = Members(Fifo)
  BY FifoType DEF UsageTypeOK
<1>2. Fifo' \in Seq(Events) /\ Len(Fifo') = 0
  <2>1. (items \in Seq(Items))' /\ (head \in 0..Len(items))' /\ (Len(items) - head)' = 0
    BY DEF Clear
  <2>2. EventsFrom(<<>>, 0) \in Seq(Events) /\ Len(EventsFrom(<<>>, 0)) = 0
    <3>1. <<>> \in Seq(Items) /\ 0 \in 0..Len(<<>>) /\ Len(<<>>) - 0 = 0
      OBVIOUS
    <3>. QED
      BY <3>1, EventsFromIs
  <2>. QED
    BY <2>2 DEF Clear, Fifo
<1>3. Distinct(Fifo)' /\ Members(Fifo)' = {} /\ Members(batch)' = Members(batch)
  BY <1>2 DEF Distinct, Members, Clear, fwdVars
<1>4. ASSUME NEW x \in Events PROVE InOnePlace(x)'
  <2>1. producer' = producer /\ fate'[x] = IF x \in Members(Fifo) THEN "cleared" ELSE fate[x]
    BY <1>1 DEF Clear
  <2>2. InOnePlace(x)
    BY DEF PlaceInv
  <2>. QED
    BY <1>3, <2>1, <2>2 DEF InOnePlace, One
<1>. QED
  BY <1>3, <1>4 DEF PlaceInv

(* A pop cuts the queue in three: expired, popped, and what stays.         *)
LEMMA PopCuts ==
    ASSUME UsageTypeOK, PlaceInv, NEW t, PopOldest(t)
    PROVE  /\ Distinct(Fifo)'
           /\ Members(Fifo) = Expired(t) \cup Members(Popped(t)) \cup Members(Fifo)'
           /\ Expired(t) \cap (Members(Popped(t)) \cup Members(Fifo)') = {}
           /\ Members(Popped(t)) \cap Members(Fifo)' = {}
<1>1. items \in Seq(Items) /\ head \in 0..Len(items)
  BY DEF UsageTypeOK
<1>2. Fifo \in Seq(Events) /\ Distinct(Fifo)
  BY <1>1, FifoType DEF PlaceInv
<1>3. PICK k \in 0..Len(Fifo) :
         \E n \in 0..(Len(Fifo) - k) : /\ Expired(t) = First(Fifo, k)
                                       /\ Popped(t) = SubSeq(Fifo, k + 1, k + n)
                                       /\ Fifo' = Rest(Fifo, k + n)
  BY <1>1, PopEffect
<1>4. PICK n \in 0..(Len(Fifo) - k) : /\ Expired(t) = First(Fifo, k)
                                      /\ Popped(t) = SubSeq(Fifo, k + 1, k + n)
                                      /\ Fifo' = Rest(Fifo, k + n)
  BY <1>3
<1>5. k + n \in 0..Len(Fifo)
  BY <1>2
<1>6. Distinct(Rest(Fifo, k + n))
  <2>1. /\ Rest(Fifo, k + n) \in Seq(Events) /\ Len(Rest(Fifo, k + n)) = Len(Fifo) - (k + n)
        /\ \A i \in 1..(Len(Fifo) - (k + n)) : Rest(Fifo, k + n)[i] = Fifo[(k + n) + i]
    BY <1>2, <1>5, RestIs
  <2>2. Len(Rest(Fifo, k + n)) <= Len(Fifo) - (k + n)
    BY <1>2, <1>5, <2>1
  <2>. QED
    BY <1>2, <1>5, <2>1, <2>2, DistinctSub
<1>7. /\ Members(Fifo) = First(Fifo, k) \cup Members(SubSeq(Fifo, k + 1, k + n))
                           \cup Members(Rest(Fifo, k + n))
      /\ First(Fifo, k) \cap (Members(SubSeq(Fifo, k + 1, k + n))
                                \cup Members(Rest(Fifo, k + n))) = {}
      /\ Members(SubSeq(Fifo, k + 1, k + n)) \cap Members(Rest(Fifo, k + n)) = {}
  BY <1>2, CutThree
<1>8. Members(Fifo)' = Members(Rest(Fifo, k + n)) /\ Distinct(Fifo)'
  BY <1>4, <1>6 DEF Members, Distinct
<1>. QED
  BY <1>4, <1>7, <1>8

LEMMA PopPlaces ==
    ASSUME UsageTypeOK, PlaceInv, NEW p \in Poppers, Pop(p)
    PROVE  PlaceInv'
<1>. DEFINE t == popper[p].at
<1>1. /\ PopOldest(t) /\ producer' = producer /\ batch' = batch
      /\ fate' = [e \in Events |->
                     IF e \in Expired(t) THEN "expired"
                     ELSE IF \E i \in DOMAIN Popped(t) : Popped(t)[i] = e THEN "popped"
                     ELSE fate[e]]
  BY DEF Pop, fwdVars
<1>. HIDE DEF t
<1>2. /\ Distinct(Fifo)'
      /\ Members(Fifo) = Expired(t) \cup Members(Popped(t)) \cup Members(Fifo)'
      /\ Expired(t) \cap (Members(Popped(t)) \cup Members(Fifo)') = {}
      /\ Members(Popped(t)) \cap Members(Fifo)' = {}
  BY <1>1, PopCuts
<1>3. Popped(t) \in Seq(Events)
  BY <1>1, PoppedDistinct DEF PlaceInv
<1>4. \A e : (\E i \in DOMAIN Popped(t) : Popped(t)[i] = e) <=> e \in Members(Popped(t))
  <2>1. DOMAIN Popped(t) = 1..Len(Popped(t))
    BY <1>3
  <2>. QED
    BY <2>1 DEF Members
<1>5. Members(batch)' = Members(batch)
  BY <1>1 DEF Members
<1>6. ASSUME NEW x \in Events PROVE InOnePlace(x)'
  <2>1. InOnePlace(x)
    BY DEF PlaceInv
  <2>2. fate'[x] = IF x \in Expired(t) THEN "expired"
                   ELSE IF x \in Members(Popped(t)) THEN "popped" ELSE fate[x]
    BY <1>1, <1>4
  <2>. QED
    BY <1>1, <1>2, <1>5, <2>1, <2>2 DEF InOnePlace, One
<1>. QED
  BY <1>2, <1>6 DEF PlaceInv

LEMMA FwdPopPlaces ==
    ASSUME UsageTypeOK, ForwarderInv, PlaceInv, FwdPop
    PROVE  PlaceInv'
<1>. DEFINE t == fwd.at
<1>1. /\ PopOldest(t) /\ producer' = producer /\ batch' = Popped(t)
      /\ fate' = [e \in Events |-> IF e \in Expired(t) THEN "expired" ELSE fate[e]]
  BY DEF FwdPop
<1>2. batch = <<>>
  BY DEF FwdPop, ForwarderInv
<1>. HIDE DEF t
<1>3. /\ Distinct(Fifo)'
      /\ Members(Fifo) = Expired(t) \cup Members(Popped(t)) \cup Members(Fifo)'
      /\ Expired(t) \cap (Members(Popped(t)) \cup Members(Fifo)') = {}
      /\ Members(Popped(t)) \cap Members(Fifo)' = {}
  BY <1>1, PopCuts
<1>4. Members(batch)' = Members(Popped(t)) /\ Members(batch) = {}
  BY <1>1, <1>2 DEF Members
<1>5. ASSUME NEW x \in Events PROVE InOnePlace(x)'
  <2>1. InOnePlace(x)
    BY DEF PlaceInv
  <2>2. fate'[x] = IF x \in Expired(t) THEN "expired" ELSE fate[x]
    BY <1>1
  <2>. QED
    BY <1>1, <1>3, <1>4, <2>1, <2>2 DEF InOnePlace, One
<1>. QED
  BY <1>3, <1>5 DEF PlaceInv

LEMMA FwdMovePlaces ==
    ASSUME UsageTypeOK, ForwarderInv, PlaceInv, FwdPush \/ FwdRequeue
    PROVE  PlaceInv'
<1>. DEFINE e == Head(batch)
<1>1. /\ batch \in Seq(Events)
      /\ producer \in [Events -> {"new", "check", "publish", "enqueue", "done"}]
      /\ fate \in [Events -> Fates]
  BY DEF UsageTypeOK
<1>2. batch # <<>> /\ Distinct(batch)
  BY DEF ForwarderInv, FwdPush, FwdRequeue
<1>3. /\ e \in Events /\ e \in Members(batch)
      /\ Members(Tail(batch)) = Members(batch) \ {e}
  BY <1>1, <1>2, TailDistinct
<1>4. batch' = Tail(batch) /\ UNCHANGED queueVars
  BY DEF FwdPush, FwdRequeue
<1>5. FwdPush => producer' = producer /\ fate' = [fate EXCEPT ![e] = "home"]
  BY DEF FwdPush
<1>6. FwdRequeue => fate' = fate /\ producer' = [producer EXCEPT ![e] = "check"]
  BY DEF FwdRequeue
<1>. HIDE DEF e
<1>7. Fifo' = Fifo
  BY <1>4 DEF Fifo, EventsFrom, queueVars
<1>8. /\ Distinct(Fifo)' /\ Members(Fifo)' = Members(Fifo)
      /\ Members(batch)' = Members(batch) \ {e}
  BY <1>3, <1>4, <1>7 DEF PlaceInv, Distinct, Members
<1>9. ASSUME NEW x \in Events PROVE InOnePlace(x)'
  <2>1. InOnePlace(x)
    BY DEF PlaceInv
  <2>2. CASE FwdPush
    <3>1. producer' = producer /\ fate'[x] = IF x = e THEN "home" ELSE fate[x]
      BY <1>1, <1>5, <2>2
    <3>. QED
      BY <1>3, <1>8, <2>1, <3>1 DEF InOnePlace, One
  <2>3. CASE FwdRequeue
    <3>1. fate' = fate /\ producer'[x] = IF x = e THEN "check" ELSE producer[x]
      BY <1>1, <1>6, <2>3
    <3>. QED
      BY <1>3, <1>8, <2>1, <3>1 DEF InOnePlace, One
  <2>. QED
    BY <2>2, <2>3
<1>. QED
  BY <1>8, <1>9 DEF PlaceInv

LEMMA PlaceStep ==
    ASSUME UsageTypeOK, ForwarderInv, PlaceInv, [Next]_vars
    PROVE  PlaceInv'
<1>1. ASSUME NEW e \in Events, HandleUsage(e) \/ CheckEnabled(e) \/ Publish(e) \/ Enqueue(e)
      PROVE  PlaceInv'
  BY <1>1, ProducerPlaces, EnqueuePlaces
<1>2. ASSUME NEW s \in Subscribers,
             SubscribeUsage(s) \/ Consume(s) \/ Unsubscribe(s) \/ CloseChannel(s)
      PROVE  PlaceInv'
  BY <1>2, NothingMoves DEF SubscribeUsage, Consume, Unsubscribe, CloseChannel, fwdVars
<1>3. CASE Tick \/ NotifyUsageRefresh \/ Disable \/ Enable
  BY <1>3, NothingMoves DEF Tick, NotifyUsageRefresh, Disable, Enable, fwdVars
<1>4. CASE Clear
  BY <1>4, ClearPlaces
<1>5. ASSUME NEW p \in Poppers, PopCheck(p) PROVE PlaceInv'
  BY <1>5, NothingMoves DEF PopCheck, fwdVars
<1>6. ASSUME NEW p \in Poppers, Pop(p) PROVE PlaceInv'
  BY <1>6, PopPlaces
<1>7. CASE FwdPop
  BY <1>7, FwdPopPlaces
<1>8. CASE FwdPush \/ FwdRequeue
  BY <1>8, FwdMovePlaces
<1>9. CASE FwdCheck \/ FwdFails \/ FwdNext
  BY <1>9, NothingMoves DEF FwdCheck, FwdFails, FwdNext
<1>10. CASE UNCHANGED vars
  BY <1>10, NothingMoves DEF vars, fwdVars
<1>. QED
  BY <1>1, <1>2, <1>3, <1>4, <1>5, <1>6, <1>7, <1>8, <1>9, <1>10 DEF Next

-----------------------------------------------------------------------------
(***************************************************************************)
(* The results                                                             *)
(***************************************************************************)

(* The four parts are an inductive invariant of the queue, its producers,  *)
(* its subscribers and the forwarder: the forwarder's batch is cut from    *)
(* the queue, so PlaceInv needs ForwarderInv, and ForwarderInv needs the   *)
(* distinctness of PlaceInv.                                               *)
THEOREM UsageInvariance == Spec => []UsageInv
<1>1. Init => UsageInv
  BY InitInv
<1>2. UsageInv /\ [Next]_vars => UsageInv'
  BY UsageTypeStep, ChannelStep, ForwarderStep, PlaceStep DEF UsageInv
<1>. QED
  BY <1>1, <1>2, PTL DEF Spec

(* Type correctness of the queue and of everyone who uses it.              *)
THEOREM UsageTypeCorrect == Spec => []UsageTypeOK
<1>1. UsageInv => UsageTypeOK
  BY DEF UsageInv
<1>. QED
  BY <1>1, UsageInvariance, PTL

(* publishToSubscribers never sends on a closed channel and no channel is  *)
(* closed twice, although clear and unsubscribe close outside the mutex.   *)
THEOREM ChannelsOpen == Spec => []SubscribersOpen
<1>1. UsageInv => SubscribersOpen
  BY DEF UsageInv, SubscriberInv
<1>. QED
  BY <1>1, UsageInvariance, PTL

LEMMA OnePlaceState == UsageInv => EventInOnePlace
<1>. SUFFICES ASSUME UsageInv PROVE EventInOnePlace
  OBVIOUS
<1>1. items \in Seq(Items) /\ head \in 0..Len(items) /\ batch \in Seq(Events)
  BY DEF UsageInv, UsageTypeOK
<1>2. /\ Len(Fifo) = Len(items) - head
      /\ \A i \in 1..Len(Fifo) : Fifo[i] = items[head + i].event
      /\ InQueue = Members(Fifo)
  BY <1>1, FifoType
<1>3. ASSUME NEW e \in Events PROVE Cardinality(Places(e)) = 1
  <2>1. InOnePlace(e)
    BY DEF UsageInv, PlaceInv
  <2>2. e \in Members(batch) <=> \E i \in DOMAIN batch : batch[i] = e
    BY <1>1 DEF Members
  <2>3. /\ "producer" \in Places(e) <=> producer[e] # "done"
        /\ "queue" \in Places(e) <=> e \in Members(Fifo)
        /\ "forwarder" \in Places(e) <=> e \in Members(batch)
        /\ "settled" \in Places(e) <=> fate[e] # "none"
        /\ Places(e) \subseteq {"producer", "queue", "forwarder", "settled"}
    BY <1>2, <2>2 DEF Places
  <2>4. \E p : Places(e) = {p}
    <3>1. CASE producer[e] # "done"
      <4>1. Places(e) = {"producer"}
        BY <2>1, <2>3, <3>1 DEF InOnePlace, One
      <4>. QED
        BY <4>1
    <3>2. CASE e \in Members(Fifo)
      <4>1. Places(e) = {"queue"}
        BY <2>1, <2>3, <3>2 DEF InOnePlace, One
      <4>. QED
        BY <4>1
    <3>3. CASE e \in Members(batch)
      <4>1. Places(e) = {"forwarder"}
        BY <2>1, <2>3, <3>3 DEF InOnePlace, One
      <4>. QED
        BY <4>1
    <3>4. CASE fate[e] # "none"
      <4>1. Places(e) = {"settled"}
        BY <2>1, <2>3, <3>4 DEF InOnePlace, One
      <4>. QED
        BY <4>1
    <3>. QED
      BY <2>1, <3>1, <3>2, <3>3, <3>4 DEF InOnePlace, One
  <2>. QED
    BY <2>4, FS_Singleton
<1>4. ASSUME NEW i \in (head + 1)..Len(items), NEW j \in (head + 1)..Len(items),
             items[i].event = items[j].event
      PROVE  i = j
  <2>1. /\ i - head \in 1..Len(Fifo) /\ head + (i - head) = i
        /\ j - head \in 1..Len(Fifo) /\ head + (j - head) = j
    BY <1>1, <1>2
  <2>2. Fifo[i - head] = Fifo[j - head]
    BY <1>2, <1>4, <2>1
  <2>3. i - head = j - head
    BY <2>1, <2>2 DEF UsageInv, PlaceInv, Distinct
  <2>. QED
    BY <1>1, <2>3
<1>. QED
  BY <1>3, <1>4 DEF EventInOnePlace

(* A usage record is always in exactly one place: with its producer, in    *)
(* the queue, with the forwarder, or settled with a known fate; it is      *)
(* neither lost nor there twice, whatever runs in between.                 *)
THEOREM OnePlace == Spec => []EventInOnePlace
<1>. QED
  BY UsageInvariance, OnePlaceState, PTL

(***************************************************************************)
(* The abstract queue                                                      *)
(***************************************************************************)
LEMMA FifoInit == Init => F!Init
<1>. SUFFICES ASSUME Init PROVE Fifo = <<>> /\ out = <<>>
  BY DEF F!Init
<1>1. items \in Seq(Items) /\ head \in 0..Len(items) /\ Len(items) - head = 0
  BY DEF Init
<1>2. Fifo \in Seq(Events) /\ Len(Fifo) = 0
  BY <1>1, FifoType
<1>. QED
  BY <1>2, EmptySeq DEF Init

LEMMA FifoStep ==
    ASSUME UsageTypeOK, [Next]_vars
    PROVE  [F!Next]_<<Fifo, out>>
<1>1. items \in Seq(Items) /\ head \in 0..Len(items)
  BY DEF UsageTypeOK
<1>2. ASSUME UNCHANGED <<queueVars, out>> PROVE [F!Next]_<<Fifo, out>>
  BY <1>2 DEF Fifo, EventsFrom, queueVars
<1>3. ASSUME NEW e \in Events, Enqueue(e) PROVE F!Put
  <2>1. stamp[e] \in Nat
    BY DEF UsageTypeOK
  <2>2. \E k \in 0..Len(Fifo) : Fifo' = Append(Rest(Fifo, k), e)
    BY <1>1, <1>3, <2>1, EnqueueEffect
  <2>3. out' = out
    BY <1>3 DEF Enqueue
  <2>. QED
    BY <2>2, <2>3 DEF F!Put, F!From, Rest
<1>4. ASSUME NEW t, PopOldest(t) PROVE F!Take
  <2>1. /\ out' = Popped(t)
        /\ \E k \in 0..Len(Fifo) : \E n \in 0..(Len(Fifo) - k) :
              /\ Popped(t) = SubSeq(Fifo, k + 1, k + n)
              /\ Fifo' = Rest(Fifo, k + n)
    BY <1>1, <1>4, PopEffect
  <2>. QED
    BY <2>1 DEF F!Take, F!From, Rest
<1>5. CASE Clear
  <2>1. EventsFrom(<<>>, 0) \in Seq(Events) /\ Len(EventsFrom(<<>>, 0)) = 0
    <3>1. <<>> \in Seq(Items) /\ 0 \in 0..Len(<<>>) /\ Len(<<>>) - 0 = 0
      OBVIOUS
    <3>. QED
      BY <3>1, EventsFromIs
  <2>2. Fifo' = <<>> /\ out' = out
    BY <1>5, <2>1, EmptySeq DEF Clear, Fifo
  <2>. QED
    BY <2>2 DEF F!Next, F!Clear
<1>6. ASSUME NEW p \in Poppers, Pop(p) PROVE F!Take
  BY <1>4, <1>6 DEF Pop
<1>7. CASE FwdPop
  BY <1>4, <1>7 DEF FwdPop, F!Next
<1>8. ASSUME NEW e \in Events, HandleUsage(e) \/ CheckEnabled(e) \/ Publish(e)
      PROVE  [F!Next]_<<Fifo, out>>
  BY <1>2, <1>8 DEF HandleUsage, CheckEnabled, Publish
<1>9. ASSUME NEW s \in Subscribers,
             SubscribeUsage(s) \/ Consume(s) \/ Unsubscribe(s) \/ CloseChannel(s)
      PROVE  [F!Next]_<<Fifo, out>>
  BY <1>2, <1>9 DEF SubscribeUsage, Consume, Unsubscribe, CloseChannel
<1>10. CASE Tick \/ NotifyUsageRefresh \/ Disable \/ Enable
  BY <1>2, <1>10 DEF Tick, NotifyUsageRefresh, Disable, Enable
<1>11. ASSUME NEW p \in Poppers, PopCheck(p) PROVE [F!Next]_<<Fifo, out>>
  BY <1>2, <1>11 DEF PopCheck
<1>12. CASE FwdCheck \/ FwdPush \/ FwdFails \/ FwdRequeue \/ FwdNext
  BY <1>2, <1>12 DEF FwdCheck, FwdPush, FwdFails, FwdRequeue, FwdNext
<1>13. CASE UNCHANGED vars
  BY <1>2, <1>13 DEF vars
<1>. QED
  BY <1>3, <1>5, <1>6, <1>7, <1>8, <1>9, <1>10, <1>11, <1>12, <1>13 DEF Next, F!Next

(* The slice with its head index, pruned on every access and compacted     *)
(* when head is large, is a queue: events leave in the order they came,    *)
(* oldest first, into the answer of a pop, or because they expired or were *)
(* cleared.                                                                *)
THEOREM UsageRefinement == Spec => ImplementsUsageFifo
<1>1. Init => F!Init
  BY FifoInit
<1>2. UsageTypeOK /\ [Next]_vars => [F!Next]_<<Fifo, out>>
  BY FifoStep
<1>. QED
  BY <1>1, <1>2, UsageTypeCorrect, PTL DEF Spec, ImplementsUsageFifo, F!Spec

(***************************************************************************)
(* The release flusher                                                     *)
(***************************************************************************)
(* Every sequence in the pipeline was really released, and every frame     *)
(* being accounted was received.                                           *)
PipelineInv ==
    /\ \A x \in unmarked : x.seq <= released[x.group]
    /\ \A g \in Groups : latest[g] <= released[g]
    /\ \A x \in todo : x.seq <= latest[x.group]
    /\ \A x \in sent : x.seq <= latest[x.group] /\ x.seq <= received[x.group]

(* A call that was not made has left no ticket.                            *)
TicketInv ==
    \A x \in Frames :
        x \in unmarked \/ x.seq > released[x.group] => x \notin completed /\ x \notin waiters

(* A Run that backs off has its timer armed.                               *)
SelectInv == run = "select" /\ backingOff => timer

FlushInv ==
    \A f \in Flushers : \A g \in Groups :
        /\ owed[f][g] <= latest[g]
        /\ flushPc[f] = "ok" => owed[f][g] <= acked[g]

FlusherInv ==
    /\ TypeOK
    /\ NothingForgotten
    /\ AckedIsReceived
    /\ PipelineInv
    /\ TicketInv
    /\ TicketsExact
    /\ SelectInv
    /\ RunNeverSleepsOnWork
    /\ FlushInv
-----------------------------------------------------------------------------
(* What recording one release does to its group.                           *)
LEMMA MarkDirtyEffect ==
    ASSUME FlusherInv, NEW x \in unmarked, MarkDirty(x)
    PROVE  /\ x \in Frames
           /\ x.seq <= acked[x.group] =>
                completed' = completed \cup {x} /\ UNCHANGED <<latest, waiters, pending>>
           /\ x.seq > acked[x.group] =>
                /\ waiters' = waiters \cup {x} /\ UNCHANGED completed
                /\ latest' = [latest EXCEPT ![x.group] = Larger(x.seq, latest[x.group])]
                /\ pending' = [pending EXCEPT ![x.group] = Larger(x.seq, pending[x.group])]
  BY DEF MarkDirty, FlusherInv, TypeOK, Frames, Seqs

(* Every step keeps the variables in their ranges.                         *)
LEMMA FlusherTypeStep == FlusherInv /\ [FlusherNext]_releaseVars => TypeOK'
<1>. SUFFICES ASSUME FlusherInv, [FlusherNext]_releaseVars PROVE TypeOK'
  OBVIOUS
<1>. USE FlusherAssumption DEF TypeOK, Frames, Seqs, RunPcs, FlushPcs
<1>. TypeOK
  BY DEF FlusherInv
<1>1. CASE UNCHANGED releaseVars
  BY <1>1 DEF releaseVars, markVars, runVars, flushVars
<1>2. ASSUME NEW g \in Groups, Release(g) PROVE TypeOK'
  BY <1>2 DEF Release, markVars, runVars, flushVars
<1>3. ASSUME NEW x \in unmarked, MarkDirty(x) PROVE TypeOK'
  <2>1. /\ UNCHANGED <<released, acked, force, runVars, received, flushVars>>
        /\ wake' = TRUE /\ unmarked' = unmarked \ {x}
    BY <1>3 DEF MarkDirty
  <2>2. CASE x.seq <= acked[x.group]
    BY <1>3, <2>1, <2>2, MarkDirtyEffect DEF runVars, flushVars
  <2>3. CASE x.seq > acked[x.group]
    <3>1. latest' \in [Groups -> 0..MaxSeq] /\ pending' \in [Groups -> 0..MaxSeq]
      <4>1. /\ x.group \in Groups
            /\ Larger(x.seq, latest[x.group]) \in 0..MaxSeq
            /\ Larger(x.seq, pending[x.group]) \in 0..MaxSeq
        BY DEF Larger
      <4>2. /\ latest' = [latest EXCEPT ![x.group] = Larger(x.seq, latest[x.group])]
            /\ pending' = [pending EXCEPT ![x.group] = Larger(x.seq, pending[x.group])]
        BY <1>3, <2>3 DEF MarkDirty
      <4>. QED
        BY <4>1, <4>2
    <3>. QED
      BY <1>3, <2>1, <2>3, <3>1, MarkDirtyEffect DEF runVars, flushVars
  <2>. QED
    BY <2>2, <2>3
<1>4. CASE StartRun \/ CancelRun \/ RunDone
  <2>1. CASE StartRun
    <3>1. lifetime' \in 0..MaxLifetime
      BY <2>1 DEF StartRun
    <3>. QED
      BY <2>1, <3>1 DEF StartRun, markVars, flushVars
  <2>2. CASE CancelRun \/ RunDone
    BY <2>2 DEF CancelRun, RunDone, markVars, flushVars
  <2>. QED
    BY <1>4, <2>1, <2>2
<1>5. CASE RunWake \/ RunForce \/ RunTimer
  BY <1>5 DEF RunWake, RunForce, RunTimer, markVars, flushVars
<1>6. CASE FlushCopy
  <2>1. todo' \subseteq Frames
    BY <1>6 DEF FlushCopy
  <2>. QED
    BY <1>6, <2>1 DEF FlushCopy, markVars, flushVars
<1>7. ASSUME NEW x \in todo, SendOk(x) \/ SendError(x) PROVE TypeOK'
  <2>1. received' \in [Groups -> 0..MaxSeq]
    BY <1>7 DEF SendOk, SendError, HomeReceives, Larger
  <2>. QED
    BY <1>7, <2>1 DEF SendOk, SendError, markVars, flushVars
<1>8. ASSUME NEW x \in sent, Ack(x) PROVE TypeOK'
  <2>1. acked' \in [Groups -> 0..MaxSeq]
    <3>1. x.group \in Groups /\ x.seq \in 0..MaxSeq
      OBVIOUS
    <3>2. UNCHANGED acked \/ acked' = [acked EXCEPT ![x.group] = x.seq]
      BY <1>8 DEF Ack
    <3>. QED
      BY <3>1, <3>2
  <2>2. pending' \in [Groups -> 0..MaxSeq]
    BY <1>8, <2>1 DEF Ack
  <2>3. waiters' \subseteq Frames /\ completed' \subseteq Frames
    BY <1>8 DEF Ack
  <2>. QED
    BY <1>8, <2>1, <2>2, <2>3 DEF Ack, flushVars
<1>9. CASE FlushEnd \/ Settle
  BY <1>9 DEF FlushEnd, Settle, markVars, flushVars, Idle
<1>10. ASSUME NEW f \in Flushers, Flush(f) \/ FlushPoll(f) \/ FlushExpire(f) PROVE TypeOK'
  <2>1. flushPc' \in [Flushers -> FlushPcs]
    BY <1>10 DEF Flush, FlushPoll, FlushExpire
  <2>2. owed' \in [Flushers -> [Groups -> 0..MaxSeq]] /\ force' \in Flushers \cup {NoForce}
    BY <1>10 DEF Flush, FlushPoll, FlushExpire
  <2>3. UNCHANGED <<released, unmarked, latest, acked, waiters, completed, pending, wake, run,
                    lifetime, cancelled, timer, backingOff, todo, sent, failed, received>>
    BY <1>10 DEF Flush, FlushPoll, FlushExpire, markVars, runVars
  <2>. QED
    BY <2>1, <2>2, <2>3
<1>. QED
  BY <1>1, <1>2, <1>3, <1>4, <1>5, <1>6, <1>7, <1>8, <1>9, <1>10 DEF FlusherNext, RunStep

(* Every step keeps pending, acked and latest in agreement.                *)
LEMMA ForgottenStep == FlusherInv /\ [FlusherNext]_releaseVars => NothingForgotten'
<1>. SUFFICES ASSUME FlusherInv, [FlusherNext]_releaseVars PROVE NothingForgotten'
  OBVIOUS
<1>. TypeOK /\ NothingForgotten
  BY DEF FlusherInv
<1>1. CASE UNCHANGED <<latest, acked, pending>>
  BY <1>1 DEF NothingForgotten
<1>2. ASSUME NEW x \in unmarked, MarkDirty(x) PROVE NothingForgotten'
  <2>1. UNCHANGED acked
    BY <1>2 DEF MarkDirty
  <2>2. CASE x.seq <= acked[x.group]
    BY <1>2, <2>1, <2>2, MarkDirtyEffect DEF NothingForgotten
  <2>3. CASE x.seq > acked[x.group]
    <3>1. /\ x.group \in Groups /\ x.seq \in Nat
          /\ latest' = [latest EXCEPT ![x.group] = Larger(x.seq, latest[x.group])]
          /\ pending' = [pending EXCEPT ![x.group] = Larger(x.seq, pending[x.group])]
      BY <1>2, <2>3, MarkDirtyEffect, FlusherAssumption DEF Frames, Seqs
    <3>. QED
      BY <2>1, <2>3, <3>1, FlusherAssumption DEF NothingForgotten, TypeOK, Larger
  <2>. QED
    BY <1>2, <2>2, <2>3, FlusherAssumption DEF TypeOK, Frames, Seqs
<1>3. ASSUME NEW x \in sent, Ack(x) PROVE NothingForgotten'
  <2>1. /\ x.group \in Groups /\ x.seq \in Nat /\ x.seq <= latest[x.group]
        /\ acked' = [acked EXCEPT ![x.group] = Larger(x.seq, acked[x.group])]
        /\ pending' = [pending EXCEPT ![x.group] =
                         IF pending[x.group] <= acked'[x.group] THEN 0 ELSE pending[x.group]]
        /\ UNCHANGED latest
    BY <1>3, FlusherAssumption DEF Ack, Larger, FlusherInv, TypeOK, PipelineInv, Frames, Seqs
  <2>2. ASSUME NEW g \in Groups, g # x.group
        PROVE  acked'[g] = acked[g] /\ pending'[g] = pending[g]
    BY <2>1, <2>2 DEF TypeOK
  <2>3. /\ acked'[x.group] = Larger(x.seq, acked[x.group])
        /\ pending'[x.group] =
             IF pending[x.group] <= acked'[x.group] THEN 0 ELSE pending[x.group]
    BY <2>1 DEF TypeOK
  <2>4. \A g \in Groups : acked[g] \in Nat /\ latest[g] \in Nat
    BY FlusherAssumption DEF TypeOK
  <2>. QED
    BY <2>1, <2>2, <2>3, <2>4 DEF NothingForgotten, Larger
<1>4. \/ UNCHANGED <<latest, acked, pending>>
      \/ \E x \in unmarked : MarkDirty(x)
      \/ \E x \in sent : Ack(x)
  BY DEF releaseVars, markVars, FlusherNext, RunStep, Release, StartRun, CancelRun, RunDone,
         RunWake, RunForce, RunTimer, FlushCopy, SendOk, SendError, FlushEnd, Settle, Flush,
         FlushPoll, FlushExpire
<1>. QED
  BY <1>1, <1>2, <1>3, <1>4

(* Every step keeps what is in the pipeline true, and what is acknowledged *)
(* received.                                                               *)
LEMMA PipelineStep == FlusherInv /\ [FlusherNext]_releaseVars => PipelineInv' /\ AckedIsReceived'
<1>. SUFFICES ASSUME FlusherInv, [FlusherNext]_releaseVars PROVE PipelineInv' /\ AckedIsReceived'
  OBVIOUS
<1>. TypeOK /\ PipelineInv /\ AckedIsReceived /\ NothingForgotten
  BY DEF FlusherInv
<1>. USE FlusherAssumption DEF PipelineInv, AckedIsReceived, TypeOK, Frames, Seqs
<1>1. CASE UNCHANGED <<released, unmarked, latest, acked, todo, sent, received>>
  BY <1>1
<1>2. ASSUME NEW g \in Groups, Release(g) PROVE PipelineInv' /\ AckedIsReceived'
  BY <1>2 DEF Release, markVars, runVars
<1>3. ASSUME NEW x \in unmarked, MarkDirty(x) PROVE PipelineInv' /\ AckedIsReceived'
  <2>1. /\ UNCHANGED <<released, acked, todo, sent, received>> /\ unmarked' \subseteq unmarked
        /\ latest' = latest \/ latest' = [latest EXCEPT ![x.group] = Larger(x.seq, latest[x.group])]
    BY <1>3 DEF MarkDirty, runVars
  <2>2. \A g \in Groups : latest'[g] >= latest[g] /\ latest'[g] <= released[g] /\ latest'[g] \in Nat
    BY <2>1 DEF Larger
  <2>. QED
    BY <2>1, <2>2
<1>4. CASE FlushCopy
  <2>1. \A x \in todo' : x.group \in Groups /\ x.seq = pending[x.group] /\ pending[x.group] > 0
    BY <1>4 DEF FlushCopy
  <2>2. \A g \in Groups : pending[g] <= latest[g]
    BY DEF NothingForgotten
  <2>. QED
    BY <1>4, <2>1, <2>2 DEF FlushCopy, markVars
<1>5. ASSUME NEW x \in todo, SendOk(x) \/ SendError(x) PROVE PipelineInv' /\ AckedIsReceived'
  <2>1. /\ UNCHANGED <<released, unmarked, latest, acked>> /\ todo' \subseteq todo
        /\ \/ sent' = {x} /\ HomeReceives(x)
           \/ UNCHANGED sent /\ (HomeReceives(x) \/ UNCHANGED received)
    BY <1>5 DEF SendOk, SendError, markVars
  <2>2. /\ x.group \in Groups /\ x.seq \in Nat /\ x.seq <= latest[x.group]
        /\ HomeReceives(x) => received'[x.group] >= x.seq
    BY DEF HomeReceives, Larger
  <2>3. \A g \in Groups : /\ received'[g] >= received[g] /\ received'[g] <= released[g]
                          /\ received'[g] \in Nat
    BY <2>1, <2>2 DEF HomeReceives, Larger
  <2>4. AckedIsReceived'
    BY <2>1, <2>3
  <2>5. \A y \in sent' : y.seq <= latest[y.group] /\ y.seq <= received'[y.group]
    BY <2>1, <2>2, <2>3
  <2>. QED
    BY <2>1, <2>4, <2>5
<1>6. ASSUME NEW x \in sent, Ack(x) PROVE PipelineInv' /\ AckedIsReceived'
  <2>1. /\ UNCHANGED <<released, unmarked, latest, todo, received>> /\ sent' = {}
        /\ acked' = acked \/ acked' = [acked EXCEPT ![x.group] = x.seq]
    BY <1>6 DEF Ack
  <2>. QED
    BY <2>1
<1>7. \/ UNCHANGED <<released, unmarked, latest, acked, todo, sent, received>>
      \/ \E g \in Groups : Release(g)
      \/ \E x \in unmarked : MarkDirty(x)
      \/ FlushCopy
      \/ \E x \in todo : SendOk(x) \/ SendError(x)
      \/ \E x \in sent : Ack(x)
  BY DEF releaseVars, markVars, runVars, FlusherNext, RunStep, StartRun, CancelRun, RunDone,
         RunWake, RunForce, RunTimer, FlushEnd, Settle, Flush, FlushPoll, FlushExpire
<1>. QED
  BY <1>1, <1>2, <1>3, <1>4, <1>5, <1>6, <1>7

(* Every step keeps the tickets exact.                                     *)
LEMMA TicketStep == FlusherInv /\ [FlusherNext]_releaseVars => TicketInv' /\ TicketsExact'
<1>. SUFFICES ASSUME FlusherInv, [FlusherNext]_releaseVars PROVE TicketInv' /\ TicketsExact'
  OBVIOUS
<1>. TypeOK /\ PipelineInv /\ TicketInv /\ TicketsExact
  BY DEF FlusherInv
<1>1. CASE UNCHANGED <<released, unmarked, acked, waiters, completed>>
  BY <1>1 DEF TicketInv, TicketsExact
<1>2. ASSUME NEW g \in Groups, Release(g) PROVE TicketInv' /\ TicketsExact'
  <2>1. /\ UNCHANGED <<acked, waiters, completed>>
        /\ released' = [released EXCEPT ![g] = released[g] + 1]
        /\ unmarked' = unmarked \cup {[group |-> g, seq |-> released[g] + 1]}
    BY <1>2 DEF Release, markVars
  <2>2. ASSUME NEW x \in Frames
        PROVE  /\ x \in unmarked' \/ x.seq > released'[x.group] =>
                    x \in unmarked \/ x.seq > released[x.group]
               /\ released'[x.group] >= x.seq /\ x \notin unmarked' =>
                    released[x.group] >= x.seq /\ x \notin unmarked
    <3>1. /\ x = [group |-> x.group, seq |-> x.seq] /\ x.group \in Groups /\ x.seq \in Nat
          /\ released[x.group] \in Nat
          /\ released'[x.group] = IF x.group = g THEN released[g] + 1 ELSE released[x.group]
      BY <2>1, FlusherAssumption DEF TypeOK, Frames, Seqs
    <3>2. CASE x = [group |-> g, seq |-> released[g] + 1]
      BY <2>1, <3>1, <3>2
    <3>3. CASE x # [group |-> g, seq |-> released[g] + 1]
      <4>1. x.group # g \/ x.seq # released[g] + 1
        BY <3>1, <3>3
      <4>. QED
        BY <2>1, <3>1, <3>3, <4>1
    <3>. QED
      BY <3>2, <3>3
  <2>. QED
    BY <2>1, <2>2 DEF TicketInv, TicketsExact
<1>3. ASSUME NEW x \in unmarked, MarkDirty(x) PROVE TicketInv' /\ TicketsExact'
  <2>1. /\ UNCHANGED <<released, acked>> /\ unmarked' = unmarked \ {x}
        /\ x \in Frames /\ x.seq <= released[x.group]
    BY <1>3 DEF MarkDirty, TypeOK, PipelineInv
  <2>2. x \notin completed /\ x \notin waiters
    BY <2>1 DEF TicketInv
  <2>3. \/ x.seq <= acked[x.group] /\ completed' = completed \cup {x} /\ UNCHANGED waiters
        \/ x.seq > acked[x.group] /\ waiters' = waiters \cup {x} /\ UNCHANGED completed
    BY <1>3 DEF MarkDirty
  <2>4. x.group \in Groups /\ x.seq \in Nat /\ acked[x.group] \in Nat /\ released[x.group] \in Nat
    BY <2>1, FlusherAssumption DEF TypeOK, Frames, Seqs
  <2>. QED
    BY <2>1, <2>2, <2>3, <2>4 DEF TicketInv, TicketsExact
<1>4. ASSUME NEW x \in sent, Ack(x) PROVE TicketInv' /\ TicketsExact'
  <2>1. UNCHANGED <<released, unmarked>> /\ x.group \in Groups /\ x.seq \in Nat
    BY <1>4, FlusherAssumption DEF Ack, TypeOK, Frames, Seqs
  <2>2. CASE x.seq <= acked[x.group]
    BY <1>1, <1>4, <2>1, <2>2, FlusherAssumption DEF Ack, TypeOK
  <2>3. CASE x.seq > acked[x.group]
    <3> DEFINE reached == {w \in waiters : w.group = x.group /\ w.seq <= x.seq}
    <3>1. /\ acked' = [acked EXCEPT ![x.group] = x.seq]
          /\ waiters' = waiters \ reached /\ completed' = completed \cup reached
      BY <1>4, <2>3 DEF Ack
    <3>2. TicketInv'
      BY <2>1, <3>1 DEF TicketInv
    <3>3. ASSUME NEW y \in Frames, released[y.group] >= y.seq, y \notin unmarked
          PROVE  /\ y \in completed' <=> y.seq <= acked'[y.group]
                 /\ y \in waiters' <=> y.seq > acked'[y.group]
      <4>1. /\ y \in completed <=> y.seq <= acked[y.group]
            /\ y \in waiters <=> y.seq > acked[y.group]
        BY <3>3 DEF TicketsExact
      <4>2. /\ y.group \in Groups /\ y.seq \in Nat /\ acked[y.group] \in Nat
            /\ acked'[y.group] = IF y.group = x.group THEN x.seq ELSE acked[y.group]
        BY <2>1, <3>1, FlusherAssumption DEF TypeOK, Frames, Seqs
      <4>. QED
        BY <2>1, <2>3, <3>1, <4>1, <4>2
    <3>. QED
      BY <2>1, <3>2, <3>3 DEF TicketsExact
  <2>. QED
    BY <2>1, <2>2, <2>3, FlusherAssumption DEF TypeOK
<1>5. \/ UNCHANGED <<released, unmarked, acked, waiters, completed>>
      \/ \E g \in Groups : Release(g)
      \/ \E x \in unmarked : MarkDirty(x)
      \/ \E x \in sent : Ack(x)
  BY DEF releaseVars, markVars, FlusherNext, RunStep, StartRun, CancelRun, RunDone, RunWake,
         RunForce, RunTimer, FlushCopy, SendOk, SendError, FlushEnd, Settle, Flush, FlushPoll,
         FlushExpire
<1>. QED
  BY <1>1, <1>2, <1>3, <1>4, <1>5

(* Every step keeps Run awake while work is pending.                       *)
LEMMA SelectStep == FlusherInv /\ [FlusherNext]_releaseVars => SelectInv' /\ RunNeverSleepsOnWork'
<1>. SUFFICES ASSUME FlusherInv, [FlusherNext]_releaseVars PROVE SelectInv' /\ RunNeverSleepsOnWork'
  OBVIOUS
<1>. TypeOK /\ SelectInv /\ RunNeverSleepsOnWork
  BY DEF FlusherInv
<1>. USE DEF SelectInv, RunNeverSleepsOnWork, Idle
<1>1. CASE UNCHANGED <<run, timer, backingOff, pending, wake>>
  BY <1>1
<1>2. CASE run' # "select"
  BY <1>2
<1>3. ASSUME NEW x \in unmarked, MarkDirty(x) PROVE SelectInv' /\ RunNeverSleepsOnWork'
  BY <1>3 DEF MarkDirty, runVars
<1>4. CASE StartRun
  BY <1>4 DEF StartRun
<1>5. CASE Settle
  <2>1. /\ run' = "select" /\ backingOff' = failed /\ UNCHANGED pending
        /\ timer' <=> ~(Idle /\ ~failed)
    BY <1>5 DEF Settle, markVars
  <2>. QED
    BY <2>1
<1>6. CASE RunWake
  BY <1>6 DEF RunWake, markVars, TypeOK
<1>7. \/ UNCHANGED <<run, timer, backingOff, pending, wake>>
      \/ run' # "select"
      \/ \E x \in unmarked : MarkDirty(x)
      \/ StartRun \/ Settle \/ RunWake
  BY DEF releaseVars, markVars, runVars, FlusherNext, RunStep, Release, CancelRun, RunDone,
         RunForce, RunTimer, FlushCopy, SendOk, SendError, Ack, FlushEnd, Flush, FlushPoll,
         FlushExpire
<1>. QED
  BY <1>1, <1>2, <1>3, <1>4, <1>5, <1>6, <1>7

(* Every step keeps what a Flush was owed.                                 *)
LEMMA FlushStep == FlusherInv /\ [FlusherNext]_releaseVars => FlushInv'
<1>. SUFFICES ASSUME FlusherInv, [FlusherNext]_releaseVars PROVE FlushInv'
  OBVIOUS
<1>. TypeOK /\ FlushInv /\ NothingForgotten
  BY DEF FlusherInv
<1>. USE FlusherAssumption DEF FlushInv, TypeOK
<1>1. \A g \in Groups : /\ latest[g] \in Nat /\ latest'[g] \in Nat /\ acked[g] \in Nat
                        /\ acked'[g] \in Nat
                        /\ latest'[g] >= latest[g] /\ acked'[g] >= acked[g]
  <2>1. CASE UNCHANGED <<latest, acked>>
    BY <2>1
  <2>2. ASSUME NEW x \in unmarked, MarkDirty(x)
        PROVE  UNCHANGED acked /\ \A g \in Groups : latest'[g] \in Nat /\ latest'[g] >= latest[g]
    BY <2>2 DEF MarkDirty, Frames, Seqs, Larger
  <2>3. ASSUME NEW x \in sent, Ack(x)
        PROVE  UNCHANGED latest /\ \A g \in Groups : acked'[g] \in Nat /\ acked'[g] >= acked[g]
    BY <2>3 DEF Ack, Frames, Seqs
  <2>4. \/ UNCHANGED <<latest, acked>>
        \/ \E x \in unmarked : MarkDirty(x)
        \/ \E x \in sent : Ack(x)
    BY DEF releaseVars, markVars, FlusherNext, RunStep, Release, StartRun, CancelRun, RunDone,
           RunWake, RunForce, RunTimer, FlushCopy, SendOk, SendError, FlushEnd, Settle, Flush,
           FlushPoll, FlushExpire
  <2>. QED
    BY <2>1, <2>2, <2>3, <2>4
<1>2. CASE UNCHANGED flushVars
  <2>1. UNCHANGED <<flushPc, owed>>
    BY <1>2 DEF flushVars
  <2>. QED
    BY <1>1, <2>1
<1>3. ASSUME NEW f \in Flushers, Flush(f) PROVE FlushInv'
  BY <1>3 DEF Flush, markVars
<1>4. ASSUME NEW f \in Flushers, FlushPoll(f) PROVE FlushInv'
  <2>1. \A g \in Groups : acked[g] = latest[g]
    BY <1>4 DEF FlushPoll, Idle, NothingForgotten
  <2>. QED
    BY <1>4, <2>1 DEF FlushPoll, markVars
<1>5. ASSUME NEW f \in Flushers, FlushExpire(f) PROVE FlushInv'
  BY <1>5 DEF FlushExpire, markVars
<1>6. \/ UNCHANGED flushVars
      \/ \E f \in Flushers : Flush(f) \/ FlushPoll(f) \/ FlushExpire(f)
  BY DEF releaseVars, FlusherNext, RunStep, Release, MarkDirty, StartRun, CancelRun, RunDone,
         RunWake, RunForce, RunTimer, FlushCopy, SendOk, SendError, Ack, FlushEnd, Settle
<1>. QED
  BY <1>2, <1>3, <1>4, <1>5, <1>6

-----------------------------------------------------------------------------
(* The inductive invariant holds in every reachable state.                 *)
LEMMA FlusherInvariance == FlusherSpec => []FlusherInv
<1>1. FlusherInit => FlusherInv
  <2>. SUFFICES ASSUME FlusherInit PROVE FlusherInv
    OBVIOUS
  <2>. USE FlusherAssumption DEF FlusherInit, Zero
  <2>1. TypeOK
    <3>1. Zero \in [Groups -> 0..MaxSeq]
      OBVIOUS
    <3>2. owed \in [Flushers -> [Groups -> 0..MaxSeq]] /\ flushPc \in [Flushers -> FlushPcs]
      BY <3>1 DEF FlushPcs
    <3>3. lifetime \in 0..MaxLifetime /\ run \in RunPcs /\ force \in Flushers \cup {NoForce}
      BY DEF RunPcs
    <3>. QED
      BY <3>1, <3>2, <3>3, Zenon DEF TypeOK
  <2>2. NothingForgotten /\ AckedIsReceived /\ PipelineInv /\ FlushInv
    BY DEF NothingForgotten, AckedIsReceived, PipelineInv, FlushInv
  <2>3. TicketInv /\ TicketsExact
    BY DEF TicketInv, TicketsExact, Frames, Seqs
  <2>4. SelectInv /\ RunNeverSleepsOnWork
    BY DEF SelectInv, RunNeverSleepsOnWork
  <2>. QED
    BY <2>1, <2>2, <2>3, <2>4 DEF FlusherInv
<1>2. FlusherInv /\ [FlusherNext]_releaseVars => FlusherInv'
  BY FlusherTypeStep, ForgottenStep, PipelineStep, TicketStep, SelectStep, FlushStep DEF FlusherInv
<1>. QED
  BY <1>1, <1>2, PTL DEF FlusherSpec

(* Type correctness of the flusher.                                        *)
THEOREM FlusherTypeCorrect == FlusherSpec => []TypeOK
<1>1. FlusherInv => TypeOK
  BY DEF FlusherInv
<1>. QED
  BY <1>1, FlusherInvariance, PTL

(* No release is forgotten while a frame of its group is on its way.       *)
THEOREM ForgottenCorrect == FlusherSpec => []NothingForgotten
<1>1. FlusherInv => NothingForgotten
  BY DEF FlusherInv
<1>. QED
  BY <1>1, FlusherInvariance, PTL

(* Acknowledged implies received implies released.                         *)
THEOREM AckCorrect == FlusherSpec => []AckedIsReceived
<1>1. FlusherInv => AckedIsReceived
  BY DEF FlusherInv
<1>. QED
  BY <1>1, FlusherInvariance, PTL

(* What is not acknowledged is pending, what is acknowledged was received. *)
THEOREM LossCorrect == FlusherSpec => []NothingLost
  BY ForgottenCorrect, AckCorrect, PTL DEF NothingLost

(* A ticket is completed exactly when its sequence is acknowledged.        *)
THEOREM TicketCorrect == FlusherSpec => []TicketsExact
<1>1. FlusherInv => TicketsExact
  BY DEF FlusherInv
<1>. QED
  BY <1>1, FlusherInvariance, PTL

(* Run never sleeps on dirty groups.                                       *)
THEOREM RunAwake == FlusherSpec => []RunNeverSleepsOnWork
<1>1. FlusherInv => RunNeverSleepsOnWork
  BY DEF FlusherInv
<1>. QED
  BY <1>1, FlusherInvariance, PTL

(* A Flush that returned nil left Home with everything it was owed.        *)
THEOREM FlushCorrect == FlusherSpec => []FlushedAll
<1>1. FlusherInv => FlushedAll
  BY FlusherAssumption DEF FlusherInv, FlushedAll, FlushInv, AckedIsReceived, TypeOK
<1>. QED
  BY <1>1, FlusherInvariance, PTL

(* The flusher implements the channel Home relies on: a release is a       *)
(* Release step, a send that reaches Home with news is a Learn step, and   *)
(* every other step changes neither number.                                *)
THEOREM FlusherRefinement == FlusherSpec => ImplementsCumulativeRelease
<1>1. FlusherInit => Home!Init
  BY DEF FlusherInit, Home!Init, Zero
<1>2. FlusherInv /\ [FlusherNext]_releaseVars => [Home!Next]_<<released, received>>
  <2>. SUFFICES ASSUME FlusherInv, [FlusherNext]_releaseVars PROVE [Home!Next]_<<released, received>>
    OBVIOUS
  <2>1. ASSUME NEW g \in Groups, Release(g) PROVE Home!Next
    BY <2>1 DEF Release, Home!Next, Home!Release
  <2>2. ASSUME NEW x \in todo, SendOk(x) \/ SendError(x)
        PROVE  Home!Next \/ UNCHANGED <<released, received>>
    <3>1. /\ x.group \in Groups /\ x.seq \in 1..MaxSeq /\ x.seq <= released[x.group]
          /\ received[x.group] \in Nat /\ received \in [Groups -> 0..MaxSeq]
      BY FlusherAssumption DEF FlusherInv, TypeOK, PipelineInv, Frames, Seqs
    <3>2. UNCHANGED released /\ (HomeReceives(x) \/ UNCHANGED received)
      BY <2>2 DEF SendOk, SendError
    <3>3. CASE received[x.group] < x.seq /\ HomeReceives(x)
      BY <3>1, <3>2, <3>3 DEF HomeReceives, Larger, Home!Next, Home!Learn
    <3>4. CASE ~(received[x.group] < x.seq) /\ HomeReceives(x)
      BY <3>1, <3>2, <3>4 DEF HomeReceives, Larger
    <3>. QED
      BY <3>2, <3>3, <3>4
  <2>3. \/ UNCHANGED <<released, received>>
        \/ \E g \in Groups : Release(g)
        \/ \E x \in todo : SendOk(x) \/ SendError(x)
    BY DEF releaseVars, FlusherNext, RunStep, MarkDirty, StartRun, CancelRun, RunDone, RunWake,
           RunForce, RunTimer, FlushCopy, Ack, FlushEnd, Settle, Flush, FlushPoll, FlushExpire
  <2>. QED
    BY <2>1, <2>2, <2>3
<1>. QED
  BY <1>1, <1>2, FlusherInvariance, PTL DEF FlusherSpec, Home!Spec, ImplementsCumulativeRelease
==============================================================================
