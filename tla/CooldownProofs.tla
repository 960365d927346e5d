--------------------------- MODULE CooldownProofs ---------------------------
(***************************************************************************)
(* Proofs about Cooldown, for every set of models, every retry time and    *)
(* every bound: without failures of the invalid_api_key branch, a model is *)
(* cooled exactly as long as its own failures or a credential quota        *)
(* justify, and a later failure never shortens a live cooldown.            *)
(*                                                                         *)
(* A model's state is one record over two deadlines.  The invariant keeps  *)
(* them apart: beneath a propagated quota (Cover) the shadow is the layer  *)
(* that the model's own failures justify (Layer), with the execution that  *)
(* last extended it, since that decides which successes end it.            *)
(***************************************************************************)
EXTENDS Cooldown, TLAPS, WellFoundedInduction

(***************************************************************************)
(* What the proof needs to say about a state                               *)
(***************************************************************************)
Executions == [seq : Nat, model : Models, epoch : Nat, cver : Nat]

TypeOK ==
    /\ now \in Nat /\ seq \in Nat
    /\ running \subseteq Executions
    /\ st \in [Models -> {None} \cup ModelStates]
    /\ quota \in [reason : Reasons, until : Nat]
    /\ epoch \in Nat /\ cver \in Nat /\ admin \in Nat
    /\ observed \in {"none", "fresh", "old"}
    /\ own \in [Models -> Nat] /\ cred \in Nat
    /\ ownSeq \in [Models -> Nat] /\ credSeq \in Nat

\* At time t, the layer f records what the model's own failures justify:
\* the deadline o, last extended before execution k was dispatched.
Layer(f, o, k, t) ==
    /\ f \in Shadows /\ ~ f.wrapped /\ f.reason # "credential_quota"
    /\ f.until > t => f.retry >= f.until
    /\ f.retry > t => f.unavail
    /\ f.retry > t \/ o > t => f.retry = o
    /\ o > t => f.seq = k

\* Deadlines u and r that end by l, the second not before o.
Within(u, r, o, l, t) ==
    /\ u > t => u <= l
    /\ r > t => r <= l
    /\ o > t => r >= o

\* Under the propagated layer s, the model's own cooldown lives on; s itself
\* ends with the credential's deadline c or the model's.
Cover(s, o, k, c, ck, t) ==
    /\ s \in ModelStates /\ s.wrapped /\ s.reason # ""
    /\ IF s.shadow = None THEN o <= t ELSE Layer(s.shadow, o, k, t)
    /\ Within(s.until, s.retry, o, Later(c, o), t)
    /\ o > t => s.seq = Later(k, ck)

\* The state s of a model, with the credential quota until c of dispatch ck.
Accounted(s, o, k, c, ck, t) ==
    IF s = None THEN o <= t
    ELSE IF s.wrapped THEN Cover(s, o, k, c, ck, t)
    ELSE Layer(s, o, k, t) /\ c <= t /\ (o > t => ck <= k)

ModelInv == \A m \in Models : Accounted(st[m], own[m], ownSeq[m], cred, credSeq, now)

CredInv ==
    /\ cred > now <=> CredLive(quota)
    /\ CredLive(quota) => quota.until = cred

SeqInv ==
    /\ credSeq <= seq
    /\ \A m \in Models : ownSeq[m] <= seq
    /\ \A x \in running : x.seq > 0

IInv == TypeOK /\ ModelInv /\ CredInv /\ SeqInv

-----------------------------------------------------------------------------
(***************************************************************************)
(* Layers                                                                  *)
(***************************************************************************)
LEMMA CleanLayer ==
    ASSUME NEW o \in Nat, NEW k \in Nat, NEW t \in Nat, o <= t
    PROVE  Clean \in Shadows /\ Layer(Clean, o, k, t)
BY DEF Clean, Layer, Shadows, Reasons

LEMMA ShadowShape ==
    ASSUME NEW s \in ModelStates
    PROVE  /\ s.shadow = None \/ s.shadow \in Shadows
           /\ cloneShallow(s) \in Shadows
           /\ s.unavail = cloneShallow(s).unavail /\ s.retry = cloneShallow(s).retry
           /\ s.until = cloneShallow(s).until /\ s.reason = cloneShallow(s).reason
           /\ s.seq = cloneShallow(s).seq /\ s.wrapped = cloneShallow(s).wrapped
BY DEF ModelStates, Shadows, cloneShallow

LEMMA ShadowIsState == Shadows \subseteq ModelStates /\ None \notin Shadows
BY NoneAssumption DEF Shadows, ModelStates

LEMMA CloneLayer ==
    ASSUME NEW f, NEW o \in Nat, NEW k \in Nat, NEW t \in Nat, Layer(f, o, k, t)
    PROVE  Layer(cloneShallow(f), o, k, t)
<1>1. f \in ModelStates
  BY ShadowIsState DEF Layer
<1>. QED
  BY <1>1, ShadowShape DEF Layer

\* Kinds of failure of one model, without the branch of invalid_api_key.
OwnKinds == {"support", "mid", "transient", "server", "challenge", "quota", "hint"}

LEMMA LaterIs ==
    \A a, b \in Nat : /\ Later(a, b) \in Nat /\ Later(a, b) >= a /\ Later(a, b) >= b
                     /\ (Later(a, b) = a \/ Later(a, b) = b)
BY DEF Later

\* The quota that a layer remembers ends with its cooldown.
LEMMA Remembered ==
    ASSUME now \in Nat, NEW f, f.until \in Nat, f.retry \in Nat,
           f.until > now => f.retry >= f.until,
           NEW x \in {f.until, 0}
    PROVE  x \in Nat /\ x <= f.until /\ (x > now => x <= f.retry)
OBVIOUS

\* The layer f until q, alone or with the quota that is exceeded until then.
Kept(f, q) == [[f EXCEPT !.retry = q] EXCEPT !.unavail = TRUE, !.shadow = f.shadow]
Cooled(f, q, reason, shadow) ==
    [[f EXCEPT !.retry = q, !.until = q, !.reason = reason]
        EXCEPT !.unavail = TRUE, !.shadow = shadow]

\* A failure of the model gives a layer with the deadline it justifies.
LEMMA FailedFields ==
    ASSUME now \in Nat, NEW f, NEW o \in Nat, NEW k \in Nat, Layer(f, o, k, now),
           NEW kind \in OwnKinds, NEW d \in Backoffs
    PROVE  LET h   == Failed(f, kind, d)
               due == Justified(kind, f, d)
           IN  /\ h \in Shadows /\ h.unavail /\ ~ h.wrapped /\ h.reason # "credential_quota"
               /\ h.retry > now /\ due \in Nat /\ h.retry >= due
               /\ h.retry = due \/ h.retry <= f.retry
               /\ h.until = h.retry \/ h.until = f.until
<1>. DEFINE h == Failed(f, kind, d)
            due == Justified(kind, f, d)
<1>1. /\ Short \in Nat \ {0} /\ Mid \in Nat \ {0} /\ Long \in Nat \ {0} /\ d \in Nat \ {0}
  BY TimesAssumption
<1>2. /\ f \in Shadows /\ f.retry \in Nat /\ f.until \in Nat /\ f.reason # "credential_quota"
      /\ ~ f.wrapped /\ (f.until > now => f.retry >= f.until)
  BY DEF Layer, Shadows
<1>9. f.retry \in Nat /\ f.until \in Nat /\ (f.until > now => f.retry >= f.until)
  BY <1>2
<1>0. ASSUME NEW q \in Nat
      PROVE  LET e == Kept(f, q)
             IN  /\ e \in Shadows /\ e.unavail /\ ~ e.wrapped /\ e.reason # "credential_quota"
                 /\ e.retry = q /\ e.until = f.until
  BY <1>2 DEF Kept, Shadows
<1>10. ASSUME NEW q \in Nat, NEW x \in Reasons \ {"credential_quota"}
       PROVE  LET e == Cooled(f, q, x, None)
              IN  /\ e \in Shadows /\ e.unavail /\ ~ e.wrapped /\ e.reason # "credential_quota"
                  /\ e.retry = q /\ e.until = q
  BY <1>2 DEF Cooled, Shadows
<1>. SUFFICES /\ h \in Shadows /\ h.unavail /\ ~ h.wrapped /\ h.reason # "credential_quota"
              /\ h.retry > now /\ due \in Nat /\ h.retry >= due
              /\ h.retry = due \/ h.retry <= f.retry
              /\ h.until = h.retry \/ h.until = f.until
  OBVIOUS
<1>. HIDE DEF h, due
<1>3. CASE kind = "support"
  <2>. DEFINE q == now + Long
  <2>1. h = Kept(f, q) /\ due = q
    BY <1>3 DEF h, due, Failed, Justified, Kept
  <2>2. q \in Nat /\ q > now /\ q >= q
    BY <1>1
  <2>. HIDE DEF q
  <2>. QED
    BY <1>0, <2>1, <2>2
<1>4. CASE kind = "mid"
  <2>. DEFINE q == now + Mid
  <2>1. h = Kept(f, q) /\ due = q
    BY <1>4 DEF h, due, Failed, Justified, Kept
  <2>2. q \in Nat /\ q > now /\ q >= q
    BY <1>1
  <2>. HIDE DEF q
  <2>. QED
    BY <1>0, <2>1, <2>2
<1>5. CASE kind = "server"
  <2>. DEFINE q == now + Short
  <2>1. h = Kept(f, q) /\ due = q
    BY <1>5 DEF h, due, Failed, Justified, Kept
  <2>2. q \in Nat /\ q > now /\ q >= q
    BY <1>1
  <2>. HIDE DEF q
  <2>. QED
    BY <1>0, <2>1, <2>2
<1>6. CASE kind = "transient"
  <2>. DEFINE x == IF f.reason # "" THEN f.until ELSE 0
              p == now + Short
              q == Later(p, x)
  <2>1. h = Kept(f, q) /\ due = p
    BY <1>6 DEF h, due, Failed, Justified, Kept
  <2>2. x \in {f.until, 0} /\ p \in Nat /\ p > now
    BY <1>1
  <2>. HIDE DEF x, p
  <2>4. x \in Nat /\ (x > now => x <= f.retry)
    BY <1>9, <2>2, Remembered
  <2>5. q \in Nat /\ q >= p /\ q >= x /\ (q = p \/ q = x)
    BY <2>2, <2>4, LaterIs
  <2>3. q \in Nat /\ q > now /\ q >= p /\ (q = p \/ q <= f.retry)
    <3>. HIDE DEF q
    <3>. QED
      BY <1>9, <2>2, <2>4, <2>5
  <2>. HIDE DEF q
  <2>. QED
    BY <1>0, <2>1, <2>2, <2>3
<1>7. CASE kind = "challenge"
  <2>. DEFINE q == now + d
  <2>1. h = Cooled(f, q, "cloudflare challenge", f.shadow) /\ due = q
    BY <1>7 DEF h, due, Failed, Justified, Cooled
  <2>2. f.shadow = None
    BY <1>2 DEF Shadows
  <2>3. q \in Nat /\ q > now /\ q >= q
    BY <1>1
  <2>4. "cloudflare challenge" \in Reasons \ {"credential_quota"}
    BY DEF Reasons
  <2>. HIDE DEF q
  <2>5. h = Cooled(f, q, "cloudflare challenge", None)
    BY <2>1, <2>2
  <2>6. due \in Nat /\ due = q /\ q >= due
    BY <2>1, <2>3
  <2>. DEFINE y == "cloudflare challenge"
  <2>7. y \in Reasons \ {"credential_quota"} /\ h = Cooled(f, q, y, None)
    BY <2>4, <2>5
  <2>. HIDE DEF y
  <2>. QED
    BY <1>10, <2>3, <2>6, <2>7
<1>8. CASE kind \in {"quota", "hint"}
  <2>. DEFINE x == IF f.reason # "" THEN f.until ELSE 0
              p == QuotaNext(kind, f, d)
              q == Later(p, x)
  <2>1. h = Cooled(f, q, "quota", None)
    BY <1>8 DEF h, Failed, Cooled
  <2>2. x \in Nat /\ x <= f.until /\ (x > now => x <= f.retry)
    <3>1. x \in {f.until, 0}
      OBVIOUS
    <3>. HIDE DEF x
    <3>. QED
      BY <1>9, <3>1, Remembered
  <2>3. /\ p \in Nat /\ p > now /\ due \in Nat /\ due <= p
        /\ p = due \/ p <= f.retry
    <3>1. CASE kind = "hint"
      <4>1. p = now + Long /\ due = now + Long
        BY <3>1 DEF due, QuotaNext, Justified
      <4>. HIDE DEF p
      <4>. QED
        BY <1>1, <4>1
    <3>2. CASE kind = "quota" /\ f.until > now
      <4>1. p = f.until /\ due = 0
        BY <3>2 DEF due, QuotaNext, Justified, Continued, Scoped, QuotaWindow
      <4>. HIDE DEF p
      <4>. QED
        BY <1>9, <3>2, <4>1
    <3>3. CASE kind = "quota" /\ ~ (f.until > now)
      <4>1. p = now + d /\ due = now + d
        BY <3>3 DEF due, QuotaNext, Justified, Continued, Scoped, QuotaWindow
      <4>. HIDE DEF p
      <4>. QED
        BY <1>1, <4>1
    <3>. QED
      BY <1>8, <3>1, <3>2, <3>3
  <2>. HIDE DEF x, p
  <2>4. q \in Nat /\ q > now /\ q >= due /\ (q = due \/ q <= f.retry)
    <3>1. q \in Nat /\ q >= p /\ q >= x /\ (q = p \/ q = x)
      BY <2>2, <2>3, LaterIs
    <3>. HIDE DEF q
    <3>. QED
      BY <1>9, <2>2, <2>3, <3>1
  <2>5. "quota" \in Reasons \ {"credential_quota"}
    BY DEF Reasons
  <2>. HIDE DEF q
  <2>. QED
    BY <1>10, <2>1, <2>3, <2>4, <2>5
<1>. QED
  BY <1>3, <1>4, <1>5, <1>6, <1>7, <1>8 DEF OwnKinds

FailedNow(f, kind, d) == [Extended(Failed(f, kind, d), f.retry) EXCEPT !.seq = seq]

LEMMA FailedLayer ==
    ASSUME now \in Nat, seq \in Nat, NEW f, NEW o \in Nat, NEW k \in Nat, Layer(f, o, k, now),
           NEW kind \in OwnKinds, NEW d \in Backoffs
    PROVE  LET g == FailedNow(f, kind, d)
           IN  /\ Layer(g, Later(o, Justified(kind, f, d)), seq, now)
               /\ g.retry > now /\ g.retry >= f.retry
               /\ Later(o, Justified(kind, f, d)) \in Nat
<1>. DEFINE h == Failed(f, kind, d)
            due == Justified(kind, f, d)
            g == FailedNow(f, kind, d)
<1>1. /\ h \in Shadows /\ h.unavail /\ ~ h.wrapped /\ h.reason # "credential_quota"
      /\ h.retry > now /\ due \in Nat /\ h.retry >= due
      /\ h.retry = due \/ h.retry <= f.retry
      /\ h.until = h.retry \/ h.until = f.until
  BY FailedFields
<1>2. /\ g.retry = (IF f.retry > h.retry /\ f.retry > now THEN f.retry ELSE h.retry)
      /\ g \in Shadows /\ g.unavail /\ ~ g.wrapped /\ g.reason # "credential_quota"
      /\ g.until = h.until /\ g.seq = seq
  <2>1. f.retry \in Nat
    BY DEF Layer, Shadows
  <2>. HIDE DEF h
  <2>2. g = [Extended(h, f.retry) EXCEPT !.seq = seq]
    BY DEF FailedNow, h
  <2>. QED
    BY <1>1, <2>1, <2>2 DEF Extended, Shadows
<1>3. /\ f.retry \in Nat /\ f.until \in Nat /\ h.retry \in Nat /\ h.until \in Nat
      /\ (f.until > now => f.retry >= f.until)
      /\ (f.retry > now \/ o > now => f.retry = o)
  BY <1>1 DEF Layer, Shadows
<1>. HIDE DEF h, due, g
<1>4. g.retry > now /\ g.retry >= f.retry /\ g.retry = Later(o, due)
  BY <1>1, <1>2, <1>3 DEF Later
<1>5. g.until > now => g.retry >= g.until
  BY <1>1, <1>2, <1>3
<1>6. Later(o, due) \in Nat
  BY <1>1 DEF Later
<1>. QED
  BY <1>2, <1>4, <1>5, <1>6 DEF Layer, g, due

-----------------------------------------------------------------------------
(***************************************************************************)
(* The propagated layer                                                    *)
(***************************************************************************)
\* Facts about deadlines.
LEMMA OwnDeadline ==
    \A c, o, r, t \in Nat : c <= t /\ r > t /\ r <= Later(c, o) => r <= o
BY DEF Later

LEMMA LaterGrows == \A a, b, c \in Nat : b >= a => Later(a, c) <= Later(b, c)
BY DEF Later

LEMMA LaterOfBoth == \A a, b \in Nat : a <= b => Later(a, b) = b /\ Later(b, a) = b
BY DEF Later

LEMMA Lapsed == \A o, r, t \in Nat : (o > t => r = o) /\ r <= t => o <= t
OBVIOUS

LEMMA WithinMore ==
    \A u, r, o, b, l, t \in Nat : Within(u, r, o, b, t) /\ b <= l => Within(u, r, o, l, t)
BY DEF Within

LEMMA WithinDeeper ==
    ASSUME NEW u \in Nat, NEW r \in Nat, NEW o \in Nat, NEW l \in Nat, NEW t \in Nat,
           Within(u, r, o, l, t),
           NEW c2 \in Nat, c2 <= l, NEW u2 \in Nat, NEW r2 \in Nat,
           u2 <= c2 \/ u2 = u,
           r > t => r2 >= r,
           r2 = r \/ r2 <= c2 \/ r2 = u
    PROVE  Within(u2, r2, o, l, t)
BY DEF Within

Base(s) == IF s = None THEN Clean ELSE s

\* When the wrap goes, the model's own layer is left.
LEMMA UnwrappedLayer ==
    ASSUME now \in Nat, NEW s, NEW o \in Nat, NEW k \in Nat, NEW c, NEW ck,
           Cover(s, o, k, c, ck, now)
    PROVE  Layer(Unwrapped(s), o, k, now)
<1>1. CASE s.shadow # None /\ isModelStateActiveCooldown(s.shadow)
  <2>1. Layer(s.shadow, o, k, now) /\ Unwrapped(s) = cloneShallow(s.shadow)
    BY <1>1 DEF Cover, Unwrapped
  <2>. QED
    BY <2>1, CloneLayer
<1>2. CASE ~ (s.shadow # None /\ isModelStateActiveCooldown(s.shadow))
  <2>1. Unwrapped(s) = Clean
    BY <1>2 DEF Unwrapped
  <2>2. CASE s.shadow = None
    <3>1. o <= now
      BY <2>2 DEF Cover
    <3>. QED
      BY <2>1, <3>1, CleanLayer
  <2>3. CASE s.shadow # None
    <3>1. Layer(s.shadow, o, k, now) /\ ~ (s.shadow.retry > now)
      BY <1>2, <2>3 DEF Cover, isModelStateActiveCooldown
    <3>2. o > now => s.shadow.retry = o
      BY <3>1 DEF Layer
    <3>3. s.shadow.retry \in Nat
      BY <3>1 DEF Layer, Shadows
    <3>4. o <= now
      BY <3>1, <3>2, <3>3
    <3>. QED
      BY <2>1, <3>4, CleanLayer
  <2>. QED
    BY <2>2, <2>3
<1>. QED
  BY <1>1, <1>2

\* What a new result starts from: the cover while the credential's quota is
\* in force, the model's own layer otherwise.
LEMMA NormalisedLayer ==
    ASSUME now \in Nat, NEW s0 \in {None} \cup ModelStates, NEW o \in Nat, NEW k \in Nat,
           NEW c \in Nat, NEW ck \in Nat, Accounted(s0, o, k, c, ck, now),
           c > now <=> CredLive(quota)
    PROVE  LET s == Normalised(Base(s0), quota)
           IN  /\ CredLive(quota) => /\ s = Base(s0)
                                     /\ IF s0 = None THEN o <= now
                                        ELSE s0.wrapped /\ Cover(s0, o, k, c, ck, now)
               /\ ~ CredLive(quota) => /\ Layer(s, o, k, now) /\ c <= now
                                       /\ s0 # None /\ s0.retry > now => s.retry >= s0.retry
<1>. DEFINE s == Normalised(Base(s0), quota)
<1>1. ~ Wrapped(Clean)
  BY DEF Wrapped, Clean
<1>2. CASE CredLive(quota)
  <2>1. s = Base(s0)
    BY <1>2 DEF Normalised
  <2>2. s0 # None => s0.wrapped
    BY <1>2 DEF Accounted
  <2>. QED
    BY <1>2, <2>1, <2>2 DEF Accounted
<1>3. CASE ~ CredLive(quota) /\ s0 = None
  <2>1. s = Clean
    BY <1>1, <1>3 DEF Normalised, Base
  <2>2. o <= now /\ c <= now
    BY <1>3 DEF Accounted
  <2>. QED
    BY <1>3, <2>1, <2>2, CleanLayer
<1>4. CASE ~ CredLive(quota) /\ s0 # None /\ ~ s0.wrapped
  <2>1. Layer(s0, o, k, now) /\ c <= now
    BY <1>4 DEF Accounted
  <2>2. s = s0
    BY <1>4, <2>1 DEF Normalised, Base, Wrapped, Layer
  <2>3. s0.retry \in Nat
    BY <2>1 DEF Layer, Shadows
  <2>. QED
    BY <1>4, <2>1, <2>2, <2>3
<1>5. CASE ~ CredLive(quota) /\ s0 # None /\ s0.wrapped
  <2>1. Cover(s0, o, k, c, ck, now) /\ c <= now
    BY <1>5 DEF Accounted
  <2>2. s = Unwrapped(s0)
    BY <1>5 DEF Normalised, Base, Wrapped
  <2>3. s0.retry \in Nat
    BY <1>5 DEF ModelStates
  <2>4. s0.retry > now => s0.retry <= o
    <3>1. s0.retry > now => s0.retry <= Later(c, o)
      BY <2>1 DEF Cover, Within
    <3>. QED
      BY <2>1, <2>3, <3>1, OwnDeadline
  <2>5. Layer(s, o, k, now)
    BY <2>1, <2>2, UnwrappedLayer
  <2>6. s0.retry > now => s.retry = o
    <3>1. o > now => s.retry = o
      BY <2>5 DEF Layer
    <3>2. s0.retry > now => o > now
      <4>. HIDE DEF s
      <4>. QED
        BY <2>3, <2>4
    <3>. QED
      BY <3>1, <3>2
  <2>. QED
    BY <1>5, <2>1, <2>3, <2>4, <2>5, <2>6
<1>. QED
  BY <1>2, <1>3, <1>4, <1>5

\* How a failure of the credential's quota moves its deadline.
LEMMA QuotaMoves ==
    ASSUME now \in Nat, cred \in Nat, quota.until \in Nat, CredInv,
           NEW kind \in {"credquota", "credhint"}, NEW d \in Backoffs, NEW s, NEW m
    PROVE  LET due == Justified(kind, s, d)
               c2  == Later(cred, due)
               p   == QuotaNext(kind, s, d)
           IN  /\ p \in Nat /\ p > now /\ p <= c2
               /\ c2 \in Nat /\ c2 > now /\ c2 >= cred
               /\ CredentialQuota(m, kind, d) = [reason |-> "credential_quota", until |-> c2]
<1>. DEFINE due == Justified(kind, s, d)
            c2  == Later(cred, due)
            p   == QuotaNext(kind, s, d)
            x   == IF quota.reason = "credential_quota" THEN quota.until ELSE 0
<1>1. Long \in Nat \ {0} /\ d \in Nat \ {0}
  BY TimesAssumption
<1>2. p = QuotaNext(kind, Clean, d)
  BY DEF QuotaNext, Continued, Scoped
<1>3. CredentialQuota(m, kind, d) = [reason |-> "credential_quota", until |-> Later(p, x)]
  BY <1>2 DEF CredentialQuota, Scoped
<1>4. x \in Nat /\ (CredLive(quota) => x = cred /\ cred > now) /\ (~ CredLive(quota) => x <= now /\ cred <= now)
  <2>1. CASE quota.reason = "credential_quota"
    <3>1. x = quota.until
      BY <2>1
    <3>. HIDE DEF x
    <3>. QED
      BY <2>1, <3>1 DEF CredInv, CredLive
  <2>2. CASE quota.reason # "credential_quota"
    <3>1. x = 0
      BY <2>2
    <3>. HIDE DEF x
    <3>. QED
      BY <2>2, <3>1 DEF CredInv, CredLive
  <2>. QED
    BY <2>1, <2>2
<1>5. \/ p = now + Long /\ due = now + Long
      \/ CredLive(quota) /\ p = cred /\ due = 0
      \/ ~ CredLive(quota) /\ p = now + d /\ due = now + d
  <2>1. CASE kind = "credhint"
    BY <2>1 DEF QuotaNext, Justified
  <2>2. CASE kind = "credquota"
    <3>1. /\ Continued(kind, s) = IF quota.reason = "credential_quota" THEN quota ELSE NoQuota
      BY <2>2 DEF Continued, Scoped
    <3>2. Continued(kind, s).until > now <=> CredLive(quota)
      <4>1. CASE quota.reason = "credential_quota"
        BY <3>1, <4>1 DEF CredLive
      <4>2. CASE quota.reason # "credential_quota"
        <5>1. Continued(kind, s).until = 0 /\ ~ CredLive(quota)
          <6>1. Continued(kind, s) = NoQuota
            BY <3>1, <4>2
          <6>2. NoQuota.until = 0
            BY DEF NoQuota
          <6>. QED
            BY <4>2, <6>1, <6>2 DEF CredLive
        <5>2. ~ (0 > now)
          OBVIOUS
        <5>. QED
          BY <5>1, <5>2
      <4>. QED
        BY <4>1, <4>2
    <3>3. p = IF CredLive(quota) THEN Continued(kind, s).until ELSE now + d
      BY <2>2, <3>2 DEF QuotaNext, QuotaWindow
    <3>4. due = IF CredLive(quota) THEN 0 ELSE now + d
      BY <2>2, <3>2 DEF Justified
    <3>5. CredLive(quota) => Continued(kind, s).until = cred
      BY <3>1 DEF CredLive, CredInv
    <3>. QED
      BY <3>3, <3>4, <3>5
  <2>. QED
    BY <2>1, <2>2
<1>6. SUFFICES p \in Nat /\ p > now /\ p <= c2 /\ c2 \in Nat /\ c2 > now /\ c2 >= cred /\ Later(p, x) = c2
  BY <1>3
<1>. HIDE DEF due, p, x
<1>7. due \in Nat /\ p \in Nat
  BY <1>1, <1>5
<1>. QED
  BY <1>1, <1>4, <1>5, <1>7 DEF Later

\* The record e that a propagation until c2 makes of the state s: its deadlines
\* are those of s or nearer than c2, and none is brought forward.
Deepened(s, e, c2) ==
    /\ e \in ModelStates /\ e.wrapped /\ e.reason # "" /\ e.seq = seq
    /\ e.until <= c2 \/ e.until = s.until
    /\ s.retry > now => e.retry >= s.retry
    /\ e.retry = s.retry \/ e.retry <= c2 \/ e.retry = s.until

\* A propagation over the state s keeps the model's own layer beneath it.
LEMMA CoverAgain ==
    ASSUME now \in Nat, seq \in Nat, NEW s \in ModelStates, NEW o \in Nat, NEW k \in Nat, k <= seq,
           NEW c \in Nat, NEW ck \in Nat, NEW c2 \in Nat, c2 >= c, NEW e, Deepened(s, e, c2),
           \/ /\ Cover(s, o, k, c, ck, now)
              /\ e.shadow = s.shadow
           \/ /\ Layer(s, o, k, now)
              /\ e.shadow = None => s.retry <= now
              /\ e.shadow # None => Layer(e.shadow, o, k, now)
    PROVE  Cover(e, o, k, c2, seq, now)
<1>1. /\ s.retry \in Nat /\ s.until \in Nat
      /\ e \in ModelStates /\ e.retry \in Nat /\ e.until \in Nat
  BY DEF ModelStates, Deepened
<1>2. Within(s.until, s.retry, o, Later(c2, o), now)
  <2>1. CASE Cover(s, o, k, c, ck, now)
    <3>1. Within(s.until, s.retry, o, Later(c, o), now)
      BY <2>1 DEF Cover
    <3>2. Later(c, o) <= Later(c2, o) /\ Later(c, o) \in Nat /\ Later(c2, o) \in Nat
      BY LaterGrows, LaterIs
    <3>. QED
      BY <1>1, <3>1, <3>2, WithinMore
  <2>2. CASE Layer(s, o, k, now)
    <3>1. /\ s.until > now => s.retry >= s.until
          /\ s.retry > now \/ o > now => s.retry = o
      BY <2>2 DEF Layer
    <3>2. Within(s.until, s.retry, o, o, now)
      BY <1>1, <3>1 DEF Within
    <3>3. Later(c2, o) \in Nat /\ Later(c2, o) >= o
      BY LaterIs
    <3>. QED
      BY <1>1, <3>2, <3>3, WithinMore
  <2>. QED
    BY <2>1, <2>2
<1>3. Later(c2, o) \in Nat /\ Later(c2, o) >= c2
  BY LaterIs
<1>4. Within(e.until, e.retry, o, Later(c2, o), now)
  <2>1. /\ e.until <= c2 \/ e.until = s.until
        /\ s.retry > now => e.retry >= s.retry
        /\ e.retry = s.retry \/ e.retry <= c2 \/ e.retry = s.until
    BY DEF Deepened
  <2>. QED
    BY <1>1, <1>2, <1>3, <2>1, WithinDeeper
<1>5. Later(k, seq) = seq
  BY LaterOfBoth
<1>6. IF e.shadow = None THEN o <= now ELSE Layer(e.shadow, o, k, now)
  <2>1. CASE Cover(s, o, k, c, ck, now) /\ e.shadow = s.shadow
    BY <2>1 DEF Cover
  <2>2. CASE Layer(s, o, k, now) /\ (e.shadow = None => s.retry <= now)
               /\ (e.shadow # None => Layer(e.shadow, o, k, now))
    <3>1. o > now => s.retry = o
      BY <2>2 DEF Layer
    <3>2. s.retry <= now => o <= now
      BY <1>1, <3>1, Lapsed
    <3>. QED
      BY <2>2, <3>2
  <2>. QED
    BY <2>1, <2>2
<1>. QED
  BY <1>4, <1>5, <1>6 DEF Cover, Deepened

\* What a new result on model m starts from, and the layer a failure of the
\* model's own is added to.
Start(m) == Normalised(Base(st[m]), quota)
Beneath(s) == IF s.shadow # None THEN s.shadow ELSE Clean
OwnLayer(m) == IF CredLive(quota) THEN Beneath(Start(m)) ELSE Start(m)

LEMMA StartLayer ==
    ASSUME IInv, NEW m \in Models
    PROVE  /\ Start(m) \in ModelStates
           /\ Layer(OwnLayer(m), own[m], ownSeq[m], now)
           /\ st[m] # None /\ st[m].retry > now => Start(m).retry >= st[m].retry
           /\ CredLive(quota) => /\ Start(m) = Base(st[m])
                                 /\ st[m] # None => st[m].wrapped
           /\ \/ Start(m).wrapped /\ Cover(Start(m), own[m], ownSeq[m], cred, credSeq, now)
              \/ /\ ~ Wrapped(Start(m))
                 /\ Layer(Start(m), own[m], ownSeq[m], now)
<1>1. /\ now \in Nat /\ st[m] \in {None} \cup ModelStates /\ own[m] \in Nat /\ ownSeq[m] \in Nat
      /\ cred \in Nat /\ credSeq \in Nat /\ (cred > now <=> CredLive(quota))
      /\ Accounted(st[m], own[m], ownSeq[m], cred, credSeq, now)
  BY DEF IInv, TypeOK, ModelInv, CredInv
<1>2. /\ CredLive(quota) => /\ Start(m) = Base(st[m])
                            /\ IF st[m] = None THEN own[m] <= now
                               ELSE st[m].wrapped
                                    /\ Cover(st[m], own[m], ownSeq[m], cred, credSeq, now)
      /\ ~ CredLive(quota) => /\ Layer(Start(m), own[m], ownSeq[m], now) /\ cred <= now
                              /\ st[m] # None /\ st[m].retry > now
                                   => Start(m).retry >= st[m].retry
  BY <1>1, NormalisedLayer DEF Start
<1>3. CASE ~ CredLive(quota)
  <2>1. Layer(Start(m), own[m], ownSeq[m], now) /\ OwnLayer(m) = Start(m)
    BY <1>2, <1>3 DEF OwnLayer
  <2>2. ~ Wrapped(Start(m)) /\ Start(m) \in Shadows
    BY <2>1 DEF Layer, Wrapped
  <2>. QED
    BY <1>2, <1>3, <2>1, <2>2, ShadowIsState
<1>4. CASE CredLive(quota) /\ st[m] = None
  <2>1. own[m] <= now /\ Start(m) = Clean
    BY <1>2, <1>4 DEF Base
  <2>2. OwnLayer(m) = Clean /\ ~ Wrapped(Clean)
    <3>1. OwnLayer(m) = Beneath(Clean)
      BY <1>4, <2>1 DEF OwnLayer
    <3>2. Beneath(Clean) = Clean /\ ~ Wrapped(Clean)
      BY DEF Beneath, Clean, Wrapped
    <3>. QED
      BY <3>1, <3>2
  <2>3. Clean \in Shadows /\ Layer(Clean, own[m], ownSeq[m], now)
    BY <1>1, <2>1, CleanLayer
  <2>. QED
    BY <1>2, <1>4, <2>1, <2>2, <2>3, ShadowIsState
<1>5. CASE CredLive(quota) /\ st[m] # None
  <2>1. /\ Start(m) = st[m] /\ st[m] \in ModelStates /\ st[m].wrapped
        /\ Cover(st[m], own[m], ownSeq[m], cred, credSeq, now)
    BY <1>1, <1>2, <1>5 DEF Base
  <2>2. OwnLayer(m) = Beneath(st[m])
    BY <1>5, <2>1 DEF OwnLayer
  <2>3. Layer(Beneath(st[m]), own[m], ownSeq[m], now)
    <3>1. CASE st[m].shadow = None
      <4>1. own[m] <= now /\ Beneath(st[m]) = Clean
        BY <2>1, <3>1 DEF Cover, Beneath
      <4>. QED
        BY <1>1, <4>1, CleanLayer
    <3>2. CASE st[m].shadow # None
      BY <2>1, <3>2 DEF Cover, Beneath
    <3>. QED
      BY <3>1, <3>2
  <2>4. Start(m).retry >= st[m].retry
    <3>1. st[m].retry \in Nat
      BY <2>1 DEF ModelStates
    <3>2. \A n \in Nat : n >= n
      OBVIOUS
    <3>. QED
      BY <2>1, <3>1, <3>2
  <2>. QED
    BY <1>2, <1>5, <2>1, <2>2, <2>3, <2>4
<1>. QED
  BY <1>3, <1>4, <1>5

\* Every propagation of a credential quota until c2 over a model.
LEMMA WrapAgain ==
    ASSUME IInv, NEW m \in Models, NEW c2 \in Nat, c2 >= cred,
           NEW e, Deepened(Start(m), e, c2),
           Wrapped(Start(m)) => e.shadow = Start(m).shadow,
           ~ Wrapped(Start(m)) =>
              /\ e.shadow = None => Start(m).retry <= now
              /\ e.shadow # None => Layer(e.shadow, own[m], ownSeq[m], now)
    PROVE  e \in ModelStates /\ Accounted(e, own[m], ownSeq[m], c2, seq, now)
<1>1. /\ Start(m) \in ModelStates
      /\ \/ Start(m).wrapped /\ Cover(Start(m), own[m], ownSeq[m], cred, credSeq, now)
         \/ /\ ~ Wrapped(Start(m))
            /\ Layer(Start(m), own[m], ownSeq[m], now)
  BY StartLayer
<1>2. /\ now \in Nat /\ seq \in Nat /\ own[m] \in Nat /\ ownSeq[m] \in Nat
      /\ cred \in Nat /\ credSeq \in Nat /\ ownSeq[m] <= seq
  BY DEF IInv, TypeOK, SeqInv
<1>3. \/ /\ Cover(Start(m), own[m], ownSeq[m], cred, credSeq, now)
         /\ e.shadow = Start(m).shadow
      \/ /\ Layer(Start(m), own[m], ownSeq[m], now)
         /\ e.shadow = None => Start(m).retry <= now
         /\ e.shadow # None => Layer(e.shadow, own[m], ownSeq[m], now)
  BY <1>1 DEF Wrapped
<1>4. Cover(e, own[m], ownSeq[m], c2, seq, now)
  BY <1>1, <1>2, <1>3, CoverAgain
<1>5. e \in ModelStates /\ e.wrapped /\ e # None
  BY NoneAssumption DEF Deepened
<1>. QED
  BY <1>4, <1>5 DEF Accounted

\* A credential failure wraps the model that reports it.
LEMMA ScopedReported ==
    ASSUME IInv, NEW m \in Models, NEW kind \in {"credquota", "credhint"}, NEW d \in Backoffs
    PROVE  LET c2 == Later(cred, Justified(kind, Start(m), d))
               e  == Reported(m, kind, d)
           IN  /\ e \in ModelStates /\ Accounted(e, own[m], ownSeq[m], c2, seq, now)
               /\ st[m] # None /\ st[m].retry > now => e.retry >= st[m].retry
<1>. DEFINE s  == Start(m)
            c2 == Later(cred, Justified(kind, s, d))
            e  == Reported(m, kind, d)
            p  == QuotaNext(kind, s, d)
            x  == IF s.reason # "" THEN s.until ELSE 0
            q  == Later(p, x)
            kept == IF s.retry > now THEN [cloneShallow(s) EXCEPT !.unavail = TRUE] ELSE None
            sh == IF ~ Wrapped(s) THEN kept ELSE s.shadow
            r  == IF s.retry > q /\ s.retry > now THEN s.retry ELSE q
<1>1. /\ s \in ModelStates
      /\ st[m] # None /\ st[m].retry > now => s.retry >= st[m].retry
      /\ ~ Wrapped(s) => Layer(s, own[m], ownSeq[m], now)
  BY StartLayer DEF Wrapped
<1>2. /\ now \in Nat /\ seq \in Nat /\ cred \in Nat /\ quota.until \in Nat /\ CredInv
      /\ st[m] # None => st[m].retry \in Nat
  BY DEF IInv, TypeOK, ModelStates
<1>3. /\ p \in Nat /\ p > now /\ p <= c2 /\ c2 \in Nat /\ c2 > now /\ c2 >= cred
  BY <1>2, QuotaMoves
<1>4. /\ s.unavail \in BOOLEAN /\ s.retry \in Nat /\ s.until \in Nat
      /\ s.shadow \in {None} \cup Shadows
  BY <1>1 DEF ModelStates
<1>5. x \in {s.until, 0} /\ x \in Nat
  BY <1>4
<1>6. q \in Nat /\ q >= p /\ (q = p \/ q = x)
  <2>. HIDE DEF p, x
  <2>. QED
    BY <1>3, <1>5, LaterIs
<1>7. kept = None => s.retry <= now
  <2>1. [cloneShallow(s) EXCEPT !.unavail = TRUE] \in Shadows
    BY <1>1 DEF cloneShallow, ModelStates, Shadows
  <2>2. [cloneShallow(s) EXCEPT !.unavail = TRUE] # None
    BY <2>1, ShadowIsState
  <2>3. s.retry > now => kept # None
    BY <2>2
  <2>4. s.retry > now \/ s.retry <= now
    BY <1>2, <1>4
  <2>. QED
    BY <2>3, <2>4
<1>8. ~ Wrapped(s) /\ kept # None => kept \in Shadows /\ Layer(kept, own[m], ownSeq[m], now)
  <2>1. SUFFICES ASSUME ~ Wrapped(s), s.retry > now
                 PROVE  LET g == [cloneShallow(s) EXCEPT !.unavail = TRUE]
                        IN  g \in Shadows /\ Layer(g, own[m], ownSeq[m], now)
    OBVIOUS
  <2>2. Layer(s, own[m], ownSeq[m], now)
    BY <1>1, <2>1
  <2>3. s.unavail /\ s.shadow = None
    BY <1>2, <2>1, <2>2 DEF Layer, Shadows
  <2>4. [cloneShallow(s) EXCEPT !.unavail = TRUE] = s
    <3>1. s \in Shadows
      BY <2>2 DEF Layer
    <3>. HIDE DEF s
    <3>. QED
      BY <2>3, <3>1 DEF cloneShallow, Shadows
  <2>. QED
    BY <2>2, <2>4 DEF Layer
<1>9. sh \in {None} \cup Shadows
  BY <1>4, <1>8
<1>10. e = [[Extended([s EXCEPT !.retry = q, !.until = q, !.reason = "quota",
                                !.unavail = TRUE, !.shadow = s.shadow], s.retry)
              EXCEPT !.seq = seq] EXCEPT !.wrapped = TRUE, !.shadow = sh]
  <2>1. Failed(s, kind, d) = [s EXCEPT !.retry = q, !.until = q, !.reason = "quota",
                                      !.unavail = TRUE, !.shadow = s.shadow]
    <3>. HIDE DEF s
    <3>1. Failed(s, kind, d) = [[s EXCEPT !.retry = q, !.until = q, !.reason = "quota"]
                                  EXCEPT !.unavail = TRUE, !.shadow = @]
      <4>. HIDE DEF q
      <4>1. q = Later(QuotaNext(kind, s, d), IF s.reason # "" THEN s.until ELSE 0)
        BY DEF q
      <4>. QED
        BY <4>1 DEF Failed
    <3>. HIDE DEF q
    <3>. QED
      BY <1>1, <3>1 DEF ModelStates
  <2>2. Scoped(kind)
    BY DEF Scoped
  <2>3. e = [[Extended(Failed(s, kind, d), s.retry) EXCEPT !.seq = seq]
                EXCEPT !.wrapped = TRUE, !.shadow = sh]
    <3>1. s = Normalised(IF st[m] = None THEN Clean ELSE st[m], quota)
      BY DEF Start, Base
    <3>. HIDE DEF s
    <3>. QED
      BY <2>2, <3>1 DEF Reported
  <2>. HIDE DEF s, q, sh, e
  <2>. QED
    BY <2>1, <2>3
<1>11. e = [unavail |-> TRUE, retry |-> r, until |-> q, reason |-> "quota",
            seq |-> seq, wrapped |-> TRUE, shadow |-> sh]
  <2>. HIDE DEF s, q, sh, e
  <2>. QED
    BY <1>1, <1>10 DEF Extended, ModelStates
<1>12. r \in Nat /\ r >= s.retry /\ (r = s.retry \/ r = q)
  <2>1. (s.retry > q /\ s.retry > now) \/ s.retry <= q
    <3>1. \A a, b, t \in Nat : b > t => (a > b /\ a > t) \/ a <= b
      OBVIOUS
    <3>2. q > now
      <4>. HIDE DEF q, p, x, s, c2
      <4>. QED
        BY <1>2, <1>3, <1>6
    <3>. HIDE DEF s, q, x, p
    <3>. QED
      BY <1>2, <1>4, <1>6, <3>1, <3>2
  <2>2. CASE s.retry > q /\ s.retry > now
    <3>1. r = s.retry
      BY <2>2
    <3>2. \A n \in Nat : n >= n
      OBVIOUS
    <3>. HIDE DEF r, s, q, x, p
    <3>. QED
      BY <1>4, <3>1, <3>2
  <2>3. CASE ~ (s.retry > q /\ s.retry > now)
    <3>1. r = q
      BY <2>3
    <3>2. s.retry <= q
      BY <2>1, <2>3
    <3>. HIDE DEF r, s, q, x, p
    <3>. QED
      BY <1>4, <1>6, <3>1, <3>2
  <2>. QED
    BY <2>2, <2>3
<1>13. Deepened(s, e, c2)
  <2>1. e \in ModelStates /\ e.wrapped /\ e.reason # "" /\ e.seq = seq
        /\ e.until = q /\ e.retry = r
    <3>. HIDE DEF s, q, sh, e, r
    <3>. QED
      BY <1>2, <1>6, <1>9, <1>11, <1>12 DEF ModelStates, Reasons
  <2>2. q <= c2 \/ q = s.until
    <3>. HIDE DEF s, q, x, p, c2
    <3>. QED
      BY <1>3, <1>4, <1>5, <1>6
  <2>. HIDE DEF s, q, e, r, c2
  <2>. QED
    BY <1>12, <2>1, <2>2 DEF Deepened
<1>14. e.shadow = sh /\ e.retry = r
  <2>. HIDE DEF s, q, sh, e, r
  <2>. QED
    BY <1>11
<1>15. /\ Wrapped(s) => e.shadow = s.shadow
       /\ ~ Wrapped(s) => /\ e.shadow = None => s.retry <= now
                          /\ e.shadow # None => Layer(e.shadow, own[m], ownSeq[m], now)
  BY <1>7, <1>8, <1>14
<1>16. st[m] # None /\ st[m].retry > now => e.retry >= st[m].retry
  <2>1. \A a, b, c \in Nat : a >= b /\ b >= c => a >= c
    OBVIOUS
  <2>2. /\ e.retry = r /\ r \in Nat /\ r >= s.retry
        /\ st[m] # None /\ st[m].retry > now => s.retry >= st[m].retry
    BY <1>1, <1>12, <1>14
  <2>. HIDE DEF s, e, r
  <2>. QED
    BY <1>2, <1>4, <2>1, <2>2
<1>17. e \in ModelStates /\ Accounted(e, own[m], ownSeq[m], c2, seq, now)
  <2>. HIDE DEF e, c2
  <2>. QED
    BY <1>3, <1>13, <1>15, WrapAgain
<1>. QED
  BY <1>16, <1>17

\* It wraps every other model that has a state.
LEMMA ScopedPropagated ==
    ASSUME IInv, NEW m \in Models, st[m] # None,
           NEW c2 \in Nat, c2 >= cred, NEW p \in Nat, p > now, p <= c2
    PROVE  LET e == Propagated(st[m], p)
           IN  e \in ModelStates /\ Accounted(e, own[m], ownSeq[m], c2, seq, now)
<1>. DEFINE s  == Start(m)
            e  == Propagated(st[m], p)
            x  == IF s.reason # "" THEN s.until ELSE 0
            q  == Later(p, x)
            r  == Later(s.retry, q)
            kept == IF isModelStateActiveCooldown(s) THEN cloneShallow(s) ELSE None
            sh == IF Wrapped(s) THEN s.shadow ELSE kept
<1>1. /\ s \in ModelStates
      /\ ~ Wrapped(s) => Layer(s, own[m], ownSeq[m], now)
  BY StartLayer DEF Wrapped
<1>2. now \in Nat /\ seq \in Nat /\ cred \in Nat
  BY DEF IInv, TypeOK
<1>4. /\ s.unavail \in BOOLEAN /\ s.retry \in Nat /\ s.until \in Nat
      /\ s.shadow \in {None} \cup Shadows
  BY <1>1 DEF ModelStates
<1>5. x \in {s.until, 0} /\ x \in Nat
  BY <1>4
<1>6. q \in Nat /\ q >= p /\ (q = p \/ q = x)
  <2>. HIDE DEF x
  <2>. QED
    BY <1>5, LaterIs
<1>7. r \in Nat /\ r >= s.retry /\ (r = s.retry \/ r = q)
  <2>. HIDE DEF q, x, s
  <2>. QED
    BY <1>4, <1>6, LaterIs
<1>8. kept = None => s.retry <= now
  <2>1. cloneShallow(s) # None
    BY <1>1, ShadowShape, ShadowIsState
  <2>2. s.retry > now => kept # None
    BY <2>1 DEF isModelStateActiveCooldown
  <2>3. s.retry > now \/ s.retry <= now
    BY <1>2, <1>4
  <2>. QED
    BY <2>2, <2>3
<1>9. ~ Wrapped(s) /\ kept # None => kept \in Shadows /\ Layer(kept, own[m], ownSeq[m], now)
  <2>1. own[m] \in Nat /\ ownSeq[m] \in Nat
    BY DEF IInv, TypeOK
  <2>2. ~ Wrapped(s) => Layer(cloneShallow(s), own[m], ownSeq[m], now)
    <3>. HIDE DEF s
    <3>. QED
      BY <1>1, <1>2, <2>1, CloneLayer
  <2>. QED
    BY <1>1, <2>2, ShadowShape
<1>10. sh \in {None} \cup Shadows
  BY <1>4, <1>9
<1>11. e = [unavail |-> TRUE, retry |-> r, until |-> q, reason |-> "credential_quota",
            seq |-> seq, wrapped |-> TRUE, shadow |-> sh]
  <2>1. s = Normalised(st[m], quota)
    BY DEF Start, Base
  <2>2. e = [s EXCEPT !.shadow = sh, !.wrapped = TRUE, !.unavail = TRUE, !.seq = seq,
                      !.retry = r, !.until = q, !.reason = "credential_quota"]
    <3>. HIDE DEF s
    <3>. QED
      BY <2>1, <1>1 DEF Propagated, ModelStates
  <2>. HIDE DEF s, q, r, sh, e
  <2>. QED
    BY <1>1, <2>2 DEF ModelStates
<1>12. e.shadow = sh /\ Deepened(s, e, c2)
  <2>1. e \in ModelStates /\ e.wrapped /\ e.reason # "" /\ e.seq = seq
        /\ e.until = q /\ e.retry = r /\ e.shadow = sh
    <3>. HIDE DEF s, q, sh, e, r
    <3>. QED
      BY <1>2, <1>6, <1>7, <1>10, <1>11 DEF ModelStates, Reasons
  <2>2. q <= c2 \/ q = s.until
    <3>. HIDE DEF s, q, x
    <3>. QED
      BY <1>4, <1>5, <1>6
  <2>. HIDE DEF s, q, e, r
  <2>. QED
    BY <1>7, <2>1, <2>2 DEF Deepened
<1>13. /\ Wrapped(s) => e.shadow = s.shadow
       /\ ~ Wrapped(s) => /\ e.shadow = None => s.retry <= now
                          /\ e.shadow # None => Layer(e.shadow, own[m], ownSeq[m], now)
  <2>. HIDE DEF e, kept
  <2>. QED
    BY <1>8, <1>9, <1>12
<1>. SUFFICES e \in ModelStates /\ Accounted(e, own[m], ownSeq[m], c2, seq, now)
  OBVIOUS
<1>. HIDE DEF e
<1>. QED
  BY <1>12, <1>13, WrapAgain

\* A model's own failure beneath a credential quota in force stays beneath it.
LEMMA OwnBeneath ==
    ASSUME IInv, CredLive(quota), NEW m \in Models, NEW kind \in OwnKinds, NEW d \in Backoffs
    PROVE  LET o2 == Later(own[m], Justified(kind, OwnLayer(m), d))
               e  == Reported(m, kind, d)
           IN  /\ e \in ModelStates /\ o2 \in Nat
               /\ Accounted(e, o2, seq, cred, credSeq, now)
               /\ st[m] # None /\ st[m].retry > now => e.retry >= st[m].retry
<1>. DEFINE s  == Start(m)
            f  == OwnLayer(m)
            o2 == Later(own[m], Justified(kind, f, d))
            h  == FailedNow(f, kind, d)
            e  == Reported(m, kind, d)
            u  == IF s.reason = "credential_quota" THEN s.until ELSE quota.until
            r  == Later(Later(s.retry, h.retry), quota.until)
<1>1. /\ s \in ModelStates
      /\ Layer(f, own[m], ownSeq[m], now)
      /\ st[m] # None /\ st[m].retry > now => s.retry >= st[m].retry
      /\ s = Base(st[m]) /\ (st[m] # None => st[m].wrapped)
  BY StartLayer
<1>2. /\ now \in Nat /\ seq \in Nat /\ cred \in Nat /\ credSeq \in Nat /\ credSeq <= seq
      /\ own[m] \in Nat /\ ownSeq[m] \in Nat /\ quota.until = cred /\ cred > now
      /\ st[m] \in {None} \cup ModelStates
      /\ st[m] # None => Accounted(st[m], own[m], ownSeq[m], cred, credSeq, now)
  BY DEF IInv, TypeOK, SeqInv, CredInv, ModelInv
<1>3. Layer(h, o2, seq, now) /\ h.retry > now /\ o2 \in Nat
  BY <1>1, <1>2, FailedLayer
<1>4. Within(s.until, s.retry, own[m], Later(cred, own[m]), now)
  <2>1. CASE st[m] = None
    <3>1. s = Clean
      BY <1>1, <2>1 DEF Base
    <3>2. s.until = 0 /\ s.retry = 0
      <4>1. Clean.until = 0 /\ Clean.retry = 0
        BY DEF Clean
      <4>. HIDE DEF s
      <4>. QED
        BY <3>1, <4>1
    <3>3. own[m] <= now
      BY <2>1 DEF IInv, ModelInv, Accounted
    <3>. HIDE DEF s
    <3>. QED
      BY <1>2, <3>2, <3>3 DEF Within
  <2>2. CASE st[m] # None
    BY <1>1, <1>2, <2>2 DEF Base, Accounted, Cover
  <2>. QED
    BY <2>1, <2>2
<1>5. /\ s.until \in Nat /\ s.retry \in Nat /\ h.retry \in Nat /\ h \in Shadows
      /\ h.retry = o2
  <2>. HIDE DEF h, s, o2
  <2>. QED
    BY <1>1, <1>3 DEF ModelStates, Shadows, Layer
<1>6. o2 >= own[m]
  <2>1. Justified(kind, f, d) \in Nat
    BY <1>1, <1>2, FailedFields
  <2>. HIDE DEF f
  <2>. QED
    BY <1>2, <2>1, LaterIs
<1>7. u \in {s.until, quota.until}
  OBVIOUS
<1>8. e = [unavail |-> TRUE, retry |-> r, until |-> u, reason |-> "credential_quota",
           seq |-> seq, wrapped |-> TRUE, shadow |-> cloneShallow(h)]
  <2>1. s = Normalised(IF st[m] = None THEN Clean ELSE st[m], quota)
    BY DEF Start, Base
  <2>2. f = IF s.shadow # None THEN s.shadow ELSE Clean
    BY DEF OwnLayer, Beneath
  <2>3. ~ Scoped(kind)
    BY DEF Scoped, OwnKinds
  <2>4. h = [Extended(Failed(f, kind, d), f.retry) EXCEPT !.seq = seq]
    BY DEF FailedNow
  <2>5. e = Composed(cloneShallow(s), h)
    <3>. HIDE DEF s, f, h
    <3>. QED
      BY <2>1, <2>2, <2>3, <2>4 DEF Reported
  <2>6. isModelStateActiveCooldown(h)
    BY <1>3 DEF isModelStateActiveCooldown
  <2>. HIDE DEF h, s, e
  <2>. QED
    BY <1>1, <2>5, <2>6 DEF Composed, cloneShallow, ModelStates
<1>9. /\ r \in Nat /\ r >= s.retry /\ r >= h.retry
      /\ (r = s.retry \/ r = h.retry \/ r = quota.until)
  <2>1. /\ Later(s.retry, h.retry) \in Nat /\ Later(s.retry, h.retry) >= s.retry
        /\ Later(s.retry, h.retry) >= h.retry
        /\ (Later(s.retry, h.retry) = s.retry \/ Later(s.retry, h.retry) = h.retry)
    <3>. HIDE DEF h, s
    <3>. QED
      BY <1>5, LaterIs
  <2>2. /\ r \in Nat /\ r >= Later(s.retry, h.retry)
        /\ (r = Later(s.retry, h.retry) \/ r = quota.until)
    BY <1>2, <2>1, LaterIs
  <2>. HIDE DEF h, s, r
  <2>. QED
    BY <1>2, <1>5, <2>1, <2>2
<1>10. Within(u, r, o2, Later(cred, o2), now)
  <2>1. /\ Later(cred, o2) \in Nat /\ Later(cred, o2) >= cred /\ Later(cred, o2) >= o2
    BY <1>2, <1>3, LaterIs
  <2>2. Later(cred, own[m]) \in Nat /\ Later(cred, own[m]) <= Later(cred, o2)
    <3>. HIDE DEF o2
    <3>. QED
      BY <1>2, <1>3, <1>6 DEF Later
  <2>. HIDE DEF u, r, s, h, o2
  <2>. QED
    BY <1>2, <1>3, <1>4, <1>5, <1>7, <1>9, <2>1, <2>2 DEF Within
<1>11. /\ e \in ModelStates /\ e.wrapped /\ e.reason # "" /\ e.seq = seq
       /\ e.until = u /\ e.retry = r /\ e.shadow = cloneShallow(h) /\ e # None
  <2>1. h \in ModelStates /\ cloneShallow(h) \in Shadows
    BY <1>5, ShadowIsState, ShadowShape
  <2>2. u \in Nat
    <3>. HIDE DEF u, s
    <3>. QED
      BY <1>2, <1>5, <1>7
  <2>3. e \in ModelStates /\ e.wrapped /\ e.reason # "" /\ e.seq = seq
       /\ e.until = u /\ e.retry = r /\ e.shadow = cloneShallow(h)
    <3>. HIDE DEF h, e, u, r
    <3>. QED
      BY <1>2, <1>8, <1>9, <2>1, <2>2 DEF ModelStates, Reasons
  <2>. HIDE DEF e
  <2>. QED
    BY <2>3, NoneAssumption
<1>12. Accounted(e, o2, seq, cred, credSeq, now)
  <2>1. Layer(cloneShallow(h), o2, seq, now) /\ cloneShallow(h) # None
    <3>1. cloneShallow(h) \in Shadows
      BY <1>5, ShadowIsState, ShadowShape
    <3>. HIDE DEF h, o2
    <3>. QED
      BY <1>2, <1>3, <3>1, CloneLayer, ShadowIsState
  <2>2. Later(seq, credSeq) = seq
    BY <1>2, LaterOfBoth
  <2>. HIDE DEF e, u, r, h, o2
  <2>. QED
    BY <1>10, <1>11, <2>1, <2>2 DEF Accounted, Cover
<1>13. st[m] # None /\ st[m].retry > now => e.retry >= st[m].retry
  <2>1. \A a, b, c \in Nat : a >= b /\ b >= c => a >= c
    OBVIOUS
  <2>2. st[m] # None => st[m].retry \in Nat
    BY <1>2 DEF ModelStates
  <2>. HIDE DEF e, r, s
  <2>. QED
    BY <1>1, <1>5, <1>9, <1>11, <2>1, <2>2
<1>. QED
  BY <1>3, <1>11, <1>12, <1>13

\* Without a credential quota in force, the failure extends the model's layer.
LEMMA OwnAlone ==
    ASSUME IInv, ~ CredLive(quota), NEW m \in Models, NEW kind \in OwnKinds, NEW d \in Backoffs
    PROVE  LET o2 == Later(own[m], Justified(kind, OwnLayer(m), d))
               e  == Reported(m, kind, d)
           IN  /\ e \in ModelStates /\ o2 \in Nat
               /\ Accounted(e, o2, seq, cred, credSeq, now)
               /\ st[m] # None /\ st[m].retry > now => e.retry >= st[m].retry
<1>. DEFINE s  == Start(m)
            f  == OwnLayer(m)
            o2 == Later(own[m], Justified(kind, f, d))
            e  == Reported(m, kind, d)
<1>1. /\ f = s /\ Layer(f, own[m], ownSeq[m], now)
      /\ st[m] # None /\ st[m].retry > now => s.retry >= st[m].retry
  BY StartLayer DEF OwnLayer
<1>2. /\ now \in Nat /\ seq \in Nat /\ cred \in Nat /\ credSeq \in Nat /\ credSeq <= seq
      /\ own[m] \in Nat /\ ownSeq[m] \in Nat /\ cred <= now
      /\ st[m] \in {None} \cup ModelStates
  BY DEF IInv, TypeOK, SeqInv, CredInv
<1>3. /\ Layer(FailedNow(f, kind, d), o2, seq, now) /\ o2 \in Nat
      /\ FailedNow(f, kind, d).retry >= f.retry
  BY <1>1, <1>2, FailedLayer
<1>4. e = FailedNow(f, kind, d)
  <2>1. s = Normalised(IF st[m] = None THEN Clean ELSE st[m], quota)
    BY DEF Start, Base
  <2>2. ~ Scoped(kind)
    BY DEF Scoped, OwnKinds
  <2>. HIDE DEF s
  <2>. QED
    BY <1>1, <2>1, <2>2 DEF Reported, FailedNow
<1>. HIDE DEF o2, e
<1>5. Layer(e, o2, seq, now) /\ e \in Shadows /\ e \in ModelStates /\ e # None /\ ~ e.wrapped
  BY <1>3, <1>4, ShadowIsState DEF Layer
<1>6. Accounted(e, o2, seq, cred, credSeq, now)
  BY <1>2, <1>5 DEF Accounted
<1>7. st[m] # None /\ st[m].retry > now => e.retry >= st[m].retry
  <2>1. \A a, b, c \in Nat : a >= b /\ b >= c => a >= c
    OBVIOUS
  <2>2. st[m] # None => st[m].retry \in Nat
    BY <1>2 DEF ModelStates
  <2>3. f.retry \in Nat /\ e.retry \in Nat /\ e.retry >= f.retry
    BY <1>1, <1>3, <1>4, <1>5 DEF Layer, Shadows
  <2>. HIDE DEF s, f
  <2>. QED
    BY <1>1, <2>1, <2>2, <2>3
<1>. QED
  BY <1>3, <1>5, <1>6, <1>7 DEF o2, e

-----------------------------------------------------------------------------
(***************************************************************************)
(* The aggregated availability                                             *)
(***************************************************************************)
LEMMA MinIsNat ==
    ASSUME NEW S \in SUBSET Nat, S # {}
    PROVE  Min(S) \in S
<1>. DEFINE R == OpToRel(<, Nat)
<1>1. IsWellFoundedOn(R, Nat)
  BY NatLessThanWellFounded
<1>2. \A a, b \in Nat : a < b => <<a, b>> \in R
  BY DEF OpToRel
<1>. HIDE DEF R
<1>3. PICK x \in S : \A y \in S : ~ (<<y, x>> \in R)
  BY <1>1, WFMin
<1>4. ASSUME NEW y \in S PROVE x <= y
  <2>1. ~ (y < x)
    BY <1>2, <1>3
  <2>. QED
    BY <2>1
<1>. QED
  BY <1>3, <1>4 DEF Min

States == [Models -> {None} \cup ModelStates]
Quotas == [reason : Reasons, until : Nat]

\* Clearing a deadline that has passed changes no cooldown.
LEMMA ClearedIsAccounted ==
    ASSUME now \in Nat, NEW s \in ModelStates, NEW o \in Nat, NEW k \in Nat,
           NEW c \in Nat, NEW ck \in Nat, Accounted(s, o, k, c, ck, now), s.retry \in 1..now
    PROVE  LET e == [s EXCEPT !.unavail = FALSE, !.retry = 0]
           IN  e \in ModelStates /\ Accounted(e, o, k, c, ck, now)
<1>. DEFINE e == [s EXCEPT !.unavail = FALSE, !.retry = 0]
<1>1. /\ e \in ModelStates /\ e.retry = 0 /\ e.until = s.until /\ e.reason = s.reason
      /\ e.seq = s.seq /\ e.wrapped = s.wrapped /\ e.shadow = s.shadow
  BY DEF ModelStates
<1>2. e # None /\ s # None
  BY <1>1, NoneAssumption
<1>3. s.retry \in Nat /\ ~ (s.retry > now) /\ s.until \in Nat
  BY DEF ModelStates
<1>4. CASE s.wrapped
  <2>1. Cover(s, o, k, c, ck, now)
    BY <1>2, <1>4 DEF Accounted
  <2>2. Within(e.until, e.retry, o, Later(c, o), now)
    <3>1. Within(s.until, s.retry, o, Later(c, o), now)
      BY <2>1 DEF Cover
    <3>2. Later(c, o) \in Nat
      BY LaterIs
    <3>. HIDE DEF e
    <3>. QED
      BY <1>1, <1>3, <3>1, <3>2 DEF Within
  <2>3. Cover(e, o, k, c, ck, now)
    <3>. HIDE DEF e
    <3>. QED
      BY <1>1, <1>4, <2>1, <2>2 DEF Cover
  <2>4. Accounted(e, o, k, c, ck, now)
    <3>. HIDE DEF e
    <3>. QED
      BY <1>1, <1>2, <1>4, <2>3 DEF Accounted
  <2>. QED
    BY <1>1, <2>4
<1>5. CASE ~ s.wrapped
  <2>1. Layer(s, o, k, now) /\ c <= now /\ (o > now => ck <= k)
    BY <1>2, <1>5 DEF Accounted
  <2>2. ~ (s.until > now) /\ ~ (o > now) /\ ~ (0 > now)
    BY <1>3, <2>1 DEF Layer
  <2>3. e \in Shadows
    BY <2>1 DEF Layer, Shadows
  <2>4. Layer(e, o, k, now)
    <3>. HIDE DEF e
    <3>. QED
      BY <1>1, <2>1, <2>2, <2>3 DEF Layer
  <2>5. Accounted(e, o, k, c, ck, now)
    <3>. HIDE DEF e
    <3>. QED
      BY <1>1, <1>2, <1>5, <2>1, <2>4 DEF Accounted
  <2>. QED
    BY <1>1, <2>5
<1>. QED
  BY <1>1, <1>4, <1>5

LEMMA AggregatedModel ==
    ASSUME now \in Nat, NEW f \in States, NEW q, NEW m \in Models, NEW o \in Nat, NEW k \in Nat,
           NEW c \in Nat, NEW ck \in Nat, Accounted(f[m], o, k, c, ck, now)
    PROVE  LET e == AggregatedStates(f, q)[m]
           IN  /\ e \in {None} \cup ModelStates
               /\ Accounted(e, o, k, c, ck, now)
               /\ e = f[m] \/ (f[m] # None /\ f[m].retry \in 1..now)
<1>1. f[m] \in {None} \cup ModelStates
  BY DEF States
<1>2. CASE ~ CredLive(q) /\ f[m] # None /\ f[m].unavail /\ f[m].retry \in 1..now
  BY <1>1, <1>2, ClearedIsAccounted DEF AggregatedStates
<1>3. CASE ~ (~ CredLive(q) /\ f[m] # None /\ f[m].unavail /\ f[m].retry \in 1..now)
  <2>1. AggregatedStates(f, q)[m] = f[m]
    BY <1>3 DEF AggregatedStates
  <2>. SUFFICES AggregatedStates(f, q)[m] = f[m]
    BY <1>1
  <2>. QED
    BY <2>1
<1>. QED
  BY <1>2, <1>3

LEMMA AggregatedQuotaType ==
    ASSUME now \in Nat, NEW f \in States, NEW q \in Quotas
    PROVE  /\ AggregatedQuota(f, q) \in Quotas
           /\ CredLive(q) => AggregatedQuota(f, q) = q
           /\ ~ CredLive(q) => ~ CredLive(AggregatedQuota(f, q))
<1>. DEFINE exceeded == {m \in Models : f[m] # None /\ f[m].reason # ""}
            untils   == {f[m].until : m \in exceeded}
            n == Later(q.until, Min(untils))
            a == AggregatedQuota(f, q)
<1>1. CASE CredLive(q)
  <2>1. a = q
    BY <1>1 DEF AggregatedQuota
  <2>. QED
    BY <1>1, <2>1
<1>2. CASE ~ CredLive(q) /\ exceeded # {}
  <2>1. untils \in SUBSET Nat /\ untils # {}
    <3>1. \A m \in Models : f[m] # None => f[m] \in ModelStates
      BY DEF States
    <3>2. \A s \in ModelStates : s.until \in Nat
      BY DEF ModelStates
    <3>3. untils \in SUBSET Nat
      BY <3>1, <3>2
    <3>4. PICK m \in exceeded : TRUE
      BY <1>2
    <3>5. f[m].until \in untils
      BY <3>4
    <3>. HIDE DEF untils
    <3>. QED
      BY <3>3, <3>5
  <2>2. Min(untils) \in Nat
    <3>. HIDE DEF untils
    <3>. QED
      BY <2>1, MinIsNat
  <2>3. n \in Nat
    <3>1. q.until \in Nat
      BY DEF Quotas
    <3>. HIDE DEF untils
    <3>. QED
      BY <2>2, <3>1, LaterIs
  <2>4. a = [reason |-> "quota", until |-> n]
    BY <1>2 DEF AggregatedQuota
  <2>5. a \in Quotas /\ a.reason = "quota"
    <3>. HIDE DEF a, n
    <3>. QED
      BY <2>3, <2>4 DEF Quotas, Reasons
  <2>6. ~ CredLive(a)
    BY <2>5 DEF CredLive
  <2>. QED
    BY <1>2, <2>5, <2>6
<1>3. CASE ~ CredLive(q) /\ exceeded = {}
  <2>1. a = q \/ a = NoQuota
    <3>. HIDE DEF untils, n
    <3>. QED
      BY <1>3 DEF AggregatedQuota
  <2>2. NoQuota \in Quotas /\ ~ CredLive(NoQuota)
    BY DEF NoQuota, Quotas, Reasons, CredLive
  <2>. HIDE DEF a
  <2>3. a \in Quotas /\ ~ CredLive(a)
    BY <1>3, <2>1, <2>2
  <2>. QED
    BY <1>3, <2>3 DEF a
<1>. QED
  BY <1>1, <1>2, <1>3

\* What an operation leaves behind: every cooldown is accounted for, and the
\* credential's quota is in force until c.
Explains(f, q, o, k, c, ck) ==
    /\ f \in States /\ q \in Quotas /\ c \in Nat
    /\ \A m \in Models : Accounted(f[m], o[m], k[m], c, ck, now)
    /\ c > now <=> CredLive(q)
    /\ CredLive(q) => q.until = c

LEMMA AggregateExplains ==
    ASSUME now \in Nat, NEW f, NEW q, NEW o \in [Models -> Nat], NEW k \in [Models -> Nat],
           NEW c, NEW ck \in Nat, Explains(f, q, o, k, c, ck), Aggregate(f, q)
    PROVE  Explains(st', quota', o, k, c, ck)
<1>1. /\ f \in States /\ q \in Quotas /\ c \in Nat
      /\ st' = AggregatedStates(f, q) /\ quota' = AggregatedQuota(f, q)
  BY DEF Explains, Aggregate
<1>2. ASSUME NEW m \in Models
      PROVE  st'[m] \in {None} \cup ModelStates /\ Accounted(st'[m], o[m], k[m], c, ck, now)
  <2>1. Accounted(f[m], o[m], k[m], c, ck, now) /\ o[m] \in Nat /\ k[m] \in Nat
    BY DEF Explains
  <2>. QED
    BY <1>1, <2>1, AggregatedModel
<1>3. st' = [m \in Models |-> st'[m]]
  BY <1>1 DEF AggregatedStates
<1>4. st' \in States
  BY <1>2, <1>3 DEF States
<1>5. /\ quota' \in Quotas /\ (CredLive(q) => quota' = q)
      /\ ~ CredLive(q) => ~ CredLive(quota')
  BY <1>1, AggregatedQuotaType
<1>6. (c > now <=> CredLive(quota')) /\ (CredLive(quota') => quota'.until = c)
  BY <1>5 DEF Explains
<1>. QED
  BY <1>1, <1>2, <1>4, <1>5, <1>6 DEF Explains

LEMMA ExplainsInv ==
    IInv <=> /\ TypeOK /\ SeqInv
             /\ Explains(st, quota, own, ownSeq, cred, credSeq)
BY DEF IInv, TypeOK, ModelInv, CredInv, Explains, States, Quotas

-----------------------------------------------------------------------------
(***************************************************************************)
(* The steps                                                               *)
(***************************************************************************)
\* The next deadlines of a step that leaves the clock alone.
Settled == Explains(st', quota', own', ownSeq', cred', credSeq')

\* Time passes: a layer or a cover accounts for its model later on too.
LEMMA StillAccounted ==
    ASSUME NEW s \in {None} \cup ModelStates, NEW o \in Nat, NEW k \in Nat, NEW c \in Nat,
           NEW ck, NEW t \in Nat, NEW t2 \in Nat, t <= t2, Accounted(s, o, k, c, ck, t)
    PROVE  Accounted(s, o, k, c, ck, t2)
<1>1. \A n \in Nat : (n > t2 => n > t) /\ (n <= t => n <= t2)
  OBVIOUS
<1>2. ASSUME NEW f, Layer(f, o, k, t)
      PROVE  Layer(f, o, k, t2)
  <2>1. f.retry \in Nat /\ f.until \in Nat
    BY <1>2 DEF Layer, Shadows
  <2>. QED
    BY <1>1, <1>2, <2>1 DEF Layer
<1>3. ASSUME s.wrapped, Cover(s, o, k, c, ck, t)
      PROVE  Cover(s, o, k, c, ck, t2)
  <2>1. s.retry \in Nat /\ s.until \in Nat
    BY <1>3 DEF Cover, ModelStates
  <2>2. Within(s.until, s.retry, o, Later(c, o), t2)
    BY <1>1, <1>3, <2>1 DEF Cover, Within
  <2>. QED
    BY <1>1, <1>2, <1>3, <2>2 DEF Cover
<1>. QED
  BY <1>1, <1>2, <1>3 DEF Accounted

\* A deadline that has passed is as good as none.
LEMMA LapsedIsNone ==
    ASSUME now \in Nat, NEW s \in {None} \cup ModelStates, NEW o \in Nat, NEW k \in Nat,
           NEW c \in Nat, NEW ck, o <= now, c <= now, Accounted(s, o, k, c, ck, now)
    PROVE  Accounted(s, 0, k, c, ck, now)
<1>1. ~ (0 > now) /\ 0 <= now /\ ~ (o > now) /\ ~ (c > now)
  OBVIOUS
<1>2. ASSUME NEW f, Layer(f, o, k, now)
      PROVE  Layer(f, 0, k, now)
  <2>1. f.retry \in Nat
    BY <1>2 DEF Layer, Shadows
  <2>2. ~ (f.retry > now)
    BY <1>1, <1>2, <2>1 DEF Layer
  <2>. QED
    BY <1>1, <1>2, <2>2 DEF Layer
<1>3. ASSUME Cover(s, o, k, c, ck, now)
      PROVE  Cover(s, 0, k, c, ck, now)
  <2>1. s.retry \in Nat /\ s.until \in Nat
    BY <1>3 DEF Cover, ModelStates
  <2>2. Later(c, o) <= now /\ Later(c, o) \in Nat
    BY LaterIs
  <2>3. ~ (s.until > now) /\ ~ (s.retry > now)
    <3>1. Within(s.until, s.retry, o, Later(c, o), now)
      BY <1>3 DEF Cover
    <3>. QED
      BY <2>1, <2>2, <3>1 DEF Within
  <2>4. Within(s.until, s.retry, 0, Later(c, 0), now)
    BY <1>1, <2>3 DEF Within
  <2>. QED
    BY <1>1, <1>2, <1>3, <2>4 DEF Cover
<1>. QED
  BY <1>1, <1>2, <1>3 DEF Accounted

LEMMA CleanAccounted ==
    ASSUME now \in Nat, NEW k \in Nat, NEW c \in Nat, c <= now, NEW ck
    PROVE  Clean \in ModelStates /\ Accounted(Clean, 0, k, c, ck, now)
<1>1. ~ (0 > now) /\ 0 <= now
  OBVIOUS
<1>2. Clean \in Shadows /\ Layer(Clean, 0, k, now)
  BY <1>1, CleanLayer
<1>3. Clean # None /\ ~ Clean.wrapped
  BY <1>2, ShadowIsState DEF Layer
<1>. QED
  BY <1>1, <1>2, <1>3, ShadowIsState DEF Accounted

LEMMA ScopedSettles ==
    ASSUME IInv, NEW x \in running, NEW kind \in {"credquota", "credhint"}, NEW d \in Backoffs,
           Failure(x, kind, d)
    PROVE  /\ Settled /\ credSeq' = seq /\ ownSeq' = ownSeq /\ own' = own
           /\ st[x.model] # None /\ st[x.model].retry > now
                => st'[x.model].retry >= st[x.model].retry
<1>. DEFINE m  == x.model
            p  == QuotaNext(kind, Start(m), d)
            c2 == Later(cred, Justified(kind, Start(m), d))
            f  == [o \in Models |-> IF o = m THEN Reported(m, kind, d)
                                    ELSE Sibling(st[o], m, kind, d)]
            q  == CredentialQuota(m, kind, d)
<1>1. /\ m \in Models /\ now \in Nat /\ seq \in Nat /\ cred \in Nat /\ quota.until \in Nat
      /\ CredInv /\ own \in [Models -> Nat] /\ ownSeq \in [Models -> Nat]
      /\ st \in [Models -> {None} \cup ModelStates]
  BY DEF IInv, TypeOK, Executions
<1>2. Scoped(kind) /\ kind # "apikey"
  BY DEF Scoped
<1>3. Start(m) = Normalised(IF st[m] = None THEN Clean ELSE st[m], quota)
  BY DEF Start, Base
<1>4. /\ Aggregate(f, q) /\ own' = own /\ ownSeq' = ownSeq /\ cred' = c2 /\ credSeq' = seq
  <2>. HIDE DEF f, q
  <2>. QED
    BY <1>2, <1>3 DEF Failure, f, q
<1>5. /\ p \in Nat /\ p > now /\ p <= c2 /\ c2 \in Nat /\ c2 > now /\ c2 >= cred
      /\ q = [reason |-> "credential_quota", until |-> c2]
  BY <1>1, QuotaMoves
<1>6. /\ f[m] \in ModelStates /\ Accounted(f[m], own[m], ownSeq[m], c2, seq, now)
      /\ st[m] # None /\ st[m].retry > now => f[m].retry >= st[m].retry
  <2>1. f[m] = Reported(m, kind, d)
    BY <1>1
  <2>. HIDE DEF f
  <2>. QED
    BY <1>1, <2>1, ScopedReported
<1>7. ASSUME NEW o \in Models
      PROVE  f[o] \in {None} \cup ModelStates /\ Accounted(f[o], own[o], ownSeq[o], c2, seq, now)
  <2>1. CASE o = m
    <3>. HIDE DEF f
    <3>. QED
      BY <1>6, <2>1
  <2>2. CASE o # m /\ st[o] = None
    <3>1. f[o] = None
      BY <2>2 DEF Sibling
    <3>2. own[o] <= now
      BY <2>2 DEF IInv, ModelInv, Accounted
    <3>. HIDE DEF f
    <3>. QED
      BY <3>1, <3>2 DEF Accounted
  <2>3. CASE o # m /\ st[o] # None
    <3>1. f[o] = Propagated(st[o], p)
      BY <1>2, <1>3, <2>3 DEF Sibling
    <3>. HIDE DEF f, p, c2
    <3>. QED
      BY <1>5, <2>3, <3>1, ScopedPropagated
  <2>. QED
    BY <2>1, <2>2, <2>3
<1>8. f \in States
  BY <1>7 DEF States
<1>9. q \in Quotas /\ CredLive(q) /\ q.until = c2
  <2>. HIDE DEF q, c2
  <2>. QED
    BY <1>5 DEF Quotas, Reasons, CredLive
<1>10. Explains(f, q, own, ownSeq, c2, seq)
  <2>. HIDE DEF f, q, c2
  <2>. QED
    BY <1>5, <1>7, <1>8, <1>9 DEF Explains
<1>11. Settled
  <2>. HIDE DEF f, q, c2
  <2>1. Explains(st', quota', own, ownSeq, c2, seq)
    BY <1>1, <1>4, <1>10, AggregateExplains
  <2>. QED
    BY <1>4, <2>1 DEF Settled
<1>12. st[m] # None /\ st[m].retry > now => st'[m].retry >= st[m].retry
  <2>. HIDE DEF f, q, c2
  <2>1. st'[m] = f[m] \/ (f[m] # None /\ f[m].retry \in 1..now)
    BY <1>1, <1>4, <1>5, <1>7, <1>8, AggregatedModel DEF Aggregate
  <2>2. st[m] # None /\ st[m].retry > now => st'[m] = f[m]
    <3>1. st[m] # None => st[m].retry \in Nat
      BY <1>1 DEF ModelStates
    <3>2. f[m].retry \in Nat
      BY <1>6 DEF ModelStates
    <3>3. \A a, b, t \in Nat : b > t /\ a >= b => a \notin 1..t
      OBVIOUS
    <3>. QED
      BY <1>1, <1>6, <2>1, <3>1, <3>2, <3>3
  <2>. QED
    BY <1>6, <2>2
<1>. QED
  BY <1>4, <1>11, <1>12

LEMMA OwnSettles ==
    ASSUME IInv, NEW x \in running, NEW kind \in OwnKinds, NEW d \in Backoffs,
           Failure(x, kind, d)
    PROVE  /\ Settled /\ credSeq' = credSeq /\ ownSeq' = [ownSeq EXCEPT ![x.model] = seq]
           /\ st[x.model] # None /\ st[x.model].retry > now
                => st'[x.model].retry >= st[x.model].retry
<1>. DEFINE m  == x.model
            o2 == Later(own[m], Justified(kind, OwnLayer(m), d))
            f  == [o \in Models |-> IF o = m THEN Reported(m, kind, d)
                                    ELSE Sibling(st[o], m, kind, d)]
<1>1. /\ m \in Models /\ now \in Nat /\ seq \in Nat /\ cred \in Nat /\ credSeq \in Nat
      /\ quota \in Quotas /\ own \in [Models -> Nat] /\ ownSeq \in [Models -> Nat]
      /\ st \in States
      /\ cred > now <=> CredLive(quota)
      /\ CredLive(quota) => quota.until = cred
  BY DEF IInv, TypeOK, Executions, CredInv, Quotas, States
<1>2. ~ Scoped(kind) /\ kind # "apikey"
  BY DEF Scoped, OwnKinds
<1>3. OwnLayer(m) = LET s == Normalised(IF st[m] = None THEN Clean ELSE st[m], quota)
                    IN  IF ~Scoped(kind) /\ CredLive(quota)
                        THEN IF s.shadow # None THEN s.shadow ELSE Clean
                        ELSE s
  BY <1>2 DEF OwnLayer, Start, Base, Beneath
<1>4. /\ Aggregate(f, CredentialQuota(m, kind, d)) /\ own' = [own EXCEPT ![m] = o2]
      /\ ownSeq' = [ownSeq EXCEPT ![m] = seq] /\ cred' = cred /\ credSeq' = credSeq
  <2>1. own' = [own EXCEPT ![m] = Later(@, Justified(kind, OwnLayer(m), d))]
    <3>. HIDE DEF f, o2
    <3>. QED
      BY <1>2, <1>3 DEF Failure
  <2>2. own[m] = own[m] /\ own' = [own EXCEPT ![m] = o2]
    BY <2>1
  <2>. HIDE DEF f, o2
  <2>. QED
    BY <1>2, <2>2 DEF Failure, f
<1>5. CredentialQuota(m, kind, d) = quota
  BY <1>2 DEF CredentialQuota
<1>6. /\ f[m] \in ModelStates /\ o2 \in Nat /\ Accounted(f[m], o2, seq, cred, credSeq, now)
      /\ st[m] # None /\ st[m].retry > now => f[m].retry >= st[m].retry
  <2>1. f[m] = Reported(m, kind, d)
    BY <1>1
  <2>. HIDE DEF f
  <2>. QED
    BY <1>1, <2>1, OwnBeneath, OwnAlone
<1>7. ASSUME NEW o \in Models
      PROVE  f[o] \in {None} \cup ModelStates /\ Accounted(f[o], own'[o], ownSeq'[o], cred, credSeq, now)
  <2>1. CASE o = m
    <3>1. own'[o] = o2 /\ ownSeq'[o] = seq
      BY <1>1, <1>4, <2>1
    <3>. HIDE DEF f, o2
    <3>. QED
      BY <1>6, <2>1, <3>1
  <2>2. CASE o # m
    <3>1. own'[o] = own[o] /\ ownSeq'[o] = ownSeq[o]
      BY <1>1, <1>4, <2>2
    <3>2. f[o] = st[o]
      BY <1>2, <2>2 DEF Sibling
    <3>3. Accounted(st[o], own[o], ownSeq[o], cred, credSeq, now)
      BY DEF IInv, ModelInv
    <3>4. st[o] \in {None} \cup ModelStates
      BY <1>1 DEF States
    <3>. HIDE DEF f
    <3>. QED
      BY <3>1, <3>2, <3>3, <3>4
  <2>. QED
    BY <2>1, <2>2
<1>8. f \in States
  BY <1>7 DEF States
<1>9. own' \in [Models -> Nat] /\ ownSeq' \in [Models -> Nat]
  <2>. HIDE DEF o2, f
  <2>. QED
    BY <1>1, <1>4, <1>6
<1>10. Explains(f, quota, own', ownSeq', cred, credSeq)
  <2>. HIDE DEF f
  <2>. QED
    BY <1>1, <1>7, <1>8 DEF Explains
<1>11. Settled
  <2>. HIDE DEF f, o2
  <2>1. Explains(st', quota', own', ownSeq', cred, credSeq)
    BY <1>1, <1>4, <1>5, <1>9, <1>10, AggregateExplains
  <2>. QED
    BY <1>4, <2>1 DEF Settled
<1>12. st[m] # None /\ st[m].retry > now => st'[m].retry >= st[m].retry
  <2>. HIDE DEF f, o2
  <2>1. st'[m] = f[m] \/ (f[m] # None /\ f[m].retry \in 1..now)
    BY <1>1, <1>4, <1>5, <1>7, <1>8, <1>9, AggregatedModel DEF Aggregate
  <2>2. st[m] # None /\ st[m].retry > now => st'[m] = f[m]
    <3>1. st[m] # None => st[m].retry \in Nat
      BY <1>1 DEF ModelStates, States
    <3>2. f[m].retry \in Nat
      BY <1>6 DEF ModelStates
    <3>3. \A a, b, t \in Nat : b > t /\ a >= b => a \notin 1..t
      OBVIOUS
    <3>. QED
      BY <1>1, <1>6, <2>1, <3>1, <3>2, <3>3
  <2>. QED
    BY <1>6, <2>2
<1>. QED
  BY <1>4, <1>11, <1>12

\* A success ends the cooldown of its model, unless the execution was dispatched
\* before that cooldown was last extended.
LEMMA SuccessSettles ==
    ASSUME IInv, NEW x \in running, Success(x)
    PROVE  /\ Settled /\ credSeq' = credSeq /\ ownSeq' = ownSeq
           /\ st'[x.model] = st[x.model] \/ st'[x.model] = Clean
<1>. DEFINE m == x.model
            s == st[m]
            o == own[m]
            k == ownSeq[m]
<1>1. /\ m \in Models /\ now \in Nat /\ seq \in Nat /\ cred \in Nat /\ credSeq \in Nat
      /\ quota \in Quotas /\ own \in [Models -> Nat] /\ ownSeq \in [Models -> Nat]
      /\ st \in States /\ x.seq \in Nat /\ x.seq > 0
      /\ s \in {None} \cup ModelStates /\ o \in Nat /\ k \in Nat
  BY DEF IInv, TypeOK, Executions, Quotas, States, SeqInv
<1>2. /\ cred > now <=> CredLive(quota)
      /\ CredLive(quota) => quota.until = cred
      /\ \A n \in Models : Accounted(st[n], own[n], ownSeq[n], cred, credSeq, now)
  BY DEF IInv, CredInv, ModelInv
<1>3. cred' = cred /\ credSeq' = credSeq /\ ownSeq' = ownSeq
  BY DEF Success, history
<1>4. Explains(st, quota, own, ownSeq, cred, credSeq)
  BY <1>1, <1>2 DEF Explains
<1>5. CASE CredLive(quota)
  <2>1. st' = st /\ quota' = quota /\ own' = own
    BY <1>2, <1>5 DEF Success, history
  <2>. QED
    BY <1>3, <1>4, <2>1 DEF Settled
<1>. DEFINE recent == o > now /\ x.seq <= Later(k, credSeq)
<1>6. ASSUME ~ CredLive(quota), recent
      PROVE  retainModelCooldown(x)
  <2>1. Accounted(s, o, k, cred, credSeq, now) /\ cred <= now /\ o > now
    BY <1>1, <1>2, <1>6
  <2>2. s # None /\ s \in ModelStates
    BY <1>1, <2>1 DEF Accounted
  <2>3. s.retry >= o /\ s.seq = Later(k, credSeq) /\ s.retry \in Nat /\ s.seq \in Nat
    <3>1. CASE s.wrapped
      BY <2>1, <2>2, <3>1 DEF Accounted, Cover, Within, ModelStates
    <3>2. CASE ~ s.wrapped
      <4>1. Layer(s, o, k, now) /\ credSeq <= k
        BY <2>1, <2>2, <3>2 DEF Accounted
      <4>2. s.retry = o /\ s.seq = k
        BY <2>1, <4>1 DEF Layer
      <4>3. Later(k, credSeq) = k
        BY <1>1, <4>1, LaterOfBoth
      <4>. HIDE DEF s, o, k
      <4>. QED
        BY <1>1, <4>2, <4>3
    <3>. QED
      BY <3>1, <3>2
  <2>4. isModelStateActiveCooldown(s)
    <3>1. s.retry > now
      <4>. HIDE DEF s, o
      <4>. QED
        BY <1>1, <2>1, <2>3
    <3>. QED
      BY <3>1 DEF isModelStateActiveCooldown
  <2>5. x.seq <= s.seq /\ s.seq > 0
    <3>1. x.seq <= s.seq
      BY <1>6, <2>3
    <3>. HIDE DEF s
    <3>. QED
      BY <1>1, <2>3, <3>1
  <2>. QED
    BY <2>2, <2>4, <2>5 DEF retainModelCooldown
<1>7. CASE ~ CredLive(quota) /\ recent
  <2>1. st' = st /\ quota' = quota /\ own' = own
    BY <1>6, <1>7 DEF Success, history
  <2>. QED
    BY <1>3, <1>4, <2>1 DEF Settled
<1>8. CASE ~ CredLive(quota) /\ ~ recent /\ retainModelCooldown(x)
  <2>1. /\ st' = st /\ quota' = quota /\ own' = [own EXCEPT ![m] = 0]
    <3>1. ~ (cred > now \/ (own[m] > now /\ x.seq <= Later(ownSeq[m], credSeq)))
      BY <1>2, <1>8
    <3>. QED
      BY <1>8, <3>1 DEF Success, history
  <2>2. cred <= now
    BY <1>1, <1>2, <1>8
  <2>3. s # None /\ s \in ModelStates /\ x.seq <= s.seq
    BY <1>1, <1>8 DEF retainModelCooldown
  <2>4. o <= now
    <3>1. SUFFICES ASSUME o > now
                   PROVE  s.seq = Later(k, credSeq)
      <4>1. o > now \/ o <= now
        <5>. HIDE DEF o
        <5>. QED
          BY <1>1
      <4>. QED
        BY <1>8, <2>3, <4>1
    <3>2. Accounted(s, o, k, cred, credSeq, now)
      BY <1>1, <1>2
    <3>3. CASE s.wrapped
      BY <2>3, <3>1, <3>2, <3>3 DEF Accounted, Cover
    <3>4. CASE ~ s.wrapped
      <4>1. s.seq = k /\ credSeq <= k
        BY <2>3, <3>1, <3>2, <3>4 DEF Accounted, Layer
      <4>2. Later(k, credSeq) = k
        BY <1>1, <4>1, LaterOfBoth
      <4>. QED
        BY <4>1, <4>2
    <3>. QED
      BY <3>3, <3>4
  <2>5. Accounted(s, 0, k, cred, credSeq, now)
    BY <1>1, <1>2, <2>2, <2>4, LapsedIsNone
  <2>6. own' \in [Models -> Nat] /\ own'[m] = 0 /\ \A n \in Models \ {m} : own'[n] = own[n]
    BY <1>1, <2>1
  <2>7. \A n \in Models : Accounted(st'[n], own'[n], ownSeq'[n], cred', credSeq', now)
    BY <1>2, <1>3, <2>1, <2>5, <2>6
  <2>. QED
    BY <1>3, <1>4, <2>1, <2>7 DEF Settled, Explains
<1>9. CASE ~ CredLive(quota) /\ ~ recent /\ ~ retainModelCooldown(x)
  <2>. DEFINE f == [st EXCEPT ![m] = Clean]
  <2>1. Aggregate(f, quota) /\ own' = [own EXCEPT ![m] = 0]
    <3>1. ~ (cred > now \/ (own[m] > now /\ x.seq <= Later(ownSeq[m], credSeq)))
      BY <1>2, <1>9
    <3>. QED
      BY <1>9, <3>1 DEF Success
  <2>2. cred <= now
    BY <1>1, <1>2, <1>9
  <2>3. Clean \in ModelStates /\ Accounted(Clean, 0, k, cred, credSeq, now)
    BY <1>1, <2>2, CleanAccounted
  <2>4. own' \in [Models -> Nat] /\ own'[m] = 0 /\ \A n \in Models \ {m} : own'[n] = own[n]
    BY <1>1, <2>1
  <2>5. f \in States /\ f[m] = Clean /\ \A n \in Models \ {m} : f[n] = st[n]
    BY <1>1, <2>3 DEF States
  <2>6. Explains(f, quota, own', ownSeq, cred, credSeq)
    <3>1. \A n \in Models : Accounted(f[n], own'[n], ownSeq[n], cred, credSeq, now)
      <4>. HIDE DEF f
      <4>. QED
        BY <1>2, <2>3, <2>4, <2>5
    <3>. HIDE DEF f
    <3>. QED
      BY <1>1, <1>2, <2>5, <3>1 DEF Explains
  <2>7. Settled
    <3>. HIDE DEF f
    <3>. QED
      BY <1>1, <1>3, <2>1, <2>4, <2>6, AggregateExplains DEF Settled
  <2>8. st'[m] = Clean
    <3>1. Clean.unavail = FALSE
      BY DEF Clean
    <3>2. st'[m] = f[m]
      <4>. HIDE DEF f
      <4>. QED
        BY <1>1, <2>1, <2>5, <3>1 DEF Aggregate, AggregatedStates
    <3>. QED
      BY <2>5, <3>2
  <2>. QED
    BY <1>3, <2>7, <2>8
<1>. QED
  BY <1>5, <1>7, <1>8, <1>9

LEMMA QuotaObservedSettles ==
    ASSUME IInv, QuotaObserved
    PROVE  Settled /\ ownSeq' = ownSeq /\ (credSeq' = credSeq \/ credSeq' = 0)
<1>1. /\ now \in Nat /\ cred \in Nat /\ credSeq \in Nat /\ own \in [Models -> Nat]
      /\ ownSeq \in [Models -> Nat] /\ st \in States
      /\ cred > now <=> CredLive(quota)
  BY DEF IInv, TypeOK, States, CredInv
<1>2. CASE ~ (observed = "fresh" /\ CredLive(quota))
  <2>1. UNCHANGED <<st, quota, history>>
    BY <1>2 DEF QuotaObserved
  <2>2. Explains(st, quota, own, ownSeq, cred, credSeq)
    BY ExplainsInv
  <2>. QED
    BY <2>1, <2>2 DEF Settled, history
<1>3. CASE observed = "fresh" /\ CredLive(quota)
  <2>. DEFINE f == [m \in Models |-> Restored(st[m])]
  <2>1. /\ Aggregate(f, NoQuota) /\ cred' = 0 /\ credSeq' = 0 /\ own' = own /\ ownSeq' = ownSeq
    BY <1>3 DEF QuotaObserved
  <2>2. ~ (0 > now) /\ 0 <= now /\ \A n \in Nat : 0 <= n
    BY <1>1
  <2>3. ASSUME NEW m \in Models
        PROVE  /\ f[m] \in {None} \cup ModelStates
               /\ Accounted(f[m], own[m], ownSeq[m], 0, 0, now)
    <3>1. Accounted(st[m], own[m], ownSeq[m], cred, credSeq, now) /\ ~ (cred <= now)
      BY <1>1, <1>3 DEF IInv, ModelInv
    <3>2. CASE st[m] = None
      <4>1. f[m] = None
        BY <3>2 DEF Restored
      <4>. HIDE DEF f
      <4>. QED
        BY <3>1, <3>2, <4>1 DEF Accounted
    <3>3. CASE st[m] # None
      <4>1. Cover(st[m], own[m], ownSeq[m], cred, credSeq, now) /\ st[m].wrapped
        BY <3>1, <3>3 DEF Accounted
      <4>2. f[m] = Unwrapped(st[m])
        BY <3>3, <4>1 DEF Cover, Restored, Wrapped
      <4>. HIDE DEF f
      <4>3. Layer(f[m], own[m], ownSeq[m], now)
        BY <1>1, <4>1, <4>2, UnwrappedLayer
      <4>4. f[m] \in Shadows /\ ~ f[m].wrapped
        BY <4>3 DEF Layer
      <4>5. ownSeq[m] \in Nat
        BY <1>1
      <4>. QED
        BY <2>2, <4>3, <4>4, <4>5, ShadowIsState DEF Accounted
    <3>. QED
      BY <3>2, <3>3
  <2>4. f \in States
    BY <2>3 DEF States
  <2>5. NoQuota \in Quotas /\ ~ CredLive(NoQuota)
    BY DEF NoQuota, Quotas, Reasons, CredLive
  <2>. HIDE DEF f
  <2>6. Explains(f, NoQuota, own, ownSeq, 0, 0)
    BY <2>2, <2>3, <2>4, <2>5 DEF Explains
  <2>7. Explains(st', quota', own, ownSeq, 0, 0)
    BY <1>1, <2>1, <2>6, AggregateExplains
  <2>. QED
    BY <2>1, <2>7 DEF Settled
<1>. QED
  BY <1>2, <1>3

\* ResetQuota and Register leave no cooldown.
LEMMA ResetSettles ==
    ASSUME IInv, ResetQuota \/ Register
    PROVE  Settled /\ credSeq' = 0 /\ ownSeq' = [m \in Models |-> 0]
<1>1. now \in Nat /\ ~ (0 > now) /\ 0 <= now
  BY DEF IInv, TypeOK
<1>2. /\ quota' = NoQuota /\ cred' = 0 /\ credSeq' = 0
      /\ own' = [m \in Models |-> 0] /\ ownSeq' = [m \in Models |-> 0]
      /\ st' \in [Models -> {None, Clean}]
  BY DEF ResetQuota, Register
<1>3. NoQuota \in Quotas /\ ~ CredLive(NoQuota)
  BY DEF NoQuota, Quotas, Reasons, CredLive
<1>4. Clean \in ModelStates /\ Accounted(Clean, 0, 0, 0, 0, now)
  BY <1>1, CleanAccounted
<1>5. Accounted(None, 0, 0, 0, 0, now)
  BY <1>1 DEF Accounted
<1>6. ASSUME NEW m \in Models
      PROVE  /\ st'[m] \in {None} \cup ModelStates
             /\ Accounted(st'[m], own'[m], ownSeq'[m], cred', credSeq', now)
  BY <1>2, <1>4, <1>5
<1>7. st' \in States
  BY <1>2, <1>4 DEF States
<1>. QED
  BY <1>1, <1>2, <1>3, <1>6, <1>7 DEF Settled, Explains

-----------------------------------------------------------------------------
(***************************************************************************)
(* The invariant                                                           *)
(***************************************************************************)
LEMMA SettledInv ==
    ASSUME Settled, now' = now, TypeOK', SeqInv'
    PROVE  IInv'
<1>1. Explains(st, quota, own, ownSeq, cred, credSeq)'
  BY DEF Settled, Explains, CredLive
<1>. QED
  BY <1>1, ExplainsInv, PTL

LEMMA InitInv == Init => IInv
<1>. SUFFICES ASSUME Init PROVE IInv
  OBVIOUS
<1>1. /\ now = 1 /\ seq = 0 /\ running = {} /\ st = [m \in Models |-> None]
      /\ quota = NoQuota /\ epoch = 1 /\ cver = 1 /\ observed = "none" /\ admin = 0
      /\ own = [m \in Models |-> 0] /\ cred = 0
      /\ ownSeq = [m \in Models |-> 0] /\ credSeq = 0
  BY DEF Init
<1>2. NoQuota \in [reason : Reasons, until : Nat] /\ ~ CredLive(NoQuota)
  BY DEF NoQuota, Reasons, CredLive
<1>3. TypeOK
  BY <1>1, <1>2 DEF TypeOK
<1>4. ModelInv
  BY <1>1 DEF ModelInv, Accounted
<1>5. CredInv
  BY <1>1, <1>2 DEF CredInv
<1>6. SeqInv
  BY <1>1 DEF SeqInv
<1>. QED
  BY <1>3, <1>4, <1>5, <1>6 DEF IInv

\* A result of any kind of failure but invalid_api_key.
LEMMA FailureSettles ==
    ASSUME IInv, "apikey" \notin Kinds, NEW x \in running, NEW kind \in Kinds,
           NEW d \in Backoffs, Failure(x, kind, d)
    PROVE  /\ Settled /\ own' \in [Models -> Nat] /\ ownSeq' \in [Models -> Nat]
           /\ credSeq' \in {credSeq, seq} /\ \A m \in Models : ownSeq'[m] \in {ownSeq[m], seq}
           /\ st[x.model] # None /\ st[x.model].retry > now
                => st'[x.model].retry >= st[x.model].retry
<1>1. kind \in OwnKinds \/ kind \in {"credquota", "credhint"}
  BY KindsAssumption DEF AllKinds, OwnKinds
<1>2. own \in [Models -> Nat] /\ ownSeq \in [Models -> Nat] /\ seq \in Nat /\ x.model \in Models
  BY DEF IInv, TypeOK, Executions
<1>3. CASE kind \in {"credquota", "credhint"}
  BY <1>2, <1>3, ScopedSettles
<1>4. CASE kind \in OwnKinds
  <2>1. /\ Settled /\ credSeq' = credSeq /\ ownSeq' = [ownSeq EXCEPT ![x.model] = seq]
        /\ st[x.model] # None /\ st[x.model].retry > now
                => st'[x.model].retry >= st[x.model].retry
    BY <1>4, OwnSettles
  <2>2. own' \in [Models -> Nat]
    <3>1. Later(own[x.model], Justified(kind, OwnLayer(x.model), d)) \in Nat
      BY <1>2, <1>4, OwnBeneath, OwnAlone
    <3>2. own' = [own EXCEPT ![x.model] = Later(own[x.model], Justified(kind, OwnLayer(x.model), d))]
      <4>1. OwnLayer(x.model) =
              LET s == Normalised(IF st[x.model] = None THEN Clean ELSE st[x.model], quota)
              IN  IF ~Scoped(kind) /\ CredLive(quota)
                  THEN IF s.shadow # None THEN s.shadow ELSE Clean
                  ELSE s
        BY <1>4 DEF OwnLayer, Start, Base, Beneath, Scoped, OwnKinds
      <4>2. ~ Scoped(kind) /\ kind # "apikey"
        BY <1>4 DEF Scoped, OwnKinds
      <4>. QED
        BY <4>1, <4>2 DEF Failure
    <3>. QED
      BY <1>2, <3>1, <3>2
  <2>. QED
    BY <1>2, <2>1, <2>2
<1>. QED
  BY <1>1, <1>3, <1>4

LEMMA NextInv ==
    ASSUME "apikey" \notin Kinds, IInv, [Next]_vars
    PROVE  IInv'
<1>1. /\ now \in Nat /\ seq \in Nat
      /\ running \subseteq Executions
      /\ epoch \in Nat /\ cver \in Nat /\ admin \in Nat
      /\ observed \in {"none", "fresh", "old"}
      /\ own \in [Models -> Nat] /\ cred \in Nat
      /\ ownSeq \in [Models -> Nat] /\ credSeq \in Nat
      /\ st \in States /\ quota \in Quotas
  BY DEF IInv, TypeOK, States, Quotas
<1>2. /\ credSeq <= seq
      /\ \A m \in Models : ownSeq[m] <= seq
      /\ \A x \in running : x.seq > 0
  BY DEF IInv, SeqInv
<1>3. Explains(st, quota, own, ownSeq, cred, credSeq)
  BY ExplainsInv
<1>4. ASSUME Settled PROVE st' \in States /\ quota' \in Quotas /\ cred' \in Nat
  BY <1>4 DEF Settled, Explains
<1>5. CASE Tick
  <2>1. /\ now' = now + 1
        /\ UNCHANGED <<seq, running, st, quota, epoch, cver, observed, admin,
                       own, cred, ownSeq, credSeq>>
    BY <1>5 DEF Tick, history
  <2>2. now' \in Nat /\ now <= now' /\ \A n \in Nat : n > now' => n > now
    BY <1>1, <2>1
  <2>3. TypeOK'
    BY <1>1, <2>1, <2>2 DEF TypeOK, States, Quotas
  <2>4. ModelInv'
    <3>. SUFFICES ASSUME NEW m \in Models
                  PROVE  Accounted(st[m], own[m], ownSeq[m], cred, credSeq, now')
      BY <2>1 DEF ModelInv
    <3>1. Accounted(st[m], own[m], ownSeq[m], cred, credSeq, now)
      BY DEF IInv, ModelInv
    <3>2. st[m] \in {None} \cup ModelStates /\ own[m] \in Nat /\ ownSeq[m] \in Nat
      BY <1>1 DEF States
    <3>. QED
      BY <1>1, <2>2, <3>1, <3>2, StillAccounted
  <2>5. CredInv'
    <3>1. /\ cred > now <=> CredLive(quota)
          /\ CredLive(quota) => quota.until = cred
      BY DEF IInv, CredInv
    <3>2. quota.until \in Nat
      BY <1>1 DEF Quotas
    <3>3. cred > now' => cred > now
      BY <1>1, <2>2
    <3>4. quota.until > now' => quota.until > now
      BY <2>2, <3>2
    <3>. QED
      BY <2>1, <3>1, <3>3, <3>4 DEF CredInv, CredLive
  <2>6. SeqInv'
    BY <1>2, <2>1 DEF SeqInv
  <2>. QED
    BY <2>3, <2>4, <2>5, <2>6 DEF IInv
<1>6. ASSUME NEW m \in Models, Dispatch(m)
      PROVE  IInv'
  <2>. DEFINE y == [seq |-> seq + 1, model |-> m, epoch |-> epoch, cver |-> cver]
  <2>1. /\ seq' = seq + 1 /\ running' = running \cup {y}
        /\ UNCHANGED <<now, st, quota, epoch, cver, observed, admin, own, cred, ownSeq, credSeq>>
    BY <1>6 DEF Dispatch, history
  <2>2. y \in Executions /\ y.seq > 0
    BY <1>1 DEF Executions
  <2>3. seq' \in Nat /\ \A n \in Nat : n <= seq => n <= seq'
    BY <1>1, <2>1
  <2>. HIDE DEF y
  <2>4. Settled
    BY <1>3, <2>1 DEF Settled
  <2>5. TypeOK'
    BY <1>1, <2>1, <2>2, <2>3 DEF TypeOK, States, Quotas
  <2>6. SeqInv'
    BY <1>1, <1>2, <2>1, <2>2, <2>3 DEF SeqInv
  <2>. QED
    BY <2>1, <2>4, <2>5, <2>6, SettledInv
<1>7. ASSUME NEW x \in running, StaleResult(x)
      PROVE  IInv'
  <2>1. /\ running' = running \ {x}
        /\ UNCHANGED <<now, seq, st, quota, epoch, cver, observed, admin,
                       own, cred, ownSeq, credSeq>>
    BY <1>7 DEF StaleResult, history
  <2>2. Settled
    BY <1>3, <2>1 DEF Settled
  <2>3. TypeOK'
    BY <1>1, <2>1 DEF TypeOK, States, Quotas
  <2>4. SeqInv'
    BY <1>2, <2>1 DEF SeqInv
  <2>. QED
    BY <2>1, <2>2, <2>3, <2>4, SettledInv
<1>8. ASSUME NEW x \in running, Success(x)
      PROVE  IInv'
  <2>1. Settled /\ credSeq' = credSeq /\ ownSeq' = ownSeq
    BY <1>8, SuccessSettles
  <2>2. /\ running' = running \ {x} /\ Touch
        /\ UNCHANGED <<now, seq, epoch, cver, admin>>
        /\ own' = own \/ own' = [own EXCEPT ![x.model] = 0]
    BY <1>8 DEF Success, history
  <2>3. TypeOK'
    <3>1. own' \in [Models -> Nat]
      BY <1>1, <2>2
    <3>2. observed' \in {"none", "fresh", "old"}
      BY <1>1, <2>2 DEF Touch
    <3>. QED
      BY <1>1, <1>4, <2>1, <2>2, <3>1, <3>2 DEF TypeOK, States, Quotas
  <2>4. SeqInv'
    BY <1>2, <2>1, <2>2 DEF SeqInv
  <2>. QED
    BY <2>1, <2>2, <2>3, <2>4, SettledInv
<1>9. ASSUME NEW x \in running, NEW kind \in Kinds, NEW d \in Backoffs, Failure(x, kind, d)
      PROVE  IInv'
  <2>1. /\ Settled /\ own' \in [Models -> Nat] /\ ownSeq' \in [Models -> Nat]
        /\ credSeq' \in {credSeq, seq} /\ \A m \in Models : ownSeq'[m] \in {ownSeq[m], seq}
    BY <1>9, FailureSettles
  <2>2. /\ running' = running \ {x} /\ Touch
        /\ UNCHANGED <<now, seq, epoch, cver, admin>>
    BY <1>9 DEF Failure
  <2>3. TypeOK'
    <3>1. observed' \in {"none", "fresh", "old"}
      BY <1>1, <2>2 DEF Touch
    <3>. QED
      BY <1>1, <1>4, <2>1, <2>2, <3>1 DEF TypeOK, States, Quotas
  <2>4. SeqInv'
    <3>1. seq <= seq
      BY <1>1
    <3>. QED
      BY <1>2, <2>1, <2>2, <3>1 DEF SeqInv
  <2>. QED
    BY <2>1, <2>2, <2>3, <2>4, SettledInv
<1>10. CASE ResetQuota \/ Register
  <2>1. Settled /\ credSeq' = 0 /\ ownSeq' = [m \in Models |-> 0]
    BY <1>10, ResetSettles
  <2>2. /\ UNCHANGED <<now, seq, running>> /\ Touch /\ own' = [m \in Models |-> 0]
        /\ admin' = admin + 1 /\ epoch' \in {epoch, epoch + 1} /\ cver' \in {cver, cver + 1}
    BY <1>10 DEF ResetQuota, Register, Admin
  <2>3. TypeOK'
    <3>1. observed' \in {"none", "fresh", "old"}
      BY <1>1, <2>2 DEF Touch
    <3>2. admin' \in Nat /\ epoch' \in Nat /\ cver' \in Nat
      BY <1>1, <2>2
    <3>. QED
      BY <1>1, <1>4, <2>1, <2>2, <3>1, <3>2 DEF TypeOK, States, Quotas
  <2>4. SeqInv'
    <3>1. 0 <= seq
      BY <1>1
    <3>. QED
      BY <1>2, <2>1, <2>2, <3>1 DEF SeqInv
  <2>. QED
    BY <2>1, <2>2, <2>3, <2>4, SettledInv
<1>11. CASE Update \/ ObserveQuota
  <2>1. /\ UNCHANGED <<now, seq, running, st, quota, epoch, own, cred, ownSeq, credSeq>>
        /\ admin' = admin + 1 /\ cver' \in {cver, cver + 1}
        /\ observed' \in {"none", "fresh", "old"}
    BY <1>1, <1>11 DEF Update, ObserveQuota, Admin, Touch, history
  <2>2. Settled
    BY <1>3, <2>1 DEF Settled
  <2>3. TypeOK'
    <3>1. admin' \in Nat /\ cver' \in Nat
      BY <1>1, <2>1
    <3>. QED
      BY <1>1, <2>1, <3>1 DEF TypeOK, States, Quotas
  <2>4. SeqInv'
    BY <1>2, <2>1 DEF SeqInv
  <2>. QED
    BY <2>1, <2>2, <2>3, <2>4, SettledInv
<1>12. CASE QuotaObserved
  <2>1. Settled /\ ownSeq' = ownSeq /\ (credSeq' = credSeq \/ credSeq' = 0)
    BY <1>12, QuotaObservedSettles
  <2>2. /\ UNCHANGED <<now, seq, running, epoch, cver, admin, own>>
        /\ observed' = "none"
    BY <1>12 DEF QuotaObserved, history
  <2>3. TypeOK'
    BY <1>1, <1>4, <2>1, <2>2 DEF TypeOK, States, Quotas
  <2>4. SeqInv'
    <3>1. 0 <= seq
      BY <1>1
    <3>. QED
      BY <1>2, <2>1, <2>2, <3>1 DEF SeqInv
  <2>. QED
    BY <2>1, <2>2, <2>3, <2>4, SettledInv
<1>13. CASE UNCHANGED vars
  <2>1. UNCHANGED <<now, seq, running, st, quota, epoch, cver, observed, admin,
                    own, cred, ownSeq, credSeq>>
    BY <1>13 DEF vars
  <2>2. Settled
    BY <1>3, <2>1 DEF Settled
  <2>3. TypeOK'
    BY <1>1, <2>1 DEF TypeOK, States, Quotas
  <2>4. SeqInv'
    BY <1>2, <2>1 DEF SeqInv
  <2>. QED
    BY <2>1, <2>2, <2>3, <2>4, SettledInv
<1>. QED
  BY <1>5, <1>6, <1>7, <1>8, <1>9, <1>10, <1>11, <1>12, <1>13 DEF Next, Report

\* Every cooldown is accounted for: the inductive invariant.
THEOREM Invariance ==
    ASSUME "apikey" \notin Kinds
    PROVE  Spec => []IInv
BY InitInv, NextInv, PTL DEF Spec

\* Every record of the state keeps its shape, the shadow of a wrap included: a
\* shadow has no shadow, and deadlines are times.
THEOREM TypeCorrect ==
    ASSUME "apikey" \notin Kinds
    PROVE  Spec => []TypeOK
<1>1. IInv => TypeOK
  BY DEF IInv
<1>. QED
  BY <1>1, Invariance, PTL

\* A model is not selectable before the deadline that its own failures or a
\* credential quota justify: whatever the order of results, no success of an
\* execution dispatched before, no later failure, no wrap, no end of a wrap and
\* no result of a replaced credential ends a cooldown early (MarkResult,
\* applyDevinQuotaRestoration).
THEOREM NeverTooShort ==
    ASSUME "apikey" \notin Kinds
    PROVE  Spec => []CooldownHolds
<1>1. ASSUME IInv PROVE CooldownHolds
  <2>. SUFFICES ASSUME NEW m \in Models, own[m] > now \/ cred > now
                PROVE  Blocked(m)
    BY DEF CooldownHolds
  <2>1. CASE cred > now
    BY <1>1, <2>1 DEF IInv, CredInv, Blocked
  <2>2. CASE own[m] > now
    <3>1. /\ Accounted(st[m], own[m], ownSeq[m], cred, credSeq, now) /\ now \in Nat
          /\ own[m] \in Nat /\ st[m] \in {None} \cup ModelStates
      BY <1>1 DEF IInv, TypeOK, ModelInv
    <3>2. ~ (own[m] <= now)
      BY <2>2, <3>1
    <3>3. st[m] # None /\ st[m] \in ModelStates
      BY <3>1, <3>2 DEF Accounted
    <3>4. st[m].retry \in Nat
      BY <3>3 DEF ModelStates
    <3>5. CASE st[m].wrapped
      <4>1. st[m].reason # "" /\ st[m].retry >= own[m]
        BY <2>2, <3>1, <3>3, <3>5 DEF Accounted, Cover, Within
      <4>2. st[m].retry > now
        <5>1. \A a, b, t \in Nat : a >= b /\ b > t => a > t
          OBVIOUS
        <5>. QED
          BY <2>2, <3>1, <3>4, <4>1, <5>1
      <4>. QED
        BY <3>3, <4>1, <4>2 DEF Blocked, isModelStateActiveCooldown
    <3>6. CASE ~ st[m].wrapped
      <4>1. st[m].unavail /\ st[m].retry > now
        BY <2>2, <3>1, <3>3, <3>6 DEF Accounted, Layer
      <4>. QED
        BY <3>3, <4>1 DEF Blocked, isModelStateActiveCooldown
    <3>. QED
      BY <3>5, <3>6
  <2>. QED
    BY <2>1, <2>2
<1>. QED
  BY <1>1, Invariance, PTL

\* A model is selectable again as soon as that deadline has passed: its own
\* deadline never inherits that of the quota propagated to it, and a quota that
\* is restored early leaves nothing behind.
THEOREM NeverTooLong ==
    ASSUME "apikey" \notin Kinds
    PROVE  Spec => []CooldownEnds
<1>1. ASSUME IInv PROVE CooldownEnds
  <2>. SUFFICES ASSUME NEW m \in Models, Blocked(m)
                PROVE  own[m] > now \/ cred > now
    BY DEF CooldownEnds
  <2>1. CASE CredLive(quota)
    BY <1>1, <2>1 DEF IInv, CredInv
  <2>2. CASE ~ CredLive(quota)
    <3>1. /\ Accounted(st[m], own[m], ownSeq[m], cred, credSeq, now) /\ now \in Nat
          /\ own[m] \in Nat /\ cred \in Nat /\ st[m] \in {None} \cup ModelStates
      BY <1>1 DEF IInv, TypeOK, ModelInv
    <3>2. st[m] # None /\ st[m] \in ModelStates /\ (st[m].retry > now \/ st[m].until > now)
      BY <2>2, <3>1 DEF Blocked, isModelStateActiveCooldown
    <3>3. st[m].retry \in Nat /\ st[m].until \in Nat
      BY <3>2 DEF ModelStates
    <3>4. CASE st[m].wrapped
      <4>1. Within(st[m].until, st[m].retry, own[m], Later(cred, own[m]), now)
        BY <3>1, <3>2, <3>4 DEF Accounted, Cover
      <4>2. Later(cred, own[m]) \in Nat /\ (Later(cred, own[m]) = cred \/ Later(cred, own[m]) = own[m])
        BY <3>1, LaterIs
      <4>3. Later(cred, own[m]) > now
        BY <3>1, <3>2, <3>3, <4>1, <4>2 DEF Within
      <4>. QED
        BY <4>2, <4>3
    <3>5. CASE ~ st[m].wrapped
      <4>1. Layer(st[m], own[m], ownSeq[m], now)
        BY <3>1, <3>2, <3>5 DEF Accounted
      <4>2. st[m].retry > now
        <5>1. st[m].until > now => st[m].retry >= st[m].until
          BY <4>1 DEF Layer
        <5>. QED
          BY <3>1, <3>2, <3>3, <5>1
      <4>. QED
        BY <4>1, <4>2 DEF Layer
    <3>. QED
      BY <3>4, <3>5
  <2>. QED
    BY <2>1, <2>2
<1>. QED
  BY <1>1, Invariance, PTL

\* "A later failure only extends a still-live cooldown; it never shortens one"
\* (conductor_cooldown.go:1303) holds of every kind of failure but the one that
\* the code does not guard, invalid_api_key.
THEOREM NeverShortened ==
    ASSUME "apikey" \notin Kinds
    PROVE  Spec => FailureExtends
<1>. DEFINE Extends ==
       \A x \in running :
          x \notin running' /\ st[x.model] # None /\ st[x.model].retry > now
            => \/ st'[x.model].retry >= st[x.model].retry
               \/ st'[x.model] = Clean
<1>1. ASSUME IInv, [Next]_vars PROVE [Extends]_vars
  <2>. SUFFICES ASSUME Next, NEW x \in running, x \notin running',
                       st[x.model] # None, st[x.model].retry > now
                PROVE  \/ st'[x.model].retry >= st[x.model].retry
                       \/ st'[x.model] = Clean
    BY <1>1
  <2>1. x.model \in Models /\ st[x.model].retry \in Nat
    BY <1>1 DEF IInv, TypeOK, Executions, ModelStates
  <2>2. st[x.model].retry >= st[x.model].retry
    BY <2>1
  <2>3. ~ (\E m \in Models : Dispatch(m))
    BY DEF Dispatch
  <2>4. ~ Tick /\ ~ ResetQuota /\ ~ Register /\ ~ Update /\ ~ ObserveQuota /\ ~ QuotaObserved
    BY DEF Tick, ResetQuota, Register, Update, ObserveQuota, QuotaObserved
  <2>5. PICK y \in running : Report(y)
    BY <2>3, <2>4 DEF Next
  <2>6. y = x
    BY <2>5 DEF Report, StaleResult, Success, Failure
  <2>7. CASE StaleResult(x)
    BY <2>2, <2>7 DEF StaleResult
  <2>8. CASE Success(x)
    <3>1. st'[x.model] = st[x.model] \/ st'[x.model] = Clean
      BY <1>1, <2>8, SuccessSettles
    <3>. QED
      BY <2>2, <3>1
  <2>9. ASSUME NEW kind \in Kinds, NEW d \in Backoffs, Failure(x, kind, d)
        PROVE  st'[x.model].retry >= st[x.model].retry
    BY <1>1, <2>9, FailureSettles
  <2>. QED
    BY <2>5, <2>6, <2>7, <2>8, <2>9 DEF Report
<1>. QED
  BY <1>1, Invariance, PTL DEF Spec, FailureExtends
=============================================================================
