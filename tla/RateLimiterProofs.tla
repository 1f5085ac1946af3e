------------------------- MODULE RateLimiterProofs -------------------------
(***************************************************************************)
(* Bans are kept, no second sees more than two windows of a type, and the  *)
(* bucket bounds what gets through, for any limits, durations and message  *)
(* types that meet RateLimiterAssumption.                                  *)
(*                                                                         *)
(* A ban is a field of the limiter, so the first argument is about where   *)
(* that limiter is: while a ban runs it is in the table and not stale      *)
(* (BanSound), and a limiter that cleanup took from a running call has     *)
(* been idle for so long that its bucket is full again (RemovedSound), so  *)
(* that this call cannot ban the peer on it, where the ban would be lost.  *)
(*                                                                         *)
(* The other two relate the fields of the limiter to the messages let      *)
(* through since any time s (From): a counter bounds those of its window   *)
(* and of the second before it (Window), and the tokens left, with the     *)
(* messages paid, stay within what the rate granted (Bucket).  Both also   *)
(* say what is left of this when cleanup has removed the limiter.          *)
(***************************************************************************)
EXTENDS RateLimiter, FiniteSetTheorems, TLAPS

LimiterSound(l) == l \in PeerRateLimiter /\ l.lastRefill <= now

RemovedSound ==
  held = "removed" => /\ prl = None /\ removed # None /\ LimiterSound(removed)
                      /\ now - removed.lastRefill > StaleThreshold

Banned == bannedAt # None /\ now < bannedAt + BanDuration

BanSound ==
  Banned => /\ held # "removed" /\ prl # None
            /\ prl.bannedUntil = bannedAt + BanDuration
            /\ prl.lastRefill = bannedAt

Inv ==
  /\ now \in Nat
  /\ prl # None => LimiterSound(prl)
  /\ held \in {"none", "map", "removed"}
  /\ held = "map" => prl # None
  /\ bannedAt # None => bannedAt \in Nat /\ bannedAt <= now
  /\ RemovedSound
  /\ BanSound

-----------------------------------------------------------------------------
(* Bans.                                                                   *)

LEMMA InitInv == Init => Inv
  BY DEF Init, Inv, RemovedSound, BanSound, Banned

\* The refill of a stale limiter pays for a message.
LEMMA StaleIsFull ==
  ASSUME NEW l, LimiterSound(l), now \in Nat, now - l.lastRefill > StaleThreshold
  PROVE  Refill(l).tokens >= Second
<1> DEFINE idle   == now - l.lastRefill
           refill == idle * MaxMessagesPerSecond
<1>1. /\ Second \in Nat \ {0} /\ BurstSize \in Nat \ {0}
      /\ MaxMessagesPerSecond \in Nat /\ StaleThreshold \in Nat
      /\ (BurstSize + 1) * Second <= StaleThreshold * MaxMessagesPerSecond
  BY RateLimiterAssumption
<1>2. \A k, m \in Nat : k <= m => k * MaxMessagesPerSecond <= m * MaxMessagesPerSecond
  BY <1>1
<1>3. idle \in Nat /\ StaleThreshold <= idle
  BY <1>1 DEF LimiterSound, PeerRateLimiter
<1>4. refill \in Nat /\ StaleThreshold * MaxMessagesPerSecond <= refill
  BY <1>1, <1>2, <1>3
<1>5. BurstSize * Second \in Nat /\ BurstSize * Second >= Second
  BY <1>1
<1>6. (BurstSize + 1) * Second = BurstSize * Second + Second
  BY <1>1
<1>7. StaleThreshold * MaxMessagesPerSecond \in Nat
  BY <1>1
<1>8. Refill(l).tokens = IF l.tokens + refill > BurstSize * Second
                         THEN BurstSize * Second ELSE l.tokens + refill
  BY DEF Refill, LimiterSound, PeerRateLimiter
<1> HIDE DEF refill, idle
<1>9. l.tokens + refill >= Second
  BY <1>1, <1>4, <1>5, <1>6, <1>7 DEF LimiterSound, PeerRateLimiter
<1> QED  BY <1>5, <1>8, <1>9

\* Refilling and rolling a window keep the ban, and refill at the present time.
LEMMA RefillSound ==
  ASSUME NEW l, LimiterSound(l), now \in Nat
  PROVE  /\ LimiterSound(Refill(l)) /\ Refill(l).lastRefill = now
         /\ Refill(l).bannedUntil = l.bannedUntil
<1> DEFINE t == l.tokens + (now - l.lastRefill) * MaxMessagesPerSecond
           u == IF t > BurstSize * Second THEN BurstSize * Second ELSE t
<1>1. BurstSize * Second \in Nat /\ t \in Nat
  BY RateLimiterAssumption DEF LimiterSound, PeerRateLimiter
<1>2. u \in Nat
  BY <1>1
<1>3. Refill(l) = [l EXCEPT !.tokens = u, !.lastRefill = now]
  BY DEF Refill
<1> HIDE DEF t, u
<1> DEFINE r == [l EXCEPT !.tokens = u, !.lastRefill = now]
<1>4. r \in PeerRateLimiter
  BY Zenon, <1>2 DEF LimiterSound, PeerRateLimiter
<1>5. r.lastRefill = now /\ r.bannedUntil = l.bannedUntil
  BY DEF LimiterSound, PeerRateLimiter
<1> QED  BY <1>3, <1>4, <1>5 DEF LimiterSound

LEMMA RollSound ==
  ASSUME NEW l, NEW y \in Types, LimiterSound(l), now \in Nat
  PROVE  /\ LimiterSound(Roll(l, y)) /\ Roll(l, y).lastRefill = l.lastRefill
         /\ Roll(l, y).bannedUntil = l.bannedUntil /\ Roll(l, y).tokens = l.tokens
  BY Zenon DEF Roll, LimiterSound, PeerRateLimiter
-----------------------------------------------------------------------------
(* The limiter AllowMessage works on.                                      *)

LEMMA LimiterHeld ==
  ASSUME Inv, held # "none"
  PROVE  LimiterSound(Limiter) /\ Limiter # None
  BY DEF Inv, RemovedSound, Limiter

\* A limiter stored without a ban, of a peer that is not banned.
LEMMA StoreInv ==
  ASSUME Inv, NEW l, l # None, LimiterSound(l), ~Banned, Store(l), UNCHANGED bannedAt
  PROVE  Inv'
<1>1. LimiterSound(l)'
  BY DEF Store, LimiterSound, PeerRateLimiter
<1> QED  BY <1>1 DEF Inv, Store, RemovedSound, BanSound, Banned, LimiterSound, PeerRateLimiter

\* A peer whose limiter shows no ban is not banned.
LEMMA NoBan ==
  ASSUME Inv, held # "none", now >= Limiter.bannedUntil
  PROVE  ~Banned
<1> SUFFICES ASSUME Banned  PROVE FALSE
  OBVIOUS
<1>1. /\ held = "map" /\ prl # None /\ bannedAt \in Nat /\ now \in Nat
      /\ prl.bannedUntil = bannedAt + BanDuration /\ now < bannedAt + BanDuration
  BY DEF Inv, BanSound, Banned
<1> QED  BY <1>1, RateLimiterAssumption DEF Limiter

LEMMA RefuseBannedInv ==
  ASSUME Inv, held # "none", NEW y, RefuseBanned(y)
  PROVE  Inv'
<1>1. prl' = prl /\ held' = "none" /\ UNCHANGED <<now, bannedAt>>
  BY DEF RefuseBanned, Store, Limiter
<1> QED  BY <1>1 DEF Inv, RemovedSound, BanSound, Banned, LimiterSound, PeerRateLimiter

LEMMA BanInv ==
  ASSUME Inv, held # "none", NEW y, Ban(y)
  PROVE  Inv' /\ (held = "map" => prl' # None)
<1> DEFINE l == Refill(Limiter)
           m == [l EXCEPT !.bannedUntil = now + BanDuration]
<1>1. LimiterSound(Limiter) /\ now \in Nat
  BY LimiterHeld DEF Inv
<1>2. l.tokens < Second /\ bannedAt' = now /\ Store(m)
  BY DEF Ban
<1>3. LimiterSound(l) /\ l.lastRefill = now
  BY <1>1, RefillSound
<1>4. held = "map"
  <2>1. CASE held = "removed"
    <3>1. now - Limiter.lastRefill > StaleThreshold
      BY <2>1 DEF Inv, RemovedSound, Limiter
    <3>2. l.tokens >= Second
      BY <1>1, <3>1, StaleIsFull
    <3> QED  BY <1>2, <1>3, <3>2, RateLimiterAssumption DEF LimiterSound, PeerRateLimiter
  <2> QED  BY <2>1 DEF Inv
<1> HIDE DEF l
<1>5. LimiterSound(m) /\ m.bannedUntil = now + BanDuration /\ m.lastRefill = now
  BY <1>1, <1>3, RateLimiterAssumption DEF LimiterSound, PeerRateLimiter
<1>6. prl' = m /\ held' = "none" /\ now' = now
  BY <1>2, <1>4 DEF Store
<1> HIDE DEF m
<1>7. m # None
  BY <1>5, RateLimiterAssumption DEF LimiterSound, PeerRateLimiter
<1> QED
  BY <1>1, <1>2, <1>5, <1>6, <1>7
  DEF Inv, RemovedSound, BanSound, Banned, LimiterSound, PeerRateLimiter

LEMMA RefuseTypeInv ==
  ASSUME Inv, held # "none", NEW y \in Types, RefuseType(y)
  PROVE  Inv' /\ (held = "map" => prl' # None)
<1> DEFINE l == Roll(Refill(Limiter), y)
<1>1. LimiterSound(l)
  BY LimiterHeld, RefillSound, RollSound DEF Inv
<1>2. Store(l) /\ UNCHANGED bannedAt /\ ~Banned
  BY NoBan DEF RefuseType
<1>3. l # None
  BY <1>1, RateLimiterAssumption DEF LimiterSound
<1> HIDE DEF l
<1>4. held = "map" => prl' = l
  BY <1>2 DEF Store
<1> QED  BY <1>1, <1>2, <1>3, <1>4, StoreInv

LEMMA PassInv ==
  ASSUME Inv, held # "none", NEW y \in Types, Pass(y)
  PROVE  Inv' /\ ~Banned /\ (held = "map" => prl' # None)
<1> DEFINE l == IF Limit[y] = 0 THEN Refill(Limiter) ELSE Roll(Refill(Limiter), y)
           c == IF Limit[y] = 0 THEN l.count[y] ELSE l.count[y] + 1
           m == [l EXCEPT !.tokens = l.tokens - Second, !.count = [l.count EXCEPT ![y] = c]]
<1>1. LimiterSound(l)
  <2>1. LimiterSound(Refill(Limiter)) /\ now \in Nat
    BY LimiterHeld, RefillSound DEF Inv
  <2> QED  BY <2>1, RollSound
<1>2. Store(m) /\ l.tokens >= Second /\ UNCHANGED bannedAt /\ ~Banned
  BY NoBan DEF Pass
<1> HIDE DEF l
<1>3. c \in Nat /\ l.tokens - Second \in Nat
  BY <1>1, <1>2, RateLimiterAssumption DEF LimiterSound, PeerRateLimiter
<1> HIDE DEF c
<1>4. [l.count EXCEPT ![y] = c] \in [Types -> Nat]
  BY <1>1, <1>3 DEF LimiterSound, PeerRateLimiter
<1>5. LimiterSound(m)
  BY Zenon, <1>1, <1>3, <1>4 DEF LimiterSound, PeerRateLimiter
<1> HIDE DEF m
<1>6. m # None
  BY <1>5, RateLimiterAssumption DEF LimiterSound
<1>7. held = "map" => prl' = m
  BY <1>2 DEF Store
<1> QED  BY <1>2, <1>5, <1>6, <1>7, StoreInv

-----------------------------------------------------------------------------
(* The other steps.                                                        *)

LEMMA NewSound ==
  ASSUME Inv
  PROVE  LimiterSound(NewPrl) /\ NewPrl # None
<1>1. BurstSize * Second \in Nat /\ now \in Nat
  BY RateLimiterAssumption DEF Inv
<1> QED  BY <1>1, RateLimiterAssumption DEF LimiterSound, PeerRateLimiter, NewPrl

LEMMA GetPeerLimiterInv ==
  ASSUME Inv, GetPeerLimiter
  PROVE  Inv'
  BY NewSound DEF GetPeerLimiter, Inv, RemovedSound, BanSound, Banned, LimiterSound

LEMMA CleanupInv ==
  ASSUME Inv, Cleanup
  PROVE  Inv'
<1>1. /\ prl # None /\ LimiterSound(prl) /\ now \in Nat
      /\ now - prl.lastRefill > StaleThreshold
      /\ prl' = None /\ UNCHANGED <<now, bannedAt>>
  BY DEF Cleanup, Stale, Inv
<1>2. ~Banned
  BY <1>1, RateLimiterAssumption DEF Inv, BanSound, Banned, LimiterSound, PeerRateLimiter
<1>3. CASE held = "map" /\ held' = "removed" /\ removed' = prl
  BY <1>1, <1>2, <1>3 DEF Inv, RemovedSound, BanSound, Banned, LimiterSound
<1>4. CASE held # "map" /\ UNCHANGED <<held, removed>>
  BY <1>1, <1>2, <1>4 DEF Inv, RemovedSound, BanSound, Banned, LimiterSound
<1> QED  BY <1>3, <1>4 DEF Cleanup

LEMMA TickInv ==
  ASSUME Inv, Tick
  PROVE  Inv'
<1>1. now \in Nat /\ now' = now + 1 /\ UNCHANGED <<prl, held, removed, bannedAt>>
  BY DEF Tick, Inv
<1>2. ASSUME NEW l, LimiterSound(l)  PROVE LimiterSound(l)'
  BY <1>1, <1>2 DEF LimiterSound, PeerRateLimiter
<1>3. Banned' => Banned
  BY <1>1, RateLimiterAssumption DEF Banned, Inv
<1>4. RemovedSound'
  BY <1>1, <1>2, RateLimiterAssumption DEF Inv, RemovedSound, LimiterSound, PeerRateLimiter
<1> QED  BY <1>1, <1>2, <1>3, <1>4 DEF Inv, BanSound

LEMMA NextInv == Inv /\ [Next]_vars => Inv'
<1> SUFFICES ASSUME Inv, [Next]_vars  PROVE Inv'
  OBVIOUS
<1>1. ASSUME NEW y \in Types, AllowMessage(y)  PROVE Inv'
  BY <1>1, RefuseBannedInv, BanInv, RefuseTypeInv, PassInv DEF AllowMessage
<1>2. CASE UNCHANGED vars
  BY <1>2 DEF vars, Inv, RemovedSound, BanSound, Banned, LimiterSound
<1> QED  BY <1>1, <1>2, GetPeerLimiterInv, CleanupInv, TickInv DEF Next

\* Nothing of a banned peer gets through for BanDuration, although cleanup may
\* remove the limiter that carries the ban, also from under a running call.
THEOREM BansAreKept == Spec => BanHonoured
<1>1. Inv /\ [Next]_vars
        => [passed' # passed => bannedAt = None \/ now >= bannedAt + BanDuration]_vars
  <2> SUFFICES ASSUME Inv, Next, passed' # passed
               PROVE  bannedAt = None \/ now >= bannedAt + BanDuration
    OBVIOUS
  <2>1. PICK y \in Types : held # "none" /\ Pass(y)
    BY DEF Next, AllowMessage, GetPeerLimiter, Cleanup, Tick, RefuseBanned, Ban, RefuseType
  <2>2. ~Banned
    BY <2>1, PassInv
  <2> QED  BY <2>2, RateLimiterAssumption DEF Banned, Inv
<1> QED  BY InitInv, NextInv, <1>1, PTL DEF Spec, BanHonoured

-----------------------------------------------------------------------------
(* Counting the messages let through.                                      *)

Message == [type : Types, at : Nat]

PassedSound ==
  passed \in Seq(Message) /\ \A i \in 1 .. Len(passed) : passed[i].at <= now

Since(q, S, s) == {i \in 1 .. Len(q) : q[i].type \in S /\ q[i].at >= s}

Within(q, S, s, t) == {i \in 1 .. Len(q) : q[i].type \in S /\ q[i].at \in s .. t}

\* How many messages of the types S are in q with the time s or a later one.
From(q, S, s) == Cardinality(Since(q, S, s))

Between(q, S, s, t) == Cardinality(Within(q, S, s, t))

LEMMA PassedBetween ==
  ASSUME NEW S, NEW s, NEW t
  PROVE  PassedIn(S, s, t) = Between(passed, S, s, t)
  BY Zenon DEF PassedIn, Between, Within

LEMMA MessageTimes ==
  ASSUME NEW q \in Seq(Message)
  PROVE  \A i \in 1 .. Len(q) : q[i].at \in Nat
<1>1. \A i \in 1 .. Len(q) : q[i] \in Message
  OBVIOUS
<1> QED  BY <1>1 DEF Message

LEMMA FromNat ==
  ASSUME NEW q \in Seq(Message), NEW S, NEW s \in Nat
  PROVE  /\ IsFiniteSet(Since(q, S, s)) /\ From(q, S, s) \in Nat
         /\ \A t \in Nat : /\ Between(q, S, s, t) \in Nat
                           /\ Between(q, S, s, t) <= From(q, S, s)
<1>1. IsFiniteSet(1 .. Len(q))
  BY FS_Interval
<1>2. Since(q, S, s) \subseteq 1 .. Len(q)
  BY DEF Since
<1>3. IsFiniteSet(Since(q, S, s)) /\ From(q, S, s) \in Nat
  BY Zenon, <1>1, <1>2, FS_Subset, FS_CardinalityType DEF From
<1>4. ASSUME NEW t \in Nat
      PROVE  Between(q, S, s, t) \in Nat /\ Between(q, S, s, t) <= From(q, S, s)
  <2>1. Within(q, S, s, t) \subseteq Since(q, S, s)
    BY MessageTimes DEF Within, Since
  <2> QED  BY Zenon, <1>3, <2>1, FS_Subset, FS_CardinalityType DEF From, Between
<1> QED  BY <1>3, <1>4

\* Nothing was let through after the last message.
LEMMA FromNone ==
  ASSUME NEW q \in Seq(Message), NEW S, NEW s \in Nat, \A i \in 1 .. Len(q) : q[i].at < s
  PROVE  From(q, S, s) = 0
<1>1. Since(q, S, s) = {}
  BY MessageTimes DEF Since
<1> QED  BY Zenon, <1>1, FS_EmptySet DEF From

\* One more message.
Sent(y) == now \in Nat /\ y \in Types /\ passed' = Append(passed, [type |-> y, at |-> now])

LEMMA SentSound ==
  ASSUME PassedSound, NEW y, Sent(y)
  PROVE  /\ passed \in Seq(Message) /\ passed' \in Seq(Message) /\ now \in Nat
         /\ Len(passed) + 1 \notin 1 .. Len(passed)
         /\ 1 .. Len(passed') = (1 .. Len(passed)) \cup {Len(passed) + 1}
         /\ \A i \in 1 .. Len(passed) : passed'[i] = passed[i]
         /\ passed'[Len(passed) + 1].type = y /\ passed'[Len(passed) + 1].at = now
<1>1. passed \in Seq(Message) /\ [type |-> y, at |-> now] \in Message
  BY DEF PassedSound, Sent, Message
<1>2. /\ Len(passed) \in Nat /\ Len(passed') = Len(passed) + 1
      /\ \A i \in 1 .. Len(passed) : passed'[i] = passed[i]
      /\ passed'[Len(passed) + 1] = [type |-> y, at |-> now]
      /\ passed' \in Seq(Message)
  BY <1>1 DEF Sent
<1>3. /\ Len(passed) + 1 \notin 1 .. Len(passed)
      /\ 1 .. Len(passed) + 1 = (1 .. Len(passed)) \cup {Len(passed) + 1}
  BY <1>2
<1>4. passed'[Len(passed) + 1].type = y /\ passed'[Len(passed) + 1].at = now
  BY <1>2
<1> QED  BY Zenon, <1>1, <1>2, <1>3, <1>4 DEF Sent

LEMMA SentFrom ==
  ASSUME PassedSound, NEW y, Sent(y), NEW S, NEW s \in Nat
  PROVE  From(passed', S, s) =
           IF y \in S /\ s <= now THEN From(passed, S, s) + 1 ELSE From(passed, S, s)
<1> DEFINE k == Len(passed) + 1
           A == Since(passed, S, s)
           B == Since(passed', S, s)
<1>1. /\ k \notin 1 .. Len(passed) /\ 1 .. Len(passed') = (1 .. Len(passed)) \cup {k}
      /\ \A i \in 1 .. Len(passed) : passed'[i] = passed[i]
      /\ passed'[k].type = y /\ passed'[k].at = now /\ now \in Nat
  BY Zenon, SentSound
<1>2. k \notin A /\ IsFiniteSet(A)
  BY <1>1, FromNat DEF Since, PassedSound
<1> HIDE DEF k
<1>3. CASE y \in S /\ s <= now
  <2>1. B = A \cup {k}
    BY <1>1, <1>3 DEF Since
  <2>2. Cardinality(A \cup {k}) = Cardinality(A) + 1
    BY Zenon, <1>2, FS_AddElement
  <2> QED  BY Zenon, <1>3, <2>1, <2>2 DEF From
<1>4. CASE ~(y \in S /\ s <= now)
  <2>1. B = A
    BY <1>1, <1>4 DEF Since
  <2> QED  BY Zenon, <1>4, <2>1 DEF From
<1> QED  BY <1>3, <1>4

LEMMA SentOutside ==
  ASSUME PassedSound, NEW y, Sent(y), NEW S, NEW s \in Nat, NEW t \in Nat, now \notin s .. t
  PROVE  Between(passed', S, s, t) = Between(passed, S, s, t)
<1> DEFINE k == Len(passed) + 1
<1>1. /\ 1 .. Len(passed') = (1 .. Len(passed)) \cup {k}
      /\ \A i \in 1 .. Len(passed) : passed'[i] = passed[i]
      /\ passed'[k].at = now
  BY Zenon, SentSound
<1> HIDE DEF k
<1>2. Within(passed', S, s, t) = Within(passed, S, s, t)
  BY <1>1 DEF Within
<1> QED  BY Zenon, <1>2 DEF Between

-----------------------------------------------------------------------------
(* The steps, by what they do to the limiter in the table.                 *)

Same(m, z) == m.windowStart[z] = prl.windowStart[z] /\ m.count[z] = prl.count[z]

\* The window of type z is over, or there was none.
Ended(z) == prl.windowStart[z] = None \/ now - prl.windowStart[z] >= Second

Rolled(m, z, n) == Ended(z) /\ m.windowStart[z] = now /\ m.count[z] = n

Refused(m) ==
  /\ m.lastRefill = now /\ m.tokens = Refill(prl).tokens
  /\ \A z \in Types : Same(m, z) \/ Rolled(m, z, 0)
  /\ UNCHANGED passed

Passes(m, y) ==
  /\ m.lastRefill = now
  /\ m.tokens = Refill(prl).tokens - Second /\ Refill(prl).tokens >= Second
  /\ \A z \in Types \ {y} : Same(m, z)
  /\ Limit[y] > 0 =>
       \/ Rolled(m, y, 1)
       \/ /\ ~Ended(y) /\ m.windowStart[y] = prl.windowStart[y]
          /\ prl.count[y] < Limit[y] /\ m.count[y] = prl.count[y] + 1
  /\ Sent(y)

QuietStep ==
  UNCHANGED <<now, prl, passed>> /\ (held' = "removed" => held = "removed")

NewStep ==
  /\ prl = None /\ held = "none" /\ prl' = NewPrl /\ held' = "map"
  /\ UNCHANGED <<now, passed>>

MapStep ==
  /\ prl # None /\ prl' # None /\ held' = "none" /\ UNCHANGED now
  /\ Refused(prl') \/ \E y \in Types : Passes(prl', y)

RemovedStep ==
  /\ held = "removed" /\ held' = "none" /\ UNCHANGED <<now, prl>>
  /\ \E y \in Types : Sent(y)

CleanupStep ==
  /\ prl # None /\ now - prl.lastRefill > StaleThreshold /\ prl' = None
  /\ UNCHANGED <<now, passed>>

TickStep == now' = now + 1 /\ UNCHANGED <<prl, held, passed>>

LEMMA RefillFields ==
  ASSUME NEW l, LimiterSound(l)
  PROVE  Refill(l).count = l.count /\ Refill(l).windowStart = l.windowStart
  BY DEF Refill, LimiterSound, PeerRateLimiter

LEMMA RollFields ==
  ASSUME NEW l, NEW y \in Types, LimiterSound(l), now \in Nat
  PROVE  /\ \A z \in Types \ {y} : /\ Roll(l, y).windowStart[z] = l.windowStart[z]
                                   /\ Roll(l, y).count[z] = l.count[z]
         /\ IF l.windowStart[y] = None \/ now - l.windowStart[y] >= Second
            THEN Roll(l, y).windowStart[y] = now /\ Roll(l, y).count[y] = 0
            ELSE Roll(l, y) = l
  BY DEF Roll, LimiterSound, PeerRateLimiter

LEMMA BanStep ==
  ASSUME Inv, held = "map", NEW y \in Types, Ban(y)
  PROVE  Refused(prl')
<1> DEFINE l == Refill(prl)
           m == [l EXCEPT !.bannedUntil = now + BanDuration]
<1>1. LimiterSound(prl) /\ now \in Nat
  BY DEF Inv
<1>2. prl' = m /\ UNCHANGED passed
  BY DEF Ban, Store, Limiter
<1>3. /\ LimiterSound(l) /\ l.lastRefill = now
      /\ l.count = prl.count /\ l.windowStart = prl.windowStart
  BY <1>1, RefillSound, RefillFields
<1> HIDE DEF l
<1>4. /\ m.lastRefill = l.lastRefill /\ m.tokens = l.tokens
      /\ m.count = l.count /\ m.windowStart = l.windowStart
  BY <1>3 DEF LimiterSound, PeerRateLimiter
<1> HIDE DEF m
<1>5. prl'.lastRefill = now /\ prl'.tokens = Refill(prl).tokens
  BY Zenon, <1>2, <1>3, <1>4 DEF l
<1> QED  BY Zenon, <1>2, <1>3, <1>4, <1>5 DEF Refused, Same

LEMMA RefuseTypeStep ==
  ASSUME Inv, held = "map", NEW y \in Types, RefuseType(y)
  PROVE  Refused(prl')
<1> DEFINE l == Refill(prl)
           m == Roll(l, y)
<1>1. LimiterSound(prl) /\ now \in Nat
  BY DEF Inv
<1>2. prl' = m /\ UNCHANGED passed
  BY DEF RefuseType, Store, Limiter
<1>3. /\ LimiterSound(l) /\ l.lastRefill = now
      /\ l.count = prl.count /\ l.windowStart = prl.windowStart
  BY <1>1, RefillSound, RefillFields
<1> HIDE DEF l
<1>4. m.lastRefill = l.lastRefill /\ m.tokens = l.tokens
  BY <1>1, <1>3, RollSound
<1>5. \A z \in Types : Same(m, z) \/ Rolled(m, z, 0)
  BY <1>1, <1>3, RollFields DEF Same, Rolled, Ended
<1> HIDE DEF m
<1>6. m.lastRefill = now /\ m.tokens = Refill(prl).tokens
  BY Zenon, <1>3, <1>4 DEF l
<1> QED  BY Zenon, <1>2, <1>5, <1>6 DEF Refused

LEMMA PassStep ==
  ASSUME Inv, held = "map", NEW y \in Types, Pass(y)
  PROVE  Passes(prl', y)
<1> DEFINE l == Refill(prl)
           r == IF Limit[y] = 0 THEN l ELSE Roll(l, y)
           c == IF Limit[y] = 0 THEN r.count[y] ELSE r.count[y] + 1
           m == [r EXCEPT !.tokens = r.tokens - Second, !.count = [r.count EXCEPT ![y] = c]]
<1>1. LimiterSound(prl) /\ now \in Nat
  BY DEF Inv
<1>2. /\ prl' = m /\ Sent(y) /\ r.tokens >= Second
      /\ Limit[y] = 0 \/ r.count[y] < Limit[y]
  BY <1>1 DEF Pass, Store, Limiter, Sent
<1>3. /\ LimiterSound(l) /\ l.lastRefill = now
      /\ l.count = prl.count /\ l.windowStart = prl.windowStart
  BY <1>1, RefillSound, RefillFields
<1> HIDE DEF l
<1>4. LimiterSound(r) /\ r.lastRefill = now /\ r.tokens = l.tokens
  BY Zenon, <1>1, <1>3, RollSound
<1>5. \A z \in Types \ {y} : r.windowStart[z] = prl.windowStart[z] /\ r.count[z] = prl.count[z]
  BY <1>1, <1>3, RollFields
<1>6. Limit[y] > 0 =>
        \/ Ended(y) /\ r.windowStart[y] = now /\ r.count[y] = 0
        \/ ~Ended(y) /\ r.windowStart[y] = prl.windowStart[y] /\ r.count[y] = prl.count[y]
  BY <1>1, <1>3, RollFields, RateLimiterAssumption DEF Ended
<1> HIDE DEF r
<1>7. /\ m.lastRefill = now /\ m.tokens = l.tokens - Second
      /\ m.windowStart = r.windowStart
      /\ \A z \in Types \ {y} : m.count[z] = r.count[z]
      /\ m.count[y] = c
  BY <1>4 DEF LimiterSound, PeerRateLimiter
<1> HIDE DEF m
<1>8. Limit[y] > 0 =>
        \/ Rolled(m, y, 1)
        \/ /\ ~Ended(y) /\ m.windowStart[y] = prl.windowStart[y]
           /\ prl.count[y] < Limit[y] /\ m.count[y] = prl.count[y] + 1
  BY <1>2, <1>6, <1>7, RateLimiterAssumption DEF Rolled
<1>9. \A z \in Types \ {y} : Same(m, z)
  BY Zenon, <1>5, <1>7 DEF Same
<1>10. m.tokens = Refill(prl).tokens - Second /\ Refill(prl).tokens >= Second
  BY Zenon, <1>2, <1>4, <1>7 DEF l
<1> QED  BY Zenon, <1>2, <1>7, <1>8, <1>9, <1>10 DEF Passes

LEMMA NextSteps ==
  ASSUME Inv, [Next]_vars
  PROVE  QuietStep \/ NewStep \/ MapStep \/ RemovedStep \/ CleanupStep \/ TickStep
<1>1. CASE UNCHANGED vars
  BY Zenon, <1>1 DEF vars, QuietStep
<1>2. CASE GetPeerLimiter
  BY Zenon, <1>2 DEF GetPeerLimiter, QuietStep, NewStep
<1>3. ASSUME NEW y \in Types, AllowMessage(y), held = "map"  PROVE QuietStep \/ MapStep
  <2>1. prl # None /\ held' = "none" /\ now' = now
    BY <1>3 DEF Inv, AllowMessage, RefuseBanned, Ban, RefuseType, Pass, Store
  <2>2. CASE RefuseBanned(y)
    BY <1>3, <2>2 DEF RefuseBanned, Store, Limiter, QuietStep
  <2>3. CASE Ban(y)
    BY <1>3, <2>1, <2>3, BanInv, BanStep DEF MapStep
  <2>4. CASE RefuseType(y)
    BY <1>3, <2>1, <2>4, RefuseTypeInv, RefuseTypeStep DEF MapStep
  <2>5. CASE Pass(y)
    BY <1>3, <2>1, <2>5, PassInv, PassStep DEF MapStep
  <2> QED  BY <1>3, <2>2, <2>3, <2>4, <2>5 DEF AllowMessage
<1>4. ASSUME NEW y \in Types, AllowMessage(y), held = "removed"  PROVE QuietStep \/ RemovedStep
  <2>1. held' = "none" /\ UNCHANGED <<now, prl>>
    BY <1>4 DEF AllowMessage, RefuseBanned, Ban, RefuseType, Pass, Store
  <2>2. passed' = passed \/ passed' = Append(passed, [type |-> y, at |-> now])
    BY <1>4 DEF AllowMessage, RefuseBanned, Ban, RefuseType, Pass
  <2> QED  BY <1>4, <2>1, <2>2 DEF QuietStep, RemovedStep, Sent, Inv
<1>5. CASE Cleanup
  BY <1>5 DEF Cleanup, Stale, CleanupStep
<1>6. CASE Tick
  BY <1>6 DEF Tick, TickStep
<1>7. ASSUME NEW y \in Types, AllowMessage(y)  PROVE held = "map" \/ held = "removed"
  BY Zenon, <1>7 DEF AllowMessage, Inv
<1> QED  BY <1>1, <1>2, <1>3, <1>4, <1>5, <1>6, <1>7 DEF Next

-----------------------------------------------------------------------------
(* What was let through, and when the limiter was last used.               *)

LastUse ==
  /\ PassedSound
  /\ prl # None => \A i \in 1 .. Len(passed) : passed[i].at <= prl.lastRefill

LEMMA LastUseFrom ==
  ASSUME Inv, LastUse, prl # None, NEW S, NEW s \in Nat, s > prl.lastRefill
  PROVE  From(passed, S, s) = 0
<1>1. prl.lastRefill \in Nat
  BY DEF Inv, LimiterSound, PeerRateLimiter
<1>2. \A i \in 1 .. Len(passed) : passed[i].at < s
  BY <1>1, MessageTimes DEF LastUse, PassedSound
<1> QED  BY <1>2, FromNone DEF LastUse, PassedSound

LEMMA NextLastUse == Inv /\ LastUse /\ [Next]_vars => LastUse'
<1> SUFFICES ASSUME Inv, LastUse, [Next]_vars  PROVE LastUse'
  OBVIOUS
<1>0. PassedSound /\ now \in Nat
  BY DEF LastUse, Inv
<1>1. CASE QuietStep
  BY <1>1 DEF QuietStep, LastUse, PassedSound
<1>2. CASE NewStep
  BY <1>2 DEF NewStep, NewPrl, LastUse, PassedSound
<1>3. ASSUME NEW y, Sent(y), now' = now, prl' # None => prl'.lastRefill = now
      PROVE  LastUse'
  <2>1. /\ passed' \in Seq(Message)
        /\ 1 .. Len(passed') = (1 .. Len(passed)) \cup {Len(passed) + 1}
        /\ \A i \in 1 .. Len(passed) : passed'[i] = passed[i]
        /\ passed'[Len(passed) + 1].at = now
    BY Zenon, <1>0, <1>3, SentSound
  <2>2. \A i \in 1 .. Len(passed') : passed'[i].at <= now
    BY <1>0, <2>1 DEF PassedSound
  <2> QED  BY Zenon, <1>3, <2>1, <2>2 DEF LastUse, PassedSound
<1>4. CASE MapStep
  <2>1. CASE Refused(prl')
    BY <1>4, <2>1 DEF MapStep, Refused, LastUse, PassedSound
  <2> QED  BY <1>3, <1>4, <2>1 DEF MapStep, Passes
<1>5. CASE RemovedStep
  BY <1>3, <1>5 DEF RemovedStep, Inv, RemovedSound
<1>6. CASE CleanupStep
  BY <1>6 DEF CleanupStep, LastUse, PassedSound
<1>7. CASE TickStep
  BY <1>0, <1>7, MessageTimes DEF TickStep, LastUse, PassedSound
<1> QED  BY <1>1, <1>2, <1>4, <1>5, <1>6, <1>7, NextSteps

-----------------------------------------------------------------------------
(* Windows.                                                                *)

\* In the second that ends now at most n messages of type y were let through.
Recent(y, n) == \A s \in Nat : s + Second > now => From(passed, {y}, s) <= n

\* The counter of type y counts what its window let through, and the second
\* before the window let through at most the limit.
Window(y) ==
  LET w == prl.windowStart[y]
      c == prl.count[y]
  IN IF w = None THEN Recent(y, Limit[y])
     ELSE /\ w <= prl.lastRefill /\ c <= Limit[y]
          /\ \A s \in Nat : s > w => From(passed, {y}, s) <= c
          /\ \A s \in Nat : s + Second > w => From(passed, {y}, s) <= Limit[y] + c

Twice(y) == \A s \in Nat : Between(passed, {y}, s, s + Second - 1) <= 2 * Limit[y]

WindowSound(y) ==
  /\ prl # None => Window(y)
  /\ prl = None => Recent(y, IF held = "removed" THEN 0 ELSE Limit[y])
  /\ Twice(y)

Limited == {y \in Types : Limit[y] > 0}

LEMMA LimitedNat ==
  ASSUME NEW y \in Limited
  PROVE  y \in Types /\ Limit[y] \in Nat /\ Limit[y] >= 1 /\ Second \in Nat /\ Second >= 1
  BY RateLimiterAssumption DEF Limited

\* A message let through now, when the last second holds at most twice the limit.
LEMMA TwiceSent ==
  ASSUME LastUse, NEW y \in Limited, Twice(y), NEW z, Sent(z),
         \A s \in Nat : s + Second > now => From(passed', {y}, s) <= 2 * Limit[y]
  PROVE  Twice(y)'
<1>0. PassedSound /\ passed' \in Seq(Message) /\ now \in Nat
  BY SentSound DEF LastUse
<1> SUFFICES ASSUME NEW s \in Nat
             PROVE  Between(passed', {y}, s, s + Second - 1) <= 2 * Limit[y]
  BY DEF Twice
<1> DEFINE t == s + Second - 1
<1>1. t \in Nat /\ (now \in s .. t => s + Second > now)
  BY <1>0, LimitedNat
<1>2. CASE now \notin s .. t
  <2>1. Between(passed', {y}, s, t) = Between(passed, {y}, s, t)
    BY <1>0, <1>1, <1>2, SentOutside
  <2> QED  BY <2>1 DEF Twice
<1> HIDE DEF t
<1>3. CASE now \in s .. t
  <2>1. From(passed', {y}, s) <= 2 * Limit[y] /\ From(passed', {y}, s) \in Nat
    BY <1>0, <1>1, <1>3, FromNat
  <2>2. Between(passed', {y}, s, t) <= From(passed', {y}, s) /\ Between(passed', {y}, s, t) \in Nat
    BY <1>0, <1>1, FromNat
  <2>3. Between(passed', {y}, s, t) <= 2 * Limit[y]
    BY <2>1, <2>2, LimitedNat
  <2> QED  BY <2>3 DEF t
<1> QED  BY <1>2, <1>3

\* A message of another type.
LEMMA OtherSent ==
  ASSUME LastUse, NEW y, Twice(y), NEW z, z # y, Sent(z)
  PROVE  Twice(y)'
<1> DEFINE k == Len(passed) + 1
<1>1. /\ 1 .. Len(passed') = (1 .. Len(passed)) \cup {k}
      /\ \A i \in 1 .. Len(passed) : passed'[i] = passed[i]
      /\ passed'[k].type = z
  BY Zenon, SentSound DEF LastUse
<1> HIDE DEF k
<1>2. \A s, t : Within(passed', {y}, s, t) = Within(passed, {y}, s, t)
  BY <1>1 DEF Within
<1>3. \A s, t : Between(passed', {y}, s, t) = Between(passed, {y}, s, t)
  BY Zenon, <1>2 DEF Between
<1> QED  BY Zenon, <1>3 DEF Twice

LEMMA RecentMore ==
  ASSUME LastUse, NEW y \in Limited, Recent(y, 0)
  PROVE  Recent(y, Limit[y])
<1>1. \A s \in Nat : From(passed, {y}, s) \in Nat
  BY FromNat DEF LastUse, PassedSound
<1>2. Limit[y] \in Nat
  BY LimitedNat
<1> QED  BY <1>1, <1>2 DEF Recent

LEMMA QuietWindow ==
  ASSUME LastUse, NEW y \in Limited, WindowSound(y), QuietStep
  PROVE  WindowSound(y)'
<1>1. UNCHANGED <<now, prl, passed>>
  BY DEF QuietStep
<1>2. Twice(y)' /\ (\A n : Recent(y, n)' <=> Recent(y, n)) /\ (Window(y)' <=> Window(y))
  BY Zenon, <1>1 DEF WindowSound, Twice, Recent, Window
<1>3. Recent(y, 0) => Recent(y, Limit[y])
  BY RecentMore
<1> QED  BY Zenon, <1>1, <1>2, <1>3 DEF WindowSound, QuietStep

LEMMA NewWindow ==
  ASSUME Inv, NEW y \in Limited, WindowSound(y), NewStep
  PROVE  WindowSound(y)'
<1>1. /\ prl = None /\ held # "removed" /\ prl' = NewPrl /\ UNCHANGED <<now, passed>>
  BY DEF NewStep
<1>2. prl'.windowStart[y] = None
  BY <1>1, LimitedNat DEF NewPrl
<1>3. Recent(y, Limit[y])' /\ Twice(y)'
  BY Zenon, <1>1 DEF WindowSound, Recent, Twice
<1>4. Window(y)'
  BY Zenon, <1>2, <1>3 DEF Window
<1>5. prl' # None
  BY <1>1, NewSound
<1> QED  BY Zenon, <1>3, <1>4, <1>5 DEF WindowSound

\* The fields of the limiter, and the counts, as numbers.
LEMMA WindowNat ==
  ASSUME Inv, LastUse, prl # None, NEW y \in Limited
  PROVE  /\ now \in Nat /\ prl.lastRefill \in Nat /\ prl.lastRefill <= now
         /\ prl.count[y] \in Nat
         /\ prl.windowStart[y] # None => prl.windowStart[y] \in Nat
         /\ \A s \in Nat : From(passed, {y}, s) \in Nat
<1>1. prl \in PeerRateLimiter /\ prl.lastRefill <= now /\ now \in Nat /\ y \in Types
  BY LimitedNat DEF Inv, LimiterSound
<1>2. prl.lastRefill \in Nat /\ prl.count[y] \in Nat /\ prl.windowStart[y] \in Nat \cup {None}
  BY <1>1 DEF PeerRateLimiter
<1>3. \A s \in Nat : From(passed, {y}, s) \in Nat
  BY FromNat DEF LastUse, PassedSound
<1> QED  BY <1>1, <1>2, <1>3

\* A window that is over let through at most the limit in the last second.
LEMMA EndedWindow ==
  ASSUME Inv, LastUse, prl # None, NEW y \in Limited, Window(y), Ended(y)
  PROVE  Recent(y, Limit[y])
<1>1. CASE prl.windowStart[y] = None
  BY Zenon, <1>1 DEF Window
<1>2. CASE prl.windowStart[y] # None
  <2> DEFINE w == prl.windowStart[y]
             c == prl.count[y]
  <2>1. w \in Nat /\ c \in Nat /\ now \in Nat /\ \A s \in Nat : From(passed, {y}, s) \in Nat
    BY <1>2, WindowNat
  <2>2. now - w >= Second /\ c <= Limit[y] /\ \A s \in Nat : s > w => From(passed, {y}, s) <= c
    BY Zenon, <1>2 DEF Ended, Window
  <2>3. Second \in Nat /\ Limit[y] \in Nat
    BY LimitedNat
  <2> HIDE DEF w, c
  <2> SUFFICES ASSUME NEW s \in Nat, s + Second > now  PROVE From(passed, {y}, s) <= Limit[y]
    BY DEF Recent
  <2>4. s > w
    BY <2>1, <2>2, <2>3
  <2>5. From(passed, {y}, s) <= c /\ From(passed, {y}, s) \in Nat
    BY Zenon, <2>1, <2>2, <2>4
  <2> QED  BY <2>1, <2>2, <2>3, <2>5
<1> QED  BY <1>1, <1>2

\* A limiter that is used, without a message of type y let through.
LEMMA UsedWindow ==
  ASSUME Inv, LastUse, prl # None, NEW y \in Limited, Window(y), UNCHANGED now,
         prl'.lastRefill = now, Same(prl', y) \/ Rolled(prl', y, 0),
         \A s \in Nat : From(passed', {y}, s) = From(passed, {y}, s)
  PROVE  Window(y)'
<1>1. CASE Same(prl', y)
  <2>1. CASE prl.windowStart[y] = None
    BY Zenon, <1>1, <2>1 DEF Same, Window, Recent
  <2>2. CASE prl.windowStart[y] # None
    <3>1. prl.windowStart[y] <= prl'.lastRefill
      BY <2>2, WindowNat DEF Window
    <3> QED  BY Zenon, <1>1, <2>2, <3>1 DEF Same, Window
  <2> QED  BY <2>1, <2>2
<1>2. CASE Rolled(prl', y, 0)
  <2>1. now \in Nat /\ now # None /\ Limit[y] \in Nat /\ Recent(y, Limit[y])
    <3>1. now \in Nat /\ Limit[y] \in Nat /\ Recent(y, Limit[y])
      BY Zenon, <1>2, EndedWindow, WindowNat, LimitedNat DEF Rolled
    <3> QED  BY Zenon, <3>1, RateLimiterAssumption
  <2>2. prl'.windowStart[y] = now /\ prl'.count[y] = 0
    BY <1>2 DEF Rolled
  <2>3. \A s \in Nat : s > now => From(passed', {y}, s) <= 0
    BY <2>1, WindowNat, LastUseFrom
  <2>4. \A s \in Nat : s + Second > now => From(passed', {y}, s) <= Limit[y] + 0
    BY <2>1 DEF Recent
  <2>5. now <= prl'.lastRefill /\ 0 <= Limit[y]
    BY <2>1
  <2> QED  BY Zenon, <2>1, <2>2, <2>3, <2>4, <2>5 DEF Window
<1> QED  BY <1>1, <1>2

\* A limiter that lets a message of type y through.
LEMMA PassWindow ==
  ASSUME Inv, LastUse, prl # None, NEW y \in Limited, Window(y), Passes(prl', y), UNCHANGED now
  PROVE  /\ Window(y)'
         /\ \A s \in Nat : s + Second > now => From(passed', {y}, s) <= 2 * Limit[y]
<1> DEFINE m == Limit[y]
           F(s) == From(passed, {y}, s)
           G(s) == From(passed', {y}, s)
<1>1. /\ now \in Nat /\ now # None /\ m \in Nat /\ m >= 1 /\ Second \in Nat /\ Second >= 1
      /\ \A s \in Nat : F(s) \in Nat
  <2>1. now \in Nat /\ m \in Nat /\ m >= 1 /\ Second \in Nat /\ Second >= 1
        /\ \A s \in Nat : F(s) \in Nat
    BY Zenon, WindowNat, LimitedNat
  <2> QED  BY Zenon, <2>1, RateLimiterAssumption
<1>2. \A s \in Nat : G(s) = IF s <= now THEN F(s) + 1 ELSE F(s)
  BY SentFrom DEF Passes, LastUse
<1>3. prl'.lastRefill = now /\ m > 0
  BY <1>1 DEF Passes
<1>4. CASE Rolled(prl', y, 1)
  <2>1. prl'.windowStart[y] = now /\ prl'.count[y] = 1
    BY <1>4 DEF Rolled
  <2>2. \A s \in Nat : s + Second > now => F(s) <= m
    BY Zenon, <1>4, EndedWindow DEF Rolled, Recent
  <2>3. \A s \in Nat : s > now => F(s) = 0
    BY <1>1, WindowNat, LastUseFrom
  <2> HIDE DEF F, G, m
  <2>4. \A s \in Nat : s + Second > now => G(s) <= m + 1
    BY <1>1, <1>2, <2>2
  <2>5. \A s \in Nat : s > now => G(s) <= 1
    BY <1>1, <1>2, <2>3
  <2>6. now <= prl'.lastRefill /\ 1 <= m
    BY <1>1, <1>3
  <2>7. Window(y)'
    BY Zenon, <1>1, <2>1, <2>4, <2>5, <2>6 DEF Window, G, m
  <2>8. \A s \in Nat : s + Second > now => G(s) <= 2 * m
    <3>1. \A s \in Nat : G(s) \in Nat
      BY <1>1, <1>2
    <3> QED  BY <1>1, <2>4, <3>1
  <2> QED  BY Zenon, <2>7, <2>8 DEF G, m
<1>5. CASE ~Rolled(prl', y, 1)
  <2> DEFINE w == prl.windowStart[y]
             c == prl.count[y]
  <2>1. ~Ended(y) /\ prl'.windowStart[y] = w /\ c < m /\ prl'.count[y] = c + 1
    BY Zenon, <1>3, <1>5 DEF Passes
  <2>2. w # None /\ w \in Nat /\ c \in Nat /\ now - w < Second
    <3>1. w # None /\ ~(now - w >= Second)
      BY Zenon, <2>1 DEF Ended
    <3>2. w \in Nat /\ c \in Nat
      BY Zenon, <3>1, WindowNat
    <3> QED  BY <1>1, <3>1, <3>2
  <2>3. /\ w <= prl.lastRefill /\ prl.lastRefill \in Nat /\ prl.lastRefill <= now
        /\ \A s \in Nat : s > w => F(s) <= c
        /\ \A s \in Nat : s + Second > w => F(s) <= m + c
    BY Zenon, <2>2, WindowNat DEF Window
  <2> HIDE DEF F, G, m, w, c
  <2>4. w <= prl'.lastRefill /\ c + 1 <= m /\ w <= now
    BY <1>1, <1>3, <2>1, <2>2, <2>3
  <2>5. \A s \in Nat : s > w => G(s) <= c + 1
    BY <1>1, <1>2, <2>2, <2>3
  <2>6. \A s \in Nat : s + Second > w => G(s) <= m + (c + 1)
    BY <1>1, <1>2, <2>2, <2>3
  <2>7. Window(y)'
    BY Zenon, <2>1, <2>2, <2>4, <2>5, <2>6 DEF Window, G, m
  <2>8. \A s \in Nat : s + Second > now => G(s) <= 2 * m
    <3>1. \A s \in Nat : G(s) \in Nat
      BY <1>1, <1>2
    <3>2. \A s \in Nat : s + Second > now => s + Second > w
      BY <1>1, <2>2, <2>4
    <3> QED  BY <1>1, <2>2, <2>4, <2>6, <3>1, <3>2
  <2> QED  BY Zenon, <2>7, <2>8 DEF G, m
<1> QED  BY <1>4, <1>5

LEMMA MapWindow ==
  ASSUME Inv, LastUse, NEW y \in Limited, WindowSound(y), MapStep
  PROVE  WindowSound(y)'
<1>1. prl # None /\ prl' # None /\ UNCHANGED now /\ Window(y) /\ Twice(y) /\ y \in Types
  BY Zenon, LimitedNat DEF MapStep, WindowSound
<1>2. CASE Refused(prl')
  <2>1. UNCHANGED passed /\ prl'.lastRefill = now /\ (Same(prl', y) \/ Rolled(prl', y, 0))
    BY Zenon, <1>1, <1>2 DEF Refused
  <2>2. Window(y)'
    BY <1>1, <2>1, UsedWindow
  <2>3. Twice(y)'
    BY Zenon, <1>1, <2>1 DEF Twice
  <2> QED  BY Zenon, <1>1, <2>2, <2>3 DEF WindowSound
<1>3. CASE Passes(prl', y)
  <2>1. Window(y)' /\ \A s \in Nat : s + Second > now => From(passed', {y}, s) <= 2 * Limit[y]
    BY <1>1, <1>3, PassWindow
  <2>2. Twice(y)'
    BY <1>1, <1>3, <2>1, TwiceSent DEF Passes
  <2> QED  BY Zenon, <1>1, <2>1, <2>2 DEF WindowSound
<1>4. ASSUME NEW z \in Types \ {y}, Passes(prl', z)  PROVE WindowSound(y)'
  <2>1. Sent(z) /\ prl'.lastRefill = now /\ Same(prl', y)
    BY Zenon, <1>1, <1>4 DEF Passes
  <2>2. \A s \in Nat : From(passed', {y}, s) = From(passed, {y}, s)
    BY <1>4, <2>1, SentFrom DEF LastUse
  <2>3. Window(y)'
    BY <1>1, <2>1, <2>2, UsedWindow
  <2>4. Twice(y)'
    BY <1>1, <1>4, <2>1, OtherSent
  <2> QED  BY Zenon, <1>1, <2>3, <2>4 DEF WindowSound
<1> QED  BY <1>2, <1>3, <1>4 DEF MapStep

\* The message of a call that had got the limiter before cleanup removed it: the
\* limiter was stale, so nothing else went through in the last second.
LEMMA RemovedWindow ==
  ASSUME Inv, LastUse, NEW y \in Limited, WindowSound(y), RemovedStep
  PROVE  WindowSound(y)'
<1>1. /\ prl = None /\ prl' = None /\ held' # "removed" /\ UNCHANGED now
      /\ Recent(y, 0) /\ Twice(y) /\ PassedSound
  BY DEF RemovedStep, Inv, RemovedSound, WindowSound, LastUse
<1>2. PICK z : Sent(z)
  BY DEF RemovedStep
<1>3. now \in Nat /\ Limit[y] \in Nat /\ Limit[y] >= 1 /\ \A s \in Nat : From(passed, {y}, s) \in Nat
  BY <1>1, <1>2, FromNat, LimitedNat DEF PassedSound, Sent
<1>4. \A s \in Nat : s + Second > now => From(passed, {y}, s) <= 0
  BY Zenon, <1>1 DEF Recent
<1>5. \A s \in Nat : From(passed', {y}, s) = From(passed, {y}, s) + 1
                     \/ From(passed', {y}, s) = From(passed, {y}, s)
  BY <1>1, <1>2, SentFrom
<1>6. \A s \in Nat : s + Second > now
        => From(passed', {y}, s) <= Limit[y] /\ From(passed', {y}, s) <= 2 * Limit[y]
  <2> TAKE s \in Nat
  <2> HAVE s + Second > now
  <2>1. From(passed, {y}, s) <= 0 /\ From(passed, {y}, s) \in Nat
    BY Zenon, <1>3, <1>4
  <2>2. \/ From(passed', {y}, s) = From(passed, {y}, s) + 1
        \/ From(passed', {y}, s) = From(passed, {y}, s)
    BY Zenon, <1>5
  <2> QED  BY <1>3, <2>1, <2>2
<1>7. Twice(y)'
  BY <1>1, <1>2, <1>6, TwiceSent
<1>8. Recent(y, Limit[y])'
  BY Zenon, <1>1, <1>6 DEF Recent
<1> QED  BY Zenon, <1>1, <1>7, <1>8 DEF WindowSound

LEMMA CleanupWindow ==
  ASSUME Inv, LastUse, NEW y \in Limited, WindowSound(y), CleanupStep
  PROVE  WindowSound(y)'
<1>1. /\ prl # None /\ prl' = None /\ UNCHANGED <<now, passed>> /\ Twice(y)
      /\ now - prl.lastRefill > StaleThreshold
  BY DEF CleanupStep, WindowSound
<1>2. now \in Nat /\ prl.lastRefill \in Nat
  BY <1>1, WindowNat
<1>3. Second \in Nat /\ StaleThreshold \in Nat /\ Second <= StaleThreshold
  BY RateLimiterAssumption
<1>4. \A s \in Nat : s + Second > now => s > prl.lastRefill
  BY <1>1, <1>2, <1>3
<1>5. \A s \in Nat : s + Second > now => From(passed, {y}, s) = 0
  BY <1>1, <1>4, LastUseFrom
<1>6. Recent(y, 0)
  BY <1>5 DEF Recent
<1>7. Recent(y, Limit[y])
  BY <1>6, RecentMore
<1>8. Recent(y, 0)' /\ Recent(y, Limit[y])' /\ Twice(y)'
  BY Zenon, <1>1, <1>6, <1>7 DEF Recent, Twice
<1> QED  BY Zenon, <1>1, <1>8 DEF WindowSound

LEMMA TickWindow ==
  ASSUME Inv, NEW y \in Limited, WindowSound(y), TickStep
  PROVE  WindowSound(y)'
<1>1. now \in Nat /\ now' = now + 1 /\ UNCHANGED <<prl, held, passed>>
  BY DEF TickStep, Inv
<1>2. \A s \in Nat : s + Second > now' => s + Second > now
  BY <1>1, LimitedNat
<1>3. \A n : Recent(y, n) => Recent(y, n)'
  BY Zenon, <1>1, <1>2 DEF Recent
<1>4. Twice(y) => Twice(y)'
  BY Zenon, <1>1 DEF Twice
<1>5. Window(y) => Window(y)'
  BY Zenon, <1>1, <1>3 DEF Window
<1> QED  BY Zenon, <1>1, <1>3, <1>4, <1>5 DEF WindowSound

Windows == \A y \in Limited : WindowSound(y)

LEMMA NextWindows == Inv /\ LastUse /\ Windows /\ [Next]_vars => Windows'
<1> SUFFICES ASSUME Inv, LastUse, [Next]_vars, NEW y \in Limited, WindowSound(y)
             PROVE  WindowSound(y)'
  BY Zenon DEF Windows
<1> QED  BY NextSteps, QuietWindow, NewWindow, MapWindow, RemovedWindow, CleanupWindow, TickWindow

LEMMA InitPassed ==
  ASSUME Init
  PROVE  /\ LastUse /\ prl = None /\ held # "removed" /\ passed \in Seq(Message)
         /\ \A S, s : From(passed, S, s) = 0
         /\ \A S, s, t : Between(passed, S, s, t) = 0
<1>1. /\ passed \in Seq(Message) /\ Len(passed) = 0 /\ prl = None /\ held # "removed"
  BY DEF Init
<1>2. 1 .. Len(passed) = {}
  BY <1>1
<1>3. \A S, s : Since(passed, S, s) = {}
  BY <1>2 DEF Since
<1>4. \A S, s, t : Within(passed, S, s, t) = {}
  BY <1>2 DEF Within
<1>5. LastUse
  BY <1>1, <1>2 DEF LastUse, PassedSound
<1> QED  BY Zenon, <1>1, <1>3, <1>4, <1>5, FS_EmptySet DEF From, Between

LEMMA InitWindows == Init => Windows
<1> SUFFICES ASSUME Init, NEW y \in Limited  PROVE WindowSound(y)
  BY Zenon DEF Windows
<1>1. 0 <= Limit[y] /\ 0 <= 2 * Limit[y]
  BY LimitedNat
<1>2. Recent(y, Limit[y]) /\ Twice(y)
  BY Zenon, <1>1, InitPassed DEF Recent, Twice
<1> QED  BY Zenon, <1>2, InitPassed DEF WindowSound

\* In no second does a peer get more than twice the limit of a type through
\* (checkMessageTypeLimit), whatever the clock, cleanup and the calls do.
THEOREM AtMostTwoWindows == Spec => []TwoWindows
<1>1. Windows => TwoWindows
  <2> SUFFICES ASSUME Windows, NEW y \in Types, NEW s \in 0 .. MaxTime, Limit[y] > 0
               PROVE  PassedIn({y}, s, s + Second - 1) <= 2 * Limit[y]
    BY DEF TwoWindows
  <2>1. s \in Nat /\ y \in Limited
    BY DEF Limited
  <2>2. Between(passed, {y}, s, s + Second - 1) <= 2 * Limit[y]
    BY Zenon, <2>1 DEF Windows, WindowSound, Twice
  <2> QED  BY Zenon, <2>2, PassedBetween
<1> QED  BY InitInv, NextInv, InitPassed, NextLastUse, InitWindows, NextWindows, <1>1, PTL DEF Spec

-----------------------------------------------------------------------------
(* Buckets.                                                                *)

\* What the bucket holds, what the rate grants in d ticks and what n messages
\* cost, in units of 1/Second token.
Burst == BurstSize * Second

Rate(d) == MaxMessagesPerSecond * d

Load(n) == n * Second

Cost(q, s) == Load(From(q, Types, s))

\* The messages since s and the tokens left were paid by the rate, by one
\* bucket, and by one message that the bucket of a removed limiter paid.
Bucket ==
  /\ prl.tokens <= Burst
  /\ \A s \in Nat : s <= prl.lastRefill =>
       Cost(passed, s) + prl.tokens <= Burst + Second + Rate(prl.lastRefill - s)

\* While the peer has no limiter, the rate alone and e paid for the messages.
Idle(e) == \A s \in Nat : s <= now => Cost(passed, s) <= e + Rate(now - s)

Granted ==
  \A s, t \in Nat : s <= t =>
    Load(Between(passed, Types, s, t)) <= Burst + Second + Rate(t - s)

BucketSound ==
  /\ prl # None => Bucket
  /\ prl = None => Idle(IF held = "removed" THEN 0 ELSE Second)
  /\ Granted

LEMMA BurstNat == Burst \in Nat /\ Second \in Nat /\ (BurstSize + 1) * Second = Burst + Second
  BY RateLimiterAssumption DEF Burst

LEMMA RateNat ==
  ASSUME NEW a \in Nat, NEW b \in Nat
  PROVE  Rate(a) \in Nat /\ Rate(a + b) = Rate(a) + Rate(b)
<1>1. MaxMessagesPerSecond \in Nat
  BY RateLimiterAssumption
<1> QED  BY <1>1 DEF Rate

LEMMA RateSince ==
  ASSUME NEW a \in Nat, NEW b \in Nat, a <= b
  PROVE  Rate(b - a) \in Nat
<1>1. b - a \in Nat
  OBVIOUS
<1> QED  BY Zenon, <1>1, RateNat

\* What is granted between a and c, by way of b.
LEMMA RateSplit ==
  ASSUME NEW a \in Nat, NEW b \in Nat, NEW c \in Nat, a <= b, b <= c
  PROVE  /\ Rate(b - a) \in Nat /\ Rate(c - b) \in Nat /\ Rate(c - a) \in Nat
         /\ Rate(c - a) = Rate(c - b) + Rate(b - a)
<1>1. b - a \in Nat /\ c - b \in Nat /\ c - a \in Nat /\ c - a = (c - b) + (b - a)
  OBVIOUS
<1>2. /\ Rate(b - a) \in Nat /\ Rate(c - b) \in Nat /\ Rate(c - a) \in Nat
      /\ Rate((c - b) + (b - a)) = Rate(c - b) + Rate(b - a)
  BY Zenon, <1>1, RateNat
<1> QED  BY Zenon, <1>1, <1>2

LEMMA LoadNat ==
  ASSUME NEW n \in Nat
  PROVE  /\ Load(n) \in Nat /\ Load(n + 1) = Load(n) + Second
         /\ \A m \in Nat : m <= n => Load(m) <= Load(n)
<1>1. Second \in Nat
  BY RateLimiterAssumption
<1> QED  BY <1>1 DEF Load

LEMMA CostNat ==
  ASSUME NEW q \in Seq(Message), NEW s \in Nat
  PROVE  Cost(q, s) \in Nat /\ (From(q, Types, s) = 0 => Cost(q, s) = 0)
<1>1. From(q, Types, s) \in Nat
  BY FromNat
<1>2. Load(0) = 0
  BY RateLimiterAssumption DEF Load
<1> QED  BY Zenon, <1>1, <1>2, LoadNat DEF Cost

LEMMA SentCost ==
  ASSUME PassedSound, NEW y, Sent(y), NEW s \in Nat, s <= now
  PROVE  Cost(passed', s) = Cost(passed, s) + Second
<1>1. From(passed', Types, s) = From(passed, Types, s) + 1 /\ From(passed, Types, s) \in Nat
  BY SentFrom, FromNat DEF Sent, PassedSound
<1> QED  BY Zenon, <1>1, LoadNat DEF Cost

\* A message let through now, when all that went through so far is paid for.
LEMMA GrantedSent ==
  ASSUME LastUse, Granted, NEW z, Sent(z),
         \A s \in Nat : s <= now => Cost(passed', s) <= Burst + Second + Rate(now - s)
  PROVE  Granted'
<1>0. PassedSound /\ passed' \in Seq(Message) /\ now \in Nat
  BY SentSound DEF LastUse
<1> SUFFICES ASSUME NEW s \in Nat, NEW t \in Nat, s <= t
             PROVE  Load(Between(passed', Types, s, t)) <= Burst + Second + Rate(t - s)
  BY Zenon DEF Granted
<1>1. CASE now \notin s .. t
  <2>1. Between(passed', Types, s, t) = Between(passed, Types, s, t)
    BY <1>0, <1>1, SentOutside
  <2> QED  BY Zenon, <2>1 DEF Granted
<1>2. CASE now \in s .. t
  <2>1. s <= now /\ now <= t
    BY <1>0, <1>2
  <2>2. Load(Between(passed', Types, s, t)) <= Cost(passed', s)
    BY Zenon, <1>0, FromNat, LoadNat DEF Cost
  <2>3. Load(Between(passed', Types, s, t)) \in Nat /\ Cost(passed', s) \in Nat
    BY Zenon, <1>0, FromNat, LoadNat, CostNat
  <2>4. /\ Rate(now - s) \in Nat /\ Rate(t - now) \in Nat
        /\ Rate(t - s) = Rate(t - now) + Rate(now - s)
    BY Zenon, <1>0, <2>1, RateSplit
  <2>5. Cost(passed', s) <= Burst + Second + Rate(now - s)
    BY Zenon, <2>1
  <2> QED  BY <2>2, <2>3, <2>4, <2>5, BurstNat
<1> QED  BY <1>1, <1>2

\* The limiter in the table, in numbers.
LEMMA BucketNat ==
  ASSUME Inv, LastUse, prl # None
  PROVE  /\ now \in Nat /\ prl.lastRefill \in Nat /\ prl.lastRefill <= now /\ prl.tokens \in Nat
         /\ \A s \in Nat : /\ Cost(passed, s) \in Nat
                           /\ s > prl.lastRefill => Cost(passed, s) = 0
<1>1. now \in Nat /\ prl.lastRefill \in Nat /\ prl.lastRefill <= now /\ prl.tokens \in Nat
  BY DEF Inv, LimiterSound, PeerRateLimiter
<1>2. ASSUME NEW s \in Nat
      PROVE  Cost(passed, s) \in Nat /\ (s > prl.lastRefill => Cost(passed, s) = 0)
  <2>1. s > prl.lastRefill => From(passed, Types, s) = 0
    BY LastUseFrom
  <2> QED  BY Zenon, <2>1, CostNat DEF LastUse, PassedSound
<1> QED  BY <1>1, <1>2

\* A refill takes the bucket to the present time.
LEMMA RefilledBucket ==
  ASSUME Inv, LastUse, prl # None, Bucket
  PROVE  /\ Refill(prl).tokens \in Nat /\ Refill(prl).tokens <= Burst
         /\ \A s \in Nat : s <= now =>
              Cost(passed, s) + Refill(prl).tokens <= Burst + Second + Rate(now - s)
<1> DEFINE a == prl.lastRefill
           u == Refill(prl).tokens
           v == prl.tokens + Rate(now - a)
<1>0. /\ now \in Nat /\ a \in Nat /\ a <= now /\ prl.tokens \in Nat
      /\ \A s \in Nat : Cost(passed, s) \in Nat /\ (s > a => Cost(passed, s) = 0)
  BY Zenon, BucketNat
<1>1. /\ prl.tokens <= Burst
      /\ \A s \in Nat : s <= a => Cost(passed, s) + prl.tokens <= Burst + Second + Rate(a - s)
  BY Zenon DEF Bucket
<1>2. u = IF prl.tokens + (now - a) * MaxMessagesPerSecond > Burst
          THEN Burst ELSE prl.tokens + (now - a) * MaxMessagesPerSecond
  BY DEF Refill, Inv, LimiterSound, PeerRateLimiter, Burst
<1>3. (now - a) * MaxMessagesPerSecond = Rate(now - a) /\ Rate(now - a) \in Nat
  <2>1. now - a \in Nat /\ MaxMessagesPerSecond \in Nat
    BY <1>0, RateLimiterAssumption
  <2> QED  BY <2>1 DEF Rate
<1> HIDE DEF u, a
<1>4. u \in Nat /\ u <= Burst /\ u <= prl.tokens + Rate(now - a)
  BY <1>0, <1>2, <1>3, BurstNat
<1>5. ASSUME NEW s \in Nat, s <= now
      PROVE  Cost(passed, s) + u <= Burst + Second + Rate(now - s)
  <2>1. CASE s <= a
    <3>1. Rate(a - s) \in Nat /\ Rate(now - s) = Rate(now - a) + Rate(a - s)
      BY Zenon, <1>0, <2>1, RateSplit
    <3>2. Cost(passed, s) \in Nat /\ Cost(passed, s) + prl.tokens <= Burst + Second + Rate(a - s)
      BY Zenon, <1>0, <1>1, <2>1
    <3> QED  BY <1>0, <1>3, <1>4, <3>1, <3>2, BurstNat
  <2>2. CASE s > a
    <3>1. Rate(now - s) \in Nat
      BY Zenon, <1>0, <1>5, RateSince
    <3>2. Cost(passed, s) = 0
      BY Zenon, <1>0, <2>2
    <3> QED  BY <1>4, <3>1, <3>2, BurstNat
  <2> QED  BY <1>0, <2>1, <2>2
<1> QED  BY Zenon, <1>4, <1>5 DEF u

LEMMA IdleMore ==
  ASSUME Inv, LastUse, Idle(0)
  PROVE  Idle(Second)
<1> SUFFICES ASSUME NEW s \in Nat, s <= now  PROVE Cost(passed, s) <= Second + Rate(now - s)
  BY Zenon DEF Idle
<1>1. now \in Nat /\ Cost(passed, s) \in Nat
  BY CostNat DEF Inv, LastUse, PassedSound
<1>2. Rate(now - s) \in Nat
  BY Zenon, <1>1, RateSince
<1>3. Cost(passed, s) <= 0 + Rate(now - s)
  BY Zenon DEF Idle
<1> QED  BY <1>1, <1>2, <1>3, BurstNat

LEMMA QuietBucket ==
  ASSUME LastUse, Inv, BucketSound, QuietStep
  PROVE  BucketSound'
<1>1. UNCHANGED <<now, prl, passed>>
  BY DEF QuietStep
<1>2. Granted' /\ (\A e : Idle(e)' <=> Idle(e)) /\ (Bucket' <=> Bucket)
  BY Zenon, <1>1 DEF BucketSound, Granted, Idle, Bucket
<1>3. Idle(0) => Idle(Second)
  BY IdleMore
<1> QED  BY Zenon, <1>1, <1>2, <1>3 DEF BucketSound, QuietStep

LEMMA NewBucket ==
  ASSUME Inv, LastUse, BucketSound, NewStep
  PROVE  BucketSound'
<1>1. /\ prl = None /\ prl' = NewPrl /\ UNCHANGED <<now, passed>> /\ now \in Nat
      /\ Idle(Second) /\ Granted
  BY Zenon DEF NewStep, BucketSound, Inv
<1>2. prl'.tokens = Burst /\ prl'.lastRefill = now
  BY <1>1 DEF NewPrl, Burst
<1>3. ASSUME NEW s \in Nat, s <= now
      PROVE  Cost(passed', s) + Burst <= Burst + Second + Rate(now - s)
  <2>1. Cost(passed, s) <= Second + Rate(now - s)
    BY Zenon, <1>1, <1>3 DEF Idle
  <2>2. Cost(passed, s) \in Nat /\ Rate(now - s) \in Nat
    BY Zenon, <1>1, <1>3, CostNat, RateSince DEF LastUse, PassedSound
  <2>3. Cost(passed, s) + Burst <= Burst + Second + Rate(now - s)
    BY <2>1, <2>2, BurstNat
  <2> QED  BY Zenon, <1>1, <2>3
<1>4. Burst <= Burst
  BY BurstNat
<1>5. Bucket' /\ Granted'
  BY Zenon, <1>1, <1>2, <1>3, <1>4 DEF Bucket, Granted
<1>6. prl' # None
  BY <1>1, NewSound
<1> QED  BY Zenon, <1>5, <1>6 DEF BucketSound

LEMMA MapBucket ==
  ASSUME Inv, LastUse, BucketSound, MapStep
  PROVE  BucketSound'
<1> DEFINE u == Refill(prl).tokens
<1>1. prl # None /\ prl' # None /\ UNCHANGED now /\ Bucket /\ Granted /\ PassedSound
  BY Zenon DEF MapStep, BucketSound, LastUse
<1>2. /\ u \in Nat /\ u <= Burst /\ now \in Nat
      /\ \A s \in Nat : s <= now => Cost(passed, s) + u <= Burst + Second + Rate(now - s)
  BY Zenon, <1>1, RefilledBucket DEF Inv
<1>3. CASE Refused(prl')
  <2>1. UNCHANGED passed /\ prl'.lastRefill = now /\ prl'.tokens = u
    BY Zenon, <1>3 DEF Refused
  <2>2. Bucket' /\ Granted'
    BY Zenon, <1>1, <1>2, <2>1 DEF Bucket, Granted
  <2> QED  BY Zenon, <1>1, <2>2 DEF BucketSound
<1>4. ASSUME NEW y \in Types, Passes(prl', y)  PROVE BucketSound'
  <2>1. Sent(y) /\ prl'.lastRefill = now /\ prl'.tokens = u - Second /\ u >= Second
    BY Zenon, <1>4 DEF Passes
  <2> HIDE DEF u
  <2>2. u - Second <= Burst /\ u - Second \in Nat
    BY <1>2, <2>1, BurstNat
  <2>3. ASSUME NEW s \in Nat, s <= now
        PROVE  /\ Cost(passed', s) + (u - Second) <= Burst + Second + Rate(now - s)
               /\ Cost(passed', s) <= Burst + Second + Rate(now - s)
    <3>1. Cost(passed', s) = Cost(passed, s) + Second
      BY <1>1, <2>1, <2>3, SentCost
    <3>2. Cost(passed, s) \in Nat /\ Rate(now - s) \in Nat
      BY Zenon, <1>1, <1>2, <2>3, CostNat, RateSince DEF PassedSound
    <3>3. Cost(passed, s) + u <= Burst + Second + Rate(now - s)
      BY Zenon, <1>2, <2>3
    <3> QED  BY <1>2, <2>1, <3>1, <3>2, <3>3, BurstNat
  <2>4. Granted'
    BY <1>1, <2>1, <2>3, GrantedSent
  <2>5. Bucket'
    BY Zenon, <1>1, <2>1, <2>2, <2>3 DEF Bucket
  <2> QED  BY Zenon, <1>1, <2>4, <2>5 DEF BucketSound
<1> QED  BY <1>3, <1>4 DEF MapStep

\* The message a removed limiter lets through is the one paid by a second bucket.
LEMMA RemovedBucket ==
  ASSUME Inv, LastUse, BucketSound, RemovedStep
  PROVE  BucketSound'
<1>1. /\ prl = None /\ prl' = None /\ held' # "removed" /\ UNCHANGED now
      /\ Idle(0) /\ Granted /\ PassedSound /\ now \in Nat
  BY DEF RemovedStep, Inv, RemovedSound, BucketSound, LastUse
<1>2. PICK z : Sent(z)
  BY DEF RemovedStep
<1>3. ASSUME NEW s \in Nat, s <= now
      PROVE  /\ Cost(passed', s) <= Second + Rate(now - s)
             /\ Cost(passed', s) <= Burst + Second + Rate(now - s)
  <2>1. Cost(passed', s) = Cost(passed, s) + Second
    BY <1>1, <1>2, <1>3, SentCost
  <2>2. Cost(passed, s) \in Nat /\ Rate(now - s) \in Nat
    BY Zenon, <1>1, <1>3, CostNat, RateSince DEF PassedSound
  <2>3. Cost(passed, s) <= 0 + Rate(now - s)
    BY Zenon, <1>1, <1>3 DEF Idle
  <2> QED  BY <2>1, <2>2, <2>3, BurstNat
<1>4. Granted'
  BY <1>1, <1>2, <1>3, GrantedSent
<1>5. Idle(Second)'
  BY Zenon, <1>1, <1>3 DEF Idle
<1> QED  BY Zenon, <1>1, <1>4, <1>5 DEF BucketSound

\* By the time cleanup removes a limiter the rate has paid its bucket back.
LEMMA CleanupBucket ==
  ASSUME Inv, LastUse, BucketSound, CleanupStep
  PROVE  BucketSound'
<1> DEFINE a == prl.lastRefill
<1>1. /\ prl # None /\ prl' = None /\ UNCHANGED <<now, passed>> /\ Granted /\ Bucket
      /\ now - a > StaleThreshold
  BY Zenon DEF CleanupStep, BucketSound
<1>2. /\ now \in Nat /\ a \in Nat /\ a <= now /\ prl.tokens \in Nat
      /\ \A s \in Nat : Cost(passed, s) \in Nat /\ (s > a => Cost(passed, s) = 0)
      /\ \A s \in Nat : s <= a => Cost(passed, s) + prl.tokens <= Burst + Second + Rate(a - s)
  BY Zenon, <1>1, BucketNat DEF Bucket
<1> HIDE DEF a
<1>3. Burst + Second <= Rate(now - a) /\ Rate(now - a) \in Nat
  <2>1. StaleThreshold \in Nat /\ MaxMessagesPerSecond \in Nat
        /\ Burst + Second <= StaleThreshold * MaxMessagesPerSecond
    BY Zenon, RateLimiterAssumption, BurstNat
  <2>2. StaleThreshold * MaxMessagesPerSecond = Rate(StaleThreshold)
    BY <2>1 DEF Rate
  <2> DEFINE d == (now - a) - StaleThreshold
  <2>3. d \in Nat /\ now - a = StaleThreshold + d
    BY <1>1, <1>2, <2>1
  <2> HIDE DEF d
  <2>4. Rate(StaleThreshold) \in Nat /\ Rate(d) \in Nat
        /\ Rate(StaleThreshold + d) = Rate(StaleThreshold) + Rate(d)
    BY Zenon, <2>1, <2>3, RateNat
  <2>5. Rate(now - a) = Rate(StaleThreshold) + Rate(d)
    BY Zenon, <2>3, <2>4
  <2> QED  BY <2>1, <2>2, <2>4, <2>5, BurstNat
<1>4. ASSUME NEW s \in Nat, s <= now
      PROVE  Cost(passed, s) <= 0 + Rate(now - s)
  <2>1. CASE s <= a
    <3>1. Rate(a - s) \in Nat /\ Rate(now - s) = Rate(now - a) + Rate(a - s)
      BY Zenon, <1>2, <2>1, RateSplit
    <3>2. Cost(passed, s) \in Nat /\ Cost(passed, s) + prl.tokens <= Burst + Second + Rate(a - s)
      BY Zenon, <1>2, <2>1
    <3> QED  BY <1>2, <1>3, <3>1, <3>2, BurstNat
  <2>2. CASE s > a
    <3>1. Cost(passed, s) = 0 /\ Rate(now - s) \in Nat
      BY Zenon, <1>2, <1>4, <2>2, RateSince
    <3> QED  BY <3>1
  <2> QED  BY <1>2, <2>1, <2>2
<1>5. Idle(0)
  BY Zenon, <1>4 DEF Idle
<1>6. Idle(Second)
  BY <1>5, IdleMore
<1>7. Idle(0)' /\ Idle(Second)' /\ Granted'
  BY Zenon, <1>1, <1>5, <1>6 DEF Idle, Granted
<1> QED  BY Zenon, <1>1, <1>7 DEF BucketSound

LEMMA TickBucket ==
  ASSUME Inv, LastUse, BucketSound, TickStep
  PROVE  BucketSound'
<1>1. now \in Nat /\ now' = now + 1 /\ UNCHANGED <<prl, held, passed>> /\ passed \in Seq(Message)
  BY DEF TickStep, Inv, LastUse, PassedSound
<1>2. Granted' /\ (Bucket => Bucket')
  BY Zenon, <1>1 DEF BucketSound, Granted, Bucket
<1>3. ASSUME NEW e \in Nat, Idle(e)  PROVE Idle(e)'
  <2> SUFFICES ASSUME NEW s \in Nat, s <= now + 1
               PROVE  Cost(passed, s) <= e + Rate((now + 1) - s)
    BY Zenon, <1>1 DEF Idle
  <2>0. now \in Nat /\ now + 1 \in Nat /\ now <= now + 1
    BY <1>1
  <2>1. CASE s <= now
    <3>1. /\ Rate(now - s) \in Nat /\ Rate((now + 1) - now) \in Nat
          /\ Rate((now + 1) - s) = Rate((now + 1) - now) + Rate(now - s)
      BY Zenon, <2>0, <2>1, RateSplit
    <3>2. Cost(passed, s) <= e + Rate(now - s) /\ Cost(passed, s) \in Nat
      BY Zenon, <1>1, <1>3, <2>1, CostNat DEF Idle
    <3> QED  BY <1>3, <3>1, <3>2
  <2>2. CASE s > now
    <3>1. \A i \in 1 .. Len(passed) : passed[i].at < s
      BY <1>1, <2>2, MessageTimes DEF LastUse, PassedSound
    <3>2. Cost(passed, s) = 0
      BY <1>1, <3>1, FromNone, CostNat
    <3>3. Rate((now + 1) - s) \in Nat
      BY Zenon, <2>0, RateSince
    <3> QED  BY <1>3, <3>2, <3>3
  <2> QED  BY <1>1, <2>1, <2>2
<1>4. 0 \in Nat /\ Second \in Nat
  BY BurstNat
<1> QED  BY Zenon, <1>1, <1>2, <1>3, <1>4 DEF BucketSound

LEMMA NextBucket == Inv /\ LastUse /\ BucketSound /\ [Next]_vars => BucketSound'
  BY NextSteps, QuietBucket, NewBucket, MapBucket, RemovedBucket, CleanupBucket, TickBucket

LEMMA InitBucket == Init => BucketSound
<1> SUFFICES ASSUME Init  PROVE BucketSound
  OBVIOUS
<1>1. Load(0) = 0 /\ now = 0
  BY RateLimiterAssumption DEF Load, Init
<1>2. \A s \in Nat : Cost(passed, s) = 0
  BY Zenon, <1>1, InitPassed DEF Cost
<1>3. \A s, t \in Nat : Load(Between(passed, Types, s, t)) = 0
  BY Zenon, <1>1, InitPassed
<1>4. \A s, t \in Nat : s <= t => Rate(t - s) \in Nat
  BY Zenon, RateSince
<1>5. Idle(Second)
  BY <1>1, <1>2, <1>4, BurstNat DEF Idle
<1>6. Granted
  <2> SUFFICES ASSUME NEW s \in Nat, NEW t \in Nat, s <= t
               PROVE  0 <= Burst + Second + Rate(t - s)
    BY Zenon, <1>3 DEF Granted
  <2>1. Rate(t - s) \in Nat
    BY Zenon, <1>4
  <2> QED  BY <2>1, BurstNat
<1> QED  BY Zenon, <1>5, <1>6, InitPassed DEF BucketSound

\* Over any interval a peer gets through at most the burst, what the rate grants
\* and one message (AllowMessage and cleanup), for any limits.
THEOREM BucketIsBounded == Spec => []BucketBound
<1>1. BucketSound => BucketBound
  <2> SUFFICES ASSUME BucketSound, NEW s \in 0 .. MaxTime, NEW t \in 0 .. MaxTime, s <= t
               PROVE  PassedIn(Types, s, t) * Second
                        <= (BurstSize + 1) * Second + MaxMessagesPerSecond * (t - s)
    BY DEF BucketBound
  <2>1. s \in Nat /\ t \in Nat
    OBVIOUS
  <2>2. Load(Between(passed, Types, s, t)) <= Burst + Second + Rate(t - s)
    BY Zenon, <2>1 DEF BucketSound, Granted
  <2> QED  BY Zenon, <2>2, PassedBetween, BurstNat DEF Load, Rate
<1> QED  BY InitInv, NextInv, InitPassed, NextLastUse, InitBucket, NextBucket, <1>1, PTL DEF Spec

=============================================================================
