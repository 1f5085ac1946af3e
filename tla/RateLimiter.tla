---------------------------- MODULE RateLimiter ----------------------------
(***************************************************************************)
(* The limits p2p puts on the messages of one peer (p2p/ratelimit.go): a   *)
(* token bucket over all messages, whose exhaustion bans the peer, a       *)
(* counter per message type, and the cleanup of limiters out of use.  The  *)
(* goroutine of the connection calls AllowMessage; cleanup runs in another *)
(* one and may remove the limiter between getPeerLimiter and its use.      *)
(*                                                                         *)
(* Time is counted in ticks, Second of them in a second, and tokens in     *)
(* units of 1/Second, so that the refill of the float64 bucket is exact.   *)
(***************************************************************************)
EXTENDS Naturals, Sequences, FiniteSets

CONSTANTS
  Types,                \* message types
  Limit,                \* getMessageTypeLimit: 0 for a type with no limit
  MaxMessagesPerSecond,
  BurstSize,
  BanDuration,          \* in ticks
  StaleThreshold,       \* in ticks
  Second,               \* ticks in a second
  None,
  MaxTime,              \* bound: ticks
  MaxMessages           \* bound: messages let through

PeerRateLimiter ==
  [tokens : Nat, lastRefill : Nat, bannedUntil : Nat,
   count : [Types -> Nat], windowStart : [Types -> Nat \cup {None}]]

\* The values of DefaultRateLimitConfig and cleanup satisfy these: a limiter is
\* removed long after a ban and a window are over and its bucket is full again.
ASSUME RateLimiterAssumption ==
  /\ Limit \in [Types -> Nat]
  /\ Second \in Nat \ {0} /\ BurstSize \in Nat \ {0}
  /\ {MaxMessagesPerSecond, BanDuration, StaleThreshold, MaxTime} \subseteq Nat
  /\ None \notin PeerRateLimiter \cup Nat
  /\ BanDuration < StaleThreshold /\ Second <= StaleThreshold
  /\ (BurstSize + 1) * Second <= StaleThreshold * MaxMessagesPerSecond

VARIABLES
  now,
  prl,      \* the limiter of the peer in RateLimiter.peers, or None
  held,     \* the limiter AllowMessage got: "none", "map" (prl) or "removed"
  removed,  \* the last limiter cleanup removed under a call, or None
  bannedAt, \* history: when the peer was last banned, or None
  passed    \* history: the messages let through, with their times

vars == <<now, prl, held, removed, bannedAt, passed>>

NewPrl ==
  [tokens |-> BurstSize * Second, lastRefill |-> now, bannedUntil |-> 0,
   count |-> [y \in Types |-> 0], windowStart |-> [y \in Types |-> None]]

Init ==
  /\ now = 0
  /\ prl = None /\ held = "none" /\ removed = None
  /\ bannedAt = None /\ passed = <<>>

\* AllowMessage looks the limiter up, or creates it, under RateLimiter.mu.
GetPeerLimiter ==
  /\ held = "none"
  /\ Len(passed) < MaxMessages
  /\ prl' = IF prl = None THEN NewPrl ELSE prl
  /\ held' = "map"
  /\ UNCHANGED <<now, removed, bannedAt, passed>>

\* Mutant: the whole burst comes back with every refill.
MutRefill(l) == [l EXCEPT !.tokens = BurstSize * Second, !.lastRefill = now]

Refill(l) ==
  LET t == l.tokens + (now - l.lastRefill) * MaxMessagesPerSecond
  IN [l EXCEPT !.tokens = IF t > BurstSize * Second THEN BurstSize * Second ELSE t,
               !.lastRefill = now]

\* Mutant: the window restarts one tick early.
MutRoll(l, y) ==
  IF l.windowStart[y] = None \/ now + 1 - l.windowStart[y] >= Second
  THEN [l EXCEPT !.count[y] = 0, !.windowStart[y] = now]
  ELSE l

\* checkMessageTypeLimit, first part: the counter of the type is created, or
\* restarted when its window of a second is over.
Roll(l, y) ==
  IF l.windowStart[y] = None \/ now - l.windowStart[y] >= Second
  THEN [l EXCEPT !.count[y] = 0, !.windowStart[y] = now]
  ELSE l

\* The limiter AllowMessage works on, and its new value put back.
Limiter == IF held = "map" THEN prl ELSE removed
Store(l) ==
  /\ prl' = IF held = "map" THEN l ELSE prl
  /\ held' = "none" /\ removed' = None
  /\ UNCHANGED now

RefuseBanned(y) ==
  /\ now < Limiter.bannedUntil
  /\ Store(Limiter)
  /\ UNCHANGED <<bannedAt, passed>>

Ban(y) ==
  LET l == Refill(Limiter)
  IN /\ now >= Limiter.bannedUntil
     /\ l.tokens < Second
     /\ Store([l EXCEPT !.bannedUntil = now + BanDuration])
     /\ bannedAt' = now
     /\ UNCHANGED passed

RefuseType(y) ==
  LET l == Roll(Refill(Limiter), y)
  IN /\ now >= Limiter.bannedUntil
     /\ l.tokens >= Second
     /\ Limit[y] > 0 /\ l.count[y] >= Limit[y]
     /\ Store(l)
     /\ UNCHANGED <<bannedAt, passed>>

Pass(y) ==
  LET l == IF Limit[y] = 0 THEN Refill(Limiter) ELSE Roll(Refill(Limiter), y)
  IN /\ now >= Limiter.bannedUntil
     /\ l.tokens >= Second
     /\ Limit[y] = 0 \/ l.count[y] < Limit[y]
     /\ Store([l EXCEPT !.tokens = @ - Second,
                        !.count[y] = IF Limit[y] = 0 THEN @ ELSE @ + 1])
     /\ passed' = Append(passed, [type |-> y, at |-> now])
     /\ UNCHANGED bannedAt

\* AllowMessage once it holds the limiter and its lock.
AllowMessage(y) ==
  /\ held # "none"
  /\ RefuseBanned(y) \/ Ban(y) \/ RefuseType(y) \/ Pass(y)

\* Mutant: cleanup takes the idle time of a quarter for stale.
MutStale(l) == 4 * (now - l.lastRefill) > StaleThreshold

Stale(l) == now - l.lastRefill > StaleThreshold

\* cleanup; a call of AllowMessage under way keeps the limiter it got.
Cleanup ==
  /\ prl # None
  /\ Stale(prl)
  /\ prl' = None
  /\ \/ held = "map" /\ held' = "removed" /\ removed' = prl
     \/ held # "map" /\ UNCHANGED <<held, removed>>
  /\ UNCHANGED <<now, bannedAt, passed>>

Tick ==
  /\ now < MaxTime
  /\ now' = now + 1
  /\ UNCHANGED <<prl, held, removed, bannedAt, passed>>

Next == GetPeerLimiter \/ (\E y \in Types : AllowMessage(y)) \/ Cleanup \/ Tick

Spec == Init /\ [][Next]_vars

-----------------------------------------------------------------------------
(* Properties.                                                             *)

\* Messages of the types S let through from time s to time t.
PassedIn(S, s, t) ==
  Cardinality({i \in 1 .. Len(passed) : passed[i].type \in S /\ passed[i].at \in s .. t})

\* Nothing of a banned peer gets through for BanDuration, although cleanup may
\* remove the limiter that carries the ban.
BanHonoured ==
  [][passed' # passed => bannedAt = None \/ now >= bannedAt + BanDuration]_vars

\* Over any interval the peer gets through at most the burst and what the rate
\* grants, and one message more: the one that was under way when cleanup removed
\* its limiter, after which a new limiter starts with a full bucket.
BucketBound ==
  \A s, t \in 0 .. MaxTime : s <= t =>
    PassedIn(Types, s, t) * Second
      <= (BurstSize + 1) * Second + MaxMessagesPerSecond * (t - s)

\* Within one second at most twice the limit of a type gets through: a second
\* meets at most two windows of the counter.
TwoWindows ==
  \A y \in Types, s \in 0 .. MaxTime :
    Limit[y] > 0 => PassedIn({y}, s, s + Second - 1) <= 2 * Limit[y]

\* The counters are a sliding window (the comments at messageCounters and
\* messageCounter): no second sees more messages of a type than its limit.
SlidingWindow ==
  \A y \in Types, s \in 0 .. MaxTime :
    Limit[y] > 0 => PassedIn({y}, s, s + Second - 1) <= Limit[y]
=============================================================================
