--------------------------- MODULE RequestGateProof ---------------------------
(***************************************************************************)
(* A signed message is accepted at most once, a revoked key is refused in  *)
(* the end, and the limiter is exact, for any number of keys, messages and *)
(* arrivals, every TTL, skew and limit, and however long the system runs.  *)
(***************************************************************************)
EXTENDS RequestGate, FiniteSetTheorems, TLAPS

-----------------------------------------------------------------------------
(* What every delivery satisfies: once it has arrived it carries a         *)
(* message, and a write follows the read it rests on within MaxDelay.      *)

Arrived == \A d \in Deliveries : gate[d].pc # "new" => gate[d].msg \in Messages

Timely ==
    \A d \in Deliveries :
        /\ gate[d].at <= clock
        /\ gate[d].now <= clock
        /\ gate[d].pc \in {"fill", "remember"} => clock <= gate[d].at + MaxDelay
        /\ gate[d].pc \in {"burst", "minute"} => clock <= gate[d].now + MaxDelay

Held == \A d \in Deliveries :
            /\ gate[d].pc \in {"fill", "verify"} => gate[d].rec \in {"active", "revoked"}
            /\ gate[d].pc \notin {"fill", "verify"} => gate[d].rec = None

Base == TypeOK /\ Arrived /\ Timely /\ Held

(* the bounds and lengths are natural numbers *)
LEMMA Numbers ==
    /\ MaxSkew \in Nat /\ ConfiguredTTL \in Nat /\ CacheTTL \in Nat
    /\ MaxDelay \in Nat /\ MaxClock \in Nat /\ MaxRevokes \in Nat
    /\ PerSecond \in Nat /\ PerSecond > 0 /\ PerMinute \in Nat /\ PerMinute > 0
    /\ MinuteLen \in Nat /\ MinuteLen > 0
    /\ NonceTTL \in Nat
BY NatAssumption, PositiveAssumption DEF NonceTTL

(* an arrived message has a key, a nonce and a timestamp *)
LEMMA MessageFields ==
    ASSUME NEW m \in Messages
    PROVE  m.key \in Keys /\ m.ts \in Int /\ m.nonce \in Nonces /\ m.genuine \in BOOLEAN
BY MessagesAssumption

(* a second lies in its minute *)
LEMMA MinuteBounds ==
    ASSUME NEW t \in Nat
    PROVE  /\ Minute(t) \in Nat
           /\ Minute(t) * MinuteLen <= t
           /\ t < Minute(t) * MinuteLen + MinuteLen
           /\ Minute(t) <= t
<1>1. /\ Minute(t) \in Nat
      /\ Minute(t) * MinuteLen <= t
      /\ t < Minute(t) * MinuteLen + MinuteLen
  BY Numbers DEF Minute
<1>2. Minute(t) <= t
  BY <1>1, Numbers
<1>. QED  BY <1>1, <1>2

(* at the start *)
LEMMA InitBase == Init => Base
BY Numbers DEF Init, Base, TypeOK, Arrived, Timely, Held, Delivery, Counter, NoCount

-----------------------------------------------------------------------------
(* What the steps of a delivery do to it.                                  *)

(* d moves on to pc and the others stand still *)
Moves(d, pc, rec, at) ==
    /\ gate' \in [Deliveries -> Delivery]
    /\ \A e \in Deliveries \ {d} : gate'[e] = gate[e]
    /\ gate'[d].pc = pc
    /\ gate'[d].rec = rec
    /\ gate'[d].at = at

(* ... with its message and what the limiter knows of it *)
Keeps(d) == /\ gate'[d].msg = gate[d].msg
            /\ gate'[d].now = gate[d].now
            /\ gate'[d].metered = gate[d].metered

Quiet == UNCHANGED <<clock, admin>>

(* what the gate knows when a delivery moves *)
LEMMA ArriveMoves ==
    ASSUME Base, NEW d \in Deliveries, NEW m \in Messages, Arrive(d, m)
    PROVE  /\ Quiet /\ UNCHANGED redis
           /\ gate[d].pc = "new"
           /\ Moves(d, "lookup", gate[d].rec, gate[d].at)
           /\ gate'[d].msg = m
           /\ gate'[d].now = gate[d].now /\ gate'[d].metered = gate[d].metered
BY DEF Base, TypeOK, Delivery, Arrive, Moves, Quiet, InFlight

(* a cached record is taken as it is, a missing one looked up *)
LEMMA LookupCacheMoves ==
    ASSUME Base, NEW d \in Deliveries, LookupCache(d)
    PROVE  /\ Quiet /\ UNCHANGED redis /\ Keeps(d)
           /\ gate[d].pc = "lookup"
           /\ \/ Moves(d, "source", gate[d].rec, gate[d].at)
              \/ /\ keyCache[Key(d)] # None
                 /\ Moves(d, "verify", keyCache[Key(d)].status, clock)
<1>1. Key(d) \in Keys /\ gate[d].pc = "lookup"
  BY MessageFields DEF Base, Arrived, LookupCache, Key
<1>2. CASE keyCache[Key(d)] = None
  <2>1. gate' = [gate EXCEPT ![d].pc = "source"] /\ Quiet /\ UNCHANGED redis
    BY <1>2 DEF LookupCache, CacheGet, Goto, Quiet
  <2>2. gate[d] \in Delivery /\ gate \in [Deliveries -> Delivery]
    BY DEF Base, TypeOK
  <2>. QED  BY <1>1, <2>1, <2>2 DEF Delivery, Moves, Keeps, InFlight
<1>3. CASE keyCache[Key(d)] # None
  <2>1. keyCache[Key(d)].status \in {"active", "revoked"}
    BY <1>1, <1>3 DEF Base, TypeOK
  <2>2. /\ gate' = [gate EXCEPT ![d].pc = "verify", ![d].rec = keyCache[Key(d)].status,
                                 ![d].at = clock]
        /\ Quiet /\ UNCHANGED redis
    BY <1>3 DEF LookupCache, CacheGet, Quiet
  <2>3. /\ gate[d] \in Delivery /\ gate \in [Deliveries -> Delivery]
        /\ clock \in 0..MaxClock
    BY DEF Base, TypeOK
  <2>. QED  BY <1>1, <1>3, <2>1, <2>2, <2>3 DEF Delivery, Moves, Keeps, InFlight
<1>. QED  BY <1>2, <1>3

(* the row is what the lookup goes on with *)
LEMMA LookupSourceMoves ==
    ASSUME Base, NEW d \in Deliveries, LookupSource(d)
    PROVE  /\ Quiet /\ UNCHANGED redis /\ Keeps(d)
           /\ gate[d].pc = "source"
           /\ \/ Moves(d, "unauthorized", None, 0)
              \/ /\ rows[Key(d)] # None
                 /\ Moves(d, "fill", rows[Key(d)], clock)
<1>1. Key(d) \in Keys /\ gate[d].pc = "source"
  BY MessageFields DEF Base, Arrived, LookupSource, Key
<1>2. rows[Key(d)] \in {"active", "revoked", None}
  BY <1>1 DEF Base, TypeOK
<1>3. 0 \in 0..MaxClock
  BY Numbers
<1>a. /\ gate[d] \in Delivery /\ gate \in [Deliveries -> Delivery]
      /\ clock \in 0..MaxClock
  BY DEF Base, TypeOK
<1>4. CASE rows[Key(d)] = None
  <2>1. Leave(d, "unauthorized") /\ Quiet /\ UNCHANGED redis
    BY <1>4 DEF LookupSource, SelectKey, Quiet
  <2>. QED  BY <1>1, <1>3, <1>a, <2>1 DEF Delivery, Leave, Moves, Keeps, Answers
<1>5. CASE rows[Key(d)] # None
  <2>1. /\ gate' = [gate EXCEPT ![d].pc = "fill", ![d].rec = rows[Key(d)], ![d].at = clock]
        /\ Quiet /\ UNCHANGED redis
    BY <1>5 DEF LookupSource, SelectKey, Quiet
  <2>. QED  BY <1>1, <1>2, <1>a, <1>5, <2>1 DEF Delivery, Moves, Keeps, InFlight
<1>. QED  BY <1>4, <1>5

(* the record is cached, or that fails *)
LEMMA FillCacheMoves ==
    ASSUME Base, NEW d \in Deliveries, FillCache(d)
    PROVE  /\ Quiet /\ UNCHANGED <<nonces, burst, window>> /\ Keeps(d)
           /\ gate[d].pc = "fill"
           /\ CacheSet(Key(d), gate[d].rec) \/ UNCHANGED keyCache
           /\ Moves(d, "verify", gate[d].rec, gate[d].at)
BY DEF Base, TypeOK, Delivery, FillCache, Goto, Moves, Keeps, Quiet, InFlight

(* only what is signed, in time, by an active key comes to the nonce *)
LEMMA VerifyMoves ==
    ASSUME Base, NEW d \in Deliveries, Verify(d)
    PROVE  /\ Quiet /\ UNCHANGED redis /\ Keeps(d)
           /\ gate[d].pc = "verify"
           /\ \/ Moves(d, "forbidden", None, 0)
              \/ Moves(d, "unauthorized", None, 0)
              \/ SignatureValid(gate[d].msg) /\ Moves(d, "remember", None, clock)
<1>1. 0 \in 0..MaxClock /\ clock \in 0..MaxClock
  BY Numbers DEF Base, TypeOK
<1>2. gate[d] \in Delivery /\ gate[d].pc = "verify"
  BY DEF Base, TypeOK, Verify
<1>3. CASE Leave(d, "forbidden")
  BY <1>1, <1>2, <1>3 DEF Base, TypeOK, Delivery, Verify, Leave, Moves, Keeps, Quiet, Answers
<1>4. CASE Leave(d, "unauthorized")
  BY <1>1, <1>2, <1>4 DEF Base, TypeOK, Delivery, Verify, Leave, Moves, Keeps, Quiet, Answers
<1>5. CASE SignatureValid(gate[d].msg)
             /\ gate' = [gate EXCEPT ![d].pc = "remember", ![d].rec = None, ![d].at = clock]
  BY <1>1, <1>2, <1>5 DEF Base, TypeOK, Delivery, Verify, Moves, Keeps, Quiet, InFlight
<1>. QED  BY <1>3, <1>4, <1>5 DEF Verify

(* a nonce that is known ends a delivery, one that is not is remembered *)
LEMMA RememberMoves ==
    ASSUME Base, NEW d \in Deliveries, Remember(d)
    PROVE  /\ Quiet /\ UNCHANGED <<keyCache, burst, window>> /\ Keeps(d)
           /\ gate[d].pc = "remember"
           /\ \/ /\ nonces[KeyNonce(d)] # 0 /\ UNCHANGED nonces
                 /\ Moves(d, "replay", None, 0)
              \/ /\ nonces[KeyNonce(d)] = 0 /\ SetNX(KeyNonce(d))
                 /\ \/ Moves(d, "limit", None, 0)
                    \/ Moves(d, "unavailable", None, 0)
<1>1. 0 \in 0..MaxClock
  BY Numbers
<1>2. gate[d] \in Delivery /\ gate[d].pc = "remember"
  BY DEF Base, TypeOK, Remember
<1>3. ASSUME NEW pc \in {"replay", "limit", "unavailable"}, Leave(d, pc)
      PROVE  Keeps(d) /\ Moves(d, pc, None, 0)
  BY <1>1, <1>2, <1>3 DEF Base, TypeOK, Delivery, Leave, Moves, Keeps, Answers, InFlight
<1>. QED  BY <1>2, <1>3 DEF Remember, Quiet

(* a store that errs ends a delivery *)
LEMMA AuthUnavailableMoves ==
    ASSUME Base, NEW d \in Deliveries, AuthUnavailable(d)
    PROVE  /\ Quiet /\ UNCHANGED redis /\ Keeps(d)
           /\ gate[d].pc \in {"lookup", "source", "remember"}
           /\ Moves(d, "unavailable", None, 0)
<1>1. 0 \in 0..MaxClock
  BY Numbers
<1>. QED  BY <1>1 DEF AuthUnavailable, Base, TypeOK, Delivery, Leave, Moves, Keeps, Answers, Quiet

(* the limiter reads the time *)
LEMMA ReadTimeMoves ==
    ASSUME Base, NEW d \in Deliveries, ReadTime(d)
    PROVE  /\ Quiet /\ UNCHANGED redis
           /\ gate[d].pc = "limit"
           /\ Moves(d, "burst", gate[d].rec, gate[d].at)
           /\ gate'[d].msg = gate[d].msg /\ gate'[d].now = clock
           /\ gate'[d].metered = gate[d].metered
BY DEF ReadTime, Base, TypeOK, Delivery, Moves, Quiet, InFlight

(* the burst layer counts, and lets pass or refuses *)
LEMMA HitBurstMoves ==
    ASSUME Base, NEW d \in Deliveries, HitBurst(d)
    PROVE  /\ Quiet /\ UNCHANGED <<keyCache, nonces, window>> /\ Keeps(d)
           /\ gate[d].pc = "burst" /\ CountBurst(d)
           /\ \/ /\ BurstCount(d).n > PerSecond
                 /\ Moves(d, "limited_burst", gate[d].rec, gate[d].at)
              \/ /\ ~(BurstCount(d).n > PerSecond)
                 /\ Moves(d, "minute", gate[d].rec, gate[d].at)
<1>1. gate[d] \in Delivery /\ gate \in [Deliveries -> Delivery] /\ gate[d].pc = "burst"
  BY DEF Base, TypeOK, HitBurst
<1>2. ASSUME NEW pc \in {"limited_burst", "minute"}, Goto(d, pc)
      PROVE  Keeps(d) /\ Moves(d, pc, gate[d].rec, gate[d].at)
  BY <1>1, <1>2 DEF Goto, Delivery, Moves, Keeps, Answers, InFlight
<1>3. CASE BurstCount(d).n > PerSecond
  BY <1>1, <1>2, <1>3 DEF HitBurst, Quiet
<1>4. CASE ~(BurstCount(d).n > PerSecond)
  BY <1>1, <1>2, <1>4 DEF HitBurst, Quiet
<1>. QED  BY <1>3, <1>4

(* so does the minute layer *)
LEMMA HitWindowMoves ==
    ASSUME Base, NEW d \in Deliveries, HitWindow(d)
    PROVE  /\ Quiet /\ UNCHANGED <<keyCache, nonces, burst>> /\ Keeps(d)
           /\ gate[d].pc = "minute" /\ CountWindow(d)
           /\ \/ /\ WindowCount(d).n > PerMinute
                 /\ Moves(d, "limited_window", gate[d].rec, gate[d].at)
              \/ /\ ~(WindowCount(d).n > PerMinute)
                 /\ Moves(d, "served", gate[d].rec, gate[d].at)
<1>1. gate[d] \in Delivery /\ gate \in [Deliveries -> Delivery] /\ gate[d].pc = "minute"
  BY DEF Base, TypeOK, HitWindow
<1>2. ASSUME NEW pc \in {"limited_window", "served"}, Goto(d, pc)
      PROVE  Keeps(d) /\ Moves(d, pc, gate[d].rec, gate[d].at)
  BY <1>1, <1>2 DEF Goto, Delivery, Moves, Keeps, Answers, InFlight
<1>3. CASE WindowCount(d).n > PerMinute
  BY <1>1, <1>2, <1>3 DEF HitWindow, Quiet
<1>4. CASE ~(WindowCount(d).n > PerMinute)
  BY <1>1, <1>2, <1>4 DEF HitWindow, Quiet
<1>. QED  BY <1>3, <1>4

(* a limiter whose store errs lets pass, counted or not *)
LEMMA LimiterFailsMoves ==
    ASSUME Base, NEW d \in Deliveries, LimiterFails(d)
    PROVE  /\ Quiet /\ UNCHANGED <<keyCache, nonces>>
           /\ \/ /\ gate[d].pc = "burst"
                 /\ CountBurst(d) \/ UNCHANGED burst
                 /\ UNCHANGED window
              \/ /\ gate[d].pc = "minute"
                 /\ CountWindow(d) \/ UNCHANGED window
                 /\ UNCHANGED burst
           /\ Moves(d, "served", gate[d].rec, gate[d].at)
           /\ gate'[d].msg = gate[d].msg /\ gate'[d].now = gate[d].now
           /\ gate'[d].metered = FALSE
<1>1. gate[d] \in Delivery /\ gate \in [Deliveries -> Delivery]
  BY DEF Base, TypeOK
<1>2. gate' = [gate EXCEPT ![d].pc = "served", ![d].metered = FALSE]
  BY DEF LimiterFails
<1>3. /\ Moves(d, "served", gate[d].rec, gate[d].at)
      /\ gate'[d].msg = gate[d].msg /\ gate'[d].now = gate[d].now
      /\ gate'[d].metered = FALSE
  BY <1>1, <1>2 DEF Delivery, Moves, Answers
<1>. QED  BY <1>3 DEF LimiterFails, Quiet

(* a counter that counts a request *)
LEMMA IncrType ==
    ASSUME NEW c \in Counter, NEW ttl \in Nat, clock \in Nat
    PROVE  Incr(c, ttl) \in Counter /\ Incr(c, ttl).n = c.n + 1
           /\ Incr(c, ttl).exp = IF c.n = 0 THEN clock + ttl ELSE c.exp
BY DEF Incr, Counter

-----------------------------------------------------------------------------
(* Types and timeliness are kept.                                          *)

(* what is asked of the delivery that moves *)
LEMMA BaseMove ==
    ASSUME Base, NEW d \in Deliveries, Quiet,
           gate' \in [Deliveries -> Delivery],
           \A e \in Deliveries \ {d} : gate'[e] = gate[e],
           gate'[d].msg \in Messages,
           gate'[d].at <= clock, gate'[d].now <= clock,
           gate'[d].pc \in {"fill", "remember"} => gate'[d].at = clock,
           gate'[d].pc \in {"burst", "minute"} => clock <= gate'[d].now + MaxDelay,
           gate'[d].pc \in {"fill", "verify"} => gate'[d].rec \in {"active", "revoked"},
           gate'[d].pc \notin {"fill", "verify"} => gate'[d].rec = None
    PROVE  Arrived' /\ Timely' /\ Held'
<1>1. clock' = clock /\ clock \in Nat /\ MaxDelay \in Nat
  BY Numbers DEF Quiet, Base, TypeOK
<1>2. ASSUME NEW e \in Deliveries
      PROVE  /\ gate'[e].pc # "new" => gate'[e].msg \in Messages
             /\ gate'[e].pc \in {"fill", "verify"} => gate'[e].rec \in {"active", "revoked"}
             /\ gate'[e].pc \notin {"fill", "verify"} => gate'[e].rec = None
  BY DEF Base, Arrived, Held
<1>3. ASSUME NEW e \in Deliveries
      PROVE  /\ gate'[e].at <= clock
             /\ gate'[e].now <= clock
             /\ gate'[e].pc \in {"fill", "remember"} => clock <= gate'[e].at + MaxDelay
             /\ gate'[e].pc \in {"burst", "minute"} => clock <= gate'[e].now + MaxDelay
  BY <1>1 DEF Base, Timely
<1>. QED  BY <1>1, <1>2, <1>3 DEF Arrived, Timely, Held

(* every step of a delivery *)
LEMMA DeliveryBase ==
    ASSUME Base, NEW d \in Deliveries, DeliveryStep(d)
    PROVE  Base'
<1>a. /\ gate[d] \in Delivery /\ clock \in 0..MaxClock /\ clock \in Nat
      /\ gate[d].at \in Nat /\ gate[d].now \in Nat /\ gate[d].at <= clock /\ gate[d].now <= clock
      /\ MaxDelay \in Nat /\ MaxClock \in Nat
  BY Numbers DEF Base, TypeOK, Timely, Delivery
<1>b. ASSUME gate[d].pc # "new"
      PROVE  gate[d].msg \in Messages /\ Key(d) \in Keys /\ KeyNonce(d) \in Keys \X Nonces
  BY <1>b, MessageFields DEF Base, Arrived, Key, KeyNonce
<1>c. ASSUME Quiet, UNCHANGED redis, gate' \in [Deliveries -> Delivery]  PROVE TypeOK'
  BY <1>c DEF Base, TypeOK, Quiet, redis, admin
<1>1. ASSUME NEW m \in Messages, Arrive(d, m)  PROVE Base'
  BY <1>1, <1>a, <1>c, ArriveMoves, BaseMove DEF Base, Held, Moves
<1>2. CASE LookupCache(d)
  <2>1. keyCache[Key(d)] # None => keyCache[Key(d)].status \in {"active", "revoked"}
    BY <1>2, <1>b DEF LookupCache, Base, TypeOK
  <2>. QED  BY <1>2, <2>1, <1>a, <1>b, <1>c, LookupCacheMoves, BaseMove DEF Base, Held, Moves, Keeps
<1>3. CASE LookupSource(d)
  <2>1. rows[Key(d)] # None => rows[Key(d)] \in {"active", "revoked"}
    BY <1>3, <1>b DEF LookupSource, Base, TypeOK
  <2>. QED  BY <1>3, <2>1, <1>a, <1>b, <1>c, LookupSourceMoves, BaseMove DEF Base, Held, Moves, Keeps
<1>4. CASE FillCache(d)
  <2>1. gate[d].pc = "fill" /\ gate[d].rec \in {"active", "revoked"}
    BY <1>4 DEF FillCache, Base, Held
  <2>2. keyCache' \in [Keys -> [status : {"active", "revoked"}, exp : Nat] \cup {None}]
    <3>1. [status |-> gate[d].rec, exp |-> clock + CacheTTL]
            \in [status : {"active", "revoked"}, exp : Nat]
      BY <2>1, <1>a, Numbers
    <3>2. CacheSet(Key(d), gate[d].rec) \/ UNCHANGED keyCache
      BY <1>4 DEF FillCache
    <3>3. keyCache \in [Keys -> [status : {"active", "revoked"}, exp : Nat] \cup {None}]
      BY DEF Base, TypeOK
    <3>. QED  BY <3>1, <3>2, <3>3 DEF CacheSet
  <2>3. TypeOK'
    BY <1>4, <2>2, FillCacheMoves DEF Base, TypeOK, Moves, Quiet, admin
  <2>. QED  BY <1>4, <2>1, <2>3, <1>a, <1>b, FillCacheMoves, BaseMove DEF Base, Moves, Keeps
<1>5. CASE Verify(d)
  BY <1>5, <1>a, <1>b, <1>c, VerifyMoves, BaseMove DEF Base, Moves, Keeps
<1>6. CASE Remember(d)
  <2>1. nonces' \in [Keys \X Nonces -> Nat]
    BY <1>6, <1>a, <1>b, Numbers DEF Remember, SetNX, Base, TypeOK
  <2>2. TypeOK'
    BY <1>6, <2>1, RememberMoves DEF Base, TypeOK, Moves, Quiet, admin
  <2>. QED  BY <1>6, <2>2, <1>a, <1>b, RememberMoves, BaseMove DEF Base, Moves, Keeps
<1>7. CASE AuthUnavailable(d)
  BY <1>7, <1>a, <1>b, <1>c, AuthUnavailableMoves, BaseMove DEF Base, Moves, Keeps
<1>8. CASE ReadTime(d)
  BY <1>8, <1>a, <1>b, <1>c, ReadTimeMoves, BaseMove DEF Base, Held, Moves
<1>d. ASSUME CountBurst(d), gate[d].pc # "new"
      PROVE  burst' \in [Keys -> [0..MaxClock -> Counter]]
  <2>1. burst[Key(d)][gate[d].now] \in Counter /\ gate[d].now \in 0..MaxClock
    BY <1>d, <1>b, <1>a DEF Base, TypeOK
  <2>2. BurstCount(d) \in Counter
    BY <2>1, <1>a, IncrType DEF BurstCount
  <2>. QED  BY <1>d, <1>b, <2>1, <2>2 DEF CountBurst, Base, TypeOK
<1>e. ASSUME CountWindow(d), gate[d].pc # "new"
      PROVE  window' \in [Keys -> [0..MaxClock -> Counter]]
  <2>1. Minute(gate[d].now) \in 0..MaxClock
    BY <1>a, MinuteBounds
  <2>2. window[Key(d)][Minute(gate[d].now)] \in Counter
    BY <1>e, <1>b, <2>1 DEF Base, TypeOK
  <2>3. WindowCount(d) \in Counter
    BY <2>2, <1>a, Numbers, IncrType DEF WindowCount
  <2>. QED  BY <1>e, <1>b, <2>1, <2>3 DEF CountWindow, Base, TypeOK
<1>9. CASE HitBurst(d)
  <2>1. TypeOK'
    BY <1>9, <1>d, HitBurstMoves DEF Base, TypeOK, Moves, Quiet, admin
  <2>. QED  BY <1>9, <2>1, <1>a, <1>b, HitBurstMoves, BaseMove DEF Base, Held, Timely, Moves, Keeps
<1>10. CASE HitWindow(d)
  <2>1. TypeOK'
    BY <1>10, <1>e, HitWindowMoves DEF Base, TypeOK, Moves, Quiet, admin
  <2>. QED  BY <1>10, <2>1, <1>a, <1>b, HitWindowMoves, BaseMove DEF Base, Held, Moves, Keeps
<1>11. CASE LimiterFails(d)
  <2>1. TypeOK'
    BY <1>11, <1>d, <1>e, LimiterFailsMoves DEF Base, TypeOK, Moves, Quiet, admin
  <2>. QED  BY <1>11, <2>1, <1>a, <1>b, LimiterFailsMoves, BaseMove DEF Base, Held, Moves
<1>. QED  BY <1>1, <1>2, <1>3, <1>4, <1>5, <1>6, <1>7, <1>8, <1>9, <1>10, <1>11 DEF DeliveryStep

(* key management and time *)
LEMMA AdminBase ==
    ASSUME Base, NEW k \in Keys, AdminStep(k)
    PROVE  Base'
<1>1. UNCHANGED <<clock, gate>> /\ UNCHANGED <<nonces, burst, window>>
  BY DEF AdminStep, CreateKey, ProvisionKey, NewKey, RevokeKey, Evict, EvictFails, redis
<1>2. rows' \in [Keys -> {"active", "revoked", None}]
  BY DEF AdminStep, CreateKey, ProvisionKey, NewKey, InsertKey, RevokeKey, SetRevoked, Evict,
         EvictFails, Base, TypeOK
<1>3. revokedAt' \in [Keys -> (0..MaxClock) \cup {None}]
  BY DEF AdminStep, CreateKey, ProvisionKey, NewKey, RevokeKey, SetRevoked, Evict,
         EvictFails, Base, TypeOK
<1>4. keyCache' \in [Keys -> [status : {"active", "revoked"}, exp : Nat] \cup {None}]
  BY DEF AdminStep, CreateKey, ProvisionKey, NewKey, RevokeKey, Evict, CacheDel,
         EvictFails, Base, TypeOK, redis
<1>5. revokes' \in 0..MaxRevokes
  BY Numbers DEF AdminStep, CreateKey, ProvisionKey, NewKey, RevokeKey, Evict, EvictFails, Base, TypeOK
<1>8. evicting' \in [Keys -> BOOLEAN]
  BY DEF AdminStep, CreateKey, ProvisionKey, NewKey, RevokeKey, Evict, EvictFails, Base, TypeOK
<1>6. raced' \in [Keys -> BOOLEAN]
  BY DEF AdminStep, CreateKey, ProvisionKey, NewKey, RevokeKey, Evict, EvictFails, Base, TypeOK
<1>7. TypeOK'
  BY <1>1, <1>2, <1>3, <1>4, <1>5, <1>6, <1>8 DEF Base, TypeOK
<1>. QED  BY <1>1, <1>7 DEF Base, Arrived, Timely, Held

(* a second passes *)
LEMMA TickBase ==
    ASSUME Base, Tick
    PROVE  Base'
<1>1. /\ clock \in Nat /\ clock' = clock + 1 /\ clock' \in 0..MaxClock
      /\ gate' = gate /\ UNCHANGED admin /\ MaxDelay \in Nat
  BY Numbers DEF Base, TypeOK, Tick
<1>2. \A f \in [0..MaxClock -> Counter] : Expire(f) \in [0..MaxClock -> Counter]
  BY DEF Expire, Counter, NoCount
<1>3. /\ burst' \in [Keys -> [0..MaxClock -> Counter]]
      /\ window' \in [Keys -> [0..MaxClock -> Counter]]
  BY <1>2 DEF Tick, Base, TypeOK
<1>4. keyCache' \in [Keys -> [status : {"active", "revoked"}, exp : Nat] \cup {None}]
  BY DEF Tick, Base, TypeOK
<1>5. nonces' \in [Keys \X Nonces -> Nat]
  BY DEF Tick, Base, TypeOK
<1>6. TypeOK'
  BY <1>1, <1>3, <1>4, <1>5 DEF Base, TypeOK, admin
<1>7. Arrived' /\ Held'
  BY <1>1 DEF Base, Arrived, Held
<1>8. Timely'
  <2>. SUFFICES ASSUME NEW d \in Deliveries
                PROVE  /\ gate[d].at <= clock + 1
                       /\ gate[d].now <= clock + 1
                       /\ gate[d].pc \in {"fill", "remember"} => clock + 1 <= gate[d].at + MaxDelay
                       /\ gate[d].pc \in {"burst", "minute"} => clock + 1 <= gate[d].now + MaxDelay
    BY <1>1 DEF Timely
  <2>1. gate[d].at \in Nat /\ gate[d].now \in Nat
    BY DEF Base, TypeOK, Delivery
  <2>2. /\ gate[d].pc \in {"fill", "remember"} => clock - gate[d].at < MaxDelay
        /\ gate[d].pc \in {"burst", "minute"} => clock - gate[d].now < MaxDelay
    BY DEF Tick
  <2>. QED  BY <1>1, <2>1, <2>2 DEF Base, Timely
<1>. QED  BY <1>6, <1>7, <1>8 DEF Base

(* every step *)
LEMMA NextBase == Base /\ [Next]_vars => Base'
<1>1. ASSUME Base, UNCHANGED vars  PROVE Base'
  BY <1>1 DEF Base, TypeOK, Arrived, Timely, Held, vars, redis, admin
<1>. QED  BY <1>1, DeliveryBase, AdminBase, TickBase DEF Next

-----------------------------------------------------------------------------
(* Nonces.  Whoever is past the nonce check is protected by its entry for  *)
(* as long as its timestamp can pass; a remembered nonce has a signed      *)
(* message behind it.                                                      *)

Consumed == Remembered \cup {"unavailable"}

UsedBy(e, kn) == gate[e].pc \in Consumed /\ KeyNonce(e) = kn /\ gate[e].msg.genuine

SignerUses ==
    \A kn \in Keys \X Nonces : nonces[kn] # 0 => \E e \in Deliveries : UsedBy(e, kn)

InWindow(d) ==
    /\ gate[d].msg.genuine
    /\ gate[d].at <= gate[d].msg.ts + MaxSkew
    /\ gate[d].msg.ts <= gate[d].at + MaxSkew

Checked == \A d \in Deliveries : gate[d].pc = "remember" => InWindow(d)

\* When the entry of a message may be forgotten.
Until(d) == gate[d].msg.ts - MaxSkew + NonceTTL

Protected(d) ==
    \/ nonces[KeyNonce(d)] # 0 /\ nonces[KeyNonce(d)] >= Until(d)
    \/ clock >= Until(d)

Outlasts == \A d \in Deliveries : gate[d].pc \in Remembered => Protected(d)

Once ==
    \A d \in Deliveries :
        /\ NonceMargin /\ gate[d].pc \in Remembered =>
             \A e \in Deliveries \ {d} :
                gate[e].msg = gate[d].msg => gate[e].pc \notin Remembered
        /\ gate[d].pc = "replay" =>
             \E e \in Deliveries \ {d} : UsedBy(e, KeyNonce(d))

NonceInv == SignerUses /\ Checked /\ Outlasts /\ Once

(* at the start *)
LEMMA InitNonce == Init => NonceInv
BY DEF Init, NonceInv, SignerUses, Checked, Outlasts, Once, Remembered

(* the property follows: the TTL is at least twice the skew *)
LEMMA NonceInvImplies == Base /\ NonceInv => AcceptedOnce
<1> SUFFICES ASSUME Base, NonceInv  PROVE AcceptedOnce
  OBVIOUS
<1>1. ASSUME NEW d \in Deliveries, gate[d].pc \in Remembered,
             clock < gate[d].msg.ts + MaxSkew
      PROVE  nonces[KeyNonce(d)] > clock
  <2>1. gate[d].msg \in Messages /\ KeyNonce(d) \in Keys \X Nonces
    BY <1>1, MessageFields DEF Base, Arrived, KeyNonce, Remembered
  <2>2. gate[d].msg.ts \in Int /\ clock \in Nat /\ nonces[KeyNonce(d)] \in Nat
    BY <2>1, MessageFields DEF Base, TypeOK
  <2>3. NonceTTL \in Nat /\ MaxSkew \in Nat /\ NonceTTL >= 2 * MaxSkew
    BY NatAssumption DEF NonceTTL
  <2>4. Until(d) \in Int /\ clock < Until(d)
    BY <1>1, <2>2, <2>3 DEF Until
  <2>. QED  BY <1>1, <2>2, <2>4 DEF NonceInv, Outlasts, Protected
<1>. QED  BY <1>1 DEF NonceInv, Once, UsedBy, Consumed, AcceptedOnce

(* a step that has nothing to do with nonces *)
LEMMA NonceQuiet ==
    ASSUME Base, NonceInv, NEW d \in Deliveries, Quiet, UNCHANGED nonces,
           \A e \in Deliveries \ {d} : gate'[e] = gate[e],
           gate[d].pc # "new" => gate'[d].msg = gate[d].msg,
           gate'[d].pc \in Remembered <=> gate[d].pc \in Remembered,
           gate[d].pc \in Consumed => gate'[d].pc \in Consumed,
           gate'[d].pc = "remember" => InWindow(d)',
           gate'[d].pc # "replay"
    PROVE  NonceInv'
<1>a. clock' = clock
  BY DEF Quiet
<1>b. "new" \notin Consumed /\ "replay" \notin Consumed /\ Remembered \subseteq Consumed
  BY DEF Consumed, Remembered
<1>1. \A e \in Deliveries, kn \in Keys \X Nonces : UsedBy(e, kn) => UsedBy(e, kn)'
  BY <1>b DEF UsedBy, KeyNonce
<1>2. SignerUses'
  BY <1>1 DEF NonceInv, SignerUses
<1>3. Checked'
  BY <1>a DEF NonceInv, Checked, InWindow
<1>4. Outlasts'
  BY <1>a, <1>b DEF NonceInv, Outlasts, Protected, Until, KeyNonce
<1>5. Once'
  <2>. SUFFICES ASSUME NEW e \in Deliveries
                PROVE  /\ NonceMargin /\ gate'[e].pc \in Remembered =>
                             \A f \in Deliveries \ {e} :
                                gate'[f].msg = gate'[e].msg => gate'[f].pc \notin Remembered
                       /\ gate'[e].pc = "replay" =>
                             \E f \in Deliveries \ {e} : UsedBy(f, KeyNonce(e))'
    BY DEF Once, UsedBy, Consumed
  <2>1. ASSUME NonceMargin, gate'[e].pc \in Remembered, NEW f \in Deliveries \ {e},
               gate'[f].msg = gate'[e].msg, gate'[f].pc \in Remembered
        PROVE  FALSE
    <3>1. gate[e].pc \in Remembered /\ gate[f].pc \in Remembered
      BY <2>1
    <3>2. gate'[e].msg = gate[e].msg /\ gate'[f].msg = gate[f].msg
      BY <3>1, <1>b
    <3>. QED  BY <2>1, <3>1, <3>2 DEF NonceInv, Once
  <2>2. ASSUME gate'[e].pc = "replay"
        PROVE  \E f \in Deliveries \ {e} : UsedBy(f, KeyNonce(e))'
    <3>1. e # d /\ gate'[e] = gate[e]
      BY <2>2
    <3>2. PICK f \in Deliveries \ {e} : UsedBy(f, KeyNonce(e))
      BY <2>2, <3>1 DEF NonceInv, Once, UsedBy, Consumed
    <3>3. gate[f].pc # "new" /\ gate'[f].msg = gate[f].msg /\ gate'[f].pc \in Consumed
      BY <3>2, <1>b DEF UsedBy
    <3>. QED  BY <3>1, <3>2, <3>3 DEF UsedBy, KeyNonce
  <2>. QED  BY <2>1, <2>2
<1>. QED  BY <1>2, <1>3, <1>4, <1>5 DEF NonceInv

(* the nonce check itself *)
LEMMA NonceRemember ==
    ASSUME Base, NonceInv, NEW d \in Deliveries, Remember(d)
    PROVE  NonceInv'
<1>a. /\ gate[d].pc = "remember" /\ gate[d].msg \in Messages /\ KeyNonce(d) \in Keys \X Nonces
      /\ gate'[d].msg = gate[d].msg /\ \A e \in Deliveries \ {d} : gate'[e] = gate[e]
      /\ clock' = clock /\ clock \in Nat
  BY RememberMoves, MessageFields DEF Base, TypeOK, Arrived, KeyNonce, Keeps, Moves, Quiet
<1>b. "new" \notin Consumed /\ "remember" \notin Consumed /\ "replay" \notin Consumed
      /\ Remembered \subseteq Consumed /\ {"limit", "unavailable"} \subseteq Consumed
  BY DEF Consumed, Remembered
<1>c. InWindow(d)
  BY <1>a DEF NonceInv, Checked
<1>d. \A e \in Deliveries, kn \in Keys \X Nonces : UsedBy(e, kn) => UsedBy(e, kn)'
  BY <1>a, <1>b DEF UsedBy, KeyNonce
<1>e. \A e \in Deliveries : KeyNonce(e)' = KeyNonce(e)
  BY <1>a DEF KeyNonce
<1>1. CASE nonces[KeyNonce(d)] # 0
  <2>1. UNCHANGED nonces /\ gate'[d].pc = "replay"
    BY <1>1, RememberMoves DEF Moves
  <2>2. PICK f \in Deliveries : UsedBy(f, KeyNonce(d))
    BY <1>1, <1>a DEF NonceInv, SignerUses
  <2>3. f # d /\ UsedBy(f, KeyNonce(d))'
    BY <2>2, <1>a, <1>b, <1>d, <1>e DEF UsedBy
  <2>4. SignerUses'
    BY <2>1, <1>d DEF NonceInv, SignerUses
  <2>5. Checked'
    BY <2>1, <1>a DEF NonceInv, Checked, InWindow
  <2>6. "replay" \notin Remembered
    BY DEF Remembered
  <2>7. Outlasts'
    BY <2>1, <2>6, <1>a DEF NonceInv, Outlasts, Protected, Until, KeyNonce
  <2>8. Once'
    <3>. SUFFICES ASSUME NEW e \in Deliveries
                  PROVE  /\ NonceMargin /\ gate'[e].pc \in Remembered =>
                               \A g \in Deliveries \ {e} :
                                  gate'[g].msg = gate'[e].msg => gate'[g].pc \notin Remembered
                         /\ gate'[e].pc = "replay" =>
                               \E g \in Deliveries \ {e} : UsedBy(g, KeyNonce(e))'
      BY DEF Once, UsedBy, Consumed
    <3>1. NonceMargin /\ gate'[e].pc \in Remembered =>
             \A g \in Deliveries \ {e} :
                gate'[g].msg = gate'[e].msg => gate'[g].pc \notin Remembered
      BY <1>a, <2>1, <2>6 DEF NonceInv, Once
    <3>2. CASE e = d
      BY <3>1, <3>2, <2>3
    <3>3. CASE e # d
      <4>1. gate'[e].pc = "replay" => \E g \in Deliveries \ {e} : UsedBy(g, KeyNonce(e))
        BY <3>3, <1>a DEF NonceInv, Once, UsedBy, Consumed
      <4>2. \A g \in Deliveries : UsedBy(g, KeyNonce(e)) => UsedBy(g, KeyNonce(e))'
        BY <1>a, <1>b, <1>e DEF UsedBy
      <4>. QED  BY <3>1, <4>1, <4>2
    <3>. QED  BY <3>2, <3>3
  <2>. QED  BY <2>4, <2>5, <2>7, <2>8 DEF NonceInv
<1>2. CASE nonces[KeyNonce(d)] = 0
  <2>1. nonces' = [nonces EXCEPT ![KeyNonce(d)] = clock + NonceTTL]
        /\ gate'[d].pc \in {"limit", "unavailable"}
    BY <1>2, RememberMoves DEF Moves, SetNX
  <2>2. UsedBy(d, KeyNonce(d))'
    BY <1>a, <1>c, <1>e, <2>1 DEF UsedBy, InWindow, Consumed, Remembered
  <2>3. nonces \in [Keys \X Nonces -> Nat]
    BY DEF Base, TypeOK
  <2>4. SignerUses'
    <3>. SUFFICES ASSUME NEW kn \in Keys \X Nonces, nonces'[kn] # 0
                  PROVE  \E e \in Deliveries : UsedBy(e, kn)'
      BY DEF SignerUses
    <3>1. CASE kn = KeyNonce(d)
      BY <3>1, <2>2, <1>e
    <3>2. CASE kn # KeyNonce(d)
      BY <3>2, <2>1, <2>3, <1>d DEF NonceInv, SignerUses
    <3>. QED  BY <3>1, <3>2
  <2>5. Checked'
    BY <2>1, <1>a DEF NonceInv, Checked, InWindow
  <2>6. gate[d].at \in Nat /\ gate[d].msg.ts \in Int /\ NonceTTL \in Nat /\ MaxSkew \in Nat
        /\ gate[d].at <= clock /\ clock <= gate[d].at + MaxDelay /\ MaxDelay \in Nat
    BY <1>a, Numbers, MessageFields DEF Base, TypeOK, Timely, Delivery
  <2>7. clock + NonceTTL >= Until(d) /\ (NonceMargin => ~(clock >= Until(d)))
    BY <2>6, <1>c, <1>a DEF InWindow, Until, NonceMargin
  <2>8. NonceMargin =>
           \A e \in Deliveries : gate[e].msg = gate[d].msg => gate[e].pc \notin Remembered
    BY <2>7, <1>2 DEF NonceInv, Outlasts, Protected, KeyNonce, Until
  <2>9. Outlasts'
    <3>. SUFFICES ASSUME NEW e \in Deliveries, gate'[e].pc \in Remembered
                  PROVE  Protected(e)'
      BY DEF Outlasts
    <3>0. Until(e)' = Until(e) /\ Until(d) \in Int
      BY <1>a, <2>6 DEF Until
    <3>1. CASE e = d
      BY <3>0, <3>1, <2>1, <2>3, <2>6, <2>7, <1>a, <1>e DEF Protected
    <3>2. CASE e # d /\ KeyNonce(e) # KeyNonce(d)
      <4>1. gate[e].msg \in Messages /\ KeyNonce(e) \in Keys \X Nonces
        BY <3>2, <1>a, MessageFields DEF Base, Arrived, KeyNonce, Remembered
      <4>2. nonces'[KeyNonce(e)] = nonces[KeyNonce(e)] /\ Protected(e)
        BY <4>1, <3>2, <2>1, <2>3, <1>a DEF NonceInv, Outlasts
      <4>. QED  BY <4>2, <3>0, <1>a, <1>e DEF Protected
    <3>3. CASE e # d /\ KeyNonce(e) = KeyNonce(d)
      <4>1. Protected(e)
        BY <3>3, <1>a DEF NonceInv, Outlasts
      <4>. QED  BY <4>1, <3>0, <3>3, <1>2, <1>a DEF Protected
    <3>. QED  BY <3>1, <3>2, <3>3
  <2>10. Once'
    <3>. SUFFICES ASSUME NEW e \in Deliveries
                  PROVE  /\ NonceMargin /\ gate'[e].pc \in Remembered =>
                               \A g \in Deliveries \ {e} :
                                  gate'[g].msg = gate'[e].msg => gate'[g].pc \notin Remembered
                         /\ gate'[e].pc = "replay" =>
                               \E g \in Deliveries \ {e} : UsedBy(g, KeyNonce(e))'
      BY DEF Once, UsedBy, Consumed
    <3>1. NonceMargin /\ gate'[e].pc \in Remembered =>
             \A g \in Deliveries \ {e} :
                gate'[g].msg = gate'[e].msg => gate'[g].pc \notin Remembered
      BY <1>a, <2>8 DEF NonceInv, Once
    <3>2. CASE e = d
      BY <3>1, <3>2, <2>1
    <3>3. CASE e # d
      <4>1. gate'[e].pc = "replay" => \E g \in Deliveries \ {e} : UsedBy(g, KeyNonce(e))
        BY <3>3, <1>a DEF NonceInv, Once, UsedBy, Consumed
      <4>2. \A g \in Deliveries : UsedBy(g, KeyNonce(e)) => UsedBy(g, KeyNonce(e))'
        BY <1>a, <1>b, <1>e DEF UsedBy
      <4>. QED  BY <3>1, <4>1, <4>2
    <3>. QED  BY <3>2, <3>3
  <2>. QED  BY <2>4, <2>5, <2>9, <2>10 DEF NonceInv
<1>. QED  BY <1>1, <1>2

(* every step of a delivery *)
LEMMA NonceDelivery ==
    ASSUME Base, NonceInv, NEW d \in Deliveries, DeliveryStep(d)
    PROVE  NonceInv'
<1>a. /\ gate[d].pc # "new" => gate[d].msg \in Messages
      /\ clock \in Nat /\ MaxSkew \in Nat
  BY Numbers DEF Base, TypeOK, Arrived
<1>1. ASSUME NEW m \in Messages, Arrive(d, m)  PROVE NonceInv'
  BY <1>1, ArriveMoves, NonceQuiet DEF Moves, Consumed, Remembered, redis
<1>2. CASE LookupCache(d)
  BY <1>2, LookupCacheMoves, NonceQuiet DEF Moves, Keeps, Consumed, Remembered, redis
<1>3. CASE LookupSource(d)
  BY <1>3, LookupSourceMoves, NonceQuiet DEF Moves, Keeps, Consumed, Remembered, redis
<1>4. CASE FillCache(d)
  BY <1>4, FillCacheMoves, NonceQuiet DEF Moves, Keeps, Consumed, Remembered
<1>5. CASE Verify(d)
  <2>1. gate'[d].pc = "remember" => InWindow(d)'
    <3>. SUFFICES ASSUME gate'[d].pc = "remember"  PROVE InWindow(d)'
      OBVIOUS
    <3>1. /\ SignatureValid(gate[d].msg) /\ gate'[d].at = clock
          /\ gate'[d].msg = gate[d].msg /\ gate[d].msg \in Messages
      BY <1>5, <1>a, VerifyMoves DEF Moves, Keeps
    <3>2. gate[d].msg.ts \in Int
      BY <3>1, MessageFields
    <3>. QED  BY <3>1, <3>2, <1>a DEF SignatureValid, MACMatches, InWindow
  <2>. QED  BY <1>5, <2>1, VerifyMoves, NonceQuiet DEF Moves, Keeps, Consumed, Remembered, redis
<1>6. CASE Remember(d)
  BY <1>6, NonceRemember
<1>7. CASE AuthUnavailable(d)
  BY <1>7, AuthUnavailableMoves, NonceQuiet DEF Moves, Keeps, Consumed, Remembered, redis
<1>8. CASE ReadTime(d)
  BY <1>8, ReadTimeMoves, NonceQuiet DEF Moves, Consumed, Remembered, redis
<1>9. CASE HitBurst(d)
  BY <1>9, HitBurstMoves, NonceQuiet DEF Moves, Keeps, Consumed, Remembered
<1>10. CASE HitWindow(d)
  BY <1>10, HitWindowMoves, NonceQuiet DEF Moves, Keeps, Consumed, Remembered
<1>11. CASE LimiterFails(d)
  BY <1>11, LimiterFailsMoves, NonceQuiet DEF Moves, Consumed, Remembered
<1>. QED  BY <1>1, <1>2, <1>3, <1>4, <1>5, <1>6, <1>7, <1>8, <1>9, <1>10, <1>11 DEF DeliveryStep

(* steps that leave deliveries and nonces alone *)
LEMMA NonceStill ==
    ASSUME NonceInv, UNCHANGED <<gate, nonces, clock>>
    PROVE  NonceInv'
<1>1. SignerUses' /\ Checked' /\ Outlasts'
  BY DEF NonceInv, SignerUses, UsedBy, KeyNonce, Checked, InWindow, Outlasts, Protected, Until
<1>2. Once'
  BY DEF NonceInv, Once, UsedBy, KeyNonce
<1>. QED  BY <1>1, <1>2 DEF NonceInv

(* an entry is dropped only when it has done its duty *)
LEMMA NonceTick ==
    ASSUME Base, NonceInv, Tick
    PROVE  NonceInv'
<1>1. /\ gate' = gate /\ clock \in Nat /\ clock' = clock + 1
      /\ nonces' = [kn \in Keys \X Nonces |-> IF Live(nonces[kn]) THEN nonces[kn] ELSE 0]
      /\ nonces \in [Keys \X Nonces -> Nat]
  BY DEF Tick, Base, TypeOK
<1>2. SignerUses'
  BY <1>1 DEF NonceInv, SignerUses, UsedBy, KeyNonce
<1>3. Checked' /\ Once'
  BY <1>1 DEF NonceInv, Checked, InWindow, Once, UsedBy, KeyNonce
<1>4. Outlasts'
  <2>. SUFFICES ASSUME NEW d \in Deliveries, gate[d].pc \in Remembered
                PROVE  Protected(d)'
    BY <1>1 DEF Outlasts
  <2>1. gate[d].msg \in Messages /\ KeyNonce(d) \in Keys \X Nonces
    BY MessageFields DEF Base, Arrived, KeyNonce, Remembered
  <2>2. Until(d) \in Int /\ Until(d)' = Until(d) /\ KeyNonce(d)' = KeyNonce(d)
    BY <1>1, <2>1, Numbers, MessageFields DEF Until, KeyNonce
  <2>3. Protected(d)
    BY DEF NonceInv, Outlasts
  <2>4. CASE Live(nonces[KeyNonce(d)])
    BY <1>1, <2>1, <2>2, <2>3, <2>4 DEF Protected
  <2>5. CASE ~Live(nonces[KeyNonce(d)])
    <3>1. nonces[KeyNonce(d)] \in Nat /\ nonces[KeyNonce(d)] <= clock + 1
      BY <1>1, <2>1, <2>5 DEF Live
    <3>. QED  BY <1>1, <2>2, <2>3, <3>1 DEF Protected
  <2>. QED  BY <2>4, <2>5
<1>. QED  BY <1>2, <1>3, <1>4 DEF NonceInv

(* every step *)
LEMMA NextNonce == Base /\ NonceInv /\ [Next]_vars => NonceInv'
<1>1. ASSUME NonceInv, UNCHANGED vars  PROVE NonceInv'
  BY <1>1, NonceStill DEF vars, redis
<1>2. ASSUME NonceInv, NEW k \in Keys, AdminStep(k)  PROVE NonceInv'
  <2>1. UNCHANGED <<gate, nonces, clock>>
    BY <1>2 DEF AdminStep, CreateKey, ProvisionKey, NewKey, RevokeKey, Evict, EvictFails, redis
  <2>. QED  BY <1>2, <2>1, NonceStill
<1>. QED  BY <1>1, <1>2, NonceDelivery, NonceTick DEF Next

-----------------------------------------------------------------------------
(* Revocation.  An active record of a revoked key is older than the        *)
(* revocation, or comes from a cache entry that is about to expire; and    *)
(* without a lookup that raced the eviction there is none in the cache.    *)

StatusDated ==
    \A k \in Keys :
        /\ revokedAt[k] \in (0..clock) \cup {None}
        /\ rows[k] # "revoked" => revokedAt[k] = None
        /\ rows[k] = "revoked" => revokedAt[k] \in 0..clock

CacheDated ==
    \A k \in Keys : keyCache[k] # None =>
        clock < keyCache[k].exp /\ keyCache[k].exp <= clock + CacheTTL

Filling(d, k) == gate[d].pc = "fill" /\ Key(d) = k /\ gate[d].rec = "active"

Stale(k) ==
    /\ \A d \in Deliveries : Filling(d, k) => gate[d].at <= revokedAt[k]
    /\ \A d \in Deliveries :
          gate[d].pc \in InFlight /\ Key(d) = k /\ gate[d].rec = "active" =>
              gate[d].at < revokedAt[k] + MaxDelay + CacheTTL
    /\ keyCache[k] # None /\ keyCache[k].status = "active" =>
          keyCache[k].exp <= revokedAt[k] + MaxDelay + CacheTTL
    /\ ~evicting[k] /\ ~raced[k] =>
          /\ \A d \in Deliveries : ~Filling(d, k)
          /\ keyCache[k] # None => keyCache[k].status = "revoked"

RevokeInv == StatusDated /\ CacheDated /\ \A k \in Keys : rows[k] = "revoked" => Stale(k)

(* at the start *)
LEMMA InitRevoke == Init => RevokeInv
BY NoneAssumption DEF Init, RevokeInv, StatusDated, CacheDated

(* the invariant is what the property needs *)
LEMMA RevokeInvImplies == RevokeInv => RevokedIsRefused
BY DEF RevokeInv, Stale, RevokedIsRefused

(* a delivery that does not touch the cache *)
LEMMA RevokeMove ==
    ASSUME Base, RevokeInv, NEW d \in Deliveries, Quiet, UNCHANGED keyCache,
           \A e \in Deliveries \ {d} : gate'[e] = gate[e],
           gate'[d].rec = "active" /\ gate'[d].pc \in InFlight =>
              /\ gate'[d].pc = "fill" => rows[Key(d)'] # "revoked"
              /\ \/ rows[Key(d)'] # "revoked"
                 \/ gate'[d].at < revokedAt[Key(d)'] + MaxDelay + CacheTTL
    PROVE  RevokeInv'
<1>1. UNCHANGED <<clock, rows, revokedAt, evicting, raced>>
  BY DEF Quiet, admin
<1>2. StatusDated' /\ CacheDated'
  BY <1>1 DEF RevokeInv, StatusDated, CacheDated
<1>3. ASSUME NEW k \in Keys, rows[k] = "revoked"  PROVE Stale(k)'
  <2>0. Stale(k) /\ "fill" \in InFlight
    BY <1>3 DEF RevokeInv, InFlight
  <2>1. \A e \in Deliveries : Filling(e, k)' => Filling(e, k) /\ gate'[e] = gate[e]
    BY <1>3, <2>0 DEF Filling, Key
  <2>2. ASSUME NEW e \in Deliveries, gate'[e].pc \in InFlight, Key(e)' = k, gate'[e].rec = "active"
        PROVE  gate'[e].at < revokedAt[k] + MaxDelay + CacheTTL
    BY <1>3, <2>0, <2>2 DEF Stale, Key
  <2>. QED  BY <1>1, <2>0, <2>1, <2>2 DEF Stale
<1>. QED  BY <1>1, <1>2, <1>3 DEF RevokeInv

(* a record is cached *)
LEMMA RevokeFill ==
    ASSUME Base, RevokeInv, NEW d \in Deliveries, FillCache(d)
    PROVE  RevokeInv'
<1>a. /\ UNCHANGED <<clock, rows, revokedAt, evicting, raced>>
      /\ gate[d].pc = "fill" /\ gate'[d].pc = "verify" /\ gate'[d].rec = gate[d].rec
      /\ gate'[d].at = gate[d].at /\ gate'[d].msg = gate[d].msg
      /\ \A e \in Deliveries \ {d} : gate'[e] = gate[e]
      /\ CacheSet(Key(d), gate[d].rec) \/ UNCHANGED keyCache
  BY FillCacheMoves DEF Quiet, admin, Moves, Keeps
<1>b. /\ Key(d) \in Keys /\ gate[d].rec \in {"active", "revoked"}
      /\ clock \in Nat /\ gate[d].at \in Nat /\ clock <= gate[d].at + MaxDelay
      /\ CacheTTL \in Nat /\ CacheTTL > 0 /\ MaxDelay \in Nat
  BY <1>a, MessageFields, Numbers, CacheTTLAssumption
     DEF Base, TypeOK, Arrived, Held, Timely, Delivery, Key
<1>c. keyCache \in [Keys -> [status : {"active", "revoked"}, exp : Nat] \cup {None}]
  BY DEF Base, TypeOK
<1>d. \A k \in Keys :
        \/ keyCache'[k] = keyCache[k]
        \/ k = Key(d) /\ keyCache'[k] = [status |-> gate[d].rec, exp |-> clock + CacheTTL]
  BY <1>a, <1>b, <1>c DEF CacheSet
<1>1. StatusDated'
  BY <1>a DEF RevokeInv, StatusDated
<1>2. CacheDated'
  <2>. SUFFICES ASSUME NEW k \in Keys, keyCache'[k] # None
                PROVE  clock < keyCache'[k].exp /\ keyCache'[k].exp <= clock + CacheTTL
    BY <1>a DEF CacheDated
  <2>1. CASE keyCache'[k] = keyCache[k]
    BY <2>1 DEF RevokeInv, CacheDated
  <2>2. CASE keyCache'[k] = [status |-> gate[d].rec, exp |-> clock + CacheTTL]
    BY <2>2, <1>b
  <2>. QED  BY <2>1, <2>2, <1>d
<1>3. ASSUME NEW k \in Keys, rows[k] = "revoked"  PROVE Stale(k)'
  <2>0. Stale(k) /\ revokedAt[k] \in Nat
    BY <1>3 DEF RevokeInv, StatusDated
  <2>1. \A e \in Deliveries : Filling(e, k)' => Filling(e, k) /\ gate'[e] = gate[e]
    BY <1>a DEF Filling, Key
  <2>2. ASSUME NEW e \in Deliveries, gate'[e].pc \in InFlight, Key(e)' = k, gate'[e].rec = "active"
        PROVE  gate'[e].at < revokedAt[k] + MaxDelay + CacheTTL
    BY <1>a, <2>0, <2>2 DEF Stale, Key, InFlight
  <2>3. ASSUME keyCache'[k] # None, keyCache'[k].status = "active"
        PROVE  keyCache'[k].exp <= revokedAt[k] + MaxDelay + CacheTTL
    <3>1. CASE keyCache'[k] = keyCache[k]
      BY <2>0, <2>3, <3>1 DEF Stale
    <3>2. CASE k = Key(d) /\ keyCache'[k] = [status |-> gate[d].rec, exp |-> clock + CacheTTL]
      <4>1. gate[d].at <= revokedAt[k]
        BY <1>a, <2>0, <2>3, <3>2 DEF Stale, Filling
      <4>. QED  BY <4>1, <3>2, <1>b, <2>0
    <3>. QED  BY <3>1, <3>2, <1>d
  <2>4. ASSUME ~evicting[k], ~raced[k], keyCache'[k] # None
        PROVE  keyCache'[k].status = "revoked"
    BY <1>a, <1>b, <1>d, <2>0, <2>4 DEF Stale, Filling
  <2>. QED  BY <1>a, <2>0, <2>1, <2>2, <2>3, <2>4 DEF Stale
<1>. QED  BY <1>a, <1>1, <1>2, <1>3 DEF RevokeInv

(* every step of a delivery *)
LEMMA RevokeDelivery ==
    ASSUME Base, RevokeInv, NEW d \in Deliveries, DeliveryStep(d)
    PROVE  RevokeInv'
<1>a. None # "active"
  BY NoneAssumption
<1>1. ASSUME NEW m \in Messages, Arrive(d, m)  PROVE RevokeInv'
  <2>1. gate'[d].rec = None
    BY <1>1, ArriveMoves DEF Moves, Base, Held
  <2>. QED  BY <1>1, <1>a, <2>1, ArriveMoves, RevokeMove DEF Moves, redis
<1>2. CASE LookupCache(d)
  <2>1. /\ Key(d)' = Key(d) /\ Key(d) \in Keys
        /\ clock \in Nat /\ MaxDelay \in Nat /\ CacheTTL \in Nat
    BY <1>2, LookupCacheMoves, MessageFields, Numbers DEF Keeps, Key, Base, TypeOK, Arrived
  <2>2. CASE Moves(d, "source", gate[d].rec, gate[d].at)
    <3>1. gate'[d].rec = None
      BY <1>2, <2>2, LookupCacheMoves DEF Moves, Base, Held
    <3>. QED  BY <1>2, <1>a, <2>2, <3>1, LookupCacheMoves, RevokeMove DEF Moves, redis
  <2>3. CASE keyCache[Key(d)] # None /\ Moves(d, "verify", keyCache[Key(d)].status, clock)
    <3>1. ASSUME rows[Key(d)] = "revoked", gate'[d].rec = "active"
          PROVE  gate'[d].at < revokedAt[Key(d)] + MaxDelay + CacheTTL
      <4>1. gate'[d].at = clock /\ clock < keyCache[Key(d)].exp
        BY <2>1, <2>3 DEF Moves, RevokeInv, CacheDated
      <4>2. keyCache[Key(d)].exp <= revokedAt[Key(d)] + MaxDelay + CacheTTL
        BY <2>1, <2>3, <3>1 DEF Moves, RevokeInv, Stale
      <4>3. keyCache[Key(d)].exp \in Nat
        BY <2>1, <2>3 DEF Base, TypeOK
      <4>4. revokedAt[Key(d)] \in Nat
        BY <2>1, <3>1 DEF RevokeInv, StatusDated
      <4>. QED  BY <2>1, <4>1, <4>2, <4>3, <4>4
    <3>. QED  BY <1>2, <2>1, <2>3, <3>1, LookupCacheMoves, RevokeMove DEF Moves, redis
  <2>. QED  BY <1>2, <2>2, <2>3, LookupCacheMoves
<1>3. CASE LookupSource(d)
  <2>1. Key(d)' = Key(d)
    BY <1>3, LookupSourceMoves DEF Keeps, Key
  <2>. QED  BY <1>3, <1>a, <2>1, LookupSourceMoves, RevokeMove DEF Moves, redis
<1>4. CASE FillCache(d)
  BY <1>4, RevokeFill
<1>5. CASE Verify(d)
  BY <1>5, <1>a, VerifyMoves, RevokeMove DEF Moves, redis
<1>6. CASE Remember(d)
  BY <1>6, <1>a, RememberMoves, RevokeMove DEF Moves
<1>7. CASE AuthUnavailable(d)
  BY <1>7, <1>a, AuthUnavailableMoves, RevokeMove DEF Moves, redis
<1>b. gate[d].pc \in {"limit", "burst", "minute"} => gate[d].rec = None
  BY DEF Base, Held
<1>8. CASE ReadTime(d)
  BY <1>8, <1>a, <1>b, ReadTimeMoves, RevokeMove DEF Moves, redis
<1>9. CASE HitBurst(d)
  BY <1>9, <1>a, <1>b, HitBurstMoves, RevokeMove DEF Moves
<1>10. CASE HitWindow(d)
  BY <1>10, <1>a, <1>b, HitWindowMoves, RevokeMove DEF Moves
<1>11. CASE LimiterFails(d)
  BY <1>11, <1>a, <1>b, LimiterFailsMoves, RevokeMove DEF Moves
<1>. QED  BY <1>1, <1>2, <1>3, <1>4, <1>5, <1>6, <1>7, <1>8, <1>9, <1>10, <1>11 DEF DeliveryStep

(* the UPDATE: what is active now was read before *)
LEMMA RevokeRevoke ==
    ASSUME Base, RevokeInv, NEW k \in Keys, RevokeKey(k)
    PROVE  RevokeInv'
<1>a. /\ UNCHANGED <<clock, gate, keyCache, raced>>
      /\ rows' = [rows EXCEPT ![k] = "revoked"]
      /\ revokedAt' = [revokedAt EXCEPT ![k] = IF revokedAt[k] = None THEN clock ELSE revokedAt[k]]
      /\ evicting' = [evicting EXCEPT ![k] = TRUE]
  BY DEF RevokeKey, SetRevoked, redis
<1>b. /\ clock \in Nat /\ CacheTTL \in Nat /\ CacheTTL > 0 /\ MaxDelay \in Nat
      /\ rows \in [Keys -> {"active", "revoked", None}]
      /\ revokedAt \in [Keys -> (0..MaxClock) \cup {None}]
      /\ evicting \in [Keys -> BOOLEAN]
  BY Numbers, CacheTTLAssumption DEF Base, TypeOK
<1>c. \A j \in Keys \ {k} : rows'[j] = rows[j] /\ revokedAt'[j] = revokedAt[j]
                            /\ evicting'[j] = evicting[j]
  BY <1>a, <1>b
<1>d. rows'[k] = "revoked" /\ evicting'[k] = TRUE
      /\ revokedAt'[k] = IF revokedAt[k] = None THEN clock ELSE revokedAt[k]
  BY <1>a, <1>b
<1>1. revokedAt'[k] \in 0..clock
  BY <1>b, <1>d DEF RevokeInv, StatusDated
<1>2. StatusDated'
  BY <1>a, <1>c, <1>d, <1>1 DEF RevokeInv, StatusDated
<1>3. CacheDated'
  BY <1>a DEF RevokeInv, CacheDated
<1>4. Stale(k)'
  <2>1. CASE rows[k] = "revoked"
    <3>1. Stale(k) /\ revokedAt[k] \in Nat /\ revokedAt[k] <= clock
      BY <2>1 DEF RevokeInv, StatusDated
    <3>2. revokedAt'[k] \in Nat /\ revokedAt[k] <= revokedAt'[k]
      BY <3>1, <1>b, <1>d
    <3>3. \A d \in Deliveries : gate[d].at \in Nat
      BY DEF Base, TypeOK, Delivery
    <3>4. keyCache[k] # None => keyCache[k].exp \in Nat
      BY DEF Base, TypeOK
    <3>5. \A d \in Deliveries : Filling(d, k)' => gate'[d].at <= revokedAt'[k]
      BY <1>a, <3>1, <3>2, <3>3 DEF Stale, Filling, Key
    <3>6. \A d \in Deliveries :
            gate'[d].pc \in InFlight /\ Key(d)' = k /\ gate'[d].rec = "active" =>
               gate'[d].at < revokedAt'[k] + MaxDelay + CacheTTL
      BY <1>a, <1>b, <3>1, <3>2, <3>3 DEF Stale, Key
    <3>7. keyCache'[k] # None /\ keyCache'[k].status = "active" =>
               keyCache'[k].exp <= revokedAt'[k] + MaxDelay + CacheTTL
      BY <1>a, <1>b, <3>1, <3>2, <3>4 DEF Stale
    <3>. QED  BY <1>d, <3>5, <3>6, <3>7 DEF Stale
  <2>2. CASE rows[k] # "revoked"
    <3>1. revokedAt'[k] = clock
      BY <2>2, <1>d DEF RevokeInv, StatusDated
    <3>2. \A d \in Deliveries : gate[d].at \in Nat /\ gate[d].at <= clock
      BY DEF Base, TypeOK, Delivery, Timely
    <3>3. keyCache[k] # None => keyCache[k].exp \in Nat /\ keyCache[k].exp <= clock + CacheTTL
      BY DEF Base, TypeOK, RevokeInv, CacheDated
    <3>4. \A d \in Deliveries : gate[d].at < clock + MaxDelay + CacheTTL
      BY <1>b, <3>2
    <3>5. keyCache[k] # None => keyCache[k].exp <= clock + MaxDelay + CacheTTL
      BY <1>b, <3>3
    <3>. QED  BY <1>a, <1>d, <3>1, <3>2, <3>4, <3>5 DEF Stale
  <2>. QED  BY <2>1, <2>2
<1>5. ASSUME NEW j \in Keys \ {k}, rows'[j] = "revoked"  PROVE Stale(j)'
  <2>1. Stale(j)
    BY <1>5, <1>c DEF RevokeInv
  <2>2. \A d \in Deliveries : Filling(d, j)' = Filling(d, j) /\ Key(d)' = Key(d)
    BY <1>a DEF Filling, Key
  <2>. QED  BY <1>a, <1>c, <2>1, <2>2 DEF Stale
<1>. QED  BY <1>2, <1>3, <1>4, <1>5 DEF RevokeInv

(* the DEL: whoever is about to cache the old row is noted *)
LEMMA RevokeEvict ==
    ASSUME Base, RevokeInv, NEW k \in Keys, Evict(k)
    PROVE  RevokeInv'
<1>a. /\ UNCHANGED <<clock, gate, rows, revokedAt>>
      /\ keyCache' = [keyCache EXCEPT ![k] = None]
      /\ evicting' = [evicting EXCEPT ![k] = FALSE]
      /\ raced' = [raced EXCEPT ![k] = \E d \in Deliveries : Filling(d, k)]
  BY DEF Evict, CacheDel, Filling
<1>b. /\ keyCache \in [Keys -> [status : {"active", "revoked"}, exp : Nat] \cup {None}]
      /\ evicting \in [Keys -> BOOLEAN] /\ raced \in [Keys -> BOOLEAN]
  BY DEF Base, TypeOK
<1>c. \A j \in Keys \ {k} : keyCache'[j] = keyCache[j] /\ raced'[j] = raced[j]
                            /\ evicting'[j] = evicting[j]
  BY <1>a, <1>b
<1>d. keyCache'[k] = None /\ raced'[k] = \E d \in Deliveries : Filling(d, k)
  BY <1>a, <1>b
<1>e. \A j \in Keys, d \in Deliveries : Filling(d, j)' = Filling(d, j) /\ Key(d)' = Key(d)
  BY <1>a DEF Filling, Key
<1>1. StatusDated' /\ CacheDated'
  BY <1>a, <1>c, <1>d DEF RevokeInv, StatusDated, CacheDated
<1>2. ASSUME rows[k] = "revoked"  PROVE Stale(k)'
  <2>1. Stale(k)
    BY <1>2 DEF RevokeInv
  <2>. QED  BY <1>a, <1>d, <1>e, <2>1 DEF Stale
<1>3. ASSUME NEW j \in Keys \ {k}, rows[j] = "revoked"  PROVE Stale(j)'
  <2>1. Stale(j)
    BY <1>3 DEF RevokeInv
  <2>. QED  BY <1>a, <1>c, <1>e, <2>1 DEF Stale
<1>. QED  BY <1>a, <1>1, <1>2, <1>3 DEF RevokeInv

(* every step of key management *)
LEMMA RevokeAdmin ==
    ASSUME Base, RevokeInv, NEW k \in Keys, AdminStep(k)
    PROVE  RevokeInv'
<1>a. /\ rows \in [Keys -> {"active", "revoked", None}]
      /\ evicting \in [Keys -> BOOLEAN] /\ raced \in [Keys -> BOOLEAN]
  BY DEF Base, TypeOK
<1>1. CASE NewKey(k)
  <2>1. /\ UNCHANGED <<clock, gate, keyCache, revokedAt, evicting, raced>>
        /\ rows' = [rows EXCEPT ![k] = "active"] /\ rows[k] = None
    BY <1>1 DEF NewKey, InsertKey, redis
  <2>2. \A j \in Keys : rows'[j] = "revoked" => rows[j] = "revoked"
    BY <2>1, <1>a
  <2>3. \A j \in Keys : rows'[j] # "revoked" => rows[j] # "revoked"
    BY <2>1, <1>a, NoneAssumption
  <2>4. StatusDated' /\ CacheDated'
    BY <2>1, <2>2, <2>3 DEF RevokeInv, StatusDated, CacheDated
  <2>5. \A j \in Keys : Stale(j) => Stale(j)'
    BY <2>1 DEF Stale, Filling, Key
  <2>. QED  BY <2>2, <2>4, <2>5 DEF RevokeInv
<1>2. CASE EvictFails(k)
  <2>1. /\ UNCHANGED <<clock, gate, keyCache, revokedAt, rows>>
        /\ evicting' = [evicting EXCEPT ![k] = FALSE]
        /\ raced' = [raced EXCEPT ![k] = TRUE]
    BY <1>2 DEF EvictFails, redis
  <2>2. raced'[k] = TRUE
    BY <2>1, <1>a
  <2>3. \A j \in Keys \ {k} : evicting'[j] = evicting[j] /\ raced'[j] = raced[j]
    BY <2>1, <1>a
  <2>4. \A j \in Keys, d \in Deliveries : Filling(d, j)' = Filling(d, j) /\ Key(d)' = Key(d)
    BY <2>1 DEF Filling, Key
  <2>5. ASSUME NEW j \in Keys, Stale(j)  PROVE Stale(j)'
    <3>1. CASE j = k
      BY <3>1, <2>1, <2>2, <2>4, <2>5 DEF Stale
    <3>2. CASE j # k
      BY <3>2, <2>1, <2>3, <2>4, <2>5 DEF Stale
    <3>. QED  BY <3>1, <3>2
  <2>6. StatusDated' /\ CacheDated'
    BY <2>1 DEF RevokeInv, StatusDated, CacheDated
  <2>. QED  BY <2>1, <2>5, <2>6 DEF RevokeInv
<1>. QED  BY <1>1, <1>2, RevokeRevoke, RevokeEvict DEF AdminStep, CreateKey, ProvisionKey

(* a second passes, and the cache drops what has expired *)
LEMMA RevokeTick ==
    ASSUME Base, RevokeInv, Tick
    PROVE  RevokeInv'
<1>a. /\ UNCHANGED <<gate, rows, revokedAt, evicting, raced>>
      /\ clock \in Nat /\ clock' = clock + 1 /\ CacheTTL \in Nat
      /\ keyCache' = [k \in Keys |-> IF keyCache[k] # None /\ Live(keyCache[k].exp)
                                      THEN keyCache[k] ELSE None]
  BY Numbers DEF Tick, Base, TypeOK, admin
<1>b. \A k \in Keys : keyCache'[k] # None =>
          keyCache[k] # None /\ keyCache'[k] = keyCache[k] /\ clock + 1 < keyCache[k].exp
  BY <1>a DEF Live
<1>c. \A k \in Keys : keyCache[k] # None => keyCache[k].exp \in Nat
  BY DEF Base, TypeOK
<1>1. StatusDated'
  <2>1. 0..clock \subseteq 0..clock'
    BY <1>a
  <2>. QED  BY <1>a, <2>1 DEF RevokeInv, StatusDated
<1>2. CacheDated'
  <2>. SUFFICES ASSUME NEW k \in Keys, keyCache'[k] # None
                PROVE  clock' < keyCache'[k].exp /\ keyCache'[k].exp <= clock' + CacheTTL
    BY DEF CacheDated
  <2>1. keyCache[k] # None /\ keyCache'[k] = keyCache[k] /\ clock + 1 < keyCache[k].exp
        /\ keyCache[k].exp \in Nat /\ keyCache[k].exp <= clock + CacheTTL
    BY <1>b, <1>c DEF RevokeInv, CacheDated
  <2>. QED  BY <1>a, <2>1
<1>3. ASSUME NEW k \in Keys, rows[k] = "revoked"  PROVE Stale(k)'
  <2>1. Stale(k)
    BY <1>3 DEF RevokeInv
  <2>2. \A d \in Deliveries : Filling(d, k)' = Filling(d, k) /\ Key(d)' = Key(d)
    BY <1>a DEF Filling, Key
  <2>. QED  BY <1>a, <1>b, <1>3, <2>1, <2>2 DEF Stale
<1>. QED  BY <1>a, <1>1, <1>2, <1>3 DEF RevokeInv

(* every step *)
LEMMA NextRevoke == Base /\ RevokeInv /\ [Next]_vars => RevokeInv'
<1>1. ASSUME RevokeInv, UNCHANGED vars  PROVE RevokeInv'
  <2>1. UNCHANGED <<clock, gate, keyCache, rows, revokedAt, evicting, raced>>
    BY <1>1 DEF vars, redis, admin
  <2>2. StatusDated' /\ CacheDated'
    BY <1>1, <2>1 DEF RevokeInv, StatusDated, CacheDated
  <2>3. \A k \in Keys : Stale(k) => Stale(k)'
    BY <2>1 DEF Stale, Filling, Key
  <2>. QED  BY <1>1, <2>1, <2>2, <2>3 DEF RevokeInv
<1>. QED  BY <1>1, RevokeDelivery, RevokeAdmin, RevokeTick DEF Next

-----------------------------------------------------------------------------
(* The limiter.  For as long as a second or minute can still be hit, its   *)
(* counter has not expired and counts at least all that it let through; it *)
(* never counts more than what it let through until it begins to refuse.   *)

Passed(k, t) == InSecond(k, t, PastBurst)
Served(k, m) == InMinute(k, m, {"served"})

BurstOK(k, t) ==
    LET c == burst[k][t]
    IN  /\ c.n > 0 => c.exp >= t + 2
        /\ clock <= t + 1 => Cardinality(Metered(Passed(k, t))) <= c.n
        /\ Cardinality(Metered(Passed(k, t))) <= PerSecond
        /\ Cardinality(Passed(k, t)) >= c.n \/ Cardinality(Passed(k, t)) >= PerSecond
        /\ InSecond(k, t, {"limited_burst"}) # {} => Cardinality(Passed(k, t)) >= PerSecond

WindowOK(k, m) ==
    LET c == window[k][m]
    IN  /\ c.n > 0 => c.exp >= m * MinuteLen + MinuteLen + 1
        /\ clock <= m * MinuteLen + MinuteLen => Cardinality(Metered(Served(k, m))) <= c.n
        /\ Cardinality(Metered(Served(k, m))) <= PerMinute
        /\ Cardinality(Served(k, m)) >= c.n \/ Cardinality(Served(k, m)) >= PerMinute
        /\ InMinute(k, m, {"limited_window"}) # {} => Cardinality(Served(k, m)) >= PerMinute

LimiterInv == \A k \in Keys, t \in 0..MaxClock : BurstOK(k, t) /\ WindowOK(k, t)

(* sets of deliveries are finite *)
LEMMA Finite ==
    ASSUME NEW S \in SUBSET Deliveries
    PROVE  IsFiniteSet(S) /\ Cardinality(S) \in Nat
BY DeliveriesAssumption, FS_Subset, FS_CardinalityType

(* one delivery more makes at most one more *)
LEMMA OneMore ==
    ASSUME NEW S \in SUBSET Deliveries, NEW T \in SUBSET Deliveries, NEW d, T \subseteq S \cup {d}
    PROVE  Cardinality(T) <= Cardinality(S) + 1
<1>1. IsFiniteSet(S) /\ IsFiniteSet(T) /\ Cardinality(S) \in Nat /\ Cardinality(T) \in Nat
  BY Finite
<1>2. IsFiniteSet(S \cup {d}) /\ Cardinality(S \cup {d}) <= Cardinality(S) + 1
  BY <1>1, FS_AddElement
<1>3. Cardinality(T) <= Cardinality(S \cup {d}) /\ Cardinality(S \cup {d}) \in Nat
  BY <1>2, FS_Subset, FS_CardinalityType
<1>. QED  BY <1>1, <1>2, <1>3

(* and exactly one if it was not there *)
LEMMA OneNew ==
    ASSUME NEW S \in SUBSET Deliveries, NEW T \in SUBSET Deliveries,
           NEW d \in Deliveries, d \notin S, S \cup {d} \subseteq T
    PROVE  Cardinality(T) >= Cardinality(S) + 1
<1>1. IsFiniteSet(S) /\ IsFiniteSet(T) /\ Cardinality(S) \in Nat /\ Cardinality(T) \in Nat
  BY Finite
<1>2. Cardinality(S \cup {d}) = Cardinality(S) + 1
  BY <1>1, FS_AddElement
<1>3. Cardinality(S \cup {d}) <= Cardinality(T)
  BY <1>1, FS_Subset
<1>. QED  BY <1>1, <1>2, <1>3

(* more deliveries are not fewer *)
LEMMA Monotone ==
    ASSUME NEW S \in SUBSET Deliveries, NEW T \in SUBSET Deliveries, S \subseteq T
    PROVE  Cardinality(S) <= Cardinality(T)
BY Finite, FS_Subset

(* the sets of the limiter are sets of deliveries *)
LEMMA Sets ==
    /\ \A k, t, pcs : InSecond(k, t, pcs) \in SUBSET Deliveries
                    /\ Metered(InSecond(k, t, pcs)) \in SUBSET Deliveries
    /\ \A k, t, pcs : InMinute(k, t, pcs) \in SUBSET Deliveries
                    /\ Metered(InMinute(k, t, pcs)) \in SUBSET Deliveries
BY DEF InSecond, InMinute, Metered

(* at the start *)
LEMMA InitLimiter == Init => LimiterInv
<1> SUFFICES ASSUME Init, NEW k \in Keys, NEW t \in 0..MaxClock
             PROVE  BurstOK(k, t) /\ WindowOK(k, t)
  BY DEF LimiterInv
<1>1. burst[k][t].n = 0 /\ window[k][t].n = 0
  BY DEF Init, NoCount
<1>2. /\ Passed(k, t) = {} /\ Metered(Passed(k, t)) = {} /\ InSecond(k, t, {"limited_burst"}) = {}
      /\ Served(k, t) = {} /\ Metered(Served(k, t)) = {} /\ InMinute(k, t, {"limited_window"}) = {}
  BY DEF Init, Passed, Served, InSecond, InMinute, Metered, PastBurst
<1>3. Cardinality({}) = 0
  BY FS_EmptySet
<1>4. BurstOK(k, t)
  BY <1>1, <1>2, <1>3, Numbers DEF BurstOK
<1>5. WindowOK(k, t)
  <2>1. ~(window[k][t].n > 0)
    BY <1>1
  <2>2. Cardinality(Metered(Served(k, t))) <= window[k][t].n
    BY <1>1, <1>2, <1>3
  <2>3. Cardinality(Metered(Served(k, t))) <= PerMinute
    BY <1>2, <1>3, Numbers
  <2>4. Cardinality(Served(k, t)) >= window[k][t].n
    BY <1>1, <1>2, <1>3
  <2>. QED  BY <2>1, <2>2, <2>3, <2>4, <1>2, Zenon DEF WindowOK
<1>. QED  BY <1>4, <1>5

(* the property is part of the invariant *)
LEMMA LimiterInvImplies == LimiterInv => LimiterExact
<1> SUFFICES ASSUME LimiterInv, NEW k \in Keys, NEW t \in 0..MaxClock
             PROVE  /\ Cardinality(Metered(InSecond(k, t, {"served"}))) <= PerSecond
                    /\ InSecond(k, t, {"limited_burst"}) # {} =>
                          Cardinality(InSecond(k, t, PastBurst)) >= PerSecond
                    /\ Cardinality(Metered(InMinute(k, t, {"served"}))) <= PerMinute
                    /\ InMinute(k, t, {"limited_window"}) # {} =>
                          Cardinality(InMinute(k, t, {"served"})) >= PerMinute
  BY DEF LimiterExact
<1>1. BurstOK(k, t) /\ WindowOK(k, t)
  BY DEF LimiterInv
<1>2. Metered(InSecond(k, t, {"served"})) \subseteq Metered(Passed(k, t))
  BY DEF Metered, InSecond, Passed, PastBurst
<1>3. Cardinality(Metered(InSecond(k, t, {"served"}))) <= Cardinality(Metered(Passed(k, t)))
  BY <1>2, Sets, Monotone DEF Passed
<1>4. /\ Cardinality(Metered(InSecond(k, t, {"served"}))) \in Nat
      /\ Cardinality(Metered(Passed(k, t))) \in Nat
  BY Sets, Finite DEF Passed
<1>5. Cardinality(Metered(InSecond(k, t, {"served"}))) <= PerSecond
  BY <1>1, <1>3, <1>4, Numbers DEF BurstOK
<1>. QED  BY <1>1, <1>5 DEF BurstOK, WindowOK, Passed, Served

(* the sets of a key and time change only by what its deliveries do *)
Unmoved(d) ==
    \/ gate[d] = gate'[d]
    \/ /\ gate[d].pc \notin PastBurst \cup {"limited_burst"}
       /\ gate'[d].pc \notin PastBurst \cup {"limited_burst"}

(* a step that has nothing to do with the limiter *)
LEMMA LimiterQuiet ==
    ASSUME Base, LimiterInv, clock' = clock, UNCHANGED <<burst, window>>,
           \A d \in Deliveries : Unmoved(d)
    PROVE  LimiterInv'
<1> SUFFICES ASSUME NEW k \in Keys, NEW t \in 0..MaxClock
             PROVE  BurstOK(k, t)' /\ WindowOK(k, t)'
  BY DEF LimiterInv
<1>1. /\ Passed(k, t)' = Passed(k, t)
      /\ InSecond(k, t, {"limited_burst"})' = InSecond(k, t, {"limited_burst"})
      /\ Metered(Passed(k, t))' = Metered(Passed(k, t))
  BY DEF Unmoved, Passed, InSecond, Metered, Key, PastBurst
<1>2. /\ Served(k, t)' = Served(k, t)
      /\ InMinute(k, t, {"limited_window"})' = InMinute(k, t, {"limited_window"})
      /\ Metered(Served(k, t))' = Metered(Served(k, t))
  BY DEF Unmoved, Served, InMinute, Metered, Key, PastBurst
<1>3. BurstOK(k, t) /\ WindowOK(k, t)
  BY DEF LimiterInv
<1>. QED  BY <1>1, <1>2, <1>3 DEF BurstOK, WindowOK

(* the burst layer, for the second of the delivery that moves *)
LEMMA BurstCounts ==
    ASSUME Base, LimiterInv, NEW d \in Deliveries, clock' = clock,
           gate[d].pc = "burst", CountBurst(d) \/ UNCHANGED burst,
           \A e \in Deliveries \ {d} : gate'[e] = gate[e],
           gate'[d].msg = gate[d].msg, gate'[d].now = gate[d].now,
           \/ /\ gate'[d].pc = "limited_burst" /\ CountBurst(d)
              /\ BurstCount(d).n > PerSecond
           \/ /\ gate'[d].pc = "minute" /\ CountBurst(d)
              /\ ~(BurstCount(d).n > PerSecond)
           \/ gate'[d].pc = "served" /\ gate'[d].metered = FALSE,
           NEW k \in Keys, NEW t \in 0..MaxClock
    PROVE  BurstOK(k, t)'
<1>a. /\ Key(d) \in Keys /\ Key(d)' = Key(d) /\ gate[d].now \in 0..MaxClock
      /\ clock \in Nat /\ gate[d].now \in Nat /\ gate[d].now <= clock
      /\ clock <= gate[d].now + 1
  <2>1. Key(d) \in Keys /\ Key(d)' = Key(d) /\ gate[d].now \in 0..MaxClock
    BY MessageFields DEF Base, TypeOK, Arrived, Delivery, Key
  <2>2. clock \in Nat /\ gate[d].now \in Nat /\ gate[d].now <= clock
        /\ clock <= gate[d].now + MaxDelay
    BY Numbers DEF Base, TypeOK, Delivery, Timely
  <2>. QED  BY <2>1, <2>2, LimiterMarginAssumption, Numbers
<1>b. BurstOK(k, t) /\ burst \in [Keys -> [0..MaxClock -> Counter]]
  BY DEF LimiterInv, Base, TypeOK
<1>c. burst[k][t] \in Counter /\ burst[k][t].n \in Nat /\ burst[k][t].exp \in Nat
  BY <1>b DEF Counter
<1>d. \A e \in Deliveries \ {d} : Key(e)' = Key(e)
  BY DEF Key
<1>e. /\ Cardinality(Passed(k, t)) \in Nat /\ Cardinality(Metered(Passed(k, t))) \in Nat
      /\ Cardinality(Passed(k, t)') \in Nat /\ Cardinality(Metered(Passed(k, t))') \in Nat
      /\ Passed(k, t) \in SUBSET Deliveries /\ Metered(Passed(k, t)) \in SUBSET Deliveries
      /\ Passed(k, t)' \in SUBSET Deliveries /\ Metered(Passed(k, t))' \in SUBSET Deliveries
      /\ PerSecond \in Nat
  <2>1. /\ Passed(k, t) \in SUBSET Deliveries /\ Metered(Passed(k, t)) \in SUBSET Deliveries
        /\ Passed(k, t)' \in SUBSET Deliveries /\ Metered(Passed(k, t))' \in SUBSET Deliveries
    BY DEF Passed, InSecond, Metered
  <2>. QED  BY <2>1, Finite, Numbers
<1>1. CASE ~(k = Key(d) /\ t = gate[d].now)
  <2>1. burst'[k][t] = burst[k][t]
    <3>1. CASE UNCHANGED burst
      BY <3>1
    <3>2. CASE CountBurst(d)
      <4>1. burst' = [burst EXCEPT ![Key(d)][gate[d].now] = BurstCount(d)]
        BY <3>2 DEF CountBurst
      <4>2. CASE k # Key(d)
        BY <4>1, <4>2, <1>b
      <4>3. CASE k = Key(d) /\ t # gate[d].now
        BY <4>1, <4>3, <1>a, <1>b
      <4>. QED  BY <4>2, <4>3, <1>1
    <3>. QED  BY <3>1, <3>2
  <2>2. /\ Passed(k, t)' = Passed(k, t)
        /\ InSecond(k, t, {"limited_burst"})' = InSecond(k, t, {"limited_burst"})
        /\ Metered(Passed(k, t))' = Metered(Passed(k, t))
    BY <1>1, <1>a, <1>d DEF Passed, InSecond, Metered, PastBurst
  <2>. QED  BY <2>1, <2>2, <1>b DEF BurstOK
<1>2. CASE k = Key(d) /\ t = gate[d].now
  <2>0. d \notin Passed(k, t) /\ d \notin Metered(Passed(k, t))
    BY DEF Passed, InSecond, PastBurst, Metered
  <2>a. /\ BurstCount(d).n = burst[k][t].n + 1
        /\ BurstCount(d).exp = IF burst[k][t].n = 0 THEN clock + 2 ELSE burst[k][t].exp
    BY <1>2, <1>a, <1>c, IncrType DEF BurstCount
  <2>b. CountBurst(d) => burst'[k][t] = BurstCount(d)
    BY <1>2, <1>a, <1>b DEF CountBurst
  <2>c. burst'[k][t].n > 0 => burst'[k][t].exp >= t + 2
    <3>1. CASE CountBurst(d)
      BY <3>1, <2>a, <2>b, <1>a, <1>b, <1>c, <1>2 DEF BurstOK
    <3>2. CASE UNCHANGED burst
      BY <3>2, <1>b DEF BurstOK
    <3>. QED  BY <3>1, <3>2
  <2>1. CASE gate'[d].pc = "limited_burst" /\ CountBurst(d) /\ BurstCount(d).n > PerSecond
    <3>1. Passed(k, t)' = Passed(k, t) /\ Metered(Passed(k, t))' = Metered(Passed(k, t))
      BY <2>0, <2>1, <1>d DEF Passed, InSecond, Metered, PastBurst
    <3>2. Cardinality(Passed(k, t)) >= PerSecond
      BY <2>1, <2>a, <1>b, <1>c, <1>e DEF BurstOK
    <3>. QED  BY <2>1, <2>a, <2>b, <2>c, <3>1, <3>2, <1>b, <1>c, <1>e DEF BurstOK
  <2>2. CASE gate'[d].pc = "minute" /\ CountBurst(d) /\ ~(BurstCount(d).n > PerSecond)
    <3>1. Passed(k, t) \cup {d} \subseteq Passed(k, t)'
      BY <2>0, <2>2, <1>2, <1>a, <1>d DEF Passed, InSecond, PastBurst
    <3>2. Metered(Passed(k, t))' \subseteq Metered(Passed(k, t)) \cup {d}
      BY <1>d DEF Passed, InSecond, Metered, PastBurst
    <3>3. Cardinality(Passed(k, t)') >= Cardinality(Passed(k, t)) + 1
      BY <3>1, <2>0, <1>e, OneNew
    <3>4. Cardinality(Metered(Passed(k, t))') <= Cardinality(Metered(Passed(k, t))) + 1
      BY <3>2, <1>e, OneMore
    <3>5. Cardinality(Metered(Passed(k, t))) <= burst[k][t].n
      BY <1>a, <1>b, <1>2 DEF BurstOK
    <3>6. InSecond(k, t, {"limited_burst"})' \subseteq InSecond(k, t, {"limited_burst"})
      BY <2>2, <1>d DEF InSecond
    <3>7. /\ burst'[k][t].n = burst[k][t].n + 1
          /\ burst[k][t].n + 1 <= PerSecond
      BY <2>2, <2>a, <2>b, <1>c, <1>e
    <3>8. Cardinality(Passed(k, t)') >= burst'[k][t].n \/ Cardinality(Passed(k, t)') >= PerSecond
      BY <3>3, <3>7, <1>b, <1>c, <1>e DEF BurstOK
    <3>9. InSecond(k, t, {"limited_burst"})' # {} => Cardinality(Passed(k, t)') >= PerSecond
      BY <3>3, <3>6, <1>b, <1>e DEF BurstOK
    <3>10. /\ Cardinality(Metered(Passed(k, t))') <= burst'[k][t].n
           /\ Cardinality(Metered(Passed(k, t))') <= PerSecond
      BY <3>4, <3>5, <3>7, <1>c, <1>e
    <3>. QED  BY <2>c, <3>8, <3>9, <3>10 DEF BurstOK
  <2>3. CASE gate'[d].pc = "served" /\ gate'[d].metered = FALSE
    <3>1. Passed(k, t) \cup {d} \subseteq Passed(k, t)'
      BY <2>0, <2>3, <1>2, <1>a, <1>d DEF Passed, InSecond, PastBurst
    <3>2. Metered(Passed(k, t))' = Metered(Passed(k, t))
      BY <2>0, <2>3, <1>d DEF Passed, InSecond, Metered, PastBurst
    <3>3. Cardinality(Passed(k, t)') >= Cardinality(Passed(k, t)) + 1
      BY <3>1, <2>0, <1>e, OneNew
    <3>6. InSecond(k, t, {"limited_burst"})' \subseteq InSecond(k, t, {"limited_burst"})
      BY <2>3, <1>d DEF InSecond
    <3>7. burst'[k][t].n = burst[k][t].n + 1 \/ burst'[k][t].n = burst[k][t].n
      BY <2>a, <2>b
    <3>8. Cardinality(Passed(k, t)') >= burst'[k][t].n \/ Cardinality(Passed(k, t)') >= PerSecond
      BY <3>3, <3>7, <1>b, <1>c, <1>e DEF BurstOK
    <3>9. InSecond(k, t, {"limited_burst"})' # {} => Cardinality(Passed(k, t)') >= PerSecond
      BY <3>3, <3>6, <1>b, <1>e DEF BurstOK
    <3>10. clock <= t + 1 => Cardinality(Metered(Passed(k, t))) <= burst'[k][t].n
      BY <3>7, <1>b, <1>c, <1>e DEF BurstOK
    <3>. QED  BY <2>c, <3>2, <3>8, <3>9, <3>10, <1>b DEF BurstOK
  <2>. QED  BY <2>1, <2>2, <2>3
<1>. QED  BY <1>1, <1>2

(* the burst layer while the minute layer decides *)
LEMMA BurstPasses ==
    ASSUME Base, LimiterInv, NEW d \in Deliveries, clock' = clock, UNCHANGED burst,
           gate[d].pc = "minute", gate'[d].pc \in {"served", "limited_window"},
           \A e \in Deliveries \ {d} : gate'[e] = gate[e],
           gate'[d].msg = gate[d].msg, gate'[d].now = gate[d].now,
           gate'[d].metered => gate[d].metered,
           NEW k \in Keys, NEW t \in 0..MaxClock
    PROVE  BurstOK(k, t)'
<1>1. \A e \in Deliveries : Key(e)' = Key(e)
  BY DEF Key
<1>2. Passed(k, t)' = Passed(k, t)
  BY <1>1 DEF Passed, InSecond, PastBurst
<1>3. InSecond(k, t, {"limited_burst"})' = InSecond(k, t, {"limited_burst"})
  BY <1>1 DEF InSecond
<1>4. Metered(Passed(k, t))' \subseteq Metered(Passed(k, t))
  <2>1. \A e \in Deliveries : gate'[e].metered => gate[e].metered
    OBVIOUS
  <2>2. Passed(k, t) \subseteq Deliveries
    BY DEF Passed, InSecond
  <2>. QED  BY <1>2, <2>1, <2>2 DEF Metered
<1>5. /\ Metered(Passed(k, t)) \in SUBSET Deliveries /\ Metered(Passed(k, t))' \in SUBSET Deliveries
  BY DEF Passed, InSecond, Metered
<1>6. /\ Cardinality(Metered(Passed(k, t))') <= Cardinality(Metered(Passed(k, t)))
      /\ Cardinality(Metered(Passed(k, t))') \in Nat /\ Cardinality(Metered(Passed(k, t))) \in Nat
  BY <1>4, <1>5, Monotone, Finite
<1>7. BurstOK(k, t) /\ PerSecond \in Nat /\ burst[k][t].n \in Nat
  BY Numbers DEF LimiterInv, Base, TypeOK, Counter
<1>. QED  BY <1>2, <1>3, <1>6, <1>7 DEF BurstOK

(* a minute and its end are numbers *)
LEMMA MinuteNat ==
    ASSUME NEW m \in Nat
    PROVE  m * MinuteLen \in Nat
BY Numbers

(* the minute layer, for the minute of the delivery that moves *)
LEMMA WindowCounts ==
    ASSUME Base, LimiterInv, NEW d \in Deliveries, clock' = clock,
           \A e \in Deliveries \ {d} : gate'[e] = gate[e],
           gate'[d].msg = gate[d].msg, gate'[d].now = gate[d].now,
           gate[d].pc \in {"burst", "minute"}, CountWindow(d) \/ UNCHANGED window,
           \/ gate'[d].pc \in {"minute", "limited_burst"} /\ UNCHANGED window
           \/ /\ gate'[d].pc = "limited_window" /\ CountWindow(d)
              /\ WindowCount(d).n > PerMinute
           \/ /\ gate'[d].pc = "served" /\ CountWindow(d)
              /\ ~(WindowCount(d).n > PerMinute)
           \/ gate'[d].pc = "served" /\ gate'[d].metered = FALSE,
           NEW k \in Keys, NEW m \in 0..MaxClock
    PROVE  WindowOK(k, m)'
<1>. DEFINE now == gate[d].now
           mine == Minute(gate[d].now)
           start == m * MinuteLen
<1>a. /\ Key(d) \in Keys /\ Key(d)' = Key(d) /\ mine \in 0..MaxClock
      /\ clock \in Nat /\ mine * MinuteLen <= clock /\ mine * MinuteLen \in Nat
      /\ clock <= mine * MinuteLen + MinuteLen
  <2>1. Key(d) \in Keys /\ Key(d)' = Key(d) /\ now \in 0..MaxClock
    BY MessageFields DEF Base, TypeOK, Arrived, Delivery, Key
  <2>2. clock \in Nat /\ now \in Nat /\ now <= clock /\ clock <= now + MaxDelay
    BY Numbers DEF Base, TypeOK, Delivery, Timely
  <2>3. /\ mine \in Nat /\ mine <= now /\ mine * MinuteLen <= now
        /\ now < mine * MinuteLen + MinuteLen /\ mine * MinuteLen \in Nat
    BY <2>2, MinuteBounds, MinuteNat
  <2>4. mine \in 0..MaxClock
    BY <2>1, <2>3, Numbers
  <2>. HIDE DEF mine, now
  <2>. QED  BY <2>1, <2>2, <2>3, <2>4, LimiterMarginAssumption, Numbers
<1>b. WindowOK(k, m) /\ window \in [Keys -> [0..MaxClock -> Counter]]
  BY DEF LimiterInv, Base, TypeOK
<1>c. /\ window[k][m] \in Counter /\ window[k][m].n \in Nat /\ window[k][m].exp \in Nat
      /\ start \in Nat /\ MinuteLen \in Nat /\ PerMinute \in Nat
  BY <1>b, Numbers, MinuteNat DEF Counter
<1>d. \A e \in Deliveries \ {d} : Key(e)' = Key(e)
  BY DEF Key
<1>e. /\ Served(k, m) \in SUBSET Deliveries /\ Metered(Served(k, m)) \in SUBSET Deliveries
      /\ Served(k, m)' \in SUBSET Deliveries /\ Metered(Served(k, m))' \in SUBSET Deliveries
  BY DEF Served, InMinute, Metered
<1>f. /\ Cardinality(Served(k, m)) \in Nat /\ Cardinality(Metered(Served(k, m))) \in Nat
      /\ Cardinality(Served(k, m)') \in Nat /\ Cardinality(Metered(Served(k, m))') \in Nat
  BY <1>e, Finite
<1>1. CASE ~(k = Key(d) /\ m = mine) \/ gate'[d].pc \in {"minute", "limited_burst"}
  <2>1. window'[k][m] = window[k][m]
    <3>1. CASE UNCHANGED window
      BY <3>1
    <3>2. CASE CountWindow(d) /\ ~(k = Key(d) /\ m = mine)
      BY <3>2, <1>a, <1>b DEF CountWindow
    <3>. QED  BY <1>1, <3>1, <3>2
  <2>2. /\ Served(k, m)' = Served(k, m)
        /\ InMinute(k, m, {"limited_window"})' = InMinute(k, m, {"limited_window"})
        /\ Metered(Served(k, m))' = Metered(Served(k, m))
    BY <1>1, <1>a, <1>d DEF Served, InMinute, Metered
  <2>. QED  BY <2>1, <2>2, <1>b DEF WindowOK
<1>2. CASE k = Key(d) /\ m = mine /\ gate'[d].pc \notin {"minute", "limited_burst"}
  <2>0. d \notin Served(k, m) /\ d \notin Metered(Served(k, m))
    BY DEF Served, InMinute, Metered
  <2>a. /\ WindowCount(d).n = window[k][m].n + 1
        /\ WindowCount(d).exp = IF window[k][m].n = 0 THEN clock + (MinuteLen + 1)
                                                     ELSE window[k][m].exp
    <3>1. WindowCount(d) = Incr(window[k][m], MinuteLen + 1)
      BY <1>2 DEF WindowCount
    <3>2. MinuteLen + 1 \in Nat
      BY <1>c
    <3>3. window[k][m] \in Counter /\ clock \in Nat
      BY <1>a, <1>c
    <3>4. /\ Incr(window[k][m], MinuteLen + 1).n = window[k][m].n + 1
          /\ Incr(window[k][m], MinuteLen + 1).exp =
                IF window[k][m].n = 0 THEN clock + (MinuteLen + 1) ELSE window[k][m].exp
      BY <3>2, <3>3, IncrType
    <3>. QED  BY <3>1, <3>4
  <2>b. CountWindow(d) => window'[k][m] = WindowCount(d)
    BY <1>2, <1>a, <1>b DEF CountWindow
  <2>d. start <= clock /\ clock <= start + MinuteLen /\ start \in Nat /\ clock \in Nat
    BY <1>2, <1>a, <1>c
  <2>e. window[k][m].n > 0 => window[k][m].exp >= start + MinuteLen + 1
    BY <1>b DEF WindowOK
  <2>c. window'[k][m].n > 0 => window'[k][m].exp >= start + MinuteLen + 1
    <3>. HIDE DEF start
    <3>1. CASE CountWindow(d)
      BY <3>1, <2>a, <2>b, <2>d, <2>e, <1>c
    <3>2. CASE UNCHANGED window
      BY <3>2, <2>e
    <3>. QED  BY <3>1, <3>2
  <2>f. Cardinality(Metered(Served(k, m))) <= window[k][m].n
    BY <1>b, <2>d DEF WindowOK
  <2>g. Cardinality(Served(k, m)) >= window[k][m].n \/ Cardinality(Served(k, m)) >= PerMinute
    BY <1>b DEF WindowOK
  <2>h. InMinute(k, m, {"limited_window"}) # {} => Cardinality(Served(k, m)) >= PerMinute
    BY <1>b DEF WindowOK
  <2>i. Cardinality(Metered(Served(k, m))) <= PerMinute
    BY <1>b DEF WindowOK
  <2>1. CASE gate'[d].pc = "limited_window" /\ CountWindow(d) /\ WindowCount(d).n > PerMinute
    <3>1. Served(k, m)' = Served(k, m) /\ Metered(Served(k, m))' = Metered(Served(k, m))
      BY <2>0, <2>1, <1>d DEF Served, InMinute, Metered
    <3>2. Cardinality(Served(k, m)) >= PerMinute
      BY <2>1, <2>a, <2>g, <1>c, <1>f
    <3>3. Cardinality(Metered(Served(k, m))) <= window'[k][m].n
      BY <2>1, <2>a, <2>b, <2>f, <1>c, <1>f
    <3>. QED  BY <2>c, <2>i, <3>1, <3>2, <3>3 DEF WindowOK
  <2>2. CASE gate'[d].pc = "served" /\ CountWindow(d) /\ ~(WindowCount(d).n > PerMinute)
    <3>1. Served(k, m) \cup {d} \subseteq Served(k, m)'
      BY <2>0, <2>2, <1>2, <1>a, <1>d DEF Served, InMinute
    <3>2. Metered(Served(k, m))' \subseteq Metered(Served(k, m)) \cup {d}
      BY <1>d DEF Served, InMinute, Metered
    <3>3. Cardinality(Served(k, m)') >= Cardinality(Served(k, m)) + 1
      BY <3>1, <2>0, <1>e, OneNew
    <3>4. Cardinality(Metered(Served(k, m))') <= Cardinality(Metered(Served(k, m))) + 1
      BY <3>2, <1>e, OneMore
    <3>6. InMinute(k, m, {"limited_window"})' \subseteq InMinute(k, m, {"limited_window"})
      BY <2>2, <1>d DEF InMinute
    <3>7. window'[k][m].n = window[k][m].n + 1 /\ window[k][m].n + 1 <= PerMinute
      BY <2>2, <2>a, <2>b, <1>c
    <3>8. Cardinality(Served(k, m)') >= window'[k][m].n \/ Cardinality(Served(k, m)') >= PerMinute
      BY <3>3, <3>7, <2>g, <1>c, <1>f
    <3>9. InMinute(k, m, {"limited_window"})' # {} => Cardinality(Served(k, m)') >= PerMinute
      BY <3>3, <3>6, <2>h, <1>c, <1>f
    <3>10. /\ Cardinality(Metered(Served(k, m))') <= window'[k][m].n
           /\ Cardinality(Metered(Served(k, m))') <= PerMinute
      BY <3>4, <3>7, <2>f, <1>c, <1>f
    <3>. QED  BY <2>c, <3>8, <3>9, <3>10 DEF WindowOK
  <2>3. CASE gate'[d].pc = "served" /\ gate'[d].metered = FALSE
    <3>1. Served(k, m) \cup {d} \subseteq Served(k, m)'
      BY <2>0, <2>3, <1>2, <1>a, <1>d DEF Served, InMinute
    <3>2. Metered(Served(k, m))' = Metered(Served(k, m))
      BY <2>0, <2>3, <1>d DEF Served, InMinute, Metered
    <3>3. Cardinality(Served(k, m)') >= Cardinality(Served(k, m)) + 1
      BY <3>1, <2>0, <1>e, OneNew
    <3>6. InMinute(k, m, {"limited_window"})' \subseteq InMinute(k, m, {"limited_window"})
      BY <2>3, <1>d DEF InMinute
    <3>7. window'[k][m].n = window[k][m].n + 1 \/ window'[k][m].n = window[k][m].n
      BY <2>a, <2>b
    <3>8. Cardinality(Served(k, m)') >= window'[k][m].n \/ Cardinality(Served(k, m)') >= PerMinute
      BY <3>3, <3>7, <2>g, <1>c, <1>f
    <3>9. InMinute(k, m, {"limited_window"})' # {} => Cardinality(Served(k, m)') >= PerMinute
      BY <3>3, <3>6, <2>h, <1>c, <1>f
    <3>10. Cardinality(Metered(Served(k, m))) <= window'[k][m].n
      BY <3>7, <2>f, <1>c, <1>f
    <3>. QED  BY <2>c, <2>i, <3>2, <3>8, <3>9, <3>10 DEF WindowOK
  <2>. QED  BY <2>1, <2>2, <2>3, <1>2
<1>. QED  BY <1>1, <1>2

(* every step of a delivery *)
LEMMA LimiterDelivery ==
    ASSUME Base, LimiterInv, NEW d \in Deliveries, DeliveryStep(d)
    PROVE  LimiterInv'
<1>1. ASSUME NEW m \in Messages, Arrive(d, m)  PROVE LimiterInv'
  BY <1>1, ArriveMoves, LimiterQuiet DEF Moves, Quiet, redis, Unmoved, PastBurst
<1>2. CASE LookupCache(d)
  BY <1>2, LookupCacheMoves, LimiterQuiet DEF Moves, Quiet, redis, Unmoved, PastBurst
<1>3. CASE LookupSource(d)
  BY <1>3, LookupSourceMoves, LimiterQuiet DEF Moves, Quiet, redis, Unmoved, PastBurst
<1>4. CASE FillCache(d)
  BY <1>4, FillCacheMoves, LimiterQuiet DEF Moves, Quiet, Unmoved, PastBurst
<1>5. CASE Verify(d)
  BY <1>5, VerifyMoves, LimiterQuiet DEF Moves, Quiet, redis, Unmoved, PastBurst
<1>6. CASE Remember(d)
  BY <1>6, RememberMoves, LimiterQuiet DEF Moves, Quiet, Unmoved, PastBurst
<1>7. CASE AuthUnavailable(d)
  BY <1>7, AuthUnavailableMoves, LimiterQuiet DEF Moves, Quiet, redis, Unmoved, PastBurst
<1>8. CASE ReadTime(d)
  BY <1>8, ReadTimeMoves, LimiterQuiet DEF Moves, Quiet, redis, Unmoved, PastBurst
<1>9. CASE HitBurst(d)
  <2>1. ASSUME NEW k \in Keys, NEW t \in 0..MaxClock  PROVE BurstOK(k, t)'
    BY <1>9, HitBurstMoves, BurstCounts DEF Moves, Keeps, Quiet
  <2>2. ASSUME NEW k \in Keys, NEW t \in 0..MaxClock  PROVE WindowOK(k, t)'
    BY <1>9, HitBurstMoves, WindowCounts DEF Moves, Keeps, Quiet
  <2>. QED  BY <2>1, <2>2 DEF LimiterInv
<1>10. CASE HitWindow(d)
  <2>1. ASSUME NEW k \in Keys, NEW t \in 0..MaxClock  PROVE BurstOK(k, t)'
    BY <1>10, HitWindowMoves, BurstPasses DEF Moves, Keeps, Quiet
  <2>2. ASSUME NEW k \in Keys, NEW t \in 0..MaxClock  PROVE WindowOK(k, t)'
    BY <1>10, HitWindowMoves, WindowCounts DEF Moves, Keeps, Quiet
  <2>. QED  BY <2>1, <2>2 DEF LimiterInv
<1>11. CASE LimiterFails(d)
  <2>1. ASSUME NEW k \in Keys, NEW t \in 0..MaxClock  PROVE BurstOK(k, t)'
    <3>1. CASE gate[d].pc = "burst"
      BY <1>11, <3>1, LimiterFailsMoves, BurstCounts DEF Moves, Quiet
    <3>2. CASE gate[d].pc = "minute"
      BY <1>11, <3>2, LimiterFailsMoves, BurstPasses DEF Moves, Quiet
    <3>. QED  BY <1>11, <3>1, <3>2, LimiterFailsMoves
  <2>2. ASSUME NEW k \in Keys, NEW t \in 0..MaxClock  PROVE WindowOK(k, t)'
    BY <1>11, LimiterFailsMoves, WindowCounts DEF Moves, Quiet
  <2>. QED  BY <2>1, <2>2 DEF LimiterInv
<1>. QED  BY <1>1, <1>2, <1>3, <1>4, <1>5, <1>6, <1>7, <1>8, <1>9, <1>10, <1>11 DEF DeliveryStep

(* a counter expires only when nobody can hit it any more *)
LEMMA LimiterTick ==
    ASSUME Base, LimiterInv, Tick
    PROVE  LimiterInv'
<1> SUFFICES ASSUME NEW k \in Keys, NEW t \in 0..MaxClock
             PROVE  BurstOK(k, t)' /\ WindowOK(k, t)'
  BY DEF LimiterInv
<1>a. /\ gate' = gate /\ clock \in Nat /\ clock' = clock + 1
      /\ burst'[k][t] = IF Live(burst[k][t].exp) THEN burst[k][t] ELSE NoCount
      /\ window'[k][t] = IF Live(window[k][t].exp) THEN window[k][t] ELSE NoCount
  BY DEF Tick, Expire, Base, TypeOK
<1>b. BurstOK(k, t) /\ WindowOK(k, t)
  BY DEF LimiterInv
<1>c. /\ burst[k][t].n \in Nat /\ burst[k][t].exp \in Nat
      /\ window[k][t].n \in Nat /\ window[k][t].exp \in Nat
      /\ t \in Nat /\ t * MinuteLen \in Nat /\ MinuteLen \in Nat
      /\ PerSecond \in Nat /\ PerMinute \in Nat
  BY Numbers, MinuteNat DEF Base, TypeOK, Counter
<1>d. /\ Passed(k, t)' = Passed(k, t)
      /\ InSecond(k, t, {"limited_burst"})' = InSecond(k, t, {"limited_burst"})
      /\ Metered(Passed(k, t))' = Metered(Passed(k, t))
      /\ Served(k, t)' = Served(k, t)
      /\ InMinute(k, t, {"limited_window"})' = InMinute(k, t, {"limited_window"})
      /\ Metered(Served(k, t))' = Metered(Served(k, t))
  BY <1>a DEF Passed, Served, InSecond, InMinute, Metered, Key
<1>e. /\ Cardinality(Passed(k, t)) \in Nat /\ Cardinality(Served(k, t)) \in Nat
      /\ Cardinality(Metered(Passed(k, t))) \in Nat /\ Cardinality(Metered(Served(k, t))) \in Nat
  BY Sets, Finite DEF Passed, Served
<1>1. BurstOK(k, t)'
  <2>1. CASE Live(burst[k][t].exp)
    BY <2>1, <1>a, <1>b, <1>c, <1>d, <1>e DEF BurstOK
  <2>2. CASE ~Live(burst[k][t].exp)
    <3>1. burst'[k][t].n = 0
      BY <2>2, <1>a DEF NoCount
    <3>2. burst[k][t].n > 0 => ~(clock' <= t + 1)
      BY <2>2, <1>a, <1>b, <1>c DEF BurstOK, Live
    <3>3. clock' <= t + 1 => Cardinality(Metered(Passed(k, t))) <= 0
      BY <3>2, <1>a, <1>b, <1>c, <1>e DEF BurstOK
    <3>. QED  BY <3>1, <3>3, <1>b, <1>d, <1>e DEF BurstOK
  <2>. QED  BY <2>1, <2>2
<1>2. WindowOK(k, t)'
  <2>. DEFINE end == t * MinuteLen + MinuteLen
  <2>0. end \in Nat
    BY <1>c
  <2>1. CASE Live(window[k][t].exp)
    <3>1. clock' <= end => clock <= end
      BY <2>0, <1>a
    <3>. QED  BY <2>1, <3>1, <1>a, <1>b, <1>d DEF WindowOK
  <2>2. CASE ~Live(window[k][t].exp)
    <3>1. window'[k][t].n = 0
      BY <2>2, <1>a DEF NoCount
    <3>0. /\ window[k][t].n > 0 => window[k][t].exp >= end + 1
          /\ clock <= end => Cardinality(Metered(Served(k, t))) <= window[k][t].n
      BY <1>b DEF WindowOK
    <3>. HIDE DEF end
    <3>2. window[k][t].n > 0 => ~(clock' <= end)
      BY <2>0, <2>2, <3>0, <1>a, <1>c DEF Live
    <3>3. clock' <= end => Cardinality(Metered(Served(k, t))) <= 0
      BY <2>0, <3>0, <3>2, <1>a, <1>c, <1>e
    <3>. QED  BY <3>1, <3>3, <1>b, <1>d, <1>e DEF WindowOK, end
  <2>. QED  BY <2>1, <2>2
<1>. QED  BY <1>1, <1>2

(* every step *)
LEMMA NextLimiter == Base /\ LimiterInv /\ [Next]_vars => LimiterInv'
<1>1. ASSUME Base, LimiterInv, UNCHANGED <<clock, gate, burst, window>>  PROVE LimiterInv'
  BY <1>1, LimiterQuiet DEF Unmoved
<1>2. ASSUME NEW k \in Keys, AdminStep(k)  PROVE UNCHANGED <<clock, gate, burst, window>>
  BY <1>2 DEF AdminStep, CreateKey, ProvisionKey, NewKey, RevokeKey, Evict, EvictFails, redis
<1>3. UNCHANGED vars => UNCHANGED <<clock, gate, burst, window>>
  BY DEF vars, redis
<1>. QED  BY <1>1, <1>2, <1>3, LimiterDelivery, LimiterTick DEF Next

-----------------------------------------------------------------------------
(* The theorems.                                                           *)

(* Every store, counter and request of the gate keeps its type, whatever   *)
(* arrives, fails, expires or is revoked.                                  *)
THEOREM GateTypeCorrect == Spec => []TypeOK
<1>1. Spec => []Base
  BY InitBase, NextBase, PTL DEF Spec
<1>2. Base => TypeOK
  BY DEF Base
<1>. QED  BY <1>1, <1>2, PTL

(* Authenticate: whatever TTL is configured, an accepted nonce is          *)
(* remembered until its timestamp leaves the skew window; with a margin a  *)
(* signed message is accepted at most once, however often and whenever it  *)
(* arrives; and only the signer uses up a nonce.                           *)
THEOREM SignedIsAcceptedOnce == Spec => []AcceptedOnce
<1>1. Init => Base /\ NonceInv
  BY InitBase, InitNonce
<1>2. (Base /\ NonceInv) /\ [Next]_vars => (Base /\ NonceInv)'
  BY NextBase, NextNonce
<1>3. Base /\ NonceInv => AcceptedOnce
  BY NonceInvImplies
<1>. QED  BY <1>1, <1>2, <1>3, PTL DEF Spec

(* handleRevokeKey against LookupByID: no request is judged by an active   *)
(* record obtained MaxDelay + CacheTTL after the revocation, and none is   *)
(* cached after an eviction that no lookup raced.                          *)
THEOREM RevocationTakesHold == Spec => []RevokedIsRefused
<1>1. Init => Base /\ RevokeInv
  BY InitBase, InitRevoke
<1>2. (Base /\ RevokeInv) /\ [Next]_vars => (Base /\ RevokeInv)'
  BY NextBase, NextRevoke
<1>3. Base /\ RevokeInv => RevokedIsRefused
  BY RevokeInvImplies
<1>. QED  BY <1>1, <1>2, <1>3, PTL DEF Spec

(* Allow: per second and per minute of its clock the limiter lets through  *)
(* what its limits say and refuses nobody before they are reached, for any *)
(* number of concurrent requests.                                          *)
THEOREM LimiterStaysExact == Spec => []LimiterExact
<1>1. Init => Base /\ LimiterInv
  BY InitBase, InitLimiter
<1>2. (Base /\ LimiterInv) /\ [Next]_vars => (Base /\ LimiterInv)'
  BY NextBase, NextLimiter
<1>3. Base /\ LimiterInv => LimiterExact
  BY LimiterInvImplies
<1>. QED  BY <1>1, <1>2, <1>3, PTL DEF Spec

=============================================================================
