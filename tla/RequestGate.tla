----------------------------- MODULE RequestGate -----------------------------
(***************************************************************************)
(* What a request passes before its handler runs: authenticate (the key    *)
(* record through the Redis cache or Postgres, the signature and its       *)
(* timestamp, the nonce) and rateLimit (a per-second and a per-minute      *)
(* counter), racing the creation and revocation of its key.                *)
(*                                                                         *)
(* Every call to Redis or Postgres is an action of its own and time passes *)
(* in between: what the gate read or checked may be stale when it acts on  *)
(* it.  A tick of the clock is a second; Redis drops a key when its TTL    *)
(* has run out.  MaxDelay bounds the time from what a request reads to     *)
(* what it writes on the strength of it (the row and the cache entry, the  *)
(* skew and the nonce, the time and the counters named after it); in the   *)
(* code only the clients' timeouts do.                                     *)
(*                                                                         *)
(* A delivery is one arrival of a message.  The same signed message may    *)
(* arrive several times, and an unsigned one may carry its nonce.          *)
(***************************************************************************)
EXTENDS Integers, FiniteSets

CONSTANTS
    Keys, Nonces,
    Messages,       \* what may arrive: [key, ts, nonce, genuine]
    Deliveries,     \* arrivals, each of one message
    MaxSkew,        \* Config.MaxSkew
    ConfiguredTTL,  \* Config.NonceTTL as configured
    CacheTTL,       \* CachedKeyStore.ttl
    PerSecond,      \* Limits.PerSecond of the keys' tier
    PerMinute,      \* Limits.PerMinute of the keys' tier
    MinuteLen,      \* seconds in a minute
    MaxDelay,       \* bound: seconds from a read to the write that rests on it
    MaxClock,       \* bound: the clock
    MaxRevokes,     \* bound: calls of the revoke endpoint
    None

ASSUME MessagesAssumption ==
    Messages \subseteq [key : Keys, ts : Int, nonce : Nonces, genuine : BOOLEAN]
ASSUME NatAssumption ==
    {MaxSkew, ConfiguredTTL, CacheTTL, MaxDelay, MaxClock, MaxRevokes} \subseteq Nat
ASSUME DeliveriesAssumption == IsFiniteSet(Deliveries)
\* To Redis a TTL of zero is no TTL at all, so a cached record has a positive one.
ASSUME CacheTTLAssumption == CacheTTL > 0
ASSUME NoneAssumption == None \notin {"active", "revoked"}
\* main wires DefaultTiers, in which no layer is disabled by a zero.
ASSUME PositiveAssumption == {PerSecond, PerMinute, MinuteLen} \subseteq Nat \ {0}

\* New: the configured TTL, but at least twice the skew.
NonceTTL == IF ConfiguredTTL < 2 * MaxSkew THEN 2 * MaxSkew ELSE ConfiguredTTL

\* A counter outlives its second or minute by a second, so a request must reach
\* both within a second of reading the time that names them.
ASSUME LimiterMarginAssumption == MaxDelay < 2

VARIABLES
    clock,
    rows,       \* api_keys: the status of each key
    revokedAt,  \* when each key was first revoked
    keyCache,   \* authkey: entries, with their expiry
    nonces,     \* authnonce: entries, with their expiry
    burst,      \* rl:sec: counters
    window,     \* rl:min: counters
    gate,       \* the deliveries
    evicting,   \* revocations that have still to evict the cache
    raced,      \* keys that a lookup may cache as active after the eviction
    revokes

redis == <<keyCache, nonces, burst, window>>
admin == <<rows, revokedAt, evicting, raced, revokes>>
vars  == <<clock, redis, admin, gate>>

InFlight == {"lookup", "source", "fill", "verify", "remember", "limit",
             "burst", "minute"}

Answers == {"served", "unauthorized", "forbidden", "replay", "unavailable",
            "limited_burst", "limited_window"}

(***************************************************************************)
(* A delivery: its next step or its answer, the status of the key record   *)
(* it holds, the time at which it got that record or checked the skew, the *)
(* time the limiter read, and whether the limiter's store answered (if it  *)
(* does not, the request is let through).                                  *)
(***************************************************************************)
Delivery == [pc : {"new"} \cup InFlight \cup Answers,
             msg : Messages \cup {None}, rec : {"active", "revoked", None},
             at : 0..MaxClock, now : 0..MaxClock, metered : BOOLEAN]

Counter == [n : Nat, exp : Nat]
NoCount == [n |-> 0, exp |-> 0]

TypeOK ==
    /\ clock \in 0..MaxClock
    /\ rows \in [Keys -> {"active", "revoked", None}]
    /\ revokedAt \in [Keys -> (0..MaxClock) \cup {None}]
    /\ keyCache \in [Keys -> [status : {"active", "revoked"}, exp : Nat] \cup {None}]
    /\ nonces \in [Keys \X Nonces -> Nat]
    /\ burst \in [Keys -> [0..MaxClock -> Counter]]
    /\ window \in [Keys -> [0..MaxClock -> Counter]]
    /\ gate \in [Deliveries -> Delivery]
    /\ evicting \in [Keys -> BOOLEAN]
    /\ raced \in [Keys -> BOOLEAN]
    /\ revokes \in 0..MaxRevokes

Init ==
    /\ clock = 0
    /\ rows = [k \in Keys |-> None]
    /\ revokedAt = [k \in Keys |-> None]
    /\ keyCache = [k \in Keys |-> None]
    /\ nonces = [kn \in Keys \X Nonces |-> 0]
    /\ burst = [k \in Keys |-> [s \in 0..MaxClock |-> NoCount]]
    /\ window = [k \in Keys |-> [m \in 0..MaxClock |-> NoCount]]
    /\ gate = [d \in Deliveries |->
                 [pc |-> "new", msg |-> None, rec |-> None, at |-> 0,
                  now |-> 0, metered |-> TRUE]]
    /\ evicting = [k \in Keys |-> FALSE]
    /\ raced = [k \in Keys |-> FALSE]
    /\ revokes = 0

-----------------------------------------------------------------------------
(* The stores: api_keys in Postgres, cached records, nonces and counters in *)
(* Redis                                                                    *)

SelectKey(k) == rows[k]

InsertKey(k, status) == rows' = [rows EXCEPT ![k] = status]

SetRevoked(k) ==
    /\ rows' = [rows EXCEPT ![k] = "revoked"]
    /\ revokedAt' = [revokedAt EXCEPT ![k] = IF @ = None THEN clock ELSE @]

CacheGet(k) == keyCache[k]

CacheSet(k, status) ==
    keyCache' = [keyCache EXCEPT ![k] = [status |-> status, exp |-> clock + CacheTTL]]

CacheDel(k) == keyCache' = [keyCache EXCEPT ![k] = None]

SetNX(kn) == nonces' = [nonces EXCEPT ![kn] = clock + NonceTTL]

\* incrExpireScript: INCR, and EXPIRE when the counter is new.
Incr(c, ttl) == [n |-> c.n + 1, exp |-> IF c.n = 0 THEN clock + ttl ELSE c.exp]

-----------------------------------------------------------------------------
\* bearerKey and parseKey: the key id a request presents.
Key(d) == gate[d].msg.key

KeyNonce(d) == <<gate[d].msg.key, gate[d].msg.nonce>>

Goto(d, pc) == gate' = [gate EXCEPT ![d].pc = pc]

\* The request goes on, or is answered, and has no more use for the record.
Leave(d, pc) == gate' = [gate EXCEPT ![d].pc = pc, ![d].rec = None, ![d].at = 0]

\* A request arrives, its body is read (a malformed key reaches no store).
Arrive(d, m) ==
    /\ gate[d].pc = "new"
    /\ gate' = [gate EXCEPT ![d].pc = "lookup", ![d].msg = m]
    /\ UNCHANGED <<clock, redis, admin>>

\* CachedKeyStore.LookupByID asks the cache first.
LookupCache(d) ==
    /\ gate[d].pc = "lookup"
    /\ LET hit == CacheGet(Key(d))
       IN  IF hit = None THEN Goto(d, "source")
           ELSE gate' = [gate EXCEPT ![d].pc = "verify", ![d].rec = hit.status,
                                     ![d].at = clock]
    /\ UNCHANGED <<clock, redis, admin>>

\* mutant: a key that is not found is cached as well
LookupSourceNegative(d) ==
    /\ gate[d].pc = "source"
    /\ gate' = [gate EXCEPT ![d].pc = "fill", ![d].rec = rows[Key(d)], ![d].at = clock]
    /\ UNCHANGED <<clock, redis, admin>>

\* On a miss it reads the row; a key it does not find is a 401 and not cached.
LookupSource(d) ==
    /\ gate[d].pc = "source"
    /\ IF SelectKey(Key(d)) = None
       THEN Leave(d, "unauthorized")
       ELSE gate' = [gate EXCEPT ![d].pc = "fill", ![d].rec = SelectKey(Key(d)),
                                 ![d].at = clock]
    /\ UNCHANGED <<clock, redis, admin>>

\* It caches the record it read; a failed write is ignored.
FillCache(d) ==
    /\ gate[d].pc = "fill"
    /\ \/ CacheSet(Key(d), gate[d].rec)
       \/ UNCHANGED keyCache
    /\ Goto(d, "verify")
    /\ UNCHANGED <<clock, nonces, burst, window, admin>>

\* computeMAC over canonicalString: the holder of the key signed this message.
MACMatches(m) == m.genuine

\* verifySignature: the timestamp within the skew, either way, and the MAC.
SignatureValid(m) ==
    /\ clock - m.ts <= MaxSkew
    /\ m.ts - clock <= MaxSkew
    /\ MACMatches(m)

\* Authenticate judges the record, then the signature.
Verify(d) ==
    /\ gate[d].pc = "verify"
    /\ \/ /\ gate[d].rec = "revoked"
          /\ Leave(d, "forbidden")
       \/ /\ gate[d].rec = "active"
          /\ ~SignatureValid(gate[d].msg)
          /\ Leave(d, "unauthorized")
       \/ /\ gate[d].rec = "active"
          /\ SignatureValid(gate[d].msg)
          /\ gate' = [gate EXCEPT ![d].pc = "remember", ![d].rec = None,
                                  ![d].at = clock]
    /\ UNCHANGED <<clock, redis, admin>>

\* mutant: the nonce is kept for the skew, not for the TTL
RememberSkew(d) ==
    /\ gate[d].pc = "remember"
    /\ IF nonces[KeyNonce(d)] # 0
       THEN Leave(d, "replay") /\ UNCHANGED nonces
       ELSE /\ nonces' = [nonces EXCEPT ![KeyNonce(d)] = clock + MaxSkew]
            /\ \E pc \in {"limit", "unavailable"} : Leave(d, pc)
    /\ UNCHANGED <<clock, keyCache, burst, window, admin>>

\* Remember: SET NX with the TTL.  If its answer is lost the gate fails closed.
Remember(d) ==
    /\ gate[d].pc = "remember"
    /\ IF nonces[KeyNonce(d)] # 0
       THEN Leave(d, "replay") /\ UNCHANGED nonces
       ELSE /\ SetNX(KeyNonce(d))
            /\ \E pc \in {"limit", "unavailable"} : Leave(d, pc)
    /\ UNCHANGED <<clock, keyCache, burst, window, admin>>

\* The key cache, the key store or the nonce store errs: fail closed.
AuthUnavailable(d) ==
    /\ gate[d].pc \in {"lookup", "source", "remember"}
    /\ Leave(d, "unavailable")
    /\ UNCHANGED <<clock, redis, admin>>

\* rateLimit: Allow reads the time once; both counters are named after it.
ReadTime(d) ==
    /\ gate[d].pc = "limit"
    /\ gate' = [gate EXCEPT ![d].pc = "burst", ![d].now = clock]
    /\ UNCHANGED <<clock, redis, admin>>

\* The per-second counter of a request, once it is counted.
BurstCount(d) == Incr(burst[Key(d)][gate[d].now], 2)

CountBurst(d) == burst' = [burst EXCEPT ![Key(d)][gate[d].now] = BurstCount(d)]

\* The per-second counter, consumed first.
HitBurst(d) ==
    /\ gate[d].pc = "burst"
    /\ CountBurst(d)
    /\ Goto(d, IF BurstCount(d).n > PerSecond THEN "limited_burst" ELSE "minute")
    /\ UNCHANGED <<clock, keyCache, nonces, window, admin>>

Minute(t) == t \div MinuteLen

\* The per-minute counter of a request, once it is counted.
WindowCount(d) == Incr(window[Key(d)][Minute(gate[d].now)], MinuteLen + 1)

CountWindow(d) == window' = [window EXCEPT ![Key(d)][Minute(gate[d].now)] = WindowCount(d)]

\* mutant: the minute is that of the increment
HitWindowLate(d) ==
    /\ gate[d].pc = "minute"
    /\ LET k == Key(d)
           c == Incr(window[k][Minute(clock)], MinuteLen + 1)
       IN  /\ window' = [window EXCEPT ![k][Minute(clock)] = c]
           /\ Goto(d, IF c.n > PerMinute THEN "limited_window" ELSE "served")
    /\ UNCHANGED <<clock, keyCache, nonces, burst, admin>>

\* The per-minute counter, then the handler or a 429.
HitWindow(d) ==
    /\ gate[d].pc = "minute"
    /\ CountWindow(d)
    /\ Goto(d, IF WindowCount(d).n > PerMinute THEN "limited_window" ELSE "served")
    /\ UNCHANGED <<clock, keyCache, nonces, burst, admin>>

\* The limiter's store errs, before or after counting: fail open.
LimiterFails(d) ==
    /\ \/ /\ gate[d].pc = "burst"
          /\ CountBurst(d) \/ UNCHANGED burst
          /\ UNCHANGED window
       \/ /\ gate[d].pc = "minute"
          /\ CountWindow(d) \/ UNCHANGED window
          /\ UNCHANGED burst
    /\ gate' = [gate EXCEPT ![d].pc = "served", ![d].metered = FALSE]
    /\ UNCHANGED <<clock, keyCache, nonces, admin>>

-----------------------------------------------------------------------------
(* Key management *)

\* NewKey: a key that never existed, active.
NewKey(k) ==
    /\ rows[k] = None
    /\ InsertKey(k, "active")
    /\ UNCHANGED <<clock, redis, gate, revokedAt, evicting, raced, revokes>>

\* handleCreateKey mints a further key of an organisation, behind this same gate.
CreateKey(k) == NewKey(k)

\* handleProvisionKey mints its first one, behind the platform's token.
ProvisionKey(k) == NewKey(k)

\* handleRevokeKey: the UPDATE (again, if the key is already revoked) ...
RevokeKey(k) ==
    /\ revokes < MaxRevokes
    /\ rows[k] # None
    /\ ~evicting[k]
    /\ SetRevoked(k)
    /\ evicting' = [evicting EXCEPT ![k] = TRUE]
    /\ revokes' = revokes + 1
    /\ UNCHANGED <<clock, redis, gate, raced>>

\* mutant: the revocation does not reach the cache
EvictNothing(k) ==
    /\ evicting[k]
    /\ evicting' = [evicting EXCEPT ![k] = FALSE]
    /\ raced' = [raced EXCEPT ![k] = FALSE]
    /\ UNCHANGED <<clock, redis, gate, rows, revokedAt, revokes>>

\* ... and then the DEL of the cached record.
Evict(k) ==
    /\ evicting[k]
    /\ evicting' = [evicting EXCEPT ![k] = FALSE]
    /\ CacheDel(k)
    /\ raced' = [raced EXCEPT ![k] =
                   \E d \in Deliveries : /\ gate[d].pc = "fill"
                                         /\ Key(d) = k
                                         /\ gate[d].rec = "active"]
    /\ UNCHANGED <<clock, nonces, burst, window, gate, rows, revokedAt, revokes>>

\* The DEL fails and is only logged, or the process dies before it.
EvictFails(k) ==
    /\ evicting[k]
    /\ evicting' = [evicting EXCEPT ![k] = FALSE]
    /\ raced' = [raced EXCEPT ![k] = TRUE]
    /\ UNCHANGED <<clock, redis, gate, rows, revokedAt, revokes>>

-----------------------------------------------------------------------------
(* Time passes; Redis drops what has expired. *)
Live(exp) == clock + 1 < exp

Expire(f) == [s \in 0..MaxClock |-> IF Live(f[s].exp) THEN f[s] ELSE NoCount]

Tick ==
    /\ clock < MaxClock
    /\ \A d \in Deliveries :
         /\ gate[d].pc \in {"fill", "remember"} => clock - gate[d].at < MaxDelay
         /\ gate[d].pc \in {"burst", "minute"} => clock - gate[d].now < MaxDelay
    /\ clock' = clock + 1
    /\ keyCache' = [k \in Keys |->
                      IF keyCache[k] # None /\ Live(keyCache[k].exp)
                      THEN keyCache[k] ELSE None]
    /\ nonces' = [kn \in Keys \X Nonces |->
                      IF Live(nonces[kn]) THEN nonces[kn] ELSE 0]
    /\ burst' = [k \in Keys |-> Expire(burst[k])]
    /\ window' = [k \in Keys |-> Expire(window[k])]
    /\ UNCHANGED <<admin, gate>>

-----------------------------------------------------------------------------
DeliveryStep(d) ==
    \/ \E m \in Messages : Arrive(d, m)
    \/ LookupCache(d)
    \/ LookupSource(d)
    \/ FillCache(d)
    \/ Verify(d)
    \/ Remember(d)
    \/ AuthUnavailable(d)
    \/ ReadTime(d)
    \/ HitBurst(d)
    \/ HitWindow(d)
    \/ LimiterFails(d)

AdminStep(k) ==
    CreateKey(k) \/ ProvisionKey(k) \/ RevokeKey(k) \/ Evict(k) \/ EvictFails(k)

Next ==
    \/ \E d \in Deliveries : DeliveryStep(d)
    \/ \E k \in Keys : AdminStep(k)
    \/ Tick

Spec == Init /\ [][Next]_vars

-----------------------------------------------------------------------------
(* Properties *)

\* The deliveries whose nonce was fresh.
Remembered == {"limit", "burst", "minute", "served", "limited_burst", "limited_window"}

(***************************************************************************)
(* The skew check reads the clock before the nonce is remembered.  New     *)
(* makes the TTL twice the skew, the window of valid timestamps, or more,  *)
(* and twice is the default.  This TTL also outlasts the delay between the *)
(* check and SETNX.                                                        *)
(***************************************************************************)
NonceMargin == 2 * MaxSkew + MaxDelay < NonceTTL

(***************************************************************************)
(* Whatever the TTL, the nonce of a signed message that got past the check *)
(* is remembered until its timestamp leaves the skew window.  With a       *)
(* margin the message gets past at most once, however often and whenever   *)
(* it arrives.  And only a signed message consumes a nonce: a message is   *)
(* refused as a replay only if a signed one with that key and nonce came   *)
(* before it.                                                              *)
(***************************************************************************)
AcceptedOnce ==
    \A d \in Deliveries :
        /\ gate[d].pc \in Remembered =>
             /\ clock < gate[d].msg.ts + MaxSkew => nonces[KeyNonce(d)] > clock
             /\ NonceMargin => \A e \in Deliveries \ {d} :
                                 gate[e].msg = gate[d].msg => gate[e].pc \notin Remembered
        /\ gate[d].pc = "replay" =>
             \E e \in Deliveries \ {d} :
                /\ gate[e].pc \in Remembered \cup {"unavailable"}
                /\ KeyNonce(e) = KeyNonce(d)
                /\ gate[e].msg.genuine

(***************************************************************************)
(* Revocation takes hold.  No request is judged by an active record that   *)
(* it obtained MaxDelay + CacheTTL after the revocation or later, even if *)
(* the eviction fails; and once the eviction has succeeded, no active      *)
(* record is cached unless a lookup that had read the row before the       *)
(* revocation was about to cache it.                                       *)
(***************************************************************************)
RevokedIsRefused ==
    \A k \in Keys : rows[k] = "revoked" =>
        /\ \A d \in Deliveries :
              gate[d].pc \in InFlight /\ Key(d) = k /\ gate[d].rec = "active" =>
                  gate[d].at < revokedAt[k] + MaxDelay + CacheTTL
        /\ ~evicting[k] /\ ~raced[k] /\ keyCache[k] # None =>
              keyCache[k].status = "revoked"

\* The deliveries of a key in some states whose limiter read this second, or a
\* second of this minute.
InSecond(k, t, pcs) ==
    {d \in Deliveries : gate[d].pc \in pcs /\ Key(d) = k /\ gate[d].now = t}

InMinute(k, m, pcs) ==
    {d \in Deliveries : gate[d].pc \in pcs /\ Key(d) = k /\ Minute(gate[d].now) = m}

Metered(S) == {d \in S : gate[d].metered}

\* The states of a delivery that the burst layer has let pass.
PastBurst == {"minute", "served", "limited_window"}

(***************************************************************************)
(* While its store answers, the limiter admits at most PerSecond requests  *)
(* of a key with one second of its clock and PerMinute with one minute,    *)
(* and refuses none without cause: a refusal means that as many others of  *)
(* that second or minute were let through, and one refused by the burst    *)
(* layer does not count towards the minute.                                *)
(***************************************************************************)
LimiterExact ==
    \A k \in Keys, t \in 0..MaxClock :
        /\ Cardinality(Metered(InSecond(k, t, {"served"}))) <= PerSecond
        /\ InSecond(k, t, {"limited_burst"}) # {} =>
              Cardinality(InSecond(k, t, PastBurst)) >= PerSecond
        /\ Cardinality(Metered(InMinute(k, t, {"served"}))) <= PerMinute
        /\ InMinute(k, t, {"limited_window"}) # {} =>
              Cardinality(InMinute(k, t, {"served"})) >= PerMinute

=============================================================================
