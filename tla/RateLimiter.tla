----------------------------- MODULE RateLimiter ----------------------------
(***************************************************************************)
(* infrastructure/limiter/limiter.go: the Allow of LocalRateLimiter, a     *)
(* sync.Map of token buckets whose number is capped, and the Allow of      *)
(* RedisRateLimiter, a counter per key with an expiry.  boot.go picks one. *)
(*                                                                         *)
(* Requests run Allow concurrently, one call of the map, the counter or    *)
(* Redis per step.  Wait on a bucket that a drop has just taken out of the *)
(* map is the same as Wait before that drop, so Load and Wait are one step.*)
(* The map is modelled for all keys, the tokens and the Redis counter for  *)
(* one key, Watched, which may be any; for the others Wait and Incr may    *)
(* turn out either way.                                                    *)
(***************************************************************************)
EXTENDS Integers, FiniteSets

CONSTANTS
    Requests,
    Keys,               \* rate limit keys, prefix and client
    maxLimiterEntries,
    Burst,
    Patience,           \* tokens that arrive within Wait's 100 ms
    Limit,              \* Redis: requests per window
    Watched,            \* any one key
    Null

ASSUME LimiterAssumption ==
    /\ IsFiniteSet(Requests)
    /\ maxLimiterEntries \in Nat \ {0}
    /\ Burst \in Nat \ {0}
    /\ Patience \in Nat
    /\ Limit \in Nat \ {0}
    /\ Watched \in Keys
    /\ Null \notin Keys

VARIABLES
    backend,   \* "local" or "redis", fixed at boot
    call,      \* where each request is in Allow
    key,       \* the key it asks for
    canceled,  \* whether its context is done
    held,      \* local: the keys with a bucket in the map
    tokens,    \* local: tokens left to Watched; a bucket yet to be made is full
    entries,   \* local: the atomic counter of buckets
    must,      \* local: what the request's Range has yet to visit
    visited,   \* local: what it has visited
    survivors, \* history: how many buckets were in the map at the last reset
    count,     \* redis: the counter of Watched
    expiring,  \* redis: whether it has an expiry
    leaked     \* history: whether the count of 1 or its Expire has been lost

requestVars == <<backend, key, canceled>>
localVars == <<held, tokens, entries, must, visited, survivors>>
redisVars == <<count, expiring, leaked>>
limiterVars == <<requestVars, call, localVars, redisVars>>

LimiterInit ==
    /\ backend \in {"local", "redis"}
    /\ call = [r \in Requests |-> "out"]
    /\ key = [r \in Requests |-> Null]
    /\ canceled = [r \in Requests |-> FALSE]
    /\ held = {}
    /\ tokens = Burst
    /\ entries = 0
    /\ must = [r \in Requests |-> {}]
    /\ visited = [r \in Requests |-> {}]
    /\ survivors = 0
    /\ count = 0
    /\ expiring = FALSE
    /\ leaked = FALSE

Goto(r, from, to) ==
    /\ call[r] = from
    /\ call' = [call EXCEPT ![r] = to]

-----------------------------------------------------------------------------
(* A request asks and is told.  Its client may hang up at any time; the    *)
(* next request has a context of its own.                                  *)

Ask(r, k) ==
    /\ Goto(r, "out", IF backend = "local" THEN "look" ELSE "incr")
    /\ key' = [key EXCEPT ![r] = k]
    /\ UNCHANGED <<backend, canceled, localVars, redisVars>>

Answer(r, answer) ==
    /\ Goto(r, answer, "out")
    /\ key' = [key EXCEPT ![r] = Null]
    /\ UNCHANGED <<backend, localVars, redisVars>>

HangUp(r) ==
    /\ ~canceled[r]
    /\ canceled' = [canceled EXCEPT ![r] = TRUE]
    /\ UNCHANGED <<backend, key, call, localVars, redisVars>>

NewContext(r) == canceled' = [canceled EXCEPT ![r] = FALSE]

-----------------------------------------------------------------------------
(* LocalRateLimiter.Allow. *)

(* limiters.Load: a key that is known goes straight to its bucket. *)
Look(r) ==
    /\ Goto(r, "look", IF key[r] \in held THEN "store" ELSE "check")
    /\ UNCHANGED <<requestVars, localVars, redisVars>>

(* entries.Load; at the cap Range begins. *)
Check(r) ==
    /\ Goto(r, "check", IF entries >= maxLimiterEntries THEN "drop" ELSE "store")
    /\ must' = [must EXCEPT ![r] = IF entries >= maxLimiterEntries THEN held ELSE {}]
    /\ visited' = [visited EXCEPT ![r] = {}]
    /\ UNCHANGED <<requestVars, held, tokens, entries, survivors, redisVars>>

(* Range visits every key that stays in the map throughout, none twice,    *)
(* and may or may not visit one that is stored meanwhile.                  *)
Drop(r) ==
    /\ call[r] = "drop"
    /\ \E k \in held \ visited[r] :
          /\ held' = held \ {k}
          /\ tokens' = IF k = Watched THEN Burst ELSE tokens
          /\ must' = [q \in Requests |-> must[q] \ {k}]
          /\ visited' = [visited EXCEPT ![r] = @ \cup {k}]
    /\ UNCHANGED <<requestVars, call, entries, survivors, redisVars>>

(* Range ends, entries.Store(0). *)
DropEnds(r) ==
    /\ must[r] = {}
    /\ Goto(r, "drop", "reset")
    /\ visited' = [visited EXCEPT ![r] = {}]
    /\ UNCHANGED <<requestVars, held, tokens, entries, must, survivors, redisVars>>

Reset(r) ==
    /\ Goto(r, "reset", "store")
    /\ entries' = 0
    /\ survivors' = Cardinality(held)
    /\ UNCHANGED <<requestVars, held, tokens, must, visited, redisVars>>

(* Mutant: Store in place of LoadOrStore. *)
StoreAlways(r) ==
    /\ Goto(r, "store", "count")
    /\ held' = held \cup {key[r]}
    /\ tokens' = IF key[r] = Watched THEN Burst ELSE tokens
    /\ UNCHANGED <<requestVars, entries, must, visited, survivors, redisVars>>

(* LoadOrStore. *)
Store(r) ==
    /\ Goto(r, "store", IF key[r] \in held THEN "load" ELSE "count")
    /\ held' = held \cup {key[r]}
    /\ UNCHANGED <<requestVars, tokens, entries, must, visited, survivors, redisVars>>

(* Mutant: new buckets are not counted. *)
CountNothing(r) ==
    /\ Goto(r, "count", "load")
    /\ UNCHANGED <<requestVars, localVars, redisVars>>

Count(r) ==
    /\ Goto(r, "count", "load")
    /\ entries' = entries + 1
    /\ UNCHANGED <<requestVars, held, tokens, must, visited, survivors, redisVars>>

(* The second Load finds the bucket and Wait gets a token in time. *)
Take(r) ==
    /\ Goto(r, "load", "allowed")
    /\ key[r] \in held /\ ~canceled[r]
    /\ key[r] = Watched => tokens > -Patience
    /\ tokens' = IF key[r] = Watched THEN tokens - 1 ELSE tokens
    /\ UNCHANGED <<requestVars, held, entries, must, visited, survivors, redisVars>>

(* The bucket has been dropped meanwhile, is empty, or the client is gone. *)
Refuse(r) ==
    /\ Goto(r, "load", "refused")
    /\ key[r] \in held /\ ~canceled[r] /\ key[r] = Watched => tokens <= -Patience
    /\ UNCHANGED <<requestVars, localVars, redisVars>>

(* Time returns a token. *)
Refill ==
    /\ Watched \in held
    /\ tokens < Burst
    /\ tokens' = tokens + 1
    /\ UNCHANGED <<requestVars, call, held, entries, must, visited, survivors, redisVars>>

-----------------------------------------------------------------------------
(* RedisRateLimiter.Allow. *)

(* Bound: past the limit the counter says no more than "past the limit". *)
OneMore == IF count > Limit THEN count ELSE count + 1

(* Mutant: the expiry is left to the first request past the limit. *)
VerdictExpiresLate(n) == IF n > Limit THEN "expire" ELSE "allowed"

Verdict(n) == IF n = 1 THEN "expire" ELSE IF n <= Limit THEN "allowed" ELSE "refused"

Incr(r) ==
    /\ IF key[r] = Watched
       THEN Goto(r, "incr", Verdict(OneMore)) /\ count' = OneMore
       ELSE (\E n \in 1 .. Limit + 1 : Goto(r, "incr", Verdict(n))) /\ UNCHANGED count
    /\ UNCHANGED <<requestVars, localVars, expiring, leaked>>

(* INCR was carried out, its answer is lost: the client sends it again, as *)
(* go-redis does by default, or gives up (IncrFails).                      *)
IncrLost(r) ==
    /\ call[r] = "incr"
    /\ key[r] = Watched
    /\ count' = OneMore
    /\ leaked' = (leaked \/ count = 0)
    /\ UNCHANGED <<requestVars, call, localVars, expiring>>

(* Redis does not answer, or no longer: the request is refused. *)
IncrFails(r) ==
    /\ Goto(r, "incr", "refused")
    /\ UNCHANGED <<requestVars, localVars, redisVars>>

Expire(r) ==
    /\ Goto(r, "expire", "allowed")
    /\ expiring' = (expiring \/ key[r] = Watched)
    /\ UNCHANGED <<requestVars, localVars, count, leaked>>

(* Its error is discarded. *)
ExpireFails(r) ==
    /\ Goto(r, "expire", "allowed")
    /\ leaked' = (leaked \/ key[r] = Watched)
    /\ UNCHANGED <<requestVars, localVars, count, expiring>>

(* The process dies and is started again; Redis keeps its counters.  (One  *)
(* with a local limiter starts as in LimiterInit.)                         *)
Restart ==
    /\ backend = "redis"
    /\ call' = [r \in Requests |-> "out"]
    /\ key' = [r \in Requests |-> Null]
    /\ canceled' = [r \in Requests |-> FALSE]
    /\ leaked' = (leaked \/ \E r \in Requests : call[r] = "expire" /\ key[r] = Watched)
    /\ UNCHANGED <<backend, localVars, count, expiring>>

(* The window ends. *)
Elapse ==
    /\ expiring
    /\ count' = 0
    /\ expiring' = FALSE
    /\ UNCHANGED <<requestVars, call, localVars, leaked>>

-----------------------------------------------------------------------------
AllowStep(r) ==
    \/ Look(r) \/ Check(r) \/ Drop(r) \/ DropEnds(r) \/ Reset(r)
    \/ Store(r) \/ Count(r) \/ Take(r) \/ Refuse(r)
    \/ Incr(r) \/ IncrLost(r) \/ IncrFails(r) \/ Expire(r) \/ ExpireFails(r)

TimePasses == Refill \/ Elapse

LimiterStep(r) ==
    \/ \E k \in Keys : Ask(r, k)
    \/ \E answer \in {"allowed", "refused"} :
          Answer(r, answer) /\ (UNCHANGED canceled \/ NewContext(r))
    \/ NewContext(r) /\ UNCHANGED <<backend, key, call, localVars, redisVars>>
    \/ HangUp(r)
    \/ AllowStep(r)

LimiterNext == TimePasses \/ Restart \/ \E r \in Requests : LimiterStep(r)

LimiterSpec == LimiterInit /\ [][LimiterNext]_limiterVars

-----------------------------------------------------------------------------
Dropping == \E r \in Requests : call[r] = "drop"

(* The bucket of any key keeps the promise of a token bucket, whatever     *)
(* requests race for the map: racing first requests of a client share one  *)
(* bucket, and what it has spent is forgiven only while the map is dropped.*)
Bucket == INSTANCE TokenBucket WITH
    Full <- Burst + Patience, credit <- tokens + Patience, dropping <- Dropping

ImplementsBucket == Bucket!Spec

(* "caps how many per-client buckets are held": the cap holds but for the  *)
(* requests in flight and the buckets that were stored while the last drop *)
(* was going on, which its reset of the counter forgets.                   *)
MemoryBounded ==
    Cardinality(held) <= survivors + maxLimiterEntries + Cardinality(Requests)

(* A Redis counter without an expiry refuses its client for good.  There   *)
(* is one only while its first request is about to set the expiry, or      *)
(* after that call failed, the answer that said 1 was lost, or the process *)
(* died between the two calls.                                             *)
CounterExpires ==
    count > 0 /\ ~expiring /\ ~leaked
        => \E r \in Requests : call[r] = "expire" /\ key[r] = Watched

-----------------------------------------------------------------------------
(* The inductive invariant behind MemoryBounded: what the counter knows of *)
(* the map, and what the requests past the check are still going to add.   *)

(* The requests about to store a bucket, and to count the one they stored. *)
Storing == {r \in Requests : call[r] = "store"}

Counting == {r \in Requests : call[r] = "count"}

(* The keys with a bucket, and those about to get one. *)
Wanted == held \cup {key[r] : r \in Storing}

(* With Redis nobody is at work on the map. *)
RedisInv ==
    backend = "redis" =>
        \A r \in Requests : call[r] \in {"out", "incr", "expire", "allowed", "refused"}

MemoryInv ==
    /\ DOMAIN call = Requests
    /\ IsFiniteSet(held)
    /\ entries \in Nat
    /\ survivors \in Nat
    /\ Cardinality(held) <= survivors + entries + Cardinality(Counting)
    /\ Cardinality(Wanted) <= survivors + maxLimiterEntries + Cardinality(Requests)

=============================================================================
