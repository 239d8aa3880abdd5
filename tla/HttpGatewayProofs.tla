------------------------- MODULE HttpGatewayProofs --------------------------
(***************************************************************************)
(* The promises of the rate limiter for any number of concurrent requests, *)
(* keys and tokens, and that the middleware chain, which only ever calls   *)
(* Allow, inherits them.                                                   *)
(*                                                                         *)
(* The refinement to a token bucket needs one invariant, TokensInv: a      *)
(* bucket that is not in the map counts as full, so that LoadOrStore gives *)
(* a client nothing it did not have.                                       *)
(***************************************************************************)
EXTENDS HttpGateway, FiniteSetTheorems, TLAPS

TokensInv ==
    /\ tokens \in Int
    /\ -Patience <= tokens /\ tokens <= Burst
    /\ Watched \notin held => tokens = Burst

LEMMA InitTokens == LimiterInit => TokensInv
  BY LimiterAssumption DEF LimiterInit, TokensInv

(* Which steps of the limiter touch the watched bucket, and how. *)
LEMMA StepTokens ==
    ASSUME TokensInv, [LimiterNext]_limiterVars
    PROVE  TokensInv'
<1> USE DEF TokensInv, requestVars, localVars, redisVars, limiterVars
<1>1. CASE TimePasses
  BY <1>1, LimiterAssumption DEF TimePasses, Refill, Elapse
<1>2. CASE \E r \in Requests : LimiterStep(r)
  <2> PICK r \in Requests : LimiterStep(r)
    BY <1>2
  <2>1. CASE Drop(r)
    BY <2>1, LimiterAssumption DEF Drop
  <2>2. CASE Store(r)
    BY <2>2 DEF Store
  <2>3. CASE Take(r)
    BY <2>3, LimiterAssumption DEF Take
  <2>4. CASE AllowStep(r) /\ ~Drop(r) /\ ~Store(r) /\ ~Take(r)
    BY <2>4 DEF AllowStep, Look, Check, DropEnds, Reset, Count, Refuse, Incr, IncrLost, IncrFails, Expire,
                ExpireFails
  <2>5. CASE ~AllowStep(r)
    BY <2>5 DEF LimiterStep, Ask, Answer, HangUp, NewContext
  <2> QED
    BY <2>1, <2>2, <2>3, <2>4, <2>5
<1>3. CASE Restart
  BY <1>3 DEF Restart
<1>4. CASE UNCHANGED limiterVars
  BY <1>4
<1> QED
  BY <1>1, <1>2, <1>3, <1>4 DEF LimiterNext

(* A step that is not Range's own leaves the set of droppers as it is or   *)
(* adds to it or takes from it; the watched bucket is then untouched.      *)
LEMMA StepBucket ==
    ASSUME TokensInv, [LimiterNext]_limiterVars
    PROVE  [Bucket!Next]_(Bucket!vars)
<1> DEFINE Credit == tokens + Patience
<1>0. Dropping \in BOOLEAN /\ Dropping' \in BOOLEAN
  BY DEF Dropping
<1>a. tokens' = tokens => [Bucket!Next]_(Bucket!vars)
  <2>1. CASE tokens' = tokens /\ Dropping' = Dropping
    BY <2>1 DEF Bucket!vars
  <2>2. CASE tokens' = tokens /\ Dropping' = ~Dropping
    BY <2>2 DEF Bucket!Next, Bucket!DropStartsOrEnds
  <2> QED
    BY <1>0, <2>1, <2>2
<1>b. call' = call => Dropping' = Dropping
  BY DEF Dropping
<1> USE DEF TokensInv, requestVars, localVars, redisVars, limiterVars
<1>1. CASE TimePasses
  <2>1. CASE Refill
    <3>1. Dropping' = Dropping
      BY <2>1, <1>b DEF Refill
    <3> QED
      BY <2>1, <3>1, LimiterAssumption DEF Refill, Bucket!Next, Bucket!Refill
  <2>2. CASE Elapse
    BY <2>2, <1>a DEF Elapse
  <2> QED
    BY <1>1, <2>1, <2>2 DEF TimePasses
<1>2. CASE \E r \in Requests : LimiterStep(r)
  <2> PICK r \in Requests : LimiterStep(r)
    BY <1>2
  <2>1. CASE Drop(r)
    <3>1. Dropping' = Dropping /\ Dropping
      BY <2>1, <1>b DEF Drop, Dropping
    <3>2. tokens' = tokens \/ tokens' = Burst
      BY <2>1 DEF Drop
    <3>3. tokens' = Burst => Bucket!Forgive
      BY <3>1, LimiterAssumption DEF Bucket!Forgive
    <3> QED
      BY <3>2, <3>3, <1>a DEF Bucket!Next
  <2>2. CASE Take(r)
    <3>1. Dropping' = Dropping
      <4>1. call[r] = "load" /\ call' = [call EXCEPT ![r] = "allowed"]
        BY <2>2 DEF Take, Goto
      <4>2. \A q \in Requests : call'[q] = "drop" => call[q] = "drop"
        BY <4>1
      <4>3. \A q \in Requests : call[q] = "drop" => q # r
        BY <4>1
      <4> QED
        BY <4>1, <4>2, <4>3 DEF Dropping
    <3>2. tokens' = tokens \/ (tokens > -Patience /\ tokens' = tokens - 1)
      BY <2>2 DEF Take
    <3>3. ASSUME tokens > -Patience, tokens' = tokens - 1 PROVE Bucket!Admit
      BY <3>1, <3>3, LimiterAssumption DEF Bucket!Admit
    <3> QED
      BY <3>2, <3>3, <1>a DEF Bucket!Next
  <2>3. CASE ~Drop(r) /\ ~Take(r)
    <3>1. tokens' = tokens
      BY <2>3 DEF LimiterStep, AllowStep, Look, Check, DropEnds, Reset, Store, Count, Refuse,
                  Incr, IncrLost, IncrFails, Expire, ExpireFails, Ask, Answer, HangUp, NewContext
    <3> QED
      BY <3>1, <1>a
  <2> QED
    BY <2>1, <2>2, <2>3
<1>3. CASE Restart
  BY <1>3, <1>a DEF Restart
<1>4. CASE UNCHANGED limiterVars
  BY <1>4, <1>a
<1> QED
  BY <1>1, <1>2, <1>3, <1>4 DEF LimiterNext

(* However many requests race through the map, each key's bucket admits    *)
(* what a token bucket admits, and is forgiven only in a drop.             *)
THEOREM LimiterImplementsBucket == LimiterSpec => ImplementsBucket
<1>1. LimiterInit => Bucket!Init
  BY LimiterAssumption DEF LimiterInit, Bucket!Init, Dropping
<1> QED
  BY <1>1, InitTokens, StepTokens, StepBucket, PTL
  DEF LimiterSpec, ImplementsBucket, Bucket!Spec

-----------------------------------------------------------------------------
(* The Redis counter. *)

CounterInv ==
    /\ DOMAIN call = Requests
    /\ count \in Nat
    /\ CounterExpires

LEMMA CallDomain ==
    ASSUME DOMAIN call = Requests, [LimiterNext]_limiterVars
    PROVE  DOMAIN call' = Requests
  BY DEF LimiterNext, TimePasses, Refill, Elapse, Restart, LimiterStep, AllowStep, Look, Check, Drop, DropEnds,
         Reset, Store, Count, Take, Refuse, Incr, IncrLost, IncrFails, Expire, ExpireFails, Ask, Answer,
         HangUp, NewContext, Goto, limiterVars

LEMMA CounterStep ==
    ASSUME CounterInv, [LimiterNext]_limiterVars
    PROVE  CounterInv'
<1> DEFINE Setting(q) == call[q] = "expire" /\ key[q] = Watched
<1>0. DOMAIN call' = Requests
  BY CallDomain DEF CounterInv
<1> USE <1>0 DEF CounterInv, CounterExpires, requestVars, localVars, redisVars, limiterVars
<1>1. CASE TimePasses
  BY <1>1, LimiterAssumption DEF TimePasses, Refill, Elapse
<1>2. CASE \E r \in Requests : LimiterStep(r)
  <2> PICK r \in Requests : LimiterStep(r)
    BY <1>2
  <2>1. CASE Incr(r) /\ key[r] = Watched
    <3>1. count' \in Nat /\ count' > 0 /\ key' = key
      BY <2>1, LimiterAssumption DEF Incr, OneMore
    <3>2. CASE count > 0
      <4>1. \A q \in Requests : Setting(q) => Setting(q)'
        BY <2>1, <3>1 DEF Incr, Goto
      <4> QED
        BY <2>1, <3>1, <3>2, <4>1 DEF Incr
    <3>3. CASE count = 0
      <4>1. call' = [call EXCEPT ![r] = "expire"] /\ call[r] = "incr"
        BY <2>1, <3>3, LimiterAssumption DEF Incr, OneMore, Verdict, Goto
      <4>2. Setting(r)'
        BY <2>1, <3>1, <4>1
      <4> QED
        BY <3>1, <4>2
    <3> QED
      BY <3>2, <3>3
  <2>2. CASE Expire(r) \/ ExpireFails(r)
    <3>1. count' = count /\ key' = key
      BY <2>2 DEF Expire, ExpireFails
    <3>2. CASE key[r] = Watched
      BY <2>2, <3>1, <3>2 DEF Expire, ExpireFails
    <3>3. CASE key[r] # Watched
      <4>1. \A q \in Requests : Setting(q) => Setting(q)'
        BY <2>2, <3>1, <3>3 DEF Expire, ExpireFails, Goto
      <4> QED
        BY <2>2, <3>1, <3>3, <4>1 DEF Expire, ExpireFails
    <3> QED
      BY <3>2, <3>3
  <2>3. CASE IncrLost(r)
    <3>1. count' \in Nat /\ UNCHANGED <<key, call, expiring>>
      BY <2>3, LimiterAssumption DEF IncrLost, OneMore
    <3>2. ~leaked' => ~leaked /\ count # 0
      BY <2>3, Zenon DEF IncrLost
    <3>3. count # 0 => count > 0
      OBVIOUS
    <3> QED
      BY <3>1, <3>2, <3>3
  <2>4. CASE ~(Incr(r) /\ key[r] = Watched) /\ ~IncrLost(r) /\ ~Expire(r) /\ ~ExpireFails(r)
    <3>1. UNCHANGED redisVars
      BY <2>4 DEF LimiterStep, AllowStep, Look, Check, Drop, DropEnds, Reset, Store, Count, Take, Refuse,
                  Incr, IncrFails, Ask, Answer, HangUp, NewContext
    <3>2. CASE AllowStep(r)
      <4>1. key' = key
        BY <2>4, <3>2 DEF AllowStep, Look, Check, Drop, DropEnds, Reset, Store, Count, Take, Refuse,
                          Incr, IncrFails
      <4>2. call' = call \/ (call[r] # "expire" /\ \E to : call' = [call EXCEPT ![r] = to])
        BY <2>4, <3>2 DEF AllowStep, Look, Check, Drop, DropEnds, Reset, Store, Count, Take, Refuse,
                          Incr, IncrFails, Goto
      <4>3. \A q \in Requests : Setting(q) => Setting(q)'
        BY <4>1, <4>2
      <4> QED
        BY <3>1, <4>3
    <3>3. CASE ~AllowStep(r)
      <4>1. CASE \E k \in Keys : Ask(r, k)
        <5>1. \A q \in Requests : Setting(q) => Setting(q)'
          BY <4>1 DEF Ask, Goto
        <5> QED
          BY <3>1, <5>1
      <4>2. CASE \E answer \in {"allowed", "refused"} : Answer(r, answer)
        <5>1. \A q \in Requests : Setting(q) => Setting(q)'
          BY <4>2 DEF Answer, Goto
        <5> QED
          BY <3>1, <5>1
      <4>3. CASE UNCHANGED <<key, call>>
        BY <3>1, <4>3
      <4> QED
        BY <3>3, <4>1, <4>2, <4>3 DEF LimiterStep, HangUp
    <3> QED
      BY <3>2, <3>3
  <2> QED
    BY <2>1, <2>2, <2>3, <2>4
<1>3. CASE Restart
  <2>1. /\ UNCHANGED <<count, expiring>>
        /\ leaked' = (leaked \/ \E q \in Requests : Setting(q))
    BY <1>3 DEF Restart
  <2> QED
    BY <2>1
<1>4. CASE UNCHANGED limiterVars
  BY <1>4
<1> QED
  BY <1>1, <1>2, <1>3, <1>4 DEF LimiterNext

(* No counter outlives its window unless its Expire failed, the answer     *)
(* that said 1 was lost, or the process died between Incr and Expire.      *)
THEOREM RedisCountersExpire == LimiterSpec => []CounterExpires
<1>1. LimiterInit => CounterInv
  BY DEF LimiterInit, CounterInv, CounterExpires
<1>2. CounterInv /\ [LimiterNext]_limiterVars => CounterInv'
  BY CounterStep
<1>3. CounterInv => CounterExpires
  BY DEF CounterInv
<1> QED
  BY <1>1, <1>2, <1>3, PTL DEF LimiterSpec

-----------------------------------------------------------------------------
(* The size of the map. *)

LEMMA FiniteParts ==
    ASSUME NEW S, IsFiniteSet(S), NEW T \in SUBSET S
    PROVE  /\ IsFiniteSet(T)
           /\ Cardinality(T) \in Nat /\ Cardinality(S) \in Nat
           /\ Cardinality(T) <= Cardinality(S)
BY FS_Subset, FS_CardinalityType

LEMMA UnionCount ==
    ASSUME NEW S, NEW T, IsFiniteSet(S), IsFiniteSet(T)
    PROVE  /\ IsFiniteSet(S \cup T)
           /\ Cardinality(S \cup T) \in Nat
           /\ Cardinality(S \cup T) <= Cardinality(S) + Cardinality(T)
           /\ S \cap T = {} => Cardinality(S \cup T) = Cardinality(S) + Cardinality(T)
<1>1. /\ IsFiniteSet(S \cup T)
      /\ Cardinality(S \cup T) = Cardinality(S) + Cardinality(T) - Cardinality(S \cap T)
  BY FS_Union
<1>2. IsFiniteSet(S \cap T)
  BY FS_Subset
<1>3. /\ Cardinality(S) \in Nat /\ Cardinality(T) \in Nat
      /\ Cardinality(S \cup T) \in Nat /\ Cardinality(S \cap T) \in Nat
  BY <1>1, <1>2, FS_CardinalityType
<1>4. S \cap T = {} => Cardinality(S \cap T) = 0
  BY FS_EmptySet
<1> QED
  BY <1>1, <1>3, <1>4

LEMMA OneMoreElement ==
    ASSUME NEW S, IsFiniteSet(S), NEW x
    PROVE  /\ IsFiniteSet(S \cup {x})
           /\ Cardinality(S) \in Nat /\ Cardinality(S \cup {x}) \in Nat
           /\ Cardinality(S \cup {x}) <= Cardinality(S) + 1
           /\ x \notin S => Cardinality(S \cup {x}) = Cardinality(S) + 1
<1>1. /\ IsFiniteSet(S \cup {x})
      /\ Cardinality(S \cup {x}) = IF x \in S THEN Cardinality(S) ELSE Cardinality(S) + 1
  BY FS_AddElement
<1>2. Cardinality(S) \in Nat
  BY FS_CardinalityType
<1> QED
  BY <1>1, <1>2

(* Requests that ask for the same key make one bucket.                     *)
LEMMA KeysOf ==
    ASSUME NEW R, IsFiniteSet(R), NEW f
    PROVE  /\ IsFiniteSet({f[r] : r \in R})
           /\ Cardinality({f[r] : r \in R}) \in Nat
           /\ Cardinality({f[r] : r \in R}) <= Cardinality(R)
<1> DEFINE image == {f[r] : r \in R}
<1>1. [r \in R |-> f[r]] \in Surjection(R, image)
  BY DEF Surjection
<1>2. IsFiniteSet(image) /\ Cardinality(image) <= Cardinality(R)
  BY <1>1, FS_Surjection
<1> QED
  BY <1>2, FS_CardinalityType

(* A map and what is to be stored in it.                                   *)
LEMMA HeldAndWanted ==
    ASSUME NEW H, IsFiniteSet(H), NEW R, IsFiniteSet(R), NEW f
    PROVE  /\ IsFiniteSet(H \cup {f[r] : r \in R})
           /\ Cardinality(H \cup {f[r] : r \in R}) \in Nat
           /\ Cardinality(H \cup {f[r] : r \in R}) <= Cardinality(H) + Cardinality(R)
<1>1. PICK image : image = {f[r] : r \in R}
  OBVIOUS
<1>2. /\ IsFiniteSet(image) /\ Cardinality(image) \in Nat
      /\ Cardinality(image) <= Cardinality(R)
  BY <1>1, KeysOf
<1>3. Cardinality(H) \in Nat /\ Cardinality(R) \in Nat
  BY FS_CardinalityType
<1>4. /\ IsFiniteSet(H \cup image) /\ Cardinality(H \cup image) \in Nat
      /\ Cardinality(H \cup image) <= Cardinality(H) + Cardinality(image)
  BY <1>2, UnionCount
<1> QED
  BY <1>1, <1>2, <1>3, <1>4

(* The counts of a state.  A request that is neither about to store nor    *)
(* about to count leaves room for one.                                     *)
LEMMA Counts ==
    ASSUME IsFiniteSet(held)
    PROVE  /\ IsFiniteSet(Storing) /\ Cardinality(Storing) \in Nat
           /\ IsFiniteSet(Counting) /\ Cardinality(Counting) \in Nat
           /\ IsFiniteSet(Wanted) /\ Cardinality(Wanted) \in Nat
           /\ Cardinality(held) \in Nat
           /\ Cardinality(Requests) \in Nat
           /\ Cardinality(held) <= Cardinality(Wanted)
           /\ Cardinality(Wanted) <= Cardinality(held) + Cardinality(Storing)
           /\ Cardinality(Storing) <= Cardinality(Requests)
           /\ \A r \in Requests : r \notin Storing \cup Counting =>
                 Cardinality(Storing) + Cardinality(Counting) + 1 <= Cardinality(Requests)
<1>1. /\ IsFiniteSet(Storing) /\ Cardinality(Storing) \in Nat
      /\ IsFiniteSet(Counting) /\ Cardinality(Counting) \in Nat
      /\ Cardinality(Requests) \in Nat /\ Cardinality(Storing) <= Cardinality(Requests)
  BY LimiterAssumption, FiniteParts DEF Storing, Counting
<1>4. /\ IsFiniteSet(Wanted) /\ Cardinality(Wanted) \in Nat
      /\ Cardinality(Wanted) <= Cardinality(held) + Cardinality(Storing)
  BY <1>1, HeldAndWanted DEF Wanted
<1>5. Cardinality(held) \in Nat /\ Cardinality(held) <= Cardinality(Wanted)
  BY <1>4, FiniteParts DEF Wanted
<1>6. ASSUME NEW r \in Requests, r \notin Storing \cup Counting
      PROVE  Cardinality(Storing) + Cardinality(Counting) + 1 <= Cardinality(Requests)
  <2>1. /\ IsFiniteSet(Storing \cup Counting)
        /\ Cardinality(Storing \cup Counting) = Cardinality(Storing) + Cardinality(Counting)
    BY <1>1, UnionCount DEF Storing, Counting
  <2>2. Cardinality(Storing \cup Counting \cup {r}) = Cardinality(Storing \cup Counting) + 1
    BY <1>6, <2>1, OneMoreElement
  <2>3. Storing \cup Counting \cup {r} \subseteq Requests
    BY DEF Storing, Counting
  <2>4. Cardinality(Storing \cup Counting \cup {r}) <= Cardinality(Requests)
    BY <2>3, LimiterAssumption, FiniteParts
  <2> QED
    BY <1>1, <2>1, <2>2, <2>4
<1> QED
  BY <1>1, <1>4, <1>5, <1>6

(* A step that adds nothing to the map or to what is wanted.               *)
LEMMA NothingAdded ==
    ASSUME MemoryInv, DOMAIN call' = Requests, held' \subseteq held, Wanted' \subseteq Wanted,
           Counting' = Counting, UNCHANGED <<entries, survivors>>
    PROVE  MemoryInv'
<1>1. /\ IsFiniteSet(held') /\ Cardinality(held') \in Nat /\ Cardinality(held) \in Nat
      /\ Cardinality(held') <= Cardinality(held)
  BY FiniteParts DEF MemoryInv
<1>2. IsFiniteSet(Wanted) /\ Cardinality(Counting) \in Nat /\ Cardinality(Requests) \in Nat
  BY Counts DEF MemoryInv
<1>3. /\ Cardinality(Wanted') \in Nat /\ Cardinality(Wanted) \in Nat
      /\ Cardinality(Wanted') <= Cardinality(Wanted)
  BY <1>2, FiniteParts
<1> QED
  BY <1>1, <1>2, <1>3, LimiterAssumption DEF MemoryInv

(* Where a call that moves is then.                                        *)
LEMMA GotoSets ==
    ASSUME DOMAIN call = Requests, NEW r \in Requests, NEW from, NEW to, Goto(r, from, to)
    PROVE  /\ DOMAIN call' = Requests
           /\ Storing' = IF to = "store" THEN Storing \cup {r} ELSE Storing \ {r}
           /\ Counting' = IF to = "count" THEN Counting \cup {r} ELSE Counting \ {r}
           /\ r \in Storing <=> from = "store"
           /\ r \in Counting <=> from = "count"
<1>1. /\ call[r] = from /\ DOMAIN call' = Requests /\ call'[r] = to
      /\ \A q \in Requests : q # r => call'[q] = call[q]
  BY DEF Goto
<1> QED
  BY <1>1 DEF Storing, Counting

(* A call that moves and leaves the map and the counter alone.             *)
LEMMA QuietMove ==
    ASSUME MemoryInv, NEW r \in Requests, NEW from, NEW to, Goto(r, from, to),
           from \notin {"store", "count"}, to \notin {"store", "count"},
           \A q \in Requests : q # r => key'[q] = key[q],
           UNCHANGED <<held, entries, survivors>>
    PROVE  MemoryInv'
<1>1. DOMAIN call' = Requests /\ Storing' = Storing /\ Counting' = Counting /\ r \notin Storing
  BY GotoSets DEF MemoryInv
<1>2. Wanted' \subseteq Wanted
  BY <1>1 DEF Wanted, Storing
<1> QED
  BY <1>1, <1>2, NothingAdded

(* A request stores: what it wanted is in the map.                         *)
LEMMA StoreStep ==
    ASSUME MemoryInv, NEW r \in Requests, Store(r)
    PROVE  MemoryInv'
<1>1. PICK k, to : k = key[r] /\ to = IF k \in held THEN "load" ELSE "count"
  OBVIOUS
<1>2. /\ Goto(r, "store", to) /\ held' = held \cup {k}
      /\ UNCHANGED <<key, entries, survivors>>
  BY <1>1 DEF Store, requestVars
<1>3. /\ DOMAIN call' = Requests /\ r \in Storing /\ r \notin Counting
      /\ Storing' = Storing \ {r}
      /\ Counting' = IF k \in held THEN Counting ELSE Counting \cup {r}
  BY <1>1, <1>2, GotoSets DEF MemoryInv
<1>4. Wanted' = Wanted
  BY <1>1, <1>2, <1>3 DEF Wanted
<1>5. CASE k \in held
  <2>1. held' = held /\ Counting' = Counting
    BY <1>2, <1>3, <1>5
  <2> QED
    BY <1>2, <1>3, <1>4, <2>1, NothingAdded
<1>6. CASE k \notin held
  <2>1. /\ IsFiniteSet(held') /\ Cardinality(held) \in Nat
        /\ Cardinality(held') \in Nat /\ Cardinality(held') <= Cardinality(held) + 1
    BY <1>2, OneMoreElement DEF MemoryInv
  <2>2. Cardinality(Counting) \in Nat /\ IsFiniteSet(Counting)
    BY Counts DEF MemoryInv
  <2>3. Cardinality(Counting') = Cardinality(Counting) + 1
    BY <1>3, <1>6, <2>2, OneMoreElement
  <2> QED
    BY <1>2, <1>3, <1>4, <2>1, <2>2, <2>3 DEF MemoryInv
<1> QED
  BY <1>5, <1>6

(* It counts what it stored.                                               *)
LEMMA CountStep ==
    ASSUME MemoryInv, NEW r \in Requests, Count(r)
    PROVE  MemoryInv'
<1>1. /\ Goto(r, "count", "load") /\ entries' = entries + 1
      /\ UNCHANGED <<key, held, survivors>>
  BY DEF Count, requestVars
<1>2. /\ DOMAIN call' = Requests /\ r \in Counting /\ Storing' = Storing
      /\ Counting' = Counting \ {r}
  <2>1. /\ DOMAIN call' = Requests /\ r \in Counting /\ r \notin Storing
        /\ Storing' = Storing \ {r} /\ Counting' = Counting \ {r}
    BY <1>1, GotoSets DEF MemoryInv
  <2> QED
    BY <2>1
<1>3. Wanted' = Wanted
  BY <1>1, <1>2 DEF Wanted
<1>4. Cardinality(Counting) \in Nat /\ IsFiniteSet(Counting) /\ Cardinality(held) \in Nat
  BY Counts DEF MemoryInv
<1>5. Cardinality(Counting') = Cardinality(Counting) - 1
  BY <1>2, <1>4, FS_RemoveElement
<1> QED
  BY <1>1, <1>2, <1>3, <1>4, <1>5 DEF MemoryInv

(* Below the cap there is room for every request in flight: this one and   *)
(* those about to store or to count.  At the cap it drops the map.         *)
LEMMA CheckStep ==
    ASSUME MemoryInv, NEW r \in Requests, Check(r)
    PROVE  MemoryInv'
<1>1. UNCHANGED <<key, held, entries, survivors>>
  BY DEF Check, requestVars
<1>2. CASE entries >= maxLimiterEntries
  <2>1. Goto(r, "check", "drop")
    BY <1>2 DEF Check
  <2> QED
    BY <1>1, <2>1, QuietMove
<1>3. CASE ~(entries >= maxLimiterEntries)
  <2>1. Goto(r, "check", "store")
    BY <1>3 DEF Check
  <2>2. /\ DOMAIN call' = Requests /\ r \notin Storing /\ r \notin Counting
        /\ Storing' = Storing \cup {r} /\ Counting' = Counting
    <3>1. /\ DOMAIN call' = Requests /\ r \notin Storing /\ r \notin Counting
          /\ Storing' = Storing \cup {r} /\ Counting' = Counting \ {r}
      BY <2>1, GotoSets DEF MemoryInv
    <3> QED
      BY <3>1
  <2>3. PICK k : k = key[r]
    OBVIOUS
  <2>4. Wanted' = Wanted \cup {k}
    BY <1>1, <2>2, <2>3 DEF Wanted
  <2>5. /\ IsFiniteSet(Wanted) /\ Cardinality(Wanted) \in Nat
        /\ Cardinality(held) \in Nat /\ Cardinality(Requests) \in Nat
        /\ Cardinality(Storing) \in Nat /\ Cardinality(Counting) \in Nat
        /\ Cardinality(Wanted) <= Cardinality(held) + Cardinality(Storing)
        /\ Cardinality(Storing) + Cardinality(Counting) + 1 <= Cardinality(Requests)
    BY <2>2, Counts DEF MemoryInv
  <2>6. Cardinality(Wanted') \in Nat /\ Cardinality(Wanted') <= Cardinality(Wanted) + 1
    BY <2>4, <2>5, OneMoreElement
  <2>7. entries + 1 <= maxLimiterEntries
    BY <1>3, LimiterAssumption DEF MemoryInv
  <2>8. Cardinality(Wanted') <= survivors + maxLimiterEntries + Cardinality(Requests)
    BY <2>5, <2>6, <2>7, LimiterAssumption DEF MemoryInv
  <2> QED
    BY <1>1, <2>2, <2>8 DEF MemoryInv
<1> QED
  BY <1>2, <1>3

(* The counter is reset: it forgets what the drop left in the map.         *)
LEMMA ResetStep ==
    ASSUME MemoryInv, NEW r \in Requests, Reset(r)
    PROVE  MemoryInv'
<1>1. /\ Goto(r, "reset", "store") /\ entries' = 0 /\ survivors' = Cardinality(held)
      /\ UNCHANGED <<key, held>>
  BY DEF Reset, requestVars
<1>2. DOMAIN call' = Requests
  BY <1>1, GotoSets DEF MemoryInv
<1>3. IsFiniteSet(held) /\ Cardinality(held) \in Nat
  BY Counts DEF MemoryInv
<1>4. PICK R, keys : R = Storing' /\ keys = key'
  OBVIOUS
<1>5. R \in SUBSET Requests
  BY <1>4 DEF Storing
<1>6. /\ Cardinality(R) \in Nat /\ Cardinality(Requests) \in Nat
      /\ Cardinality(R) <= Cardinality(Requests) /\ IsFiniteSet(R)
  BY <1>5, LimiterAssumption, FiniteParts
<1>7. /\ Cardinality(held \cup {keys[q] : q \in R}) \in Nat
      /\ Cardinality(held \cup {keys[q] : q \in R}) <= Cardinality(held) + Cardinality(R)
  <2>1. PICK H : H = held
    OBVIOUS
  <2>2. IsFiniteSet(H) /\ IsFiniteSet(R)
    BY <1>3, <1>6, <2>1
  <2>3. /\ Cardinality(H \cup {keys[q] : q \in R}) \in Nat
        /\ Cardinality(H \cup {keys[q] : q \in R}) <= Cardinality(H) + Cardinality(R)
    BY <2>2, HeldAndWanted
  <2> QED
    BY <2>1, <2>3
<1>8. Wanted' = held \cup {keys[q] : q \in R}
  BY <1>1, <1>4 DEF Wanted
<1>9. Cardinality(Counting') \in Nat
  <2>1. Counting' \in SUBSET Requests
    BY DEF Counting
  <2> QED
    BY <2>1, LimiterAssumption, FiniteParts
<1> QED
  BY <1>1, <1>2, <1>3, <1>6, <1>7, <1>8, <1>9, LimiterAssumption DEF MemoryInv

(* A request goes the way of the backend it was started with.              *)
LEMMA RedisStep ==
    ASSUME DOMAIN call = Requests, RedisInv, [LimiterNext]_limiterVars
    PROVE  RedisInv'
<1>1. backend' = backend
  BY DEF LimiterNext, TimePasses, Refill, Elapse, Restart, LimiterStep, AllowStep, Look, Check, Drop, DropEnds,
         Reset, Store, Count, Take, Refuse, Incr, IncrLost, IncrFails, Expire, ExpireFails, Ask, Answer,
         HangUp, NewContext, limiterVars, requestVars
<1>2. CASE call' = call
  BY <1>1, <1>2 DEF RedisInv
<1>3. CASE Restart
  BY <1>1, <1>3 DEF RedisInv, Restart
<1>4. ASSUME NEW r \in Requests, LimiterStep(r), backend = "redis"
      PROVE  RedisInv'
  <2>1. \A n : Verdict(n) \in {"expire", "allowed", "refused"}
    BY DEF Verdict
  <2>2. call[r] \in {"out", "incr", "expire", "allowed", "refused"}
    BY <1>4 DEF RedisInv
  <2>3. \/ call' = call
        \/ \E to \in {"out", "incr", "expire", "allowed", "refused"} : call' = [call EXCEPT ![r] = to]
    BY <1>4, <2>1, <2>2
    DEF LimiterStep, AllowStep, Look, Check, Drop, DropEnds, Reset, Store, Count, Take, Refuse, Incr, IncrLost,
        IncrFails, Expire, ExpireFails, Ask, Answer, HangUp, NewContext, Goto, limiterVars, requestVars
  <2> QED
    BY <1>1, <2>3 DEF RedisInv
<1>5. CASE TimePasses
  BY <1>2, <1>5 DEF TimePasses, Refill, Elapse
<1>6. CASE backend # "redis"
  BY <1>1, <1>6 DEF RedisInv
<1> QED
  BY <1>2, <1>3, <1>4, <1>5, <1>6 DEF LimiterNext, limiterVars

LEMMA MemoryStep ==
    ASSUME MemoryInv, RedisInv, [LimiterNext]_limiterVars
    PROVE  MemoryInv'
<1>1. ASSUME UNCHANGED <<call, key, entries, survivors>>, held' \subseteq held
      PROVE  MemoryInv'
  <2>1. DOMAIN call' = Requests /\ Storing' = Storing /\ Counting' = Counting
    BY <1>1 DEF MemoryInv, Storing, Counting
  <2>2. Wanted' \subseteq Wanted
    BY <1>1, <2>1 DEF Wanted
  <2> QED
    BY <1>1, <2>1, <2>2, NothingAdded
<1>2. ASSUME NEW r \in Requests, LimiterStep(r)
      PROVE  MemoryInv'
  <2>1. CASE \E k \in Keys : Ask(r, k)
    <3>1. PICK to \in {"look", "incr"} : Goto(r, "out", to)
      BY <2>1 DEF Ask
    <3>2. \E k : key' = [key EXCEPT ![r] = k]
      BY <2>1 DEF Ask
    <3>3. \A q \in Requests : q # r => key'[q] = key[q]
      BY <3>2
    <3>4. UNCHANGED <<held, entries, survivors>>
      BY <2>1 DEF Ask, localVars
    <3> QED
      BY <3>1, <3>3, <3>4, QuietMove
  <2>2. CASE \E answer \in {"allowed", "refused"} : Answer(r, answer)
    <3>1. PICK answer \in {"allowed", "refused"} : Answer(r, answer)
      BY <2>2
    <3>2. /\ Goto(r, answer, "out") /\ \A q \in Requests : q # r => key'[q] = key[q]
          /\ UNCHANGED <<held, entries, survivors>>
      BY <3>1 DEF Answer, localVars
    <3> QED
      BY <3>2, QuietMove
  <2>3. CASE NewContext(r) /\ UNCHANGED <<backend, key, call, localVars, redisVars>>
    BY <1>1, <2>3 DEF localVars
  <2>4. CASE HangUp(r)
    BY <1>1, <2>4 DEF HangUp, localVars
  <2>5. CASE Look(r)
    <3>1. UNCHANGED <<key, held, entries, survivors>>
      BY <2>5 DEF Look, requestVars, localVars
    <3>2. CASE key[r] \in held
      <4>1. Goto(r, "look", "store")
        BY <2>5, <3>2 DEF Look
      <4>2. DOMAIN call' = Requests /\ Storing' = Storing \cup {r} /\ Counting' = Counting
        BY <4>1, GotoSets DEF MemoryInv
      <4>3. Wanted' \subseteq Wanted
        BY <3>1, <3>2, <4>2 DEF Wanted
      <4> QED
        BY <3>1, <4>2, <4>3, NothingAdded
    <3>3. CASE key[r] \notin held
      <4>1. Goto(r, "look", "check")
        BY <2>5, <3>3 DEF Look
      <4> QED
        BY <3>1, <4>1, QuietMove
    <3> QED
      BY <3>2, <3>3
  <2>6. CASE Drop(r)
    BY <1>1, <2>6 DEF Drop, requestVars
  <2>7. CASE DropEnds(r)
    BY <2>7, QuietMove DEF DropEnds, requestVars
  <2>8. CASE Take(r) \/ Refuse(r)
    <3>1. PICK to \in {"allowed", "refused"} : Goto(r, "load", to)
      BY <2>8 DEF Take, Refuse
    <3>2. UNCHANGED <<key, held, entries, survivors>>
      BY <2>8 DEF Take, Refuse, requestVars, localVars
    <3> QED
      BY <3>1, <3>2, QuietMove
  <2>9. CASE IncrLost(r)
    BY <1>1, <2>9 DEF IncrLost, requestVars, localVars
  <2>10. CASE Incr(r) \/ IncrFails(r) \/ Expire(r) \/ ExpireFails(r)
    <3>1. UNCHANGED <<key, held, entries, survivors>>
      BY <2>10 DEF Incr, IncrFails, Expire, ExpireFails, requestVars, localVars
    <3>2. \E from \in {"incr", "expire"}, to \in {"expire", "allowed", "refused"} : Goto(r, from, to)
      <4>1. \A n : Verdict(n) \in {"expire", "allowed", "refused"}
        BY DEF Verdict
      <4> QED
        BY <2>10, <4>1 DEF Incr, IncrFails, Expire, ExpireFails
    <3> QED
      BY <3>1, <3>2, QuietMove
  <2> QED
    BY <1>2, <2>1, <2>2, <2>3, <2>4, <2>5, <2>6, <2>7, <2>8, <2>9, <2>10,
       CheckStep, ResetStep, StoreStep, CountStep DEF LimiterStep, AllowStep
<1>3. CASE TimePasses
  BY <1>1, <1>3 DEF TimePasses, Refill, Elapse, requestVars, localVars
<1>4. CASE Restart
  <2>1. /\ DOMAIN call' = Requests /\ \A q \in Requests : call'[q] = "out"
        /\ UNCHANGED <<held, entries, survivors>>
    BY <1>4 DEF Restart, localVars
  <2>2. Counting = {} /\ Counting' = {} /\ Storing' = {}
    BY <1>4, <2>1 DEF Restart, RedisInv, Counting, Storing
  <2>3. Wanted' \subseteq Wanted
    BY <2>1, <2>2 DEF Wanted
  <2> QED
    BY <2>1, <2>2, <2>3, NothingAdded
<1>5. CASE UNCHANGED limiterVars
  BY <1>1, <1>5 DEF limiterVars, requestVars, localVars
<1> QED
  BY <1>2, <1>3, <1>4, <1>5 DEF LimiterNext

(* "caps how many per-client buckets are held": the cap, one bucket for    *)
(* each request that passed the check before the others counted, and those *)
(* stored while the last drop went on.                                     *)
THEOREM MapIsBounded == LimiterSpec => []MemoryBounded
<1>1. LimiterInit => MemoryInv /\ RedisInv
  <2> SUFFICES ASSUME LimiterInit PROVE MemoryInv /\ RedisInv
    OBVIOUS
  <2>1. Storing = {} /\ Counting = {} /\ held = {} /\ Wanted = {}
    BY DEF LimiterInit, Storing, Counting, Wanted
  <2>2. Cardinality(Requests) \in Nat
    BY LimiterAssumption, FS_CardinalityType
  <2> QED
    BY <2>1, <2>2, FS_EmptySet, LimiterAssumption DEF LimiterInit, MemoryInv, RedisInv
<1>2. MemoryInv /\ RedisInv /\ [LimiterNext]_limiterVars => (MemoryInv /\ RedisInv)'
  BY MemoryStep, RedisStep DEF MemoryInv
<1>3. MemoryInv => MemoryBounded
  <2> SUFFICES ASSUME MemoryInv PROVE MemoryBounded
    OBVIOUS
  <2>1. /\ Cardinality(held) <= Cardinality(Wanted)
        /\ Cardinality(held) \in Nat /\ Cardinality(Wanted) \in Nat /\ Cardinality(Requests) \in Nat
    BY Counts DEF MemoryInv
  <2> QED
    BY <2>1, LimiterAssumption DEF MemoryInv, MemoryBounded
<1> QED
  BY <1>1, <1>2, <1>3, PTL DEF LimiterSpec

-----------------------------------------------------------------------------
(* The middleware chain. *)

LEMMA InitGateway == GatewayInit => GatewayInv
  BY DEF GatewayInit, LimiterInit, GatewayInv, TypeOK, ChainInv, Stages

(* A step of one request leaves the others where they are. *)
LEMMA OthersStay ==
    ASSUME NEW r \in Requests, NEW q \in Requests, q # r, ChainInv(q),
           stage'[q] = stage[q], group'[q] = group[q], user'[q] = user[q], disk'[q] = disk[q],
           owner'[q] = owner[q], audit'[q] = audit[q], key'[q] = key[q]
    PROVE  ChainInv(q)'
  BY DEF ChainInv, clientKey

LEMMA StepChain ==
    ASSUME GatewayInv, NEW r \in Requests, ChainStep(r)
    PROVE  GatewayInv'
<1> USE GatewayAssumption DEF GatewayInv, TypeOK, Stages, Proceed
<1>1. CASE Arrive(r)
  <2>1. TypeOK'
    BY <1>1 DEF Arrive, Ask, effectVars
  <2>2. ChainInv(r)'
    BY <1>1 DEF Arrive, Ask, effectVars, ChainInv, clientKey
  <2>3. \A q \in Requests \ {r} : ChainInv(q)'
    BY <1>1, OthersStay DEF Arrive, Ask, effectVars
  <2> QED
    BY <2>1, <2>2, <2>3
<1>2. CASE TooMany(r)
  <2>1. TypeOK'
    BY <1>2 DEF TooMany, Answer, Forget
  <2>2. ChainInv(r)'
    BY <1>2 DEF TooMany, Answer, Forget, ChainInv, clientKey
  <2>3. \A q \in Requests \ {r} : ChainInv(q)'
    BY <1>2, OthersStay DEF TooMany, Answer, Forget
  <2> QED
    BY <2>1, <2>2, <2>3
<1>3. CASE PassGlobal(r)
  <2>1. TypeOK'
    BY <1>3 DEF PassGlobal, Answer, effectVars
  <2>2. ChainInv(r)'
    BY <1>3 DEF PassGlobal, Answer, effectVars, ChainInv, clientKey, Authenticated, OperatorGroups, Limited, AllGroups
  <2>3. \A q \in Requests \ {r} : ChainInv(q)'
    BY <1>3, OthersStay DEF PassGlobal, Answer, effectVars
  <2> QED
    BY <2>1, <2>2, <2>3
<1>4. CASE Authenticate(r)
  <2>0. key' = key /\ UNCHANGED <<group, disk, owner, audit>>
    BY <1>4 DEF Authenticate, limiterVars, requestVars, effectVars
  <2>1. TypeOK'
    BY <1>4, <2>0 DEF Authenticate
  <2>2. ChainInv(r)'
    BY <1>4, <2>0 DEF Authenticate, ChainInv, clientKey
  <2>3. \A q \in Requests \ {r} : ChainInv(q)'
    BY <1>4, <2>0, OthersStay DEF Authenticate
  <2> QED
    BY <2>1, <2>2, <2>3
<1>5. CASE CheckOperator(r)
  <2>0. key' = key /\ UNCHANGED <<group, user, disk, owner, audit>>
    BY <1>5 DEF CheckOperator, limiterVars, requestVars, effectVars
  <2>1. TypeOK'
    BY <1>5, <2>0 DEF CheckOperator
  <2>2. ChainInv(r)'
    BY <1>5, <2>0 DEF CheckOperator, IsOperator, ChainInv, clientKey, OperatorGroups, Authenticated
  <2>3. \A q \in Requests \ {r} : ChainInv(q)'
    BY <1>5, <2>0, OthersStay DEF CheckOperator
  <2> QED
    BY <2>1, <2>2, <2>3
<1>6. CASE AskGroup(r)
  <2>1. TypeOK'
    BY <1>6 DEF AskGroup, Ask, effectVars
  <2>2. ChainInv(r)'
    BY <1>6 DEF AskGroup, Ask, effectVars, ChainInv, clientKey
  <2>3. \A q \in Requests \ {r} : ChainInv(q)'
    BY <1>6, OthersStay DEF AskGroup, Ask, effectVars
  <2> QED
    BY <2>1, <2>2, <2>3
<1>7. CASE PassGroup(r)
  <2>1. TypeOK'
    BY <1>7 DEF PassGroup, Answer, effectVars
  <2>2. ChainInv(r)'
    BY <1>7 DEF PassGroup, Answer, effectVars, ChainInv, clientKey
  <2>3. \A q \in Requests \ {r} : ChainInv(q)'
    BY <1>7, OthersStay DEF PassGroup, Answer, effectVars
  <2> QED
    BY <2>1, <2>2, <2>3
<1> QED
  BY <1>1, <1>2, <1>3, <1>4, <1>5, <1>6, <1>7 DEF ChainStep

LEMMA StepHandler ==
    ASSUME GatewayInv, NEW r \in Requests, HandlerStep(r)
    PROVE  GatewayInv'
<1> USE GatewayAssumption DEF GatewayInv, TypeOK, Stages, Proceed
<1>0. key' = key
  BY DEF HandlerStep, Handle, Save, SaveFails, Saved, CreateRow, CreateRowFails, Record, RecordLost,
         Recorded, Leave, Panic, limiterVars, requestVars
<1>1. CASE Handle(r)
  <2>1. TypeOK' /\ ChainInv(r)'
    BY <1>0, <1>1 DEF Handle, effectVars, ChainInv, clientKey
  <2>2. \A q \in Requests \ {r} : ChainInv(q)'
    BY <1>0, <1>1, OthersStay DEF Handle, effectVars
  <2> QED
    BY <2>1, <2>2
<1>2. CASE Save(r) \/ SaveFails(r)
  <2>1. PICK to \in {"create", "unwind"}, content \in {"part", "whole"} :
            Saved(r, to, content) /\ (to = "create" => content = "whole")
    BY <1>2 DEF Save, SaveFails
  <2>2. TypeOK'
    BY <1>0, <2>1 DEF Saved
  <2>3. ChainInv(r)'
    BY <1>0, <2>1 DEF Saved, ChainInv, clientKey, Authenticated
  <2>4. \A q \in Requests \ {r} : ChainInv(q)'
    BY <1>0, <2>1, OthersStay DEF Saved
  <2> QED
    BY <2>2, <2>3, <2>4
<1>3. CASE CreateRow(r)
  <2>1. TypeOK'
    BY <1>0, <1>3 DEF CreateRow
  <2>2. ChainInv(r)'
    BY <1>0, <1>3 DEF CreateRow, ChainInv, clientKey
  <2>3. \A q \in Requests \ {r} : ChainInv(q)'
    BY <1>0, <1>3, OthersStay DEF CreateRow
  <2> QED
    BY <2>1, <2>2, <2>3
<1>4. CASE CreateRowFails(r)
  <2>1. TypeOK' /\ ChainInv(r)'
    BY <1>0, <1>4 DEF CreateRowFails, effectVars, ChainInv, clientKey
  <2>2. \A q \in Requests \ {r} : ChainInv(q)'
    BY <1>0, <1>4, OthersStay DEF CreateRowFails, effectVars
  <2> QED
    BY <2>1, <2>2
<1>5. CASE Record(r) \/ RecordLost(r)
  <2>1. PICK actor : Recorded(r, actor) /\ (group[r] # "health" => actor \in {user[r], "lost"})
    BY <1>5 DEF Record, RecordLost
  <2>2. TypeOK'
    BY <1>0, <2>1 DEF Recorded
  <2>3. ChainInv(r)'
    BY <1>0, <2>1 DEF Recorded, ChainInv, clientKey
  <2>4. \A q \in Requests \ {r} : ChainInv(q)'
    BY <1>0, <2>1, OthersStay DEF Recorded
  <2> QED
    BY <2>2, <2>3, <2>4
<1>6. CASE Leave(r) \/ Panic(r)
  <2>1. Forget(r) /\ stage' = [stage EXCEPT ![r] = "idle"]
    BY <1>6 DEF Leave, Panic
  <2>2. TypeOK'
    BY <1>0, <2>1 DEF Forget
  <2>3. ChainInv(r)'
    BY <1>0, <2>1 DEF Forget, ChainInv, clientKey
  <2>4. \A q \in Requests \ {r} : ChainInv(q)'
    BY <1>0, <2>1, OthersStay DEF Forget
  <2> QED
    BY <2>2, <2>3, <2>4
<1> QED
  BY <1>1, <1>2, <1>3, <1>4, <1>5, <1>6 DEF HandlerStep

(* Inside Allow, and while a client hangs up or time passes, the chain     *)
(* stands still.                                                           *)
LEMMA StepLimit ==
    ASSUME GatewayInv,
           (\E r \in Requests : LimitStep(r)) \/ TimePasses \/ UNCHANGED gatewayVars,
           UNCHANGED <<chainVars, effectVars>>
    PROVE  GatewayInv'
<1>1. key' = key
  BY DEF LimitStep, AllowStep, HangUp, Look, Check, Drop, DropEnds, Reset, Store, Count, Take, Refuse, Incr,
         IncrLost, IncrFails, Expire, ExpireFails, TimePasses, Refill, Elapse, requestVars, limiterVars, gatewayVars
<1> QED
  BY <1>1 DEF GatewayInv, TypeOK, ChainInv, clientKey, chainVars, effectVars

LEMMA StepRestart ==
    ASSUME GatewayInv, RestartGateway
    PROVE  GatewayInv'
  BY GatewayAssumption DEF RestartGateway, Restart, GatewayInv, TypeOK, ChainInv, Stages

LEMMA StepGateway ==
    ASSUME GatewayInv, [GatewayNext]_gatewayVars
    PROVE  GatewayInv'
  BY StepChain, StepHandler, StepLimit, StepRestart DEF GatewayNext, LimitStep, gatewayVars

(* At each stage of the chain a request has the account, the operator      *)
(* rights, the key and the file its stage implies, however requests        *)
(* interleave and slots are used again.                                    *)
THEOREM ChainInvariant == GatewaySpec => []GatewayInv
  BY InitGateway, StepGateway, PTL DEF GatewaySpec

(* A request takes from its caller's own allowance: its address's before   *)
(* AuthMiddleware and in the groups without it, in the others that of the  *)
(* account behind its token, and an operator group's only for operators.   *)
THEOREM AllowanceIsTheCallers == GatewaySpec => []ChargedToCaller
<1>1. GatewayInv => ChargedToCaller
  <2> SUFFICES ASSUME GatewayInv, NEW r \in Requests, stage[r] = "limited"
               PROVE  /\ IF group[r] \in Authenticated
                         THEN user[r] \in Accounts /\ key[r] = <<group[r], user[r]>>
                         ELSE key[r] = <<group[r], Address>>
                      /\ group[r] \in OperatorGroups => user[r] \in Operators
    BY DEF ChargedToCaller, GatewayInv, ChainInv
  <2>1. key[r] = <<group[r], IF user[r] # Null THEN user[r] ELSE Address>>
    BY DEF GatewayInv, ChainInv, clientKey
  <2>2. /\ user[r] \in Accounts \cup {Null}
        /\ user[r] # Null <=> group[r] \in Authenticated
        /\ group[r] \in OperatorGroups => user[r] \in Operators
    BY DEF GatewayInv, TypeOK, ChainInv
  <2> QED
    BY <2>1, <2>2, GatewayAssumption
<1> QED
  BY <1>1, ChainInvariant, PTL

(* No row of uploaded_files names a file that is not there in full, and the *)
(* audit log names the owner of an upload, or its record was lost.          *)
THEOREM UploadsAreAccounted == GatewaySpec => []UploadAccounted
<1>1. GatewayInv => UploadAccounted
  BY DEF GatewayInv, ChainInv, UploadAccounted
<1> QED
  BY <1>1, ChainInvariant, PTL

-----------------------------------------------------------------------------
(* The composition: to the limiter, the chain is requests that ask. *)

LEMMA ChainOnlyAsks ==
    ASSUME GatewayInv, [GatewayNext]_gatewayVars
    PROVE  [LimiterNext]_limiterVars
<1>1. CASE UNCHANGED gatewayVars
  BY <1>1 DEF gatewayVars
<1>2. CASE TimePasses
  BY <1>2 DEF LimiterNext
<1>3. ASSUME NEW r \in Requests, ChainStep(r)
      PROVE  [LimiterNext]_limiterVars
  <2>1. CASE Arrive(r)
    <3>1. clientKey(r) = Address
      BY <2>1 DEF Arrive, Proceed, GatewayInv, ChainInv, clientKey
    <3> QED
      BY <2>1, <3>1, KeysAssumption DEF Arrive, LimiterNext, LimiterStep
  <2>2. CASE AskGroup(r)
    <3>1. stage[r] = "group"
      BY <2>2 DEF AskGroup, Proceed
    <3>2. clientKey(r) \in Clients(group[r])
      BY <3>1, GatewayAssumption
      DEF GatewayInv, TypeOK, ChainInv, clientKey, Clients, OperatorGroups, Authenticated
    <3>3. group[r] \in Groups \cap Limited
      BY <3>1 DEF GatewayInv, ChainInv
    <3> QED
      BY <2>2, <3>2, <3>3, KeysAssumption DEF AskGroup, LimiterNext, LimiterStep
  <2>3. CASE TooMany(r) \/ PassGlobal(r) \/ PassGroup(r)
    <3>1. PICK answer \in {"allowed", "refused"} :
              Answer(r, answer) /\ (UNCHANGED canceled \/ NewContext(r))
      BY <2>3 DEF TooMany, Forget, PassGlobal, PassGroup
    <3> QED
      BY <3>1 DEF LimiterNext, LimiterStep
  <2>4. CASE Authenticate(r) \/ CheckOperator(r)
    BY <2>4 DEF Authenticate, CheckOperator
  <2> QED
    BY <1>3, <2>1, <2>2, <2>3, <2>4 DEF ChainStep
<1>4. ASSUME NEW r \in Requests, HandlerStep(r)
      PROVE  [LimiterNext]_limiterVars
  <2>1. CASE Leave(r) \/ Panic(r)
    BY <2>1 DEF Leave, Panic, Forget, LimiterNext, LimiterStep
  <2>2. CASE ~Leave(r) /\ ~Panic(r)
    BY <1>4, <2>2 DEF HandlerStep, Handle, Save, SaveFails, Saved, CreateRow, CreateRowFails, Record, RecordLost,
                      Recorded
  <2> QED
    BY <2>1, <2>2
<1>5. ASSUME NEW r \in Requests, LimitStep(r)
      PROVE  [LimiterNext]_limiterVars
  BY <1>5 DEF LimitStep, LimiterNext, LimiterStep
<1>6. CASE RestartGateway
  BY <1>6 DEF RestartGateway, LimiterNext
<1> QED
  BY <1>1, <1>2, <1>3, <1>4, <1>5, <1>6 DEF GatewayNext

(* The gateway's steps are steps of the limiter or leave it alone, so what *)
(* is proved of the limiter holds behind the chain: each client's requests *)
(* are admitted as by a token bucket ...                                   *)
THEOREM GatewayImplementsBucket == GatewaySpec => ImplementsBucket
<1>1. GatewayInit => LimiterInit
  BY DEF GatewayInit
<1>2. GatewaySpec => LimiterSpec
  BY <1>1, ChainInvariant, ChainOnlyAsks, PTL DEF GatewaySpec, LimiterSpec
<1> QED
  BY <1>2, LimiterImplementsBucket, PTL

(* ... its Redis counters expire, but for a lost answer, a failed Expire   *)
(* and a process that died between the two ...                             *)
THEOREM GatewayCountersExpire == GatewaySpec => []CounterExpires
<1>1. GatewayInit => LimiterInit
  BY DEF GatewayInit
<1>2. GatewaySpec => LimiterSpec
  BY <1>1, ChainInvariant, ChainOnlyAsks, PTL DEF GatewaySpec, LimiterSpec
<1> QED
  BY <1>2, RedisCountersExpire, PTL

(* ... and the map of its local limiter stays bounded.                     *)
THEOREM GatewayMapIsBounded == GatewaySpec => []MemoryBounded
<1>1. GatewayInit => LimiterInit
  BY DEF GatewayInit
<1>2. GatewaySpec => LimiterSpec
  BY <1>1, ChainInvariant, ChainOnlyAsks, PTL DEF GatewaySpec, LimiterSpec
<1> QED
  BY <1>2, MapIsBounded, PTL

=============================================================================
