--------------------------- MODULE RateLimitProofs ---------------------------
(***************************************************************************)
(* Proofs about the rate limiter, for every number of clients and forms,   *)
(* every capacity and refill of each limiter, every sweep interval and     *)
(* every horizon.                                                          *)
(***************************************************************************)
EXTENDS RateLimit, TLAPS

Fullest(key) == Max({Full(l) : l \in LimitersOf(key)})

Fastest(key) == Max({REFILL[l] : l \in LimitersOf(key)})

(* Tokens, instants and promises are what they are called. *)
TypeInv ==
  /\ RateTypeOK
  /\ grants \in [Keys -> Seq(0..now)]
  /\ \A k \in DOMAIN promises :
       k \in Keys /\ promises[k].limiter \in LimitersOf(k) /\ promises[k].at \in Nat

(* What a key was let in for since any of its grants, with what its bucket holds, *)
(* is no more than a full bucket and what was refilled since.                     *)
BurstInv ==
  \A k \in Keys : \A i \in DOMAIN grants[k] :
    /\ k \in DOMAIN buckets
    /\ grants[k][i] <= buckets[k].lastRefill
    /\ (Len(grants[k]) - i + 1) * PARTS + buckets[k].tokens
         <= Fullest(k) + (buckets[k].lastRefill - grants[k][i]) * Fastest(k)

(* At the instant promised the bucket, unless it was forgotten, has a token. *)
PromiseInv ==
  \A k \in DOMAIN promises \cap DOMAIN buckets :
    /\ buckets[k].lastRefill <= promises[k].at
    /\ buckets[k].tokens + (promises[k].at - buckets[k].lastRefill) * REFILL[promises[k].limiter]
         >= PARTS

---------------------------------------------------------------------------
(* Arithmetic *)

LEMMA LargestOfTwo ==
  ASSUME NEW a \in Nat, NEW b \in Nat
  PROVE  /\ Max({a, b}) \in {a, b} /\ Max({a, b}) >= a /\ Max({a, b}) >= b
         /\ Min({a, b}) \in {a, b} /\ Min({a, b}) <= a /\ Min({a, b}) <= b
<1>1. \E x \in {a, b} : \A y \in {a, b} : x >= y
  BY a >= b \/ b >= a
<1>2. \E x \in {a, b} : \A y \in {a, b} : x =< y
  BY a =< b \/ b =< a
<1>3. Max({a, b}) \in {a, b} /\ \A y \in {a, b} : Max({a, b}) >= y
  BY <1>1 DEF Max
<1>4. Min({a, b}) \in {a, b} /\ \A y \in {a, b} : Min({a, b}) =< y
  BY <1>2 DEF Min
<1> QED BY <1>3, <1>4

(* Refilling goes on at the same pace. *)
LEMMA Distributes ==
  ASSUME NEW a \in Nat, NEW b \in Nat, NEW c \in Nat
  PROVE  /\ (a + b) * c = a * c + b * c
         /\ a * c \in Nat
OBVIOUS

LEMMA FasterRefillsMore ==
  ASSUME NEW t \in Nat, NEW p \in Nat, NEW q \in Nat, p <= q
  PROVE  t * p <= t * q
<1>1. q - p \in Nat
  OBVIOUS
<1>2. t * (q - p) \in Nat
  BY <1>1
<1>3. t * (q - p) = t * q - t * p
  OBVIOUS
<1> QED BY <1>2, <1>3

(* The wait announced is long enough for the token that is missing. *)
LEMMA WaitSuffices ==
  ASSUME NEW tokens \in Nat, NEW l \in Limiters, PARTS \in Nat, REFILL[l] \in Nat \ {0},
         tokens < PARTS
  PROVE  Wait(tokens, l) \in Nat /\ tokens + Wait(tokens, l) * REFILL[l] >= PARTS
<1> DEFINE r == REFILL[l]
           q == (PARTS - tokens + r - 1) \div r
<1>1. PARTS - tokens + r - 1 \in Nat /\ r \in Nat /\ r > 0
  OBVIOUS
<1>2. q \in Nat /\ PARTS - tokens + r - 1 < q * r + r
  <2> HIDE DEF r
  <2>1. ASSUME NEW n \in Nat PROVE n \div r \in Nat /\ n < (n \div r) * r + r
    BY <1>1
  <2> QED BY <1>1, <2>1
<1>3. q * r >= PARTS - tokens
  <2> HIDE DEF q
  <2> DEFINE p == q * r
  <2>1. p \in Nat
    <3> HIDE DEF r
    <3> QED BY <1>1, <1>2
  <2> HIDE DEF p
  <2>2. PARTS - tokens + r - 1 < p + r
    BY <1>2 DEF p
  <2>3. p >= PARTS - tokens
    BY <1>1, <2>1, <2>2
  <2> QED BY <2>3 DEF p
<1>4. Wait(tokens, l) \in Nat /\ Wait(tokens, l) >= q
  BY <1>2, LargestOfTwo DEF Wait
<1>5. q * r <= Wait(tokens, l) * r
  <2> HIDE DEF q, r
  <2> QED BY <1>1, <1>2, <1>4, FasterRefillsMore
<1>6. Wait(tokens, l) * r \in Nat /\ q * r \in Nat
  <2> HIDE DEF q, r
  <2> QED BY <1>1, <1>2, <1>4
<1> QED
  <2> DEFINE p == q * r
             w == Wait(tokens, l) * r
  <2>1. p \in Nat /\ w \in Nat /\ p >= PARTS - tokens /\ p <= w
    BY <1>3, <1>5, <1>6
  <2> HIDE DEF p, w
  <2>2. tokens + w >= PARTS
    BY <2>1
  <2> QED BY <1>4, <2>2 DEF w, r

---------------------------------------------------------------------------
(* Keys *)

LEMMA KeyOfLimiter ==
  ASSUME NEW l \in Limiters, NEW c \in Clients
  PROVE  Key(l, c) \in Keys /\ l \in LimitersOf(Key(l, c))
BY DEF Keys, LimitersOf

(* No more than two limiters share a bucket. *)
LEMMA TwoShare ==
  ASSUME NEW k \in Keys
  PROVE  \E a, b \in Limiters : LimitersOf(k) = {a, b}
<1>1. PICK l \in Limiters, c \in Clients : k = Key(l, c)
  BY DEF Keys
<1>2. CASE l \in Forms
  <2>1. ASSUME NEW m \in Limiters, NEW d \in Clients, Key(m, d) = k
        PROVE  m = l
    BY <1>1, <1>2, <2>1 DEF Key
  <2>2. LimitersOf(k) = {l, l}
    BY <1>1, <2>1 DEF LimitersOf
  <2> QED BY <2>2
<1>3. CASE l \notin Forms
  <2>1. ASSUME NEW m \in Forms, NEW d \in Clients PROVE Key(m, d) # k
    BY <1>1, <1>3 DEF Key
  <2>2. LimitersOf(k) \subseteq {"validation", "inscription"} /\ l \in LimitersOf(k)
    BY <1>1, <2>1 DEF LimitersOf, Limiters
  <2>3. l \in {"validation", "inscription"}
    BY <1>3 DEF Limiters
  <2>4. \/ LimitersOf(k) = {l, l}
        \/ LimitersOf(k) = {"validation", "inscription"}
    BY <2>2, <2>3
  <2> QED BY <2>4 DEF Limiters
<1> QED BY <1>2, <1>3

LEMMA Bounds ==
  ASSUME NEW k \in Keys
  PROVE  /\ Fullest(k) \in Nat /\ Fastest(k) \in Nat
         /\ \A l \in LimitersOf(k) : /\ Full(l) \in Nat /\ Full(l) >= PARTS
                                     /\ REFILL[l] \in Nat \ {0}
                                     /\ Full(l) <= Fullest(k) /\ REFILL[l] <= Fastest(k)
<1>1. PICK a \in Limiters, b \in Limiters : LimitersOf(k) = {a, b}
  BY TwoShare
<1>2. \A l \in Limiters : /\ Full(l) \in Nat /\ Full(l) >= PARTS
                          /\ REFILL[l] \in Nat \ {0}
  <2> SUFFICES ASSUME NEW l \in Limiters
               PROVE  Full(l) \in Nat /\ Full(l) >= PARTS /\ REFILL[l] \in Nat \ {0}
    OBVIOUS
  <2>1. CAPACITY[l] \in Nat /\ CAPACITY[l] >= 1 /\ PARTS \in Nat /\ REFILL[l] \in Nat \ {0}
    BY LimitAssumption
  <2>2. PARTS * 1 <= PARTS * CAPACITY[l]
    BY <2>1, FasterRefillsMore
  <2> QED BY <2>1, <2>2 DEF Full
<1>3. {Full(l) : l \in LimitersOf(k)} = {Full(a), Full(b)}
      /\ {REFILL[l] : l \in LimitersOf(k)} = {REFILL[a], REFILL[b]}
  BY <1>1
<1> QED BY <1>1, <1>2, <1>3, LargestOfTwo DEF Fullest, Fastest

---------------------------------------------------------------------------
(* A call *)

(* What a bucket that is there has regained. *)
LEMMA Regains ==
  ASSUME TypeInv, NEW k \in DOMAIN buckets, NEW l \in LimitersOf(k)
  PROVE  /\ now - buckets[k].lastRefill \in Nat
         /\ Regained(buckets[k], l) \in Nat
         /\ Regained(buckets[k], l)
              = buckets[k].tokens + (now - buckets[k].lastRefill) * REFILL[l]
         /\ (now - buckets[k].lastRefill) * REFILL[l]
              <= (now - buckets[k].lastRefill) * Fastest(k)
<1>0. k \in Keys /\ buckets[k].tokens \in 0..Fullest(k)
  BY DEF TypeInv, RateTypeOK, Fullest
<1>1. k \in Keys /\ buckets[k].tokens \in Nat /\ buckets[k].lastRefill \in Nat
      /\ now \in Nat /\ buckets[k].lastRefill <= now
  <2>1. now \in 0..Horizon /\ buckets[k].lastRefill \in 0..now
    BY DEF TypeInv, RateTypeOK
  <2> QED BY <1>0, <2>1, Bounds, LimitAssumption
<1>2. REFILL[l] \in Nat /\ Fastest(k) \in Nat /\ REFILL[l] <= Fastest(k)
  BY <1>1, Bounds
<1>3. now - buckets[k].lastRefill \in Nat
  BY <1>1
<1>4. (now - buckets[k].lastRefill) * REFILL[l] \in Nat
  BY <1>2, <1>3
<1>5. (now - buckets[k].lastRefill) * REFILL[l]
        <= (now - buckets[k].lastRefill) * Fastest(k)
  BY <1>2, <1>3, FasterRefillsMore
<1> QED BY <1>1, <1>3, <1>4, <1>5 DEF Regained

(* What is found never exceeds what a bucket holds, nor what it has regained. *)
LEMMA Finds ==
  ASSUME TypeInv, NEW k \in Keys, NEW l \in LimitersOf(k)
  PROVE  /\ Found(l, k) \in 0..Full(l)
         /\ k \in DOMAIN Swept(l) =>
              /\ k \in DOMAIN buckets
              /\ Found(l, k) <= Regained(buckets[k], l)
              /\ Found(l, k) \in {Full(l), Regained(buckets[k], l)}
         /\ k \notin DOMAIN Swept(l) => Found(l, k) = Full(l)
<1>1. Full(l) \in Nat
  BY Bounds
<1>2. DOMAIN Swept(l) \subseteq DOMAIN buckets
      /\ \A q \in DOMAIN Swept(l) : Swept(l)[q] = buckets[q]
  BY DEF Swept, Restrict
<1>3. CASE k \in DOMAIN Swept(l)
  <2>1. Regained(buckets[k], l) \in Nat
    BY <1>2, <1>3, Regains
  <2>2. Found(l, k) = Min({Full(l), Regained(buckets[k], l)})
    BY <1>2, <1>3 DEF Found, Refilled
  <2> QED BY <1>1, <1>2, <1>3, <2>1, <2>2, LargestOfTwo
<1>4. CASE k \notin DOMAIN Swept(l)
  BY <1>1, <1>4 DEF Found
<1> QED BY <1>3, <1>4

(* The tokens left once the caller has been let in, or not. *)
Left(tokens) == IF tokens >= PARTS THEN tokens - PARTS ELSE tokens

LEMMA CallWrites ==
  ASSUME TypeInv, NEW l \in Limiters, NEW c \in Clients, checkRateLimit(l, c),
         NEW k \in Keys
  PROVE  /\ k = Key(l, c) =>
              /\ k \in DOMAIN buckets'
              /\ buckets'[k] = [tokens |-> Left(Found(l, k)), lastRefill |-> now]
              /\ grants'[k] = IF Found(l, k) >= PARTS THEN Append(Recent(k), now) ELSE Recent(k)
              /\ k \in DOMAIN promises' =>
                   /\ Found(l, k) < PARTS
                   /\ promises'[k] = [limiter |-> l, at |-> now + Wait(Found(l, k), l)]
         /\ k # Key(l, c) =>
              /\ k \in DOMAIN buckets' <=> k \in DOMAIN Swept(l)
              /\ k \in DOMAIN buckets' => k \in DOMAIN buckets /\ buckets'[k] = buckets[k]
              /\ grants'[k] = Recent(k)
              /\ k \in DOMAIN promises' => k \in DOMAIN promises /\ promises'[k] = promises[k]
         /\ Recent(k) # <<>> => Swept(l) = buckets /\ Recent(k) = grants[k]
         /\ Recent(k) \in Seq(0..now)
         /\ DOMAIN buckets' \subseteq DOMAIN buckets \cup {Key(l, c)}
         /\ DOMAIN promises' \subseteq DOMAIN promises \cup {Key(l, c)}
         /\ DOMAIN grants' = Keys
<1> DEFINE key == Key(l, c)
           tokens == Found(l, key)
           row == [tokens |-> Left(tokens), lastRefill |-> now]
           promise == [limiter |-> l, at |-> now + Wait(tokens, l)]
<1>1. /\ buckets' = Stored(Swept(l), key, row)
      /\ grants' = [q \in Keys |-> IF q = key /\ tokens >= PARTS THEN Append(Recent(q), now)
                                   ELSE Recent(q)]
      /\ promises' = IF tokens >= PARTS THEN Restrict(promises, DOMAIN promises \ {key})
                     ELSE Stored(promises, key, promise)
  BY DEF checkRateLimit, Left
<1>2. DOMAIN Swept(l) \subseteq DOMAIN buckets
      /\ \A q \in DOMAIN Swept(l) : Swept(l)[q] = buckets[q]
  BY DEF Swept, Restrict
<1>3. key \in Keys /\ l \in LimitersOf(key)
  BY KeyOfLimiter
<1>4. tokens >= PARTS <=> ~(tokens < PARTS)
  BY <1>3, Finds, Bounds, LimitAssumption
<1>5. Recent(k) # <<>> => Swept(l) = buckets /\ Recent(k) = grants[k]
  BY DEF Recent, Swept
<1>6. Recent(k) \in Seq(0..now)
  <2>1. grants[k] \in Seq(0..now)
    BY DEF TypeInv
  <2>2. <<>> \in Seq(0..now)
    OBVIOUS
  <2> QED BY <2>1, <2>2 DEF Recent
<1> HIDE DEF key, tokens, row, promise
<1>7. /\ DOMAIN buckets' = DOMAIN Swept(l) \cup {key}
      /\ \A q \in DOMAIN buckets' : buckets'[q] = IF q = key THEN row ELSE Swept(l)[q]
  BY <1>1 DEF Stored
<1>8. DOMAIN grants' = Keys
      /\ grants'[k] = IF k = key /\ tokens >= PARTS THEN Append(Recent(k), now) ELSE Recent(k)
  BY <1>1
<1>9. /\ DOMAIN promises' \subseteq DOMAIN promises \cup {key}
      /\ \A q \in DOMAIN promises' :
           /\ q = key => tokens < PARTS /\ promises'[q] = promise
           /\ q # key => q \in DOMAIN promises /\ promises'[q] = promises[q]
  <2>1. CASE tokens >= PARTS
    BY <1>1, <2>1 DEF Restrict
  <2>2. CASE tokens < PARTS
    BY <1>1, <1>4, <2>2 DEF Stored
  <2> QED BY <1>4, <2>1, <2>2
<1>10. CASE k = key
  BY <1>2, <1>5, <1>6, <1>7, <1>8, <1>9, <1>10 DEF key, tokens, row, promise
<1>11. CASE k # key
  BY <1>2, <1>5, <1>6, <1>7, <1>8, <1>9, <1>11 DEF key
<1> QED BY <1>10, <1>11

---------------------------------------------------------------------------
(* Types *)

LEMMA StartTyped == Init => TypeInv
<1> SUFFICES ASSUME Init PROVE TypeInv
  OBVIOUS
<1>1. now = 0 /\ lastSweep = 0 /\ DOMAIN buckets = {} /\ DOMAIN promises = {}
      /\ grants = [k \in Keys |-> <<>>]
  BY DEF Init
<1>2. grants \in [Keys -> Seq(0..now)]
  BY <1>1
<1>3. RateTypeOK
  BY <1>1, LimitAssumption DEF RateTypeOK
<1> QED BY <1>1, <1>2, <1>3 DEF TypeInv

LEMMA CallTyped ==
  ASSUME TypeInv, NEW l \in Limiters, NEW c \in Clients, checkRateLimit(l, c)
  PROVE  TypeInv'
<1> DEFINE key == Key(l, c)
<1>1. key \in Keys /\ l \in LimitersOf(key)
  BY KeyOfLimiter
<1>2. now' = now /\ lastSweep' \in {now, lastSweep}
  BY DEF checkRateLimit
<1>3. now \in 0..Horizon /\ lastSweep \in 0..now /\ now \in Nat
      /\ DOMAIN buckets \subseteq Keys /\ DOMAIN promises \subseteq Keys
  <2>1. now \in 0..Horizon /\ lastSweep \in 0..now /\ Horizon \in Nat
    BY LimitAssumption DEF TypeInv, RateTypeOK
  <2>2. DOMAIN buckets \subseteq Keys
    BY DEF TypeInv, RateTypeOK
  <2>3. DOMAIN promises \subseteq Keys
    BY DEF TypeInv
  <2> QED BY <2>1, <2>2, <2>3
<1>4. ASSUME NEW k \in DOMAIN buckets'
      PROVE  /\ k \in Keys /\ buckets'[k].tokens \in 0..Fullest(k)
             /\ buckets'[k].lastRefill \in 0..now
  <2>1. k \in Keys
    BY <1>1, <1>3, <1>4, CallWrites
  <2>2. CASE k = key
    <3>1. Found(l, key) \in 0..Full(l) /\ Full(l) \in Nat /\ Full(l) <= Fullest(key)
          /\ Fullest(key) \in Nat /\ PARTS \in Nat
      BY <1>1, Finds, Bounds, LimitAssumption
    <3>2. Left(Found(l, key)) \in 0..Fullest(key)
      <4> HIDE DEF key
      <4> QED BY <3>1 DEF Left
    <3>3. buckets'[key] = [tokens |-> Left(Found(l, key)), lastRefill |-> now]
      BY <1>1, CallWrites
    <3> QED BY <1>1, <1>3, <2>2, <3>2, <3>3
  <2>3. CASE k # key
    <3>1. k \in DOMAIN buckets /\ buckets'[k] = buckets[k]
      BY <2>1, <2>3, <1>4, CallWrites
    <3> QED BY <2>1, <3>1 DEF TypeInv, RateTypeOK, Fullest
  <2> QED BY <2>2, <2>3
<1>5. ASSUME NEW k \in Keys PROVE grants'[k] \in Seq(0..now)
  <2>1. Recent(k) \in Seq(0..now)
    BY CallWrites
  <2>2. grants'[k] \in {Recent(k), Append(Recent(k), now)}
    BY CallWrites
  <2>3. now \in 0..now
    BY <1>3
  <2> QED BY <2>1, <2>2, <2>3
<1>6. ASSUME NEW k \in DOMAIN promises'
      PROVE  k \in Keys /\ promises'[k].limiter \in LimitersOf(k) /\ promises'[k].at \in Nat
  <2>1. k \in Keys
    BY <1>1, <1>3, <1>6, CallWrites
  <2>2. CASE k = key
    <3>1. Found(l, key) < PARTS /\ Found(l, key) \in Nat /\ REFILL[l] \in Nat \ {0}
      <4>1. Found(l, key) < PARTS
        BY <1>1, <1>6, <2>2, CallWrites
      <4>2. Full(l) \in Nat /\ REFILL[l] \in Nat \ {0}
        BY <1>1, Bounds
      <4>3. Found(l, key) \in 0..Full(l)
        BY <1>1, Finds
      <4> QED BY <4>1, <4>2, <4>3
    <3>2. Wait(Found(l, key), l) \in Nat
      BY <3>1, WaitSuffices, LimitAssumption
    <3>3. promises'[key] = [limiter |-> l, at |-> now + Wait(Found(l, key), l)]
      BY <1>1, <1>6, <2>2, CallWrites
    <3> QED BY <1>1, <1>3, <2>2, <3>2, <3>3
  <2>3. CASE k # key
    BY <1>6, <2>1, <2>3, CallWrites DEF TypeInv
  <2> QED BY <2>2, <2>3
<1>7. DOMAIN grants' = Keys
  BY <1>1, CallWrites
<1>8. grants' \in [Keys -> Seq(0..now)]
  <2>1. grants' = [k \in Keys |-> grants'[k]]
    BY <1>7 DEF checkRateLimit
  <2> QED BY <1>5, <2>1
<1>9. RateTypeOK'
  BY <1>2, <1>3, <1>4 DEF RateTypeOK, Fullest
<1> QED BY <1>2, <1>6, <1>8, <1>9 DEF TypeInv
LEMMA SeqWider ==
  ASSUME NEW S, NEW T, S \subseteq T, NEW s \in Seq(S)
  PROVE  s \in Seq(T)
<1>1. Len(s) \in Nat /\ s \in [1..Len(s) -> T]
  OBVIOUS
<1> QED BY <1>1

LEMMA TickTyped ==
  ASSUME TypeInv, Tick
  PROVE  TypeInv'
<1>1. now \in 0..Horizon /\ lastSweep \in 0..now /\ Horizon \in Nat /\ now < Horizon
      /\ now' = now + 1
  BY LimitAssumption DEF TypeInv, RateTypeOK, Tick
<1>2. now' \in 0..Horizon /\ lastSweep \in 0..now' /\ 0..now \subseteq 0..now'
  BY <1>1
<1>3. buckets' = buckets /\ lastSweep' = lastSweep /\ grants' = grants /\ promises' = promises
  BY DEF Tick
<1>4. RateTypeOK'
  <2>1. \A k \in DOMAIN buckets :
          /\ k \in Keys
          /\ buckets[k].tokens \in 0..Max({Full(l) : l \in LimitersOf(k)})
          /\ buckets[k].lastRefill \in 0..now
    BY DEF TypeInv, RateTypeOK
  <2>2. \A k \in DOMAIN buckets : buckets[k].lastRefill \in 0..now'
    BY <1>2, <2>1
  <2> QED BY <1>2, <1>3, <2>1, <2>2 DEF RateTypeOK
<1>5. grants \in [Keys -> Seq(0..now')]
  <2>1. ASSUME NEW k \in Keys PROVE grants[k] \in Seq(0..now')
    <3>1. grants[k] \in Seq(0..now)
      BY DEF TypeInv
    <3> QED BY <1>2, <3>1, SeqWider
  <2> QED BY <2>1 DEF TypeInv
<1> QED BY <1>3, <1>4, <1>5 DEF TypeInv

---------------------------------------------------------------------------
(* Bursts *)

(* Time passing on one side, tokens regained on the other. *)
LEMMA BurstGrows ==
  ASSUME NEW spent \in Nat, NEW t \in Nat, NEW f \in Nat, NEW cap \in Nat, NEW pace \in Nat,
         NEW g \in Nat, NEW b \in Nat, NEW n \in Nat, g <= b, b <= n,
         spent + t <= cap + (b - g) * pace,
         f <= t + (n - b) * pace
  PROVE  spent + f <= cap + (n - g) * pace
<1> DEFINE before == (b - g) * pace
           since  == (n - b) * pace
<1>1. b - g \in Nat /\ n - b \in Nat /\ (b - g) + (n - b) = n - g
  OBVIOUS
<1>2. before \in Nat /\ since \in Nat
  BY <1>1
<1>3. (n - g) * pace = before + since
  <2>1. ((b - g) + (n - b)) * pace = before + since
    BY <1>1, Distributes
  <2> QED BY <1>1, <2>1
<1> HIDE DEF before, since
<1>4. spent + f <= cap + (before + since)
  BY <1>2 DEF before, since
<1> QED BY <1>3, <1>4

(* What the caller finds, after the grants it has had since the last sweep. *)
LEMMA FoundAfter ==
  ASSUME TypeInv, BurstInv, NEW l \in Limiters, NEW k \in Keys, l \in LimitersOf(k),
         NEW i \in DOMAIN Recent(k), Recent(k) # <<>> => Swept(l) = buckets /\ Recent(k) = grants[k]
  PROVE  /\ Recent(k)[i] <= now
         /\ (Len(Recent(k)) - i + 1) * PARTS + Found(l, k)
              <= Fullest(k) + (now - Recent(k)[i]) * Fastest(k)
<1>1. Swept(l) = buckets /\ Recent(k) = grants[k] /\ i \in DOMAIN grants[k]
  OBVIOUS
<1>2. grants[k] \in Seq(0..now) /\ now \in Nat /\ PARTS \in Nat
  <2>1. now \in 0..Horizon /\ grants[k] \in Seq(0..now)
    BY DEF TypeInv, RateTypeOK
  <2> QED BY <2>1, LimitAssumption
<1> DEFINE g == grants[k][i]
           b == buckets[k].lastRefill
           t == buckets[k].tokens
           spent == (Len(grants[k]) - i + 1) * PARTS
<1>3. k \in DOMAIN buckets /\ g <= b /\ spent + t <= Fullest(k) + (b - g) * Fastest(k)
  BY <1>1 DEF BurstInv
<1>4. g \in Nat /\ Len(grants[k]) - i + 1 \in Nat
  BY <1>1, <1>2
<1>5. spent \in Nat
  BY <1>2, <1>4
<1>6. Fullest(k) \in Nat /\ Fastest(k) \in Nat /\ Full(l) \in Nat
  BY Bounds
<1>7. b \in Nat /\ b <= now /\ t \in Nat
  <2>1. b \in 0..now /\ t \in 0..Fullest(k)
    BY <1>3 DEF TypeInv, RateTypeOK, Fullest
  <2> QED BY <1>6, <2>1
<1>8. Found(l, k) \in Nat /\ Found(l, k) <= t + (now - b) * Fastest(k)
  <2>1. Found(l, k) \in 0..Full(l) /\ Found(l, k) <= Regained(buckets[k], l)
    BY <1>1, <1>3, Finds
  <2>2. Regained(buckets[k], l) = t + (now - b) * REFILL[l]
        /\ (now - b) * REFILL[l] <= (now - b) * Fastest(k) /\ now - b \in Nat
    BY <1>3, Regains
  <2>3. (now - b) * REFILL[l] \in Nat /\ (now - b) * Fastest(k) \in Nat
    BY <1>6, <2>2, Bounds
  <2> HIDE DEF t, b
  <2> QED BY <1>6, <1>7, <2>1, <2>2, <2>3
<1> HIDE DEF g, b, t, spent
<1>9. spent + Found(l, k) <= Fullest(k) + (now - g) * Fastest(k)
  BY <1>2, <1>3, <1>4, <1>5, <1>6, <1>7, <1>8, BurstGrows
<1>10. g <= now
  BY <1>2, <1>3, <1>4, <1>7
<1> QED BY <1>1, <1>9, <1>10 DEF g, spent

LEMMA CallBurst ==
  ASSUME TypeInv, BurstInv, NEW l \in Limiters, NEW c \in Clients, checkRateLimit(l, c)
  PROVE  BurstInv'
<1> SUFFICES ASSUME NEW k \in Keys, NEW i \in DOMAIN grants'[k]
             PROVE  /\ k \in DOMAIN buckets'
                    /\ grants'[k][i] <= buckets'[k].lastRefill
                    /\ (Len(grants'[k]) - i + 1) * PARTS + buckets'[k].tokens
                         <= Fullest(k) + (buckets'[k].lastRefill - grants'[k][i]) * Fastest(k)
  BY DEF BurstInv, Fullest, Fastest
<1> DEFINE recent == Recent(k)
<1>1. recent \in Seq(0..now) /\ (recent # <<>> => Swept(l) = buckets /\ recent = grants[k])
  BY CallWrites
<1>2. CASE k # Key(l, c)
  <2>1. grants'[k] = recent
    BY <1>2, CallWrites
  <2>2. recent # <<>> /\ Swept(l) = buckets /\ recent = grants[k] /\ i \in DOMAIN grants[k]
    BY <1>1, <2>1
  <2>3. k \in DOMAIN buckets
    BY <2>2 DEF BurstInv
  <2>4. k \in DOMAIN buckets' /\ buckets'[k] = buckets[k]
    BY <1>2, <2>2, <2>3, CallWrites
  <2> HIDE DEF recent
  <2> QED BY <2>1, <2>2, <2>4 DEF BurstInv
<1>3. CASE k = Key(l, c)
  <2> DEFINE f == Found(l, k)
  <2>1. l \in LimitersOf(k)
    BY <1>3, KeyOfLimiter
  <2>2. /\ k \in DOMAIN buckets' /\ buckets'[k] = [tokens |-> Left(f), lastRefill |-> now]
        /\ grants'[k] = IF f >= PARTS THEN Append(recent, now) ELSE recent
    BY <1>3, CallWrites
  <2>3. f \in Nat /\ f <= Fullest(k) /\ Fullest(k) \in Nat /\ Fastest(k) \in Nat
        /\ PARTS \in Nat
    <3>1. f \in 0..Full(l)
      BY <2>1, Finds
    <3>2. Full(l) \in Nat /\ Full(l) <= Fullest(k) /\ Fullest(k) \in Nat /\ Fastest(k) \in Nat
      BY <2>1, Bounds
    <3> QED BY <3>1, <3>2, LimitAssumption
  <2>4. now \in Nat
    BY LimitAssumption DEF TypeInv, RateTypeOK
  <2>5. ASSUME i \in DOMAIN recent
        PROVE  /\ recent[i] <= now
               /\ (Len(recent) - i + 1) * PARTS + f <= Fullest(k) + (now - recent[i]) * Fastest(k)
    BY <1>1, <2>1, <2>5, FoundAfter
  <2> HIDE DEF recent, f
  <2>6. CASE f >= PARTS
    <3>1. grants'[k] = Append(recent, now) /\ Len(grants'[k]) = Len(recent) + 1
          /\ buckets'[k].tokens = f - PARTS /\ buckets'[k].lastRefill = now
      BY <1>1, <2>2, <2>6 DEF Left
    <3>2. CASE i \in DOMAIN recent
      <4> DEFINE m == Len(recent) - i + 1
      <4>1. grants'[k][i] = recent[i]
        BY <1>1, <3>1, <3>2
      <4>2. m \in Nat /\ Len(grants'[k]) - i + 1 = m + 1
        BY <1>1, <3>1, <3>2
      <4>3. (m + 1) * PARTS = m * PARTS + PARTS /\ m * PARTS \in Nat
        <5> HIDE DEF m
        <5> QED BY <2>3, <4>2, Distributes
      <4>4. (Len(grants'[k]) - i + 1) * PARTS + buckets'[k].tokens = m * PARTS + f
        <5> DEFINE spent == m * PARTS
        <5>1. (Len(grants'[k]) - i + 1) * PARTS = spent + PARTS /\ spent \in Nat
          BY <4>2, <4>3
        <5> HIDE DEF spent
        <5>2. spent + PARTS + (f - PARTS) = spent + f
          BY <2>3, <5>1
        <5> QED BY <3>1, <5>1, <5>2 DEF spent
      <4> QED BY <2>2, <2>5, <3>1, <3>2, <4>1, <4>4
    <3>3. CASE i \notin DOMAIN recent
      <4>1. i = Len(recent) + 1 /\ grants'[k][i] = now
        BY <1>1, <3>1, <3>3
      <4>2. (Len(grants'[k]) - i + 1) * PARTS = PARTS
        <5>1. Len(grants'[k]) - i + 1 = 1
          BY <1>1, <3>1, <4>1
        <5> QED BY <2>3, <5>1
      <4>3. (now - now) * Fastest(k) = 0
        BY <2>3, <2>4
      <4> QED BY <2>2, <2>3, <2>4, <3>1, <4>1, <4>2, <4>3
    <3> QED BY <3>2, <3>3
  <2>7. CASE ~(f >= PARTS)
    <3>1. grants'[k] = recent /\ buckets'[k].tokens = f /\ buckets'[k].lastRefill = now
      BY <2>2, <2>7 DEF Left
    <3> QED BY <2>2, <2>5, <3>1
  <2> QED BY <2>6, <2>7
<1> QED BY <1>2, <1>3

(* The grants of a stretch, with what is left, are within the bound: so are they alone. *)
LEMMA CallCapped ==
  ASSUME TypeInv, TypeInv', BurstInv', BurstIsCapped,
         NEW l \in Limiters, NEW c \in Clients, checkRateLimit(l, c)
  PROVE  BurstIsCapped'
<1> SUFFICES ASSUME NEW k \in Keys, NEW j \in DOMAIN grants'[k], NEW i \in 1..j
             PROVE  (j - i + 1) * PARTS
                      <= Fullest(k) + (grants'[k][j] - grants'[k][i]) * Fastest(k)
  BY DEF BurstIsCapped, Fullest, Fastest
<1> DEFINE recent == Recent(k)
<1>1. recent \in Seq(0..now) /\ (recent # <<>> => recent = grants[k])
  BY CallWrites
<1>2. grants'[k] \in {recent, Append(recent, now)}
  BY CallWrites
<1>3. CASE j \in DOMAIN recent
  <2>1. recent = grants[k] /\ j \in DOMAIN grants[k]
    BY <1>1, <1>3
  <2>2. grants'[k][j] = recent[j] /\ grants'[k][i] = recent[i]
    <3> HIDE DEF recent
    <3>1. j \in 1..Len(recent) /\ i \in 1..Len(recent)
      BY <1>1, <1>3
    <3> QED BY <1>1, <1>2, <3>1
  <2>3. (j - i + 1) * PARTS <= Fullest(k) + (grants[k][j] - grants[k][i]) * Fastest(k)
    BY <2>1 DEF BurstIsCapped, Fullest, Fastest
  <2> QED BY <2>1, <2>2, <2>3
<1>4. CASE j \notin DOMAIN recent
  <2>1. k = Key(l, c) /\ grants'[k] = Append(recent, now) /\ grants'[k] # recent
    BY <1>4, CallWrites
  <2> HIDE DEF recent
  <2>2. j = Len(grants'[k]) /\ grants'[k][j] = now /\ i \in DOMAIN grants'[k]
    BY <1>1, <1>4, <2>1
  <2>3. (Len(grants'[k]) - i + 1) * PARTS + buckets'[k].tokens
          <= Fullest(k) + (buckets'[k].lastRefill - grants'[k][i]) * Fastest(k)
        /\ k \in DOMAIN buckets'
    BY <2>2 DEF BurstInv, Fullest, Fastest
  <2>4. buckets'[k].lastRefill = now
    <3>1. buckets'[k] = [tokens |-> Left(Found(l, k)), lastRefill |-> now]
      BY <2>1, CallWrites
    <3> QED BY <3>1
  <2>5. buckets'[k].tokens \in 0..Fullest(k) /\ Fullest(k) \in Nat /\ Fastest(k) \in Nat
    BY <2>3, Bounds DEF TypeInv, RateTypeOK, Fullest
  <2> DEFINE spent == (j - i + 1) * PARTS
             bound == (now - grants'[k][i]) * Fastest(k)
             rest == buckets'[k].tokens
  <2>6. spent \in Nat /\ bound \in Int /\ rest \in Nat
    <3>1. j - i + 1 \in Nat
      BY <1>1, <2>1, <2>2
    <3>2. now \in Nat /\ grants'[k][i] \in Int /\ PARTS \in Nat
      <4>1. now \in Nat /\ PARTS \in Nat
        BY LimitAssumption DEF TypeInv, RateTypeOK
      <4>2. grants'[k][i] \in 0..now
        BY <1>1, <2>1, <2>2, <4>1
      <4> QED BY <4>1, <4>2
    <3>3. now - grants'[k][i] \in Int
      BY <3>2
    <3> QED BY <2>5, <3>1, <3>2, <3>3
  <2>7. spent + rest <= Fullest(k) + bound
    BY <2>2, <2>3, <2>4
  <2> HIDE DEF spent, bound, rest
  <2>8. spent <= Fullest(k) + bound
    BY <2>5, <2>6, <2>7
  <2> QED BY <2>2, <2>8 DEF spent, bound
<1> QED BY <1>3, <1>4

---------------------------------------------------------------------------
(* Promises *)

LEMMA CallPromises ==
  ASSUME TypeInv, PromiseInv, NEW l \in Limiters, NEW c \in Clients, checkRateLimit(l, c)
  PROVE  PromiseInv'
<1> SUFFICES ASSUME NEW k \in DOMAIN promises', k \in DOMAIN buckets'
             PROVE  /\ buckets'[k].lastRefill <= promises'[k].at
                    /\ buckets'[k].tokens
                         + (promises'[k].at - buckets'[k].lastRefill) * REFILL[promises'[k].limiter]
                         >= PARTS
  BY DEF PromiseInv
<1>1. Key(l, c) \in Keys /\ l \in LimitersOf(Key(l, c))
  BY KeyOfLimiter
<1>2. k \in Keys
  <2>1. DOMAIN promises \subseteq Keys
    BY DEF TypeInv
  <2> QED BY <1>1, <2>1, CallWrites
<1>3. CASE k = Key(l, c)
  <2> DEFINE f == Found(l, k)
             w == Wait(f, l)
  <2>1. f < PARTS /\ buckets'[k] = [tokens |-> Left(f), lastRefill |-> now]
        /\ promises'[k] = [limiter |-> l, at |-> now + w]
    BY <1>1, <1>3, CallWrites
  <2>2. f \in Nat /\ PARTS \in Nat /\ REFILL[l] \in Nat \ {0}
    <3>1. Full(l) \in Nat /\ REFILL[l] \in Nat \ {0}
      BY <1>1, <1>3, Bounds
    <3>2. f \in 0..Full(l)
      BY <1>1, <1>3, Finds
    <3> QED BY <3>1, <3>2, LimitAssumption
  <2>3. w \in Nat /\ f + w * REFILL[l] >= PARTS
    <3> HIDE DEF f
    <3> QED BY <2>1, <2>2, WaitSuffices
  <2>4. now \in Nat
    BY LimitAssumption DEF TypeInv, RateTypeOK
  <2> HIDE DEF f, w
  <2>5. now <= now + w /\ (now + w) - now = w /\ Left(f) = f
    BY <2>1, <2>2, <2>3, <2>4 DEF Left
  <2> QED BY <2>1, <2>3, <2>5
<1>4. CASE k # Key(l, c)
  <2>1. k \in DOMAIN promises /\ promises'[k] = promises[k]
        /\ k \in DOMAIN buckets /\ buckets'[k] = buckets[k]
    BY <1>2, <1>4, CallWrites
  <2> QED BY <2>1 DEF PromiseInv
<1> QED BY <1>3, <1>4

LEMMA PromisesKept ==
  ASSUME TypeInv, PromiseInv
  PROVE  RetryAfterIsKept
<1> SUFFICES ASSUME NEW k \in DOMAIN promises, promises[k].at <= now
             PROVE  Found(promises[k].limiter, k) >= PARTS
  BY DEF RetryAfterIsKept
<1> DEFINE l == promises[k].limiter
           at == promises[k].at
<1>1. k \in Keys /\ l \in LimitersOf(k) /\ at \in Nat
  BY DEF TypeInv
<1>2. Full(l) \in Nat /\ Full(l) >= PARTS /\ REFILL[l] \in Nat
  BY <1>1, Bounds
<1>3. CASE k \notin DOMAIN Swept(l)
  BY <1>1, <1>2, <1>3, Finds
<1>4. CASE k \in DOMAIN Swept(l)
  <2> DEFINE b == buckets[k].lastRefill
             t == buckets[k].tokens
             r == REFILL[l]
  <2>1. k \in DOMAIN buckets /\ Found(l, k) \in {Full(l), Regained(buckets[k], l)}
    BY <1>1, <1>4, Finds
  <2>2. b <= at /\ t + (at - b) * r >= PARTS
    BY <2>1 DEF PromiseInv
  <2>3. b \in Nat /\ t \in Nat /\ now \in Nat /\ PARTS \in Nat
    <3>1. b \in 0..now /\ t \in 0..Fullest(k) /\ now \in 0..Horizon
      BY <2>1 DEF TypeInv, RateTypeOK, Fullest
    <3>2. Fullest(k) \in Nat
      BY <1>1, Bounds
    <3> QED BY <3>1, <3>2, LimitAssumption
  <2>4. Regained(buckets[k], l) = t + (now - b) * r
    BY <1>1, <2>1, Regains
  <2> HIDE DEF b, t
  <2>5. at - b \in Nat /\ now - b \in Nat /\ at - b <= now - b
    BY <1>1, <2>2, <2>3
  <2>6. r * (at - b) <= r * (now - b) /\ r * (at - b) = (at - b) * r
        /\ r * (now - b) = (now - b) * r
    BY <1>2, <2>5, FasterRefillsMore
  <2>7. (at - b) * r \in Nat /\ (now - b) * r \in Nat
    BY <1>2, <2>5
  <2>8. t + (now - b) * r >= PARTS
    BY <2>2, <2>3, <2>6, <2>7
  <2> QED BY <1>2, <2>1, <2>4, <2>8
<1> QED BY <1>3, <1>4

---------------------------------------------------------------------------
(* The limiter *)

Inv == TypeInv /\ BurstInv /\ BurstIsCapped /\ PromiseInv

LEMMA Start == Init => Inv
<1> SUFFICES ASSUME Init PROVE Inv
  OBVIOUS
<1>1. DOMAIN buckets = {} /\ DOMAIN promises = {} /\ \A k \in Keys : DOMAIN grants[k] = {}
  BY DEF Init
<1>2. BurstInv /\ BurstIsCapped
  BY <1>1 DEF BurstInv, BurstIsCapped
<1>3. PromiseInv
  BY <1>1 DEF PromiseInv
<1> QED BY <1>2, <1>3, StartTyped DEF Inv

LEMMA Step == Inv /\ [Next]_vars => Inv'
<1> SUFFICES ASSUME Inv, [Next]_vars PROVE Inv'
  OBVIOUS
<1> USE DEF Inv
<1>1. ASSUME NEW l \in Limiters, NEW c \in Clients, checkRateLimit(l, c) PROVE Inv'
  <2>1. TypeInv'
    BY <1>1, CallTyped
  <2>2. BurstInv'
    BY <1>1, CallBurst
  <2>3. BurstIsCapped'
    BY <1>1, <2>1, <2>2, CallCapped
  <2>4. PromiseInv'
    BY <1>1, CallPromises
  <2> QED BY <2>1, <2>2, <2>3, <2>4
<1>2. ASSUME Tick PROVE Inv'
  <2>1. buckets' = buckets /\ grants' = grants /\ promises' = promises
    BY <1>2 DEF Tick
  <2>2. BurstInv' /\ BurstIsCapped' /\ PromiseInv'
    BY <2>1 DEF BurstInv, BurstIsCapped, PromiseInv, Fullest, Fastest
  <2> QED BY <1>2, <2>2, TickTyped
<1>3. ASSUME UNCHANGED vars PROVE Inv'
  BY <1>3 DEF vars, TypeInv, RateTypeOK, BurstInv, BurstIsCapped, PromiseInv, Fullest, Fastest
<1>4. {"validation", "inscription"} \subseteq Limiters /\ Forms \subseteq Limiters
  BY DEF Limiters
<1> QED BY <1>1, <1>2, <1>3, <1>4 DEF Next, Validate, JoinList, Submit

LEMMA Inductive == Spec => []Inv
BY Start, Step, PTL DEF Spec

(* Every bucket belongs to a client and a limiter, never holds more than the      *)
(* largest of those that share it nor was refilled in the future, whoever calls   *)
(* and whoever sweeps (apps/web/src/lib/rate-limit.ts, checkRateLimit and sweep). *)
THEOREM RateTyped == Spec => []RateTypeOK
<1>1. Inv => RateTypeOK
  BY DEF Inv, TypeInv
<1> QED BY <1>1, Inductive, PTL

(* Between two sweeps no client is let in more often than a burst and the refill  *)
(* of the time elapsed allow (checkRateLimit), whatever the limiters that share   *)
(* its bucket.                                                                    *)
THEOREM BurstCapped == Spec => []BurstIsCapped
<1>1. Inv => BurstIsCapped
  BY DEF Inv
<1> QED BY <1>1, Inductive, PTL

(* The wait announced with a refusal (retryAfterSeconds) is enough: who stays     *)
(* away that long is let in on its return, although others sweep meanwhile.       *)
THEOREM RetryKept == Spec => []RetryAfterIsKept
<1>1. Inv => RetryAfterIsKept
  BY PromisesKept DEF Inv
<1> QED BY <1>1, Inductive, PTL
==============================================================================
