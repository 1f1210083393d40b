----------------------------- MODULE RateLimit -----------------------------
(***************************************************************************)
(* The rate limiter of the web application (apps/web/src/lib/rate-limit.ts)*)
(* and the pages that call it.  The buckets live in one map of the         *)
(* process: validating and joining the waiting list share the bucket of    *)
(* their client, each form has a bucket of its own; and whoever calls      *)
(* first once the interval is over sweeps the buckets of all of them.      *)
(*                                                                         *)
(* Tokens are counted in PARTS, so that what a second refills is whole.    *)
(* The clock never steps back.                                             *)
(***************************************************************************)
EXTENDS Naturals, Sequences, Functions, FiniteSetsExt

CONSTANTS
  Clients,          \* what clientKeyFromHeaders tells apart
  Forms,            \* the forms that have a limiter: sign-in, registration, lost password
  CAPACITY,         \* of each limiter, in tokens
  REFILL,           \* of each limiter, in parts per second
  PARTS,            \* of a token
  SWEEP_INTERVAL,
  Horizon           \* a bound of a model: the last second

Limiters == {"validation", "inscription"} \cup Forms

ASSUME LimitAssumption ==
  /\ PARTS \in Nat \ {0} /\ SWEEP_INTERVAL \in Nat /\ Horizon \in Nat
  /\ CAPACITY \in [Limiters -> Nat \ {0}] /\ REFILL \in [Limiters -> Nat \ {0}]

VARIABLES
  buckets,          \* key |-> [tokens, lastRefill]
  lastSweep, now,
  grants,           \* history: when each key was let in since the last sweep
  promises          \* history: who has been told when to come back, and has stayed away

vars == <<buckets, lastSweep, now, grants, promises>>

Key(limiter, client) ==
  IF limiter \in Forms THEN <<limiter, client>> ELSE <<client>>

Keys == {Key(l, c) : l \in Limiters, c \in Clients}

LimitersOf(key) == {l \in Limiters : \E c \in Clients : Key(l, c) = key}

Full(limiter) == CAPACITY[limiter] * PARTS

RateTypeOK ==
  /\ \A k \in DOMAIN buckets :
       /\ k \in Keys
       /\ buckets[k].tokens \in 0..Max({Full(l) : l \in LimitersOf(k)})
       /\ buckets[k].lastRefill \in 0..now
  /\ lastSweep \in 0..now /\ now \in 0..Horizon

Init ==
  /\ buckets = <<>> /\ lastSweep = 0 /\ now = 0
  /\ grants = [k \in Keys |-> <<>>]
  /\ promises = <<>>

Regained(bucket, limiter) == bucket.tokens + (now - bucket.lastRefill) * REFILL[limiter]

\* Mutation: nothing stops an idle bucket from filling up.
RefilledOver(bucket, limiter) == Regained(bucket, limiter)

Refilled(bucket, limiter) == Min({Full(limiter), Regained(bucket, limiter)})

SweepIsDue == now - lastSweep >= SWEEP_INTERVAL

\* sweep: with the capacity and the refill of the caller, over the buckets of all.
Swept(limiter) ==
  IF SweepIsDue
  THEN Restrict(buckets, {k \in DOMAIN buckets : Regained(buckets[k], limiter) < Full(limiter)})
  ELSE buckets

\* Mutation: the wait is rounded down.
WaitCut(tokens, limiter) == Max({1, (PARTS - tokens) \div REFILL[limiter]})

\* retryAfterSeconds of a refusal.
Wait(tokens, limiter) == Max({1, (PARTS - tokens + REFILL[limiter] - 1) \div REFILL[limiter]})

Stored(table, key, row) == [k \in DOMAIN table \cup {key} |-> IF k = key THEN row ELSE table[k]]

\* What the caller finds in its bucket.
Found(limiter, key) ==
  IF key \in DOMAIN Swept(limiter) THEN Refilled(Swept(limiter)[key], limiter) ELSE Full(limiter)

\* Every key's grants, forgotten by a sweep.
Recent(key) == IF SweepIsDue THEN <<>> ELSE grants[key]

checkRateLimit(limiter, client) ==
  LET key == Key(limiter, client)
      tokens == Found(limiter, key)
      allowed == tokens >= PARTS
  IN /\ buckets' = Stored(Swept(limiter), key,
                     [tokens |-> IF allowed THEN tokens - PARTS ELSE tokens, lastRefill |-> now])
     /\ lastSweep' = IF SweepIsDue THEN now ELSE lastSweep
     /\ grants' = [k \in Keys |-> IF k = key /\ allowed THEN Append(Recent(k), now) ELSE Recent(k)]
     /\ promises' = IF allowed
                    THEN Restrict(promises, DOMAIN promises \ {key})
                    ELSE Stored(promises, key,
                           [limiter |-> limiter, at |-> now + Wait(tokens, limiter)])
     /\ UNCHANGED now

\* POST /api/valider, POST /api/inscription, and the server action of a form.
Validate(c)     == checkRateLimit("validation", c)
JoinList(c)     == checkRateLimit("inscription", c)
Submit(form, c) == checkRateLimit(form, c)

Tick ==
  /\ now < Horizon
  /\ now' = now + 1
  /\ UNCHANGED <<buckets, lastSweep, grants, promises>>

Next ==
  \/ \E c \in Clients : Validate(c) \/ JoinList(c) \/ \E form \in Forms : Submit(form, c)
  \/ Tick

Spec == Init /\ [][Next]_vars

---------------------------------------------------------------------------
(* Correctness *)

(* Between two sweeps, what a key is let in for in any stretch of time is at most *)
(* a burst and what that time refills, at the pace of the fastest of the limiters *)
(* that share the key.  (A sweep with another limiter's pace may forget a bucket  *)
(* that is not full: across a sweep this does not hold.)                          *)
BurstIsCapped ==
  \A k \in Keys : \A j \in DOMAIN grants[k] : \A i \in 1..j :
    (j - i + 1) * PARTS
      <= Max({Full(l) : l \in LimitersOf(k)})
         + (grants[k][j] - grants[k][i]) * Max({REFILL[l] : l \in LimitersOf(k)})

(* A client that has been refused and stays away for as long as it has been told  *)
(* is let in when it comes back to the same page, sweeps and the other limiter of *)
(* its bucket notwithstanding.                                                    *)
RetryAfterIsKept ==
  \A k \in DOMAIN promises :
    promises[k].at <= now => Found(promises[k].limiter, k) >= PARTS
=============================================================================
