------------------------------ MODULE RateLimiter ------------------------------
(***************************************************************************)
(* The in-memory rate limiter (platform/security/ratelimit.go) under the   *)
(* requests it limits: login, which pardons its key when it succeeds, and  *)
(* sign-up or the creation of a room, which do not (auth/handler.go,       *)
(* rooms/handler.go).                                                      *)
(*                                                                         *)
(* Time is a clock of ticks and tokens are counted in ticks: one unit comes *)
(* back per tick, a request costs Cost of them (1 / rate), a bucket holds  *)
(* Full (burst * Cost). The code's floating-point tokens are thus exact.   *)
(* Allow reads the time just before it takes the mutex; here both are one  *)
(* step. The sweeper works with the time its ticker sent, which may be old. *)
(***************************************************************************)
EXTENDS Integers

CONSTANTS
  Keys,        \* limitKey's action and address, or a user
  Cost,        \* ticks in which one token comes back
  Full,        \* what a bucket holds, in ticks
  TTL,         \* the ticker's period
  SweepDelay,  \* bound: how late the sweeper serves a tick
  MaxTime,     \* bound: ticks of a behaviour
  MaxChecking  \* bound: requests of a key in progress

ASSUME CostAssumption == Cost \in Nat \ {0}
\* Both limiters of main.go refill within their TTL: 1 and 5 minutes of 15.
ASSUME FullAssumption == Full \in Cost .. TTL
ASSUME TTLAssumption == TTL \in Nat /\ MaxTime \in Nat /\ MaxChecking \in Nat
ASSUME DelayAssumption == SweepDelay \in 0 .. TTL - 1

VARIABLES
  clock,
  buckets,   \* RateLimiter.buckets: tokens and last, by the keys it has
  nextTick,  \* when the ticker fires next
  ticked,    \* the ticker's channel of one: a time, or NoTick
  sweeping,  \* Close has not been called
  checking,  \* by key: requests granted whose handler still runs
  verdict,   \* by key: what Allow returned last
  granted    \* history, by key and time: what the requests granted then or later,
             \* and since the key was last reset, have cost

vars == <<clock, buckets, nextTick, ticked, sweeping, checking, verdict, granted>>

NoTick == -1
Times == 0 .. MaxTime
Bucket == [tokens : 0 .. Full - 1, last : Times]

TypeOK ==
  /\ clock \in Times
  /\ DOMAIN buckets \subseteq Keys
  /\ \A k \in DOMAIN buckets : buckets[k] \in Bucket
  /\ nextTick \in Nat
  /\ ticked \in Times \cup {NoTick}
  /\ sweeping \in BOOLEAN
  /\ checking \in [Keys -> 0 .. MaxChecking]
  /\ verdict \in [Keys -> {"none", "granted", "denied"}]
  /\ granted \in [Keys -> [Times -> Nat]]

Init ==
  /\ clock = 0
  /\ buckets = [k \in {} |-> 0]
  /\ nextTick = TTL /\ ticked = NoTick /\ sweeping = TRUE
  /\ checking = [k \in Keys |-> 0]
  /\ verdict = [k \in Keys |-> "none"]
  /\ granted = [k \in Keys |-> [a \in Times |-> 0]]

sweeper == <<nextTick, ticked, sweeping>>

-----------------------------------------------------------------------------
(* Allow and the handlers that call it                                     *)

\* The tokens of a bucket after the refill for the time elapsed, capped at burst.
Refill(k, now) ==
  LET tokens == buckets[k].tokens + (now - buckets[k].last)
  IN  IF tokens > Full THEN Full ELSE tokens

\* A key's bucket is stored.
Put(k, tokens, now) ==
  buckets' = [j \in DOMAIN buckets \cup {k} |->
                IF j = k THEN [tokens |-> tokens, last |-> now] ELSE buckets[j]]

Granted(k) ==
  /\ checking' = [checking EXCEPT ![k] = @ + 1]
  /\ verdict' = [verdict EXCEPT ![k] = "granted"]
  /\ granted' = [granted EXCEPT ![k] = [a \in Times |-> IF a <= clock THEN @[a] + Cost ELSE @[a]]]

Denied(k) ==
  /\ verdict' = [verdict EXCEPT ![k] = "denied"]
  /\ UNCHANGED <<checking, granted>>

\* Faulty variant: a new key starts full although this request is granted.
AllowNewFree(k) ==
  /\ k \notin DOMAIN buckets
  /\ checking[k] < MaxChecking
  /\ Put(k, Full, clock)
  /\ Granted(k)
  /\ UNCHANGED <<clock, sweeper>>

\* allowAt: a new key starts full, minus this request.
AllowNew(k) ==
  /\ k \notin DOMAIN buckets
  /\ checking[k] < MaxChecking
  /\ Put(k, Full - Cost, clock)
  /\ Granted(k)
  /\ UNCHANGED <<clock, sweeper>>

\* Faulty variant: a refused request leaves the time of the last refill alone.
AllowKnownKeepsLast(k) ==
  /\ k \in DOMAIN buckets
  /\ checking[k] < MaxChecking
  /\ IF Refill(k, clock) < Cost
     THEN Put(k, Refill(k, clock), buckets[k].last) /\ Denied(k)
     ELSE Put(k, Refill(k, clock) - Cost, clock) /\ Granted(k)
  /\ UNCHANGED <<clock, sweeper>>

\* allowAt: a known key is refilled, and pays if it can.
AllowKnown(k) ==
  /\ k \in DOMAIN buckets
  /\ checking[k] < MaxChecking
  /\ IF Refill(k, clock) < Cost
     THEN Put(k, Refill(k, clock), clock) /\ Denied(k)
     ELSE Put(k, Refill(k, clock) - Cost, clock) /\ Granted(k)
  /\ UNCHANGED <<clock, sweeper>>

\* A wrong password, a sign-up or the creation of a room: the handler ends.
Done(k) ==
  /\ checking[k] > 0
  /\ checking' = [checking EXCEPT ![k] = @ - 1]
  /\ UNCHANGED <<clock, buckets, sweeper, verdict, granted>>

\* login succeeds: Reset deletes the bucket, whoever used it meanwhile.
Reset(k) ==
  /\ checking[k] > 0
  /\ checking' = [checking EXCEPT ![k] = @ - 1]
  /\ buckets' = [j \in DOMAIN buckets \ {k} |-> buckets[j]]
  /\ granted' = [granted EXCEPT ![k] = [a \in Times |-> 0]]
  /\ UNCHANGED <<clock, sweeper, verdict>>

-----------------------------------------------------------------------------
(* The sweeper                                                             *)

\* Time passes. The ticker drops a tick its channel has no room for.
Tick ==
  /\ clock < MaxTime
  /\ sweeping /\ ticked # NoTick => clock < ticked + SweepDelay
  /\ clock' = clock + 1
  /\ IF sweeping /\ clock' = nextTick
     THEN /\ nextTick' = nextTick + TTL
          /\ ticked' = IF ticked = NoTick THEN clock' ELSE ticked
     ELSE UNCHANGED <<nextTick, ticked>>
  /\ UNCHANGED <<buckets, sweeping, checking, verdict, granted>>

\* Faulty variants: the stored tokens are compared; a bucket goes with one token.
RefilledStored(k) == buckets[k].tokens >= Full
RefilledSome(k) == buckets[k].tokens + (ticked - buckets[k].last) >= Cost

\* A bucket that would have refilled by the time of the tick.
Refilled(k) == buckets[k].tokens + (ticked - buckets[k].last) >= Full

\* One round of the loop, under the mutex.
Sweep ==
  /\ sweeping
  /\ ticked # NoTick
  /\ buckets' = [k \in {j \in DOMAIN buckets : ~Refilled(j)} |-> buckets[k]]
  /\ ticked' = NoTick
  /\ UNCHANGED <<clock, nextTick, sweeping, checking, verdict, granted>>

\* The process ends: the sweeper does, with or without a tick in its channel.
Close ==
  /\ sweeping
  /\ sweeping' = FALSE
  /\ UNCHANGED <<clock, buckets, nextTick, ticked, checking, verdict, granted>>

Next ==
  \/ Tick \/ Sweep \/ Close
  \/ \E k \in Keys : AllowNew(k) \/ AllowKnown(k) \/ Done(k) \/ Reset(k)

Spec == Init /\ [][Next]_vars

-----------------------------------------------------------------------------
(* Properties                                                              *)

\* In every period without a reset of its key, however it falls between refills and
\* sweeps, requests are granted for no more than the burst and what came back in the
\* period (ratelimit.go:36).
RateBound ==
  \A k \in Keys : \A a \in 0 .. clock : granted[k][a] <= Full + (clock - a)

\* While the sweeper runs, a bucket nobody asks for is gone after two periods and the
\* sweeper's delay: the map does not grow with keys of the past (ratelimit.go:103).
IdleBucketsGo ==
  sweeping => \A k \in DOMAIN buckets : clock - buckets[k].last <= 2 * TTL + SweepDelay

\* What a key has: a key without a bucket has a full one.
Level(k) == IF k \in DOMAIN buckets THEN Refill(k, clock) ELSE Full

Promise == INSTANCE TokenBucket WITH level <- [k \in Keys |-> Level(k)]

\* Lazy refills, creation on demand and the sweep are invisible: a swept bucket is one
\* that never went away (ratelimit.go:115), and nobody is refused who has a token.
RefinesBucket == Promise!Spec
=============================================================================
