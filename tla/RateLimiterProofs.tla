--------------------------- MODULE RateLimiterProofs ---------------------------
(***************************************************************************)
(* The theorems of RateLimiter, for any keys, rate, burst and period: its  *)
(* types, the bound on what is granted, the life of an idle bucket, and    *)
(* that lazy refills and the sweep implement TokenBucket.                  *)
(***************************************************************************)
EXTENDS RateLimiter, TLAPS

\* Buckets and ticks are of the past.
PastOnly ==
  /\ \A k \in DOMAIN buckets : buckets[k].last <= clock
  /\ ticked # NoTick => ticked <= clock

\* What was granted and what is left come out of the burst and the refill.
Budget ==
  \A k \in Keys :
    /\ \A a \in 0 .. clock : granted[k][a] + Level(k) <= Full + (clock - a)
    /\ \A a \in Times : clock < a => granted[k][a] = 0

\* The ticker is less than a period ahead and no tick is ever dropped. A bucket that
\* survived the sweep of the last tick was not full at it.
Swept ==
  sweeping =>
    /\ clock < nextTick /\ nextTick <= clock + TTL
    /\ ticked # NoTick => ticked = nextTick - TTL /\ clock <= ticked + SweepDelay
    /\ \A k \in DOMAIN buckets :
         nextTick - (IF ticked = NoTick THEN TTL ELSE TTL + TTL) - buckets[k].last < Full

LimiterInv == TypeOK /\ PastOnly /\ Budget /\ Swept

USE DEF NoTick

\* The assumptions in the form the steps use.
LEMMA Constants ==
  /\ Cost \in Nat /\ Full \in Nat /\ TTL \in Nat /\ SweepDelay \in Nat /\ MaxTime \in Nat
  /\ MaxChecking \in Nat
  /\ 1 <= Cost /\ Cost <= Full /\ Full <= TTL /\ SweepDelay < TTL
BY CostAssumption, FullAssumption, TTLAssumption, DelayAssumption

-----------------------------------------------------------------------------
(* Levels                                                                  *)

\* A refill adds what is missing at most.
LEMMA RefillRange ==
  ASSUME TypeOK, PastOnly, NEW k \in DOMAIN buckets
  PROVE  /\ buckets[k].tokens \in 0 .. Full - 1 /\ buckets[k].last \in Times /\ clock \in Times
         /\ Refill(k, clock) \in 0 .. Full
         /\ Level(k) = Refill(k, clock)
<1>1. buckets[k] \in Bucket /\ clock \in Times
  BY DEF TypeOK
<1>2. buckets[k].tokens \in 0 .. Full - 1 /\ buckets[k].last \in Times
  BY <1>1 DEF Bucket
<1>3. buckets[k].last <= clock
  BY DEF PastOnly
<1> QED
  BY <1>1, <1>2, <1>3, Constants DEF Refill, Level, Times

\* Every key has a level between nothing and the burst.
LEMMA LevelRange ==
  ASSUME TypeOK, PastOnly, NEW k \in Keys
  PROVE  Level(k) \in 0 .. Full
<1>1. CASE k \in DOMAIN buckets
  BY <1>1, RefillRange
<1>2. CASE k \notin DOMAIN buckets
  BY <1>2, Constants DEF Level
<1> QED
  BY <1>1, <1>2

\* Storing a bucket sets the level of its key and of no other.
LEMMA PutLevel ==
  ASSUME TypeOK, NEW k \in Keys, NEW t \in 0 .. Full, Put(k, t, clock), clock' = clock
  PROVE  /\ DOMAIN buckets' = DOMAIN buckets \cup {k}
         /\ buckets'[k].tokens = t /\ buckets'[k].last = clock
         /\ \A j \in DOMAIN buckets \ {k} : buckets'[j] = buckets[j]
         /\ Level(k)' = t
         /\ \A j \in Keys \ {k} : Level(j)' = Level(j)
<1>1. /\ DOMAIN buckets' = DOMAIN buckets \cup {k}
      /\ buckets'[k] = [tokens |-> t, last |-> clock]
      /\ \A j \in DOMAIN buckets \ {k} : buckets'[j] = buckets[j]
  BY DEF Put
<1>2. clock \in Int
  BY Constants DEF TypeOK, Times
<1>3. Level(k)' = t
  BY <1>1, <1>2, Constants DEF Level, Refill
<1>4. ASSUME NEW j \in Keys \ {k}
      PROVE  Level(j)' = Level(j)
  BY <1>1 DEF Level, Refill
<1> QED
  BY <1>1, <1>3, <1>4

\* Removing buckets whose level is full changes no level.
LEMMA DropLevel ==
  ASSUME NEW D \in SUBSET DOMAIN buckets,
         buckets' = [j \in D |-> buckets[j]], clock' = clock
  PROVE  /\ \A j \in D : Level(j)' = Level(j)
         /\ \A j : j \notin D => Level(j)' = Full
BY DEF Level, Refill

\* A tick raises every level by one, up to the burst.
LEMMA TickLevel ==
  ASSUME TypeOK, PastOnly, Tick, NEW k \in Keys
  PROVE  Level(k)' = IF Level(k) < Full THEN Level(k) + 1 ELSE Full
<1>1. buckets' = buckets /\ clock' = clock + 1
  BY DEF Tick
<1>2. CASE k \in DOMAIN buckets
  <2>1. /\ buckets[k].tokens \in 0 .. Full - 1 /\ buckets[k].last \in Times /\ clock \in Times
    BY <1>2, RefillRange
  <2>2. buckets[k].tokens \in Int /\ buckets[k].last \in Int /\ clock \in Int
    BY <2>1, Constants DEF Times
  <2> QED
    BY <1>1, <1>2, <2>2, Constants DEF Level, Refill
<1>3. CASE k \notin DOMAIN buckets
  BY <1>1, <1>3, Constants DEF Level
<1> QED
  BY <1>2, <1>3

\* Allow, in terms of levels: a grant pays, a refusal changes none.
LEMMA AllowLevel ==
  ASSUME TypeOK, PastOnly, NEW k \in Keys, AllowNew(k) \/ AllowKnown(k)
  PROVE  /\ \E t \in 0 .. Full - 1 : Put(k, t, clock)
         /\ \/ Cost <= Level(k) /\ Level(k)' = Level(k) - Cost /\ Granted(k)
            \/ Level(k) < Cost /\ Level(k)' = Level(k) /\ Denied(k)
         /\ \A j \in Keys \ {k} : Level(j)' = Level(j)
         /\ clock' = clock /\ UNCHANGED sweeper
<1>0. clock' = clock /\ UNCHANGED sweeper
  BY DEF AllowNew, AllowKnown
<1>1. CASE AllowNew(k)
  <2>1. Level(k) = Full /\ Put(k, Full - Cost, clock) /\ Granted(k)
    BY <1>1 DEF AllowNew, Level
  <2>2. Full - Cost \in 0 .. Full - 1 /\ Full - Cost \in 0 .. Full /\ Cost <= Full
    BY Constants
  <2>3. /\ Level(k)' = Full - Cost
        /\ \A j \in Keys \ {k} : Level(j)' = Level(j)
    BY <1>0, <2>1, <2>2, PutLevel
  <2> QED
    BY <1>0, <2>1, <2>2, <2>3
<1>2. CASE AllowKnown(k)
  <2>1. Level(k) \in 0 .. Full /\ Level(k) = Refill(k, clock)
    BY <1>2, RefillRange DEF AllowKnown
  <2>2. CASE Level(k) < Cost
    <3>1. Put(k, Level(k), clock) /\ Denied(k)
      BY <1>2, <2>1, <2>2 DEF AllowKnown
    <3>2. Level(k) \in 0 .. Full - 1
      BY <2>1, <2>2, Constants
    <3>3. /\ Level(k)' = Level(k)
          /\ \A j \in Keys \ {k} : Level(j)' = Level(j)
      BY <1>0, <2>1, <3>1, PutLevel
    <3> QED
      BY <1>0, <2>2, <3>1, <3>2, <3>3
  <2>3. CASE ~(Level(k) < Cost)
    <3>1. Put(k, Level(k) - Cost, clock) /\ Granted(k)
      BY <1>2, <2>1, <2>3 DEF AllowKnown
    <3>2. Level(k) - Cost \in 0 .. Full - 1 /\ Level(k) - Cost \in 0 .. Full /\ Cost <= Level(k)
      BY <2>1, <2>3, Constants
    <3>3. /\ Level(k)' = Level(k) - Cost
          /\ \A j \in Keys \ {k} : Level(j)' = Level(j)
      BY <1>0, <3>1, <3>2, PutLevel
    <3> QED
      BY <1>0, <3>1, <3>2, <3>3
  <2> QED
    BY <2>2, <2>3
<1> QED
  BY <1>1, <1>2

\* The sweep removes only buckets whose level is full.
LEMMA SweepLevel ==
  ASSUME TypeOK, PastOnly, Sweep, NEW k \in Keys
  PROVE  Level(k)' = Level(k)
<1> DEFINE D == {j \in DOMAIN buckets : ~Refilled(j)}
<1>1. buckets' = [j \in D |-> buckets[j]] /\ clock' = clock /\ ticked # NoTick
  BY DEF Sweep
<1>2. CASE k \in D
  BY <1>1, <1>2, DropLevel
<1>3. CASE k \in DOMAIN buckets \ D
  <2>1. buckets[k].tokens + (ticked - buckets[k].last) >= Full
    BY <1>3 DEF Refilled
  <2>2. ticked \in Int /\ clock \in Int /\ ticked <= clock
    BY <1>1, Constants DEF TypeOK, PastOnly, Times
  <2>3. k \in DOMAIN buckets
    BY <1>3
  <2>4. /\ buckets[k].tokens \in 0 .. Full - 1 /\ buckets[k].last \in Times
        /\ Refill(k, clock) \in 0 .. Full /\ Level(k) = Refill(k, clock)
    BY <2>3, RefillRange
  <2>5. Level(k) = Full
    BY <2>1, <2>2, <2>4, Constants DEF Refill, Times
  <2>6. Level(k)' = Full
    BY <1>1, <1>3, DropLevel
  <2> QED
    BY <2>5, <2>6
<1>4. CASE k \notin DOMAIN buckets
  <2>1. k \notin D
    BY <1>4
  <2>2. Level(k)' = Full
    BY <1>1, <2>1, DropLevel
  <2> QED
    BY <1>4, <2>2 DEF Level
<1> QED
  BY <1>2, <1>3, <1>4

-----------------------------------------------------------------------------
(* The inductive invariant                                                 *)

\* The limiter starts without buckets and without debts.
LEMMA InvInit == Init => LimiterInv
<1> SUFFICES ASSUME Init
             PROVE  LimiterInv
  OBVIOUS
<1> USE DEF Init
<1>1. TypeOK
  <2>1. 0 \in Times /\ TTL \in Nat /\ 0 \in 0 .. MaxChecking
    BY Constants DEF Times
  <2>2. DOMAIN buckets = {}
    OBVIOUS
  <2> QED
    BY <2>1, <2>2 DEF TypeOK
<1>2. PastOnly
  BY DEF PastOnly
<1>3. Budget
  <2> SUFFICES ASSUME NEW k \in Keys
               PROVE  /\ \A a \in 0 .. clock : granted[k][a] + Level(k) <= Full + (clock - a)
                      /\ \A a \in Times : clock < a => granted[k][a] = 0
    BY DEF Budget
  <2>1. Level(k) = Full
    BY DEF Level
  <2>2. \A a \in Times : granted[k][a] = 0
    OBVIOUS
  <2>3. 0 \in Times
    BY Constants DEF Times
  <2> QED
    BY <2>1, <2>2, <2>3, Constants
<1>4. Swept
  BY Constants DEF Swept
<1> QED
  BY <1>1, <1>2, <1>3, <1>4 DEF LimiterInv

\* What is granted at the present counts for every start up to the present.
LEMMA GrantedSum ==
  ASSUME TypeOK, NEW k \in Keys, Granted(k)
  PROVE  /\ granted' \in [Keys -> [Times -> Nat]]
         /\ \A a \in Times : granted'[k][a] = IF a <= clock THEN granted[k][a] + Cost ELSE granted[k][a]
         /\ \A j \in Keys \ {k} : granted'[j] = granted[j]
<1> DEFINE G == [a \in Times |-> IF a <= clock THEN granted[k][a] + Cost ELSE granted[k][a]]
<1>1. granted \in [Keys -> [Times -> Nat]]
  BY DEF TypeOK
<1>2. G \in [Times -> Nat]
  BY <1>1, Constants
<1>3. granted' = [granted EXCEPT ![k] = G]
  BY DEF Granted
<1> QED
  BY <1>1, <1>2, <1>3

\* Types are kept by every step.
LEMMA TypeStep == LimiterInv /\ [Next]_vars => TypeOK'
<1> SUFFICES ASSUME LimiterInv, [Next]_vars
             PROVE  TypeOK'
  OBVIOUS
<1> USE DEF LimiterInv
<1>1. ASSUME NEW k \in Keys, AllowNew(k) \/ AllowKnown(k)
      PROVE  TypeOK'
  <2>1. PICK t \in 0 .. Full - 1 : Put(k, t, clock)
    BY <1>1, AllowLevel
  <2>2. DOMAIN buckets' \subseteq Keys /\ \A j \in DOMAIN buckets' : buckets'[j] \in Bucket
    BY <2>1 DEF Put, Bucket, TypeOK
  <2>3. clock' = clock /\ UNCHANGED sweeper
    BY <1>1, AllowLevel
  <2>4. CASE Granted(k)
    <3>1. checking[k] < MaxChecking /\ checking \in [Keys -> 0 .. MaxChecking]
      BY <1>1 DEF AllowNew, AllowKnown, TypeOK
    <3>2. checking' \in [Keys -> 0 .. MaxChecking]
      BY <2>4, <3>1, Constants DEF Granted
    <3>3. verdict' \in [Keys -> {"none", "granted", "denied"}]
      BY <2>4 DEF Granted, TypeOK
    <3>4. granted' \in [Keys -> [Times -> Nat]]
      BY <2>4, GrantedSum
    <3> QED
      BY <2>2, <2>3, <3>2, <3>3, <3>4 DEF TypeOK, sweeper
  <2>5. CASE Denied(k)
    BY <2>2, <2>3, <2>5 DEF TypeOK, sweeper, Denied
  <2> QED
    BY <1>1, <2>4, <2>5, AllowLevel
<1>2. ASSUME NEW k \in Keys, Done(k)
      PROVE  TypeOK'
  <2>1. checking' \in [Keys -> 0 .. MaxChecking]
    BY <1>2, Constants DEF Done, TypeOK
  <2> QED
    BY <1>2, <2>1 DEF Done, TypeOK, sweeper
<1>3. ASSUME NEW k \in Keys, Reset(k)
      PROVE  TypeOK'
  <2>1. checking' \in [Keys -> 0 .. MaxChecking]
    BY <1>3, Constants DEF Reset, TypeOK
  <2>2. DOMAIN buckets' \subseteq Keys /\ \A j \in DOMAIN buckets' : buckets'[j] \in Bucket
    BY <1>3 DEF Reset, TypeOK
  <2>3. granted' \in [Keys -> [Times -> Nat]]
    BY <1>3 DEF Reset, TypeOK
  <2> QED
    BY <1>3, <2>1, <2>2, <2>3 DEF Reset, TypeOK, sweeper
<1>4. ASSUME Tick
      PROVE  TypeOK'
  <2>1. clock' \in Times
    BY <1>4, Constants DEF Tick, TypeOK, Times
  <2>2. nextTick' \in Nat /\ ticked' \in Times \cup {NoTick}
    BY <1>4, <2>1, Constants DEF Tick, TypeOK
  <2> QED
    BY <1>4, <2>1, <2>2 DEF Tick, TypeOK
<1>5. ASSUME Sweep
      PROVE  TypeOK'
  <2>1. DOMAIN buckets' \subseteq Keys /\ \A j \in DOMAIN buckets' : buckets'[j] \in Bucket
    BY <1>5 DEF Sweep, TypeOK
  <2> QED
    BY <1>5, <2>1 DEF Sweep, TypeOK
<1>6. ASSUME Close
      PROVE  TypeOK'
  BY <1>6 DEF Close, TypeOK
<1>7. ASSUME UNCHANGED vars
      PROVE  TypeOK'
  BY <1>7 DEF vars, TypeOK
<1> QED
  BY <1>1, <1>2, <1>3, <1>4, <1>5, <1>6, <1>7 DEF Next

\* No step dates anything ahead of the clock.
LEMMA PastStep == LimiterInv /\ [Next]_vars => PastOnly'
<1> SUFFICES ASSUME LimiterInv, [Next]_vars
             PROVE  PastOnly'
  OBVIOUS
<1> USE DEF LimiterInv
<1>0. clock \in Int
  BY Constants DEF TypeOK, Times
<1>1. ASSUME NEW k \in Keys, AllowNew(k) \/ AllowKnown(k)
      PROVE  PastOnly'
  <2>1. PICK t \in 0 .. Full - 1 : Put(k, t, clock)
    BY <1>1, AllowLevel
  <2>2. clock' = clock /\ ticked' = ticked
    BY <1>1, AllowLevel DEF sweeper
  <2> QED
    BY <1>0, <2>1, <2>2 DEF Put, PastOnly
<1>2. ASSUME NEW k \in Keys, Done(k) \/ Reset(k)
      PROVE  PastOnly'
  BY <1>2 DEF Done, Reset, sweeper, PastOnly
<1>3. ASSUME Tick
      PROVE  PastOnly'
  <2>1. \A k \in DOMAIN buckets : buckets[k].last \in Int
    BY RefillRange, Constants DEF Times
  <2>2. ticked \in Int
    BY Constants DEF TypeOK, Times
  <2> QED
    BY <1>0, <1>3, <2>1, <2>2 DEF Tick, PastOnly
<1>4. ASSUME Sweep
      PROVE  PastOnly'
  BY <1>4 DEF Sweep, PastOnly
<1>5. ASSUME Close \/ UNCHANGED vars
      PROVE  PastOnly'
  BY <1>5 DEF Close, vars, PastOnly
<1> QED
  BY <1>1, <1>2, <1>3, <1>4, <1>5 DEF Next

\* What Budget says of one key.
WithinBudget(k) ==
  /\ \A a \in 0 .. clock : granted[k][a] + Level(k) <= Full + (clock - a)
  /\ \A a \in Times : clock < a => granted[k][a] = 0

\* A key whose level and account do not change stays within its budget.
LEMMA BudgetKept ==
  ASSUME NEW k \in Keys, WithinBudget(k),
         clock' = clock, granted'[k] = granted[k], Level(k)' = Level(k)
  PROVE  WithinBudget(k)'
BY DEF WithinBudget

\* Grants pay from the level, ticks raise level and allowance together.
LEMMA BudgetStep == LimiterInv /\ [Next]_vars => Budget'
<1> SUFFICES ASSUME LimiterInv, [Next]_vars, NEW k \in Keys
             PROVE  WithinBudget(k)'
  BY DEF Budget, WithinBudget
<1> USE DEF LimiterInv
<1>0. /\ WithinBudget(k) /\ clock \in Times /\ Level(k) \in 0 .. Full
      /\ \A a \in Times : granted[k][a] \in Nat
      /\ 0 .. clock \subseteq Times
  BY LevelRange, Constants DEF Budget, WithinBudget, TypeOK, Times
<1>1. ASSUME NEW j \in Keys, AllowNew(j) \/ AllowKnown(j)
      PROVE  WithinBudget(k)'
  <2>1. clock' = clock
    BY <1>1, AllowLevel
  <2>2. CASE j # k
    <3>1. Level(k)' = Level(k)
      BY <1>1, <2>2, AllowLevel
    <3>2. Granted(j) \/ Denied(j)
      BY <1>1, AllowLevel
    <3>3. granted'[k] = granted[k]
      BY <2>2, <3>2, GrantedSum DEF Denied
    <3> QED
      BY <1>0, <2>1, <3>1, <3>3, BudgetKept
  <2>3. CASE j = k /\ Denied(k) /\ Level(k)' = Level(k)
    BY <1>0, <2>1, <2>3, BudgetKept DEF Denied
  <2>4. CASE j = k /\ Granted(k) /\ Level(k)' = Level(k) - Cost
    <3>1. \A a \in Times : granted'[k][a] = IF a <= clock THEN granted[k][a] + Cost ELSE granted[k][a]
      BY <2>4, GrantedSum
    <3>2. ASSUME NEW a \in 0 .. clock
          PROVE  granted'[k][a] + Level(k)' <= Full + (clock' - a)
      <4>1. granted[k][a] + Level(k) <= Full + (clock - a) /\ granted[k][a] \in Nat
        BY <1>0 DEF WithinBudget
      <4>2. granted'[k][a] = granted[k][a] + Cost
        BY <1>0, <3>1, Constants DEF Times
      <4> QED
        BY <1>0, <2>1, <2>4, <4>1, <4>2, Constants DEF Times
    <3>3. ASSUME NEW a \in Times, clock < a
          PROVE  granted'[k][a] = 0
      BY <1>0, <3>1, <3>3, Constants DEF WithinBudget, Times
    <3> QED
      BY <2>1, <3>2, <3>3 DEF WithinBudget
  <2> QED
    BY <1>1, <2>2, <2>3, <2>4, AllowLevel
<1>2. ASSUME NEW j \in Keys, Done(j)
      PROVE  WithinBudget(k)'
  BY <1>0, <1>2, BudgetKept DEF Done, Level, Refill
<1>3. ASSUME NEW j \in Keys, Reset(j)
      PROVE  WithinBudget(k)'
  <2>1. clock' = clock /\ buckets' = [i \in DOMAIN buckets \ {j} |-> buckets[i]]
    BY <1>3 DEF Reset
  <2>2. CASE j = k
    <3>1. Level(k)' = Full
      BY <2>1, <2>2, DropLevel
    <3>2. \A a \in Times : granted'[k][a] = 0
      BY <1>3, <2>2 DEF Reset, TypeOK
    <3> QED
      BY <1>0, <2>1, <3>1, <3>2, Constants DEF WithinBudget, Times
  <2>3. CASE j # k
    <3>1. granted'[k] = granted[k]
      BY <1>3, <2>3 DEF Reset
    <3>2. CASE k \in DOMAIN buckets
      BY <1>0, <2>1, <2>3, <3>1, <3>2, DropLevel, BudgetKept
    <3>3. CASE k \notin DOMAIN buckets
      <4>1. Level(k)' = Full
        BY <2>1, <3>3, DropLevel
      <4>2. Level(k) = Full
        BY <3>3 DEF Level
      <4> QED
        BY <1>0, <2>1, <3>1, <4>1, <4>2, BudgetKept
    <3> QED
      BY <3>2, <3>3
  <2> QED
    BY <2>2, <2>3
<1>4. ASSUME Tick
      PROVE  WithinBudget(k)'
  <2>1. clock' = clock + 1 /\ granted' = granted
    BY <1>4 DEF Tick
  <2>2. Level(k)' = IF Level(k) < Full THEN Level(k) + 1 ELSE Full
    BY <1>4, TickLevel
  <2>3. ASSUME NEW a \in 0 .. clock'
        PROVE  granted'[k][a] + Level(k)' <= Full + (clock' - a)
    <3>1. CASE a \in 0 .. clock
      <4>1. granted[k][a] + Level(k) <= Full + (clock - a) /\ granted[k][a] \in Nat
        BY <1>0, <3>1 DEF WithinBudget
      <4> QED
        BY <1>0, <2>1, <2>2, <3>1, <4>1, Constants DEF Times
    <3>2. CASE a = clock + 1
      <4>1. a \in Times /\ clock < a
        BY <1>0, <1>4, <3>2, Constants DEF Tick, Times
      <4>2. granted[k][a] = 0
        BY <1>0, <4>1 DEF WithinBudget
      <4> QED
        BY <1>0, <2>1, <2>2, <3>2, <4>2, Constants DEF Times
    <3> QED
      BY <1>0, <2>1, <3>1, <3>2, Constants DEF Times
  <2>4. ASSUME NEW a \in Times, clock' < a
        PROVE  granted'[k][a] = 0
    BY <1>0, <2>1, <2>4, Constants DEF WithinBudget, Times
  <2> QED
    BY <2>3, <2>4 DEF WithinBudget
<1>5. ASSUME Sweep
      PROVE  WithinBudget(k)'
  <2>1. clock' = clock /\ granted' = granted /\ Level(k)' = Level(k)
    BY <1>5, SweepLevel DEF Sweep
  <2> QED
    BY <1>0, <2>1, BudgetKept
<1>6. ASSUME Close \/ UNCHANGED vars
      PROVE  WithinBudget(k)'
  BY <1>0, <1>6, BudgetKept DEF Close, vars, Level, Refill
<1> QED
  BY <1>1, <1>2, <1>3, <1>4, <1>5, <1>6 DEF Next

\* The ticker and the buckets' ages.
LEMMA SweptStep == LimiterInv /\ [Next]_vars => Swept'
<1> SUFFICES ASSUME LimiterInv, [Next]_vars, sweeping'
             PROVE  Swept'
  BY DEF Swept
<1> USE DEF LimiterInv
<1>0. /\ clock \in Int /\ nextTick \in Int /\ ticked \in Int
      /\ \A j \in DOMAIN buckets : buckets[j].last \in Int /\ buckets[j].last <= clock
                                  /\ buckets[j].tokens \in Nat
  BY RefillRange, Constants DEF TypeOK, PastOnly, Times
<1>1. ASSUME NEW k \in Keys, AllowNew(k) \/ AllowKnown(k)
      PROVE  Swept'
  <2>1. PICK t \in 0 .. Full - 1 : Put(k, t, clock)
    BY <1>1, AllowLevel
  <2>2. clock' = clock /\ UNCHANGED sweeper
    BY <1>1, AllowLevel
  <2>3. \A j \in DOMAIN buckets' : buckets'[j].last = clock \/ (j \in DOMAIN buckets /\ buckets'[j] = buckets[j])
    BY <2>1 DEF Put
  <2>4. nextTick - TTL <= clock
    BY <1>0, <2>2, Constants DEF Swept, sweeper
  <2>5. ASSUME NEW j \in DOMAIN buckets'
        PROVE  nextTick' - (IF ticked' = NoTick THEN TTL ELSE TTL + TTL) - buckets'[j].last < Full
    <3>1. CASE buckets'[j].last = clock
      BY <1>0, <2>2, <2>4, <3>1, Constants DEF sweeper
    <3>2. CASE j \in DOMAIN buckets /\ buckets'[j] = buckets[j]
      BY <2>2, <3>2 DEF sweeper, Swept
    <3> QED
      BY <2>3, <3>1, <3>2
  <2> QED
    BY <2>2, <2>5 DEF Swept, sweeper
<1>2. ASSUME NEW k \in Keys, Done(k) \/ Reset(k)
      PROVE  Swept'
  <2>1. /\ clock' = clock /\ UNCHANGED sweeper
        /\ \A j \in DOMAIN buckets' : j \in DOMAIN buckets /\ buckets'[j] = buckets[j]
    BY <1>2 DEF Done, Reset
  <2> QED
    BY <2>1 DEF Swept, sweeper
<1>3. ASSUME Tick
      PROVE  Swept'
  <2>1. clock' = clock + 1 /\ buckets' = buckets /\ sweeping
    BY <1>3 DEF Tick
  <2>2. CASE clock' = nextTick
    <3>1. ticked = NoTick
      BY <1>0, <1>3, <2>1, <2>2, Constants DEF Tick, Swept
    <3>2. nextTick' = nextTick + TTL /\ ticked' = clock' /\ ticked' # NoTick
      BY <1>0, <1>3, <2>1, <2>2, <3>1, Constants DEF Tick, TypeOK, Times
    <3>3. ASSUME NEW j \in DOMAIN buckets
          PROVE  nextTick' - (TTL + TTL) - buckets[j].last < Full
      BY <1>0, <2>1, <3>1, <3>2, Constants DEF Swept
    <3> QED
      BY <1>0, <2>1, <2>2, <3>2, <3>3, Constants DEF Swept
  <2>3. CASE clock' # nextTick
    <3>1. nextTick' = nextTick /\ ticked' = ticked
      BY <1>3, <2>3 DEF Tick
    <3>2. ticked # NoTick => clock < ticked + SweepDelay
      BY <1>3, <2>1 DEF Tick
    <3> QED
      BY <1>0, <2>1, <2>3, <3>1, <3>2, Constants DEF Swept
  <2> QED
    BY <2>2, <2>3
<1>4. ASSUME Sweep
      PROVE  Swept'
  <2>1. /\ sweeping /\ ticked # NoTick /\ ticked' = NoTick
        /\ clock' = clock /\ nextTick' = nextTick
    BY <1>4 DEF Sweep
  <2>2. ASSUME NEW j \in DOMAIN buckets'
        PROVE  nextTick' - TTL - buckets'[j].last < Full
    <3>1. j \in DOMAIN buckets /\ ~Refilled(j) /\ buckets'[j] = buckets[j]
      BY <1>4 DEF Sweep
    <3>2. ~(buckets[j].tokens + (ticked - buckets[j].last) >= Full)
      BY <3>1 DEF Refilled
    <3>3. ticked = nextTick - TTL
      BY <2>1 DEF Swept
    <3> QED
      BY <1>0, <2>1, <3>1, <3>2, <3>3, Constants
  <2> QED
    BY <2>1, <2>2 DEF Swept
<1>5. ASSUME Close
      PROVE  Swept'
  BY <1>5 DEF Close
<1>6. ASSUME UNCHANGED vars
      PROVE  Swept'
  BY <1>6 DEF vars, Swept
<1> QED
  BY <1>1, <1>2, <1>3, <1>4, <1>5, <1>6 DEF Next

\* LimiterInv holds of every reachable state.
THEOREM LimiterInvariant == Spec => []LimiterInv
<1>1. Init => LimiterInv
  BY InvInit
<1>2. LimiterInv /\ [Next]_vars => LimiterInv'
  BY TypeStep, PastStep, BudgetStep, SweptStep DEF LimiterInv
<1> QED
  BY <1>1, <1>2, PTL DEF Spec

\* Every variable keeps its type: buckets are never over-full nor in debt
\* (ratelimit.go:72).
THEOREM TypeCorrect == Spec => []TypeOK
<1>1. LimiterInv => TypeOK
  BY DEF LimiterInv
<1> QED
  BY <1>1, LimiterInvariant, PTL

\* In every period grants stay within the burst and the refill (ratelimit.go:36).
THEOREM GrantsAreBounded == Spec => []RateBound
<1>1. LimiterInv => RateBound
  <2> SUFFICES ASSUME LimiterInv, NEW k \in Keys, NEW a \in 0 .. clock
               PROVE  granted[k][a] <= Full + (clock - a)
    BY DEF RateBound
  <2>1. granted[k][a] + Level(k) <= Full + (clock - a)
    BY DEF LimiterInv, Budget
  <2>2. Level(k) \in Nat /\ granted[k][a] \in Nat /\ clock \in Int /\ a \in Int
    BY LevelRange, Constants DEF LimiterInv, TypeOK, Times
  <2> QED
    BY <2>1, <2>2, Constants
<1> QED
  BY <1>1, LimiterInvariant, PTL

\* No bucket outlives two periods and the sweeper's delay without a request
\* (ratelimit.go:103).
THEOREM IdleBucketsAlwaysGo == Spec => []IdleBucketsGo
<1>1. LimiterInv => IdleBucketsGo
  <2> SUFFICES ASSUME LimiterInv, sweeping, NEW k \in DOMAIN buckets
               PROVE  clock - buckets[k].last <= 2 * TTL + SweepDelay
    BY DEF IdleBucketsGo
  <2>1. buckets[k].last \in Int /\ clock \in Int /\ nextTick \in Int /\ ticked \in Int
    BY RefillRange, Constants DEF LimiterInv, TypeOK, Times
  <2> QED
    BY <2>1, Constants DEF LimiterInv, Swept
<1> QED
  BY <1>1, LimiterInvariant, PTL

-----------------------------------------------------------------------------
(* The refinement                                                          *)

Levels == [k \in Keys |-> Level(k)]

\* A step that pays at one key only is the bucket's grant or refusal.
LEMMA AllowIsGrantOrDeny ==
  ASSUME LimiterInv, NEW k \in Keys, AllowNew(k) \/ AllowKnown(k)
  PROVE  Promise!Grant(k) \/ Promise!Deny(k)
<1>1. TypeOK /\ PastOnly
  BY DEF LimiterInv
<1>2. CASE Cost <= Level(k) /\ Level(k)' = Level(k) - Cost /\ Granted(k)
  <2>1. Levels' = [Levels EXCEPT ![k] = @ - Cost]
    BY <1>1, <1>2, AllowLevel DEF Levels
  <2> QED
    BY <1>2, <2>1 DEF Promise!Grant, Levels, Granted
<1>3. CASE Level(k) < Cost /\ Level(k)' = Level(k) /\ Denied(k)
  <2>1. Levels' = Levels
    BY <1>1, <1>3, AllowLevel DEF Levels
  <2> QED
    BY <1>3, <2>1 DEF Promise!Deny, Levels, Denied
<1> QED
  BY <1>1, <1>2, <1>3, AllowLevel

\* Lazy refills, creation on demand and the sweep implement TokenBucket
\* (ratelimit.go:60, :115).
THEOREM LimiterImplementsBucket == Spec => RefinesBucket
<1>1. Init => Promise!Init
  <2> SUFFICES ASSUME Init
               PROVE  Promise!Init
    OBVIOUS
  <2>1. \A k \in Keys : Level(k) = Full
    BY DEF Init, Level
  <2> QED
    BY <2>1 DEF Init, Promise!Init
<1>2. LimiterInv /\ [Next]_vars => [Promise!Next]_Promise!vars
  <2> SUFFICES ASSUME LimiterInv, [Next]_vars
               PROVE  [Promise!Next]_Promise!vars
    OBVIOUS
  <2>0. TypeOK /\ PastOnly
    BY DEF LimiterInv
  <2>1. ASSUME NEW k \in Keys, AllowNew(k) \/ AllowKnown(k)
        PROVE  Promise!Next
    BY <2>1, AllowIsGrantOrDeny DEF Promise!Next
  <2>2. ASSUME NEW k \in Keys, Done(k)
        PROVE  UNCHANGED Promise!vars
    BY <2>2 DEF Done, Promise!vars, Level, Refill
  <2>3. ASSUME NEW k \in Keys, Reset(k)
        PROVE  Promise!Pardon(k)
    <3>1. clock' = clock /\ buckets' = [i \in DOMAIN buckets \ {k} |-> buckets[i]] /\ verdict' = verdict
      BY <2>3 DEF Reset
    <3>2. Level(k)' = Full
      BY <3>1, DropLevel
    <3>3. ASSUME NEW j \in Keys \ {k}
          PROVE  Level(j)' = Level(j)
      BY <3>1, DropLevel DEF Level
    <3>4. Levels' = [Levels EXCEPT ![k] = Full]
      BY <3>2, <3>3 DEF Levels
    <3> QED
      BY <3>1, <3>4 DEF Promise!Pardon, Levels
  <2>4. ASSUME Tick
        PROVE  Promise!Pass
    <3>1. \A k \in Keys : Level(k)' = IF Level(k) < Full THEN Level(k) + 1 ELSE Full
      BY <2>0, <2>4, TickLevel
    <3> QED
      BY <2>4, <3>1 DEF Promise!Pass, Tick
  <2>5. ASSUME Sweep
        PROVE  UNCHANGED Promise!vars
    <3>1. \A k \in Keys : Level(k)' = Level(k)
      BY <2>0, <2>5, SweepLevel
    <3> QED
      BY <2>5, <3>1 DEF Sweep, Promise!vars
  <2>6. ASSUME Close \/ UNCHANGED vars
        PROVE  UNCHANGED Promise!vars
    BY <2>6 DEF Close, vars, Promise!vars, Level, Refill
  <2> QED
    BY <2>1, <2>2, <2>3, <2>4, <2>5, <2>6 DEF Next, Promise!Next
<1> QED
  BY <1>1, <1>2, LimiterInvariant, PTL DEF Spec, RefinesBucket, Promise!Spec
=============================================================================
