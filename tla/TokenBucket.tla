------------------------------ MODULE TokenBucket ------------------------------
(***************************************************************************)
(* What a rate limiter promises, without buckets that come and go, lazy    *)
(* refills or a sweeper: every key has a level, full at the start, that    *)
(* rises by one a tick up to Full; a request is granted exactly when the   *)
(* level covers its cost, and pays it; a pardon fills the level.           *)
(***************************************************************************)
EXTENDS Integers

CONSTANTS Keys, Cost, Full

VARIABLES
  level,    \* by key
  verdict   \* by key: the answer to its last request

vars == <<level, verdict>>

Init ==
  /\ level = [k \in Keys |-> Full]
  /\ verdict = [k \in Keys |-> "none"]

Pass ==
  /\ level' = [k \in Keys |-> IF level[k] < Full THEN level[k] + 1 ELSE Full]
  /\ UNCHANGED verdict

Grant(k) ==
  /\ Cost <= level[k]
  /\ level' = [level EXCEPT ![k] = @ - Cost]
  /\ verdict' = [verdict EXCEPT ![k] = "granted"]

Deny(k) ==
  /\ level[k] < Cost
  /\ verdict' = [verdict EXCEPT ![k] = "denied"]
  /\ UNCHANGED level

Pardon(k) ==
  /\ level' = [level EXCEPT ![k] = Full]
  /\ UNCHANGED verdict

Next == Pass \/ \E k \in Keys : Grant(k) \/ Deny(k) \/ Pardon(k)

Spec == Init /\ [][Next]_vars
=============================================================================
