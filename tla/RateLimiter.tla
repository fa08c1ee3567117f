----------------------------- MODULE RateLimiter -----------------------------
(***************************************************************************)
(* The rate limiter of an API key (internal/httpapi/api.go): a bucket with *)
(* the number of a minute and the calls admitted in it, behind a mutex.    *)
(* The minute is read BEFORE the mutex is taken, so a call may come to the *)
(* bucket with a minute that is over, or with one the bucket has left: it  *)
(* starts the bucket again, and the next call of the present minute starts *)
(* it once more.  The buckets live in memory and are empty after a restart *)
(* of the engine.                                                          *)
(*                                                                         *)
(* Keys have separate buckets, so one key is modelled.                     *)
(***************************************************************************)
EXTENDS Integers, FiniteSets

CONSTANTS
  Caller,       \* calls with the key served at the same time
  Limit,        \* the rateLimitPerMinute of the project, as it was given
  DefaultLimit, \* limit of a project that gives none (60)
  MaxLimit,     \* greatest limit of a project (10000)
  MaxMinute,    \* bound on the clock
  MaxRestarts   \* bound on the restarts of the engine

ASSUME CallerAssumption == IsFiniteSet(Caller) /\ Caller # {}
ASSUME LimitAssumption ==
  /\ Limit \in Int
  /\ DefaultLimit \in Nat \ {0}
  /\ MaxLimit \in Nat \ {0}
ASSUME BoundsAssumption == MaxMinute \in Nat \ {0} /\ MaxRestarts \in Nat

VARIABLES
  minute,   \* the clock: Unix time / 60
  bucket,   \* the bucket of the key
  stage,    \* where each call stands
  window,   \* the minute each call has read
  restarts, \* restarts of the engine so far
  admitted  \* history: calls admitted with each minute

vars == <<minute, bucket, stage, window, restarts, admitted>>

Minute == 1 .. MaxMinute

\* What a map answers for a key it does not hold: minute 0 is long over.
NoBucket == [window |-> 0, count |-> 0]

TypeOK ==
  /\ minute \in Minute
  /\ bucket \in [window: Minute \cup {0}, count: Nat]
  /\ stage \in [Caller -> {"idle", "waiting"}]
  /\ window \in [Caller -> Minute]
  /\ restarts \in 0 .. MaxRestarts
  /\ admitted \in [Minute -> Nat]

Init ==
  /\ minute   = 1
  /\ bucket   = NoBucket
  /\ stage    = [c \in Caller |-> "idle"]
  /\ window   = [c \in Caller |-> 1]
  /\ restarts = 0
  /\ admitted = [m \in Minute |-> 0]

-----------------------------------------------------------------------------

\* The limit the store gives a project.
RateLimit == IF Limit <= 0 THEN DefaultLimit
             ELSE IF Limit > MaxLimit THEN MaxLimit ELSE Limit

\* A call has passed the checks of its key and reads the clock.
ReadClock(c) ==
  /\ stage[c] = "idle"
  /\ stage'  = [stage EXCEPT ![c] = "waiting"]
  /\ window' = [window EXCEPT ![c] = minute]
  /\ UNCHANGED <<minute, bucket, restarts, admitted>>

\* Starts the bucket again at every call.
BucketAlwaysNew(w) == [window |-> w, count |-> 0]

\* The bucket as a call of minute w finds it: another minute's is dropped.
BucketOf(w) == IF bucket.window = w THEN bucket ELSE [window |-> w, count |-> 0]

\* With the mutex held: admit the call, unless its minute's calls are spent.
Allow(c) ==
  LET b == BucketOf(window[c]) IN
  /\ stage[c] = "waiting"
  /\ stage' = [stage EXCEPT ![c] = "idle"]
  /\ IF b.count >= RateLimit
       THEN /\ bucket' = b
            /\ UNCHANGED admitted
       ELSE /\ bucket' = [b EXCEPT !.count = @ + 1]
            /\ admitted' = [admitted EXCEPT ![window[c]] = @ + 1]
  /\ UNCHANGED <<minute, window, restarts>>

\* The engine stops with its calls and starts with no buckets.
Restart ==
  /\ restarts < MaxRestarts
  /\ restarts' = restarts + 1
  /\ bucket'   = NoBucket
  /\ stage'    = [c \in Caller |-> "idle"]
  /\ UNCHANGED <<minute, window, admitted>>

Tick ==
  /\ minute < MaxMinute
  /\ minute' = minute + 1
  /\ UNCHANGED <<bucket, stage, window, restarts, admitted>>

Next ==
  \/ \E c \in Caller : ReadClock(c) \/ Allow(c)
  \/ Restart
  \/ Tick

Spec == Init /\ [][Next]_vars

-----------------------------------------------------------------------------
(* Properties.                                                             *)

\* One limit for every call that may be in the limiter at a time, and one for
\* every restart.
Allowance == (Cardinality(Caller) + restarts) * RateLimit

\* The calls admitted with one minute are exactly limited while calls come one
\* after the other; each further call in flight, and each restart, may add a
\* limit at most, because a late call starts the bucket again only once, and
\* after the minute at most one call of every other caller is let in
\* (rateLimiter.allow).
AdmittedBounded ==
  \A m \in Minute : admitted[m] <= Allowance + Cardinality(Caller) - 1

\* A call is refused only when a whole limit of calls of its own minute has
\* been admitted: neither the calls of an earlier minute nor the refused ones
\* count against it (rateLimiter.allow).
RefusedOnlyWhenSpent ==
  [][\A c \in Caller :
       stage[c] = "waiting" /\ stage'[c] = "idle" /\ admitted' = admitted /\ restarts' = restarts
         => admitted[window[c]] >= RateLimit]_vars
=============================================================================
