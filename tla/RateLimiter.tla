----------------------------- MODULE RateLimiter -----------------------------
(***************************************************************************)
(* The request limit behind the coordinator's bearer tokens: a fixed       *)
(* window counter per API key (packages/coordinator/src/auth.ts).          *)
(*                                                                         *)
(* Time is relative: a bucket stores how many ticks it has left instead of *)
(* the instant it resets at, and `recent` keeps, for the properties only,  *)
(* how many requests of a key passed in each of the last Window ticks.     *)
(* Requests with a missing or unknown token change no state and are left   *)
(* out; without configured keys every request passes.                      *)
(***************************************************************************)
EXTENDS Integers, FiniteSets, Tally

CONSTANTS
  Key,      \* the configured API keys
  Limits,   \* the values of --rate-limit considered; what is negative acts like 0
  NaN,      \* what parseInt makes of a --rate-limit that is no number
  Window,   \* windowMs, in ticks
  Burst     \* bound: requests of a key considered in one tick without a limit

ASSUME RateLimiterAssumption ==
  /\ Limits \subseteq Nat \cup {NaN}
  /\ NaN \notin Nat
  /\ Window \in Nat \ {0}

VARIABLES
  limit,    \* the coordinator's limit, fixed when it starts
  left,     \* bucket: ticks until it resets; 0 if there is none or it is over
  count,    \* bucket: requests counted, as far as the limit tells them apart
  recent    \* history: requests passed i ticks ago

vars == <<limit, left, count, recent>>

Ago == 0 .. (Window - 1)

(* n > limit, which nothing is when the limit is not a number.             *)
Exceeds(n) == limit # NaN /\ n > limit

(* One request more.                                                       *)
Counted(n) == IF limit = NaN \/ Exceeds(n) THEN n ELSE n + 1

TypeOK ==
  /\ limit \in Limits
  /\ left \in [Key -> 0 .. Window]
  /\ count \in [Key -> Nat]
  /\ \A k \in Key : IF limit = NaN THEN count[k] \in 0 .. 1 ELSE count[k] <= limit + 1
  /\ recent \in [Key -> [Ago -> Nat]]

Init ==
  /\ limit \in Limits
  /\ left = [k \in Key |-> 0]
  /\ count = [k \in Key |-> 0]
  /\ recent = [k \in Key |-> [i \in Ago |-> 0]]

Pass(k) == recent' = [recent EXCEPT ![k][0] = @ + 1]

(* Mutated forms: the bucket lasts one tick too long; the first request is *)
(* not counted.                                                            *)
OpenBucketLonger(k) ==
  /\ left[k] = 0
  /\ left' = [left EXCEPT ![k] = Window + 1]
  /\ count' = [count EXCEPT ![k] = 1]
  /\ Pass(k)
  /\ UNCHANGED limit

OpenBucketEmpty(k) ==
  /\ left[k] = 0
  /\ left' = [left EXCEPT ![k] = Window]
  /\ count' = [count EXCEPT ![k] = 0]
  /\ Pass(k)
  /\ UNCHANGED limit

(* The first request of a window opens a bucket and passes, whatever the   *)
(* limit.                                                                  *)
OpenBucket(k) ==
  /\ left[k] = 0
  /\ left' = [left EXCEPT ![k] = Window]
  /\ count' = [count EXCEPT ![k] = 1]
  /\ Pass(k)
  /\ UNCHANGED limit

(* Mutated forms: the comparison lets one more request through; one counter*)
(* is shared by all keys.                                                  *)
CountRequestOneMore(k) ==
  /\ left[k] > 0
  /\ ~Exceeds(count[k])
  /\ limit = NaN => recent[k][0] < Burst
  /\ count' = [count EXCEPT ![k] = Counted(@)]
  /\ Pass(k)
  /\ UNCHANGED <<limit, left>>

CountRequestShared(k) ==
  /\ left[k] > 0
  /\ ~Exceeds(count[k] + 1)
  /\ limit = NaN => recent[k][0] < Burst
  /\ count' = [q \in Key |-> Counted(count[q])]
  /\ Pass(k)
  /\ UNCHANGED <<limit, left>>

(* A further request within the limit.                                     *)
CountRequest(k) ==
  /\ left[k] > 0
  /\ ~Exceeds(count[k] + 1)
  /\ limit = NaN => recent[k][0] < Burst
  /\ count' = [count EXCEPT ![k] = Counted(@)]
  /\ Pass(k)
  /\ UNCHANGED <<limit, left>>

(* Mutated form: a refused request starts the window anew.                 *)
RefuseRequestExtends(k) ==
  /\ left[k] > 0
  /\ Exceeds(count[k] + 1)
  /\ left' = [left EXCEPT ![k] = Window]
  /\ count' = [count EXCEPT ![k] = Counted(@)]
  /\ UNCHANGED <<limit, recent>>

(* A request over the limit is counted and refused with 429.               *)
RefuseRequest(k) ==
  /\ left[k] > 0
  /\ Exceeds(count[k] + 1)
  /\ count' = [count EXCEPT ![k] = Counted(@)]
  /\ UNCHANGED <<limit, left, recent>>

(* Time passes for every bucket alike.                                     *)
Elapse ==
  /\ left' = [k \in Key |-> IF left[k] > 0 THEN left[k] - 1 ELSE 0]
  /\ recent' = [k \in Key |-> [i \in Ago |-> IF i = 0 THEN 0 ELSE recent[k][i - 1]]]
  /\ UNCHANGED <<limit, count>>

Request(k) == OpenBucket(k) \/ CountRequest(k) \/ RefuseRequest(k)

Next == Elapse \/ \E k \in Key : Request(k)

Spec == Init /\ [][Next]_vars

(* Time does not stop.                                                     *)
FairSpec == Spec /\ WF_vars(Elapse)

-----------------------------------------------------------------------------
(* Properties                                                              *)

(* What passed since the bucket of k was opened, and before.               *)
InBucket(k)     == { i \in Ago : i <= Window - left[k] }
BeforeBucket(k) == Ago \ InBucket(k)
PassedInBucket(k) == Total(recent[k], InBucket(k))

(* What a limit that is a number allows: the request that opens a bucket   *)
(* is never compared with it (auth.ts 51-53).                              *)
Allowed == IF limit = 0 THEN 1 ELSE limit

(* auth.ts:13: "Max requests per window per key".  No bucket lets more     *)
(* than the limit through, except that a limit of 0 lets one request       *)
(* through per window.                                                     *)
WindowIsRespected ==
  limit # NaN => \A k \in Key : left[k] > 0 => PassedInBucket(k) <= Allowed

(* Fixed windows do not bound a sliding window by the limit: a burst at    *)
(* the end of one window and one at the start of the next add up, but to   *)
(* no more than twice what is allowed in any Window ticks.                 *)
BurstIsBounded ==
  limit # NaN => \A k \in Key : Total(recent[k], Ago) <= 2 * Allowed

(* Only a key's own traffic can use up its limit: while its bucket is used *)
(* up, exactly as much as is allowed has passed in it; and a coordinator   *)
(* whose limit is not a number refuses nobody.                             *)
RefusedOnlyWhenUsedUp ==
  \A k \in Key : left[k] > 0 /\ Exceeds(count[k]) =>
    limit # NaN /\ PassedInBucket(k) = Allowed

(* A refused key does not stay refused, however it keeps trying.           *)
RefusalEnds ==
  \A k \in Key : left[k] > 0 /\ Exceeds(count[k]) ~> left[k] = 0

(* Why the counts are right: a bucket's counter is what passed in it, up   *)
(* to the limit, and what passed before it fits in one window.             *)
BucketShape ==
  \A k \in Key :
    /\ left[k] = 0 => recent[k][0] = 0
    /\ limit # NaN /\ left[k] > 0 =>
         /\ count[k] > 0
         /\ PassedInBucket(k) = IF count[k] <= Allowed THEN count[k] ELSE Allowed
         /\ Total(recent[k], BeforeBucket(k)) <= Allowed
    /\ limit # NaN /\ left[k] = 0 => Total(recent[k], Ago) <= Allowed

LimiterInv == TypeOK /\ BucketShape
=============================================================================
