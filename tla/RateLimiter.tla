---------------------------- MODULE RateLimiter ----------------------------
(***************************************************************************)
(* safety.RateLimiter: a counter for one wall-clock second.  A call that   *)
(* carries another second than the stored one starts the counter again,    *)
(* whichever of the two seconds is the later one.                          *)
(***************************************************************************)
EXTENDS Integers

CONSTANT EventsPerSecondLimit   (* the configured limit, any integer *)

VARIABLES windowSec, count

LimitAssumption == EventsPerSecondLimit \in Int
ASSUME LimitAssumption

(* NewRateLimiter raises a limit below one to one. *)
Limit == IF EventsPerSecondLimit < 1 THEN 1 ELSE EventsPerSecondLimit

NewRateLimiter == windowSec = 0 /\ count = 0

(* The count the call compares with the limit. *)
CountFor(sec) == IF windowSec = sec THEN count ELSE 0

Allows_OffByOne(sec) == CountFor(sec) <= Limit
Allows(sec) == CountFor(sec) < Limit

(* Allow(now), now in second sec: the caller goes on exactly if Allows(sec). *)
Allow(sec) ==
  /\ windowSec' = sec
  /\ count' = CountFor(sec) + (IF Allows(sec) THEN 1 ELSE 0)
=============================================================================
