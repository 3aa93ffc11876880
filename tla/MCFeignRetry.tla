----------------------------- MODULE MCFeignRetry -----------------------------
(***************************************************************************)
(* FeignRetry for TLC: two threads, three annotations.                     *)
(***************************************************************************)
EXTENDS FeignRetry

CONSTANTS t1, t2

MCThreads == {t1, t2}

(* Sleeps 3, 4 (4.5 cut down) and 5 (6 without the maximum).               *)
Growing == [maxAttempt |-> 4, include |-> {}, delay |-> 3, maxDelay |-> 5,
            multiplier |-> [num |-> 3, den |-> 2]]

(* A factor below 1 is taken for 1; the first sleep is above the maximum.  *)
Shrinking == [maxAttempt |-> 3, include |-> {}, delay |-> 2, maxDelay |-> 1,
              multiplier |-> [num |-> 1, den |-> 2]]

(* A fixed period, longer than maxDelay.                                   *)
Fixed == [maxAttempt |-> 2, include |-> {"status"}, delay |-> 2, maxDelay |-> 1,
          multiplier |-> [num |-> 0, den |-> 1]]

MCAnnotations == {Growing, Shrinking, Fixed}

=============================================================================
