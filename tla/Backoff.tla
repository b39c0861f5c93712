-------------------------------- MODULE Backoff --------------------------------
(***************************************************************************)
(* ExponentialBackoff (vortex/observability/backoff.py): the delay a       *)
(* connector waits between two attempts to connect.  Delays are integers   *)
(* in a unit the configuration chooses (tenths of a second in the runs);   *)
(* the sample drawn by random.uniform is any value of its interval.        *)
(***************************************************************************)
EXTENDS Integers

CONSTANTS
    Initial,    \* first delay, restored by reset()
    Factor,     \* growth between two consecutive delays
    Cap,        \* largest delay
    Jitter      \* width of the sampling interval, in percent of the delay

(* What the constructor accepts: anything else raises ValueError.  The code *)
(* takes any real factor above one, of which the only use is 2.0; here it   *)
(* is an integer.                                                           *)
ASSUME BackoffAssumption ==
    /\ Initial \in Nat \ {0}
    /\ Factor \in Nat \ {0, 1}
    /\ Cap \in Nat
    /\ Initial <= Cap
    /\ Jitter \in 0 .. 100

VARIABLE current    \* ExponentialBackoff._current

BackoffInit == current = Initial

Reset == current' = Initial

Lesser(a, b) == IF a <= b THEN a ELSE b

(* The assignment next() makes once it has drawn its sample.                *)
Advance == current' = Lesser(current * Factor, Cap)

(* What next() may return: a value of [(1 - jitter) * current, current].    *)
Samples == { d \in 0 .. current : d * 100 >= (100 - Jitter) * current }

================================================================================
