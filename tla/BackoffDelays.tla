----------------------------- MODULE BackoffDelays -----------------------------
(***************************************************************************)
(* A client of ExponentialBackoff that fails and succeeds in any order:    *)
(* each failure draws a delay, each success resets.                        *)
(***************************************************************************)
EXTENDS Backoff

CONSTANT MaxFailures    \* bound: failures in a row

ASSUME DelaysAssumption == MaxFailures \in Nat

VARIABLES
    drawn,      \* the last value next() returned; 0 before the first
    failures    \* calls of next() since the last reset()

delayVars == <<current, drawn, failures>>

DelaysTypeOK ==
    /\ current \in Initial .. Cap
    /\ drawn \in 0 .. Cap
    /\ failures \in 0 .. MaxFailures

Init == BackoffInit /\ drawn = 0 /\ failures = 0

\* Mutant: next() advances first and samples the new delay.
NextDelay_AdvancesFirst ==
    /\ failures < MaxFailures
    /\ Advance
    /\ drawn' \in { d \in 0 .. current' : d * 100 >= (100 - Jitter) * current' }
    /\ failures' = failures + 1

\* Mutant: full jitter, sampled from [0, delay].
NextDelay_FullJitter ==
    /\ failures < MaxFailures
    /\ drawn' \in 0 .. current
    /\ Advance
    /\ failures' = failures + 1

(* next() samples the delay it holds and advances for the next call.           *)
NextDelay ==
    /\ failures < MaxFailures
    /\ drawn' \in Samples
    /\ Advance
    /\ failures' = failures + 1

(* reset(), after a success.                                                   *)
Success == Reset /\ failures' = 0 /\ UNCHANGED drawn

Next == NextDelay \/ Success

Spec == Init /\ [][Next]_delayVars

--------------------------------------------------------------------------------
(* Properties *)

(* Factor to the power of n.                                                   *)
Power[n \in 0 .. MaxFailures] == IF n = 0 THEN 1 ELSE Factor * Power[n - 1]

(* The delay before the jitter after n failures in a row.                      *)
Nominal(n) == Lesser(Initial * Power[n], Cap)

(* The sequence of the class docstring: 1, 2, 4, ... times the window, up to   *)
(* the cap, whatever successes came before (backoff.py, next and reset).       *)
FollowsSequence ==
    /\ current = Nominal(failures)
    /\ failures > 0 => /\ drawn <= Nominal(failures - 1)
                       /\ drawn * 100 >= (100 - Jitter) * Nominal(failures - 1)

(* No delay exceeds the cap, and none falls below the smallest of the first    *)
(* window: a broker that stays down is never asked in a tight loop.            *)
DelayInBounds ==
    failures > 0 => /\ drawn <= Cap
                    /\ drawn * 100 >= (100 - Jitter) * Initial

================================================================================
