----------------------------- MODULE BackoffProofs -----------------------------
(* Bounds of the delays for every configuration the constructor accepts.       *)
EXTENDS BackoffDelays, Recursion, TLAPS

LEMMA ProductMonotone ==
    ASSUME NEW k \in Nat, NEW a \in Nat, NEW b \in Nat, a <= b
    PROVE  k * a <= k * b
OBVIOUS

(* One call of next() or reset() keeps the delay between the bounds.           *)
LEMMA DelaysStep ==
    ASSUME DelaysTypeOK, DelayInBounds, [Next]_delayVars
    PROVE  DelaysTypeOK' /\ DelayInBounds'
<1>1. /\ Initial \in Nat /\ Cap \in Nat /\ Factor \in Nat /\ Factor >= 2
      /\ Initial <= Cap /\ Jitter \in 0 .. 100 /\ 100 - Jitter \in Nat
  BY BackoffAssumption
<1>2. current \in Nat /\ Initial <= current /\ current <= Cap
  BY <1>1 DEF DelaysTypeOK
<1>3. CASE NextDelay
  <2>1. Factor * current \in Nat /\ current * 1 <= current * Factor
    BY <1>1, <1>2, ProductMonotone
  <2>2. current' \in Initial .. Cap
    BY <1>1, <1>2, <1>3, <2>1 DEF NextDelay, Advance, Lesser
  <2>3. failures' \in 0 .. MaxFailures
    BY <1>3, DelaysAssumption DEF NextDelay, DelaysTypeOK
  <2>4. drawn' \in 0 .. current /\ drawn' * 100 >= (100 - Jitter) * current
    BY <1>3 DEF NextDelay, Samples
  <2>5. (100 - Jitter) * Initial <= (100 - Jitter) * current
    BY <1>1, <1>2, ProductMonotone
  <2>6. (100 - Jitter) * Initial \in Int /\ (100 - Jitter) * current \in Int
    BY <1>1, <1>2
  <2>7. drawn' \in 0 .. Cap
    BY <1>1, <1>2, <2>4
  <2>8. drawn' * 100 >= (100 - Jitter) * Initial
    <3>1. \A a, b, c \in Int : a >= b /\ c <= b => a >= c
      OBVIOUS
    <3>2. drawn' * 100 \in Int
      BY <1>1, <2>7
    <3> QED BY <2>4, <2>5, <2>6, <3>1, <3>2, Zenon
  <2> QED BY <2>2, <2>3, <2>7, <2>8 DEF DelaysTypeOK, DelayInBounds
<1>4. CASE Success
  BY <1>1, <1>4, DelaysAssumption DEF Success, Reset, DelaysTypeOK, DelayInBounds
<1>5. CASE UNCHANGED delayVars
  BY <1>5 DEF delayVars, DelaysTypeOK, DelayInBounds
<1> QED BY <1>3, <1>4, <1>5 DEF Next

(* No delay exceeds the cap or undercuts the smallest of the first window.     *)
THEOREM DelaysBounded == Spec => [](DelaysTypeOK /\ DelayInBounds)
<1>1. Init => DelaysTypeOK /\ DelayInBounds
  BY BackoffAssumption, DelaysAssumption DEF Init, BackoffInit, DelaysTypeOK, DelayInBounds
<1>2. (DelaysTypeOK /\ DelayInBounds) /\ [Next]_delayVars => (DelaysTypeOK /\ DelayInBounds)'
  BY DelaysStep
<1> QED BY <1>1, <1>2, PTL DEF Spec


--------------------------------------------------------------------------------
(* The sequence of the delays                                                  *)

LEMMA PowerIs ==
    /\ Power \in [0 .. MaxFailures -> Nat \ {0}]
    /\ \A n \in 0 .. MaxFailures : Power[n] = IF n = 0 THEN 1 ELSE Factor * Power[n - 1]
<1> DEFINE S == Nat \ {0}
           step == [p \in (0 .. MaxFailures) \X S |-> Factor * p[2]]
<1>1. \A x \in S : Factor * x \in S
  <2>1. \A x, y \in S : x * y \in S
    OBVIOUS
  <2> QED BY <2>1, BackoffAssumption
<1>2. step \in [(0 .. MaxFailures) \X S -> S] /\ 1 \in S
  BY <1>1
<1>3. \A i \in 0 .. MaxFailures, x \in S : step[<<i, x>>] = Factor * x
  OBVIOUS
<1> HIDE DEF S, step
<1>4. PICK f \in [0 .. MaxFailures -> S] : Unfolds(f, 0, MaxFailures, 1, step)
  BY <1>2, DelaysAssumption, RecursionExists
<1>6. f = [i \in 0 .. MaxFailures |-> IF i = 0 THEN 1 ELSE Factor * f[i - 1]]
  <2>1. \A i \in 0 .. MaxFailures : i # 0 => i - 1 \in 0 .. MaxFailures
    BY DelaysAssumption
  <2>2. \A i \in 0 .. MaxFailures : i # 0 => step[<<i, f[i - 1]>>] = Factor * f[i - 1]
    BY <1>3, <2>1
  <2> QED BY <1>4, <2>2 DEF Unfolds
<1>7. Power = [i \in 0 .. MaxFailures |-> IF i = 0 THEN 1 ELSE Factor * Power[i - 1]]
  BY <1>6, Zenon DEF Power
<1> HIDE DEF Power
<1>8. \A i \in 0 .. MaxFailures : Power[i] = IF i = 0 THEN 1 ELSE Factor * Power[i - 1]
  BY <1>7
<1>9. \A i \in 0 .. MaxFailures : Power[i] \in S
  <2> DEFINE Good == { i \in 0 .. MaxFailures : Power[i] \in S }
  <2>1. 0 \in Good
    BY <1>2, <1>8, DelaysAssumption
  <2>2. ASSUME NEW i \in 0 .. MaxFailures, i < MaxFailures, i \in Good PROVE i + 1 \in Good
    <3>1. i + 1 \in 0 .. MaxFailures /\ i + 1 # 0 /\ i + 1 - 1 = i
      BY <2>2, DelaysAssumption
    <3>2. Power[i + 1] = Factor * Power[i]
      BY <1>8, <3>1
    <3>3. Factor * Power[i] \in S
      BY <1>1, <2>2 DEF S
    <3> QED BY <3>1, <3>2, <3>3
  <2>3. 0 .. MaxFailures \subseteq Good
    <3> HIDE DEF Good
    <3> QED BY <2>1, <2>2, DelaysAssumption, AllUpTo
  <2> QED BY <2>3
<1> QED BY <1>7, <1>8, <1>9 DEF S

(* One more failure multiplies the nominal delay, up to the cap.               *)
LEMMA NominalGrows ==
    ASSUME NEW n \in 0 .. MaxFailures, n < MaxFailures
    PROVE  Nominal(n + 1) = Lesser(Nominal(n) * Factor, Cap)
<1> DEFINE p == Power[n]
           x == Initial * p
<1>1. p \in Nat \ {0} /\ Power[n + 1] = Factor * p
  <2>1. n + 1 \in 0 .. MaxFailures /\ n + 1 # 0 /\ n + 1 - 1 = n
    BY DelaysAssumption
  <2> QED BY <2>1, PowerIs
<1>2. Initial \in Nat \ {0} /\ Factor \in Nat /\ Factor >= 2 /\ Cap \in Nat
  BY BackoffAssumption
<1> HIDE DEF p
<1>3. x \in Nat /\ Initial * (Factor * p) = x * Factor
  <2>1. \A a, b, c \in Nat : a * b \in Nat /\ a * (b * c) = (a * c) * b
    OBVIOUS
  <2> QED BY <1>1, <1>2, <2>1
<1>4. \A a \in Nat : a * Factor \in Nat /\ a <= a * Factor
  <2>1. ASSUME NEW a \in Nat PROVE a * Factor \in Nat /\ a * 1 <= a * Factor
    BY <1>2, ProductMonotone
  <2> QED BY <2>1
<1>5. Nominal(n) = Lesser(x, Cap) /\ Nominal(n + 1) = Lesser(x * Factor, Cap)
  BY <1>1, <1>3 DEF Nominal, p
<1> HIDE DEF x
<1>6. CASE x <= Cap
  BY <1>2, <1>3, <1>5, <1>6 DEF Lesser
<1>7. CASE x > Cap
  <2>1. x * Factor \in Nat /\ x * Factor > Cap /\ Cap * Factor \in Nat /\ Cap <= Cap * Factor
    BY <1>2, <1>3, <1>4, <1>7
  <2>2. Lesser(x * Factor, Cap) = Cap /\ Lesser(x, Cap) = Cap
    BY <1>2, <1>3, <1>7, <2>1 DEF Lesser
  <2>3. Lesser(Cap * Factor, Cap) = Cap
    BY <1>2, <2>1 DEF Lesser
  <2> QED BY <1>5, <2>2, <2>3
<1> QED BY <1>2, <1>3, <1>6, <1>7

LEMMA SequenceStep ==
    ASSUME DelaysTypeOK, FollowsSequence, [Next]_delayVars
    PROVE  FollowsSequence'
<1>1. CASE NextDelay
  <2>1. failures \in 0 .. MaxFailures /\ failures < MaxFailures /\ failures' = failures + 1
    BY <1>1 DEF NextDelay, DelaysTypeOK
  <2>2. current = Nominal(failures) /\ current' = Lesser(current * Factor, Cap)
    BY <1>1 DEF NextDelay, Advance, FollowsSequence
  <2>3. current' = Nominal(failures')
    BY <2>1, <2>2, NominalGrows
  <2>4. drawn' <= Nominal(failures) /\ drawn' * 100 >= (100 - Jitter) * Nominal(failures)
    BY <1>1, <2>2 DEF NextDelay, Samples, DelaysTypeOK
  <2>5. failures' - 1 = failures
    BY <2>1
  <2> QED BY <2>3, <2>4, <2>5, Zenon DEF FollowsSequence, Nominal
<1>2. CASE Success
  <2>1. Nominal(0) = Initial
    BY PowerIs, BackoffAssumption, DelaysAssumption DEF Nominal, Lesser
  <2> QED BY <1>2, <2>1 DEF Success, Reset, FollowsSequence, Nominal
<1>3. CASE UNCHANGED delayVars
  BY <1>3 DEF delayVars, FollowsSequence, Nominal
<1> QED BY <1>1, <1>2, <1>3 DEF Next

(* The delays before the jitter are the powers of the factor up to the cap,    *)
(* and each delay is drawn from the window of its place in that sequence, for  *)
(* every configuration the constructor accepts (backoff.py, next and reset).   *)
THEOREM DelaysFollowSequence == Spec => []FollowsSequence
<1>1. Init => FollowsSequence
  <2>1. Nominal(0) = Initial
    BY PowerIs, BackoffAssumption, DelaysAssumption DEF Nominal, Lesser
  <2> QED BY <2>1 DEF Init, BackoffInit, FollowsSequence
<1>2. DelaysTypeOK /\ FollowsSequence /\ [Next]_delayVars => FollowsSequence'
  BY SequenceStep
<1> QED BY <1>1, <1>2, DelaysBounded, PTL DEF Spec
================================================================================
