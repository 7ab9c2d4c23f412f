--------------------------- MODULE BackoffProofs ---------------------------
(***************************************************************************)
(* How long RoundTrip can sleep, for every policy that Validate accepts,   *)
(* every Retry-After header and every width of the integers.               *)
(***************************************************************************)
EXTENDS Backoff, TLAPS

(* The sum needs the bound of the sleep that is about to be added, and one *)
(* retry less while that sleep lasts.                                      *)
Slack == IF phase = "sleeping" THEN attempt - 1 ELSE attempt
IInv == /\ TypeOK
        /\ delay <= policy.max
        /\ slept <= Slack * policy.max
        /\ phase = "sleeping" => attempt >= 1
        /\ phase = "failed" => attempt + 1 < Attempts

(* A clamped duration is one, and below the ceiling (retry.go). *)
LEMMA Clamped ==
  ASSUME policy \in Policies, NEW d \in MinInt..MaxInt
  PROVE  Clamp(d) \in MinInt..MaxInt /\ Clamp(d) <= policy.max
  BY IntAssumption, PolicyAssumption DEF Clamp, MinInt

(* Wrapping yields an int64. *)
LEMMA Wrapped ==
  ASSUME NEW v \in Int
  PROVE  Wrap(v) \in MinInt..MaxInt
<1> DEFINE m == 2 * (MaxInt + 1)
<1>1. m \in Nat \ {0} /\ v - MinInt \in Int
  BY IntAssumption DEF MinInt
<1>2. (v - MinInt) % m \in 0..(m - 1)
  BY <1>1
<1>3. Wrap(v) = ((v - MinInt) % m) + MinInt
  BY DEF Wrap
<1> QED
  BY <1>2, <1>3, IntAssumption DEF MinInt

(* Jitter does not lengthen a sleep (computeBackoff's switch). *)
LEMMA JitteredBelow ==
  ASSUME policy \in Policies, NEW d \in MinInt..MaxInt, d <= policy.max,
         NEW x \in Jittered(d)
  PROVE  x \in MinInt..MaxInt /\ x <= policy.max
<1>1. /\ policy.jitter \in {"none", "equal", "full"} /\ policy.max \in 1..MaxInt
      /\ MaxInt \in Nat /\ MinInt \in Int /\ MinInt < 0
  BY IntAssumption, PolicyAssumption DEF MinInt
<1>2. CASE policy.jitter = "full"
  BY <1>1, <1>2 DEF Jittered, Below
<1>3. CASE policy.jitter = "equal"
  BY <1>1, <1>3 DEF Jittered, Below
<1>4. CASE policy.jitter = "none"
  BY <1>1, <1>4 DEF Jittered
<1> QED
  BY <1>1, <1>2, <1>3, <1>4

(* Overflow included, no computed backoff is above MaxDelay. *)
LEMMA BackoffBelow ==
  ASSUME policy \in Policies, NEW retry \in Nat, NEW x \in ComputeBackoff(retry)
  PROVE  x \in MinInt..MaxInt /\ x <= policy.max
<1>1. PICK d \in FromFloat(policy.base * 2^retry) : x \in Jittered(Clamp(d))
  BY DEF ComputeBackoff
<1>2. d \in MinInt..MaxInt
  BY IntAssumption DEF FromFloat, MinInt
<1> QED
  BY <1>1, <1>2, Clamped, JitteredBelow

(* Nor is a Retry-After hint, wrapped or not. *)
LEMMA HintBelow ==
  ASSUME policy \in Policies, NEW h \in HintForms
  PROVE  RetryAfterDelay(h) \in MinInt..MaxInt /\ RetryAfterDelay(h) <= policy.max
<1>1. ParseRetryAfter(h) \in MinInt..MaxInt
  <2>1. h.n \in MinInt..MaxInt /\ h.n * Second \in Int /\ 0 \in MinInt..MaxInt
    BY IntAssumption DEF HintForms, MinInt
  <2>2. Wrap(h.n * Second) \in MinInt..MaxInt
    BY <2>1, Wrapped
  <2> QED
    BY <2>1, <2>2 DEF ParseRetryAfter
<1>2. 0 \in MinInt..MaxInt /\ 0 <= policy.max
  BY IntAssumption, PolicyAssumption DEF MinInt
<1> QED
  BY <1>1, <1>2, Clamped DEF RetryAfterDelay

(* Only Sleep computes a delay, and it computes a bounded one. *)
LEMMA Invariance == Spec => []IInv
<1>1. Init => IInv
  BY IntAssumption, PolicyAssumption
  DEF Init, IInv, TypeOK, Slack, NoHint, HintForms, MinInt, Attempts, Validate
<1>2. IInv /\ [Next]_vars => IInv'
  <2> SUFFICES ASSUME IInv, [Next]_vars
               PROVE  IInv'
    OBVIOUS
  <2>1. /\ policy \in Policies /\ policy.max \in Nat /\ Attempts \in Nat
        /\ attempt \in Nat /\ slept \in Nat /\ delay \in Int
        /\ NoHint \in HintForms
    BY IntAssumption, PolicyAssumption DEF IInv, TypeOK, Attempts, MinInt, NoHint, HintForms
  <2>2. ASSUME NEW h \in HintForms, FailsWith(h), last' \in HintForms
        PROVE  IInv'
    BY <2>1, <2>2 DEF FailsWith, IInv, TypeOK, Slack, Attempts
  <2>3. CASE \E h \in Hints : StatusFails(h)
    BY <2>2, <2>3, HintAssumption DEF StatusFails
  <2>4. CASE TransportFails
    BY <2>1, <2>2, <2>4 DEF TransportFails
  <2>5. CASE Sleep
    <3>1. delay' \in MinInt..MaxInt /\ delay' <= policy.max
      BY <2>1, <2>5, HintBelow, BackoffBelow DEF Sleep, IInv, TypeOK
    <3>2. Slack' = attempt /\ Slack = attempt /\ attempt + 1 < Attempts
      BY <2>1, <2>5 DEF Sleep, Slack, IInv
    <3>3. TypeOK'
      BY <2>1, <2>5, <3>1, <3>2 DEF Sleep, IInv, TypeOK, Attempts
    <3> QED
      BY <2>1, <2>5, <3>1, <3>2, <3>3 DEF Sleep, IInv
  <2>6. CASE Wake
    <3>1. slept' \in Nat /\ slept' <= slept + policy.max
      BY <2>1, <2>6 DEF Wake, IInv
    <3>2. slept <= (attempt - 1) * policy.max /\ Slack' = attempt
      BY <2>6 DEF Wake, IInv, Slack
    <3>3. (attempt - 1) * policy.max + policy.max = attempt * policy.max
      BY <2>1
    <3>4. (attempt - 1) * policy.max \in Int /\ attempt * policy.max \in Int
      BY <2>1
    <3>5. slept' <= attempt * policy.max
      BY <2>1, <3>1, <3>2, <3>3, <3>4
    <3> QED
      BY <2>1, <2>6, <3>1, <3>2, <3>5 DEF Wake, IInv, TypeOK, Attempts
  <2>7. CASE End
    <3>1. slept <= attempt * policy.max
      <4>1. CASE phase = "sleeping"
        <5>1. (attempt - 1) * policy.max + policy.max = attempt * policy.max
          BY <2>1
        <5>2. (attempt - 1) * policy.max \in Int /\ attempt * policy.max \in Int
          BY <2>1
        <5> QED
          BY <2>1, <4>1, <5>1, <5>2 DEF IInv, Slack
      <4>2. CASE phase # "sleeping"
        BY <4>2 DEF IInv, Slack
      <4> QED
        BY <4>1, <4>2
    <3> QED
      BY <2>1, <2>7, <3>1 DEF End, IInv, TypeOK, Slack, Attempts
  <2>8. CASE UNCHANGED vars
    BY <2>8 DEF vars, IInv, TypeOK, Slack, Attempts
  <2> QED
    BY <2>3, <2>4, <2>5, <2>6, <2>7, <2>8 DEF Next
<1> QED
  BY <1>1, <1>2, PTL DEF Spec

(* Every duration is an int64, and the loop's counter stays below the      *)
(* number of attempts (RoundTrip's for loop).                              *)
THEOREM TypeCorrect == Spec => []TypeOK
<1>1. IInv => TypeOK
  BY DEF IInv
<1> QED
  BY <1>1, Invariance, PTL

(* No sleep exceeds MaxDelay, and the sleeps of one call together do not   *)
(* exceed MaxDelay times the number of retries, whatever overflows.        *)
THEOREM Bounded == Spec => []SleepsBounded
<1>1. IInv => SleepsBounded
  <2> SUFFICES ASSUME IInv
               PROVE  SleepsBounded
    OBVIOUS
  <2>1. policy.max \in Nat /\ attempt \in Nat /\ slept \in Nat
    BY IntAssumption, PolicyAssumption DEF IInv, TypeOK
  <2>2. (attempt - 1) * policy.max + policy.max = attempt * policy.max
    BY <2>1
  <2>3. (attempt - 1) * policy.max \in Int /\ attempt * policy.max \in Int
    BY <2>1
  <2> QED
    BY <2>1, <2>2, <2>3 DEF IInv, Slack, SleepsBounded
<1> QED
  BY <1>1, Invariance, PTL

-----------------------------------------------------------------------------
(* A product that fits is not changed by wrapping. *)
LEMMA WrapFits == ASSUME NEW v \in 0..MaxInt PROVE Wrap(v) = v
<1> DEFINE m == 2 * (MaxInt + 1)
<1>1. m \in Nat \ {0} /\ v - MinInt \in 0..(m - 1)
  BY IntAssumption DEF MinInt
<1>2. \A a \in 0..(m - 1) : a % m = a
  BY <1>1
<1>3. (v - MinInt) % m = v - MinInt
  BY <1>1, <1>2
<1>4. Wrap(v) = (v - MinInt) + MinInt
  BY <1>3 DEF Wrap
<1> HIDE DEF m
<1> QED BY <1>4, IntAssumption DEF MinInt

(* A hint that fits is honoured up to MaxDelay; one that asks for nothing  *)
(* leaves the sleep to computeBackoff.                                     *)
LEMMA HintHonoured ==
  ASSUME policy \in Policies, NEW h \in HintForms, Asked(h) <= MaxInt
  PROVE  RetryAfterDelay(h) = IF policy.honour /\ Asked(h) > 0
                                THEN Least(Asked(h), policy.max) ELSE 0
<1>1. /\ policy.max \in 1..MaxInt /\ MaxInt \in Nat /\ Second \in 1..MaxInt
      /\ h.n \in Int
  BY IntAssumption, PolicyAssumption DEF HintForms, MinInt
<1>2. ParseRetryAfter(h) = IF Asked(h) > 0 THEN Asked(h) ELSE 0
  <2>1. h.n <= 0 <=> h.n * Second <= 0
    BY <1>1
  <2>2. h.n * Second \in Int
    BY <1>1
  <2>3. CASE h.form = "seconds"
    <3>1. CASE h.n <= 0
      BY <1>1, <2>1, <2>2, <2>3, <3>1 DEF ParseRetryAfter, Asked
    <3>2. CASE h.n > 0
      <4>1. Asked(h) = h.n * Second /\ Asked(h) \in 0..MaxInt /\ Asked(h) > 0
        BY <1>1, <2>1, <2>2, <2>3, <3>2 DEF Asked
      <4>2. ParseRetryAfter(h) = Wrap(Asked(h))
        BY <1>1, <2>3, <3>2, <4>1 DEF ParseRetryAfter
      <4> QED BY <4>1, <4>2, WrapFits
    <3> QED BY <1>1, <3>1, <3>2
  <2>4. CASE h.form = "date"
    BY <1>1, <2>4 DEF ParseRetryAfter, Asked
  <2>5. CASE h.form \in {"other", "none"}
    BY <2>5 DEF ParseRetryAfter, Asked
  <2> QED BY <2>3, <2>4, <2>5 DEF HintForms
<1>3. Asked(h) \in Int
  BY <1>1 DEF Asked
<1> QED BY <1>1, <1>2, <1>3 DEF RetryAfterDelay, Clamp, Least

(* A backoff that fits is drawn from the window of its jitter strategy.    *)
LEMMA JitteredInWindow ==
  ASSUME policy.jitter \in {"none", "equal", "full"}, NEW w \in Nat, NEW x \in Jittered(w)
  PROVE  x \in Window(w)
<1>1. CASE policy.jitter = "full"
  <2>1. x \in 0..w
    BY <1>1 DEF Jittered, Below
  <2> QED BY <1>1, <2>1 DEF Window
<1>2. CASE policy.jitter = "equal"
  <2>1. x \in (w \div 2)..w
    BY <1>2 DEF Jittered, Below
  <2> QED BY <1>2, <2>1 DEF Window
<1>3. CASE policy.jitter = "none"
  BY <1>3 DEF Jittered, Window
<1> QED BY <1>1, <1>2, <1>3

LEMMA BackoffInWindow ==
  ASSUME policy \in Policies, NEW r \in 0..MaxInt,
         NEW x \in UNION {Jittered(Clamp(d)) : d \in FromFloat(r)}
  PROVE  x \in Window(Least(r, policy.max))
<1>1. /\ policy.max \in 1..MaxInt /\ MaxInt \in Nat
      /\ policy.jitter \in {"none", "equal", "full"}
  BY IntAssumption, PolicyAssumption
<1>2. FromFloat(r) = {r}
  BY <1>1 DEF FromFloat, MinInt
<1>3. x \in Jittered(Least(r, policy.max)) /\ Least(r, policy.max) \in Nat
  BY <1>1, <1>2 DEF Clamp, Least
<1> QED BY <1>1, <1>3, JitteredInWindow

(* lastResp carries the hint of the attempt that failed last (RoundTrip    *)
(* sets it with each answer and clears it with each transport error).      *)
HintKept == last = heard
LEMMA HintIsLast == Spec => []HintKept
<1>1. Init => HintKept
  BY DEF Init, HintKept
<1>2. HintKept /\ [Next]_vars => HintKept'
  BY DEF HintKept, Next, StatusFails, TransportFails, FailsWith, Sleep, Wake, End, vars
<1> QED BY <1>1, <1>2, PTL DEF Spec

(* Wherever the numbers fit into int64, the sleep is the documented one.   *)
THEOREM Documented == Spec => []SleepsAsDocumented
<1>1. Init => SleepsAsDocumented
  BY DEF Init, SleepsAsDocumented
<1>2. TypeOK /\ HintKept /\ SleepsAsDocumented /\ [Next]_vars => SleepsAsDocumented'
  <2> SUFFICES ASSUME TypeOK, HintKept, SleepsAsDocumented, [Next]_vars
               PROVE  SleepsAsDocumented'
    OBVIOUS
  <2>1. CASE Sleep
    <3>1. /\ policy \in Policies /\ policy' = policy /\ heard' = heard /\ heard \in HintForms
          /\ attempt \in Nat /\ attempt' = attempt + 1
      BY <2>1 DEF Sleep, TypeOK
    <3>2. SUFFICES ASSUME Asked(heard) <= MaxInt, Raw' \in 0..MaxInt PROVE AsDocumented'
      BY <3>1 DEF SleepsAsDocumented, Asked
    <3>3. Raw' = policy.base * 2^attempt
      BY <3>1 DEF Raw
    <3>4. RetryAfterDelay(heard) = IF policy.honour /\ Asked(heard) > 0
                                     THEN Least(Asked(heard), policy.max) ELSE 0
      BY <3>1, <3>2, HintHonoured
    <3>5. Asked(heard) \in Int /\ policy.max \in Nat \ {0} /\ Asked(heard)' = Asked(heard)
      BY <3>1, IntAssumption, PolicyAssumption DEF Asked, HintForms, MinInt
    <3>6. CASE policy.honour /\ Asked(heard) > 0
      <4>1. delay' = Least(Asked(heard), policy.max)
        BY <2>1, <3>4, <3>5, <3>6 DEF Sleep, Least, HintKept
      <4> QED BY <3>1, <3>5, <3>6, <4>1 DEF AsDocumented, Least
    <3>7. CASE ~(policy.honour /\ Asked(heard) > 0)
      <4>1. delay' \in ComputeBackoff(attempt)
        BY <2>1, <3>4, <3>7 DEF Sleep, HintKept
      <4>2. delay' \in UNION {Jittered(Clamp(d)) : d \in FromFloat(Raw')}
        BY <3>3, <4>1 DEF ComputeBackoff
      <4>3. delay' \in Window(Least(Raw', policy.max))
        BY <3>1, <3>2, <4>2, BackoffInWindow
      <4> QED BY <3>1, <3>5, <3>7, <4>3 DEF AsDocumented, Least, Window
    <3> QED BY <3>6, <3>7
  <2>2. CASE phase' # "sleeping"
    BY <2>2 DEF SleepsAsDocumented
  <2>3. CASE UNCHANGED vars
    BY <2>3 DEF vars, SleepsAsDocumented, AsDocumented, Asked, Raw, Window, Least
  <2> QED
    BY <2>1, <2>2, <2>3 DEF Next, StatusFails, TransportFails, FailsWith, Wake, End
<1> QED BY <1>1, <1>2, TypeCorrect, HintIsLast, PTL DEF Spec
=============================================================================
