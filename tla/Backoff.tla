------------------------------ MODULE Backoff ------------------------------
(***************************************************************************)
(* How long Transport.RoundTrip sleeps between the attempts of one call    *)
(* (transport.go, retry.go), in the arithmetic of time.Duration: products  *)
(* wrap around, and a float64 beyond int64 converts to either end of it,   *)
(* depending on the processor.  Transport.tla leaves the durations out.    *)
(***************************************************************************)
EXTENDS Integers

CONSTANTS
  MaxInt,      \* the largest int64
  Second,      \* time.Second
  Policies,    \* retry policies that Validate accepts
  Hints        \* values of the Retry-After header

MinInt == -MaxInt - 1

(* Seconds, an HTTP date (from now on), anything else, or no header. *)
HintForms == [form : {"seconds", "date", "other", "none"}, n : MinInt..MaxInt]
NoHint == [form |-> "none", n |-> 0]

(* RetryPolicy.Validate. *)
Validate(p) == p.maxAttempts >= 1 /\ p.base > 0 /\ p.max >= p.base

ASSUME IntAssumption == MaxInt \in Nat \ {0} /\ Second \in 1..MaxInt
ASSUME HintAssumption == Hints \subseteq HintForms
ASSUME PolicyAssumption ==
  /\ Policies \subseteq [enabled : BOOLEAN, honour : BOOLEAN,
                         jitter : {"none", "equal", "full"},
                         maxAttempts : Nat, base : 1..MaxInt, max : 1..MaxInt]
  /\ \A p \in Policies : Validate(p)

VARIABLES
  policy,
  phase,       \* "sending", "failed" (will sleep), "sleeping" or "done"
  attempt,     \* the loop's counter
  last,        \* the hint of lastResp; NoHint if there is none, or no lastResp
  delay,       \* the length of the sleep
  slept,       \* history: how long the call has slept
  heard        \* history: the hint of the attempt that failed last

vars == <<policy, phase, attempt, last, delay, slept, heard>>

Init == /\ policy \in Policies
        /\ phase = "sending" /\ attempt = 0
        /\ last = NoHint /\ delay = 0 /\ slept = 0 /\ heard = NoHint

Attempts == IF policy.enabled THEN policy.maxAttempts ELSE 1

Wrap(v) == ((v - MinInt) % (2 * (MaxInt + 1))) + MinInt

(* time.Duration of a float64. *)
FromFloat(v) == IF v \in MinInt..MaxInt THEN {v} ELSE {MinInt, MaxInt}

(* rand.Int64N. *)
Below(n) == 0..(n - 1)

Clamp(d) == IF d > policy.max THEN policy.max ELSE d

(* Mutant: the sum of both halves is not clamped. *)
UpToDouble(d) ==
  CASE policy.jitter = "full" -> IF d <= 0 THEN {0} ELSE Below(d)
    [] policy.jitter = "equal" ->
         IF d \div 2 <= 0 THEN {0} ELSE {d + j : j \in Below(d \div 2)}
    [] policy.jitter = "none" -> {d}

Jittered(d) ==
  CASE policy.jitter = "full" -> IF d <= 0 THEN {0} ELSE Below(d)
    [] policy.jitter = "equal" ->
         IF d \div 2 <= 0 THEN {0} ELSE {d \div 2 + j : j \in Below(d \div 2)}
    [] policy.jitter = "none" -> {d}

(* computeBackoff, for the retry with this number, the first being 0. *)
ComputeBackoff(retry) ==
  UNION {Jittered(Clamp(d)) : d \in FromFloat(policy.base * 2^retry)}

ParseRetryAfter(h) ==
  CASE h.form = "seconds" -> IF h.n <= 0 THEN 0 ELSE Wrap(h.n * Second)
    [] h.form = "date" -> IF h.n <= 0 THEN 0 ELSE h.n
    [] OTHER -> 0

RetryAfterDelay(h) == IF policy.honour THEN Clamp(ParseRetryAfter(h)) ELSE 0

FailsWith(h) ==
  /\ phase = "sending"
  /\ heard' = h
  /\ phase' = IF attempt + 1 < Attempts THEN "failed" ELSE "done"
  /\ UNCHANGED <<policy, attempt, delay, slept>>

(* An answer with a retryable status: lastResp is set. *)
StatusFails(h) == FailsWith(h) /\ last' = h

(* Mutant: lastResp keeps the answer of an earlier attempt. *)
TransportFailsLeaving == FailsWith(NoHint) /\ UNCHANGED last

(* A transport error: lastResp is nil. *)
TransportFails == FailsWith(NoHint) /\ last' = NoHint

(* The next attempt begins with the sleep; Retry-After overrides. *)
Sleep ==
  /\ phase = "failed"
  /\ phase' = "sleeping"
  /\ attempt' = attempt + 1
  /\ IF RetryAfterDelay(last) > 0 THEN delay' = RetryAfterDelay(last)
                                  ELSE delay' \in ComputeBackoff(attempt)
  /\ UNCHANGED <<policy, last, slept, heard>>

(* A timer set to a negative duration fires at once. *)
Wake ==
  /\ phase = "sleeping"
  /\ phase' = "sending"
  /\ slept' = slept + (IF delay > 0 THEN delay ELSE 0)
  /\ UNCHANGED <<policy, attempt, last, delay, heard>>

(* Any other answer, or a context that is done, ends the call. *)
End ==
  /\ phase # "done"
  /\ phase' = "done"
  /\ UNCHANGED <<policy, attempt, last, delay, slept, heard>>

Next == \/ \E h \in Hints : StatusFails(h)
        \/ TransportFails
        \/ Sleep
        \/ Wake
        \/ End

Spec == Init /\ [][Next]_vars

-----------------------------------------------------------------------------
TypeOK ==
  /\ policy \in Policies
  /\ phase \in {"sending", "failed", "sleeping", "done"}
  /\ attempt \in Nat /\ attempt < Attempts
  /\ last \in HintForms /\ heard \in HintForms
  /\ delay \in MinInt..MaxInt /\ slept \in Nat

(* MaxDelay is an absolute ceiling: no hint of the backend, no jitter and  *)
(* no overflow makes one sleep longer, and the sleeps of a call add up to  *)
(* no more than one MaxDelay per retry (computeBackoff, retryAfterDelay).  *)
SleepsBounded ==
  /\ delay <= policy.max
  /\ slept <= attempt * policy.max

(* What the numbers would be without limits. *)
Least(x, y) == IF x < y THEN x ELSE y
Asked(h) == CASE h.form = "seconds" -> h.n * Second
              [] h.form = "date" -> h.n
              [] OTHER -> 0
Raw == policy.base * 2^(attempt - 1)
Window(w) == CASE policy.jitter = "full" -> 0..w
               [] policy.jitter = "equal" -> (w \div 2)..w
               [] policy.jitter = "none" -> {w}

(* The hint of an answer decides the sleep that follows it and no other;   *)
(* without one, the sleep is drawn from the documented range.              *)
AsDocumented == IF policy.honour /\ Asked(heard) > 0
                  THEN delay = Least(Asked(heard), policy.max)
                  ELSE delay \in Window(Least(Raw, policy.max))

(* So it is wherever the numbers fit into int64 (RoundTrip's choice of the *)
(* sleep, the reset of lastResp, retryAfterDelay, computeBackoff).         *)
SleepsAsDocumented ==
  phase = "sleeping" /\ Asked(heard) <= MaxInt /\ Raw \in 0..MaxInt => AsDocumented
=============================================================================
