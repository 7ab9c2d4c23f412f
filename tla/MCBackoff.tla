----------------------------- MODULE MCBackoff -----------------------------
(***************************************************************************)
(* Backoff with an int64 of 7 bits, a second of 5 units and policies     *)
(* whose backoff overflows after a few retries, and what the documents say *)
(* of the sleeps where the code disagrees.                                 *)
(***************************************************************************)
EXTENDS Backoff

CONSTANTS Retries, Bases, Ceiling

MCPolicies ==
  {p \in [enabled : BOOLEAN, honour : BOOLEAN, jitter : {"none", "equal", "full"},
          maxAttempts : {Retries + 1}, base : Bases, max : {Ceiling}] :
     p.enabled \/ (p.honour /\ p.jitter = "none")}

Seconds(n) == [form |-> "seconds", n |-> n]
Date(n) == [form |-> "date", n |-> n]

(* With the numbers of the .cfg: none, zero, short, beyond MaxDelay,       *)
(* wrapping to a negative and to a short duration; past and future dates.  *)
MCHints == {NoHint, Seconds(0), Seconds(2), Seconds(5), Seconds(13), Seconds(26),
            Date(-1), Date(7)}

(* Retry Policy.md:102, "The parsed delay is clamped to MaxDelay.  If      *)
(* Retry-After exceeds MaxDelay, the SDK sleeps for MaxDelay".             *)
HintIsClamped ==
  phase = "sleeping" /\ policy.honour /\ Asked(heard) > policy.max => delay = policy.max

(* Retry Policy.md:85, "NoJitter: delay = min(MaxDelay, BaseDelay *        *)
(* 2^attempt)".                                                            *)
NoJitterFormula ==
  phase = "sleeping" /\ policy.jitter = "none" /\ ~(policy.honour /\ Asked(heard) > 0)
    => delay = Least(Raw, policy.max)
=============================================================================
