---------------------------- MODULE MCTransport ----------------------------
(***************************************************************************)
(* Instances of Transport for TLC, and what the repository's documents say *)
(* of it where the code disagrees.                                         *)
(***************************************************************************)
EXTENDS Transport, TLC

CallerSymmetry == Permutations(Callers)

(* spec.md:84, "a typed rate-limit error is surfaced only after retries    *)
(* are exhausted (or disabled)".                                           *)
RateLimitOnlyWhenExhausted ==
  \A c \in Callers :
    pc[c] = "done" /\ outcome[c].kind = "RateLimit" => sends[c] >= Budget

(* data-model.md:77, "Non-429 4xx responses are never retried regardless   *)
(* of RetryableStatus".                                                    *)
ClientErrorsNotRetried ==
  [][\A c \in Callers :
       attempt'[c] > attempt[c] => last'[c] \notin (400..499) \ {429}]_vars

(* data-model.md:74, "If ctx.Err() != nil the current attempt aborts and   *)
(* the ctx error is surfaced": an error that stems from the context is     *)
(* returned as one.                                                        *)
CtxErrorSurfaced ==
  \A c \in Callers :
    pc[c] = "done" /\ last[c] = CtxErr => outcome[c].kind \in {"context", "transport"}

(* spec.md:13, "context deadline always wins": a call whose context is     *)
(* done returns.                                                           *)
CancelledCallEnds ==
  \A c \in Callers : ctxDone[c] /\ pc[c] \notin Idle ~> pc[c] = "done"
=============================================================================
