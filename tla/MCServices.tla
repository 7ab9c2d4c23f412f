----------------------------- MODULE MCServices -----------------------------
(***************************************************************************)
(* Services for TLC, and what the documents say of a call where the code   *)
(* disagrees.                                                              *)
(***************************************************************************)
EXTENDS Services

(* Error Hierarchy.md:70, "RateLimitError | ErrRateLimit | 429". *)
RateLimitIsTyped == pc = "done" /\ result \in Typed /\ status = 429 => result = "rateLimit"

(* Authentication.md:49, "The Token method is called before each API       *)
(* request"; Login is the one endpoint that takes none.                    *)
TokenBeforeRequest == sent > 0 /\ path # "login" => "token" \in headers

(* options.go:48, "WithIdempotencyKey returns a CallOption that sets the   *)
(* X-Idempotency-Key header on the outgoing request".                      *)
KeyIsSent == sent > 0 /\ "key" \in call.options => "key" \in headers

(* options.go:58, "WithRequestTimeout returns a CallOption that applies a  *)
(* per-call timeout".                                                      *)
TimeoutEndsCall == elapsed ~> pc = "done"

(* spec.md:107, FR-009a, "The SDK MUST automatically retry transient       *)
(* failures - server-side 5xx, 429 ... and transport-level errors".        *)
TransientIsRetried ==
  pc = "done" /\ status \in {429, 500, 502, 503, 504} /\ ~canceled /\ ~elapsed => sent > 1
=============================================================================
