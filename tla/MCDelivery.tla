----------------------------- MODULE MCDelivery -----------------------------
(***************************************************************************)
(* Delivery for TLC: one call, whose sends and late effects do not depend  *)
(* on other calls except for the tokens, which are arbitrary anyway.       *)
(***************************************************************************)
EXTENDS Delivery

(* Two successes, a redirect, the refused token, a refusal, a failure that *)
(* is retried and one that is not.                                         *)
MCStatuses == {200, 201, 302, 401, 403, 503, 504}
=============================================================================
