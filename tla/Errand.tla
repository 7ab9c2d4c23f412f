------------------------------- MODULE Errand -------------------------------
(***************************************************************************)
(* What becomes of a request that is handed to the transport, with all     *)
(* that happens in between left out, the sends, the answers and the tokens *)
(* too: how often the backend performs it, and when, compared with what    *)
(* the call comes to.  Delivery.tla implements it.                         *)
(***************************************************************************)
EXTENDS Naturals

CONSTANTS
  Callers,   \* each with one request
  Most       \* how often a request may be performed that carries no key

VARIABLES
  keyed,     \* the request carries an idempotency key
  times,     \* how often it was performed
  fate       \* "open"; of a call that is over: "done", "undone" or "unsure"

errandVars == <<keyed, times, fate>>

ErrandInit == /\ keyed \in [Callers -> BOOLEAN]
              /\ times = [c \in Callers |-> 0]
              /\ fate = [c \in Callers |-> "open"]

(* Performed before the call is over, or later if it left that open: after *)
(* a failure, or as a duplicate of what has succeeded.                     *)
Act(c) == /\ fate[c] # "undone"
          /\ times[c] < IF keyed[c] THEN 1 ELSE Most
          /\ times' = [times EXCEPT ![c] = @ + 1]
          /\ UNCHANGED <<keyed, fate>>

(* A call ends once.  When it is "done" the request has been performed;    *)
(* when it is "undone" it has not been, and will not be.                   *)
End(c, f) == /\ fate[c] = "open"
             /\ f = "done" => times[c] > 0
             /\ f = "undone" => times[c] = 0
             /\ fate' = [fate EXCEPT ![c] = f]
             /\ UNCHANGED <<keyed, times>>

ErrandNext == \E c \in Callers : \/ Act(c)
                                 \/ \E f \in {"done", "undone", "unsure"} : End(c, f)

ErrandSpec == ErrandInit /\ [][ErrandNext]_errandVars
=============================================================================
