-------------------------------- MODULE Call --------------------------------
(***************************************************************************)
(* What Transport.RoundTrip promises the goroutine that calls it, with the *)
(* token cache, the mutex, the provider and the waiting left out: how      *)
(* often one logical call may put its request on the wire, which answers   *)
(* make it do so again, and what verdict it returns for which answer.      *)
(* Transport.tla implements this specification; nothing another goroutine  *)
(* does to the shared token cache may show through it.                     *)
(***************************************************************************)
EXTENDS Integers

CONSTANTS
  Callers,     \* goroutines that share one Transport
  Statuses,    \* HTTP statuses the backend may answer with
  Transient,   \* the statuses the policy lists as retryable
  Budget,      \* how many sends the retry policy allows
  None,        \* nothing heard yet
  NetErr,      \* a transport-level failure
  CtxErr,      \* the context's error, reported by the layer below
  ProvErr      \* the credential provider's error

VARIABLES
  phase,       \* "idle", "ready" (may send), "waiting" (for an answer), "done"
  used,        \* sends of the call in progress
  heard,       \* the last thing the call was told
  extra,       \* sends outside the budget, after a 401: 0 or 1
  verdict      \* "none", "ok" or "error"

callVars == <<phase, used, heard, extra, verdict>>

Unauthorized == 401
Good(a) == a \in 200..399

(* The budget covers transport failures and transient statuses, until the  *)
(* call has gone through re-authentication.                                *)
Again(c, a) == /\ extra[c] = 0
               /\ used[c] < Budget
               /\ a \in {NetErr, CtxErr} \cup (Transient \ ({Unauthorized} \cup 200..399))

Reauthenticate(c, a) == extra[c] = 0 /\ a = Unauthorized

CallInit == /\ phase = [c \in Callers |-> "idle"]
            /\ used = [c \in Callers |-> 0]
            /\ heard = [c \in Callers |-> None]
            /\ extra = [c \in Callers |-> 0]
            /\ verdict = [c \in Callers |-> "none"]

(* A call begins, or is refused before anything is sent. *)
Start(c) == /\ phase[c] \in {"idle", "done"}
            /\ \/ /\ phase' = [phase EXCEPT ![c] = "ready"]
                  /\ verdict' = [verdict EXCEPT ![c] = "none"]
               \/ /\ phase' = [phase EXCEPT ![c] = "done"]
                  /\ verdict' = [verdict EXCEPT ![c] = "error"]
            /\ used' = [used EXCEPT ![c] = 0]
            /\ heard' = [heard EXCEPT ![c] = None]
            /\ extra' = [extra EXCEPT ![c] = 0]

(* The request goes out: the first time, again within the budget, or once  *)
(* more outside the budget after a 401.                                    *)
Send(c) == /\ phase[c] = "ready"
           /\ heard[c] = None \/ Again(c, heard[c]) \/ Reauthenticate(c, heard[c])
           /\ phase' = [phase EXCEPT ![c] = "waiting"]
           /\ used' = [used EXCEPT ![c] = @ + 1]
           /\ extra' = [extra EXCEPT ![c] = IF heard[c] = Unauthorized THEN 1 ELSE @]
           /\ UNCHANGED <<heard, verdict>>

(* An answer ends the call unless it earns another send. *)
Hear(c, a) ==
  LET more == Again(c, a) \/ Reauthenticate(c, a)
  IN  /\ phase[c] = "waiting"
      /\ heard' = [heard EXCEPT ![c] = a]
      /\ phase' = [phase EXCEPT ![c] = IF more THEN "ready" ELSE "done"]
      /\ verdict' = [verdict EXCEPT ![c] = IF more THEN "none"
                                           ELSE IF Good(a) THEN "ok" ELSE "error"]
      /\ UNCHANGED <<used, extra>>

(* Between sends a call may also end for want of a live context or of a    *)
(* usable token.                                                           *)
Abandon(c) == /\ phase[c] = "ready"
              /\ phase' = [phase EXCEPT ![c] = "done"]
              /\ verdict' = [verdict EXCEPT ![c] = "error"]
              /\ \E h \in {heard[c], CtxErr, ProvErr} : heard' = [heard EXCEPT ![c] = h]
              /\ UNCHANGED <<used, extra>>

CallNext == \E c \in Callers :
              \/ Start(c)
              \/ Send(c)
              \/ \E a \in Statuses \cup {NetErr, CtxErr} : Hear(c, a)
              \/ Abandon(c)

CallSpec == CallInit /\ [][CallNext]_callVars
=============================================================================
