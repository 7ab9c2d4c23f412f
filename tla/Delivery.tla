------------------------------ MODULE Delivery ------------------------------
(***************************************************************************)
(* What the backend makes of a request that internal/transport sends more  *)
(* than once: RoundTrip retries every method alike, also after an answer   *)
(* that leaves open whether the backend has acted ("the backend is         *)
(* responsible for handling duplicate requests", research.md:55).          *)
(*                                                                         *)
(* Each send puts a copy of the request on the wire: req.Clone, with its   *)
(* headers, an X-Idempotency-Key among them when the caller set one.  The  *)
(* backend is external: it performs a copy at most once, and copies of one *)
(* key once in all; it has performed what it answers with 2xx, and never   *)
(* performs what it answers with 3xx or 4xx.  After 5xx or no answer a     *)
(* copy may still be performed, even when the call is over.                *)
(*                                                                         *)
(* A caller makes one call here, so that its late effects can be told.     *)
(***************************************************************************)
EXTENDS Transport, FiniteSets

VARIABLES
  keyed,     \* the request carries an X-Idempotency-Key
  wire,      \* copies sent that the backend may still perform
  effects,   \* copies it performed
  unclear    \* history: the sends answered by 5xx or not at all

delivery == <<keyed, wire, effects, unclear>>
deliveryVars == <<vars, delivery>>

(* The n-th send of a call. *)
Copies == [n : Nat \ {0}, key : BOOLEAN]

(* Mutant: retries are built from the URL and the body alone. *)
CopyUnkeyed(c) == [n |-> sends[c] + 1, key |-> keyed[c] /\ sends[c] = 0]

(* req.Clone. *)
Copy(c) == [n |-> sends[c] + 1, key |-> keyed[c]]

Emit(c) ==
  /\ CacheHit(c) \/ Store(c) \/ \E t \in Tokens \cup {NoToken} : FetchReturns(c, t)
  /\ wire' = [wire EXCEPT ![c] = @ \cup {Copy(c)}]
  /\ UNCHANGED <<keyed, effects, unclear>>

(* The backend performs a copy, unless it has performed one of its key. *)
Perform(c, m) ==
  /\ m \in wire[c]
  /\ wire' = [wire EXCEPT ![c] = @ \ {m}]
  /\ IF m.key /\ \E e \in effects[c] : e.key
       THEN UNCHANGED effects
       ELSE effects' = [effects EXCEPT ![c] = @ \cup {m}]
  /\ UNCHANGED <<vars, keyed, unclear>>

(* The copy whose answer the call awaits. *)
Awaited(c) == {m \in wire[c] : m.n = sends[c]}

Confirmed(c, a) ==
  /\ a \in 200..299
  /\ Awaited(c) = {}
  /\ Answered(c, a)
  /\ UNCHANGED delivery

Declined(c, a) ==
  /\ a \in 300..499
  /\ Awaited(c) # {}
  /\ Answered(c, a)
  /\ wire' = [wire EXCEPT ![c] = @ \ Awaited(c)]
  /\ UNCHANGED <<keyed, effects, unclear>>

LeftOpen(c, a) ==
  /\ a \in Failures \/ a \in 500..599
  /\ Answered(c, a)
  /\ unclear' = [unclear EXCEPT ![c] = @ \cup {sends[c]}]
  /\ UNCHANGED <<keyed, wire, effects>>

(* The steps that neither send nor hear. *)
Inside(c) ==
  /\ \/ pc[c] = "idle" /\ (Begin(c) \/ BodyFails(c))
     \/ Cancel(c)
     \/ Proceeds(c)
     \/ CacheMiss(c)
     \/ Invalidate(c)
     \/ \E t \in Tokens \cup {NoToken} : RefetchReturns(c, t)
     \/ \E e \in {ProvErr, CtxErr} : FetchFails(c, e) \/ RefetchFails(c, e)
  /\ UNCHANGED delivery

ClockTicks == (\E t \in Tokens : Ages(t)) /\ UNCHANGED delivery

DeliveryInit == /\ Init
                /\ keyed \in [Callers -> BOOLEAN]
                /\ wire = [c \in Callers |-> {}]
                /\ effects = [c \in Callers |-> {}]
                /\ unclear = [c \in Callers |-> {}]

DeliveryNext ==
  \/ \E c \in Callers : \/ Inside(c)
                        \/ Emit(c)
                        \/ \E m \in wire[c] : Perform(c, m)
                        \/ \E a \in Answers : \/ Confirmed(c, a)
                                              \/ Declined(c, a)
                                              \/ LeftOpen(c, a)
  \/ ClockTicks

DeliverySpec == DeliveryInit /\ [][DeliveryNext]_deliveryVars

-----------------------------------------------------------------------------
DeliveryTypeOK ==
  /\ TypeOK
  /\ keyed \in [Callers -> BOOLEAN]
  /\ wire \in [Callers -> SUBSET Copies]
  /\ effects \in [Callers -> SUBSET Copies]
  /\ unclear \in [Callers -> SUBSET (Nat \ {0})]

Failed(c) == pc[c] = "done" /\ outcome[c].kind # "success"

(* A success that is not a redirect is one: the backend has performed the  *)
(* request, maybe by an earlier send (RoundTrip, handle401).               *)
SuccessIsReal ==
  \A c \in Callers :
    /\ pc[c] = "done"
    /\ outcome[c].kind = "success"
    /\ outcome[c].status \notin 300..399
    => effects[c] # {}

(* Nothing happens unaccounted for: what was performed was the send the    *)
(* call awaits or succeeded with, or one whose answer left it open.  So a  *)
(* call that fails with clear answers only has changed nothing, and never  *)
(* will (RoundTrip, handle401).                                            *)
EffectsAccountedFor ==
  \A c \in Callers : \A m \in effects[c] \cup wire[c] :
    m.n \in unclear[c] \/ (m.n = sends[c] /\ ~Failed(c))

-----------------------------------------------------------------------------
(* Without the sends and their answers this is Errand.tla.  A redirect     *)
(* counts as a success for the transport, and has performed nothing.       *)
Redirect(s) == s \in 300..399
Fate(c) ==
  CASE pc[c] # "done" -> "open"
    [] pc[c] = "done" /\ ~Failed(c) /\ ~Redirect(outcome[c].status) -> "done"
    [] pc[c] = "done" /\ (Failed(c) \/ Redirect(outcome[c].status)) ->
         IF unclear[c] = {} THEN "undone" ELSE "unsure"

Errands == INSTANCE Errand WITH
  Most <- Budget,
  times <- [c \in Callers |-> Cardinality(effects[c])],
  fate <- [c \in Callers |-> Fate(c)]

(* The refinement: a request is performed once with a key and no more      *)
(* often than it may be sent without one; it has been when the call        *)
(* succeeds, and is not, then or ever, when the call fails or is           *)
(* redirected by clear answers only (RoundTrip, handle401).                *)
KeepsErrand == Errands!ErrandSpec
=============================================================================
