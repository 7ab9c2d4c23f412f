------------------------------- MODULE Stream -------------------------------
(***************************************************************************)
(* What an Iterator promises the code that drains it, without pages,       *)
(* tokens or positions: the items come one at a time, up to a limit, and   *)
(* the stream is over once and for all, either complete or broken off.     *)
(* Pagination.tla implements it.                                           *)
(***************************************************************************)
EXTENDS Integers

VARIABLES
  limit,   \* items there are to deliver
  given,   \* items delivered
  over     \* "no", "complete", "failed" or "closed"

streamVars == <<limit, given, over>>

StreamInit == limit \in Nat /\ given = 0 /\ over = "no"

Give == /\ over = "no"
        /\ given < limit
        /\ given' = given + 1
        /\ UNCHANGED <<limit, over>>

(* Complete means that nothing is missing. *)
Finish == /\ over = "no"
          /\ given = limit
          /\ over' = "complete"
          /\ UNCHANGED <<limit, given>>

Break == /\ over = "no"
         /\ over' = "failed"
         /\ UNCHANGED <<limit, given>>

Shut == /\ over' = "closed"
        /\ UNCHANGED <<limit, given>>

StreamNext == Give \/ Finish \/ Break \/ Shut
StreamSpec == StreamInit /\ [][StreamNext]_streamVars
=============================================================================
