------------------------------ MODULE Transport ------------------------------
(***************************************************************************)
(* internal/transport: the RoundTripper that goroutines share.  Each call  *)
(* of RoundTrip runs the retry loop and the 401 path; the calls meet at    *)
(* the token cache (t.cached, t.cachedExp) and at the mutex t.mu.          *)
(*                                                                         *)
(* The provider and the backend are arbitrary: a provider returns any      *)
(* token or fails, the backend gives any answer.  AuthStack.tla replaces   *)
(* them by particular ones.  Durations are left to Backoff.tla: a sleep    *)
(* ends some time.                                                         *)
(*                                                                         *)
(* A caller is at one of these places of RoundTrip:                        *)
(*   head       the top of the loop            flight     request sent     *)
(*   sleep      the back-off timer             invalidate 401 heard        *)
(*   get        about to lock t.mu in getToken refetch    in Provider.Token*)
(*   fetch      in Provider.Token, with t.mu   store      about to cache   *)
(*   done       returned                       resend     second send      *)
(***************************************************************************)
EXTENDS Integers

CONSTANTS
  Callers,          \* goroutines
  Tokens,           \* access tokens a provider can hand out
  Eternal,          \* those with a zero ExpiresAt
  NoToken,          \* the empty AccessToken
  None,             \* no answer yet; nobody holds the mutex
  Statuses,         \* HTTP statuses the backend answers with
  NetErr,           \* base().RoundTrip failed
  CtxErr,           \* the layer below returned the context's error
  ProvErr,          \* the provider failed
  Enabled,          \* Policy.Enabled
  MaxAttempts,      \* Policy.MaxAttempts
  RetryableStatus   \* Policy.RetryableStatus

Unauthorized == 401

ASSUME TokenAssumption == Eternal \subseteq Tokens /\ NoToken \notin Tokens
ASSUME PolicyAssumption ==
  Enabled \in BOOLEAN /\ MaxAttempts \in Int /\ \A s \in RetryableStatus : s \in Int
ASSUME StatusAssumption ==
  /\ Statuses \subseteq 100..599
  /\ \A x \in {NetErr, CtxErr, ProvErr, None} : x \notin Int
  /\ NetErr # CtxErr /\ NetErr # None /\ CtxErr # None /\ ProvErr # None
ASSUME CallerAssumption == None \notin Callers

VARIABLES
  pc,        \* where the call of a caller is
  attempt,   \* the loop variable
  tok,       \* the token of the current attempt
  newTok,    \* handle401's newTok
  ctxDone,   \* the call's context is cancelled or past its deadline
  last,      \* what the call heard last: lastResp/lastErr/resp/retryErr
  outcome,   \* what RoundTrip returned
  sends,     \* history: requests this call put on the wire
  late,      \* history: those it put there after ctxDone
  cached,    \* t.cached
  age,       \* per token: 0 before ExpiresAt - 30s, 1 at it, 2 after it
  lock       \* t.mu: its holder, or None

local == <<pc, attempt, tok, newTok, ctxDone, last, outcome, sends, late>>
shared == <<cached, age, lock>>
vars == <<local, shared>>

Budget == IF Enabled /\ MaxAttempts >= 1 THEN MaxAttempts ELSE 1

(* Mutants: creation counts as a failure; a client error as a success. *)
SuccessOnly200(s) == s = 200
SuccessBelow500(s) == s \in 200..499

Success(s) == s \in 200..399
Failures == {NetErr, CtxErr}
Answers == Statuses \cup Failures

(* shouldRetry, which looks at the list and not at the class of a status. *)
ShouldRetry(a) == Enabled /\ (a \in Failures \/ a \in RetryableStatus)

(* The kind of error mapError makes of a status. *)
MapError(s) ==
  CASE s \in {400, 422} -> "Validation"
    [] s = Unauthorized -> "Authentication"
    [] s = 403 -> "Authorization"
    [] s = 404 -> "NotFound"
    [] s = 409 -> "Conflict"
    [] s = 429 -> "RateLimit"
    [] s >= 500 -> "Server"
    [] OTHER -> "Unexpected"

Kinds == {"none", "success", "body", "context", "transport", "Validation",
          "Authentication", "TokenUnchanged", "TokenRejected", "Authorization",
          "NotFound", "Conflict", "RateLimit", "Server", "Unexpected"}
Places == {"idle", "head", "sleep", "get", "fetch", "flight", "invalidate",
           "refetch", "store", "resend", "done"}
Idle == {"idle", "done"}

(* The cache hit test of getToken: a token in the cache, never expiring or *)
(* strictly before its cachedExp.                                          *)
Usable(t) == t \in Tokens /\ age[t] = 0

Init ==
  /\ pc = [c \in Callers |-> "idle"]
  /\ attempt = [c \in Callers |-> 0]
  /\ tok = [c \in Callers |-> NoToken]
  /\ newTok = [c \in Callers |-> NoToken]
  /\ ctxDone = [c \in Callers |-> FALSE]
  /\ last = [c \in Callers |-> None]
  /\ outcome = [c \in Callers |-> [kind |-> "none", status |-> 0]]
  /\ sends = [c \in Callers |-> 0]
  /\ late = [c \in Callers |-> 0]
  /\ cached = NoToken
  /\ age = [t \in Tokens |-> 0]
  /\ lock = None

GoTo(c, place) == pc' = [pc EXCEPT ![c] = place]

(* RoundTrip returns. *)
Return(c, kind, status) ==
  /\ GoTo(c, "done")
  /\ outcome' = [outcome EXCEPT ![c] = [kind |-> kind, status |-> status]]

(* base().RoundTrip(clone) is called. *)
Launch(c, place) ==
  /\ GoTo(c, place)
  /\ sends' = [sends EXCEPT ![c] = @ + 1]
  /\ late' = [late EXCEPT ![c] = IF ctxDone[c] THEN @ + 1 ELSE @]

(* A fresh call: the locals are new. *)
Fresh(c) ==
  /\ pc[c] \in Idle
  /\ attempt' = [attempt EXCEPT ![c] = 0]
  /\ tok' = [tok EXCEPT ![c] = NoToken]
  /\ newTok' = [newTok EXCEPT ![c] = NoToken]
  /\ ctxDone' = [ctxDone EXCEPT ![c] = FALSE]
  /\ last' = [last EXCEPT ![c] = None]
  /\ sends' = [sends EXCEPT ![c] = 0]
  /\ late' = [late EXCEPT ![c] = 0]
  /\ UNCHANGED shared

Begin(c) ==
  /\ Fresh(c)
  /\ GoTo(c, "head")
  /\ outcome' = [outcome EXCEPT ![c] = [kind |-> "none", status |-> 0]]

(* The request body cannot be buffered for replay. *)
BodyFails(c) == Fresh(c) /\ Return(c, "body", 0)

(* The owner of the context cancels it, or its deadline passes. *)
Cancel(c) ==
  /\ pc[c] \notin Idle
  /\ ~ctxDone[c]
  /\ ctxDone' = [ctxDone EXCEPT ![c] = TRUE]
  /\ UNCHANGED <<pc, attempt, tok, newTok, last, outcome, sends, late, shared>>

HeadCancelled(c) ==
  /\ pc[c] = "head"
  /\ ctxDone[c]
  /\ Return(c, "context", 0)
  /\ UNCHANGED <<attempt, tok, newTok, ctxDone, last, sends, late, shared>>

(* Mutant: the loop head does not look at the context. *)
ContinuesAnyway(c) ==
  /\ pc[c] = "head"
  /\ GoTo(c, IF attempt[c] > 0 THEN "sleep" ELSE "get")
  /\ UNCHANGED <<attempt, tok, newTok, ctxDone, last, outcome, sends, late, shared>>

HeadContinues(c) ==
  /\ pc[c] = "head"
  /\ ~ctxDone[c]
  /\ GoTo(c, IF attempt[c] > 0 THEN "sleep" ELSE "get")
  /\ UNCHANGED <<attempt, tok, newTok, ctxDone, last, outcome, sends, late, shared>>

SleepCancelled(c) ==
  /\ pc[c] = "sleep"
  /\ ctxDone[c]
  /\ Return(c, "context", 0)
  /\ UNCHANGED <<attempt, tok, newTok, ctxDone, last, sends, late, shared>>

(* Mutant: the attempt starts over when the sleep is done. *)
SleepsAgain(c) ==
  /\ pc[c] = "sleep"
  /\ GoTo(c, "head")
  /\ UNCHANGED <<attempt, tok, newTok, ctxDone, last, outcome, sends, late, shared>>

(* The timer fires.  The select may take this branch with ctx done too,    *)
(* when both channels are ready.                                           *)
SleepElapses(c) ==
  /\ pc[c] = "sleep"
  /\ GoTo(c, "get")
  /\ UNCHANGED <<attempt, tok, newTok, ctxDone, last, outcome, sends, late, shared>>

(* getToken: lock, test, unlock.  The context is not consulted. *)
CacheHit(c) ==
  /\ pc[c] = "get"
  /\ lock = None
  /\ Usable(cached)
  /\ tok' = [tok EXCEPT ![c] = cached]
  /\ Launch(c, "flight")
  /\ UNCHANGED <<attempt, newTok, ctxDone, last, outcome, shared>>

CacheMiss(c) ==
  /\ pc[c] = "get"
  /\ lock = None
  /\ ~Usable(cached)
  /\ lock' = c
  /\ GoTo(c, "fetch")
  /\ UNCHANGED <<attempt, tok, newTok, ctxDone, last, outcome, sends, late, cached, age>>

(* Provider.Token returns inside getToken: cache, unlock, send. *)
FetchReturns(c, t) ==
  /\ pc[c] = "fetch"
  /\ cached' = t
  /\ lock' = None
  /\ tok' = [tok EXCEPT ![c] = t]
  /\ Launch(c, "flight")
  /\ UNCHANGED <<attempt, newTok, ctxDone, last, outcome, age>>

(* Provider.Token fails with e: an error of its own, or the context's. *)
ProviderError(c, e) == e = ProvErr \/ (e = CtxErr /\ ctxDone[c])

FetchFails(c, e) ==
  /\ pc[c] = "fetch"
  /\ ProviderError(c, e)
  /\ lock' = None
  /\ last' = [last EXCEPT ![c] = e]
  /\ Return(c, "Authentication", 0)
  /\ UNCHANGED <<attempt, tok, newTok, ctxDone, sends, late, cached, age>>

(* An answer to a request: the context's error only when it is done. *)
Possible(c, a) == a = CtxErr => ctxDone[c]

Succeeds(c, a) ==
  /\ pc[c] = "flight"
  /\ Success(a)
  /\ last' = [last EXCEPT ![c] = a]
  /\ Return(c, "success", a)
  /\ UNCHANGED <<attempt, tok, newTok, ctxDone, sends, late, shared>>

IsRefused(c, a) ==
  /\ pc[c] = "flight"
  /\ a = Unauthorized
  /\ last' = [last EXCEPT ![c] = a]
  /\ GoTo(c, "invalidate")
  /\ UNCHANGED <<attempt, tok, newTok, ctxDone, outcome, sends, late, shared>>

Retryable(c, a) == ShouldRetry(a) /\ attempt[c] + 1 < Budget

Retries(c, a) ==
  /\ pc[c] = "flight"
  /\ ~Success(a)
  /\ a # Unauthorized
  /\ Possible(c, a)
  /\ Retryable(c, a)
  /\ last' = [last EXCEPT ![c] = a]
  /\ attempt' = [attempt EXCEPT ![c] = @ + 1]
  /\ GoTo(c, "head")
  /\ UNCHANGED <<tok, newTok, ctxDone, outcome, sends, late, shared>>

GivesUp(c, a) ==
  /\ pc[c] = "flight"
  /\ ~Success(a)
  /\ a # Unauthorized
  /\ Possible(c, a)
  /\ ~Retryable(c, a)
  /\ last' = [last EXCEPT ![c] = a]
  /\ IF a \in Failures THEN Return(c, "transport", 0) ELSE Return(c, MapError(a), a)
  /\ UNCHANGED <<attempt, tok, newTok, ctxDone, sends, late, shared>>

(* handle401, first the cache is cleared, whatever it holds by now. *)
Invalidate(c) ==
  /\ pc[c] = "invalidate"
  /\ lock = None
  /\ cached' = NoToken
  /\ GoTo(c, "refetch")
  /\ UNCHANGED <<attempt, tok, newTok, ctxDone, last, outcome, sends, late, age, lock>>

(* handle401 asks the provider without holding t.mu. *)
RefetchReturns(c, t) ==
  /\ pc[c] = "refetch"
  /\ newTok' = [newTok EXCEPT ![c] = t]
  /\ IF t = tok[c]
       THEN Return(c, "TokenUnchanged", Unauthorized)
       ELSE GoTo(c, "store") /\ UNCHANGED outcome
  /\ UNCHANGED <<attempt, tok, ctxDone, last, sends, late, shared>>

RefetchFails(c, e) ==
  /\ pc[c] = "refetch"
  /\ ProviderError(c, e)
  /\ last' = [last EXCEPT ![c] = e]
  /\ Return(c, "Authentication", Unauthorized)
  /\ UNCHANGED <<attempt, tok, newTok, ctxDone, sends, late, shared>>

(* Mutant: the new token is stored without t.mu. *)
StoresUnlocked(c) ==
  /\ pc[c] = "store"
  /\ cached' = newTok[c]
  /\ Launch(c, "resend")
  /\ UNCHANGED <<attempt, tok, newTok, ctxDone, last, outcome, age, lock>>

Store(c) ==
  /\ pc[c] = "store"
  /\ lock = None
  /\ cached' = newTok[c]
  /\ Launch(c, "resend")
  /\ UNCHANGED <<attempt, tok, newTok, ctxDone, last, outcome, age, lock>>

(* Mutant: a retryable answer to the second send rejoins the retry loop. *)
ResendRejoins(c, a) ==
  /\ pc[c] = "resend"
  /\ Possible(c, a)
  /\ last' = [last EXCEPT ![c] = a]
  /\ IF Retryable(c, a)
       THEN /\ attempt' = [attempt EXCEPT ![c] = @ + 1]
            /\ GoTo(c, "head")
            /\ UNCHANGED outcome
       ELSE /\ Return(c, IF Success(a) THEN "success" ELSE "Unexpected", 0)
            /\ UNCHANGED attempt
  /\ UNCHANGED <<tok, newTok, ctxDone, sends, late, shared>>

(* The answer to the second send ends the call, whatever it is. *)
ResendAnswered(c, a) ==
  /\ pc[c] = "resend"
  /\ Possible(c, a)
  /\ last' = [last EXCEPT ![c] = a]
  /\ \/ a \in Failures /\ Return(c, "Authentication", 0)
     \/ a = Unauthorized /\ Return(c, "TokenRejected", a)
     \/ Success(a) /\ Return(c, "success", a)
     \/ /\ a \notin Failures \cup {Unauthorized}
        /\ ~Success(a)
        /\ Return(c, MapError(a), a)
  /\ UNCHANGED <<attempt, tok, newTok, ctxDone, sends, late, shared>>

(* Time passes ExpiresAt - 30s of a token. *)
Ages(t) ==
  /\ t \in Tokens \ Eternal
  /\ age[t] < 2
  /\ age' = [age EXCEPT ![t] = @ + 1]
  /\ UNCHANGED <<local, cached, lock>>

Answered(c, a) == \/ Succeeds(c, a)
                  \/ IsRefused(c, a)
                  \/ Retries(c, a)
                  \/ GivesUp(c, a)
                  \/ ResendAnswered(c, a)

ProviderAnswers(c) == \/ \E t \in Tokens \cup {NoToken} : \/ FetchReturns(c, t)
                                                          \/ RefetchReturns(c, t)
                      \/ \E e \in {ProvErr, CtxErr} : \/ FetchFails(c, e)
                                                      \/ RefetchFails(c, e)

(* Steps the goroutine takes by itself, and those that need t.mu. *)
Proceeds(c) == \/ HeadCancelled(c)
               \/ HeadContinues(c)
               \/ SleepCancelled(c)
               \/ SleepElapses(c)
Locks(c) == \/ CacheHit(c)
            \/ CacheMiss(c)
            \/ Invalidate(c)
            \/ Store(c)

Next == \/ \E c \in Callers : \/ Begin(c)
                              \/ BodyFails(c)
                              \/ Cancel(c)
                              \/ Proceeds(c)
                              \/ Locks(c)
                              \/ ProviderAnswers(c)
                              \/ \E a \in Answers : Answered(c, a)
        \/ \E t \in Tokens : Ages(t)

Spec == Init /\ [][Next]_vars

-----------------------------------------------------------------------------
(* Fairness.  A runnable goroutine runs and a started timer fires (WF);    *)
(* sync.Mutex hands itself to a waiter that has starved for 1ms, so a      *)
(* caller cannot be passed over for ever (SF); the layer below answers,    *)
(* which http.Client's timeouts see to (WF).                               *)
Scheduling == \A c \in Callers : /\ WF_vars(Proceeds(c))
                                 /\ SF_vars(Locks(c))
                                 /\ WF_vars(\E a \in Answers : Answered(c, a))

(* A provider is only known to return once its own context is done, which  *)
(* is all that CredentialProvider's contract asks of it.                   *)
LazyProviderSpec ==
  Spec /\ Scheduling /\ \A c \in Callers : WF_vars(ctxDone[c] /\ ProviderAnswers(c))

-----------------------------------------------------------------------------
TypeOK ==
  /\ pc \in [Callers -> Places]
  /\ attempt \in [Callers -> Nat]
  /\ tok \in [Callers -> Tokens \cup {NoToken}]
  /\ newTok \in [Callers -> Tokens \cup {NoToken}]
  /\ ctxDone \in [Callers -> BOOLEAN]
  /\ last \in [Callers -> Answers \cup {None, ProvErr}]
  /\ outcome \in [Callers -> [kind : Kinds, status : 0..599]]
  /\ sends \in [Callers -> Nat]
  /\ late \in [Callers -> Nat]
  /\ cached \in Tokens \cup {NoToken}
  /\ age \in [Tokens -> 0..2]
  /\ lock \in Callers \cup {None}

(* While a caller holds t.mu to ask the provider for a token, the cache    *)
(* stays a miss: no other caller's 401 path can slip a usable token in for *)
(* the holder to overwrite with an older one (getToken, handle401).        *)
RefreshOnlyOnMiss == lock # None => ~Usable(cached)

(* The second send of the 401 path is the only one outside the budget: a   *)
(* call sends at most Budget requests, and one more only after a 401.      *)
Resent(c) == sends[c] = attempt[c] + 2
SendsWithinBudget ==
  \A c \in Callers : sends[c] <= Budget + (IF Resent(c) THEN 1 ELSE 0)

(* Once the context is done a call starts at most one more request, and    *)
(* one more if that one is refused: the sleep's select may prefer an       *)
(* expired timer to ctx.Done, and neither getToken nor handle401 looks.    *)
CancelBoundsSends ==
  \A c \in Callers : late[c] <= 1 + (IF Resent(c) THEN 1 ELSE 0)

(* A call that fails with an answer the policy would retry has spent every *)
(* attempt, unless it went through the 401 path.                           *)
GivesUpOnlyWhenSpent ==
  \A c \in Callers :
    /\ pc[c] = "done"
    /\ outcome[c].kind \notin {"success", "context", "Authentication"}
    /\ ShouldRetry(last[c])
    => last[c] = Unauthorized \/ Resent(c) \/ sends[c] = Budget

(* How far a call has come: ten places to an attempt. *)
Stage(place) ==
  [idle |-> 0, head |-> 0, sleep |-> 1, get |-> 2, fetch |-> 3, flight |-> 4,
   invalidate |-> 5, refetch |-> 6, store |-> 7, resend |-> 8, done |-> 9][place]
Progress(c) == 10 * attempt[c] + Stage(pc[c])

(* No call goes round and round: whatever it and the others do, each of    *)
(* its steps brings it nearer to its end, which is less than ten per       *)
(* attempt away (the loop of RoundTrip, which handle401 does not rejoin).  *)
NeverTurnsBack ==
  [][\A c \in Callers : pc[c] \notin Idle =>
       /\ Progress(c)' < 10 * Budget
       /\ UNCHANGED <<pc[c], attempt[c]>> \/ Progress(c) < Progress(c)']_vars

(* Liveness: a call that began returns, however the others use the mutex   *)
(* and the cache.                                                          *)
EveryCallEnds == \A c \in Callers : pc[c] \notin Idle ~> pc[c] = "done"

-----------------------------------------------------------------------------
(* Without the cache, the mutex and the provider this is Call.tla.         *)
Phase(c) == CASE pc[c] \in Idle -> pc[c]
              [] pc[c] \in {"flight", "resend"} -> "waiting"
              [] OTHER -> "ready"
Verdict(c) == CASE outcome[c].kind = "none" -> "none"
                [] outcome[c].kind = "success" -> "ok"
                [] OTHER -> "error"

Promise == INSTANCE Call WITH
  Transient <- IF Enabled THEN RetryableStatus ELSE {},
  phase <- [c \in Callers |-> Phase(c)],
  used <- sends,
  heard <- last,
  extra <- [c \in Callers |-> IF Resent(c) THEN 1 ELSE 0],
  verdict <- [c \in Callers |-> Verdict(c)]

(* The refinement: whatever the callers do to each other's tokens, each    *)
(* call keeps the promise of Call.tla.                                     *)
KeepsPromise == Promise!CallSpec
=============================================================================
