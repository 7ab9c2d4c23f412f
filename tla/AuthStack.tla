------------------------------ MODULE AuthStack ------------------------------
(***************************************************************************)
(* The transport over a particular credential provider and an honest       *)
(* backend: the backend accepts one token at a time and answers 401        *)
(* exactly when it is sent another one.                                    *)
(*                                                                         *)
(* The provider is auth.RefreshFunc, whose own cache and mutex (p.cached,  *)
(* p.mu) sit below those of the transport, or auth.StaticToken, which      *)
(* hands out one token for ever, or one of the user's own without a cache, *)
(* which asks the identity service each time ("direct").  The latter and   *)
(* the refresh callback are external: they hand out the token the backend  *)
(* accepts, or fail.                                                       *)
(***************************************************************************)
EXTENDS Transport

CONSTANT
  Modes     \* the providers and backends considered

(* The token given to StaticToken, with a zero ExpiresAt. *)
StaticTok == 0

(* Tokens are numbered in the order in which the backend accepts them: it  *)
(* begins with 1, or where a fixed token was agreed upon with that one.    *)
ASSUME StackAssumption ==
  /\ Tokens \subseteq Nat /\ 1 \in Tokens /\ StaticTok \in Eternal
  /\ NoToken \notin Nat
  /\ Modes \subseteq [adapter : {"refresh", "static", "direct"}, early : BOOLEAN]

VARIABLES
  mode,      \* which provider, and whether the backend may drop a token early
  current,   \* the token the backend accepts
  pcached,   \* p.cached, NoToken while p.valid is false
  plock,     \* p.mu: its holder, or None
  inFn,      \* callers that are inside the refresh callback
  rotated    \* history: the backend changed token during this call

provider == <<pcached, plock, inFn>>
stackVars == <<vars, mode, current, provider, rotated>>

InProvider(c) == pc[c] \in {"fetch", "refetch"}
Deliver(c, t) == FetchReturns(c, t) \/ RefetchReturns(c, t)
DeliverError(c) == \E e \in {ProvErr, CtxErr} : FetchFails(c, e) \/ RefetchFails(c, e)

(* Mutant: the expiry of the provider's own cache is not tested. *)
CachedForever == pcached \in Tokens

(* p.valid && !p.isExpired(): now is not after ExpiresAt - 30s. *)
Cached == pcached \in Tokens /\ age[pcached] < 2

(* Token(): the lock is taken and the cached token handed out. *)
RefreshHit(c) ==
  /\ InProvider(c) /\ c \notin inFn
  /\ plock = None
  /\ Cached
  /\ Deliver(c, pcached)
  /\ UNCHANGED <<mode, current, provider, rotated>>

(* Mutant: p.mu is not held across the callback. *)
MissUnlocked(c) ==
  /\ InProvider(c) /\ c \notin inFn
  /\ ~Cached
  /\ plock' = c
  /\ inFn' = inFn \cup {c}
  /\ UNCHANGED <<vars, mode, current, pcached, rotated>>

(* Token(): the lock is taken and the callback entered. *)
RefreshMiss(c) ==
  /\ InProvider(c) /\ c \notin inFn
  /\ plock = None
  /\ ~Cached
  /\ plock' = c
  /\ inFn' = inFn \cup {c}
  /\ UNCHANGED <<vars, mode, current, pcached, rotated>>

FnReturns(c) ==
  /\ c \in inFn
  /\ Deliver(c, current)
  /\ pcached' = current
  /\ plock' = None
  /\ inFn' = inFn \ {c}
  /\ UNCHANGED <<mode, current, rotated>>

(* Mutant: p.mu stays locked when the callback fails. *)
FnFailsLocked(c) ==
  /\ c \in inFn
  /\ DeliverError(c)
  /\ inFn' = inFn \ {c}
  /\ UNCHANGED <<mode, current, pcached, plock, rotated>>

(* The callback fails: the cache is left untouched. *)
FnFails(c) ==
  /\ c \in inFn
  /\ DeliverError(c)
  /\ plock' = None
  /\ inFn' = inFn \ {c}
  /\ UNCHANGED <<mode, current, pcached, rotated>>

(* staticTokenProvider: never an error, whatever the backend makes of it. *)
StaticAnswers(c) ==
  /\ Deliver(c, StaticTok)
  /\ UNCHANGED <<mode, current, provider, rotated>>

(* External: a CredentialProvider of the user's. *)
DirectAnswers(c) ==
  /\ Deliver(c, current) \/ DeliverError(c)
  /\ UNCHANGED <<mode, current, provider, rotated>>

FnAnswers(c) == FnReturns(c) \/ FnFails(c)
TokenStep(c) ==
  \/ mode.adapter = "refresh" /\ (RefreshHit(c) \/ RefreshMiss(c) \/ FnAnswers(c))
  \/ mode.adapter = "static" /\ StaticAnswers(c)
  \/ mode.adapter = "direct" /\ DirectAnswers(c)

(* The backend judges the token that the request carries. *)
Presented(c) == IF pc[c] = "resend" THEN newTok[c] ELSE tok[c]
BackendAnswers(c) ==
  \E a \in Answers :
    /\ a \in Statuses => (a = Unauthorized <=> Presented(c) # current)
    /\ Answered(c, a)
    /\ UNCHANGED <<mode, current, provider, rotated>>

StartCall(c) ==
  /\ Begin(c)
  /\ rotated' = [rotated EXCEPT ![c] = FALSE]
  /\ UNCHANGED <<mode, current, provider>>

CallerStep(c) ==
  /\ Cancel(c) \/ Proceeds(c) \/ Locks(c)
  /\ UNCHANGED <<mode, current, provider, rotated>>

(* The backend stops accepting the current token. *)
Rotate ==
  /\ current + 1 \in Tokens
  /\ mode.early \/ age[current] = 2
  /\ current' = current + 1
  /\ rotated' = [c \in Callers |-> rotated[c] \/ pc[c] \notin Idle]
  /\ UNCHANGED <<vars, mode, provider>>

TimePasses == /\ \E t \in Tokens : t <= current /\ Ages(t)
              /\ UNCHANGED <<mode, current, provider, rotated>>

StackInit == /\ Init
             /\ mode \in Modes
             /\ current = IF mode.adapter = "static" THEN StaticTok ELSE 1
             /\ pcached = NoToken
             /\ plock = None
             /\ inFn = {}
             /\ rotated = [c \in Callers |-> FALSE]

StackNext == \/ \E c \in Callers : \/ StartCall(c)
                                   \/ CallerStep(c)
                                   \/ TokenStep(c)
                                   \/ BackendAnswers(c)
             \/ Rotate
             \/ TimePasses

StackSpec == StackInit /\ [][StackNext]_stackVars

(* The caller asks the identity service, by the callback or directly. *)
Asking(c) == \/ mode.adapter = "refresh" /\ c \in inFn
             \/ mode.adapter = "direct" /\ InProvider(c)
ServiceAnswers(c) == \/ mode.adapter = "refresh" /\ FnAnswers(c)
                     \/ mode.adapter = "direct" /\ DirectAnswers(c)

(* As in Transport; p.mu is fair as t.mu is; StaticToken just returns; the *)
(* service is only known to answer a caller whose context is done, as      *)
(* CredentialProvider asks.                                                *)
StackFairSpec ==
  /\ StackSpec
  /\ \A c \in Callers : /\ WF_stackVars(Proceeds(c) /\ CallerStep(c))
                        /\ SF_stackVars(Locks(c) /\ CallerStep(c))
                        /\ SF_stackVars(mode.adapter = "refresh" /\ (RefreshHit(c) \/ RefreshMiss(c)))
                        /\ WF_stackVars(mode.adapter = "static" /\ StaticAnswers(c))
                        /\ WF_stackVars(ctxDone[c] /\ ServiceAnswers(c))
                        /\ WF_stackVars(BackendAnswers(c))

-----------------------------------------------------------------------------
StackTypeOK ==
  /\ TypeOK
  /\ mode \in Modes
  /\ current \in Tokens
  /\ pcached \in Tokens \cup {NoToken}
  /\ plock \in Callers \cup {None}
  /\ inFn \subseteq Callers
  /\ rotated \in [Callers -> BOOLEAN]

(* RefreshFunc is single-flight: one caller at a time is in the callback,  *)
(* and only while no unexpired token is cached, though the 401 paths call  *)
(* the provider without t.mu (refreshFuncProvider.Token).                  *)
SingleFlight ==
  /\ \A c, d \in inFn : c = d
  /\ inFn # {} => ~Cached

(* A call during which the backend keeps accepting the same token does not *)
(* fail for authentication, whatever stale token it found in the cache and *)
(* whatever the other calls did to the cache (handle401, getToken).  Only  *)
(* where the provider can follow the backend: a token that RefreshFunc or  *)
(* StaticToken keeps has to be accepted as long as it is kept.             *)
NoSpuriousAuthFailure ==
  \A c \in Callers :
    pc[c] = "done" /\ outcome[c].kind \in {"TokenUnchanged", "TokenRejected"} => rotated[c]

(* c needs a mutex that d holds. *)
WaitsFor(c, d) ==
  \/ pc[c] \in {"get", "invalidate", "store"} /\ lock = d
  \/ mode.adapter = "refresh" /\ InProvider(c) /\ c \notin inFn /\ plock = d

(* t.mu and p.mu cannot deadlock: who holds a mutex that another call      *)
(* needs is in the provider, and if it needs a mutex too, the holder of    *)
(* that one needs none and is asking the identity service (getToken,       *)
(* handle401, refreshFuncProvider.Token).                                  *)
NoCircularWait ==
  \A c, d \in Callers : WaitsFor(c, d) =>
    /\ InProvider(d)
    /\ \A e \in Callers : WaitsFor(d, e) => Asking(e) /\ \A f \in Callers : ~WaitsFor(e, f)

(* Liveness: when nobody asks the identity service for ever under a        *)
(* context that stays alive, every call ends.  However t.mu and p.mu are   *)
(* nested, only a caller inside the service keeps others waiting, and its  *)
(* own context sets them free (getToken, refreshFuncProvider.Token).       *)
OnlyTheAskerBlocks ==
  (\A d \in Callers : []<>~(Asking(d) /\ ~ctxDone[d])) => EveryCallEnds
=============================================================================
