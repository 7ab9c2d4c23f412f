--------------------------- MODULE TransportProofs ---------------------------
(***************************************************************************)
(* Theorems about Transport for any number of callers and tokens, any      *)
(* retry policy, any provider and any backend; and about the transport     *)
(* composed with what is around it: with a credential provider (AuthStack) *)
(* and with a backend that acts on what it is sent (Delivery).  Both       *)
(* compositions are transports, so the theorems about Transport, which     *)
(* come first, hold of them too.                                           *)
(***************************************************************************)
EXTENDS AuthStack, Delivery, FiniteSetTheorems, TLAPS

-----------------------------------------------------------------------------
(* The inductive invariant.  Locked: t.mu is held exactly by the caller    *)
(* that is in the provider inside getToken, and the cache is then a miss.  *)
(* Counted: how often a call has sent, from where it is in the loop.       *)
(* Cancelled: what it may have sent since its context was done.  Told:     *)
(* what it heard last, and that only a returned call has an outcome.       *)
BeforeSend == {"head", "sleep", "get", "fetch"}
In401 == {"invalidate", "refetch", "store"}

Locked == /\ \A c \in Callers : pc[c] = "fetch" <=> lock = c
          /\ lock # None => ~Usable(cached)

Counted(c) ==
  /\ attempt[c] < Budget
  /\ pc[c] = "idle" => attempt[c] = 0 /\ sends[c] = 0
  /\ pc[c] \in BeforeSend => sends[c] = attempt[c]
  /\ pc[c] \in In401 \cup {"flight"} => sends[c] = attempt[c] + 1
  /\ pc[c] = "resend" => Resent(c)
  /\ sends[c] <= attempt[c] + 2

Cancelled(c) ==
  /\ late[c] > 0 => ctxDone[c]
  /\ pc[c] \in {"idle", "sleep", "get", "fetch"} => late[c] = 0
  /\ late[c] <= 1 + (IF Resent(c) THEN 1 ELSE 0)

Earns(a) == a \in Failures \cup (RetryableStatus \ ({Unauthorized} \cup 200..399))

Told(c) ==
  /\ pc[c] = "idle" => last[c] = None
  /\ pc[c] \in BeforeSend =>
       IF attempt[c] = 0 THEN last[c] = None ELSE Enabled /\ Earns(last[c])
  /\ pc[c] \in In401 => last[c] = Unauthorized
  /\ pc[c] = "done" <=> outcome[c].kind # "none"

Spent(c) ==
  /\ pc[c] = "done"
  /\ outcome[c].kind \notin {"success", "context", "Authentication"}
  /\ ShouldRetry(last[c])
  => last[c] = Unauthorized \/ Resent(c) \/ sends[c] = Budget

IInv == /\ Locked
        /\ \A c \in Callers : Counted(c) /\ Cancelled(c) /\ Told(c) /\ Spent(c)

-----------------------------------------------------------------------------
(* The loop always has at least one attempt. *)
LEMMA BudgetIsPositive == Budget \in Nat /\ Budget >= 1
BY PolicyAssumption DEF Budget

LEMMA SmallestAbove ==
  ASSUME NEW m \in Nat, NEW n \in Nat, m < n, ~(m + 1 < n)
  PROVE  m + 1 = n
OBVIOUS

(* Statuses are numbers and none of the other things a call may hear. *)
LEMMA StatusFacts ==
  /\ \A s \in Statuses : s \in 100..599 /\ s \notin {NetErr, CtxErr, ProvErr, None}
  /\ None \notin RetryableStatus \cup Failures
BY StatusAssumption, PolicyAssumption DEF Failures

(* mapError knows no kinds but those of errors.go. *)
LEMMA MapErrorFacts ==
  \A s : MapError(s) \in Kinds \ {"none", "success", "context", "transport"}
BY DEF MapError, Kinds

(* What returning does to the two variables it touches. *)
LEMMA ReturnTyped ==
  ASSUME TypeOK, NEW c \in Callers, NEW kind \in Kinds, NEW status \in 0..599,
         Return(c, kind, status)
  PROVE  pc' \in [Callers -> Places] /\ outcome' \in [Callers -> [kind : Kinds, status : 0..599]]
<1>1. [kind |-> kind, status |-> status] \in [kind : Kinds, status : 0..599]
  OBVIOUS
<1>2. QED BY <1>1 DEF TypeOK, Return, GoTo, Places

(* What starting a request does to the three variables it touches. *)
LEMMA LaunchTyped ==
  ASSUME TypeOK, NEW c \in Callers, NEW place \in Places, Launch(c, place)
  PROVE  pc' \in [Callers -> Places] /\ sends' \in [Callers -> Nat] /\ late' \in [Callers -> Nat]
BY DEF TypeOK, Launch, GoTo

(* What moving on does to the place of a caller. *)
LEMMA GoToTyped ==
  ASSUME TypeOK, NEW c \in Callers, NEW place \in Places, GoTo(c, place)
  PROVE  pc' \in [Callers -> Places]
BY DEF TypeOK, GoTo

(* What hearing an answer does to last.  *)
LEMMA LastTyped ==
  ASSUME TypeOK, NEW c \in Callers, NEW a \in Answers \cup {None, ProvErr},
         last' = [last EXCEPT ![c] = a]
  PROVE  last' \in [Callers -> Answers \cup {None, ProvErr}]
BY DEF TypeOK

(* One case per action, for the proofs that follow. *)
LEMMA NextCases ==
  ASSUME Next
  PROVE  \/ \E c \in Callers : \/ Begin(c) \/ BodyFails(c) \/ Cancel(c)
                               \/ HeadCancelled(c) \/ HeadContinues(c)
                               \/ SleepCancelled(c) \/ SleepElapses(c)
                               \/ CacheHit(c) \/ CacheMiss(c) \/ Invalidate(c) \/ Store(c)
                               \/ \E t \in Tokens \cup {NoToken} : FetchReturns(c, t) \/ RefetchReturns(c, t)
                               \/ \E e \in {ProvErr, CtxErr} : FetchFails(c, e) \/ RefetchFails(c, e)
                               \/ \E a \in Answers : \/ Succeeds(c, a) \/ IsRefused(c, a)
                                                     \/ Retries(c, a) \/ GivesUp(c, a)
                                                     \/ ResendAnswered(c, a)
         \/ \E t \in Tokens : Ages(t)
BY DEF Next, Proceeds, Locks, ProviderAnswers, Answered

(* A step keeps the types. *)
LEMMA TypeStep ==
  ASSUME TypeOK, [Next]_vars
  PROVE  TypeOK'
<1>a. {"head", "sleep", "get", "fetch", "flight", "invalidate", "refetch", "store",
       "resend", "done"} \subseteq Places
  BY DEF Places
<1>0. /\ "body" \in Kinds /\ "context" \in Kinds /\ "Authentication" \in Kinds
      /\ "none" \in Kinds /\ "success" \in Kinds /\ "transport" \in Kinds
      /\ "TokenUnchanged" \in Kinds /\ "TokenRejected" \in Kinds
      /\ 0 \in 0..599 /\ Unauthorized \in 0..599
  BY DEF Kinds, Unauthorized
<1>1. ASSUME NEW c \in Callers, Begin(c) PROVE TypeOK'
  BY <1>1, <1>a, <1>0, GoToTyped, TokenAssumption DEF Begin, Fresh, shared, TypeOK
<1>2. ASSUME NEW c \in Callers, BodyFails(c) PROVE TypeOK'
  <2>1. pc' \in [Callers -> Places] /\ outcome' \in [Callers -> [kind : Kinds, status : 0..599]]
    BY <1>2, <1>0, ReturnTyped DEF BodyFails
  <2>2. QED BY <2>1, <1>2, TokenAssumption DEF BodyFails, Fresh, shared, TypeOK
<1>3. ASSUME NEW c \in Callers, Cancel(c) PROVE TypeOK'
  BY <1>3 DEF Cancel, shared, TypeOK
<1>4. ASSUME NEW c \in Callers, HeadCancelled(c) \/ SleepCancelled(c) PROVE TypeOK'
  <2>1. pc' \in [Callers -> Places] /\ outcome' \in [Callers -> [kind : Kinds, status : 0..599]]
    BY <1>4, <1>0, ReturnTyped DEF HeadCancelled, SleepCancelled
  <2>2. QED BY <2>1, <1>4 DEF HeadCancelled, SleepCancelled, shared, TypeOK
<1>5. ASSUME NEW c \in Callers, HeadContinues(c) \/ SleepElapses(c) PROVE TypeOK'
  <2>1. GoTo(c, "sleep") \/ GoTo(c, "get")
    BY <1>5 DEF HeadContinues, SleepElapses
  <2>2. pc' \in [Callers -> Places]
    BY <2>1, <1>a, GoToTyped
  <2>3. QED BY <2>2, <1>5 DEF HeadContinues, SleepElapses, shared, TypeOK
<1>6. ASSUME NEW c \in Callers, CacheHit(c) PROVE TypeOK'
  BY <1>6, <1>a, LaunchTyped DEF CacheHit, shared, TypeOK
<1>7. ASSUME NEW c \in Callers, CacheMiss(c) PROVE TypeOK'
  BY <1>7, <1>a, GoToTyped DEF CacheMiss, TypeOK
<1>8. ASSUME NEW c \in Callers, Invalidate(c) PROVE TypeOK'
  BY <1>8, <1>a, GoToTyped DEF Invalidate, TypeOK
<1>9. ASSUME NEW c \in Callers, Store(c) PROVE TypeOK'
  BY <1>9, <1>a, LaunchTyped DEF Store, TypeOK
<1>10. ASSUME NEW c \in Callers, NEW t \in Tokens \cup {NoToken}, FetchReturns(c, t) PROVE TypeOK'
  BY <1>10, <1>a, LaunchTyped DEF FetchReturns, TypeOK
<1>11. ASSUME NEW c \in Callers, NEW t \in Tokens \cup {NoToken}, RefetchReturns(c, t) PROVE TypeOK'
  <2>1. CASE t = tok[c]
    <3>1. pc' \in [Callers -> Places] /\ outcome' \in [Callers -> [kind : Kinds, status : 0..599]]
      BY <2>1, <1>11, <1>0, ReturnTyped DEF RefetchReturns
    <3>2. newTok' \in [Callers -> Tokens \cup {NoToken}]
      BY <1>11 DEF RefetchReturns, TypeOK
    <3>3. QED BY <3>1, <3>2, <1>11 DEF RefetchReturns, shared, TypeOK
  <2>2. CASE t # tok[c]
    <3>1. pc' \in [Callers -> Places]
      BY <2>2, <1>11, <1>a, GoToTyped DEF RefetchReturns
    <3>2. newTok' \in [Callers -> Tokens \cup {NoToken}]
      BY <1>11 DEF RefetchReturns, TypeOK
    <3>3. QED BY <2>2, <3>1, <3>2, <1>11 DEF RefetchReturns, shared, TypeOK
  <2>3. QED BY <2>1, <2>2
<1>12. ASSUME NEW c \in Callers, NEW e \in {ProvErr, CtxErr}, FetchFails(c, e) PROVE TypeOK'
  <2>1. last' \in [Callers -> Answers \cup {None, ProvErr}]
    BY <1>12, LastTyped DEF FetchFails, Answers, Failures
  <2>2. pc' \in [Callers -> Places] /\ outcome' \in [Callers -> [kind : Kinds, status : 0..599]]
    BY <1>12, <1>0, ReturnTyped DEF FetchFails
  <2>3. QED BY <2>1, <2>2, <1>12 DEF FetchFails, TypeOK
<1>13. ASSUME NEW c \in Callers, NEW e \in {ProvErr, CtxErr}, RefetchFails(c, e) PROVE TypeOK'
  <2>1. last' \in [Callers -> Answers \cup {None, ProvErr}]
    BY <1>13, LastTyped DEF RefetchFails, Answers, Failures
  <2>2. pc' \in [Callers -> Places] /\ outcome' \in [Callers -> [kind : Kinds, status : 0..599]]
    BY <1>13, <1>0, ReturnTyped DEF RefetchFails
  <2>3. QED BY <2>1, <2>2, <1>13 DEF RefetchFails, shared, TypeOK
<1>14. ASSUME NEW c \in Callers, NEW a \in Answers,
              \/ Succeeds(c, a) \/ IsRefused(c, a) \/ Retries(c, a)
              \/ GivesUp(c, a) \/ ResendAnswered(c, a)
       PROVE TypeOK'
  <2>1. MapError(a) \in Kinds
    BY MapErrorFacts
  <2>2. a \notin Failures => a \in 0..599
    <3>1. a \notin Failures => a \in 100..599
      BY StatusFacts DEF Answers
    <3>2. QED BY <3>1
  <2>3. Success(a) => a \in 0..599
    BY DEF Success
  <2>4. CASE Succeeds(c, a)
    <3>1. pc' \in [Callers -> Places] /\ outcome' \in [Callers -> [kind : Kinds, status : 0..599]]
      BY <2>3, <2>4, <1>0, ReturnTyped DEF Succeeds
    <3>2. last' \in [Callers -> Answers \cup {None, ProvErr}]
      BY <2>4, LastTyped DEF Succeeds
    <3>3. QED BY <3>1, <3>2, <2>4 DEF Succeeds, shared, TypeOK
  <2>5. CASE IsRefused(c, a)
    BY <2>5, <1>a, GoToTyped, LastTyped DEF IsRefused, shared, TypeOK
  <2>6. CASE Retries(c, a)
    BY <2>6, <1>a, GoToTyped, LastTyped DEF Retries, shared, TypeOK
  <2>7. CASE GivesUp(c, a)
    <3>1. \E k \in Kinds, s \in 0..599 : Return(c, k, s)
      BY <2>7, <2>1, <2>2, <1>0 DEF GivesUp
    <3>2. pc' \in [Callers -> Places] /\ outcome' \in [Callers -> [kind : Kinds, status : 0..599]]
      BY <3>1, ReturnTyped
    <3>3. last' \in [Callers -> Answers \cup {None, ProvErr}]
      BY <2>7, LastTyped DEF GivesUp
    <3>4. QED BY <3>2, <3>3, <2>7 DEF GivesUp, shared, TypeOK
  <2>8. CASE ResendAnswered(c, a)
    <3>1. \E k \in Kinds, s \in 0..599 : Return(c, k, s)
      BY <2>8, <2>1, <2>2, <2>3, <1>0 DEF ResendAnswered
    <3>2. pc' \in [Callers -> Places] /\ outcome' \in [Callers -> [kind : Kinds, status : 0..599]]
      BY <3>1, ReturnTyped
    <3>3. last' \in [Callers -> Answers \cup {None, ProvErr}]
      BY <2>8, LastTyped DEF ResendAnswered
    <3>4. QED BY <3>2, <3>3, <2>8 DEF ResendAnswered, shared, TypeOK
  <2>9. QED BY <1>14, <2>4, <2>5, <2>6, <2>7, <2>8
<1>15. ASSUME NEW t \in Tokens, Ages(t) PROVE TypeOK'
  BY <1>15 DEF Ages, local, TypeOK
<1>16. CASE UNCHANGED vars
  BY <1>16 DEF vars, local, shared, TypeOK
<1>17. CASE Next
  BY <1>17, NextCases, <1>1, <1>2, <1>3, <1>4, <1>5, <1>6, <1>7, <1>8, <1>9, <1>10,
     <1>11, <1>12, <1>13, <1>14, <1>15
<1>18. QED BY <1>16, <1>17

(* Type correctness of the transport: in particular statuses returned are  *)
(* HTTP statuses or 0, and only callers hold t.mu.                         *)
THEOREM TypeCorrect == Spec => []TypeOK
<1>1. Init => TypeOK
  BY TokenAssumption DEF Init, TypeOK, Places, Kinds, Answers
<1>2. TypeOK /\ [Next]_vars => TypeOK'
  BY TypeStep
<1>3. QED BY <1>1, <1>2, PTL DEF Spec

-----------------------------------------------------------------------------
(* Inside getToken the mutex does its work: a caller is in the provider    *)
(* with t.mu exactly when it is the holder, and nothing stores into the    *)
(* cache meanwhile.                                                        *)
LEMMA LockedStep == TypeOK /\ Locked /\ [Next]_vars => Locked'
<1> SUFFICES ASSUME TypeOK, Locked, [Next]_vars PROVE Locked'
  OBVIOUS
<1> USE CallerAssumption DEF Locked, Usable, TypeOK
<1>1. ASSUME NEW c \in Callers, Begin(c) \/ BodyFails(c) PROVE Locked'
  BY <1>1 DEF Begin, BodyFails, Fresh, Return, GoTo, Idle, shared
<1>2. ASSUME NEW c \in Callers, Cancel(c) PROVE Locked'
  BY <1>2 DEF Cancel, shared
<1>3. ASSUME NEW c \in Callers, HeadCancelled(c) \/ SleepCancelled(c) PROVE Locked'
  BY <1>3 DEF HeadCancelled, SleepCancelled, Return, GoTo, shared
<1>4. ASSUME NEW c \in Callers, HeadContinues(c) \/ SleepElapses(c) PROVE Locked'
  <2>1. GoTo(c, "sleep") \/ GoTo(c, "get")
    BY <1>4 DEF HeadContinues, SleepElapses
  <2>2. pc[c] # "fetch" /\ UNCHANGED <<cached, age, lock>>
    BY <1>4 DEF HeadContinues, SleepElapses, shared
  <2>3. QED BY <2>1, <2>2 DEF GoTo
<1>5. ASSUME NEW c \in Callers, CacheHit(c) PROVE Locked'
  BY <1>5 DEF CacheHit, Launch, GoTo, shared
<1>6. ASSUME NEW c \in Callers, CacheMiss(c) PROVE Locked'
  BY <1>6 DEF CacheMiss, GoTo
<1>7. ASSUME NEW c \in Callers, Invalidate(c) \/ Store(c) PROVE Locked'
  BY <1>7 DEF Invalidate, Store, Launch, GoTo
<1>8. ASSUME NEW c \in Callers, NEW t \in Tokens \cup {NoToken}, FetchReturns(c, t) PROVE Locked'
  BY <1>8 DEF FetchReturns, Launch, GoTo
<1>9. ASSUME NEW c \in Callers, NEW t \in Tokens \cup {NoToken}, RefetchReturns(c, t) PROVE Locked'
  BY <1>9 DEF RefetchReturns, Return, GoTo, shared
<1>10. ASSUME NEW c \in Callers, NEW e \in {ProvErr, CtxErr}, FetchFails(c, e) PROVE Locked'
  BY <1>10 DEF FetchFails, Return, GoTo
<1>11. ASSUME NEW c \in Callers, NEW e \in {ProvErr, CtxErr}, RefetchFails(c, e) PROVE Locked'
  BY <1>11 DEF RefetchFails, Return, GoTo, shared
<1>12. ASSUME NEW c \in Callers, NEW a \in Answers,
              \/ Succeeds(c, a) \/ IsRefused(c, a) \/ Retries(c, a)
              \/ GivesUp(c, a) \/ ResendAnswered(c, a)
       PROVE Locked'
  <2>1. pc[c] # "fetch" /\ UNCHANGED <<cached, age, lock>>
    BY <1>12 DEF Succeeds, IsRefused, Retries, GivesUp, ResendAnswered, shared
  <2>2. GoTo(c, "done") \/ GoTo(c, "invalidate") \/ GoTo(c, "head")
    BY <1>12 DEF Succeeds, IsRefused, Retries, GivesUp, ResendAnswered, Return
  <2>3. QED BY <2>1, <2>2 DEF GoTo
<1>13. ASSUME NEW t \in Tokens, Ages(t) PROVE Locked'
  BY <1>13 DEF Ages, local
<1>14. CASE UNCHANGED vars
  BY <1>14 DEF vars, local, shared
<1>15. CASE Next
  BY <1>15, NextCases, <1>1, <1>2, <1>3, <1>4, <1>5, <1>6, <1>7, <1>8, <1>9, <1>10, <1>11,
     <1>12, <1>13
<1>16. QED BY <1>14, <1>15

(* A step of c leaves the locals of the other callers alone.               *)
Frame(c) == \A d \in Callers \ {c} :
  /\ pc'[d] = pc[d] /\ attempt'[d] = attempt[d] /\ ctxDone'[d] = ctxDone[d]
  /\ last'[d] = last[d] /\ outcome'[d] = outcome[d]
  /\ sends'[d] = sends[d] /\ late'[d] = late[d]

PerCall(d) == Counted(d) /\ Cancelled(d) /\ Told(d) /\ Spent(d)

(* A caller that no step touches keeps its part of the invariant.  *)
LEMMA FrameKeeps ==
  ASSUME NEW c \in Callers, Frame(c), NEW d \in Callers \ {c}, PerCall(d)
  PROVE  PerCall(d)'
BY DEF Frame, PerCall, Counted, Cancelled, Told, Spent, Resent, Earns, ShouldRetry

(* The caller that takes a step keeps its own part of the invariant.       *)
LEMMA OwnStep ==
  ASSUME TypeOK, NEW c \in Callers, PerCall(c),
         \/ Begin(c) \/ BodyFails(c) \/ Cancel(c)
         \/ HeadCancelled(c) \/ HeadContinues(c) \/ SleepCancelled(c) \/ SleepElapses(c)
         \/ CacheHit(c) \/ CacheMiss(c) \/ Invalidate(c) \/ Store(c)
         \/ \E t \in Tokens \cup {NoToken} : FetchReturns(c, t) \/ RefetchReturns(c, t)
         \/ \E e \in {ProvErr, CtxErr} : FetchFails(c, e) \/ RefetchFails(c, e)
         \/ \E a \in Answers : \/ Succeeds(c, a) \/ IsRefused(c, a) \/ Retries(c, a)
                               \/ GivesUp(c, a) \/ ResendAnswered(c, a)
  PROVE  PerCall(c)' /\ Frame(c)
<1> USE BudgetIsPositive DEF PerCall, Frame, BeforeSend, In401, TypeOK, GoTo
<1>1. CASE Begin(c)
  BY <1>1 DEF Begin, Fresh, Idle, Counted, Cancelled, Told, Spent, Resent
<1>2. CASE BodyFails(c)
  BY <1>2, StatusFacts DEF BodyFails, Fresh, Return, Idle, Counted, Cancelled, Told, Spent, Resent,
                           ShouldRetry
<1>3. CASE Cancel(c)
  BY <1>3 DEF Cancel, Counted, Cancelled, Told, Spent, Resent, ShouldRetry
<1>4. CASE HeadCancelled(c) \/ SleepCancelled(c)
  BY <1>4 DEF HeadCancelled, SleepCancelled, Return, Counted, Cancelled, Told, Spent, Resent
<1>5. CASE HeadContinues(c) \/ SleepElapses(c)
  BY <1>5 DEF HeadContinues, SleepElapses, Counted, Cancelled, Told, Spent, Resent
<1>6. CASE CacheHit(c)
  BY <1>6 DEF CacheHit, Launch, Counted, Cancelled, Told, Spent, Resent
<1>7. CASE CacheMiss(c)
  BY <1>7 DEF CacheMiss, Counted, Cancelled, Told, Spent, Resent
<1>8. CASE Invalidate(c)
  BY <1>8 DEF Invalidate, Counted, Cancelled, Told, Spent, Resent
<1>9. CASE Store(c)
  BY <1>9 DEF Store, Launch, Counted, Cancelled, Told, Spent, Resent
<1>10. ASSUME NEW t \in Tokens \cup {NoToken}, FetchReturns(c, t) PROVE PerCall(c)' /\ Frame(c)
  BY <1>10 DEF FetchReturns, Launch, Counted, Cancelled, Told, Spent, Resent
<1>11. ASSUME NEW t \in Tokens \cup {NoToken}, RefetchReturns(c, t) PROVE PerCall(c)' /\ Frame(c)
  BY <1>11 DEF RefetchReturns, Return, Counted, Cancelled, Told, Spent, Resent
<1>12. ASSUME NEW e \in {ProvErr, CtxErr}, FetchFails(c, e) PROVE PerCall(c)' /\ Frame(c)
  BY <1>12 DEF FetchFails, Return, Counted, Cancelled, Told, Spent, Resent
<1>13. ASSUME NEW e \in {ProvErr, CtxErr}, RefetchFails(c, e) PROVE PerCall(c)' /\ Frame(c)
  BY <1>13 DEF RefetchFails, Return, Counted, Cancelled, Told, Spent, Resent
<1>14. ASSUME NEW a \in Answers, Succeeds(c, a) PROVE PerCall(c)' /\ Frame(c)
  BY <1>14 DEF Succeeds, Return, Counted, Cancelled, Told, Spent, Resent
<1>15. ASSUME NEW a \in Answers, IsRefused(c, a) PROVE PerCall(c)' /\ Frame(c)
  BY <1>15 DEF IsRefused, Counted, Cancelled, Told, Spent, Resent
<1>16. ASSUME NEW a \in Answers, Retries(c, a) PROVE PerCall(c)' /\ Frame(c)
  BY <1>16 DEF Retries, Retryable, ShouldRetry, Success, Earns, Counted, Cancelled, Told, Spent, Resent
<1>17. ASSUME NEW a \in Answers, GivesUp(c, a) PROVE PerCall(c)' /\ Frame(c)
  <2>1. PICK k \in Kinds \ {"none", "success", "context"} : \E s : Return(c, k, s)
    BY <1>17, MapErrorFacts DEF GivesUp, Kinds
  <2>2. pc'[c] = "done" /\ outcome'[c].kind = k
    BY <2>1 DEF Return
  <2>3. Counted(c)' /\ Cancelled(c)' /\ Told(c)' /\ Frame(c)
    BY <1>17, <2>1, <2>2 DEF GivesUp, Return, Counted, Cancelled, Told, Resent
  <2>4. last'[c] = a /\ sends'[c] = attempt[c] + 1 /\ ~Retryable(c, a)
    BY <1>17 DEF GivesUp, Counted
  <2>5. ShouldRetry(a) => attempt[c] + 1 = Budget
    <3>1. SUFFICES ASSUME ShouldRetry(a) PROVE attempt[c] + 1 = Budget
      OBVIOUS
    <3>2. ~(attempt[c] + 1 < Budget)
      BY <2>4, <3>1 DEF Retryable
    <3>3. attempt[c] \in Nat /\ attempt[c] < Budget
      BY DEF Counted
    <3>4. QED BY <3>2, <3>3, SmallestAbove
  <2>6. Spent(c)'
    BY <2>4, <2>5 DEF Spent, ShouldRetry
  <2>7. QED BY <2>3, <2>6
<1>18. ASSUME NEW a \in Answers, ResendAnswered(c, a) PROVE PerCall(c)' /\ Frame(c)
  BY <1>18, MapErrorFacts DEF ResendAnswered, Return, Counted, Cancelled, Told, Spent, Resent
<1>19. QED BY <1>1, <1>2, <1>3, <1>4, <1>5, <1>6, <1>7, <1>8, <1>9, <1>10, <1>11, <1>12,
              <1>13, <1>14, <1>15, <1>16, <1>17, <1>18

(* The invariant is inductive.                                             *)
THEOREM Invariance == Spec => [](TypeOK /\ IInv)
<1>1. Init => IInv
  <2> SUFFICES ASSUME Init PROVE IInv
    OBVIOUS
  <2>1. Locked
    BY CallerAssumption DEF Init, Locked
  <2>2. ASSUME NEW c \in Callers PROVE Counted(c) /\ Cancelled(c) /\ Told(c) /\ Spent(c)
    BY BudgetIsPositive DEF Init, Counted, Cancelled, Told, Spent, BeforeSend, In401, Resent
  <2>3. QED BY <2>1, <2>2 DEF IInv
<1>2. TypeOK /\ IInv /\ [Next]_vars => IInv'
  <2> SUFFICES ASSUME TypeOK, IInv, [Next]_vars PROVE IInv'
    OBVIOUS
  <2>1. Locked'
    BY LockedStep DEF IInv
  <2>2. ASSUME NEW d \in Callers PROVE PerCall(d)'
    <3>1. PerCall(d)
      BY DEF IInv, PerCall
    <3>2. CASE UNCHANGED local
      BY <3>1, <3>2 DEF local, PerCall, Counted, Cancelled, Told, Spent, Resent, Earns, ShouldRetry
    <3>3. ASSUME NEW c \in Callers, PerCall(c)' /\ Frame(c) PROVE PerCall(d)'
      BY <3>1, <3>3, FrameKeeps
    <3>4. CASE UNCHANGED vars
      BY <3>2, <3>4 DEF vars
    <3>5. CASE \E t \in Tokens : Ages(t)
      BY <3>2, <3>5 DEF Ages
    <3>6. CASE Next /\ ~\E t \in Tokens : Ages(t)
      <4>1. \A c \in Callers : PerCall(c)
        BY DEF IInv, PerCall
      <4>2. \E c \in Callers : PerCall(c)' /\ Frame(c)
        BY <3>6, <4>1, NextCases, OwnStep
      <4>3. QED BY <4>2, <3>3
    <3>7. QED BY <3>4, <3>5, <3>6
  <2>3. QED BY <2>1, <2>2 DEF IInv, PerCall
<1>3. QED BY <1>1, <1>2, TypeCorrect, PTL DEF Spec

(* However the callers interleave, a usable token is in the cache only     *)
(* while nobody is in the provider for one with t.mu held.                 *)
THEOREM RefreshIsOnMiss == Spec => []RefreshOnlyOnMiss
<1>1. IInv => RefreshOnlyOnMiss
  BY DEF IInv, Locked, RefreshOnlyOnMiss
<1>2. QED BY <1>1, Invariance, PTL

(* A call sends at most Budget requests, and one more after a 401.         *)
THEOREM BudgetHolds == Spec => []SendsWithinBudget
<1>1. TypeOK /\ IInv => SendsWithinBudget
  <2> SUFFICES ASSUME TypeOK, IInv, NEW c \in Callers
               PROVE  sends[c] <= Budget + (IF Resent(c) THEN 1 ELSE 0)
    BY DEF SendsWithinBudget
  <2>1. sends[c] \in Nat /\ attempt[c] \in Nat /\ Budget \in Nat
    BY BudgetIsPositive DEF TypeOK
  <2>2. attempt[c] < Budget /\ sends[c] <= attempt[c] + 2
    BY DEF IInv, Counted
  <2>3. QED BY <2>1, <2>2 DEF Resent
<1>2. QED BY <1>1, Invariance, PTL

(* At most two requests start after a call's context is done.              *)
THEOREM CancellationBounds == Spec => []CancelBoundsSends
<1>1. IInv => CancelBoundsSends
  BY DEF IInv, Cancelled, CancelBoundsSends
<1>2. QED BY <1>1, Invariance, PTL

(* No call gives up on a retryable answer with attempts to spare, but in   *)
(* the 401 path.                                                           *)
THEOREM SpentBeforeGivingUp == Spec => []GivesUpOnlyWhenSpent
<1>1. IInv => GivesUpOnlyWhenSpent
  BY DEF IInv, Spent, GivesUpOnlyWhenSpent
<1>2. QED BY <1>1, Invariance, PTL

-----------------------------------------------------------------------------
(* The places of an attempt, in the order in which a call goes through     *)
(* them.                                                                   *)
LEMMA Stages ==
  /\ Stage("head") = 0 /\ Stage("sleep") = 1 /\ Stage("get") = 2 /\ Stage("fetch") = 3
  /\ Stage("flight") = 4 /\ Stage("invalidate") = 5 /\ Stage("refetch") = 6
  /\ Stage("store") = 7 /\ Stage("resend") = 8 /\ Stage("done") = 9
BY DEF Stage

LEMMA StageRange == \A place \in Places : Stage(place) \in 0..9
<1>1. Stage("idle") = 0
  BY DEF Stage
<1>2. QED BY <1>1, Stages DEF Places

(* A step of a call takes it to a later place, or to another attempt.      *)
Advances(c) == \/ attempt'[c] = attempt[c] /\ Stage(pc[c]) < Stage(pc'[c])
               \/ attempt'[c] = attempt[c] + 1 /\ pc[c] = "flight"

LEMMA StepAdvances ==
  ASSUME TypeOK, NEW c \in Callers,
         \/ HeadCancelled(c) \/ HeadContinues(c) \/ SleepCancelled(c) \/ SleepElapses(c)
         \/ CacheHit(c) \/ CacheMiss(c) \/ Invalidate(c) \/ Store(c)
         \/ \E t \in Tokens \cup {NoToken} : FetchReturns(c, t) \/ RefetchReturns(c, t)
         \/ \E e \in {ProvErr, CtxErr} : FetchFails(c, e) \/ RefetchFails(c, e)
         \/ \E a \in Answers : \/ Succeeds(c, a) \/ IsRefused(c, a) \/ Retries(c, a)
                               \/ GivesUp(c, a) \/ ResendAnswered(c, a)
  PROVE  Advances(c)
<1> USE Stages DEF Advances, TypeOK, GoTo, Return, Launch
<1>1. CASE HeadCancelled(c) \/ HeadContinues(c) \/ SleepCancelled(c) \/ SleepElapses(c)
  BY <1>1 DEF HeadCancelled, HeadContinues, SleepCancelled, SleepElapses
<1>2. CASE CacheHit(c) \/ CacheMiss(c) \/ Invalidate(c) \/ Store(c)
  BY <1>2 DEF CacheHit, CacheMiss, Invalidate, Store
<1>3. ASSUME NEW t \in Tokens \cup {NoToken}, FetchReturns(c, t) \/ RefetchReturns(c, t)
      PROVE  Advances(c)
  BY <1>3 DEF FetchReturns, RefetchReturns
<1>4. ASSUME NEW e \in {ProvErr, CtxErr}, FetchFails(c, e) \/ RefetchFails(c, e)
      PROVE  Advances(c)
  BY <1>4 DEF FetchFails, RefetchFails
<1>5. ASSUME NEW a \in Answers, Succeeds(c, a) \/ IsRefused(c, a) \/ Retries(c, a)
      PROVE  Advances(c)
  BY <1>5 DEF Succeeds, IsRefused, Retries
<1>6. ASSUME NEW a \in Answers, GivesUp(c, a) PROVE Advances(c)
  BY <1>6 DEF GivesUp
<1>7. ASSUME NEW a \in Answers, ResendAnswered(c, a) PROVE Advances(c)
  BY <1>7 DEF ResendAnswered
<1>8. QED BY <1>1, <1>2, <1>3, <1>4, <1>5, <1>6, <1>7

(* Far enough is never too far: the attempts are counted. *)
Near == \A c \in Callers : Progress(c) < 10 * Budget

LEMMA ProgressBounded == TypeOK /\ IInv => Near
<1> SUFFICES ASSUME TypeOK, IInv, NEW c \in Callers PROVE Progress(c) < 10 * Budget
  BY DEF Near
<1>1. attempt[c] \in Nat /\ attempt[c] < Budget /\ Stage(pc[c]) \in 0..9 /\ Budget \in Nat
  BY StageRange, BudgetIsPositive DEF TypeOK, IInv, Counted
<1>2. QED BY <1>1 DEF Progress

LEMMA ProgressBoundedNext == TypeOK' /\ IInv' => Near'
BY ProgressBounded, PTL

LEMMA AdvancesProgress ==
  ASSUME TypeOK, TypeOK', NEW c \in Callers, Advances(c)
  PROVE  Progress(c) < Progress(c)'
<1>1. /\ attempt[c] \in Nat /\ attempt'[c] \in Nat
      /\ Stage(pc[c]) \in 0..9 /\ Stage(pc'[c]) \in 0..9
  BY StageRange DEF TypeOK
<1>2. Stage("flight") = 4
  BY Stages
<1>3. QED BY <1>1, <1>2 DEF Advances, Progress

(* The variant of the loop: for any policy a call is over after fewer than *)
(* ten steps of its own per attempt, whatever the other calls do to it.    *)
THEOREM CallsAdvance == Spec => NeverTurnsBack
<1> DEFINE Moves == \A c \in Callers : pc[c] \notin Idle =>
                      /\ Progress(c)' < 10 * Budget
                      /\ UNCHANGED <<pc[c], attempt[c]>> \/ Progress(c) < Progress(c)'
<1>1. TypeOK /\ TypeOK' /\ IInv /\ IInv' /\ [Next]_vars => Moves
  <2> SUFFICES ASSUME TypeOK, TypeOK', IInv, IInv', [Next]_vars PROVE Moves
    OBVIOUS
  <2>1. \A c \in Callers : Progress(c)' < 10 * Budget
    BY ProgressBoundedNext DEF Near
  <2> SUFFICES ASSUME NEW d \in Callers, pc[d] \notin Idle
               PROVE  UNCHANGED <<pc[d], attempt[d]>> \/ Progress(d) < Progress(d)'
    BY <2>1
  <2>2. CASE UNCHANGED vars \/ \E t \in Tokens : Ages(t)
    BY <2>2 DEF vars, local, Ages
  <2>3. CASE Next /\ ~\E t \in Tokens : Ages(t)
    <3>1. \A c \in Callers : PerCall(c)
      BY DEF IInv, PerCall
    <3>2. CASE \E c \in Callers \ {d} : Frame(c)
      BY <3>2 DEF Frame
    <3>3. CASE Advances(d)
      BY <3>3, AdvancesProgress
    <3>4. CASE Cancel(d)
      BY <3>4 DEF Cancel
    <3>5. ~Begin(d) /\ ~BodyFails(d)
      BY DEF Begin, BodyFails, Fresh
    <3>6. (\E c \in Callers \ {d} : Frame(c)) \/ Advances(d) \/ Cancel(d)
      BY <2>3, <3>1, <3>5, NextCases, OwnStep, StepAdvances
    <3>7. QED BY <3>2, <3>3, <3>4, <3>6
  <2>4. QED BY <2>2, <2>3
<1>2. QED BY <1>1, Invariance, PTL DEF Spec, NeverTurnsBack

-----------------------------------------------------------------------------
(* The refinement, one step of the transport at a time.                    *)
LEMMA PromiseStep ==
  ASSUME TypeOK, IInv, [Next]_vars
  PROVE  [Promise!CallNext]_(Promise!callVars)
<1> DEFINE Ph == [c \in Callers |-> Phase(c)]
           Re == [c \in Callers |-> IF Resent(c) THEN 1 ELSE 0]
           Ve == [c \in Callers |-> Verdict(c)]
<1> USE DEF TypeOK
<1>0. UNCHANGED <<Ph, sends, last, Re, Ve>> => UNCHANGED Promise!callVars
  BY DEF Promise!callVars
<1>1. CASE UNCHANGED local
  BY <1>1 DEF local, Promise!callVars, Phase, Verdict, Resent
<1>2. ASSUME NEW c \in Callers, Begin(c) PROVE Promise!Start(c)
  <2>1. Ph' = [Ph EXCEPT ![c] = "ready"] /\ Ph[c] \in {"idle", "done"}
    BY <1>2 DEF Begin, Fresh, GoTo, Phase, Idle
  <2>2. Re' = [Re EXCEPT ![c] = 0]
    <3>1. sends' = [sends EXCEPT ![c] = 0] /\ attempt' = [attempt EXCEPT ![c] = 0]
      BY <1>2 DEF Begin, Fresh
    <3>2. \A d \in Callers : Resent(d)' <=> (d # c /\ Resent(d))
      BY <3>1 DEF Resent
    <3>3. QED BY <3>2
  <2>3. Ve' = [Ve EXCEPT ![c] = "none"]
    BY <1>2 DEF Begin, Verdict
  <2>4. QED BY <1>2, <2>1, <2>2, <2>3 DEF Begin, Fresh, Promise!Start
<1>3. ASSUME NEW c \in Callers, BodyFails(c) PROVE Promise!Start(c)
  <2>1. Ph' = [Ph EXCEPT ![c] = "done"] /\ Ph[c] \in {"idle", "done"}
    BY <1>3 DEF BodyFails, Fresh, Return, GoTo, Phase, Idle
  <2>2. Re' = [Re EXCEPT ![c] = 0]
    <3>1. sends' = [sends EXCEPT ![c] = 0] /\ attempt' = [attempt EXCEPT ![c] = 0]
      BY <1>3 DEF BodyFails, Fresh
    <3>2. \A d \in Callers : Resent(d)' <=> (d # c /\ Resent(d))
      BY <3>1 DEF Resent
    <3>3. QED BY <3>2
  <2>3. Ve' = [Ve EXCEPT ![c] = "error"]
    BY <1>3 DEF BodyFails, Return, Verdict
  <2>4. QED BY <1>3, <2>1, <2>2, <2>3 DEF BodyFails, Fresh, Promise!Start
<1>4. ASSUME NEW c \in Callers, \/ Cancel(c) \/ HeadContinues(c) \/ SleepElapses(c)
                               \/ CacheMiss(c) \/ Invalidate(c)
      PROVE  UNCHANGED Promise!callVars
  <2>1. UNCHANGED <<attempt, sends, last, outcome>>
    BY <1>4 DEF Cancel, HeadContinues, SleepElapses, CacheMiss, Invalidate
  <2>2. UNCHANGED Ph
    BY <1>4 DEF Cancel, HeadContinues, SleepElapses, CacheMiss, Invalidate, GoTo, Phase, Idle
  <2>3. QED BY <1>0, <2>1, <2>2 DEF Resent, Verdict
<1>5. ASSUME NEW c \in Callers,
             \/ CacheHit(c) \/ \E t \in Tokens \cup {NoToken} : FetchReturns(c, t)
      PROVE  Promise!Send(c)
  <2>1. pc[c] \in BeforeSend /\ Launch(c, "flight") /\ UNCHANGED <<attempt, last, outcome>>
    BY <1>5 DEF CacheHit, FetchReturns, BeforeSend
  <2>2. Ph[c] = "ready" /\ Ph' = [Ph EXCEPT ![c] = "waiting"]
    BY <2>1 DEF Launch, GoTo, Phase, BeforeSend, Idle
  <2>3. Re[c] = 0 /\ UNCHANGED Re /\ last[c] # Unauthorized
    <3>1. sends[c] = attempt[c]
      BY <2>1 DEF IInv, Counted
    <3>2. UNCHANGED Re /\ Re[c] = 0
      BY <3>1, <2>1 DEF Launch, Resent
    <3>3. last[c] = None \/ Earns(last[c])
      BY <2>1 DEF IInv, Told
    <3>4. QED BY <3>2, <3>3, StatusAssumption DEF Earns, Failures, Unauthorized
  <2>4. last[c] = None \/ Promise!Again(c, last[c])
    <3>1. last[c] = None \/ (Enabled /\ Earns(last[c]))
      BY <2>1 DEF IInv, Told
    <3>2. sends[c] < Budget
      BY <2>1 DEF IInv, Counted
    <3>3. QED BY <3>1, <3>2, <2>3 DEF Promise!Again, Earns, Failures, Unauthorized, Promise!Unauthorized
  <2>5. sends' = [sends EXCEPT ![c] = @ + 1] /\ UNCHANGED Ve
    BY <2>1 DEF Launch, Verdict
  <2>6. Re' = [Re EXCEPT ![c] = IF last[c] = Promise!Unauthorized THEN 1 ELSE @]
    BY <2>3 DEF Promise!Unauthorized, Unauthorized
  <2>7. QED BY <2>1, <2>2, <2>4, <2>5, <2>6 DEF Promise!Send
<1>6. ASSUME NEW c \in Callers, Store(c) PROVE Promise!Send(c)
  <2>1. pc[c] \in In401 /\ Launch(c, "resend") /\ UNCHANGED <<attempt, last, outcome>>
    BY <1>6 DEF Store, In401
  <2>2. Ph[c] = "ready" /\ Ph' = [Ph EXCEPT ![c] = "waiting"]
    BY <1>6, <2>1 DEF Store, Launch, GoTo, Phase, Idle
  <2>3. sends[c] = attempt[c] + 1 /\ last[c] = Unauthorized
    BY <2>1 DEF IInv, Counted, Told
  <2>4. Re[c] = 0 /\ Re' = [Re EXCEPT ![c] = 1]
    <3>0. sends[c] + 1 = attempt[c] + 2
      BY <2>3
    <3>1. sends' = [sends EXCEPT ![c] = attempt[c] + 2] /\ UNCHANGED attempt
      BY <2>1, <3>0 DEF Launch
    <3>2. \A d \in Callers : Resent(d)' <=> (d = c \/ Resent(d))
      BY <3>1 DEF Resent
    <3>3. ~Resent(c)
      BY <2>3 DEF Resent
    <3>4. QED BY <3>2, <3>3
  <2>5. sends' = [sends EXCEPT ![c] = @ + 1] /\ UNCHANGED Ve
    BY <2>1 DEF Launch, Verdict
  <2>6. QED BY <2>1, <2>2, <2>3, <2>4, <2>5
            DEF Promise!Send, Promise!Reauthenticate, Promise!Unauthorized, Unauthorized
<1>7. ASSUME NEW c \in Callers, NEW h \in {last[c], CtxErr, ProvErr}, NEW k,
             k \in Kinds \ {"none", "success"}, NEW s, Return(c, k, s),
             pc[c] \in BeforeSend \cup In401, last' = [last EXCEPT ![c] = h],
             UNCHANGED <<attempt, sends>>
      PROVE  Promise!Abandon(c)
  <2>1. Ph[c] = "ready" /\ Ph' = [Ph EXCEPT ![c] = "done"]
    BY <1>7 DEF Return, GoTo, Phase, BeforeSend, In401, Idle
  <2>2. Ve' = [Ve EXCEPT ![c] = "error"]
    BY <1>7 DEF Return, Verdict
  <2>3. UNCHANGED Re
    BY <1>7 DEF Resent
  <2>4. QED BY <1>7, <2>1, <2>2, <2>3 DEF Promise!Abandon
<1>8. ASSUME NEW c \in Callers, HeadCancelled(c) \/ SleepCancelled(c) PROVE Promise!Abandon(c)
  <2>1. last' = [last EXCEPT ![c] = last[c]]
    BY <1>8 DEF HeadCancelled, SleepCancelled
  <2>2. "context" \in Kinds \ {"none", "success"}
    BY DEF Kinds
  <2>3. QED BY <1>7, <1>8, <2>1, <2>2 DEF HeadCancelled, SleepCancelled, BeforeSend
<1>9. ASSUME NEW c \in Callers, NEW e \in {ProvErr, CtxErr}, FetchFails(c, e) \/ RefetchFails(c, e)
      PROVE  Promise!Abandon(c)
  <2>1. "Authentication" \in Kinds \ {"none", "success"}
    BY DEF Kinds
  <2>2. QED BY <1>7, <1>9, <2>1 DEF FetchFails, RefetchFails, BeforeSend, In401
<1>10. ASSUME NEW c \in Callers, NEW t \in Tokens \cup {NoToken}, RefetchReturns(c, t)
       PROVE  Promise!Abandon(c) \/ UNCHANGED Promise!callVars
  <2>1. CASE t = tok[c]
    <3>1. last' = [last EXCEPT ![c] = last[c]]
      BY <1>10 DEF RefetchReturns
    <3>2. "TokenUnchanged" \in Kinds \ {"none", "success"}
      BY DEF Kinds
    <3>3. QED BY <1>7, <1>10, <2>1, <3>1, <3>2 DEF RefetchReturns, In401
  <2>2. CASE t # tok[c]
    <3>1. UNCHANGED <<attempt, sends, last, outcome>>
      BY <1>10, <2>2 DEF RefetchReturns
    <3>2. UNCHANGED Ph
      BY <1>10, <2>2 DEF RefetchReturns, GoTo, Phase, Idle
    <3>3. QED BY <1>0, <3>1, <3>2 DEF Resent, Verdict
  <2>3. QED BY <2>1, <2>2
<1>11. ASSUME NEW c \in Callers, NEW a \in Answers, IsRefused(c, a) \/ Retries(c, a)
       PROVE  Promise!Hear(c, a)
  <2>1. pc[c] = "flight" /\ sends[c] = attempt[c] + 1 /\ outcome[c].kind = "none"
    BY <1>11 DEF IsRefused, Retries, IInv, Counted, Told
  <2>2. Ph[c] = "waiting" /\ Ph' = [Ph EXCEPT ![c] = "ready"]
    BY <1>11 DEF IsRefused, Retries, GoTo, Phase, Idle
  <2>3. Re[c] = 0 /\ Re' = Re
    BY <1>11, <2>1 DEF IsRefused, Retries, Resent
  <2>4. Ve' = [Ve EXCEPT ![c] = "none"]
    BY <1>11, <2>1 DEF IsRefused, Retries, Verdict
  <2>5. Promise!Again(c, a) \/ Promise!Reauthenticate(c, a)
    BY <1>11, <2>1, <2>3 DEF IsRefused, Retries, Retryable, ShouldRetry, Success, Failures,
       Promise!Again, Promise!Reauthenticate, Unauthorized, Promise!Unauthorized
  <2>6. last' = [last EXCEPT ![c] = a] /\ UNCHANGED sends
    BY <1>11 DEF IsRefused, Retries
  <2>7. QED BY <2>2, <2>3, <2>4, <2>5, <2>6 DEF Promise!Hear
<1>12. ASSUME NEW c \in Callers, NEW a \in Answers, NEW k \in Kinds \ {"none"}, NEW s,
              Return(c, k, s), pc[c] \in {"flight", "resend"}, k = "success" <=> Success(a),
              last' = [last EXCEPT ![c] = a], UNCHANGED <<attempt, sends>>,
              ~Promise!Again(c, a), ~Promise!Reauthenticate(c, a)
       PROVE  Promise!Hear(c, a)
  <2>1. Ph[c] = "waiting" /\ Ph' = [Ph EXCEPT ![c] = "done"]
    BY <1>12 DEF Return, GoTo, Phase, Idle
  <2>2. Ve' = [Ve EXCEPT ![c] = IF Promise!Good(a) THEN "ok" ELSE "error"]
    BY <1>12 DEF Return, Verdict, Promise!Good, Success
  <2>3. UNCHANGED Re
    BY <1>12 DEF Resent
  <2>4. QED BY <1>12, <2>1, <2>2, <2>3 DEF Promise!Hear
<1>13. ASSUME NEW c \in Callers, NEW a \in Answers, Succeeds(c, a) PROVE Promise!Hear(c, a)
  <2>1. ~Promise!Again(c, a) /\ ~Promise!Reauthenticate(c, a)
    BY <1>13, StatusAssumption DEF Succeeds, Success, Promise!Again, Promise!Reauthenticate,
       Promise!Unauthorized
  <2>2. "success" \in Kinds \ {"none"}
    BY DEF Kinds
  <2>3. QED BY <1>12, <1>13, <2>1, <2>2 DEF Succeeds
<1>14. ASSUME NEW c \in Callers, NEW a \in Answers, GivesUp(c, a) PROVE Promise!Hear(c, a)
  <2>1. PICK k \in Kinds \ {"none", "success"} : \E s : Return(c, k, s)
    BY <1>14, MapErrorFacts DEF GivesUp, Kinds
  <2>2. ~Promise!Reauthenticate(c, a)
    BY <1>14 DEF GivesUp, Promise!Reauthenticate, Promise!Unauthorized, Unauthorized
  <2>3. ~Promise!Again(c, a)
    <3>1. sends[c] = attempt[c] + 1
      BY <1>14 DEF GivesUp, IInv, Counted
    <3>2. (Enabled /\ a \in RetryableStatus \cup Failures) => ~(attempt[c] + 1 < Budget)
      BY <1>14 DEF GivesUp, Retryable, ShouldRetry
    <3>3. ~Enabled => Budget = 1
      BY DEF Budget
    <3>4. QED BY <3>1, <3>2, <3>3, BudgetIsPositive DEF Promise!Again, Failures
  <2>4. QED BY <1>12, <1>14, <2>1, <2>2, <2>3 DEF GivesUp
<1>15. ASSUME NEW c \in Callers, NEW a \in Answers, ResendAnswered(c, a) PROVE Promise!Hear(c, a)
  <2>1. PICK k \in Kinds \ {"none"} : (\E s : Return(c, k, s)) /\ (k = "success" <=> Success(a))
    <3>1. a \in Failures \cup {Unauthorized} => ~Success(a)
      BY StatusAssumption DEF Failures, Success, Unauthorized
    <3>2. {"Authentication", "TokenRejected", "success"} \subseteq Kinds \ {"none"}
      BY DEF Kinds
    <3>3. MapError(a) \in Kinds \ {"none", "success"}
      BY MapErrorFacts
    <3>4. QED BY <1>15, <3>1, <3>2, <3>3 DEF ResendAnswered
  <2>2. Resent(c)
    BY <1>15 DEF ResendAnswered, IInv, Counted
  <2>3. ~Promise!Again(c, a) /\ ~Promise!Reauthenticate(c, a)
    BY <2>2 DEF Promise!Again, Promise!Reauthenticate
  <2>4. QED BY <1>12, <1>15, <2>1, <2>3 DEF ResendAnswered
<1>16. CASE Next
  <2>1. Answers = Statuses \cup {NetErr, CtxErr}
    BY DEF Answers, Failures
  <2>2. CASE \E t \in Tokens : Ages(t)
    BY <2>2, <1>1 DEF Ages
  <2>3. CASE \E c \in Callers : \/ Promise!Start(c) \/ Promise!Send(c) \/ Promise!Abandon(c)
                               \/ UNCHANGED Promise!callVars
                               \/ \E a \in Answers : Promise!Hear(c, a)
    BY <2>1, <2>3 DEF Promise!CallNext
  <2>4. QED BY <1>16, NextCases, <2>2, <2>3, <1>2, <1>3, <1>4, <1>5, <1>6, <1>8, <1>9, <1>10,
               <1>11, <1>13, <1>14, <1>15
<1>17. QED BY <1>1, <1>16 DEF vars

(* Every call of a shared transport keeps the promise of Call.tla, for any *)
(* number of callers, any policy, provider and backend.                    *)
THEOREM Implements == Spec => KeepsPromise
<1>1. Init => Promise!CallInit
  BY DEF Init, Promise!CallInit, Phase, Verdict, Resent, Idle
<1>2. TypeOK /\ IInv /\ [Next]_vars => [Promise!CallNext]_(Promise!callVars)
  BY PromiseStep
<1>3. QED BY <1>1, <1>2, Invariance, PTL DEF Spec, KeepsPromise, Promise!CallSpec

-----------------------------------------------------------------------------
(* The fixed token is one of the tokens. *)
LEMMA StaticTyped == StaticTok \in Tokens /\ StaticTok \in Eternal
BY StackAssumption, TokenAssumption

(* The provider and the backend keep to the tokens. *)
ProviderOK ==
  /\ mode \in Modes
  /\ current \in Tokens
  /\ pcached \in Tokens \cup {NoToken}
  /\ plock \in Callers \cup {None}
  /\ inFn \subseteq Callers
  /\ rotated \in [Callers -> BOOLEAN]

LEMMA ProviderTyped == StackSpec => []ProviderOK
<1>1. StackInit => ProviderOK
  BY StackAssumption, StaticTyped DEF StackInit, ProviderOK
<1>2. ProviderOK /\ [StackNext]_stackVars => ProviderOK'
  <2> SUFFICES ASSUME ProviderOK, [StackNext]_stackVars PROVE ProviderOK'
    OBVIOUS
  <2> USE DEF ProviderOK, provider
  <2>1. ASSUME NEW c \in Callers, StartCall(c) PROVE ProviderOK'
    BY <2>1 DEF StartCall
  <2>2. ASSUME NEW c \in Callers, CallerStep(c) PROVE ProviderOK'
    BY <2>2 DEF CallerStep
  <2>3. ASSUME NEW c \in Callers, RefreshHit(c) PROVE ProviderOK'
    BY <2>3 DEF RefreshHit
  <2>4. ASSUME NEW c \in Callers, RefreshMiss(c) PROVE ProviderOK'
    BY <2>4 DEF RefreshMiss
  <2>5. ASSUME NEW c \in Callers, FnReturns(c) PROVE ProviderOK'
    BY <2>5 DEF FnReturns
  <2>6. ASSUME NEW c \in Callers, FnFails(c) PROVE ProviderOK'
    BY <2>6 DEF FnFails
  <2>7. ASSUME NEW c \in Callers, StaticAnswers(c) \/ DirectAnswers(c) PROVE ProviderOK'
    BY <2>7 DEF StaticAnswers, DirectAnswers
  <2>8. ASSUME NEW c \in Callers, BackendAnswers(c) PROVE ProviderOK'
    BY <2>8 DEF BackendAnswers
  <2>9. CASE Rotate
    BY <2>9 DEF Rotate
  <2>10. CASE TimePasses
    BY <2>10 DEF TimePasses
  <2>11. CASE UNCHANGED stackVars
    BY <2>11 DEF stackVars
  <2>12. QED
    BY <2>1, <2>2, <2>3, <2>4, <2>5, <2>6, <2>7, <2>8, <2>9, <2>10, <2>11
       DEF StackNext, TokenStep, FnAnswers
<1>3. QED BY <1>1, <1>2, PTL DEF StackSpec

(* What the provider hands over is handed over by a step of Transport. *)
LEMMA Delivered ==
  ASSUME NEW c \in Callers, NEW t \in Tokens \cup {NoToken}, Deliver(c, t)
  PROVE  Next
BY DEF Deliver, Next, ProviderAnswers

LEMMA DeliveredError ==
  ASSUME NEW c \in Callers, DeliverError(c)
  PROVE  Next
BY DEF DeliverError, Next, ProviderAnswers

(* Each step of the stack is a step of the transport or leaves it alone. *)
LEMMA StackStep ==
  ASSUME ProviderOK, [StackNext]_stackVars
  PROVE  [Next]_vars
<1>1. ASSUME NEW c \in Callers, StartCall(c) PROVE Next
  BY <1>1 DEF StartCall, Next
<1>2. ASSUME NEW c \in Callers, CallerStep(c) PROVE Next
  BY <1>2 DEF CallerStep, Next
<1>3. ASSUME NEW c \in Callers, RefreshHit(c) PROVE Next
  BY <1>3, Delivered DEF RefreshHit, ProviderOK
<1>4. ASSUME NEW c \in Callers, RefreshMiss(c) PROVE UNCHANGED vars
  BY <1>4 DEF RefreshMiss
<1>5. ASSUME NEW c \in Callers, FnReturns(c) PROVE Next
  BY <1>5, Delivered DEF FnReturns, ProviderOK
<1>6. ASSUME NEW c \in Callers, FnFails(c) PROVE Next
  BY <1>6, DeliveredError DEF FnFails
<1>7. ASSUME NEW c \in Callers, StaticAnswers(c) \/ DirectAnswers(c) PROVE Next
  BY <1>7, Delivered, DeliveredError, StaticTyped DEF StaticAnswers, DirectAnswers, ProviderOK
<1>8. ASSUME NEW c \in Callers, BackendAnswers(c) PROVE Next
  BY <1>8 DEF BackendAnswers, Next
<1>9. Rotate => UNCHANGED vars
  BY DEF Rotate
<1>10. TimePasses => Next
  BY DEF TimePasses, Next
<1>11. UNCHANGED stackVars => UNCHANGED vars
  BY DEF stackVars
<1>12. QED
  BY <1>1, <1>2, <1>3, <1>4, <1>5, <1>6, <1>7, <1>8, <1>9, <1>10, <1>11
     DEF StackNext, TokenStep, FnAnswers

(* The stack implements the transport with an arbitrary provider and       *)
(* backend: every theorem of TransportProofs is one about the stack.       *)
THEOREM StackImplements == StackSpec => Spec
<1>1. StackInit => Init
  BY DEF StackInit
<1>2. ProviderOK /\ [StackNext]_stackVars => [Next]_vars
  BY StackStep
<1>3. QED BY <1>1, <1>2, ProviderTyped, PTL DEF StackSpec, Spec

(* Type correctness of the stack, the provider's cache and mutex included. *)
THEOREM StackTypeCorrect == StackSpec => []StackTypeOK
<1>1. TypeOK /\ ProviderOK => StackTypeOK
  BY DEF ProviderOK, StackTypeOK
<1>2. QED BY <1>1, ProviderTyped, StackImplements, TypeCorrect, PTL

(* The promise of Call, over a provider with a cache and a mutex.          *)
THEOREM StackKeepsPromise == StackSpec => KeepsPromise
BY StackImplements, Implements, PTL

-----------------------------------------------------------------------------
(* A token only gets older, and not even that if it is eternal. *)
LEMMA AgesOnly ==
  ASSUME TypeOK, [Next]_vars
  PROVE  \A t \in Tokens : age[t] <= age'[t] /\ (t \in Eternal => age'[t] = age[t])
<1>1. ASSUME NEW t \in Tokens, Ages(t)
      PROVE \A u \in Tokens : age[u] <= age'[u] /\ (u \in Eternal => age'[u] = age[u])
  BY <1>1 DEF Ages, TypeOK
<1>2. CASE UNCHANGED age
  BY <1>2 DEF TypeOK
<1>3. CASE UNCHANGED vars
  BY <1>2, <1>3 DEF vars, shared
<1>4. CASE Next /\ ~\E t \in Tokens : Ages(t)
  <2>1. UNCHANGED age
    BY <1>4, NextCases
       DEF Begin, BodyFails, Fresh, Cancel, HeadCancelled, HeadContinues, SleepCancelled,
           SleepElapses, CacheHit, CacheMiss, Invalidate, Store, FetchReturns, RefetchReturns,
           FetchFails, RefetchFails, Succeeds, IsRefused, Retries, GivesUp, ResendAnswered, shared
  <2>2. QED BY <2>1, <1>2
<1>5. QED BY <1>1, <1>3, <1>4

(* What makes RefreshFunc single-flight: p.mu is held by the one caller    *)
(* that is in the callback, and no unexpired token is cached meanwhile.    *)
Guarded ==
  /\ \A c \in inFn : plock = c
  /\ inFn # {} => ~Cached

LEMMA GuardedStep ==
  ASSUME StackTypeOK, Guarded, [StackNext]_stackVars
  PROVE  Guarded'
<1>1. ProviderOK /\ [Next]_vars
  BY StackStep DEF StackTypeOK, ProviderOK
<1>2. \A t \in Tokens : age[t] \in 0..2 /\ age'[t] \in Int /\ age[t] <= age'[t]
  <2>1. TypeOK /\ TypeOK'
    BY <1>1, TypeStep DEF StackTypeOK
  <2>2. QED BY <2>1, <1>1, AgesOnly DEF TypeOK
<1>3. CASE UNCHANGED <<pcached, plock, inFn>>
  BY <1>2, <1>3 DEF Guarded, Cached
<1>4. ASSUME NEW c \in Callers, RefreshMiss(c) PROVE Guarded'
  <2>1. inFn = {}
    BY <1>4, CallerAssumption DEF RefreshMiss, Guarded, StackTypeOK
  <2>2. inFn' = {c} /\ plock' = c
    BY <1>4, <2>1 DEF RefreshMiss
  <2>3. ~Cached'
    BY <1>4 DEF RefreshMiss, Cached, vars, shared
  <2>4. QED BY <2>2, <2>3 DEF Guarded
<1>5. ASSUME NEW c \in Callers, FnReturns(c) \/ FnFails(c) PROVE Guarded'
  <2>1. inFn' = {}
    BY <1>5 DEF FnReturns, FnFails, Guarded
  <2>2. QED BY <2>1 DEF Guarded
<1>6. ASSUME NEW c \in Callers,
             \/ StartCall(c) \/ CallerStep(c) \/ RefreshHit(c)
             \/ StaticAnswers(c) \/ DirectAnswers(c) \/ BackendAnswers(c)
      PROVE UNCHANGED <<pcached, plock, inFn>>
  BY <1>6 DEF StartCall, CallerStep, RefreshHit, StaticAnswers, DirectAnswers, BackendAnswers, provider
<1>7. Rotate \/ TimePasses \/ UNCHANGED stackVars => UNCHANGED <<pcached, plock, inFn>>
  BY DEF Rotate, TimePasses, stackVars, provider
<1>8. QED
  BY <1>3, <1>4, <1>5, <1>6, <1>7 DEF StackNext, TokenStep, FnAnswers

(* One caller at a time is in the refresh callback, and only while no      *)
(* unexpired token is cached, though the 401 paths ask without t.mu.       *)
THEOREM RefreshIsSingleFlight == StackSpec => []SingleFlight
<1>1. StackInit => Guarded
  BY DEF StackInit, Guarded
<1>2. StackTypeOK /\ Guarded /\ [StackNext]_stackVars => Guarded'
  BY GuardedStep
<1>3. StackTypeOK /\ Guarded => SingleFlight
  BY DEF Guarded, SingleFlight
<1>4. QED BY <1>1, <1>2, <1>3, StackTypeCorrect, PTL DEF StackSpec

-----------------------------------------------------------------------------
(* p.mu is held by a caller in the callback, and the callback is entered   *)
(* from the provider and left with it.                                     *)
HolderAsks ==
  /\ plock # None => plock \in inFn
  /\ \A c \in inFn : InProvider(c)
  /\ mode.adapter # "refresh" => inFn = {}

(* A caller that is in the provider leaves it by the provider's answer.    *)
LEMMA StaysInProvider ==
  ASSUME TypeOK, NEW c \in Callers, InProvider(c), NEW d \in Callers,
         \/ Begin(d) \/ CallerStep(d) \/ BackendAnswers(d)
         \/ d # c /\ ((\E t : Deliver(d, t)) \/ DeliverError(d))
  PROVE  InProvider(c)'
<1> USE DEF InProvider, TypeOK, GoTo, Return, Launch
<1>1. CASE Begin(d)
  BY <1>1 DEF Begin, Fresh, Idle
<1>2. CASE CallerStep(d)
  BY <1>2 DEF CallerStep, Cancel, Proceeds, Locks, HeadCancelled, HeadContinues, SleepCancelled,
              SleepElapses, CacheHit, CacheMiss, Invalidate, Store
<1>3. CASE BackendAnswers(d)
  BY <1>3 DEF BackendAnswers, Answered, Succeeds, IsRefused, Retries, GivesUp, ResendAnswered
<1>4. CASE d # c /\ \E t : Deliver(d, t)
  BY <1>4 DEF Deliver, FetchReturns, RefetchReturns
<1>5. CASE d # c /\ DeliverError(d)
  BY <1>5 DEF DeliverError, FetchFails, RefetchFails
<1>6. QED BY <1>1, <1>2, <1>3, <1>4, <1>5

LEMMA HolderAsksStep ==
  ASSUME StackTypeOK, HolderAsks, Guarded, [StackNext]_stackVars
  PROVE  HolderAsks'
<1> USE DEF HolderAsks
<1>1. mode' = mode
  BY DEF StackNext, StartCall, CallerStep, TokenStep, RefreshHit, RefreshMiss, FnAnswers, FnReturns,
         FnFails, StaticAnswers, DirectAnswers, BackendAnswers, Rotate, TimePasses, stackVars
<1>2. ASSUME NEW c \in Callers, StartCall(c) \/ CallerStep(c) \/ BackendAnswers(c) PROVE HolderAsks'
  <2>1. UNCHANGED <<plock, inFn>>
    BY <1>2 DEF StartCall, CallerStep, BackendAnswers, provider
  <2>2. \A d \in inFn : InProvider(d)'
    BY <1>2, StaysInProvider DEF StartCall, StackTypeOK
  <2>3. QED BY <1>1, <2>1, <2>2
<1>3. ASSUME NEW c \in Callers, mode.adapter = "refresh", RefreshHit(c) PROVE HolderAsks'
  <2>1. UNCHANGED <<plock, inFn>> /\ c \notin inFn /\ Deliver(c, pcached)
    BY <1>3 DEF RefreshHit, provider
  <2>2. \A d \in inFn : InProvider(d)'
    BY <2>1, StaysInProvider DEF StackTypeOK
  <2>3. QED BY <1>1, <2>1, <2>2
<1>4. ASSUME NEW c \in Callers, mode.adapter = "refresh", RefreshMiss(c) PROVE HolderAsks'
  BY <1>1, <1>4 DEF RefreshMiss, InProvider, vars, local
<1>5. ASSUME NEW c \in Callers, mode.adapter = "refresh", FnAnswers(c) PROVE HolderAsks'
  <2>1. inFn' = inFn \ {c} /\ plock' = None
    BY <1>5 DEF FnAnswers, FnReturns, FnFails
  <2>2. (\E t : Deliver(c, t)) \/ DeliverError(c)
    BY <1>5 DEF FnAnswers, FnReturns, FnFails
  <2>3. \A d \in inFn' : InProvider(d)'
    BY <2>1, <2>2, StaysInProvider DEF StackTypeOK
  <2>4. QED BY <1>1, <1>5, <2>1, <2>3
<1>6. ASSUME NEW c \in Callers, mode.adapter # "refresh", StaticAnswers(c) \/ DirectAnswers(c)
      PROVE HolderAsks'
  BY <1>1, <1>6 DEF StaticAnswers, DirectAnswers, provider
<1>7. CASE Rotate \/ TimePasses \/ UNCHANGED stackVars
  <2>1. UNCHANGED <<pc, plock, inFn>>
    BY <1>7 DEF Rotate, TimePasses, Ages, stackVars, vars, local, provider
  <2>2. QED BY <1>1, <2>1 DEF InProvider
<1>8. QED BY <1>1, <1>2, <1>3, <1>4, <1>5, <1>6, <1>7 DEF StackNext, TokenStep

(* Whatever the callers, tokens and policy: no circular wait for t.mu and  *)
(* p.mu.                                                                   *)
THEOREM NoDeadlock == StackSpec => []NoCircularWait
<1>1. StackInit => Guarded /\ HolderAsks
  BY DEF StackInit, Guarded, HolderAsks
<1>2. StackTypeOK /\ Guarded /\ HolderAsks /\ [StackNext]_stackVars => Guarded' /\ HolderAsks'
  BY GuardedStep, HolderAsksStep
<1>3. StackTypeOK /\ Locked /\ HolderAsks => NoCircularWait
  <2> SUFFICES ASSUME StackTypeOK, Locked, HolderAsks,
                      NEW c \in Callers, NEW d \in Callers, WaitsFor(c, d)
               PROVE  /\ InProvider(d)
                      /\ \A e \in Callers : WaitsFor(d, e) =>
                           Asking(e) /\ \A f \in Callers : ~WaitsFor(e, f)
    BY DEF NoCircularWait
  <2>1. InProvider(d)
    BY CallerAssumption DEF WaitsFor, Locked, HolderAsks, InProvider
  <2>2. ASSUME NEW e \in Callers, WaitsFor(d, e)
        PROVE  mode.adapter = "refresh" /\ e \in inFn /\ InProvider(e)
    BY <2>1, <2>2, CallerAssumption DEF WaitsFor, HolderAsks, InProvider
  <2>3. QED BY <2>1, <2>2 DEF Asking, WaitsFor, InProvider
<1>4. QED
  BY <1>1, <1>2, <1>3, StackTypeCorrect, StackImplements, Invariance, PTL DEF StackSpec, IInv
-----------------------------------------------------------------------------
(* Where tokens that RefreshFunc or StaticToken keeps are honoured until   *)
(* they expire, which the fixed one never does, what they hand out is what *)
(* the backend accepts.                                                    *)
Honoured == \A m \in Modes : m.adapter \in {"refresh", "static"} => ~m.early

CacheCurrent ==
  /\ mode.adapter = "refresh" /\ Cached => pcached = current
  /\ mode.adapter = "static" => current = StaticTok
  /\ mode.adapter # "refresh" => inFn = {}
  /\ age[StaticTok] = 0

(* What a call knows about its token while the backend keeps accepting the *)
(* same one: the refused one is another, the fetched one is that one.      *)
Innocent(c) ==
  ~rotated[c] =>
    /\ pc[c] \in {"invalidate", "refetch", "store"} => tok[c] # current
    /\ pc[c] \in {"store", "resend"} => newTok[c] = current
    /\ pc[c] = "done" => outcome[c].kind \notin {"TokenUnchanged", "TokenRejected"}

LEMMA CacheCurrentStep ==
  ASSUME Honoured, StackTypeOK, CacheCurrent, [StackNext]_stackVars
  PROVE  CacheCurrent'
<1>1. ProviderOK /\ [Next]_vars
  BY StackStep DEF StackTypeOK, ProviderOK
<1>2. /\ \A t \in Tokens : age[t] \in 0..2 /\ age'[t] \in Int /\ age[t] <= age'[t]
      /\ age'[StaticTok] = 0
  <2>1. TypeOK /\ TypeOK'
    BY <1>1, TypeStep DEF StackTypeOK
  <2>2. QED BY <2>1, <1>1, AgesOnly, StaticTyped DEF TypeOK, CacheCurrent
<1>3. CASE UNCHANGED <<mode, current, pcached, inFn>>
  BY <1>2, <1>3 DEF CacheCurrent, Cached
<1>4. ASSUME NEW c \in Callers, RefreshMiss(c), mode.adapter = "refresh" PROVE CacheCurrent'
  BY <1>2, <1>4 DEF RefreshMiss, CacheCurrent, Cached, vars, shared
<1>5. ASSUME NEW c \in Callers, FnReturns(c) PROVE CacheCurrent'
  BY <1>2, <1>5 DEF FnReturns, CacheCurrent, Cached
<1>6. ASSUME NEW c \in Callers, FnFails(c) PROVE CacheCurrent'
  BY <1>2, <1>6 DEF FnFails, CacheCurrent, Cached
<1>7. CASE Rotate
  <2>1. mode \in Modes /\ UNCHANGED <<mode, pcached, inFn, age>>
    BY <1>7 DEF Rotate, StackTypeOK, provider, vars, shared
  <2>2. mode.adapter \in {"refresh", "static"} => age[current] = 2
    BY <1>7, <2>1 DEF Rotate, Honoured
  <2>3. mode.adapter = "refresh" => ~Cached
    BY <2>2 DEF CacheCurrent, Cached
  <2>4. mode.adapter # "static"
    BY <2>2 DEF CacheCurrent
  <2>5. QED BY <2>1, <2>3, <2>4 DEF CacheCurrent, Cached
<1>8. ASSUME NEW c \in Callers,
             \/ StartCall(c) \/ CallerStep(c) \/ RefreshHit(c)
             \/ StaticAnswers(c) \/ DirectAnswers(c) \/ BackendAnswers(c)
      PROVE UNCHANGED <<mode, current, pcached, inFn>>
  BY <1>8 DEF StartCall, CallerStep, RefreshHit, StaticAnswers, DirectAnswers, BackendAnswers, provider
<1>9. TimePasses \/ UNCHANGED stackVars => UNCHANGED <<mode, current, pcached, inFn>>
  BY DEF TimePasses, stackVars, provider
<1>10. QED
  BY <1>3, <1>4, <1>5, <1>6, <1>7, <1>8, <1>9 DEF StackNext, TokenStep, FnAnswers

(* The locals of the callers that Innocent mentions. *)
SameFor(d) == /\ pc'[d] = pc[d] /\ tok'[d] = tok[d] /\ newTok'[d] = newTok[d]
              /\ outcome'[d] = outcome[d]

LEMMA StaysInnocent ==
  ASSUME NEW d \in Callers, Innocent(d), SameFor(d),
         current' = current, rotated'[d] = rotated[d]
  PROVE  Innocent(d)'
BY DEF Innocent, SameFor

(* A caller that is handed the current token, or none. *)
LEMMA DeliveredInnocent ==
  ASSUME StackTypeOK, NEW c \in Callers, Innocent(c), UNCHANGED <<current, rotated>>,
         Deliver(c, current) \/ DeliverError(c)
  PROVE  Innocent(c)' /\ \A d \in Callers \ {c} : SameFor(d)
<1> USE DEF StackTypeOK, TypeOK, Innocent, SameFor, Return, GoTo, Launch
<1>1. CASE FetchReturns(c, current)
  BY <1>1 DEF FetchReturns
<1>2. CASE RefetchReturns(c, current)
  BY <1>2 DEF RefetchReturns
<1>3. ASSUME NEW e \in {ProvErr, CtxErr}, FetchFails(c, e)
      PROVE Innocent(c)' /\ \A d \in Callers \ {c} : SameFor(d)
  BY <1>3 DEF FetchFails
<1>4. ASSUME NEW e \in {ProvErr, CtxErr}, RefetchFails(c, e)
      PROVE Innocent(c)' /\ \A d \in Callers \ {c} : SameFor(d)
  BY <1>4 DEF RefetchFails
<1>5. QED BY <1>1, <1>2, <1>3, <1>4 DEF Deliver, DeliverError

(* A caller that hears the backend, which refuses no current token. *)
LEMMA AnsweredInnocent ==
  ASSUME StackTypeOK, NEW c \in Callers, Innocent(c), BackendAnswers(c)
  PROVE  Innocent(c)' /\ \A d \in Callers \ {c} : SameFor(d)
<1>1. PICK a \in Answers : /\ a \in Statuses => (a = Unauthorized <=> Presented(c) # current)
                           /\ Answered(c, a)
                           /\ UNCHANGED <<mode, current, provider, rotated>>
  BY DEF BackendAnswers
<1>2. a = Unauthorized => a \in Statuses
  BY StatusAssumption DEF Answers, Failures, Unauthorized
<1> USE <1>1, <1>2 DEF StackTypeOK, TypeOK, Innocent, SameFor, Return, GoTo
<1>3. CASE Succeeds(c, a)
  BY <1>3 DEF Succeeds
<1>4. CASE IsRefused(c, a)
  BY <1>4 DEF IsRefused, Presented
<1>5. CASE Retries(c, a)
  BY <1>5 DEF Retries
<1>6. CASE GivesUp(c, a)
  BY <1>6 DEF GivesUp, MapError
<1>7. CASE ResendAnswered(c, a)
  BY <1>7 DEF ResendAnswered, Presented, MapError
<1>8. QED BY <1>3, <1>4, <1>5, <1>6, <1>7 DEF Answered

(* The steps a caller takes by itself. *)
LEMMA CallerInnocent ==
  ASSUME StackTypeOK, NEW c \in Callers, Innocent(c), CallerStep(c)
  PROVE  Innocent(c)' /\ \A d \in Callers \ {c} : SameFor(d)
<1> USE DEF CallerStep, StackTypeOK, TypeOK, Innocent, SameFor, Return, GoTo, Launch
<1>1. CASE Cancel(c)
  BY <1>1 DEF Cancel
<1>2. CASE HeadCancelled(c) \/ SleepCancelled(c)
  BY <1>2 DEF HeadCancelled, SleepCancelled
<1>3. CASE HeadContinues(c) \/ SleepElapses(c)
  BY <1>3 DEF HeadContinues, SleepElapses
<1>4. CASE CacheHit(c) \/ CacheMiss(c)
  BY <1>4 DEF CacheHit, CacheMiss
<1>5. CASE Invalidate(c)
  BY <1>5 DEF Invalidate
<1>6. CASE Store(c)
  BY <1>6 DEF Store
<1>7. QED BY <1>1, <1>2, <1>3, <1>4, <1>5, <1>6 DEF Proceeds, Locks

LEMMA InnocentStep ==
  ASSUME StackTypeOK, CacheCurrent, [StackNext]_stackVars,
         \A c \in Callers : Innocent(c)
  PROVE  \A c \in Callers : Innocent(c)'
<1>1. ASSUME NEW c \in Callers, Innocent(c)', UNCHANGED <<current, rotated>>,
             \A d \in Callers \ {c} : SameFor(d)
      PROVE \A d \in Callers : Innocent(d)'
  BY <1>1, StaysInnocent
<1>2. ASSUME NEW c \in Callers, StartCall(c) PROVE \A d \in Callers : Innocent(d)'
  <2>1. pc'[c] = "head"
    BY <1>2 DEF StartCall, Begin, GoTo, StackTypeOK, TypeOK
  <2>2. \A d \in Callers \ {c} : SameFor(d) /\ rotated'[d] = rotated[d]
    BY <1>2 DEF StartCall, Begin, Fresh, GoTo, StackTypeOK, TypeOK, SameFor
  <2>3. current' = current
    BY <1>2 DEF StartCall
  <2>4. QED BY <2>1, <2>2, <2>3, StaysInnocent DEF Innocent
<1>3. ASSUME NEW c \in Callers, CallerStep(c) PROVE \A d \in Callers : Innocent(d)'
  BY <1>1, <1>3, CallerInnocent DEF CallerStep
<1>4. ASSUME NEW c \in Callers, RefreshHit(c), mode.adapter = "refresh"
      PROVE \A d \in Callers : Innocent(d)'
  <2>1. Deliver(c, current) /\ UNCHANGED <<current, rotated>>
    BY <1>4 DEF RefreshHit, CacheCurrent
  <2>2. QED BY <1>1, <2>1, DeliveredInnocent
<1>5. ASSUME NEW c \in Callers,
             \/ FnReturns(c) \/ FnFails(c) \/ DirectAnswers(c)
             \/ mode.adapter = "static" /\ StaticAnswers(c)
      PROVE \A d \in Callers : Innocent(d)'
  <2>1. (Deliver(c, current) \/ DeliverError(c)) /\ UNCHANGED <<current, rotated>>
    BY <1>5 DEF FnReturns, FnFails, StaticAnswers, DirectAnswers, CacheCurrent
  <2>2. QED BY <1>1, <2>1, DeliveredInnocent
<1>6. ASSUME NEW c \in Callers, BackendAnswers(c) PROVE \A d \in Callers : Innocent(d)'
  BY <1>1, <1>6, AnsweredInnocent DEF BackendAnswers
<1>7. CASE Rotate
  BY <1>7 DEF Rotate, Innocent, Idle, vars, local, StackTypeOK
<1>8. ASSUME TimePasses \/ UNCHANGED stackVars \/ \E c \in Callers : RefreshMiss(c)
      PROVE \A d \in Callers : Innocent(d)'
  BY <1>8 DEF TimePasses, Ages, stackVars, RefreshMiss, vars, local, Innocent
<1>9. QED
  BY <1>2, <1>3, <1>4, <1>5, <1>6, <1>7, <1>8 DEF StackNext, TokenStep, FnAnswers

(* However many calls share the caches, and however they tread on each     *)
(* other's tokens: a call fails for authentication only if the backend     *)
(* changed token during it, provided that tokens which RefreshFunc or      *)
(* StaticToken keeps are honoured until they expire.                       *)
THEOREM OnlyRotationFailsAuth == Honoured => (StackSpec => []NoSpuriousAuthFailure)
<1> DEFINE AllInnocent == \A c \in Callers : Innocent(c)
<1> SUFFICES ASSUME Honoured PROVE StackSpec => []NoSpuriousAuthFailure
  OBVIOUS
<1>1. StackInit => CacheCurrent /\ AllInnocent
  BY StackAssumption, StaticTyped DEF StackInit, Init, CacheCurrent, Cached, Innocent
<1>2. StackTypeOK /\ CacheCurrent /\ [StackNext]_stackVars => CacheCurrent'
  BY CacheCurrentStep
<1>3. StackTypeOK /\ CacheCurrent /\ AllInnocent /\ [StackNext]_stackVars => AllInnocent'
  BY InnocentStep
<1>4. AllInnocent => NoSpuriousAuthFailure
  BY DEF Innocent, NoSpuriousAuthFailure
<1>5. QED
  <2> HIDE DEF AllInnocent
  <2>1. QED BY <1>1, <1>2, <1>3, <1>4, StackTypeCorrect, PTL DEF StackSpec


-----------------------------------------------------------------------------
(* The steps that neither send nor hear are steps of the transport. *)
LEMMA InsideStep ==
  ASSUME NEW c \in Callers, Inside(c)
  PROVE  Next
BY DEF Inside, Next, Locks, ProviderAnswers

(* Each step is a step of the transport or leaves it alone. *)
LEMMA DeliveryStep ==
  ASSUME [DeliveryNext]_deliveryVars
  PROVE  [Next]_vars
<1>1. ASSUME NEW c \in Callers, Emit(c) PROVE Next
  BY <1>1 DEF Emit, Next, Locks, ProviderAnswers
<1>2. ASSUME NEW c \in Callers, NEW m \in wire[c], Perform(c, m) PROVE UNCHANGED vars
  BY <1>2 DEF Perform
<1>3. ASSUME NEW c \in Callers, NEW a \in Answers, Confirmed(c, a) \/ Declined(c, a) \/ LeftOpen(c, a)
      PROVE Next
  BY <1>3 DEF Confirmed, Declined, LeftOpen, Next
<1>4. ClockTicks => Next
  BY DEF ClockTicks, Next
<1>5. UNCHANGED deliveryVars => UNCHANGED vars
  BY DEF deliveryVars
<1>6. QED BY <1>1, <1>2, <1>3, <1>4, <1>5, InsideStep DEF DeliveryNext

(* The transport with effects is the transport: TransportProofs applies. *)
THEOREM DeliveryImplements == DeliverySpec => Spec
<1>1. DeliveryInit => Init
  BY DEF DeliveryInit
<1>2. [DeliveryNext]_deliveryVars => [Next]_vars
  BY DeliveryStep
<1>3. QED BY <1>1, <1>2, PTL DEF DeliverySpec, Spec

(* A copy is numbered by its send. *)
LEMMA CopyTyped ==
  ASSUME TypeOK, keyed \in [Callers -> BOOLEAN], NEW c \in Callers
  PROVE  Copy(c) \in Copies
BY DEF TypeOK, Copy, Copies

(* Type correctness: what is on the wire and what was performed are copies *)
(* of the request.                                                         *)
THEOREM DeliveryTypeCorrect == DeliverySpec => []DeliveryTypeOK
<1> DEFINE Typed == /\ keyed \in [Callers -> BOOLEAN]
                    /\ wire \in [Callers -> SUBSET Copies]
                    /\ effects \in [Callers -> SUBSET Copies]
                    /\ unclear \in [Callers -> SUBSET (Nat \ {0})]
<1>1. DeliveryInit => Typed
  BY DEF DeliveryInit
<1>2. TypeOK /\ IInv /\ Typed /\ [DeliveryNext]_deliveryVars => Typed'
  <2> SUFFICES ASSUME TypeOK, IInv, Typed, [DeliveryNext]_deliveryVars PROVE Typed'
    OBVIOUS
  <2>1. ASSUME NEW c \in Callers, Emit(c) PROVE Typed'
    BY <2>1, CopyTyped DEF Emit
  <2>2. ASSUME NEW c \in Callers, NEW m \in wire[c], Perform(c, m) PROVE Typed'
    BY <2>2 DEF Perform
  <2>3. ASSUME NEW c \in Callers, NEW a \in Answers, LeftOpen(c, a) PROVE Typed'
    <3>1. pc[c] \in {"flight", "resend"}
      BY <2>3 DEF LeftOpen, Answered, Succeeds, IsRefused, Retries, GivesUp, ResendAnswered
    <3>2. sends[c] \in Nat \ {0}
      BY <3>1 DEF IInv, Counted, In401, Resent, TypeOK
    <3>3. QED BY <3>2, <2>3 DEF LeftOpen
  <2>4. ASSUME NEW c \in Callers, NEW a \in Answers, Confirmed(c, a) \/ Declined(c, a) PROVE Typed'
    BY <2>4 DEF Confirmed, Declined, delivery
  <2>5. ASSUME UNCHANGED delivery PROVE Typed'
    BY <2>5 DEF delivery
  <2>6. (\E c \in Callers : Inside(c)) \/ ClockTicks \/ UNCHANGED deliveryVars => UNCHANGED delivery
    BY DEF Inside, ClockTicks, deliveryVars
  <2>7. QED BY <2>1, <2>2, <2>3, <2>4, <2>5, <2>6 DEF DeliveryNext
<1>3. TypeOK /\ Typed => DeliveryTypeOK
  BY DEF DeliveryTypeOK
<1>4. QED
  <2> HIDE DEF Typed
  <2>1. QED BY <1>1, <1>2, <1>3, DeliveryImplements, Invariance, PTL DEF DeliverySpec

-----------------------------------------------------------------------------
(* The inductive invariant of a call.  Copied: every copy is faithful, and *)
(* is the last one or older.  Accounted: EffectsAccountedFor, knowing that *)
(* only a call that waits or has succeeded has a clear send out.  Once: no *)
(* copy is performed twice, keyed ones once in all.  Real: the copy whose  *)
(* answer is awaited is on the wire, unless something was performed.       *)
(* Redirected: after a redirect that one is not performed any more.        *)
Waits(c) == pc[c] \in {"flight", "resend"}
Succeeded(c) == pc[c] = "done" /\ outcome[c].kind = "success"

Copied(c) == \A m \in wire[c] \cup effects[c] : m.key = keyed[c] /\ m.n <= sends[c]

Accounted(c) == \A m \in wire[c] \cup effects[c] :
  m.n \in unclear[c] \/ (m.n = sends[c] /\ (Waits(c) \/ Succeeded(c)))

Once(c) == /\ \A m, e \in wire[c] : m.n = e.n => m = e
           /\ \A m \in wire[c], e \in effects[c] : m.n # e.n
           /\ keyed[c] => \A d, e \in effects[c] : d = e

Real(c) == /\ Waits(c) /\ Awaited(c) = {} => effects[c] # {}
           /\ Succeeded(c) /\ outcome[c].status \notin 300..399 => effects[c] # {}

Redirected(c) == Succeeded(c) /\ outcome[c].status \in 300..399 =>
  \A m \in wire[c] \cup effects[c] : m.n \in unclear[c]

DInv(c) == Copied(c) /\ Accounted(c) /\ Once(c) /\ Real(c) /\ Redirected(c)

(* What the invariant of a call depends on. *)
SameCall(d) ==
  /\ pc'[d] = pc[d] /\ outcome'[d] = outcome[d] /\ sends'[d] = sends[d]
  /\ keyed'[d] = keyed[d] /\ wire'[d] = wire[d]
  /\ effects'[d] = effects[d] /\ unclear'[d] = unclear[d]

LEMMA SameCallKeeps ==
  ASSUME NEW d \in Callers, DInv(d), SameCall(d)
  PROVE  DInv(d)'
BY DEF SameCall, DInv, Copied, Accounted, Once, Real, Redirected, Waits, Succeeded, Awaited

(* A step of the transport by c leaves the other calls alone. *)
LEMMA StepFrames ==
  ASSUME TypeOK, IInv, NEW c \in Callers,
         \/ Begin(c) \/ BodyFails(c) \/ Cancel(c) \/ Proceeds(c) \/ Locks(c) \/ ProviderAnswers(c)
         \/ \E a \in Answers : Answered(c, a)
  PROVE  Frame(c)
<1>1. PerCall(c)
  BY DEF IInv, PerCall
<1>2. QED BY <1>1, OwnStep DEF Proceeds, Locks, ProviderAnswers, Answered

LEMMA EmitOwn ==
  ASSUME DeliveryTypeOK, NEW c \in Callers, DInv(c), Emit(c)
  PROVE  DInv(c)'
<1> USE DEF DeliveryTypeOK, TypeOK
<1>1. /\ pc[c] \in {"get", "fetch", "store"}
      /\ pc'[c] \in {"flight", "resend"}
      /\ sends'[c] = sends[c] + 1
  BY DEF Emit, CacheHit, Store, FetchReturns, Launch, GoTo
<1>2. /\ wire'[c] = wire[c] \cup {Copy(c)}
      /\ UNCHANGED <<keyed, effects, unclear>>
  BY DEF Emit
<1>3. \A m \in wire[c] \cup effects[c] : m.n \in Nat /\ m.n <= sends[c] /\ m.n \in unclear[c]
  BY <1>1 DEF DInv, Copied, Accounted, Waits, Succeeded, Copies
<1>4. Copy(c).n = sends'[c] /\ Copy(c).key = keyed[c]
  BY <1>1 DEF Copy
<1>5. Copied(c)'
  BY <1>1, <1>2, <1>3, <1>4 DEF DInv, Copied
<1>6. Accounted(c)'
  BY <1>1, <1>2, <1>3, <1>4 DEF Accounted, Waits
<1>7. Once(c)'
  BY <1>1, <1>2, <1>3, <1>4 DEF DInv, Once
<1>8. Real(c)'
  <2>1. Copy(c) \in Awaited(c)'
    BY <1>2, <1>4 DEF Awaited
  <2>2. QED BY <1>1, <2>1 DEF Real, Succeeded
<1>9. Redirected(c)'
  BY <1>1 DEF Redirected, Succeeded
<1>10. QED BY <1>5, <1>6, <1>7, <1>8, <1>9 DEF DInv

LEMMA PerformOwn ==
  ASSUME DeliveryTypeOK, NEW c \in Callers, DInv(c), NEW m \in wire[c], Perform(c, m)
  PROVE  DInv(c)'
<1> USE DEF DeliveryTypeOK, TypeOK
<1>1. /\ wire'[c] = wire[c] \ {m}
      /\ UNCHANGED <<pc, outcome, sends, keyed, unclear>>
  BY DEF Perform, vars, local
<1>a. \/ effects'[c] = effects[c] /\ effects[c] # {}
      \/ /\ effects'[c] = effects[c] \cup {m}
         /\ m.key => \A e \in effects[c] : ~e.key
  <2>1. CASE m.key /\ \E e \in effects[c] : e.key
    BY <2>1 DEF Perform
  <2>2. CASE ~(m.key /\ \E e \in effects[c] : e.key)
    <3>1. effects' = [effects EXCEPT ![c] = @ \cup {m}]
      BY <2>2 DEF Perform
    <3>2. QED BY <2>2, <3>1
  <2>3. QED BY <2>1, <2>2
<1>2. effects'[c] # {} /\ effects'[c] \subseteq effects[c] \cup {m}
  BY <1>a
<1>3. keyed[c] => \A d, e \in effects'[c] : d = e
  <2>1. CASE effects'[c] = effects[c]
    BY <2>1 DEF DInv, Once
  <2>2. ASSUME keyed[c], effects'[c] = effects[c] \cup {m}, m.key => \A e \in effects[c] : ~e.key
        PROVE effects'[c] = {m}
    <3>1. m.key /\ \A e \in effects[c] : e.key
      BY <2>2 DEF DInv, Copied
    <3>2. QED BY <2>2, <3>1
  <2>3. QED BY <1>a, <2>1, <2>2
<1>4. Copied(c)' /\ Accounted(c)'
  BY <1>1, <1>2 DEF DInv, Copied, Accounted, Waits, Succeeded
<1>5. Once(c)'
  BY <1>1, <1>2, <1>3 DEF DInv, Once
<1>6. Redirected(c)'
  BY <1>1, <1>2 DEF DInv, Redirected, Succeeded
<1>7. QED BY <1>2, <1>4, <1>5, <1>6 DEF DInv, Real

(* What an answer makes of a call: only 2xx and 3xx are a success. *)
LEMMA AnswerOutcome ==
  ASSUME TypeOK, NEW c \in Callers, NEW a \in Answers, Answered(c, a)
  PROVE  /\ Waits(c) /\ ~Waits(c)' /\ sends' = sends
         /\ Succeeded(c)' => Success(a) /\ outcome'[c].status = a
         /\ Success(a) => Succeeded(c)'
<1> USE StatusAssumption DEF TypeOK, Waits, Succeeded, Return, GoTo
<1>1. \A s : MapError(s) # "success"
  BY MapErrorFacts
<1>2. Unauthorized \notin Failures /\ ~Success(Unauthorized)
  BY DEF Failures, Unauthorized, Success
<1>3. a \in Failures => ~Success(a)
  BY DEF Failures, Success
<1>4. CASE Succeeds(c, a)
  BY <1>4 DEF Succeeds
<1>5. CASE IsRefused(c, a)
  BY <1>5, <1>2 DEF IsRefused
<1>6. CASE Retries(c, a)
  BY <1>6 DEF Retries
<1>7. CASE GivesUp(c, a)
  BY <1>7, <1>1 DEF GivesUp
<1>8. CASE ResendAnswered(c, a)
  BY <1>8, <1>1, <1>2, <1>3 DEF ResendAnswered
<1>9. QED BY <1>4, <1>5, <1>6, <1>7, <1>8 DEF Answered

LEMMA ConfirmedOwn ==
  ASSUME DeliveryTypeOK, NEW c \in Callers, DInv(c), NEW a \in Answers, Confirmed(c, a)
  PROVE  DInv(c)'
<1>1. /\ Waits(c) /\ ~Waits(c)' /\ sends' = sends /\ UNCHANGED delivery
      /\ Success(a) => Succeeded(c)'
      /\ Succeeded(c)' => outcome'[c].status = a
  BY AnswerOutcome DEF Confirmed, DeliveryTypeOK
<1>2. Succeeded(c)' /\ outcome'[c].status \notin 300..399
  BY <1>1 DEF Confirmed, Success
<1>3. effects[c] # {}
  BY <1>1 DEF Confirmed, DInv, Real
<1>4. QED BY <1>1, <1>2, <1>3 DEF DInv, Copied, Accounted, Once, Real, Redirected, delivery

LEMMA DeclinedOwn ==
  ASSUME DeliveryTypeOK, NEW c \in Callers, DInv(c), NEW a \in Answers, Declined(c, a)
  PROVE  DInv(c)'
<1>1. /\ Waits(c) /\ ~Waits(c)' /\ sends' = sends
      /\ Succeeded(c)' => Success(a) /\ outcome'[c].status = a
  BY AnswerOutcome DEF Declined, DeliveryTypeOK
<1>2. /\ wire'[c] = wire[c] \ Awaited(c)
      /\ UNCHANGED <<keyed, effects, unclear>>
  BY DEF Declined, DeliveryTypeOK
<1>3. \A m \in wire'[c] \cup effects'[c] : m.n # sends[c]
  <2>1. PICK w \in wire[c] : w.n = sends[c]
    BY DEF Declined, Awaited
  <2>2. \A e \in effects[c] : e.n # sends[c]
    BY <2>1 DEF DInv, Once
  <2>3. QED BY <1>2, <2>2 DEF Awaited
<1>4. Copied(c)' /\ Accounted(c)' /\ Once(c)'
  BY <1>1, <1>2, <1>3 DEF DInv, Copied, Accounted, Once
<1>5. Succeeded(c)' => outcome'[c].status \in 300..399
  BY <1>1 DEF Declined, Success
<1>6. Redirected(c)'
  BY <1>1, <1>3, <1>4 DEF Accounted, Redirected, DeliveryTypeOK, TypeOK
<1>7. QED BY <1>1, <1>4, <1>5, <1>6 DEF DInv, Real

LEMMA LeftOpenOwn ==
  ASSUME DeliveryTypeOK, NEW c \in Callers, DInv(c), NEW a \in Answers, LeftOpen(c, a)
  PROVE  DInv(c)'
<1>1. /\ Waits(c) /\ ~Waits(c)' /\ sends' = sends
      /\ Succeeded(c)' => Success(a)
  BY AnswerOutcome DEF LeftOpen, DeliveryTypeOK
<1>2. ~Succeeded(c)'
  BY <1>1, StatusAssumption DEF LeftOpen, Success, Failures
<1>3. /\ unclear'[c] = unclear[c] \cup {sends[c]}
      /\ UNCHANGED <<keyed, wire, effects>>
  BY DEF LeftOpen, DeliveryTypeOK
<1>4. QED BY <1>1, <1>2, <1>3 DEF DInv, Copied, Accounted, Once, Real, Redirected

LEMMA InsideOwn ==
  ASSUME DeliveryTypeOK, IInv, NEW c \in Callers, DInv(c), Inside(c)
  PROVE  DInv(c)'
<1> USE DEF DeliveryTypeOK, TypeOK, GoTo, Return, delivery
<1>1. CASE Cancel(c)
  <2>1. SameCall(c)
    BY <1>1 DEF Inside, Cancel, SameCall
  <2>2. QED BY <2>1, SameCallKeeps
<1>2. CASE ~Cancel(c)
  <2>1. pc[c] \in {"idle", "head", "sleep", "get", "fetch", "invalidate", "refetch"}
    BY <1>2 DEF Inside, Proceeds, HeadCancelled, HeadContinues, SleepCancelled, SleepElapses,
                CacheMiss, Invalidate, RefetchReturns, FetchFails, RefetchFails
  <2>2. ~Waits(c)' /\ ~Succeeded(c)'
    <3>1. ASSUME pc[c] = "idle", Begin(c) \/ BodyFails(c) PROVE ~Waits(c)' /\ ~Succeeded(c)'
      BY <3>1 DEF Begin, BodyFails, Fresh, Waits, Succeeded
    <3>2. ASSUME Proceeds(c) PROVE ~Waits(c)' /\ ~Succeeded(c)'
      BY <3>2 DEF Proceeds, HeadCancelled, HeadContinues, SleepCancelled, SleepElapses,
                  Waits, Succeeded
    <3>3. ASSUME CacheMiss(c) \/ Invalidate(c) PROVE ~Waits(c)' /\ ~Succeeded(c)'
      BY <3>3 DEF CacheMiss, Invalidate, Waits, Succeeded
    <3>4. ASSUME NEW t \in Tokens \cup {NoToken}, RefetchReturns(c, t)
          PROVE ~Waits(c)' /\ ~Succeeded(c)'
      BY <3>4 DEF RefetchReturns, Waits, Succeeded
    <3>5. ASSUME NEW e \in {ProvErr, CtxErr}, FetchFails(c, e) \/ RefetchFails(c, e)
          PROVE ~Waits(c)' /\ ~Succeeded(c)'
      BY <3>5 DEF FetchFails, RefetchFails, Waits, Succeeded
    <3>6. QED BY <1>2, <3>1, <3>2, <3>3, <3>4, <3>5 DEF Inside
  <2>3. sends'[c] = sends[c]
    <3>1. pc[c] = "idle" => sends[c] = 0
      BY DEF IInv, Counted
    <3>2. QED
      BY <1>2, <3>1 DEF Inside, Begin, BodyFails, Fresh, Proceeds, HeadCancelled, HeadContinues,
           SleepCancelled, SleepElapses, CacheMiss, Invalidate, RefetchReturns, FetchFails,
           RefetchFails
  <2>4. UNCHANGED <<keyed, wire, effects, unclear>>
    BY DEF Inside
  <2>5. QED BY <2>1, <2>2, <2>3, <2>4 DEF DInv, Copied, Accounted, Once, Real, Redirected, Waits, Succeeded
<1>3. QED BY <1>1, <1>2

(* A step of one call keeps the invariant of all. *)
LEMMA DInvStep ==
  ASSUME DeliveryTypeOK, IInv, [DeliveryNext]_deliveryVars, \A c \in Callers : DInv(c)
  PROVE  \A c \in Callers : DInv(c)'
<1>1. ASSUME NEW c \in Callers, DInv(c)', \A d \in Callers \ {c} : SameCall(d)
      PROVE \A d \in Callers : DInv(d)'
  BY <1>1, SameCallKeeps
<1>2. ASSUME NEW c \in Callers, Inside(c) \/ Emit(c) \/ \E a \in Answers : Answered(c, a)
      PROVE Frame(c)
  <2>1. \/ Begin(c) \/ BodyFails(c) \/ Cancel(c) \/ Proceeds(c) \/ Locks(c) \/ ProviderAnswers(c)
        \/ \E a \in Answers : Answered(c, a)
    BY <1>2 DEF Inside, Emit, Locks, ProviderAnswers
  <2>2. QED BY <2>1, StepFrames DEF DeliveryTypeOK
<1> USE DEF DeliveryTypeOK
<1>3. ASSUME NEW c \in Callers, Inside(c) PROVE \A d \in Callers : DInv(d)'
  BY <1>1, <1>2, <1>3, InsideOwn DEF Inside, Frame, SameCall, delivery
<1>4. ASSUME NEW c \in Callers, Emit(c) PROVE \A d \in Callers : DInv(d)'
  BY <1>1, <1>2, <1>4, EmitOwn DEF Emit, Frame, SameCall
<1>5. ASSUME NEW c \in Callers, NEW m \in wire[c], Perform(c, m) PROVE \A d \in Callers : DInv(d)'
  BY <1>1, <1>5, PerformOwn DEF Perform, SameCall, vars, local
<1>6. ASSUME NEW c \in Callers, NEW a \in Answers, Confirmed(c, a) PROVE \A d \in Callers : DInv(d)'
  <2>1. DInv(c)'
    BY <1>6, ConfirmedOwn
  <2>2. Frame(c)
    BY <1>2, <1>6 DEF Confirmed
  <2>3. ASSUME NEW d \in Callers \ {c} PROVE SameCall(d)
    <3>1. /\ keyed'[d] = keyed[d] /\ wire'[d] = wire[d]
          /\ effects'[d] = effects[d] /\ unclear'[d] = unclear[d]
      BY <1>6 DEF Confirmed, delivery
    <3>2. QED BY <2>2, <3>1 DEF Frame, SameCall
  <2>4. QED BY <1>1, <2>1, <2>3
<1>7. ASSUME NEW c \in Callers, NEW a \in Answers, Declined(c, a) PROVE \A d \in Callers : DInv(d)'
  <2>1. DInv(c)'
    BY <1>7, DeclinedOwn
  <2>2. Frame(c)
    BY <1>2, <1>7 DEF Declined
  <2>3. ASSUME NEW d \in Callers \ {c} PROVE SameCall(d)
    <3>1. /\ keyed'[d] = keyed[d] /\ wire'[d] = wire[d]
          /\ effects'[d] = effects[d] /\ unclear'[d] = unclear[d]
      BY <1>7 DEF Declined, delivery
    <3>2. QED BY <2>2, <3>1 DEF Frame, SameCall
  <2>4. QED BY <1>1, <2>1, <2>3
<1>8. ASSUME NEW c \in Callers, NEW a \in Answers, LeftOpen(c, a) PROVE \A d \in Callers : DInv(d)'
  <2>1. DInv(c)'
    BY <1>8, LeftOpenOwn
  <2>2. Frame(c)
    BY <1>2, <1>8 DEF LeftOpen
  <2>3. ASSUME NEW d \in Callers \ {c} PROVE SameCall(d)
    <3>1. unclear'[d] = unclear[d] /\ UNCHANGED <<keyed, wire, effects>>
      BY <1>8 DEF LeftOpen
    <3>2. QED BY <2>2, <3>1 DEF Frame, SameCall
  <2>4. QED BY <1>1, <2>1, <2>3
<1>9. ASSUME ClockTicks \/ UNCHANGED deliveryVars PROVE \A d \in Callers : DInv(d)'
  <2>1. \A d \in Callers : SameCall(d)
    BY <1>9 DEF ClockTicks, Ages, deliveryVars, vars, local, delivery, SameCall
  <2>2. QED BY <2>1, SameCallKeeps
<1>10. QED
  BY <1>3, <1>4, <1>5, <1>6, <1>7, <1>8, <1>9 DEF DeliveryNext

LEMMA DeliveryInvariance == DeliverySpec => [](\A c \in Callers : DInv(c))
<1> DEFINE All == \A c \in Callers : DInv(c)
<1>1. DeliveryInit => All
  BY DEF DeliveryInit, Init, DInv, Copied, Accounted, Once, Real, Redirected, Waits, Succeeded
<1>2. DeliveryTypeOK /\ IInv /\ All /\ [DeliveryNext]_deliveryVars => All'
  BY DInvStep
<1>3. QED
  <2> HIDE DEF All
  <2>1. DeliverySpec => []All
    BY <1>1, <1>2, DeliveryTypeCorrect, DeliveryImplements, Invariance, PTL DEF DeliverySpec
  <2>2. QED BY <2>1 DEF All

(* A success that is not a redirect means that the backend has acted.      *)
THEOREM SuccessHolds == DeliverySpec => []SuccessIsReal
<1>1. (\A c \in Callers : DInv(c)) => SuccessIsReal
  BY DEF DInv, Real, Succeeded, SuccessIsReal
<1>2. QED BY <1>1, DeliveryInvariance, PTL

(* A call that fails with clear answers only has changed nothing and never *)
(* will.                                                                   *)
THEOREM NothingUnaccounted == DeliverySpec => []EffectsAccountedFor
<1>1. (\A c \in Callers : DInv(c)) => EffectsAccountedFor
  BY DEF DInv, Accounted, Waits, Succeeded, Failed, EffectsAccountedFor
<1>2. QED BY <1>1, DeliveryInvariance, PTL

-----------------------------------------------------------------------------
(* Delivery implements Errand: there the number of performances counts.    *)
(* Few: of an attempt, one copy at most is performed or may still be; the  *)
(* one that met a 401 was declined, so the resend stands in its place.     *)
Out(c) == wire[c] \cup effects[c]
Room(c) == attempt[c] + (IF pc[c] \in {"flight", "resend", "done"} THEN 1 ELSE 0)
Few(c) == IsFiniteSet(Out(c)) /\ Cardinality(Out(c)) <= Room(c)

LEMMA RoomOwn ==
  ASSUME TypeOK, IInv, NEW c \in Callers
  PROVE  /\ Room(c) \in Nat
         /\ Inside(c) => Room(c)' \in Nat /\ Room(c) <= Room(c)'
         /\ Emit(c) => Room(c)' = Room(c) + 1
         /\ \A a \in Answers : Answered(c, a) =>
              IF a = Unauthorized /\ pc[c] = "flight"
                THEN Room(c)' = Room(c) - 1
                ELSE Room(c)' \in Nat /\ Room(c) <= Room(c)'
<1> USE DEF TypeOK, Room, GoTo, Return
<1>1. Room(c) \in Nat
  OBVIOUS
<1>2. ASSUME Inside(c) PROVE Room(c)' \in Nat /\ Room(c) <= Room(c)'
  <2>1. ASSUME pc[c] = "idle", Begin(c) \/ BodyFails(c)
        PROVE  Room(c)' \in Nat /\ Room(c) <= Room(c)'
    BY <2>1 DEF Begin, BodyFails, Fresh, IInv, Counted
  <2>2. ASSUME Cancel(c) \/ Proceeds(c) PROVE Room(c)' \in Nat /\ Room(c) <= Room(c)'
    BY <2>2 DEF Cancel, Proceeds, HeadCancelled, HeadContinues, SleepCancelled, SleepElapses
  <2>3. ASSUME CacheMiss(c) \/ Invalidate(c) PROVE Room(c)' \in Nat /\ Room(c) <= Room(c)'
    BY <2>3 DEF CacheMiss, Invalidate
  <2>4. ASSUME NEW t, RefetchReturns(c, t) PROVE Room(c)' \in Nat /\ Room(c) <= Room(c)'
    BY <2>4 DEF RefetchReturns
  <2>5. ASSUME NEW e, FetchFails(c, e) \/ RefetchFails(c, e)
        PROVE  Room(c)' \in Nat /\ Room(c) <= Room(c)'
    BY <2>5 DEF FetchFails, RefetchFails
  <2>6. QED BY <1>2, <2>1, <2>2, <2>3, <2>4, <2>5 DEF Inside
<1>3. ASSUME Emit(c) PROVE Room(c)' = Room(c) + 1
  BY <1>3 DEF Emit, CacheHit, Store, FetchReturns, Launch
<1>4. ASSUME NEW a \in Answers, Answered(c, a)
      PROVE  IF a = Unauthorized /\ pc[c] = "flight"
               THEN Room(c)' = Room(c) - 1
               ELSE Room(c)' \in Nat /\ Room(c) <= Room(c)'
  <2>1. CASE Succeeds(c, a)
    BY <2>1 DEF Succeeds, Success, Unauthorized
  <2>2. CASE IsRefused(c, a)
    BY <2>2 DEF IsRefused
  <2>3. CASE Retries(c, a)
    BY <2>3 DEF Retries
  <2>4. CASE GivesUp(c, a)
    BY <2>4 DEF GivesUp
  <2>5. CASE ResendAnswered(c, a)
    BY <2>5 DEF ResendAnswered
  <2>6. QED BY <1>4, <2>1, <2>2, <2>3, <2>4, <2>5 DEF Answered
<1>5. QED BY <1>1, <1>2, <1>3, <1>4

LEMMA FewerStay ==
  ASSUME NEW S, NEW T \in SUBSET S, NEW r \in Nat, NEW q \in Nat,
         IsFiniteSet(S), Cardinality(S) <= r, r <= q
  PROVE  IsFiniteSet(T) /\ Cardinality(T) <= q /\ Cardinality(T) \in Nat
BY FS_Subset, FS_CardinalityType

LEMMA FewOwn ==
  ASSUME DeliveryTypeOK, IInv, NEW c \in Callers, DInv(c), Few(c),
         \/ Inside(c) \/ Emit(c) \/ \E m \in wire[c] : Perform(c, m)
         \/ \E a \in Answers : Confirmed(c, a) \/ Declined(c, a) \/ LeftOpen(c, a)
  PROVE  Few(c)'
<1> USE DEF DeliveryTypeOK
<1>1. Room(c) \in Nat /\ IsFiniteSet(Out(c)) /\ Cardinality(Out(c)) <= Room(c)
      /\ Cardinality(Out(c)) \in Nat
  BY RoomOwn, FS_CardinalityType DEF Few
<1>2. ASSUME Out(c)' \in SUBSET Out(c), Room(c)' \in Nat, Room(c) <= Room(c)'
      PROVE  Few(c)'
  BY <1>1, <1>2, FewerStay DEF Few
<1>3. CASE Inside(c)
  <2>1. Out(c)' = Out(c)
    BY <1>3 DEF Inside, Out, delivery
  <2>2. QED BY <1>2, <1>3, <2>1, RoomOwn
<1>4. CASE Emit(c)
  <2>1. Out(c)' = Out(c) \cup {Copy(c)}
    BY <1>4 DEF Emit, Out
  <2>2. Room(c)' = Room(c) + 1
    BY <1>4, RoomOwn
  <2>3. IsFiniteSet(Out(c) \cup {Copy(c)}) /\ Cardinality(Out(c) \cup {Copy(c)}) <= Room(c) + 1
    <3>1. /\ IsFiniteSet(Out(c) \cup {Copy(c)})
          /\ Cardinality(Out(c) \cup {Copy(c)}) =
               IF Copy(c) \in Out(c) THEN Cardinality(Out(c)) ELSE Cardinality(Out(c)) + 1
      BY <1>1, FS_AddElement
    <3>2. QED BY <1>1, <3>1
  <2>4. QED BY <2>1, <2>2, <2>3 DEF Few
<1>5. ASSUME NEW m \in wire[c], Perform(c, m) PROVE Few(c)'
  <2>1. Out(c)' \in SUBSET Out(c)
    BY <1>5 DEF Perform, Out
  <2>2. Room(c)' = Room(c)
    BY <1>5 DEF Perform, vars, local, Room
  <2>3. QED BY <1>1, <1>2, <2>1, <2>2
<1>6. ASSUME NEW a \in Answers, Confirmed(c, a) \/ LeftOpen(c, a) PROVE Few(c)'
  <2>1. Answered(c, a) /\ a # Unauthorized
    BY <1>6, StatusAssumption DEF Confirmed, LeftOpen, Unauthorized, Failures
  <2>2. Out(c)' = Out(c)
    BY <1>6 DEF Confirmed, LeftOpen, Out, delivery
  <2>3. QED BY <1>2, <2>1, <2>2, RoomOwn
<1>7. ASSUME NEW a \in Answers, Declined(c, a) PROVE Few(c)'
  <2>1. Answered(c, a) /\ wire'[c] = wire[c] \ Awaited(c) /\ effects' = effects
    BY <1>7 DEF Declined
  <2>2. Out(c)' \in SUBSET Out(c)
    BY <2>1 DEF Out
  <2>3. CASE ~(a = Unauthorized /\ pc[c] = "flight")
    BY <1>2, <2>1, <2>2, <2>3, RoomOwn
  <2>4. CASE a = Unauthorized /\ pc[c] = "flight"
    <3>1. Room(c)' = Room(c) - 1
      BY <2>1, <2>4, RoomOwn
    <3>2. PICK w \in wire[c] : w \in Awaited(c)
      BY <1>7 DEF Declined, Awaited
    <3>3. w \in Out(c) /\ w \notin Out(c)'
      BY <2>1, <3>2 DEF DInv, Once, Out
    <3>4. Cardinality(Out(c)') < Cardinality(Out(c)) /\ IsFiniteSet(Out(c)')
      <4> DEFINE S == Out(c)
                 T == Out(c)'
      <4>1. IsFiniteSet(S) /\ T \in SUBSET S /\ S # T
        BY <1>1, <2>2, <3>3
      <4> HIDE DEF S, T
      <4>2. IsFiniteSet(T) /\ Cardinality(T) <= Cardinality(S) /\ Cardinality(S) # Cardinality(T)
        BY <4>1, FS_Subset
      <4>3. Cardinality(S) \in Nat /\ Cardinality(T) \in Nat
        BY <4>1, <4>2, FS_CardinalityType
      <4>4. QED BY <4>2, <4>3 DEF S, T
    <3>5. Cardinality(Out(c)') \in Nat
      BY <3>4, FS_CardinalityType
    <3>6. QED BY <1>1, <3>1, <3>4, <3>5 DEF Few
  <2>5. QED BY <2>3, <2>4
<1>8. QED BY <1>3, <1>4, <1>5, <1>6, <1>7

(* A caller whose part of the state no step touches. *)
LEMMA FewFrame ==
  ASSUME NEW d \in Callers, Few(d), Out(d)' = Out(d), Room(d)' = Room(d)
  PROVE  Few(d)'
BY DEF Few

(* A step of a call, and what it leaves alone. *)
LEMMA ErrandFrames ==
  ASSUME DeliveryTypeOK, IInv, NEW c \in Callers,
         \/ Inside(c) \/ Emit(c)
         \/ \E a \in Answers : Confirmed(c, a) \/ Declined(c, a) \/ LeftOpen(c, a)
  PROVE  /\ UNCHANGED <<keyed, effects>>
         /\ \A d \in Callers \ {c} :
              /\ Out(d)' = Out(d) /\ Room(d)' = Room(d)
              /\ pc'[d] = pc[d] /\ outcome'[d] = outcome[d] /\ unclear'[d] = unclear[d]
         /\ pc[c] # "done"
<1> USE DEF DeliveryTypeOK
<1>1. Frame(c)
  <2>1. \/ Begin(c) \/ BodyFails(c) \/ Cancel(c) \/ Proceeds(c) \/ Locks(c) \/ ProviderAnswers(c)
        \/ \E a \in Answers : Answered(c, a)
    BY DEF Inside, Emit, Confirmed, Declined, LeftOpen, Locks, ProviderAnswers
  <2>2. QED BY <2>1, StepFrames
<1>2. UNCHANGED <<keyed, effects>>
  BY DEF Inside, Emit, Confirmed, Declined, LeftOpen, delivery
<1>3. ASSUME NEW d \in Callers \ {c} PROVE wire'[d] = wire[d] /\ unclear'[d] = unclear[d]
  BY DEF Inside, Emit, Confirmed, Declined, LeftOpen, delivery
<1>4. pc[c] # "done"
  <2>1. \A a \in Answers : Answered(c, a) => pc[c] # "done"
    BY DEF Answered, Succeeds, IsRefused, Retries, GivesUp, ResendAnswered
  <2>2. Emit(c) => pc[c] # "done"
    BY DEF Emit, CacheHit, Store, FetchReturns
  <2>3. Inside(c) => pc[c] # "done"
    BY DEF Inside, Cancel, Idle, Proceeds, HeadCancelled, HeadContinues, SleepCancelled,
           SleepElapses, CacheMiss, Invalidate, RefetchReturns, FetchFails, RefetchFails
  <2>4. QED BY <2>1, <2>2, <2>3 DEF Confirmed, Declined, LeftOpen
<1>5. QED BY <1>1, <1>2, <1>3, <1>4 DEF Frame, Out, Room

LEMMA FewStep ==
  ASSUME DeliveryTypeOK, IInv, [DeliveryNext]_deliveryVars,
         \A c \in Callers : DInv(c), \A c \in Callers : Few(c)
  PROVE  \A c \in Callers : Few(c)'
<1>1. ASSUME NEW c \in Callers, \/ Inside(c) \/ Emit(c)
                               \/ \E a \in Answers : Confirmed(c, a) \/ Declined(c, a) \/ LeftOpen(c, a)
      PROVE  \A d \in Callers : Few(d)'
  <2>1. Few(c)'
    BY <1>1, FewOwn
  <2>2. ASSUME NEW d \in Callers \ {c} PROVE Few(d)'
    BY <1>1, ErrandFrames, FewFrame
  <2>3. QED BY <2>1, <2>2
<1>2. ASSUME NEW c \in Callers, NEW m \in wire[c], Perform(c, m) PROVE \A d \in Callers : Few(d)'
  <2>1. Few(c)'
    BY <1>2, FewOwn
  <2>2. ASSUME NEW d \in Callers \ {c} PROVE Out(d)' = Out(d) /\ Room(d)' = Room(d)
    BY <1>2 DEF Perform, Out, Room, vars, local, DeliveryTypeOK
  <2>3. QED BY <2>1, <2>2, FewFrame
<1>3. ASSUME ClockTicks \/ UNCHANGED deliveryVars PROVE \A d \in Callers : Few(d)'
  <2>1. \A d \in Callers : Out(d)' = Out(d) /\ Room(d)' = Room(d)
    BY <1>3 DEF ClockTicks, Ages, deliveryVars, vars, local, delivery, Out, Room
  <2>2. QED BY <2>1, FewFrame
<1>4. QED BY <1>1, <1>2, <1>3 DEF DeliveryNext

AllDelivered == /\ \A c \in Callers : DInv(c)
                /\ \A c \in Callers : Few(c)

LEMMA AllDeliveredInvariance == DeliverySpec => []AllDelivered
<1> DEFINE All == \A c \in Callers : DInv(c)
           AllFew == \A c \in Callers : Few(c)
<1>1. DeliveryInit => AllFew
  <2> SUFFICES ASSUME DeliveryInit, NEW c \in Callers PROVE Few(c)
    OBVIOUS
  <2>1. Out(c) = {} /\ Room(c) = 0
    BY DEF DeliveryInit, Init, Out, Room
  <2>2. IsFiniteSet({}) /\ Cardinality({}) = 0
    BY FS_EmptySet
  <2>3. QED BY <2>1, <2>2 DEF Few
<1>2. DeliveryTypeOK /\ IInv /\ All /\ AllFew /\ [DeliveryNext]_deliveryVars => AllFew'
  BY FewStep
<1>3. All /\ AllFew => AllDelivered
  BY DEF AllDelivered
<1>4. DeliverySpec => []All
  BY DeliveryInvariance
<1>5. QED
  <2> HIDE DEF All, AllFew
  <2>1. QED BY <1>1, <1>2, <1>3, <1>4, DeliveryTypeCorrect, DeliveryImplements, Invariance, PTL
            DEF DeliverySpec

(* The fate of a call is what became of its request. *)
FateTrue == \A c \in Callers :
  /\ Fate(c) \in {"open", "done", "undone", "unsure"}
  /\ Fate(c) = "done" => Cardinality(effects[c]) > 0
  /\ Fate(c) = "undone" => effects[c] = {} /\ wire[c] = {} /\ Cardinality(effects[c]) = 0
  /\ IsFiniteSet(effects[c]) /\ Cardinality(effects[c]) \in 0..Budget

LEMMA FateIsTrue == DeliveryTypeOK /\ IInv /\ AllDelivered => FateTrue
<1> SUFFICES ASSUME DeliveryTypeOK, IInv, AllDelivered, NEW c \in Callers
             PROVE  /\ Fate(c) \in {"open", "done", "undone", "unsure"}
                    /\ Fate(c) = "done" => Cardinality(effects[c]) > 0
                    /\ Fate(c) = "undone" => effects[c] = {} /\ wire[c] = {}
                                             /\ Cardinality(effects[c]) = 0
                    /\ IsFiniteSet(effects[c]) /\ Cardinality(effects[c]) \in 0..Budget
  BY DEF FateTrue
<1>1. DInv(c) /\ Few(c)
  BY DEF AllDelivered
<1>2. Room(c) \in Nat /\ Room(c) <= Budget /\ Budget \in Nat
  BY BudgetIsPositive, RoomOwn DEF DeliveryTypeOK, TypeOK, IInv, Counted, Room
<1>3. IsFiniteSet(effects[c]) /\ Cardinality(effects[c]) \in 0..Budget
  BY <1>1, <1>2, FewerStay DEF Few, Out
<1>4. Cardinality(effects[c]) = 0 <=> effects[c] = {}
  BY <1>3, FS_EmptySet
<1>5. Fate(c) = "done" => effects[c] # {}
  BY <1>1 DEF Fate, Failed, Redirect, DInv, Real, Succeeded
<1>6. Fate(c) = "undone" => effects[c] = {} /\ wire[c] = {}
  BY <1>1 DEF Fate, Failed, Redirect, DInv, Accounted, Redirected, Waits, Succeeded
<1>7. Fate(c) \in {"open", "done", "undone", "unsure"}
  BY DEF Fate
<1>8. QED BY <1>3, <1>4, <1>5, <1>6, <1>7

LEMMA FateIsTrueNext == DeliveryTypeOK' /\ IInv' /\ AllDelivered' => FateTrue'
BY FateIsTrue, PTL

ErrandMoves == [Errands!ErrandNext]_Errands!errandVars

LEMMA ErrandStep ==
  ASSUME DeliveryTypeOK, DeliveryTypeOK', IInv, IInv', AllDelivered, AllDelivered',
         [DeliveryNext]_deliveryVars
  PROVE  ErrandMoves
<1> DEFINE T == [c \in Callers |-> Cardinality(effects[c])]
           F == [c \in Callers |-> Fate(c)]
<1>1. FateTrue /\ FateTrue'
  BY FateIsTrue, FateIsTrueNext
<1>2. ASSUME UNCHANGED <<keyed, T, F>> PROVE ErrandMoves
  BY <1>2 DEF ErrandMoves, Errands!errandVars
<1>3. ASSUME NEW c \in Callers, \/ Inside(c) \/ Emit(c)
                               \/ \E a \in Answers : Confirmed(c, a) \/ Declined(c, a) \/ LeftOpen(c, a)
      PROVE  ErrandMoves
  <2>1. /\ UNCHANGED <<keyed, effects>> /\ pc[c] # "done"
        /\ \A d \in Callers \ {c} :
             pc'[d] = pc[d] /\ outcome'[d] = outcome[d] /\ unclear'[d] = unclear[d]
    BY <1>3, ErrandFrames
  <2>2. T' = T
    BY <2>1
  <2>3. F[c] = "open"
    BY <2>1 DEF Fate
  <2>4. \A d \in Callers \ {c} : Fate(d)' = Fate(d)
    BY <2>1 DEF Fate, Failed
  <2>5. F' = [F EXCEPT ![c] = Fate(c)']
    BY <2>4
  <2>6. CASE Fate(c)' = "open"
    <3>1. F' = F
      BY <2>3, <2>5, <2>6
    <3>2. QED BY <1>2, <2>1, <2>2, <3>1
  <2>7. CASE Fate(c)' # "open"
    <3>1. /\ Fate(c)' \in {"done", "undone", "unsure"}
          /\ Fate(c)' = "done" => T[c] > 0
          /\ Fate(c)' = "undone" => T[c] = 0
      BY <1>1, <2>1, <2>2, <2>7 DEF FateTrue
    <3>2. Errands!End(c, Fate(c)')
      BY <2>1, <2>2, <2>3, <2>5, <3>1 DEF Errands!End
    <3>3. QED BY <3>1, <3>2 DEF ErrandMoves, Errands!ErrandNext
  <2>8. QED BY <2>6, <2>7
<1>4. ASSUME NEW c \in Callers, NEW m \in wire[c], Perform(c, m) PROVE ErrandMoves
  <2>1. F' = F /\ keyed' = keyed
    BY <1>4 DEF Perform, vars, local, Fate, Failed
  <2>2. CASE effects' = effects
    BY <1>2, <2>1, <2>2
  <2>3. CASE effects' # effects
    <3>1. /\ effects' = [effects EXCEPT ![c] = @ \cup {m}]
          /\ ~(m.key /\ \E e \in effects[c] : e.key)
      BY <1>4, <2>3 DEF Perform
    <3>2. m \notin effects[c] /\ m.key = keyed[c] /\ \A e \in effects[c] : e.key = keyed[c]
      BY DEF AllDelivered, DInv, Once, Copied
    <3>3. effects'[c] = effects[c] \cup {m} /\ \A d \in Callers \ {c} : effects'[d] = effects[d]
      BY <3>1 DEF DeliveryTypeOK
    <3>4. T'[c] = T[c] + 1
      BY <1>1, <3>2, <3>3, FS_AddElement DEF FateTrue
    <3>5. T' = [T EXCEPT ![c] = T[c] + 1]
      BY <3>3, <3>4
    <3>6. T[c] < Budget
      <4>1. T[c] \in Nat /\ T'[c] <= Budget
        BY <1>1, BudgetIsPositive DEF FateTrue
      <4>2. QED BY <3>4, <4>1, BudgetIsPositive
    <3>7. keyed[c] => T[c] = 0
      BY <3>1, <3>2, FS_EmptySet
    <3>8. F[c] # "undone"
      BY <1>1 DEF FateTrue
    <3>9. Errands!Act(c)
      BY <2>1, <3>5, <3>6, <3>7, <3>8 DEF Errands!Act
    <3>10. QED BY <3>9 DEF ErrandMoves, Errands!ErrandNext
  <2>4. QED BY <2>2, <2>3
<1>5. ASSUME ClockTicks \/ UNCHANGED deliveryVars PROVE ErrandMoves
  <2>1. UNCHANGED <<keyed, effects, pc, outcome, unclear>>
    BY <1>5 DEF ClockTicks, Ages, deliveryVars, vars, local, delivery
  <2>2. UNCHANGED <<keyed, T, F>>
    BY <2>1 DEF Fate, Failed
  <2>3. QED BY <1>2, <2>2
<1>6. QED BY <1>3, <1>4, <1>5 DEF DeliveryNext

(* For any policy, callers and backend: what is performed is what Errand   *)
(* allows, with a budget of sends for the bound; a request that is sent    *)
(* again after a 401 is not performed again by it.                         *)
THEOREM IsErrand == DeliverySpec => KeepsErrand
<1>1. DeliveryInit => Errands!ErrandInit
  <2> SUFFICES ASSUME DeliveryInit PROVE Errands!ErrandInit
    OBVIOUS
  <2>1. \A c \in Callers : Cardinality(effects[c]) = 0 /\ Fate(c) = "open"
    BY FS_EmptySet DEF DeliveryInit, Init, Fate
  <2>2. QED BY <2>1 DEF DeliveryInit, Errands!ErrandInit
<1>2. /\ DeliveryTypeOK /\ DeliveryTypeOK' /\ IInv /\ IInv' /\ AllDelivered /\ AllDelivered'
      /\ [DeliveryNext]_deliveryVars
      => [Errands!ErrandNext]_Errands!errandVars
  BY ErrandStep DEF ErrandMoves
<1>3. QED
  BY <1>1, <1>2, DeliveryTypeCorrect, DeliveryImplements, Invariance, AllDeliveredInvariance, PTL
     DEF DeliverySpec, KeepsErrand, Errands!ErrandSpec
=============================================================================
