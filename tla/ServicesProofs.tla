--------------------------- MODULE ServicesProofs ---------------------------
(***************************************************************************)
(* Theorems about one call of any resource service, for every set of       *)
(* statuses that the backend may answer with.                              *)
(***************************************************************************)
EXTENDS Services, TLAPS

(* The method of a call goes one of the four ways. *)
LEMMA FourWays == call \in Calls => path \in {"gen", "list", "login", "do"}
<1> SUFFICES ASSUME NEW m \in Methods PROVE m.path \in {"gen", "list", "login", "do"}
  BY DEF Calls, path
<1>1. \A way, h : Method(way, h).path = way /\ Page(way).path = way
  BY DEF Method, Page
<1>2. MeDeleteAvatar.path = "gen" /\ UsersPatchCompany.path = "do"
  BY DEF MeDeleteAvatar, UsersPatchCompany, Method
<1>3. QED
  BY <1>1, <1>2 DEF Methods, MeGet, MeCreateAvatarUploadURL, MeConfirmAvatar,
     MeGetNotificationPreferences, MePatchNotificationPreferences,
     MeGetDailyRecapPreferences, MePatchDailyRecapPreferences, ResellersList,
     ResellersGet, ResellersCreate, ResellersUpdate, ResellersPatch,
     ResellersDeactivate, ResellersReactivate, ResellersListAuditLogs, AuthLogin,
     AuditLogsListForReseller, ConnectorsListByLocation, ConnectorsListByCompany,
     ProductsList

(* What is known of the answer and its body at each place of the call.     *)
Unsent == sent = 0 /\ status = 0 /\ body = "none"
Stages ==
  /\ pc \in {"called", "credentials", "send"} => Unsent
  /\ pc = "waiting" => status = 0 /\ body = "none"
  /\ pc = "answered" => status \in Statuses
  /\ pc = "decode" => status \in Statuses /\ Succeeds(status)
  /\ pc # "done" => result = "none"
(* What is known of the outcome; "none" is no outcome. *)
Outcome ==
  /\ result = "value" => status \in Statuses /\ Succeeds(status)
  /\ result \in Typed => status \in Statuses /\ result = MapError(status)
  /\ result \in {"argument", "credentials"} => Unsent
IInv == TypeOK /\ Stages /\ Outcome /\ BodyClosed

LEMMA Mapped == ASSUME NEW s PROVE MapError(s) \in Typed
BY DEF MapError, Typed

LEMMA AsDocumented ==
  ASSUME NEW s \in 200..599, s # 429
  PROVE  MapError(s) = Documented(s)
<1>1. CASE s \in {400, 422, 401, 403, 404, 409}
  BY <1>1 DEF MapError, Documented
<1>2. CASE s \in 500..599
  BY <1>2 DEF MapError, Documented
<1>3. CASE s \notin {400, 422, 401, 403, 404, 409} /\ s \notin 500..599
  BY <1>3 DEF MapError, Documented
<1>4. QED BY <1>1, <1>2, <1>3

LEMMA Inductive ==
  ASSUME IInv, [Next]_vars
  PROVE  IInv'
<1> USE DEF IInv, TypeOK, Stages, Outcome, BodyClosed, Unsent, Finish, Places,
            Results, Typed
<1>1. CASE Enter
  <2>1. call' = call /\ path' = path /\ UNCHANGED <<canceled, elapsed, sent, status, body>>
    BY <1>1 DEF Enter, path
  <2>2. headers' \subseteq {"key", "header", "token"}
    BY <1>1 DEF Enter, Heeded, Options, Calls
  <2>3. \/ pc' = "done" /\ result' = "argument"
        \/ pc' \in {"credentials", "send"} /\ result' = result
    BY <1>1 DEF Enter
  <2>4. QED BY <1>1, <2>1, <2>2, <2>3 DEF Enter
<1>2. CASE Authorize
  BY <1>2 DEF Authorize
<1>3. CASE Send
  BY <1>3 DEF Send
<1>4. ASSUME NEW s \in Statuses, Answer(s) PROVE IInv'
  BY <1>4 DEF Answer
<1>5. CASE GiveUp
  BY <1>5 DEF GiveUp
<1>6. CASE Break
  <2>1. /\ pc = "waiting" /\ pc' = "done" /\ result' = "transport"
        /\ UNCHANGED <<call, canceled, elapsed, headers, sent, status, body>>
    BY <1>6 DEF Break
  <2>2. QED BY <2>1
<1>7. ASSUME NEW broken \in BOOLEAN, Read(broken) PROVE IInv'
  <2>1. /\ call' = call /\ path' = path /\ status' = status /\ status \in Statuses
        /\ UNCHANGED <<canceled, elapsed, headers, sent>>
        /\ Succeeds(status)' = Succeeds(status) /\ MapError(status)' = MapError(status)
    BY <1>7 DEF Read, path, Succeeds, MapError
  <2>2. \/ pc' = "done" /\ result' = "transport" /\ body' = "closed"
        \/ pc' = "done" /\ result' = MapError(status) /\ body' = "closed"
        \/ pc' = "decode" /\ Succeeds(status) /\ UNCHANGED <<body, result>>
    BY <1>7 DEF Read
  <2>3. MapError(status) \in Typed
    BY Mapped
  <2>4. CASE pc' = "done" /\ result' = "transport" /\ body' = "closed"
    <3>1. TypeOK'
      BY <2>1, <2>4
    <3>2. (Stages /\ Outcome /\ BodyClosed)'
      BY <2>4
    <3>3. QED BY <3>1, <3>2
  <2>5. CASE pc' = "done" /\ result' = MapError(status) /\ body' = "closed"
    BY <2>1, <2>3, <2>5
  <2>6. CASE pc' = "decode" /\ Succeeds(status) /\ UNCHANGED <<body, result>>
    <3>1. pc = "answered" /\ result = "none"
      BY <1>7 DEF Read
    <3>2. TypeOK'
      BY <2>1, <2>6
    <3>3. (Stages /\ Outcome /\ BodyClosed)'
      BY <2>1, <2>6, <3>1
    <3>4. QED BY <3>2, <3>3
  <2>7. QED BY <2>2, <2>4, <2>5, <2>6
<1>8. ASSUME NEW well \in BOOLEAN, Decode(well) PROVE IInv'
  BY <1>8 DEF Decode, Succeeds, path
<1>9. CASE Cancel
  BY <1>9 DEF Cancel, Succeeds, MapError, path
<1>10. CASE Elapse
  BY <1>10 DEF Elapse, Succeeds, MapError, path
<1>11. CASE UNCHANGED vars
  <2>1. UNCHANGED <<call, pc, canceled, elapsed, headers, sent, status, body, result>>
    BY <1>11 DEF vars
  <2>2. TypeOK'
    BY <2>1
  <2>3. Succeeds(status)' = Succeeds(status) /\ MapError(status)' = MapError(status)
    BY <2>1 DEF Succeeds, MapError, path
  <2>4. (Stages /\ Outcome /\ BodyClosed)'
    BY <2>1, <2>3
  <2>5. QED BY <2>2, <2>4
<1>12. QED
  BY <1>1, <1>2, <1>3, <1>4, <1>5, <1>6, <1>7, <1>8, <1>9, <1>10, <1>11
     DEF Next, Program, Backend

LEMMA Invariance == Spec => []IInv
<1>1. Init => IInv
  <2> SUFFICES ASSUME Init PROVE IInv
    OBVIOUS
  <2>1. TypeOK
    <3>1. canceled \in BOOLEAN /\ elapsed \in BOOLEAN
      BY Zenon DEF Init
    <3>2. /\ call \in Calls /\ pc = "called" /\ headers = {} /\ sent = 0 /\ status = 0
          /\ body = "none" /\ result = "none"
      BY Zenon DEF Init
    <3>3. QED BY <3>1, <3>2 DEF TypeOK, Places, Results
  <2>2. Stages /\ Outcome /\ BodyClosed
    BY DEF Init, Stages, Outcome, BodyClosed, Unsent, Typed
  <2>3. QED BY <2>1, <2>2 DEF IInv
<1>2. QED BY <1>1, Inductive, PTL DEF Spec

(* The state of a call keeps its types: at most one request is sent. *)
THEOREM CallTypeCorrect == Spec => []TypeOK
BY Invariance, PTL DEF IInv

(* Whatever the backend answers, a value is returned only for an answer    *)
(* that accepts the request, a typed error names the status, and an error  *)
(* of the SDK itself means that nothing was sent.                          *)
THEOREM ResultsFit == Spec => []ResultFitsAnswer
<1>1. IInv => ResultFitsAnswer
  <2> SUFFICES ASSUME IInv PROVE ResultFitsAnswer
    OBVIOUS
  <2> USE DEF IInv, Outcome
  <2>1. path \in {"gen", "list", "login", "do"}
    BY FourWays DEF TypeOK
  <2>2. result = "value" => status \in 200..299 \/ (path = "do" /\ status \in 300..399)
    <3>1. SUFFICES ASSUME status \in Statuses, Succeeds(status)
                   PROVE  status \in 200..299 \/ (path = "do" /\ status \in 300..399)
      OBVIOUS
    <3>2. CASE path = "do"
      BY <3>1, <3>2 DEF Succeeds
    <3>3. CASE path = "gen"
      BY <3>1, <3>3 DEF Succeeds
    <3>4. CASE path \in {"list", "login"}
      <4>1. status = 200
        BY <3>1, <3>4 DEF Succeeds
      <4>2. QED BY <4>1
    <3>5. QED BY <2>1, <3>2, <3>3, <3>4
  <2>3. result \in Typed => result = Documented(status) \/ (path = "do" /\ status = 429)
    <3>1. CASE status # 429
      <4>1. result \in Typed => status \in 200..599
        BY StatusAssumption
      <4>2. QED BY <3>1, <4>1, AsDocumented
    <3>2. CASE status = 429
      BY <2>1, <3>2 DEF MapError, Documented
    <3>3. QED BY <3>1, <3>2
  <2>4. QED BY <2>2, <2>3 DEF ResultFitsAnswer, Unsent
<1>2. QED BY <1>1, Invariance, PTL

(* No way out of a call leaves the body of the answer open.                *)
THEOREM NoLeak == Spec => []BodyClosed
BY Invariance, PTL DEF IInv
=============================================================================
