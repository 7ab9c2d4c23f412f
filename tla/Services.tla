------------------------------ MODULE Services ------------------------------
(***************************************************************************)
(* One call of a resource service (services.go).  NewClient wires no       *)
(* transport.Transport: every method uses Client.httpClient, and there are *)
(* four hand-written ways to do so.                                        *)
(*   "gen"    Me and Resellers: genClient, handleResponse                  *)
(*   "list"   audit-log and connector pages: httpClient.Do,                *)
(*            mapStandardError                                             *)
(*   "login"  Auth.Login: httpClient.Do, mapLoginError                     *)
(*   "do"     Products.List and Users.PatchCompany: Client.do,             *)
(*            mapHTTPError                                                 *)
(* net/http is external: it sends nothing under a context that is done and *)
(* gives up the request or the body when its context becomes done.         *)
(***************************************************************************)
EXTENDS Integers

CONSTANT Statuses     \* the statuses that the backend answers with

ASSUME StatusAssumption == Statuses \subseteq 200..599

VARIABLES
  call,        \* the method, the options it is given, blank arguments
  pc,
  canceled,    \* the caller's context is done
  elapsed,     \* the duration given to WithRequestTimeout has passed
  headers,     \* what the headers of the request were set from
  sent,        \* requests sent
  status,      \* of the answer, 0 while there is none
  body,        \* "none", "open" or "closed"
  result       \* "none" while the call runs; "value" or the kind of the error

vars == <<call, pc, canceled, elapsed, headers, sent, status, body, result>>

(* WithIdempotencyKey, WithRequestTimeout and WithExtraHeader, which       *)
(* panics when the header is Authorization.                                *)
Options == {"key", "timeout", "header"}

(* A method: its way to send, the options it takes and those it heeds,     *)
(* whether it looks for blank identifiers, and whether it expects a body.  *)
Method(way, heeds) == [path |-> way, takes |-> Options, heeds |-> heeds,
                        checks |-> FALSE, bodiless |-> FALSE]
(* A page of a listing, which takes ListOptions only. *)
Page(way) == [Method(way, {}) EXCEPT !.takes = {}]

MeGet == Method("gen", {})
MeCreateAvatarUploadURL == Method("gen", {})
MeConfirmAvatar == Method("gen", {})
MeDeleteAvatar == [Method("gen", {}) EXCEPT !.bodiless = TRUE]
MeGetNotificationPreferences == Method("gen", {})
MePatchNotificationPreferences == Method("gen", {})
MeGetDailyRecapPreferences == Method("gen", {})
MePatchDailyRecapPreferences == Method("gen", {})
ResellersList == Page("gen")
ResellersGet == Method("gen", {})
ResellersCreate == Method("gen", {})
ResellersUpdate == Method("gen", {})
ResellersPatch == Method("gen", {})
ResellersDeactivate == Method("gen", {})
ResellersReactivate == Method("gen", {})
ResellersListAuditLogs == Page("gen")
AuthLogin == Method("login", {"timeout", "header"})
AuditLogsListForReseller == Page("list")
ConnectorsListByLocation == Page("list")
ConnectorsListByCompany == Page("list")
ProductsList == Method("do", Options)
UsersPatchCompany == [Method("do", Options) EXCEPT !.checks = TRUE]

Methods == {MeGet, MeCreateAvatarUploadURL, MeConfirmAvatar, MeDeleteAvatar,
  MeGetNotificationPreferences, MePatchNotificationPreferences,
  MeGetDailyRecapPreferences, MePatchDailyRecapPreferences, ResellersList,
  ResellersGet, ResellersCreate, ResellersUpdate, ResellersPatch,
  ResellersDeactivate, ResellersReactivate, ResellersListAuditLogs, AuthLogin,
  AuditLogsListForReseller, ConnectorsListByLocation, ConnectorsListByCompany,
  ProductsList, UsersPatchCompany}
Calls == {c \in [method : Methods, options : SUBSET Options, blank : BOOLEAN] :
            c.options \subseteq c.method.takes}

Places == {"called", "credentials", "send", "waiting", "answered", "decode", "done"}

(* AuthenticationError and so on by name; "argument" and "credentials" are *)
(* a ValidationError and an AuthenticationError of the SDK itself, with    *)
(* status 0; "transport" wraps the error of net/http.                      *)
Typed == {"validation", "authn", "authz", "notFound", "conflict", "rateLimit",
          "server", "unexpected"}
Results == Typed \cup {"none", "value", "argument", "credentials", "transport", "decode"}

Init == /\ call \in Calls
        /\ pc = "called"
        /\ canceled \in BOOLEAN /\ elapsed = FALSE
        /\ headers = {} /\ sent = 0 /\ status = 0
        /\ body = "none" /\ result = "none"

path == call.method.path
(* resolveCallOpts, in the methods that look at their options. *)
Heeded == call.options \cap call.method.heeds

(* Mutant: the derived context is never attached to the request. *)
CallerContextDone == canceled

(* context.WithTimeout where the method reads cfg.requestTimeout, and      *)
(* Request.WithContext.                                                    *)
ContextDone == canceled \/ ("timeout" \in Heeded /\ elapsed)

Finish(r) == pc' = "done" /\ result' = r

(* PatchCompany's checks and applyCallHeaders.  Client.do asks the         *)
(* provider first; the other paths send without credentials.               *)
Enter ==
  /\ pc = "called"
  /\ IF call.blank /\ call.method.checks
       THEN Finish("argument") /\ UNCHANGED headers
       ELSE /\ pc' = IF path = "do" THEN "credentials" ELSE "send"
            /\ headers' = Heeded \ {"timeout"}
            /\ UNCHANGED result
  /\ UNCHANGED <<call, canceled, elapsed, sent, status, body>>

(* credentialProvider.Token. *)
Authorize ==
  /\ pc = "credentials"
  /\ \/ /\ headers' = headers \cup {"token"}
        /\ pc' = "send"
        /\ UNCHANGED result
     \/ Finish("credentials") /\ UNCHANGED headers
  /\ UNCHANGED <<call, canceled, elapsed, sent, status, body>>

Send ==
  /\ pc = "send"
  /\ ~ContextDone
  /\ pc' = "waiting"
  /\ sent' = sent + 1
  /\ UNCHANGED <<call, canceled, elapsed, headers, status, body, result>>

Answer(s) ==
  /\ pc = "waiting"
  /\ pc' = "answered"
  /\ status' = s
  /\ body' = "open"
  /\ UNCHANGED <<call, canceled, elapsed, headers, sent, result>>

(* Before an answer, httpClient.Do returns an error. *)
GiveUp ==
  /\ pc \in {"send", "waiting"}
  /\ ContextDone
  /\ Finish("transport")
  /\ UNCHANGED <<call, canceled, elapsed, headers, sent, status, body>>

(* So it does when the connection fails or http.Client's Timeout passes. *)
Break ==
  /\ pc = "waiting"
  /\ Finish("transport")
  /\ UNCHANGED <<call, canceled, elapsed, headers, sent, status, body>>

(* Mutant: every status below 400 counts, as it does for Client.do. *)
Succeeds2xx3xx(s) == s < 400

Succeeds(s) == CASE path = "gen" -> s \in 200..299
                       [] path \in {"list", "login"} -> s = 200
                       [] path = "do" -> s \in 200..399

(* mapResponseError, mapStandardError, mapLoginError; mapHTTPError has no  *)
(* case for 429.                                                           *)
MapError(s) ==
  CASE s \in {400, 422} -> "validation"
    [] s = 401 -> "authn"
    [] s = 403 -> "authz"
    [] s = 404 -> "notFound"
    [] s = 409 -> "conflict"
    [] s = 429 /\ path # "do" -> "rateLimit"
    [] s >= 500 -> "server"
    [] OTHER -> "unexpected"

(* Mutant: an error returns before the deferred Close is set up. *)
ReadAndKeep(broken) ==
  /\ pc = "answered"
  /\ IF broken /\ path \in {"list", "login"}
       THEN Finish("transport") /\ UNCHANGED body
       ELSE IF ~Succeeds(status)
              THEN Finish(MapError(status)) /\ body' = "closed"
              ELSE pc' = "decode" /\ UNCHANGED <<body, result>>
  /\ UNCHANGED <<call, canceled, elapsed, headers, sent, status>>

(* The body is read: by "list" and "login" before the status is looked at; *)
(* by "gen" and "do" for its details when the status is an error, and then *)
(* an error of reading is dropped.                                         *)
Read(broken) ==
  /\ pc = "answered"
  /\ IF broken /\ path \in {"list", "login"}
       THEN Finish("transport") /\ body' = "closed"
       ELSE IF ~Succeeds(status)
              THEN Finish(MapError(status)) /\ body' = "closed"
              ELSE pc' = "decode" /\ UNCHANGED <<body, result>>
  /\ UNCHANGED <<call, canceled, elapsed, headers, sent, status>>

(* Nobody reads the body of a deletion.  "list" and "login" have it in     *)
(* memory; the others decode it as it arrives.                             *)
Decode(well) ==
  /\ pc = "decode"
  /\ call.method.bodiless => well
  /\ Finish(IF well THEN "value" ELSE "decode")
  /\ body' = "closed"
  /\ UNCHANGED <<call, canceled, elapsed, headers, sent, status>>

Cancel ==
  /\ ~canceled
  /\ pc # "done"
  /\ canceled' = TRUE
  /\ UNCHANGED <<call, pc, elapsed, headers, sent, status, body, result>>

Elapse ==
  /\ "timeout" \in call.options /\ ~elapsed
  /\ pc # "done"
  /\ elapsed' = TRUE
  /\ UNCHANGED <<call, pc, canceled, headers, sent, status, body, result>>

(* What the program does with no help of the backend: reading ends at the  *)
(* latest when net/http gives it up.                                       *)
Program == \/ Enter
           \/ Authorize
           \/ Send
           \/ GiveUp
Backend == \/ \E s \in Statuses : Answer(s)
           \/ \E ok \in BOOLEAN : Read(~ok) \/ Decode(ok)
           \/ Break
Next == Program \/ Backend \/ Cancel \/ Elapse

Spec == Init /\ [][Next]_vars

(* The goroutine runs, the provider answers (it is handed the context too) *)
(* and net/http gives up what a done context covers.  Nothing makes the    *)
(* backend answer, or send the rest of a body.                             *)
FairSpec == Spec /\ WF_vars(Program)
                 /\ WF_vars(ContextDone /\ \E ok \in BOOLEAN : Read(~ok) \/ Decode(ok))

-----------------------------------------------------------------------------
TypeOK ==
  /\ call \in Calls /\ pc \in Places
  /\ canceled \in BOOLEAN /\ elapsed \in BOOLEAN
  /\ headers \subseteq {"key", "header", "token"}
  /\ sent \in 0..1 /\ status \in Statuses \cup {0}
  /\ body \in {"none", "open", "closed"} /\ result \in Results

(* A call returns a value only when the backend accepted it, and a typed   *)
(* error names what the backend answered: the four mappings agree, but for *)
(* 429 (handleResponse, do, mapResponseError, mapStandardError,            *)
(* mapLoginError, mapHTTPError).                                           *)
Documented(s) ==
  CASE s \in {400, 422} -> "validation" [] s = 401 -> "authn" [] s = 403 -> "authz"
    [] s = 404 -> "notFound" [] s = 409 -> "conflict" [] s = 429 -> "rateLimit"
    [] s \in 500..599 -> "server" [] OTHER -> "unexpected"
ResultFitsAnswer ==
  /\ result = "value" => status \in 200..299 \/ (path = "do" /\ status \in 300..399)
  /\ result \in Typed => result = Documented(status) \/ (path = "do" /\ status = 429)
  /\ result \in {"argument", "credentials"} => sent = 0

(* No connection is leaked: whichever way the call returns, it has closed  *)
(* the body that it was handed.                                            *)
BodyClosed == pc = "done" => body # "open"

(* Liveness: cancelling the caller's context ends the call at any stage,   *)
(* and so does the timeout of Login and of the calls through Client.do,    *)
(* even if the backend never says another word.                            *)
ContextEndsCall ==
  canceled \/ ("timeout" \in call.options \cap call.method.heeds /\ elapsed) ~> pc = "done"
=============================================================================
