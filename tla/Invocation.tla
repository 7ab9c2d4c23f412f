----------------------------- MODULE Invocation -----------------------------
(***************************************************************************)
(* One run of icctl (cmd/icctl/main.go and cmd): the settings are          *)
(* resolved, the subcommand runs, its error becomes an exit code.          *)
(*                                                                         *)
(* A subcommand is the sequence of its steps, in the order of its run      *)
(* function.  Each step can fail, and then the command returns:            *)
(*   flags    a required flag              file     --from-file, as JSON   *)
(*   client   tui.BuildClient              timed    ctx gets --timeout     *)
(*   read     a request that reads         write    a request that writes  *)
(*   pages    a loop over an iterator      preview  what will be destroyed *)
(*   confirm  confirm.Prompt               print    the result, on stdout  *)
(*   say      a line on stdout, whether or not it can be written           *)
(* Commands of the same steps are one and the same here.                   *)
(*                                                                         *)
(* Ctrl-C cancels the context and nothing else: signal.NotifyContext takes *)
(* the signal.  net/http is external: it sends nothing under a context     *)
(* that is done, and gives up a request in flight when it becomes done.    *)
(* A write to the output can fail (a full disk); a broken pipe, which      *)
(* kills the process, is left out.                                         *)
(***************************************************************************)
EXTENDS Integers, Sequences

CONSTANT MaxPages      \* bound: pages of a listing

ASSUME PagesAssumption == MaxPages \in Nat \ {0}

ResellersList == <<"client", "pages", "print">>
ResellersGet == <<"client", "read", "print">>
ResellersCreate == <<"flags", "file", "client", "write", "print">>
ResellersUpdate == <<"flags", "file", "client", "write", "print">>
ResellersPatch == <<"flags", "file", "client", "write", "print">>
(* Mutant: the deactivation goes ahead of the prompt. *)
DeactivateUnasked ==
  <<"flags", "client", "read", "preview", "write", "confirm", "print">>
(* Mutant: the reason is looked at when the reseller has been fetched. *)
DeactivateFlagsLate ==
  <<"client", "read", "flags", "preview", "confirm", "write", "print">>
ResellersDeactivate ==
  <<"flags", "client", "read", "preview", "confirm", "write", "print">>
ResellersReactivate == <<"client", "write", "print">>
ResellersAuditLogs == <<"client", "pages", "print">>
MeGet == <<"client", "read", "print">>
MeNotificationPrefsGet == <<"client", "read", "print">>
MeNotificationPrefsUpdate == <<"flags", "file", "client", "write", "print">>
MeDailyRecapPrefsGet == <<"client", "read", "print">>
MeDailyRecapPrefsUpdate == <<"flags", "file", "client", "write", "print">>
MeAvatarUploadURL == <<"flags", "client", "write", "print">>
MeAvatarConfirm == <<"flags", "client", "write", "print">>
MeAvatarDelete == <<"preview", "confirm", "client", "write", "say">>
ProductsList == <<"client", "timed", "read", "print">>
ConnectorsListByLocation == <<"client", "timed", "pages", "print">>
ConnectorsListByCompany == <<"client", "timed", "pages", "print">>
AuditLogsList == <<"flags", "client", "timed", "pages", "print">>
UsersPatchCompany == <<"flags", "file", "client", "timed", "write", "print">>

Destructive == {ResellersDeactivate, MeAvatarDelete}
Commands == Destructive \cup
  {ResellersList, ResellersGet, ResellersCreate, ResellersUpdate, ResellersPatch,
   ResellersReactivate, ResellersAuditLogs, MeGet, MeNotificationPrefsGet,
   MeNotificationPrefsUpdate, MeDailyRecapPrefsGet, MeDailyRecapPrefsUpdate,
   MeAvatarUploadURL, MeAvatarConfirm, ProductsList, ConnectorsListByLocation,
   ConnectorsListByCompany, AuditLogsList, UsersPatchCompany}

VARIABLES
  in,          \* the command, the flags of the confirmation, the terminal
  pc,
  at,          \* the step of the command
  err,         \* what went wrong, "none" so far
  exit,        \* the exit code, -1 while running
  interrupted, \* Ctrl-C was pressed
  inTime,      \* history: it was pressed before a writing request was sent
  expired,     \* the time of --timeout has passed
  previewed,   \* the preview: no, shown, lost (written where nobody sees it)
  answer,      \* what the user typed at the prompt
  sent,        \* history: the kinds of requests that were sent
  got,         \* pages of the listing received
  ended,       \* why the loop over the pages ended without an error, or "no"
  limbo,       \* a writing request is out that the backend may still act on
  redirected,  \* history: the backend redirected it, and will not act on it
  performed,   \* the backend acted on it
  printed      \* the result on standard output: no, shown, lost

user == <<previewed, answer>>
signals == <<interrupted, inTime, expired>>
backend == <<sent, got, ended, limbo, redirected, performed>>
vars == <<in, pc, at, err, exit, signals, user, backend, printed>>

(* The values of --yes: not given, --yes, --yes=false.  Of                 *)
(* ICCTL_ASSUME_YES: unset or empty, one of 1, true and yes, another.      *)
Inputs == [command : Commands,
           yesFlag : {"unset", "true", "false"},
           yesEnv : {"unset", "true", "other"},
           json : BOOLEAN,
           terminal : BOOLEAN,
           forceTTY : BOOLEAN]

Places == {"start", "step", "sent", "asking", "return", "exited"}

(* What the backend says, apart from 2xx, and what else can go wrong. *)
Refusals == {"authn", "authz", "rate", "server", "other"}
Mistakes == {"usage", "settings", "file", "config", "argument"}
Errors == Refusals \cup Mistakes \cup
  {"none", "refused", "denied", "canceled", "deadline", "net", "decode", "output"}

Init == /\ in \in Inputs
        /\ pc = "start" /\ at = 1 /\ err = "none" /\ exit = -1
        /\ interrupted = FALSE /\ inTime = FALSE /\ expired = FALSE
        /\ previewed = "no" /\ answer = "none"
        /\ sent = {} /\ got = 0 /\ ended = "no"
        /\ limbo = FALSE /\ redirected = FALSE /\ performed = FALSE
        /\ printed = "no"

Step == in.command[at]
On(step) == pc = "step" /\ Step = step

Fail(e) == pc' = "return" /\ err' = e /\ UNCHANGED at
(* The step is over; after the last one the command returns nil. *)
Proceed ==
  /\ UNCHANGED err
  /\ IF at < Len(in.command) THEN pc' = "step" /\ at' = at + 1
                             ELSE pc' = "return" /\ UNCHANGED at

(* cobra checks the arguments; then resolveState: an explicit profile that *)
(* is not there, or a bad timeout, output format or log level.             *)
Resolve ==
  /\ pc = "start"
  /\ \/ pc' = "step" /\ UNCHANGED <<at, err>>
     \/ Fail("usage")
     \/ Fail("settings")
  /\ UNCHANGED <<in, exit, signals, user, backend, printed>>

(* A local step that may fail with e. *)
Local(step, e) ==
  /\ On(step)
  /\ Proceed \/ Fail(e)
  /\ UNCHANGED <<in, exit, signals, user, backend, printed>>

CheckFlags == Local("flags", "usage")
ReadFile == Local("file", "file")
BuildClient == Local("client", "config")

(* ctx = context.WithTimeout(ctx, state.Timeout). *)
Timed == /\ On("timed")
         /\ Proceed
         /\ UNCHANGED <<in, exit, signals, user, backend, printed>>

UnderTimeout == \E i \in 1..(at - 1) : in.command[i] = "timed"
ContextDone == interrupted \/ (UnderTimeout /\ expired)
ContextError == IF interrupted THEN "canceled" ELSE "deadline"

Requests == {"read", "write", "pages"}

(* Mutant: the request goes out under a context of its own. *)
SendDetached ==
  /\ pc = "step" /\ Step \in Requests
  /\ pc' = "sent" /\ sent' = sent \cup {Step} /\ limbo' = (Step = "write")
  /\ UNCHANGED <<in, at, err, exit, signals, user, got, ended, redirected, performed, printed>>

Send ==
  /\ pc = "step" /\ Step \in Requests
  /\ ~ContextDone
  /\ pc' = "sent" /\ sent' = sent \cup {Step} /\ limbo' = (Step = "write")
  /\ UNCHANGED <<in, at, err, exit, signals, user, got, ended, redirected, performed, printed>>

SendRefused ==
  /\ pc = "step" /\ Step \in Requests
  /\ ContextDone
  /\ Fail(ContextError)
  /\ UNCHANGED <<in, exit, signals, user, backend, printed>>

(* PatchCompany looks at its identifiers before it sends. *)
ArgumentRefused ==
  /\ On("write") /\ in.command = UsersPatchCompany
  /\ Fail("argument")
  /\ UNCHANGED <<in, exit, signals, user, backend, printed>>

(* The backend acts on the request, whether or not its answer arrives and  *)
(* whether or not anybody still waits for it.                              *)
Perform ==
  /\ limbo
  /\ performed' = TRUE
  /\ limbo' = FALSE
  /\ UNCHANGED <<in, pc, at, err, exit, signals, user, sent, got, ended, redirected, printed>>

(* Instead of acting on the request, the backend redirects it.  What comes *)
(* back is taken for its answer: that of the GET by which http.Client      *)
(* follows, or, where there is nothing to follow, the 3xx itself, which is *)
(* an error but for Client.do.                                             *)
Redirect ==
  /\ pc = "sent" /\ limbo
  /\ redirected' = TRUE
  /\ limbo' = FALSE
  /\ UNCHANGED <<in, pc, at, err, exit, signals, user, sent, got, ended, performed, printed>>

(* Mutant: the status of the answer is not looked at. *)
SucceedsEarly ==
  /\ pc = "sent" /\ Step \in {"read", "write"}
  /\ Proceed
  /\ UNCHANGED <<in, exit, signals, user, backend, printed>>

(* handleResponse and decodeResponse on 2xx, Client.do below 400. *)
Succeeds ==
  /\ pc = "sent" /\ Step \in {"read", "write"}
  /\ Step = "write" => performed \/ redirected
  /\ Proceed
  /\ UNCHANGED <<in, exit, signals, user, backend, printed>>

(* A page arrives.  Next goes on when it names another one ("more"), but   *)
(* not when it brings enough for --max-items ("capped") or has no items    *)
(* ("empty"), whatever it names; Err is nil either way.                    *)
PageArrives(how) ==
  /\ pc = "sent" /\ Step = "pages"
  /\ got < MaxPages
  /\ got' = got + 1
  /\ \/ how = "more" /\ got' < MaxPages /\ pc' = "step" /\ UNCHANGED <<ended, at, err>>
     \/ how \in {"whole", "capped", "empty"} /\ ended' = how /\ Proceed
  /\ UNCHANGED <<in, exit, signals, user, sent, limbo, redirected, performed, printed>>

(* Mutant: the loop over Next ends and nobody asks for Err. *)
LoopEndsUnasked(e) ==
  /\ pc = "sent"
  /\ e \in Refusals
  /\ Step = "write" /\ performed => e = "server"
  /\ IF Step = "pages" THEN Proceed ELSE Fail(e)
  /\ limbo' = (limbo /\ e = "server")
  /\ UNCHANGED <<in, exit, signals, user, sent, got, ended, redirected, performed, printed>>

(* mapHTTPError and its like: a typed error.  A gateway may answer 5xx for *)
(* a backend that has acted, or is going to.                               *)
Refuses(e) ==
  /\ pc = "sent"
  /\ e \in Refusals
  /\ Step = "write" /\ performed => e = "server"
  /\ Fail(e)
  /\ limbo' = (limbo /\ e = "server")
  /\ UNCHANGED <<in, exit, signals, user, sent, got, ended, redirected, performed, printed>>

(* No usable answer: the context is done, http.Client's Timeout passes,    *)
(* the connection breaks, the body does not decode (nobody reads the one   *)
(* that answers a deletion).                                               *)
Lost(e) ==
  /\ pc = "sent"
  /\ \/ ContextDone /\ e = ContextError
     \/ e \in {"deadline", "net"}
     \/ e = "decode" /\ in.command # MeAvatarDelete /\ (Step = "write" => performed \/ redirected)
  /\ Fail(e)
  /\ UNCHANGED <<in, exit, signals, user, backend, printed>>

(* Mutant: a preview that cannot be written is no reason to stop. *)
PreviewUnchecked ==
  /\ On("preview")
  /\ Proceed
  /\ previewed' \in {"shown", "lost"}
  /\ UNCHANGED <<in, exit, signals, answer, backend, printed>>

(* RenderJSONPreview reports that it cannot write, RenderTablePreview not. *)
Preview ==
  /\ On("preview")
  /\ \/ Proceed /\ previewed' = "shown"
     \/ in.json /\ Fail("output") /\ UNCHANGED previewed
     \/ ~in.json /\ Proceed /\ previewed' = "lost"
  /\ UNCHANGED <<in, exit, signals, answer, backend, printed>>

(* Mutant: the environment counts even when --yes=false is given. *)
YesFromAnywhere == in.yesFlag = "true" \/ in.yesEnv = "true"

(* resolveYes. *)
AssumeYes == IF in.yesFlag # "unset" THEN in.yesFlag = "true" ELSE in.yesEnv = "true"

(* Mutant: a refusal shows the preview again. *)
PromptAgain ==
  /\ On("confirm")
  /\ \/ AssumeYes /\ Proceed
     \/ ~AssumeYes /\ ~in.forceTTY /\ at' = at - 1 /\ UNCHANGED <<pc, err>>
     \/ ~AssumeYes /\ in.forceTTY /\ pc' = "asking" /\ UNCHANGED <<at, err>>
  /\ UNCHANGED <<in, exit, signals, user, backend, printed>>

(* confirm.Prompt; its IsTTY is the hidden flag --force-tty. *)
Prompt ==
  /\ On("confirm")
  /\ \/ AssumeYes /\ Proceed
     \/ ~AssumeYes /\ ~in.forceTTY /\ Fail("refused")
     \/ ~AssumeYes /\ in.forceTTY /\ pc' = "asking" /\ UNCHANGED <<at, err>>
  /\ UNCHANGED <<in, exit, signals, user, backend, printed>>

(* The user types a line, or ends the input: anything but yes is a no. *)
Type(a) ==
  /\ pc = "asking"
  /\ answer' = a
  /\ IF a = "yes" THEN Proceed ELSE Fail("denied")
  /\ UNCHANGED <<in, exit, signals, previewed, backend, printed>>

(* writeJSON reports that it cannot write, WriteTable does not. *)
Render ==
  /\ On("print")
  /\ \/ Proceed /\ printed' = "shown"
     \/ in.json /\ Fail("output") /\ UNCHANGED printed
     \/ ~in.json /\ Proceed /\ printed' = "lost"
  /\ UNCHANGED <<in, exit, signals, user, backend>>

(* fmt.Fprintln of "Avatar deleted.", in either format. *)
Say ==
  /\ On("say")
  /\ Proceed
  /\ printed' \in {"shown", "lost"}
  /\ UNCHANGED <<in, exit, signals, user, backend>>

(* main.run and MapErrorToExitCode. *)
ExitCode == CASE err = "none" -> 0
              [] err # "none" /\ (interrupted \/ err = "canceled") -> 130
              [] err = "deadline" /\ ~interrupted -> 124
              [] OTHER -> 1

Return ==
  /\ pc = "return"
  /\ pc' = "exited"
  /\ exit' = ExitCode
  /\ UNCHANGED <<in, at, err, signals, user, backend, printed>>

Interrupt ==
  /\ pc # "exited"
  /\ ~interrupted
  /\ interrupted' = TRUE
  /\ inTime' = ("write" \notin sent)
  /\ UNCHANGED <<in, pc, at, err, exit, expired, user, backend, printed>>

(* The time of --timeout is up, counted from the derived context or, where *)
(* the command derives none, from its first request.                       *)
Expire ==
  /\ pc \in {"step", "sent", "asking"}
  /\ UnderTimeout \/ sent # {}
  /\ ~expired
  /\ expired' = TRUE
  /\ UNCHANGED <<in, pc, at, err, exit, interrupted, inTime, user, backend, printed>>

Runs == \/ Resolve
        \/ CheckFlags
        \/ ReadFile
        \/ BuildClient
        \/ Timed
        \/ Send
        \/ SendRefused
        \/ ArgumentRefused
        \/ Preview
        \/ Prompt
        \/ Render
        \/ Say
        \/ Return
Answered == \/ Succeeds
            \/ \E how \in {"more", "whole", "capped", "empty"} : PageArrives(how)
            \/ \E e \in Errors : Refuses(e) \/ Lost(e)
Next == \/ Runs
        \/ Answered
        \/ Perform
        \/ Redirect
        \/ \E a \in {"yes", "no"} : Type(a)
        \/ Interrupt
        \/ Expire

Spec == Init /\ [][Next]_vars

(* The process runs, and http.Client gives up after 30s at the latest.     *)
(* Nothing makes the user type, or the backend act.                        *)
FairSpec == Spec /\ WF_vars(Runs) /\ WF_vars(Answered)

-----------------------------------------------------------------------------
TypeOK ==
  /\ in \in Inputs /\ pc \in Places /\ at \in 1..Len(in.command)
  /\ err \in Errors /\ exit \in {-1, 0, 1, 124, 130}
  /\ interrupted \in BOOLEAN /\ inTime \in BOOLEAN /\ expired \in BOOLEAN
  /\ previewed \in {"no", "shown", "lost"} /\ answer \in {"none", "yes", "no"}
  /\ sent \subseteq Requests /\ got \in 0..MaxPages
  /\ ended \in {"no", "whole", "capped", "empty"}
  /\ limbo \in BOOLEAN /\ redirected \in BOOLEAN /\ performed \in BOOLEAN
  /\ printed \in {"no", "shown", "lost"}

(* Nothing is deactivated or deleted unless it was previewed, with -o json *)
(* for certain, and agreed to: by --yes, by ICCTL_ASSUME_YES unless        *)
(* --yes=false overrules it, or at the prompt (resolveYes, confirm.Prompt, *)
(* runResellersDeactivate, runMeAvatarDelete).                             *)
Agreed == \/ in.yesFlag = "true"
          \/ in.yesFlag = "unset" /\ in.yesEnv = "true"
          \/ in.forceTTY /\ answer = "yes"
ConsentBeforeHarm ==
  performed /\ in.command \in Destructive =>
    /\ previewed = "shown" \/ (previewed = "lost" /\ ~in.json)
    /\ Agreed

(* Ctrl-C pressed before the writing request is under way is in time:      *)
(* nothing is done, even if the user then answers yes                      *)
(* (signal.NotifyContext in main.run, the ctx handed to each method).      *)
InterruptInTime == inTime => ~performed

(* Scripts can believe the exit code: 0 means that it was done, unless the *)
(* backend redirected it, and, with -o json, shown; otherwise it was not,  *)
(* unless the answer or the output was lost on the way.  It stays so when  *)
(* the backend acts later (handleResponse, Client.do, the run functions,   *)
(* MapErrorToExitCode).                                                    *)
ExitTruthful ==
  pc = "exited" =>
    /\ exit = 0 => /\ (\E i \in DOMAIN in.command : in.command[i] = "write")
                      => performed \/ redirected
                   /\ in.json /\ in.command # MeAvatarDelete => printed = "shown"
    /\ exit # 0 /\ performed =>
         err \in {"server", "canceled", "deadline", "net", "decode", "output"}

(* What is printed is the answer of a run that succeeds, never a listing   *)
(* that a failure broke off or the result of something not done, but for a *)
(* redirect.  The listing is whole, or as long as --max-items wants it, or *)
(* it ends where a page has no items though it names another one, which is *)
(* the end for the iterator (the run functions, which print after          *)
(* iter.Err; Iterator.Next).                                               *)
PrintsWholeOrNothing ==
  printed # "no" =>
    /\ err = "none"
    /\ (\E i \in DOMAIN in.command : in.command[i] = "pages")
         => ended \in {"whole", "capped", "empty"}
    /\ (\E i \in DOMAIN in.command : in.command[i] = "write") => performed \/ redirected

(* A mistake on the command line, in a file or in the settings that icctl  *)
(* reports at all is reported before anything is sent (the order of steps  *)
(* in each run function; PatchCompany).  A malformed --filter is none: it  *)
(* is dropped silently.                                                    *)
MistakesCostNothing == err \in Mistakes => sent = {}

(* Within a step of the command. *)
Stage == [start |-> 0, step |-> 1, sent |-> 2, asking |-> 2, return |-> 3, exited |-> 4]

(* No run goes back to what it has done: every step is nearer to its end,  *)
(* and only the pages of a listing make it stay at a place of the command. *)
(* A refused prompt asks once, a failed request is not sent again, and     *)
(* neither Ctrl-C nor the timeout makes a run repeat anything (the run     *)
(* functions, confirm.Prompt, the loops over Next).                        *)
RunsForward ==
  [][\/ at < at'
     \/ at = at' /\ got < got'
     \/ UNCHANGED <<at, got>> /\ Stage[pc] < Stage[pc']]_<<pc, at, got>>

(* Liveness: the run ends by itself unless it waits for the user's answer  *)
(* (only the loop over pages repeats; http.Client's Timeout ends every     *)
(* request).                                                               *)
EndsUnlessAsking == pc # "exited" ~> pc \in {"exited", "asking"}
=============================================================================
