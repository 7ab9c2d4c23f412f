-------------------------- MODULE InvocationProofs --------------------------
(***************************************************************************)
(* Theorems about every run of icctl: any command, any settings, listings  *)
(* of any length.                                                          *)
(***************************************************************************)
EXTENDS Invocation, TLAPS

-----------------------------------------------------------------------------
(* What the order of steps of every command has in common. *)
Shown == {"print", "say"}
WellOrdered(s) ==
  /\ Len(s) \in Nat \ {0}
  /\ s[Len(s)] = "print" \/ s = MeAvatarDelete
  /\ \A i \in 1..Len(s) : s[i] \in Shown => i = Len(s)
  /\ \A i, j \in 1..Len(s) : i < j =>
       /\ s[i] = "write" => s[j] \in Shown
       /\ s[i] \in Requests => s[j] \notin {"flags", "file", "client"}
       /\ s[i] = "confirm" => s[j] # "confirm"

Consents(s) ==
  \A i \in 1..Len(s) : s[i] = "write" =>
    \E j, k \in 1..(i - 1) : s[j] = "preview" /\ s[k] = "confirm"

LEMMA CommandsWellOrdered == \A s \in Commands : WellOrdered(s)
<1> USE DEF WellOrdered, Shown, Requests
<1>1. WellOrdered(ResellersList) /\ WellOrdered(ResellersAuditLogs)
  BY DEF ResellersList, ResellersAuditLogs
<1>2. WellOrdered(ResellersGet) /\ WellOrdered(MeGet) /\ WellOrdered(MeNotificationPrefsGet)
      /\ WellOrdered(MeDailyRecapPrefsGet)
  BY DEF ResellersGet, MeGet, MeNotificationPrefsGet, MeDailyRecapPrefsGet
<1>3. WellOrdered(ResellersDeactivate)
  BY DEF ResellersDeactivate
<1>4. WellOrdered(MeAvatarDelete)
  BY DEF MeAvatarDelete
<1>5. WellOrdered(ResellersCreate) /\ WellOrdered(ResellersUpdate) /\ WellOrdered(ResellersPatch)
  BY DEF ResellersCreate, ResellersUpdate, ResellersPatch
<1>6. WellOrdered(MeNotificationPrefsUpdate) /\ WellOrdered(MeDailyRecapPrefsUpdate)
  BY DEF MeNotificationPrefsUpdate, MeDailyRecapPrefsUpdate
<1>7. WellOrdered(ResellersReactivate)
  BY DEF ResellersReactivate
<1>8. WellOrdered(MeAvatarUploadURL) /\ WellOrdered(MeAvatarConfirm)
  BY DEF MeAvatarUploadURL, MeAvatarConfirm
<1>9. WellOrdered(ProductsList)
  BY DEF ProductsList
<1>10. WellOrdered(ConnectorsListByLocation) /\ WellOrdered(ConnectorsListByCompany)
  BY DEF ConnectorsListByLocation, ConnectorsListByCompany
<1>11. WellOrdered(AuditLogsList)
  BY DEF AuditLogsList
<1>12. WellOrdered(UsersPatchCompany)
  BY DEF UsersPatchCompany
<1> HIDE DEF WellOrdered
<1>13. QED
  BY <1>1, <1>2, <1>3, <1>4, <1>5, <1>6, <1>7, <1>8, <1>9, <1>10, <1>11, <1>12
     DEF Commands, Destructive

LEMMA StepsNumbered == \A s \in Commands : DOMAIN s = 1..Len(s)
BY DEF Commands, Destructive, ResellersList, ResellersGet,
   ResellersCreate, ResellersUpdate, ResellersPatch, ResellersDeactivate, ResellersReactivate,
   ResellersAuditLogs, MeGet, MeNotificationPrefsGet, MeNotificationPrefsUpdate,
   MeDailyRecapPrefsGet, MeDailyRecapPrefsUpdate, MeAvatarUploadURL, MeAvatarConfirm,
   MeAvatarDelete, ProductsList, ConnectorsListByLocation, ConnectorsListByCompany,
   AuditLogsList, UsersPatchCompany

LEMMA DestructiveConsents == \A s \in Destructive : Consents(s)
<1>1. Consents(ResellersDeactivate)
  BY DEF Consents, ResellersDeactivate
<1>2. Consents(MeAvatarDelete)
  BY DEF Consents, MeAvatarDelete
<1>3. QED BY <1>1, <1>2 DEF Destructive

-----------------------------------------------------------------------------
(* The inductive invariant.  Placed: what the place in the run says about  *)
(* the rest.  SentBefore: a request belongs to a step already reached.     *)
(* Kept: each step that is over has done its part.  Consented: ... and so  *)
(* the two parts of a consent precede a writing request.  Excused: with a  *)
(* writing request out, only a loss on the way or the backend's own error  *)
(* can end the run unhappily.                                              *)
Running == {"start", "step", "sent", "asking"}
Over == {"return", "exited"}

Placed ==
  /\ pc = "start" => at = 1 /\ sent = {}
  /\ pc \in Running => err = "none" /\ printed = "no"
  /\ pc = "sent" => Step \in Requests
  /\ pc = "step" /\ Step = "write" => "write" \notin sent
  /\ pc = "asking" => Step = "confirm" /\ in.forceTTY
  /\ pc \in Over /\ err = "none" => at = Len(in.command)
  /\ pc = "exited" => (exit = 0 <=> err = "none")
  /\ printed # "no" => err = "none"

SentBefore == \A k \in sent : \E i \in 1..at : in.command[i] = k

PreviewGiven == previewed = "shown" \/ (previewed = "lost" /\ ~in.json)
DidItsPart(i) ==
  /\ in.command[i] = "preview" => PreviewGiven
  /\ in.command[i] = "confirm" => Agreed
  /\ in.command[i] = "write" => performed \/ redirected
  /\ in.command[i] = "pages" => ended # "no"
  /\ in.command[i] = "print" => printed # "no" /\ (in.json => printed = "shown")
Past(i) == i < at \/ (err = "none" /\ pc \in Over)
Kept == \A i \in 1..Len(in.command) : Past(i) => DidItsPart(i)

Consented ==
  /\ limbo \/ performed => "write" \in sent
  /\ "write" \in sent /\ in.command \in Destructive => PreviewGiven /\ Agreed
  /\ inTime => interrupted /\ "write" \notin sent

Excused ==
  limbo \/ performed =>
    err \in {"none", "server", "canceled", "deadline", "net", "decode", "output"}

IInv == Placed /\ SentBefore /\ Kept /\ Consented /\ Excused /\ MistakesCostNothing

(* The request of PatchCompany is the only one of its command. *)
LEMMA WriteIsAlone ==
  ASSUME SentBefore, at \in 1..Len(in.command), in.command = UsersPatchCompany
  PROVE  \A k \in sent : k \in Requests => k = "write"
BY DEF SentBefore, UsersPatchCompany, Requests

(* What an action may use of the run it is in. *)
LEMMA StepFacts ==
  ASSUME TypeOK, IInv
  PROVE  /\ in.command \in Commands /\ WellOrdered(in.command)
         /\ Len(in.command) \in Nat \ {0} /\ at \in 1..Len(in.command)
         /\ (Step \notin Shown /\ Step # "write" /\ Step \notin Requests) => "write" \notin sent
         /\ Step \in {"read", "pages"} => "write" \notin sent
         /\ Step \in {"flags", "file", "client"} => sent = {}
         /\ Step \in Shown => at = Len(in.command)
         /\ Step = "write" /\ in.command \in Destructive /\ Kept => PreviewGiven /\ Agreed
<1>1. in.command \in Commands
  BY DEF TypeOK, Inputs
<1>2. WellOrdered(in.command)
  BY <1>1, CommandsWellOrdered
<1>3. Len(in.command) \in Nat \ {0} /\ at \in 1..Len(in.command)
  BY <1>2 DEF WellOrdered, TypeOK
<1>4. \A k \in sent : \E i \in 1..at : in.command[i] = k /\ k \in Requests
  BY DEF IInv, SentBefore, TypeOK
<1>5. "write" \in sent /\ Step # "write" => Step \in Shown
  BY <1>2, <1>3, <1>4 DEF WellOrdered, Step
<1>6. Step \in {"flags", "file", "client"} => sent = {}
  <2>1. SUFFICES ASSUME Step \in {"flags", "file", "client"}, NEW k \in sent PROVE FALSE
    OBVIOUS
  <2>2. PICK i \in 1..at : in.command[i] = k /\ k \in Requests
    BY <1>4
  <2>3. i # at
    BY <2>1, <2>2 DEF Step, Requests
  <2>4. QED BY <1>2, <1>3, <2>1, <2>2, <2>3 DEF WellOrdered, Step
<1>7. Step \in Shown => at = Len(in.command)
  BY <1>2, <1>3 DEF WellOrdered, Step
<1>8. Step = "write" /\ in.command \in Destructive /\ Kept => PreviewGiven /\ Agreed
  <2>1. SUFFICES ASSUME Step = "write", in.command \in Destructive, Kept PROVE PreviewGiven /\ Agreed
    OBVIOUS
  <2>2. PICK j, k \in 1..(at - 1) : in.command[j] = "preview" /\ in.command[k] = "confirm"
    BY <1>3, <2>1, DestructiveConsents DEF Consents, Step
  <2>3. Past(j) /\ Past(k) /\ j \in 1..Len(in.command) /\ k \in 1..Len(in.command)
    BY <1>3, <2>2 DEF Past
  <2>4. QED BY <2>1, <2>2, <2>3 DEF Kept, DidItsPart
<1>9. QED BY <1>1, <1>2, <1>3, <1>5, <1>6, <1>7, <1>8 DEF Shown

(* A step that is over, and what it leaves undisturbed.                    *)
LEMMA ProceedKeeps ==
  ASSUME TypeOK, IInv, Proceed, in' = in, pc \in {"step", "sent", "asking"},
         \A i \in 1..Len(in.command) : i < at /\ DidItsPart(i) => DidItsPart(i)',
         NEW n, n = at, DidItsPart(n)'
  PROVE  /\ Kept' /\ at' \in 1..Len(in.command)' /\ err' = "none"
         /\ at' >= at
         /\ pc' = "step" \/ (pc' = "return" /\ at' = Len(in.command)')
<1>1. Len(in.command) \in Nat \ {0} /\ at \in 1..Len(in.command)
  BY StepFacts
<1>2. err = "none" /\ err' = "none"
  BY DEF IInv, Placed, Running, Proceed
<1>3. \A i \in 1..Len(in.command) : i <= at => DidItsPart(i)'
  BY <1>1 DEF IInv, Kept, Past
<1>4. CASE at < Len(in.command)
  <2>1. pc' = "step" /\ at' = at + 1
    BY <1>4 DEF Proceed
  <2>2. QED BY <1>1, <1>2, <1>3, <1>4, <2>1 DEF Kept, Past, Over
<1>5. CASE ~(at < Len(in.command))
  <2>1. pc' = "return" /\ at' = at /\ at = Len(in.command)
    BY <1>1, <1>5 DEF Proceed
  <2>2. QED BY <1>1, <1>2, <1>3, <2>1 DEF Kept, Past
<1>6. QED BY <1>4, <1>5

(* A step that fails: the steps before it have done their part.            *)
LEMMA FailKeeps ==
  ASSUME TypeOK, IInv, NEW e \in Errors \ {"none"}, Fail(e), in' = in,
         pc \in {"step", "sent", "asking"},
         \A i \in 1..Len(in.command) : i < at /\ DidItsPart(i) => DidItsPart(i)'
  PROVE  Kept' /\ at' = at /\ err' = e /\ pc' = "return"
BY StepFacts DEF IInv, Kept, Past, Fail

(* Requests stay behind the step the run has reached. *)
LEMMA SentKeeps ==
  ASSUME TypeOK, SentBefore, in' = in, at' >= at, at' \in Nat,
         \/ sent' = sent
         \/ sent' = sent \cup {Step} /\ at' = at
  PROVE  SentBefore'
BY DEF SentBefore, TypeOK, Step

-----------------------------------------------------------------------------
LEMMA TypeInit == Init => TypeOK
<1>1. SUFFICES ASSUME Init PROVE TypeOK
  OBVIOUS
<1>2. in.command \in Commands
  BY <1>1 DEF Init, Inputs
<1>3. 1 \in 1..Len(in.command)
  BY <1>2, CommandsWellOrdered DEF WellOrdered
<1>4. got \in 0..MaxPages /\ err \in Errors /\ pc \in Places
  BY <1>1, PagesAssumption DEF Init, Errors, Places
<1>5. QED
  BY <1>1, <1>3, <1>4 DEF Init, TypeOK

LEMMA TypeStep == ASSUME TypeOK, [Next]_vars PROVE TypeOK'
<1> USE DEF vars, signals, user, backend
<1>1. Len(in.command) \in Nat \ {0} /\ at \in 1..Len(in.command)
  BY CommandsWellOrdered DEF TypeOK, Inputs, WellOrdered
<1>2. Proceed /\ in' = in => pc' \in Places /\ at' \in 1..Len(in'.command) /\ err' \in Errors
  BY <1>1 DEF Proceed, TypeOK, Places
<1>3. \A e \in Errors : Fail(e) /\ in' = in =>
        pc' \in Places /\ at' \in 1..Len(in'.command) /\ err' \in Errors
  BY DEF Fail, TypeOK, Places
<1>4. {"usage", "settings", "file", "config", "argument", "output", "refused", "denied", ContextError}
        \subseteq Errors
      /\ Refusals \subseteq Errors
  BY DEF Errors, Mistakes, ContextError
<1>5. CASE Resolve
  BY <1>3, <1>4, <1>5 DEF Resolve, TypeOK, Places
<1>6. CASE CheckFlags \/ ReadFile \/ BuildClient \/ Timed
  BY <1>2, <1>3, <1>4, <1>6 DEF CheckFlags, ReadFile, BuildClient, Local, Timed, TypeOK
<1>7. CASE Send
  BY <1>7 DEF Send, Requests, TypeOK, Places
<1>8. CASE SendRefused \/ ArgumentRefused
  BY <1>3, <1>4, <1>8 DEF SendRefused, ArgumentRefused, TypeOK
<1>9. CASE Preview \/ Render \/ Say
  BY <1>2, <1>3, <1>4, <1>9 DEF Preview, Render, Say, TypeOK
<1>10. CASE Prompt
  BY <1>2, <1>3, <1>4, <1>10 DEF Prompt, TypeOK, Places
<1>11. CASE Return
  BY <1>11 DEF Return, ExitCode, TypeOK, Places
<1>12. CASE Succeeds
  BY <1>2, <1>12 DEF Succeeds, TypeOK
<1>13. ASSUME NEW how, PageArrives(how) PROVE TypeOK'
  <2>1. got' \in 0..MaxPages
    BY <1>13, PagesAssumption DEF PageArrives, TypeOK
  <2>2. ended' \in {"no", "whole", "capped", "empty"}
    BY <1>13 DEF PageArrives, TypeOK
  <2>3. pc' \in Places /\ at' \in 1..Len(in'.command) /\ err' \in Errors
    BY <1>2, <1>13 DEF PageArrives, TypeOK, Places
  <2>4. QED BY <1>13, <2>1, <2>2, <2>3 DEF PageArrives, TypeOK
<1>14. ASSUME NEW e \in Errors, Refuses(e) \/ Lost(e) PROVE TypeOK'
  <2>1. limbo' \in BOOLEAN
    BY <1>14 DEF Refuses, Lost, TypeOK
  <2>2. pc' \in Places /\ at' \in 1..Len(in'.command) /\ err' \in Errors
    BY <1>3, <1>14 DEF Refuses, Lost
  <2>3. QED BY <1>14, <2>1, <2>2 DEF Refuses, Lost, TypeOK
<1>15. CASE Perform \/ Redirect
  <2>1. limbo' \in BOOLEAN /\ redirected' \in BOOLEAN /\ performed' \in BOOLEAN
    BY <1>15 DEF Perform, Redirect, TypeOK
  <2>2. QED BY <1>15, <2>1 DEF Perform, Redirect, TypeOK
<1>16. ASSUME NEW a \in {"yes", "no"}, Type(a) PROVE TypeOK'
  BY <1>2, <1>3, <1>4, <1>16 DEF Type, TypeOK
<1>17. CASE Interrupt \/ Expire
  <2>1. inTime' \in BOOLEAN /\ interrupted' \in BOOLEAN /\ expired' \in BOOLEAN
    BY <1>17 DEF Interrupt, Expire, TypeOK
  <2>2. QED BY <1>17, <2>1 DEF Interrupt, Expire, TypeOK
<1>18. CASE UNCHANGED vars
  BY <1>18 DEF TypeOK
<1>19. QED
  BY <1>5, <1>6, <1>7, <1>8, <1>9, <1>10, <1>11, <1>12, <1>13, <1>14, <1>15, <1>16, <1>17, <1>18
     DEF Next, Runs, Answered

(* The variables of a run keep their types. *)
THEOREM TypeCorrect == Spec => []TypeOK
<1>1. QED BY TypeInit, TypeStep, PTL DEF Spec

-----------------------------------------------------------------------------
(* The inductive invariant holds at the start, and a step that is over or  *)
(* that fails keeps it, whatever the step was.                             *)
LEMMA IInvInit == Init => IInv
<1>1. SUFFICES ASSUME Init PROVE IInv
  OBVIOUS
<1>2. Placed /\ SentBefore /\ Consented /\ Excused /\ MistakesCostNothing
  BY <1>1 DEF Init, Placed, Running, Over, SentBefore, Consented, Excused, MistakesCostNothing
<1>3. Kept
  BY <1>1, TypeInit DEF Init, Kept, Past, Over, TypeOK
<1>4. QED BY <1>2, <1>3 DEF IInv

LEMMA AfterProceed ==
  ASSUME TypeOK, IInv, Proceed, UNCHANGED <<in, signals, sent>>,
         pc \in {"step", "sent", "asking"},
         \A i \in 1..Len(in.command) : i < at /\ DidItsPart(i) => DidItsPart(i)',
         NEW n, n = at, DidItsPart(n)',
         Step \in Shown \/ printed' = printed,
         limbo' \/ performed' => limbo \/ performed,
         "write" \in sent /\ PreviewGiven /\ Agreed => PreviewGiven' /\ Agreed'
  PROVE  IInv'
<1>1. /\ Kept' /\ err = "none" /\ err' = "none" /\ at' >= at /\ at' \in Nat
      /\ pc' = "step" \/ (pc' = "return" /\ at' = Len(in.command)')
  <2>1. Kept' /\ at' \in 1..Len(in.command)' /\ err' = "none" /\ at' >= at
        /\ (pc' = "step" \/ (pc' = "return" /\ at' = Len(in.command)'))
    BY ProceedKeeps
  <2>2. Len(in.command) \in Nat
    BY StepFacts
  <2>3. QED BY <2>1, <2>2 DEF IInv, Placed, Running
<1>2. Placed'
  <2>1. pc' = "step" => printed' = "no"
    BY <1>1, StepFacts DEF IInv, Placed, Running, Proceed
  <2>2. ASSUME pc' = "step", Step' = "write", "write" \in sent PROVE FALSE
    <3>1. at' = at + 1 /\ at' \in 1..Len(in.command) /\ WellOrdered(in.command)
      BY <2>2, StepFacts DEF Proceed
    <3>2. PICK i \in 1..at : in.command[i] = "write"
      BY <2>2 DEF IInv, SentBefore
    <3>3. QED BY <2>2, <3>1, <3>2, StepFacts DEF WellOrdered, Shown, Step
  <2>3. QED BY <1>1, <2>1, <2>2 DEF Placed, Running, Over
<1>3. SentBefore'
  BY <1>1, SentKeeps DEF IInv
<1>4. Consented' /\ Excused' /\ MistakesCostNothing'
  BY <1>1 DEF IInv, Consented, Excused, MistakesCostNothing, Mistakes, signals
<1>5. QED BY <1>1, <1>2, <1>3, <1>4 DEF IInv

LEMMA AfterFail ==
  ASSUME TypeOK, IInv, NEW e \in Errors \ {"none"}, Fail(e),
         UNCHANGED <<in, signals, sent, performed, printed>>,
         pc \in {"step", "sent", "asking"},
         \A i \in 1..Len(in.command) : i < at /\ DidItsPart(i) => DidItsPart(i)',
         limbo' => limbo,
         "write" \in sent /\ PreviewGiven /\ Agreed => PreviewGiven' /\ Agreed',
         limbo' \/ performed =>
           e \in {"server", "canceled", "deadline", "net", "decode", "output"},
         e \in Mistakes => sent = {}
  PROVE  IInv'
<1>1. Kept' /\ at' = at /\ err' = e /\ pc' = "return"
  BY FailKeeps
<1>2. Placed'
  BY <1>1 DEF IInv, Placed, Running, Over
<1>3. SentBefore'
  BY <1>1, SentKeeps, StepFacts DEF IInv
<1>4. Consented' /\ Excused' /\ MistakesCostNothing'
  BY <1>1 DEF IInv, Consented, Excused, MistakesCostNothing, signals
<1>5. QED BY <1>1, <1>2, <1>3, <1>4 DEF IInv

-----------------------------------------------------------------------------
(* One lemma for each kind of step. *)
LEMMA LocalStep ==
  ASSUME TypeOK, IInv, Resolve \/ CheckFlags \/ ReadFile \/ BuildClient \/ Timed
  PROVE  IInv'
<1> USE DEF signals, user, backend
<1>1. CASE Resolve
  <2>1. UNCHANGED <<in, exit, signals, user, backend, printed>> /\ pc = "start" /\ at' = at
    BY <1>1 DEF Resolve, Fail
  <2>2. (pc' = "step" /\ err' = "none") \/ (pc' = "return" /\ err' \in {"usage", "settings"})
    BY <1>1 DEF Resolve, Fail, IInv, Placed, Running
  <2>3. sent = {} /\ at = 1 /\ ~limbo /\ ~performed /\ printed = "no"
    BY <2>1 DEF IInv, Placed, Running, Consented
  <2>4. Kept'
    BY <2>1, <2>2, <2>3, StepFacts DEF Kept, Past, Over
  <2>5. QED
    BY <1>1, <2>1, <2>2, <2>3, <2>4
       DEF IInv, Placed, Running, Over, SentBefore, Consented, Excused, MistakesCostNothing, TypeOK
<1>2. CASE CheckFlags \/ ReadFile \/ BuildClient \/ Timed
  <2>1. /\ UNCHANGED <<in, exit, signals, user, backend, printed>>
        /\ pc = "step" /\ Step \in {"flags", "file", "client", "timed"}
        /\ Proceed \/ (Step # "timed" /\ \E e \in {"usage", "file", "config"} : Fail(e))
    BY <1>2 DEF CheckFlags, ReadFile, BuildClient, Timed, Local, On
  <2>2. (PreviewGiven => PreviewGiven') /\ (Agreed => Agreed')
    BY <2>1 DEF PreviewGiven, Agreed
  <2>3. \A i \in 1..Len(in.command) : DidItsPart(i) => DidItsPart(i)'
    BY <2>1, <2>2 DEF DidItsPart
  <2>4. ~limbo /\ ~performed /\ "write" \notin sent
    BY <2>1, StepFacts DEF IInv, Consented, Shown, Requests
  <2>5. CASE Proceed
    <3>1. PICK n : n = at
      OBVIOUS
    <3>2. DidItsPart(n)'
      BY <2>1, <3>1 DEF DidItsPart, Step
    <3>3. QED BY <2>1, <2>3, <2>4, <2>5, <3>1, <3>2, AfterProceed
  <2>6. ASSUME NEW e \in {"usage", "file", "config"}, Fail(e), Step # "timed" PROVE IInv'
    <3>1. sent = {} /\ e \in Errors \ {"none"}
      BY <2>1, <2>6, StepFacts DEF Errors, Mistakes
    <3>2. QED BY <2>1, <2>3, <2>4, <2>6, <3>1, AfterFail
  <2>7. QED BY <2>1, <2>5, <2>6
<1>3. QED BY <1>1, <1>2

LEMMA SendStep == ASSUME TypeOK, IInv, Send \/ SendRefused \/ ArgumentRefused PROVE IInv'
<1> USE DEF signals, user, backend
<1>1. pc = "step" /\ Step \in Requests
  BY DEF Send, SendRefused, ArgumentRefused, On, Requests
<1>2. /\ Len(in.command) \in Nat \ {0} /\ at \in 1..Len(in.command)
      /\ Step \in {"read", "pages"} => "write" \notin sent
      /\ Step = "write" /\ in.command \in Destructive /\ Kept => PreviewGiven /\ Agreed
  BY StepFacts
<1>3. CASE Send
  <2>1. /\ UNCHANGED <<in, at, err, exit, signals, user, got, ended, redirected, performed, printed>>
        /\ pc' = "sent" /\ sent' = sent \cup {Step} /\ limbo' = (Step = "write") /\ ~ContextDone
    BY <1>3 DEF Send
  <2>2. (PreviewGiven' <=> PreviewGiven) /\ (Agreed' <=> Agreed)
    BY <2>1 DEF PreviewGiven, Agreed
  <2>3. Kept'
    BY <1>1, <2>1, <2>2 DEF IInv, Kept, Past, Over, DidItsPart
  <2>4. SentBefore'
    BY <1>2, <2>1, SentKeeps DEF IInv
  <2>5. Placed'
    BY <1>1, <2>1 DEF IInv, Placed, Running, Over, Step
  <2>6. Consented'
    BY <1>1, <1>2, <2>1, <2>2 DEF IInv, Consented, ContextDone
  <2>7. Excused' /\ MistakesCostNothing'
    BY <1>1, <2>1 DEF IInv, Placed, Running, Excused, MistakesCostNothing, Mistakes
  <2>8. QED BY <2>3, <2>4, <2>5, <2>6, <2>7 DEF IInv
<1>4. CASE SendRefused
  <2>1. UNCHANGED <<in, exit, signals, user, backend, printed>> /\ Fail(ContextError)
    BY <1>4 DEF SendRefused
  <2>2. ContextError \in {"canceled", "deadline"} /\ ContextError \in Errors \ {"none"}
        /\ ContextError \notin Mistakes
    BY DEF ContextError, Errors, Mistakes
  <2>3. (PreviewGiven => PreviewGiven') /\ (Agreed => Agreed')
    BY <2>1 DEF PreviewGiven, Agreed
  <2>4. \A i \in 1..Len(in.command) : DidItsPart(i) => DidItsPart(i)'
    BY <2>1, <2>3 DEF DidItsPart
  <2>5. QED BY <1>1, <2>1, <2>2, <2>3, <2>4, AfterFail
<1>5. CASE ArgumentRefused
  <2>1. UNCHANGED <<in, exit, signals, user, backend, printed>> /\ Fail("argument") /\ Step = "write"
    BY <1>5 DEF ArgumentRefused, On
  <2>2. (PreviewGiven => PreviewGiven') /\ (Agreed => Agreed')
    BY <2>1 DEF PreviewGiven, Agreed
  <2>3. \A i \in 1..Len(in.command) : DidItsPart(i) => DidItsPart(i)'
    BY <2>1, <2>2 DEF DidItsPart
  <2>4. "write" \notin sent /\ ~limbo /\ ~performed
    BY <1>1, <2>1 DEF IInv, Placed, Consented
  <2>5. sent = {}
    BY <1>2, <1>5, <2>4, WriteIsAlone DEF ArgumentRefused, IInv, TypeOK
  <2>6. "argument" \in Errors \ {"none"}
    BY DEF Errors, Mistakes
  <2>7. QED BY <1>1, <2>1, <2>2, <2>3, <2>4, <2>5, <2>6, AfterFail
<1>6. QED BY <1>3, <1>4, <1>5

LEMMA AnswerStep ==
  ASSUME TypeOK, IInv,
         \/ Succeeds
         \/ \E how \in {"more", "whole", "capped", "empty"} : PageArrives(how)
         \/ \E e \in Errors : Refuses(e) \/ Lost(e)
  PROVE  IInv'
<1> USE DEF signals, user, backend
<1>1. pc = "sent" /\ Step \in Requests /\ err = "none" /\ printed = "no"
  BY DEF Succeeds, PageArrives, Refuses, Lost, IInv, Placed, Running
<1>2. UNCHANGED <<in, signals, user, sent, redirected, performed, printed>>
  BY DEF Succeeds, PageArrives, Refuses, Lost
<1>3. (PreviewGiven <=> PreviewGiven') /\ (Agreed <=> Agreed')
  BY <1>2 DEF PreviewGiven, Agreed
<1>4. PICK n : n = at
  OBVIOUS
<1>5. /\ Len(in.command) \in Nat \ {0} /\ at \in 1..Len(in.command)
      /\ Step \in {"read", "pages"} => "write" \notin sent
  BY StepFacts
<1>6. CASE Succeeds
  <2>1. \A i \in 1..Len(in.command) : DidItsPart(i) => DidItsPart(i)'
    BY <1>2, <1>3, <1>6 DEF DidItsPart, Succeeds
  <2>2. DidItsPart(n)'
    BY <1>1, <1>2, <1>4, <1>6 DEF DidItsPart, Succeeds, Step
  <2>3. limbo' \/ performed' => limbo \/ performed
    BY <1>6 DEF Succeeds
  <2>4. QED BY <1>1, <1>2, <1>3, <1>4, <1>6, <2>1, <2>2, <2>3, AfterProceed DEF Succeeds
<1>7. ASSUME NEW how, PageArrives(how) PROVE IInv'
  <2>1. ended # "no" => ended' # "no"
    BY <1>7 DEF PageArrives
  <2>2. \A i \in 1..Len(in.command) : DidItsPart(i) => DidItsPart(i)'
    BY <1>2, <1>3, <2>1 DEF DidItsPart
  <2>3. Step = "pages" /\ UNCHANGED <<limbo, performed>>
    BY <1>7 DEF PageArrives
  <2>4. CASE how # "more"
    <3>1. Proceed /\ ended' # "no"
      BY <1>7, <2>4 DEF PageArrives
    <3>2. DidItsPart(n)'
      BY <1>2, <1>4, <2>3, <3>1 DEF DidItsPart, Step
    <3>3. QED BY <1>1, <1>2, <1>3, <1>4, <2>2, <2>3, <3>1, <3>2, AfterProceed
  <2>5. CASE how = "more"
    <3>1. pc' = "step" /\ UNCHANGED <<at, err>>
      BY <1>7, <2>5 DEF PageArrives
    <3>2. Kept'
      BY <1>1, <1>2, <2>2, <3>1 DEF IInv, Kept, Past, Over
    <3>3. SentBefore'
      BY <1>2, <1>5, <3>1, SentKeeps DEF IInv
    <3>4. Placed' /\ Consented' /\ Excused' /\ MistakesCostNothing'
      BY <1>1, <1>2, <1>3, <2>3, <3>1
         DEF IInv, Placed, Running, Over, Step, Consented, Excused, MistakesCostNothing
    <3>5. QED BY <3>2, <3>3, <3>4 DEF IInv
  <2>6. QED BY <2>4, <2>5
<1>8. ASSUME NEW e \in Errors, Refuses(e) PROVE IInv'
  <2>1. e \in Refusals /\ Fail(e) /\ UNCHANGED <<ended, performed>>
        /\ limbo' = (limbo /\ e = "server") /\ (Step = "write" /\ performed => e = "server")
    BY <1>8 DEF Refuses
  <2>2. e \in Errors \ {"none"} /\ e \notin Mistakes
    BY <2>1 DEF Refusals, Errors, Mistakes
  <2>3. \A i \in 1..Len(in.command) : DidItsPart(i) => DidItsPart(i)'
    BY <1>2, <1>3, <2>1 DEF DidItsPart
  <2>4. limbo' \/ performed => e = "server"
    BY <1>1, <1>5, <2>1 DEF IInv, Consented, Requests
  <2>5. limbo' => limbo
    BY <2>1
  <2>6. QED BY <1>1, <1>2, <1>3, <2>1, <2>2, <2>3, <2>4, <2>5, AfterFail
<1>9. ASSUME NEW e \in Errors, Lost(e) PROVE IInv'
  <2>1. Fail(e) /\ UNCHANGED backend /\ e \in {"canceled", "deadline", "net", "decode"}
    BY <1>9 DEF Lost, ContextError
  <2>2. e \in Errors \ {"none"} /\ e \notin Mistakes
    BY <2>1 DEF Errors, Mistakes
  <2>3. \A i \in 1..Len(in.command) : DidItsPart(i) => DidItsPart(i)'
    BY <1>2, <1>3, <2>1 DEF DidItsPart
  <2>4. QED BY <1>1, <1>2, <1>3, <2>1, <2>2, <2>3, AfterFail
<1>10. QED BY <1>6, <1>7, <1>8, <1>9

LEMMA OutputStep ==
  ASSUME TypeOK, IInv, Preview \/ Render \/ Say
  PROVE  IInv'
<1> USE DEF signals, user, backend
<1>1. pc = "step" /\ Step \in {"preview", "print", "say"} /\ err = "none" /\ printed = "no"
  BY DEF Preview, Render, Say, On, IInv, Placed, Running
<1>2. UNCHANGED <<in, exit, signals, answer, backend>>
  BY DEF Preview, Render, Say
<1>3. /\ Len(in.command) \in Nat \ {0} /\ at \in 1..Len(in.command)
      /\ Step = "preview" => "write" \notin sent
      /\ WellOrdered(in.command)
  BY StepFacts DEF Shown, Requests
<1>4. PICK n : n = at
  OBVIOUS
<1>5. CASE Preview
  <2>1. Step = "preview" /\ UNCHANGED printed /\ (PreviewGiven => PreviewGiven')
    BY <1>2, <1>5 DEF Preview, On, PreviewGiven, TypeOK
  <2>2. \A i \in 1..Len(in.command) : DidItsPart(i) => DidItsPart(i)'
    BY <1>2, <2>1 DEF DidItsPart, Agreed
  <2>3. CASE Proceed /\ (previewed' = "shown" \/ (previewed' = "lost" /\ ~in.json))
    <3>1. DidItsPart(n)'
      BY <1>2, <1>4, <2>1, <2>3 DEF DidItsPart, PreviewGiven, Step
    <3>2. QED BY <1>1, <1>2, <1>3, <1>4, <2>1, <2>2, <2>3, <3>1, AfterProceed
  <2>4. CASE Fail("output")
    <3>1. "output" \in Errors \ {"none"} /\ "output" \notin Mistakes
      BY DEF Errors, Mistakes
    <3>2. QED BY <1>1, <1>2, <1>3, <2>1, <2>2, <2>4, <3>1, AfterFail
  <2>5. QED BY <1>5, <2>3, <2>4 DEF Preview
<1>6. CASE Render \/ Say
  <2>1. Step \in Shown /\ UNCHANGED previewed
    BY <1>6 DEF Render, Say, On, Shown
  <2>2. (PreviewGiven <=> PreviewGiven') /\ (Agreed <=> Agreed')
    BY <1>2, <2>1 DEF PreviewGiven, Agreed
  <2>3. \A i \in 1..Len(in.command) : i < at /\ DidItsPart(i) => DidItsPart(i)'
    BY <1>2, <1>3, <2>1, <2>2 DEF DidItsPart, WellOrdered, Shown
  <2>4. CASE Proceed /\ (printed' = "shown" \/ (printed' = "lost" /\ (Step = "print" => ~in.json)))
    <3>1. DidItsPart(n)'
      BY <1>2, <1>4, <2>1, <2>4 DEF DidItsPart, Step, Shown
    <3>2. QED BY <1>1, <1>2, <1>4, <2>1, <2>2, <2>3, <2>4, <3>1, AfterProceed
  <2>5. CASE Fail("output") /\ UNCHANGED printed
    <3>1. "output" \in Errors \ {"none"} /\ "output" \notin Mistakes
      BY DEF Errors, Mistakes
    <3>2. QED BY <1>1, <1>2, <2>1, <2>2, <2>3, <2>5, <3>1, AfterFail
  <2>6. QED BY <1>6, <2>4, <2>5 DEF Render, Say, On
<1>7. QED BY <1>5, <1>6

LEMMA PromptStep ==
  ASSUME TypeOK, IInv, Prompt \/ \E a \in {"yes", "no"} : Type(a)
  PROVE  IInv'
<1> USE DEF signals, user, backend
<1>1. pc \in {"step", "asking"} /\ Step = "confirm" /\ err = "none" /\ printed = "no"
  BY DEF Prompt, Type, On, IInv, Placed, Running
<1>2. UNCHANGED <<in, exit, signals, previewed, backend, printed>>
  BY DEF Prompt, Type
<1>3. /\ Len(in.command) \in Nat \ {0} /\ at \in 1..Len(in.command) /\ WellOrdered(in.command)
      /\ "write" \notin sent
  BY <1>1, StepFacts DEF Shown, Requests
<1>4. ~limbo /\ ~performed
  BY <1>3 DEF IInv, Consented
<1>5. \A i \in 1..Len(in.command) : i < at /\ DidItsPart(i) => DidItsPart(i)'
  BY <1>1, <1>2, <1>3 DEF DidItsPart, WellOrdered, PreviewGiven, Step
<1>6. PICK n : n = at
  OBVIOUS
<1>7. ASSUME Proceed, AssumeYes, UNCHANGED answer PROVE IInv'
  <2>1. Agreed'
    BY <1>2, <1>7 DEF AssumeYes, Agreed, TypeOK, Inputs
  <2>2. DidItsPart(n)'
    BY <1>1, <1>2, <1>6, <2>1 DEF DidItsPart, Step
  <2>3. QED BY <1>1, <1>2, <1>3, <1>4, <1>5, <1>6, <1>7, <2>2, AfterProceed
<1>8. ASSUME Proceed, pc = "asking", answer' = "yes" PROVE IInv'
  <2>1. Agreed'
    BY <1>2, <1>8 DEF Agreed, IInv, Placed
  <2>2. DidItsPart(n)'
    BY <1>1, <1>2, <1>6, <2>1 DEF DidItsPart, Step
  <2>3. QED BY <1>1, <1>2, <1>3, <1>4, <1>5, <1>6, <1>8, <2>2, AfterProceed
<1>9. ASSUME NEW e \in {"refused", "denied"}, Fail(e) PROVE IInv'
  <2>1. e \in Errors \ {"none"} /\ e \notin Mistakes
    BY DEF Errors, Mistakes
  <2>2. QED BY <1>1, <1>2, <1>3, <1>4, <1>5, <1>9, <2>1, AfterFail
<1>10. ASSUME pc' = "asking", in.forceTTY, UNCHANGED <<at, err, answer>> PROVE IInv'
  <2>1. Kept'
    BY <1>1, <1>2, <1>5, <1>10 DEF IInv, Kept, Past, Over
  <2>2. SentBefore'
    BY <1>2, <1>3, <1>10, SentKeeps DEF IInv
  <2>3. Placed' /\ Consented' /\ Excused' /\ MistakesCostNothing'
    BY <1>1, <1>2, <1>3, <1>4, <1>10
       DEF IInv, Placed, Running, Over, Step, Consented, Excused, MistakesCostNothing
  <2>4. QED BY <2>1, <2>2, <2>3 DEF IInv
<1>11. QED BY <1>7, <1>8, <1>9, <1>10 DEF Prompt, Type

LEMMA ReturnStep == ASSUME TypeOK, IInv, Return PROVE IInv'
<1> USE DEF signals, user, backend
<1>1. pc = "return" /\ pc' = "exited" /\ exit' = ExitCode
      /\ UNCHANGED <<in, at, err, signals, user, backend, printed>>
  BY DEF Return
<1>2. Kept'
  BY <1>1 DEF IInv, Kept, Past, Over, DidItsPart, PreviewGiven, Agreed
<1>3. Placed'
  BY <1>1 DEF IInv, Placed, Running, Over, ExitCode
<1>4. SentBefore' /\ Consented' /\ Excused' /\ MistakesCostNothing'
  BY <1>1 DEF IInv, SentBefore, Consented, Excused, MistakesCostNothing, PreviewGiven, Agreed
<1>5. QED BY <1>2, <1>3, <1>4 DEF IInv

(* The backend, the clock and the user's Ctrl-C. *)
LEMMA OutsideStep ==
  ASSUME TypeOK, IInv, Perform \/ Redirect \/ Interrupt \/ Expire \/ UNCHANGED vars
  PROVE  IInv'
<1> USE DEF signals, user, backend, vars
<1>1. /\ UNCHANGED <<in, pc, at, err, exit, user, sent, got, ended, printed>>
      /\ performed => performed'
      /\ redirected => redirected'
      /\ limbo' \/ performed' => limbo \/ performed
      /\ (inTime' => interrupted' /\ "write" \notin sent') \/ UNCHANGED <<interrupted, inTime>>
  BY DEF Perform, Redirect, Interrupt, Expire, TypeOK
<1>2. Kept'
  BY <1>1 DEF IInv, Kept, Past, Over, DidItsPart, PreviewGiven, Agreed
<1>3. Placed' /\ SentBefore'
  BY <1>1 DEF IInv, Placed, Running, Over, SentBefore, Step
<1>4. Consented' /\ Excused' /\ MistakesCostNothing'
  BY <1>1 DEF IInv, Consented, Excused, MistakesCostNothing, PreviewGiven, Agreed
<1>5. QED BY <1>2, <1>3, <1>4 DEF IInv

-----------------------------------------------------------------------------
LEMMA Inductive == Spec => [](TypeOK /\ IInv)
<1>1. Init => TypeOK /\ IInv
  BY TypeInit, IInvInit
<1>2. TypeOK /\ IInv /\ [Next]_vars => TypeOK' /\ IInv'
  BY TypeStep, LocalStep, SendStep, AnswerStep, OutputStep, PromptStep, ReturnStep, OutsideStep
     DEF Next, Runs, Answered
<1>3. QED BY <1>1, <1>2, PTL DEF Spec

(* Nothing is deactivated or deleted without a preview and an agreement,   *)
(* in whatever order the answers, Ctrl-C and the backend come.             *)
THEOREM ConsentComesFirst == Spec => []ConsentBeforeHarm
<1>1. TypeOK /\ IInv => ConsentBeforeHarm
  BY DEF IInv, Consented, ConsentBeforeHarm, PreviewGiven
<1>2. QED BY <1>1, Inductive, PTL

(* Ctrl-C before the writing request keeps the backend untouched. *)
THEOREM InterruptHolds == Spec => []InterruptInTime
<1>1. TypeOK /\ IInv => InterruptInTime
  BY DEF IInv, Consented, InterruptInTime
<1>2. QED BY <1>1, Inductive, PTL

(* Exit code 0 means done and, with -o json, shown; another one, that it   *)
(* was not done unless an answer or the output was lost.                   *)
THEOREM ExitIsTrue == Spec => []ExitTruthful
<1>1. ASSUME TypeOK, IInv, pc = "exited", exit = 0
      PROVE  /\ (\E i \in DOMAIN in.command : in.command[i] = "write") => performed \/ redirected
             /\ in.json /\ in.command # MeAvatarDelete => printed = "shown"
  <2>1. Len(in.command) \in Nat \ {0} /\ WellOrdered(in.command)
    BY <1>1, StepFacts
  <2>2. err = "none"
    BY <1>1 DEF IInv, Placed
  <2>3. DOMAIN in.command = 1..Len(in.command)
    BY <1>1, StepsNumbered DEF TypeOK, Inputs
  <2>4. \A i \in 1..Len(in.command) : DidItsPart(i)
    BY <1>1, <2>2 DEF IInv, Kept, Past, Over
  <2>5. QED BY <2>1, <2>3, <2>4 DEF DidItsPart, WellOrdered
<1>2. ASSUME TypeOK, IInv, pc = "exited", exit # 0, performed
      PROVE  err \in {"server", "canceled", "deadline", "net", "decode", "output"}
  BY <1>2 DEF IInv, Placed, Excused
<1>3. TypeOK /\ IInv => ExitTruthful
  BY <1>1, <1>2 DEF ExitTruthful
<1>4. QED BY <1>3, Inductive, PTL

(* What is printed is a listing that no failure broke off, or the result   *)
(* of something done or redirected.                                        *)
THEOREM PrintsTheWhole == Spec => []PrintsWholeOrNothing
<1>1. ASSUME TypeOK, IInv, printed # "no" PROVE PrintsWholeOrNothing
  <2>1. err = "none" /\ pc \in Over
    BY <1>1 DEF IInv, Placed, Running, Over, TypeOK, Places
  <2>2. \A i \in 1..Len(in.command) : DidItsPart(i)
    BY <1>1, <2>1 DEF IInv, Kept, Past
  <2>3. DOMAIN in.command = 1..Len(in.command)
    BY <1>1, StepsNumbered DEF TypeOK, Inputs
  <2>4. ended # "no" => ended \in {"whole", "capped", "empty"}
    BY <1>1 DEF TypeOK
  <2>5. QED BY <2>1, <2>2, <2>3, <2>4 DEF PrintsWholeOrNothing, DidItsPart
<1>2. QED BY <1>1, Inductive, PTL DEF PrintsWholeOrNothing

(* A mistake of the user is found before anything is sent. *)
THEOREM MistakesAreFree == Spec => []MistakesCostNothing
<1>1. TypeOK /\ IInv => MistakesCostNothing
  BY DEF IInv
<1>2. QED BY <1>1, Inductive, PTL

-----------------------------------------------------------------------------
(* What a step that is over, or that fails, does to the place of the run.  *)
Onward == \/ at < at'
          \/ at = at' /\ got < got'
          \/ UNCHANGED <<at, got>> /\ Stage[pc] < Stage[pc']

LEMMA ProceedForward ==
  ASSUME TypeOK, got' = got, pc \in {"step", "sent", "asking"},
         Proceed \/ \E e \in Errors : Fail(e)
  PROVE  Onward
BY DEF TypeOK, Proceed, Fail, Onward, Stage

(* The variant of a run: the step of the command, then the pages received, *)
(* then the place within the step, whatever the command, the answers and   *)
(* the interrupts.                                                         *)
THEOREM NothingIsRepeated == Spec => RunsForward
<1>1. TypeOK /\ [Next]_vars => [Onward]_<<pc, at, got>>
  <2> SUFFICES ASSUME TypeOK, Next
               PROVE  Onward \/ UNCHANGED <<pc, at, got>>
    BY DEF vars, backend
  <2> USE ProceedForward DEF user, signals, backend
  <2>1. CASE Resolve
    BY <2>1 DEF Resolve, Fail, Onward, Stage
  <2>2. CASE CheckFlags \/ ReadFile \/ BuildClient \/ Timed
    BY <2>2 DEF CheckFlags, ReadFile, BuildClient, Local, Timed, On, Errors, Mistakes
  <2>3. CASE Send
    BY <2>3 DEF Send, Onward, Stage
  <2>4. CASE SendRefused \/ ArgumentRefused
    BY <2>4 DEF SendRefused, ArgumentRefused, On, ContextError, Errors, Mistakes
  <2>5. CASE Preview \/ Render \/ Say
    BY <2>5 DEF Preview, Render, Say, On, Errors
  <2>6. CASE Prompt
    BY <2>6 DEF Prompt, On, Errors, Onward, Stage
  <2>7. CASE Return
    BY <2>7 DEF Return, Onward, Stage
  <2>8. CASE Succeeds
    BY <2>8 DEF Succeeds
  <2>9. ASSUME NEW how, PageArrives(how) PROVE Onward
    BY <2>9 DEF PageArrives, Proceed, TypeOK, Onward
  <2>10. ASSUME NEW e \in Errors, Refuses(e) \/ Lost(e) PROVE Onward
    BY <2>10 DEF Refuses, Lost
  <2>11. ASSUME NEW a \in {"yes", "no"}, Type(a) PROVE Onward
    BY <2>11 DEF Type, Errors
  <2>12. CASE Perform \/ Redirect \/ Interrupt \/ Expire
    BY <2>12 DEF Perform, Redirect, Interrupt, Expire
  <2>13. QED
    BY <2>1, <2>2, <2>3, <2>4, <2>5, <2>6, <2>7, <2>8, <2>9, <2>10, <2>11, <2>12
       DEF Next, Runs, Answered
<1>2. QED
  BY <1>1, TypeCorrect, PTL DEF Spec, RunsForward, Onward
=============================================================================
