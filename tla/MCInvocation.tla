---------------------------- MODULE MCInvocation ----------------------------
(***************************************************************************)
(* Invocation for TLC, and what the documents say of icctl where the code  *)
(* disagrees.                                                              *)
(***************************************************************************)
EXTENDS Invocation

(* cli-schema.md:66, the table of exit codes. *)
Documented(e) ==
  CASE e \in {"usage", "refused"} -> 2
    [] e \in {"config", "settings"} -> 3
    [] e = "authn" -> 4
    [] e = "authz" -> 5
    [] e = "rate" -> 6
    [] e = "server" -> 7
    [] e = "deadline" -> 124
    [] OTHER -> 1
DocumentedExitCode ==
  pc = "exited" /\ ~interrupted /\ err # "none" => exit = Documented(err)

(* data-model.md:268, "CLI destructive verbs without --yes on non-TTY" are *)
(* rejected "before any API call".                                         *)
RefusedBeforeAnyCall == err = "refused" => sent = {}

(* spec.md:118, FR-015a, "The CLI MUST then prompt the operator for        *)
(* interactive confirmation on a TTY".                                     *)
TerminalUserIsAsked == in.terminal => err # "refused"

(* tasks.md:1291, "SIGINT -> exit 130": Ctrl-C ends the run. *)
InterruptEnds == interrupted ~> pc = "exited"

(* cli-schema.md:21, "--timeout <dur> ... Per-call timeout". *)
TimeoutGoverns == expired => ContextDone

(* pagination.go:83, Next returns false when "all items exhausted,         *)
(* maxItems reached, or an error occurred": what is printed is complete.   *)
ListingsAreWhole ==
  printed # "no" /\ (\E i \in DOMAIN in.command : in.command[i] = "pages")
    => ended \in {"whole", "capped"}

(* cli-schema.md:68, exit code 0 is "Success": a write has been done. *)
ZeroIsSuccess ==
  exit = 0 /\ (\E i \in DOMAIN in.command : in.command[i] = "write") => performed

(* cli-schema.md:89, "Every response is a single JSON document".           *)
SingleDocument ==
  in.json /\ in.command \in Destructive => ~(previewed = "shown" /\ printed = "shown")
=============================================================================
