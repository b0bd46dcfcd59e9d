--------------------------- MODULE PromptPrograms ---------------------------
(***************************************************************************)
(* The programs that ask the user: grimoire-prompt-linux, a GTK program of *)
(* which GApplication keeps one instance per session, and grimoire-prompt, *)
(* which runs zenity, kdialog or fprintd and knows of no other.  The       *)
(* service starts one per prompt, waits for its end and reads the status   *)
(* it printed and its exit code (prompt.rs).                               *)
(*                                                                         *)
(* A second instance of the native program hands its activation to the     *)
(* first and ends with code 0 and no output; the first takes the mode of   *)
(* its command line a second time and aborts.                              *)
(***************************************************************************)
EXTENDS Naturals

CONSTANTS
    Askers,         \* the requests that prompt, one prompt at a time each
    Installed       \* what may stand next to the service's executable

VARIABLES
    program,    \* what does: "native", "generic" or "missing"
    prompt,     \* the prompt of each asker
    primary,    \* the askers whose native program owns the application id
    nudged,     \* another instance has activated the primary
    acted       \* history: the user gave consent in this very dialog

promptVars == <<program, prompt, primary, nudged, acted>>

Kinds == {"password", "pin", "biometric"}
Silent(code) == [status |-> "", code |-> code]
Emit(status) == [status |-> status,
                 code |-> CASE status \in {"ok", "verified"} -> 0
                            [] status = "cancelled" -> 1
                            [] OTHER -> 2]
Aborted == 134

NoPrompt == [at |-> "none", kind |-> "none", printed |-> Silent(0)]
\* "unavailable" is an "error" with a message that says so
Statuses == {"", "ok", "verified", "cancelled", "unavailable", "error"}

PromptType ==
    /\ program \in Installed
    /\ prompt \in [Askers -> [at : {"none", "started", "shown", "ended"},
                              kind : Kinds \cup {"none"},
                              printed : [status : Statuses, code : {0, 1, 2, Aborted}]]]
    /\ primary \subseteq Askers
    /\ nudged \in BOOLEAN
    /\ acted \in [Askers -> BOOLEAN]

PromptInit ==
    /\ program \in Installed
    /\ prompt = [a \in Askers |-> NoPrompt]
    /\ primary = {}
    /\ nudged = FALSE
    /\ acted = [a \in Askers |-> FALSE]

(* Command::new(prompt_binary()?): without a binary there is no process.   *)
Over(kind, printed) == [at |-> "ended", kind |-> kind, printed |-> printed]
Started(kind) ==
    IF program = "missing" THEN Over(kind, Silent(2))
    ELSE [at |-> "started", kind |-> kind, printed |-> Silent(2)]

OpenPrompt(a, kind) ==
    /\ prompt[a].at = "none"
    /\ prompt' = [prompt EXCEPT ![a] = Started(kind)]
    /\ UNCHANGED <<program, primary, nudged, acted>>

Ends(a, printed) ==
    /\ prompt' = [prompt EXCEPT ![a] = Over(@.kind, printed)]
    /\ primary' = primary \ {a}
    /\ nudged' = (nudged /\ a \notin primary)

(* connect_activate of the instance that owns the id shows the dialog.     *)
Activate(a) ==
    /\ program = "native" /\ prompt[a].at = "started" /\ primary = {}
    /\ prompt' = [prompt EXCEPT ![a].at = "shown"]
    /\ primary' = {a}
    /\ UNCHANGED <<program, nudged, acted>>

\* A mutant of HandOver: the second instance waits for the first
HandOverAndWait(a) ==
    /\ program = "native" /\ prompt[a].at = "started" /\ primary # {}
    /\ nudged' = TRUE
    /\ UNCHANGED <<program, prompt, primary, acted>>

HandOver(a) ==
    /\ program = "native" /\ prompt[a].at = "started" /\ primary # {}
    /\ prompt' = [prompt EXCEPT ![a] = Over(@.kind, Silent(0))]
    /\ nudged' = TRUE
    /\ UNCHANGED <<program, primary, acted>>

(* mode.borrow_mut().take().unwrap() on None.  A fingerprint is awaited in *)
(* the handler of the first activation, and the program ends with it.      *)
SecondActivation(a) ==
    /\ nudged /\ a \in primary
    /\ prompt[a].at = "shown" /\ prompt[a].kind # "biometric"
    /\ Ends(a, Silent(Aborted))
    /\ UNCHANGED <<program, acted>>

(* grimoire-prompt: a dialog tool is found, or none is.                    *)
Detect(a) ==
    /\ program = "generic" /\ prompt[a].at = "started"
    /\ \/ prompt' = [prompt EXCEPT ![a].at = "shown"] /\ UNCHANGED <<primary, nudged>>
       \/ Ends(a, Emit("error"))
    /\ UNCHANGED <<program, acted>>

(* The user enters a text, or puts the right finger on the sensor.         *)
Consent(a) ==
    /\ prompt[a].at = "shown"
    /\ Ends(a, Emit(IF prompt[a].kind = "biometric" THEN "verified" ELSE "ok"))
    /\ acted' = [acted EXCEPT ![a] = TRUE]
    /\ UNCHANGED program

(* The user cancels, closes the dialog or leaves it empty; the finger is   *)
(* not known; the tool or the sensor fails.                                *)
Dismiss(a) ==
    /\ prompt[a].at = "shown"
    /\ \E s \in IF prompt[a].kind # "biometric" THEN {"cancelled"}
               ELSE IF program = "native" THEN {"unavailable"} ELSE {"cancelled", "error"} :
            Ends(a, Emit(s))
    /\ UNCHANGED <<program, acted>>

(* prompt_password and prompt_pin, prompt_biometric: what the service      *)
(* makes of the end of the process.                                        *)
\* A mutant of Credential: the exit code alone counts
CredentialOfCode(printed) ==
    CASE printed.code = 0 -> "consent"
      [] printed.code = 1 -> "nothing"
      [] OTHER -> "error"

Credential(printed) ==
    IF printed.code = 1 THEN "nothing"
    ELSE IF printed.status = "ok" THEN "consent"
    ELSE IF printed.status = "cancelled" THEN "nothing" ELSE "error"

Verification(printed) ==
    CASE printed.status = "verified" -> "consent"
      [] printed.status \in {"", "error"} -> "error"
      [] OTHER -> "nothing"

Result(a) == IF prompt[a].kind = "biometric" THEN Verification(prompt[a].printed)
             ELSE Credential(prompt[a].printed)

FinishPrompt(a, next) ==
    /\ prompt[a].at = "ended"
    /\ prompt' = [prompt EXCEPT ![a] = next]
    /\ acted' = [acted EXCEPT ![a] = FALSE]
    /\ UNCHANGED <<program, primary, nudged>>
\* A mutant of ClosePrompt: the end of the program is not collected
KeepPrompt(a) == prompt[a].at = "ended" /\ UNCHANGED promptVars
ClosePrompt(a) == FinishPrompt(a, NoPrompt)
NextPrompt(a, kind) == FinishPrompt(a, Started(kind))

PromptStep(a) == Activate(a) \/ HandOver(a) \/ SecondActivation(a) \/ Detect(a)
UserStep(a) == Consent(a) \/ Dismiss(a)
-----------------------------------------------------------------------------
(* The service takes for consent only what the user did in the dialog of   *)
(* that request: not the end of an instance that showed none, nor a crash. *)
ConsentIsPersonal ==
    \A a \in Askers : prompt[a].at = "ended" /\ Result(a) = "consent" => acted[a]
=============================================================================
