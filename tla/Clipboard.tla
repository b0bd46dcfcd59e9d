----------------------------- MODULE Clipboard -----------------------------
(***************************************************************************)
(* The clipboard of the session and what `grimoire clip` does with it:     *)
(* copy_and_schedule_clear puts a secret there and starts a second process *)
(* (`grimoire clip --clear-after <hash>`), which sleeps, reads the         *)
(* clipboard and clears it if the hash is still that of the secret.  The   *)
(* two processes, those of other clips and the user share the clipboard    *)
(* with nothing to order them.                                             *)
(*                                                                         *)
(* A hash stands for its text.  The tools (wl-copy, xclip, pbcopy) are     *)
(* external: each use of one succeeds or fails.                            *)
(***************************************************************************)
CONSTANTS
    Clips,          \* the processes that copy, one secret each
    Nothing         \* an empty clipboard, or a text of the user

VARIABLES
    board,      \* the clipboard: a text and who put it there
    secret,     \* the secret of each clip, or Nothing
    clip,       \* where each clip is
    clearer     \* where its clearer is

clipboardVars == <<board, secret, clip, clearer>>

User == "user"
ASSUME UserIsNoClip == User \notin Clips

ClipboardType(Secrets) ==
    /\ board \in [text : Secrets \cup {Nothing}, by : Clips \cup {User}]
    /\ secret \in [Clips -> Secrets \cup {Nothing}]
    /\ clip \in [Clips -> {"none", "copying", "copied", "unscheduled", "done", "failed", "abandoned"}]
    /\ clearer \in [Clips -> {"none", "asleep", "matched", "done", "blind"}]

ClipboardInit ==
    /\ board = [text |-> Nothing, by |-> User]
    /\ secret = [c \in Clips |-> Nothing]
    /\ clip = [c \in Clips |-> "none"]
    /\ clearer = [c \in Clips |-> "none"]

(* copy_and_schedule_clear is called with a secret. *)
BeginClip(c, s) ==
    /\ clip[c] = "none"
    /\ secret' = [secret EXCEPT ![c] = s]
    /\ clip' = [clip EXCEPT ![c] = "copying"]
    /\ UNCHANGED <<board, clearer>>

(* backend.copy: the tool takes the secret, or there is none, or it fails. *)
Copy(c) ==
    /\ clip[c] = "copying"
    /\ \/ /\ board' = [text |-> secret[c], by |-> c]
          /\ clip' = [clip EXCEPT ![c] = "copied"]
       \/ /\ clip' = [clip EXCEPT ![c] = "failed"]
          /\ UNCHANGED board
    /\ UNCHANGED <<secret, clearer>>

\* A mutant of ScheduleClear: a clearer that does not start is ignored
ScheduleOrForget(c) ==
    /\ clip[c] = "copied"
    /\ clip' = [clip EXCEPT ![c] = "done"]
    /\ clearer' \in {clearer, [clearer EXCEPT ![c] = "asleep"]}
    /\ UNCHANGED <<board, secret>>

(* The clearer starts; a system that cannot start it leaves the clip with  *)
(* the duty to clear.                                                      *)
ScheduleClear(c) ==
    /\ clip[c] = "copied"
    /\ \/ /\ clip' = [clip EXCEPT ![c] = "done"]
          /\ clearer' = [clearer EXCEPT ![c] = "asleep"]
       \/ /\ clip' = [clip EXCEPT ![c] = "unscheduled"]
          /\ UNCHANGED clearer
    /\ UNCHANGED <<board, secret>>

Clear == board' = [text |-> Nothing, by |-> User]

ClearNow(c) ==
    /\ clip[c] = "unscheduled"
    /\ Clear
    /\ clip' = [clip EXCEPT ![c] = "done"]
    /\ UNCHANGED <<secret, clearer>>

(* run_clear_after: the sleep is over, the hashes are compared. *)
ReadBoard(c) ==
    /\ clearer[c] = "asleep"
    /\ clearer' = [clearer EXCEPT ![c] = IF board.text = secret[c] THEN "matched" ELSE "done"]
    /\ UNCHANGED <<board, secret, clip>>

ClearLater(c) ==
    /\ clearer[c] = "matched"
    /\ Clear
    /\ clearer' = [clearer EXCEPT ![c] = "done"]
    /\ UNCHANGED <<secret, clip>>

(* What nothing makes up for: the path of the executable is unknown, the   *)
(* tool fails to clear, a process is killed while the secret is there.     *)
LoseClip(c) ==
    /\ clip[c] \in {"copied", "unscheduled"}
    /\ clip' = [clip EXCEPT ![c] = "abandoned"]
    /\ UNCHANGED <<board, secret, clearer>>

LoseClearer(c) ==
    /\ clearer[c] \in {"asleep", "matched"}
    /\ clearer' = [clearer EXCEPT ![c] = "blind"]
    /\ UNCHANGED <<board, secret, clip>>

UserCopies ==
    /\ board.by \in Clips
    /\ Clear
    /\ UNCHANGED <<secret, clip, clearer>>

ClipboardStep(c) ==
    Copy(c) \/ ScheduleClear(c) \/ ClearNow(c) \/ ReadBoard(c) \/ ClearLater(c)

ClipboardFault(c) == LoseClip(c) \/ LoseClearer(c)
-----------------------------------------------------------------------------
(* A secret on the clipboard is somebody's to clear: the process that put  *)
(* it there is not done with it, or its clearer runs, unless one of the    *)
(* two was lost.  copy_and_schedule_clear, run_clear_after.                *)
SecretIsGuarded ==
    board.by \in Clips =>
        \/ clip[board.by] \in {"copied", "unscheduled", "abandoned"}
        \/ clearer[board.by] \in {"asleep", "matched", "blind"}

(* The secret of c is gone from the clipboard, as far as it can be. *)
Gone(c) == board.by = c => clip[c] = "abandoned" \/ clearer[c] = "blind"
=============================================================================
