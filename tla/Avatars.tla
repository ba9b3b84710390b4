------------------------------- MODULE Avatars -------------------------------
(***************************************************************************)
(* The avatar of a Domia: a row of the registry that names a preset, or    *)
(* the type of an uploaded image, and one file per type (services/avatars).*)
(*                                                                         *)
(* setAvatar reads the row, removes the old file, writes the new one and   *)
(* then updates the row.  A file that cannot be removed is passed over;    *)
(* the others may fail, and the server may stop after each, or while it    *)
(* writes the file, which is then torn.  The calls themselves do not       *)
(* overlap, since neither the database nor the files make setAvatar wait   *)
(* for the event loop.                                                     *)
(***************************************************************************)
EXTENDS Naturals

CONSTANTS
    Mime,      \* types of an uploaded image
    SetCall    \* calls of setAvatar, in the order in which they are made

VARIABLES
    avatarRow, \* avatarMime of the row; {} with a preset or none
    files,     \* types of which a file is there, and the call that wrote it
    torn,      \* those of which only a part was written
    call,      \* calls made so far
    doing,     \* how far the call under way is
    answered,  \* history: the call that the row is of; {} before the first
    failing,   \* history: the last call failed after it had touched the files
    orphans    \* history: types whose file a call left, and not the row: it
               \* could not remove it, or failed before the row named it

avatarVars == <<avatarRow, files, torn, call, doing, answered, failing, orphans>>
Rests == UNCHANGED avatarVars

-----------------------------------------------------------------------------
Idle == [at |-> "none", mime |-> {}, old |-> {}]

AvatarTypeOK ==
    /\ avatarRow \subseteq Mime /\ \A m, n \in avatarRow : m = n
    /\ files \in [Mime -> 0 .. SetCall] /\ torn \subseteq Mime
    /\ call \in 0 .. SetCall
    /\ doing \in [at : {"none", "read", "removed", "filed"},
                  mime : SUBSET Mime, old : SUBSET Mime]
    /\ answered \in 0 .. SetCall /\ failing \in BOOLEAN
    /\ orphans \subseteq Mime

Init ==
    /\ avatarRow = {} /\ files = [t \in Mime |-> 0] /\ torn = {}
    /\ call = 0 /\ doing = Idle
    /\ answered = 0 /\ failing = FALSE /\ orphans = {}

-----------------------------------------------------------------------------
(* setAvatar reads the row; mime is {} for a preset, or to clear. *)
ReadAvatar(mime) ==
    /\ doing = Idle /\ call < SetCall /\ call' = call + 1
    /\ doing' = [at |-> "read", mime |-> mime, old |-> avatarRow]
    /\ UNCHANGED <<avatarRow, files, torn, answered, failing, orphans>>

Removed(gone) ==
    /\ files' = [t \in Mime |-> IF t \in gone THEN 0 ELSE files[t]]
    /\ torn' = torn \ gone
    /\ orphans' = (orphans \ gone) \union {t \in doing.old \ gone : files[t] # 0}

\* Mutant: a file is not removed when another takes its place.
RemoveStoredFile_Replaced ==
    /\ doing.at = "read" /\ doing' = [doing EXCEPT !.at = "removed"]
    /\ IF doing.mime = {} THEN \E gone \in SUBSET doing.old : Removed(gone)
                         ELSE UNCHANGED <<files, torn, orphans>>
    /\ UNCHANGED <<avatarRow, call, answered, failing>>

(* removeStoredFile, of the type that the row names; the call goes on when *)
(* the file cannot be removed.                                             *)
RemoveStoredFile ==
    /\ doing.at = "read" /\ doing' = [doing EXCEPT !.at = "removed"]
    /\ \E gone \in SUBSET doing.old : Removed(gone)
    /\ UNCHANGED <<avatarRow, call, answered, failing>>

(* writeFileSync; nothing for a preset. *)
WriteFile ==
    /\ doing.at = "removed" /\ doing' = [doing EXCEPT !.at = "filed"]
    /\ files' = [t \in Mime |-> IF t \in doing.mime THEN call ELSE files[t]]
    /\ torn' = torn \ doing.mime
    /\ UNCHANGED <<avatarRow, call, answered, failing, orphans>>

(* It fails, or the server stops, with the file begun. *)
WriteFileTorn ==
    /\ doing.at = "removed" /\ doing.mime # {} /\ doing' = Idle
    /\ files' = [t \in Mime |-> IF t \in doing.mime THEN call ELSE files[t]]
    /\ torn' = torn \union doing.mime
    /\ failing' = TRUE /\ orphans' = orphans \union doing.mime
    /\ UNCHANGED <<avatarRow, call, answered>>

\* Mutant: a preset keeps the type of the image before.
SetRegistryAvatar_KeepsMime ==
    /\ doing.at = "filed" /\ doing' = Idle
    /\ avatarRow' = IF doing.mime = {} THEN avatarRow ELSE doing.mime
    /\ answered' = call /\ failing' = FALSE /\ orphans' = orphans \ doing.mime
    /\ UNCHANGED <<files, torn, call>>

(* setRegistryAvatar, and the answer. *)
SetRegistryAvatar ==
    /\ doing.at = "filed" /\ doing' = Idle
    /\ avatarRow' = doing.mime
    /\ answered' = call /\ failing' = FALSE /\ orphans' = orphans \ doing.mime
    /\ UNCHANGED <<files, torn, call>>

(* The file cannot be begun, or the row not be written, and the call       *)
(* throws, or the server stops; nothing is undone.                         *)
SetAvatarFails ==
    /\ doing # Idle /\ doing' = Idle
    /\ failing' = (failing \/ doing.at \in {"removed", "filed"})
    /\ orphans' = IF doing.at = "filed" THEN orphans \union doing.mime ELSE orphans
    /\ UNCHANGED <<avatarRow, files, torn, call, answered>>

Next ==
    \/ \E mime \in {{}} \union {{t} : t \in Mime} : ReadAvatar(mime)
    \/ RemoveStoredFile \/ WriteFile \/ WriteFileTorn
    \/ SetRegistryAvatar \/ SetAvatarFails

Spec == Init /\ [][Next]_avatarVars

-----------------------------------------------------------------------------
(* Between calls, an image that the row names is there, whole, and it is   *)
(* the one of the call that wrote the row: unless a later call failed      *)
(* after it had touched the files, until the next that succeeds.  No other *)
(* image is left but those that a call could not remove, or wrote, whole   *)
(* or torn, before it failed.                                              *)
RowHasItsFile ==
    doing = Idle =>
        /\ \A t \in avatarRow : (files[t] = answered /\ t \notin torn) \/ failing
        /\ \A t \in Mime : files[t] # 0 => t \in avatarRow \union orphans
=============================================================================
