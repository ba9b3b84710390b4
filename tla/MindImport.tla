------------------------------ MODULE MindImport ------------------------------
(***************************************************************************)
(* Importing a mind from a file (MindTransferCard): the user picks a file, *)
(* chooses sections and a mode, and confirms by typing the Domia's name in *)
(* a modal dialog.                                                         *)
(*                                                                         *)
(* A file is read asynchronously and shown when it has been read: also     *)
(* while the dialog of the file before is open, and in any order.  The     *)
(* dialog may be closed while its import is under way.                     *)
(***************************************************************************)
EXTENDS Naturals

CONSTANTS
    MindFile,  \* files that are mind bundles
    Broken,    \* one that is not
    Section,
    Filled,    \* the sections that are in a file
    MaxPicks   \* bound: files picked

VARIABLES
    picks,     \* files picked so far
    unread,    \* picks that are being read
    bundle,    \* the file shown, {} for none
    sections,  \* importSections
    mode,
    confirm,   \* confirmOpen and typed: the name was typed
    import,    \* the request under way, and whether the node has done it
    report,    \* the request whose report is shown
    agreed,    \* history: what was shown when the user opened the dialog
    latest,    \* history: the last pick that was shown
    late       \* history: a file was shown while the dialog was open or its
               \* import under way, or after one that was picked later

mindVars == <<picks, unread, bundle, sections, mode, confirm, import, report,
              agreed, latest, late>>
Rests == UNCHANGED mindVars

-----------------------------------------------------------------------------
Mode == {"merge", "replace"}
Request == [file : MindFile, sections : SUBSET Section, mode : Mode]
Asks == {[file |-> f, sections |-> sections, mode |-> mode] : f \in bundle}
Closed == [open |-> FALSE, typed |-> FALSE]
NoImport == [at |-> "none", of |-> {}]

MindTypeOK ==
    /\ picks \in 0 .. MaxPicks
    /\ unread \subseteq (1 .. picks) \X (MindFile \union {Broken})
    /\ bundle \subseteq MindFile /\ \A f, g \in bundle : f = g
    /\ sections \subseteq Section /\ mode \in Mode
    /\ confirm \in [open : BOOLEAN, typed : BOOLEAN]
    /\ confirm.typed => confirm.open
    /\ import.at \in {"none", "sent", "applied"} /\ import.of \subseteq Request
    /\ report \subseteq Request /\ agreed \subseteq Request
    /\ latest \in 0 .. picks /\ late \in BOOLEAN

Init ==
    /\ picks = 0 /\ unread = {} /\ bundle = {}
    /\ sections = {} /\ mode = "merge"
    /\ confirm = Closed /\ import = NoImport
    /\ report = {} /\ agreed = {} /\ latest = 0 /\ late = FALSE

-----------------------------------------------------------------------------
(* What is behind the dialog cannot be reached while it is there. *)
Shows == confirm.open /\ bundle # {}

PickMind(f) ==
    /\ ~Shows /\ picks < MaxPicks
    /\ picks' = picks + 1 /\ unread' = unread \union {<<picks + 1, f>>}
    /\ UNCHANGED <<bundle, sections, mode, confirm, import, report, agreed, latest, late>>

\* Mutant: the report of the file before stays.
MindRead_KeepsReport(n, f) ==
    /\ <<n, f>> \in unread /\ unread' = unread \ {<<n, f>>}
    /\ bundle' = {f} \ {Broken}
    /\ sections' = IF f = Broken THEN sections ELSE Filled[f]
    /\ latest' = n /\ late' = (late \/ confirm.open \/ import # NoImport \/ n < latest)
    /\ UNCHANGED <<picks, mode, confirm, import, report, agreed>>

(* readFile goes on; the sections of the file are selected.  One that is   *)
(* no bundle takes the dialog away, but leaves it open: it is back with    *)
(* the next file.                                                          *)
MindRead(n, f) ==
    /\ <<n, f>> \in unread /\ unread' = unread \ {<<n, f>>}
    /\ bundle' = {f} \ {Broken} /\ report' = {}
    /\ sections' = IF f = Broken THEN sections ELSE Filled[f]
    /\ latest' = n /\ late' = (late \/ confirm.open \/ import # NoImport \/ n < latest)
    /\ UNCHANGED <<picks, mode, confirm, import, agreed>>

(* A section of the file is ticked or not, another mode is chosen. *)
ToggleSection(s) ==
    /\ ~Shows /\ \E f \in bundle : s \in Filled[f]
    /\ sections' = IF s \in sections THEN sections \ {s} ELSE sections \union {s}
    /\ UNCHANGED <<picks, unread, bundle, mode, confirm, import, report, agreed, latest, late>>

SetMode(w) ==
    /\ bundle # {} /\ ~Shows /\ mode' = w /\ w # mode
    /\ UNCHANGED <<picks, unread, bundle, sections, confirm, import, report, agreed, latest, late>>

OpenConfirm ==
    /\ bundle # {} /\ ~Shows /\ sections # {}
    /\ confirm' = [confirm EXCEPT !.open = TRUE] /\ agreed' = Asks
    /\ UNCHANGED <<picks, unread, bundle, sections, mode, import, report, latest, late>>

TypeName ==
    /\ Shows /\ confirm' = [confirm EXCEPT !.typed = TRUE]
    /\ UNCHANGED <<picks, unread, bundle, sections, mode, import, report, agreed, latest, late>>

\* Mutant: the name stays typed.
CloseConfirm_KeepsTyped ==
    /\ Shows /\ confirm' = [confirm EXCEPT !.open = FALSE]
    /\ UNCHANGED <<picks, unread, bundle, sections, mode, import, report, agreed, latest, late>>

(* onOpenChange. *)
CloseConfirm ==
    /\ Shows /\ confirm' = Closed
    /\ UNCHANGED <<picks, unread, bundle, sections, mode, import, report, agreed, latest, late>>

\* Mutant: an import under way does not disable the button.
ImportSent_Twice ==
    /\ Shows /\ confirm.typed
    /\ import' = [at |-> "sent", of |-> Asks]
    /\ UNCHANGED <<picks, unread, bundle, sections, mode, confirm, report, agreed, latest, late>>

(* importMutation.mutate: the bundle, sections and mode as they are now.   *)
ImportSent ==
    /\ Shows /\ confirm.typed /\ import = NoImport
    /\ import' = [at |-> "sent", of |-> Asks]
    /\ UNCHANGED <<picks, unread, bundle, sections, mode, confirm, report, agreed, latest, late>>

(* The node imports. *)
ImportApplied ==
    /\ import.at = "sent" /\ import' = [import EXCEPT !.at = "applied"]
    /\ UNCHANGED <<picks, unread, bundle, sections, mode, confirm, report, agreed, latest, late>>

(* onDone: the report is shown, and whichever dialog is open is closed. *)
ImportDone ==
    /\ import.at = "applied" /\ import' = NoImport
    /\ report' = import.of /\ confirm' = Closed
    /\ UNCHANGED <<picks, unread, bundle, sections, mode, agreed, latest, late>>

(* The node refuses, or its answer is lost after it has imported. *)
ImportFails ==
    /\ import # NoImport /\ import' = NoImport
    /\ UNCHANGED <<picks, unread, bundle, sections, mode, confirm, report, agreed, latest, late>>

Next ==
    \/ \E f \in MindFile \union {Broken} :
          PickMind(f) \/ \E n \in 1 .. MaxPicks : MindRead(n, f)
    \/ \E s \in Section : ToggleSection(s)
    \/ \E w \in Mode : SetMode(w)
    \/ OpenConfirm \/ TypeName \/ CloseConfirm
    \/ ImportSent \/ ImportApplied \/ ImportDone \/ ImportFails

Spec == Init /\ [][Next]_mindVars

-----------------------------------------------------------------------------
(* What is imported is what was on the page when the user opened the       *)
(* dialog, in which the name was then typed; one import runs at a time,    *)
(* and the report shown is of the file shown.  Not so once a file was      *)
(* shown late: it takes the place of the one confirmed, a dialog that it   *)
(* took away comes back with the name already typed, and a report comes    *)
(* next to a file that was not imported.                                   *)
ImportIsConfirmed ==
    [][/\ import'.at = "sent" /\ import' # import /\ ~late =>
            import'.of = agreed /\ confirm.open /\ import = NoImport
       /\ confirm'.open /\ ~confirm.open => ~confirm'.typed
       /\ ~late' => \A q \in report' : q.file \in bundle']_mindVars
===============================================================================
