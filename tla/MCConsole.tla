------------------------------- MODULE MCConsole ------------------------------
(***************************************************************************)
(* The pages of the console, for TLC.  A tab shows one page, and a page    *)
(* shares nothing in the browser with another: each is a world of its own, *)
(* chosen at the start, while the others rest as they are.  The pages with *)
(* theorems are extended, so that TLC checks the properties as proved.     *)
(***************************************************************************)
EXTENDS LiveVoice, AudioRecorder, LivekitLab, TableSearch

CONSTANTS
    Room, Device, Patience, MaxTime, Job, Round, Mime, SetCall,
    MindFile, Broken, Section, Partial, Omitted, MaxPicks, Pair, Chosen, MaxEdits, MaxBytes,
    Wait, Conversation, MaxFailures,
    Value, Provider, Mine, Save, StoredField, StoredList, MaxWrites, Name, Url

ASSUME PageAssumption ==
    /\ Patience \in Nat /\ MaxTime \in Nat /\ SetCall \in Nat
    /\ MaxBytes \in Nat /\ MaxFailures \in Nat /\ "none" \notin Job
    /\ Wait \in Nat /\ MaxPicks \in Nat /\ MaxWrites \in Nat /\ MaxEdits \in Nat
    /\ 1 \in Page /\ StoredField \in Value /\ StoredList \subseteq Provider /\ Mine \subseteq Provider

ASSUME ChosenAssumption == Chosen \subseteq SUBSET {"trust", "config", "tools"}

VARIABLES
    world,
    stored, rev, query, fetch, base, draft, saves, known, touched,
    clock, device, sats, pending, deadline, since, rushed,
    managing, install, job, jobs, interval, polls, told, overlapped,
    avatarRow, files, torn, call, doing, answered, failing, orphans,
    picks, unread, bundle, sections, mode, confirm, import, report, agreed, latest, late,
    providers, skillsEngine, archive, pair, edits,
    size, archived, request, serving, passed, response,
    has, track, timed, stage, replaying, elapsed, disturbed,
    label, graded, form, formTouched, edited, grading, rereading, carried,
    installing, chain, atNode, thrown, misses, unavailable

Config == INSTANCE ConfigDraft WITH
    Archived <- [field |-> StoredField, list |-> StoredList]
Bind == INSTANCE SatelliteBind
Jobs == INSTANCE ModelJobs
Avatar == INSTANCE Avatars
Mind == INSTANCE MindImport WITH
    Filled <- [f \in MindFile |-> IF f \in Partial THEN Section \ Omitted ELSE Section]
Pairs == INSTANCE Pairing
Audio == INSTANCE AudioRoutes
Replays == INSTANCE Replay
Grade == INSTANCE Evaluation
Picker == INSTANCE ModelPicker

-----------------------------------------------------------------------------
Init ==
    /\ world \in {"voice", "recorder", "config", "lab", "bind", "jobs", "search",
                 "avatar", "mind", "pair", "audio", "replay", "grade",
                 "picker"}
    /\ LiveInit
    /\ world # "voice" => shown = (CHOOSE d \in Domia : TRUE) /\ ~named
    /\ RecorderInit /\ Config!Init
    /\ LabInit
    /\ world # "lab" => picked = (CHOOSE d \in LabDomia : TRUE)
    /\ Bind!Init /\ Jobs!Init
    /\ SearchInit
    /\ world # "search" => typed = ""
    /\ Avatar!Init /\ Mind!Init
    /\ Pairs!Init
    /\ ~skillsEngine  \* bound: off until somebody turns it on
    /\ world # "pair" => providers = <<>>
    /\ Audio!Init
    /\ world # "audio" => size = 0 /\ archived = "no"
    /\ Replays!Init
    /\ world # "replay" => has = {}
    /\ Grade!Init
    /\ world # "grade" =>
        /\ \A c \in Conversation, f \in Grade!Field : label[c][f] = "none"
        /\ graded.of = CHOOSE c \in Conversation : TRUE
    /\ Picker!Init

(* A step of one page, while the others rest. *)
In(w) ==
    /\ world = w /\ UNCHANGED world
    /\ IF w = "voice" THEN TRUE ELSE LiveRests
    /\ IF w = "recorder" THEN TRUE ELSE RecorderRests
    /\ IF w = "config" THEN TRUE ELSE Config!Rests
    /\ IF w = "lab" THEN TRUE ELSE LabRests
    /\ IF w = "bind" THEN TRUE ELSE Bind!Rests
    /\ IF w = "jobs" THEN TRUE ELSE Jobs!Rests
    /\ IF w = "search" THEN TRUE ELSE SearchRests
    /\ IF w = "avatar" THEN TRUE ELSE Avatar!Rests
    /\ IF w = "mind" THEN TRUE ELSE Mind!Rests
    /\ IF w = "pair" THEN TRUE ELSE Pairs!Rests
    /\ IF w = "audio" THEN TRUE ELSE Audio!Rests
    /\ IF w = "replay" THEN TRUE ELSE Replays!Rests
    /\ IF w = "grade" THEN TRUE ELSE Grade!Rests
    /\ IF w = "picker" THEN TRUE ELSE Picker!Rests

Next ==
    \/ In("voice") /\ LiveNext
    \/ In("recorder") /\ RecorderNext
    \/ In("config") /\ Config!Next
    \/ In("lab") /\ LabNext
    \/ In("bind") /\ Bind!Next
    \/ In("jobs") /\ Jobs!Next
    \/ In("search") /\ SearchNext
    \/ In("avatar") /\ Avatar!Next
    \/ In("mind") /\ Mind!Next
    \/ In("pair") /\ Pairs!Next
    \/ In("audio") /\ Audio!Next
    \/ In("replay") /\ Replays!Next
    \/ In("grade") /\ Grade!Next
    \/ In("picker") /\ Picker!Next

consoleVars == <<world, liveVars, recorderVars, Config!configVars,
                 labVars, Bind!bindVars, Jobs!jobVars, searchVars,
                 Avatar!avatarVars, Mind!mindVars, Pairs!pairVars, Audio!audioVars,
                 Replays!replayVars, Grade!evalVars, Picker!pickerVars>>

Spec ==
    /\ Init /\ [][Next]_consoleVars
    /\ LiveFairness /\ Bind!Fairness /\ Jobs!Fairness
    /\ Replays!Fairness /\ Picker!Fairness

-----------------------------------------------------------------------------
(* Types of all pages, with the ties between their refs and what is open.  *)
PageTypesOK ==
    /\ LiveTypeOK /\ RecorderTypeOK /\ Config!DraftTypeOK
    /\ LabTypeOK /\ Bind!BindTypeOK /\ Jobs!JobTypeOK /\ SearchTypeOK
    /\ Avatar!AvatarTypeOK /\ Mind!MindTypeOK /\ Pairs!PairTypeOK /\ Audio!AudioTypeOK
    /\ Replays!ReplayTypeOK /\ Grade!EvalTypeOK /\ Picker!PickerTypeOK

(* What a page shows of a conversation is so: live voice shows one only    *)
(* when there is one to stop, and says "Live with" the Domia of the        *)
(* session; the lab offers Disconnect while one is in a room; a replay     *)
(* sounds as its card says; an install that is shown is being followed.    *)
ShownIsTrue ==
    /\ HeldWhenShown /\ LiveIsOfTheDomiaShown /\ DisconnectIsOffered
    /\ Replays!ReplayIsHeard /\ Picker!InstallIsFollowed

(* The baseline of the draft is what the node stores (Config!BaselineIsSaved). *)
BaselineIsSaved == Config!BaselineIsSaved

(* What the console writes: a save of a node's configuration has what the  *)
(* user changed; a pairing with Home Assistant replaces one provider; and  *)
(* the evaluation of a conversation is the whole form, in which what the   *)
(* user has not changed is as it was read.                                 *)
SaveTouchesOnlyEdits ==
    Config!SaveTouchesOnlyEdits /\ Pairs!PairingReplacesOne /\ Grade!GradeIsOfThePage

(* A mind is imported as it was confirmed (Mind!ImportIsConfirmed). *)
ImportIsConfirmed == Mind!ImportIsConfirmed

(* A device has its time before it is said to be silent, and a node its    *)
(* tries before the status of an install is said to be unavailable.        *)
SilenceIsFair == Bind!SilenceIsFair /\ Picker!UnavailableIsFair

(* The end of an installation is announced after it, and once, unless two  *)
(* callbacks asked for the job together.                                   *)
AnnouncedOnce == Jobs!AnnouncedOnce

(* The files that the console serves are as it says: the image that a row  *)
(* names is there, whole, and a recording is answered with the bytes asked *)
(* for.                                                                    *)
FilesAreServed == Avatar!RowHasItsFile /\ Audio!ServedIsAsked

(* What a page waits for it tells in the end: that a reply was played, to  *)
(* the node (PlayedIsReported); that a device has connected, that a job    *)
(* has ended and that a replay is over, to the user (Bind!ConnectedIsSeen, *)
(* Jobs!EndedIsShown, Replays!ReplayEnds, Picker!EndedIsFreed).  Rooms,    *)
(* devices and jobs are alike: one of each stands for all.  The world      *)
(* never changes, so that the five are one: it is faster to check.         *)
ToldInTheEnd ==
    LET r == CHOOSE room \in Room : TRUE
        d == CHOOSE dev \in Device : TRUE
        j == CHOOSE one \in Job : TRUE IN
    (\/ world = "voice" /\ ReplyIsOut
     \/ world = "bind" /\ Bind!HasConnected(r, d)
     \/ world = "jobs" /\ Jobs!HasEnded(j)
     \/ world = "replay" /\ replaying /\ ~disturbed
     \/ world = "picker" /\ Picker!ShownWhenOver(j))
    ~> (\/ world = "voice" /\ ReplyIsReported
        \/ world = "bind" /\ ~Bind!HasConnected(r, d)
        \/ world = "jobs" /\ Jobs!IsShown(j)
        \/ world = "replay" /\ (~replaying \/ disturbed)
        \/ world = "picker" /\ Picker!IsFreed(j))
==============================================================================
