--------------------------- MODULE DomiaPageProofs --------------------------
(***************************************************************************)
(* Proofs about the pages of the console that show or change a Domia: its  *)
(* configuration, its mind, its pairing with Home Assistant, the replay    *)
(* and the evaluation of a conversation, for any values, providers, saves, *)
(* files, sections and conversations.                                      *)
(*                                                                         *)
(* As in NodePageProofs, each page is proved as MCConsole instantiates it: *)
(* an inductive invariant, established by its Init and kept by its Next.   *)
(***************************************************************************)
EXTENDS MCConsole, SequenceTheorems, TLAPS

-----------------------------------------------------------------------------
(* grading-panel.tsx: a field the user has not changed is as the page of   *)
(* the conversation was read, unless the form was carried over from        *)
(* another evaluation.                                                     *)
FormIsOfThePage == ~carried => \A f \in Grade!Field \ edited : form[f] = graded.stored[f]

GradeInv == Grade!EvalTypeOK /\ FormIsOfThePage

(* The panel opens with the grading that its page was served. *)
LEMMA GradeOpens == Grade!Init => GradeInv
<1> SUFFICES ASSUME Grade!Init PROVE GradeInv
  OBVIOUS
<1> USE DEF Grade!Init
<1>1. PICK c \in Conversation : graded = [of |-> c, stored |-> label[c]]
  OBVIOUS
<1>2. label[c] \in Grade!Values
  OBVIOUS
<1> QED
  BY <1>1, <1>2 DEF GradeInv, Grade!EvalTypeOK, FormIsOfThePage

(* The page shows a conversation, read anew: a form that was touched stays *)
(* and counts as carried over unless it is what is stored.                 *)
LEMMA ShowKeeps ==
    ASSUME GradeInv, NEW c \in Conversation, Grade!Show(c)
    PROVE  /\ graded' \in [of : Conversation, stored : Grade!Values] /\ graded'.of = c
           /\ form' \in Grade!Values /\ carried' \in BOOLEAN
           /\ ~formTouched => form' = graded'.stored /\ carried' = carried
           /\ carried' => formTouched
           /\ ~carried' => form' = graded'.stored
<1>1. /\ graded' = [of |-> c, stored |-> label[c]] /\ label[c] \in Grade!Values
      /\ form \in Grade!Values /\ formTouched \in BOOLEAN /\ carried \in BOOLEAN
      /\ carried => formTouched
  BY DEF Grade!Show, GradeInv, Grade!EvalTypeOK
<1>2. CASE formTouched
  <2>1. carried' = (carried \/ label[c] # form) /\ form' = form
    BY <1>2 DEF Grade!Show
  <2>2. carried' \in BOOLEAN /\ (~carried' => label[c] = form)
    BY <2>1
  <2> QED
    BY <1>1, <1>2, <2>1, <2>2
<1>3. CASE ~formTouched
  BY <1>1, <1>3 DEF Grade!Show, Grade!Defaults
<1> QED
  BY <1>1, <1>2, <1>3

(* The panel, one action after the other. *)
LEMMA GradeKeeps == GradeInv /\ Grade!Next => GradeInv'
<1> SUFFICES ASSUME GradeInv, Grade!Next PROVE GradeInv'
  OBVIOUS
<1> USE DEF GradeInv, Grade!EvalTypeOK, FormIsOfThePage
<1>1. ASSUME NEW f \in Grade!Field, NEW v \in {"none", "some"}, Grade!Edit(f, v)
      PROVE  GradeInv'
  BY <1>1 DEF Grade!Edit, Grade!Values
<1>2. ASSUME NEW c \in Conversation, Grade!TurnTo(c) PROVE GradeInv'
  BY <1>2, ShowKeeps DEF Grade!TurnTo
<1>3. CASE Grade!SendGrade
  BY <1>3 DEF Grade!SendGrade
<1>4. CASE Grade!GradeFails
  BY <1>4 DEF Grade!GradeFails
<1>5. CASE Grade!Reread
  <2>1. graded.of \in Conversation
    OBVIOUS
  <2>2. Grade!Show(graded.of) /\ UNCHANGED <<label, formTouched, edited, grading>>
        /\ rereading' = FALSE
    BY <1>5 DEF Grade!Reread
  <2> QED
    BY <2>1, <2>2, ShowKeeps
<1>6. ASSUME NEW ok \in BOOLEAN, Grade!GradeStored(ok) PROVE GradeInv'
  <2>1. grading \in [of : Conversation, values : Grade!Values]
    BY <1>6 DEF Grade!GradeStored
  <2>2. label' \in [Conversation -> Grade!Values]
    BY <1>6, <2>1 DEF Grade!GradeStored
  <2>3. rereading' \in BOOLEAN
    BY <1>6 DEF Grade!GradeStored
  <2> QED
    BY <1>6, <2>2, <2>3 DEF Grade!GradeStored
<1>7. ASSUME NEW c \in Conversation, NEW v \in {"none", "some"}, Grade!BulkGrade(c, v)
      PROVE  GradeInv'
  <2>1. label' \in [Conversation -> Grade!Values]
    BY <1>7 DEF Grade!BulkGrade, Grade!Rated, Grade!Values
  <2> QED
    BY <1>7, <2>1 DEF Grade!BulkGrade
<1> QED
  BY <1>1, <1>2, <1>3, <1>4, <1>5, <1>6, <1>7 DEF Grade!Next

(* What a step sends, and what it stores. *)
LEMMA GradeFair ==
    ASSUME GradeInv, Grade!Next
    PROVE  /\ grading = Grade!NoGrade /\ grading' # Grade!NoGrade /\ ~carried =>
                \A f \in Grade!Field \ edited : grading'.values[f] = graded.stored[f]
           /\ \A c \in Conversation : label'[c]["note"] # label[c]["note"] =>
                grading # Grade!NoGrade /\ grading.of = c
<1> USE DEF GradeInv, Grade!EvalTypeOK, FormIsOfThePage
<1>1. CASE Grade!SendGrade
  BY <1>1 DEF Grade!SendGrade
<1>2. ASSUME NEW ok \in BOOLEAN, Grade!GradeStored(ok),
             NEW c \in Conversation, label'[c]["note"] # label[c]["note"]
      PROVE  grading # Grade!NoGrade /\ grading.of = c
  BY <1>2 DEF Grade!GradeStored
<1>3. ASSUME NEW c \in Conversation, NEW v \in {"none", "some"}, Grade!BulkGrade(c, v),
             NEW d \in Conversation
      PROVE  label'[d]["note"] = label[d]["note"]
  <2>1. label' = [label EXCEPT ![c] = [label[c] EXCEPT !["rating"] = v]]
    BY <1>3 DEF Grade!BulkGrade, Grade!Rated
  <2>2. label[c] \in [Grade!Field -> {"none", "some"}] /\ "note" # "rating"
    BY DEF Grade!Values
  <2> QED
    BY <2>1, <2>2
<1>4. grading = Grade!NoGrade /\ grading' # Grade!NoGrade => Grade!SendGrade
  BY DEF Grade!Next, Grade!Edit, Grade!TurnTo, Grade!GradeFails, Grade!Reread,
         Grade!GradeStored, Grade!BulkGrade
<1>5. \/ label' = label
      \/ \E ok \in BOOLEAN : Grade!GradeStored(ok)
      \/ \E c \in Conversation, v \in {"none", "some"} : Grade!BulkGrade(c, v)
  BY DEF Grade!Next, Grade!Edit, Grade!TurnTo, Grade!SendGrade, Grade!GradeFails, Grade!Reread
<1> QED
  BY <1>1, <1>2, <1>3, <1>4, <1>5 DEF Grade!SendGrade

-----------------------------------------------------------------------------
(* replay-card.tsx: until it is disturbed, the recording of the stage of   *)
(* the card is loaded, so that the card's buttons reach it.                *)
StageHasItsTrack ==
    ~disturbed =>
        /\ stage = "input" => track["input"] \in {"loaded", "playing"}
        /\ stage = "response" => track["tts"] \in {"loaded", "playing"}
        /\ replaying => stage \in Replays!Under

ReplayInv == Replays!ReplayTypeOK /\ Replays!ReplayIsHeard /\ StageHasItsTrack

(* The replay opens with its tracks loading. *)
LEMMA ReplayOpens == Replays!Init => ReplayInv
<1> SUFFICES ASSUME Replays!Init PROVE ReplayInv
  OBVIOUS
<1> USE PageAssumption DEF Replays!Init, Replays!Loading, Replays!Kind, Replays!Under
<1>1. /\ has \subseteq Replays!Kind /\ timed = {} /\ stage = "idle" /\ elapsed \in 0 .. Wait
      /\ track \in [Replays!Kind -> {"none", "loading", "loaded", "playing"}]
      /\ \A k \in Replays!Kind : /\ (track[k] = "none") = (k \notin has)
                                 /\ track[k] # "playing"
  OBVIOUS
<1>2. replaying \in BOOLEAN /\ disturbed \in BOOLEAN /\ ~replaying
  OBVIOUS
<1>3. Replays!ReplayTypeOK
  BY <1>1, <1>2 DEF Replays!ReplayTypeOK
<1>4. Replays!ReplayIsHeard /\ StageHasItsTrack
  BY <1>1, <1>2 DEF Replays!ReplayIsHeard, StageHasItsTrack
<1> QED
  BY <1>3, <1>4 DEF ReplayInv

(* The card, one action after the other. *)
LEMMA ReplayKeeps == ReplayInv /\ Replays!Next => ReplayInv'
<1> SUFFICES ASSUME ReplayInv, Replays!Next PROVE ReplayInv'
  OBVIOUS
<1> USE PageAssumption
    DEF ReplayInv, Replays!ReplayTypeOK, Replays!ReplayIsHeard, StageHasItsTrack,
        Replays!Kind, Replays!Under, Replays!Played, Replays!Paused
<1>1. ASSUME NEW k \in Replays!Kind, Replays!TrackReady(k) PROVE ReplayInv'
  BY <1>1 DEF Replays!TrackReady
<1>2. ASSUME NEW k \in Replays!Kind, Replays!PlayPause(k) PROVE ReplayInv'
  BY <1>2 DEF Replays!PlayPause
<1>3. CASE Replays!StartReplay
  BY <1>3 DEF Replays!StartReplay
<1>4. CASE Replays!PauseReplay
  BY <1>4 DEF Replays!PauseReplay
<1>5. CASE Replays!ResumeReplay
  BY <1>5 DEF Replays!ResumeReplay
<1>6. CASE Replays!InputEnds
  BY <1>6 DEF Replays!InputEnds
<1>7. CASE Replays!AnswerEnds
  BY <1>7 DEF Replays!AnswerEnds
<1>8. CASE Replays!Frame
  BY <1>8 DEF Replays!Frame
<1>9. CASE Replays!WaitEnds
  BY <1>9 DEF Replays!WaitEnds
<1>10. ASSUME NEW h \in SUBSET Replays!Kind, Replays!NextTurn(h) PROVE ReplayInv'
  BY <1>10 DEF Replays!NextTurn, Replays!Loading
<1> QED
  BY <1>1, <1>2, <1>3, <1>4, <1>5, <1>6, <1>7, <1>8, <1>9, <1>10 DEF Replays!Next

-----------------------------------------------------------------------------
(* mind-transfer-card.tsx: until a file is shown late, an open dialog is   *)
(* about what the page shows, and so are the import under way and the      *)
(* report.                                                                 *)
ImportRecords ==
    /\ confirm \in [open : BOOLEAN, typed : BOOLEAN]
    /\ import \in [at : {"none", "sent", "applied"}, of : SUBSET Mind!Request]

DialogIsOfTheFile ==
    ~late =>
        /\ confirm.open => bundle # {} /\ agreed = Mind!Asks
        /\ \A q \in report : q.file \in bundle
        /\ import # Mind!NoImport => \A q \in import.of : q.file \in bundle

MindInv == Mind!MindTypeOK /\ ImportRecords /\ DialogIsOfTheFile

(* The import opens with no file chosen. *)
LEMMA MindOpens == Mind!Init => MindInv
<1> SUFFICES ASSUME Mind!Init PROVE MindInv
  OBVIOUS
<1> USE PageAssumption DEF Mind!Init, Mind!Closed, Mind!NoImport
<1>1. picks \in 0 .. MaxPicks /\ latest \in 0 .. picks
  OBVIOUS
<1>2. late \in BOOLEAN /\ ImportRecords
  BY DEF ImportRecords
<1>3. Mind!MindTypeOK
  BY <1>1, <1>2 DEF Mind!MindTypeOK, Mind!Mode
<1> QED
  BY <1>2, <1>3 DEF MindInv, DialogIsOfTheFile

(* What the page shows makes one request at most, a proper one. *)
LEMMA AsksType ==
    ASSUME MindInv
    PROVE  Mind!Asks \subseteq Mind!Request /\ \A q \in Mind!Asks : q.file \in bundle
BY DEF MindInv, Mind!MindTypeOK, Mind!Asks, Mind!Request

(* The card, one action after the other. *)
LEMMA MindKeeps == MindInv /\ Mind!Next => MindInv'
<1> SUFFICES ASSUME MindInv, Mind!Next PROVE MindInv'
  OBVIOUS
<1> DEFINE Files == /\ picks \in 0 .. MaxPicks /\ latest \in 0 .. picks
                    /\ unread \subseteq (1 .. picks) \X (MindFile \union {Broken})
                    /\ bundle \subseteq MindFile /\ \A f, g \in bundle : f = g
           Choice == sections \subseteq Section /\ mode \in Mind!Mode
           TypedOpen == confirm.typed => confirm.open
           Requests == report \subseteq Mind!Request /\ agreed \subseteq Mind!Request
<1>1. /\ Files /\ Choice /\ TypedOpen /\ Requests /\ late \in BOOLEAN
      /\ ImportRecords /\ DialogIsOfTheFile
  BY DEF MindInv, Mind!MindTypeOK
<1>2. SUFFICES /\ Files' /\ Choice' /\ TypedOpen' /\ Requests' /\ late' \in BOOLEAN
               /\ ImportRecords' /\ DialogIsOfTheFile'
  BY DEF MindInv, Mind!MindTypeOK, ImportRecords
<1>3. /\ UNCHANGED <<picks, unread, bundle, latest>> => Files'
      /\ UNCHANGED <<sections, mode>> => Choice'
      /\ UNCHANGED <<report, agreed>> => Requests'
      /\ UNCHANGED late => late' \in BOOLEAN
      /\ UNCHANGED <<confirm, import>> => ImportRecords' /\ TypedOpen'
      /\ UNCHANGED <<bundle, sections, mode>> => Mind!Asks' = Mind!Asks
  BY <1>1 DEF ImportRecords, Mind!Asks
<1>4. ASSUME NEW f \in MindFile \union {Broken}, Mind!PickMind(f)
      PROVE  /\ Files' /\ Choice' /\ TypedOpen' /\ Requests' /\ late' \in BOOLEAN
             /\ ImportRecords' /\ DialogIsOfTheFile'
  <2>1. /\ picks < MaxPicks /\ picks' = picks + 1
        /\ unread' = unread \union {<<picks + 1, f>>}
        /\ UNCHANGED <<bundle, sections, mode, confirm, import, report, agreed, latest, late>>
    BY <1>4 DEF Mind!PickMind
  <2>2. Files'
    <3>1. /\ picks' \in 0 .. MaxPicks /\ latest' \in 0 .. picks'
          /\ 1 .. picks \subseteq 1 .. picks' /\ picks + 1 \in 1 .. picks'
      BY <1>1, <2>1, PageAssumption
    <3> QED
      BY <1>1, <2>1, <3>1
  <2>3. DialogIsOfTheFile'
    BY <1>1, <1>3, <2>1 DEF DialogIsOfTheFile
  <2> QED
    BY <1>3, <2>1, <2>2, <2>3
<1>5. ASSUME NEW f \in MindFile \union {Broken}, NEW n \in 1 .. MaxPicks, Mind!MindRead(n, f)
      PROVE  /\ Files' /\ Choice' /\ TypedOpen' /\ Requests' /\ late' \in BOOLEAN
             /\ ImportRecords' /\ DialogIsOfTheFile'
  <2>1. /\ <<n, f>> \in unread /\ unread' = unread \ {<<n, f>>}
        /\ bundle' = {f} \ {Broken} /\ report' = {} /\ latest' = n
        /\ UNCHANGED <<picks, mode, confirm, import, agreed>>
    BY <1>5 DEF Mind!MindRead
  <2>7. sections' = sections \/ sections' \subseteq Section
    <3> DEFINE filled == [g \in MindFile |-> IF g \in Partial THEN Section \ Omitted
                                            ELSE Section]
    <3>1. sections' = IF f = Broken THEN sections ELSE filled[f]
      BY <1>5 DEF Mind!MindRead
    <3>2. f # Broken => filled[f] \subseteq Section
      OBVIOUS
    <3> QED
      BY <3>1, <3>2
  <2>2. late' = (late \/ confirm.open \/ import # Mind!NoImport \/ n < latest)
    BY <1>5 DEF Mind!MindRead
  <2>3. late' \in BOOLEAN /\ (~late' => ~confirm.open /\ import = Mind!NoImport)
    BY <2>2
  <2>4. Files'
    <3>1. n \in 1 .. picks
      BY <1>1, <2>1
    <3>2. latest' \in 0 .. picks'
      BY <1>1, <2>1, <3>1
    <3> QED
      BY <1>1, <2>1, <3>2
  <2>5. Choice' /\ Requests'
    BY <1>1, <2>1, <2>7
  <2>6. DialogIsOfTheFile'
    BY <2>1, <2>3 DEF DialogIsOfTheFile
  <2> QED
    BY <1>3, <2>1, <2>3, <2>4, <2>5, <2>6
<1>6. ASSUME \/ \E s \in Section : Mind!ToggleSection(s)
             \/ \E w \in Mind!Mode : Mind!SetMode(w)
      PROVE  /\ Files' /\ Choice' /\ TypedOpen' /\ Requests' /\ late' \in BOOLEAN
             /\ ImportRecords' /\ DialogIsOfTheFile'
  <2>1. /\ UNCHANGED <<picks, unread, bundle, confirm, import, report, agreed, latest, late>>
        /\ bundle # {} /\ ~confirm.open
    BY <1>6 DEF Mind!ToggleSection, Mind!SetMode, Mind!Shows
  <2>2. Choice'
    BY <1>1, <1>6 DEF Mind!ToggleSection, Mind!SetMode
  <2>3. DialogIsOfTheFile'
    BY <1>1, <2>1 DEF DialogIsOfTheFile
  <2> QED
    BY <1>3, <2>1, <2>2, <2>3
<1>7. CASE Mind!OpenConfirm
  <2>1. /\ confirm' = [confirm EXCEPT !.open = TRUE] /\ agreed' = Mind!Asks /\ bundle # {}
        /\ UNCHANGED <<picks, unread, bundle, sections, mode, import, report, latest, late>>
    BY <1>7 DEF Mind!OpenConfirm
  <2>2. confirm' \in [open : BOOLEAN, typed : BOOLEAN] /\ confirm'.open
    BY <1>1, <2>1 DEF ImportRecords
  <2>3. DialogIsOfTheFile' /\ Requests'
    BY <1>1, <1>3, <2>1, AsksType DEF DialogIsOfTheFile
  <2> QED
    BY <1>1, <1>3, <2>1, <2>2, <2>3 DEF ImportRecords
<1>8. CASE Mind!TypeName
  <2>1. /\ confirm' = [confirm EXCEPT !.typed = TRUE] /\ confirm.open
        /\ UNCHANGED <<picks, unread, bundle, sections, mode, import, report, agreed, latest, late>>
    BY <1>8 DEF Mind!TypeName, Mind!Shows
  <2>2. confirm' \in [open : BOOLEAN, typed : BOOLEAN] /\ confirm'.open
    BY <1>1, <2>1 DEF ImportRecords
  <2>3. DialogIsOfTheFile'
    BY <1>1, <1>3, <2>1 DEF DialogIsOfTheFile
  <2> QED
    BY <1>1, <1>3, <2>1, <2>2, <2>3 DEF ImportRecords
<1>9. CASE Mind!CloseConfirm
  <2>1. /\ confirm' = [open |-> FALSE, typed |-> FALSE]
        /\ UNCHANGED <<picks, unread, bundle, sections, mode, import, report, agreed, latest, late>>
    BY <1>9 DEF Mind!CloseConfirm, Mind!Closed
  <2>2. DialogIsOfTheFile'
    BY <1>1, <2>1 DEF DialogIsOfTheFile
  <2> QED
    BY <1>1, <1>3, <2>1, <2>2 DEF ImportRecords
<1>10. CASE Mind!ImportSent
  <2>1. /\ import' = [at |-> "sent", of |-> Mind!Asks]
        /\ UNCHANGED <<picks, unread, bundle, sections, mode, confirm, report, agreed, latest, late>>
    BY <1>10 DEF Mind!ImportSent
  <2>2. ImportRecords' /\ TypedOpen'
    BY <1>1, <2>1, AsksType DEF ImportRecords
  <2>3. DialogIsOfTheFile'
    BY <1>1, <1>3, <2>1, AsksType DEF DialogIsOfTheFile
  <2> QED
    BY <1>1, <1>3, <2>1, <2>2, <2>3
<1>11. CASE Mind!ImportApplied
  <2>1. /\ import' = [import EXCEPT !.at = "applied"] /\ import.at = "sent"
        /\ UNCHANGED <<picks, unread, bundle, sections, mode, confirm, report, agreed, latest, late>>
    BY <1>11 DEF Mind!ImportApplied
  <2>2. ImportRecords' /\ TypedOpen' /\ import'.of = import.of /\ import # Mind!NoImport
    BY <1>1, <2>1 DEF ImportRecords, Mind!NoImport
  <2>3. DialogIsOfTheFile'
    BY <1>1, <1>3, <2>1, <2>2 DEF DialogIsOfTheFile
  <2> QED
    BY <1>1, <1>3, <2>1, <2>2, <2>3
<1>12. CASE Mind!ImportDone
  <2>1. /\ import.at = "applied" /\ import' = [at |-> "none", of |-> {}]
        /\ report' = import.of /\ confirm' = [open |-> FALSE, typed |-> FALSE]
        /\ UNCHANGED <<picks, unread, bundle, sections, mode, agreed, latest, late>>
    BY <1>12 DEF Mind!ImportDone, Mind!NoImport, Mind!Closed
  <2>2. ImportRecords' /\ TypedOpen' /\ Requests' /\ import # Mind!NoImport
    BY <1>1, <2>1 DEF ImportRecords, Mind!NoImport
  <2>3. DialogIsOfTheFile'
    BY <1>1, <2>1, <2>2 DEF DialogIsOfTheFile, Mind!NoImport
  <2> QED
    BY <1>1, <1>3, <2>1, <2>2, <2>3
<1>13. CASE Mind!ImportFails
  <2>1. /\ import' = [at |-> "none", of |-> {}]
        /\ UNCHANGED <<picks, unread, bundle, sections, mode, confirm, report, agreed, latest, late>>
    BY <1>13 DEF Mind!ImportFails, Mind!NoImport
  <2>2. ImportRecords' /\ TypedOpen'
    BY <1>1, <2>1 DEF ImportRecords
  <2>3. DialogIsOfTheFile'
    BY <1>1, <1>3, <2>1 DEF DialogIsOfTheFile, Mind!NoImport
  <2> QED
    BY <1>1, <1>3, <2>1, <2>2, <2>3
<1> QED
  BY <1>4, <1>5, <1>6, <1>7, <1>8, <1>9, <1>10, <1>11, <1>12, <1>13 DEF Mind!Next

(* What is sent, what a dialog that opens says, and whose report is shown. *)
LEMMA MindFair ==
    ASSUME MindInv, MindInv', Mind!Next
    PROVE  /\ import'.at = "sent" /\ import' # import /\ ~late =>
                import'.of = agreed /\ confirm.open /\ import = Mind!NoImport
           /\ confirm'.open /\ ~confirm.open => ~confirm'.typed
           /\ ~late' => \A q \in report' : q.file \in bundle'
<1>1. ASSUME import'.at = "sent", import' # import
      PROVE  Mind!ImportSent
  <2>1. \/ import' = import \/ import' = Mind!NoImport
        \/ Mind!ImportSent \/ import' = [import EXCEPT !.at = "applied"]
    BY DEF Mind!Next, Mind!PickMind, Mind!MindRead, Mind!ToggleSection, Mind!SetMode,
           Mind!OpenConfirm, Mind!TypeName, Mind!CloseConfirm, Mind!ImportApplied,
           Mind!ImportDone, Mind!ImportFails
  <2>2. Mind!NoImport.at = "none"
    BY DEF Mind!NoImport
  <2>3. [import EXCEPT !.at = "applied"].at = "applied"
    BY DEF MindInv, ImportRecords
  <2> QED
    BY <1>1, <2>1, <2>2, <2>3
<1>2. ASSUME Mind!ImportSent, ~late
      PROVE  import'.of = agreed /\ confirm.open /\ import = Mind!NoImport
  BY <1>2 DEF Mind!ImportSent, Mind!Shows, MindInv, DialogIsOfTheFile
<1>3. ASSUME confirm'.open, ~confirm.open
      PROVE  ~confirm'.typed
  <2>1. confirm' # confirm /\ confirm' # Mind!Closed
    BY <1>3 DEF Mind!Closed
  <2>2. Mind!OpenConfirm \/ (Mind!TypeName /\ confirm.open)
    BY <2>1 DEF Mind!Next, Mind!PickMind, Mind!MindRead, Mind!ToggleSection, Mind!SetMode,
                Mind!TypeName, Mind!CloseConfirm, Mind!ImportSent, Mind!ImportApplied,
                Mind!ImportDone, Mind!ImportFails, Mind!Shows
  <2>3. confirm' = [confirm EXCEPT !.open = TRUE]
    BY <1>3, <2>2 DEF Mind!OpenConfirm
  <2>4. confirm'.typed = confirm.typed
    BY <2>3 DEF MindInv, ImportRecords
  <2> QED
    BY <1>3, <2>4 DEF MindInv, Mind!MindTypeOK
<1> QED
  BY <1>1, <1>2, <1>3 DEF MindInv, DialogIsOfTheFile

-----------------------------------------------------------------------------
(* use-config-draft.ts and the query of the page: the records they hold.   *)
Answered == [src : {"live", "snapshot"}, rev : 0 .. MaxWrites, config : Config!Config]
SentSave ==
    [at : {"sent", "applied"}, own : BOOLEAN, bundle : SUBSET {"field", "list"},
     draft : Config!Config, base : Config!Config, touched : SUBSET Config!Part,
     rev : 0 .. MaxWrites]

StoredTypes ==
    /\ stored \in Config!Config /\ rev \in 0 .. MaxWrites /\ known \in 0 .. rev
QueryTypes ==
    /\ query = [src |-> "none"] \/ query \in Answered
    /\ \/ fetch = [at |-> "none"] \/ fetch = [at |-> "asked"]
       \/ \E got \in Answered \union {[src |-> "none"]} : fetch = [at |-> "read", got |-> got]
DraftTypes ==
    /\ base \in Config!Config /\ draft \in Config!Config /\ touched \subseteq Config!Part
SaveTypes == saves \in [Save -> {[at |-> "none"]} \union SentSave]

(* What differs between two configurations was touched. *)
Covers(t, c, d) ==
    /\ c.field # d.field => "field" \in t
    /\ \A p \in Provider : ~(p \in c.list <=> p \in d.list) => p \in t

DraftIsTouched == Covers(touched, draft, base) /\ (touched = {} => draft = base)
SaveIsTouched ==
    \A k \in Save : saves[k].at # "none" =>
        /\ Covers(saves[k].touched, saves[k].draft, saves[k].base)
        /\ "field" \in saves[k].bundle => saves[k].draft.field # saves[k].base.field
        /\ "list" \in saves[k].bundle => saves[k].draft.list # saves[k].base.list

(* An answer of the node is of some revision, and what is stored if that   *)
(* is the newest; an answer on its way, and the one shown when none is, is *)
(* not older than the last save the page was told of.                      *)
IsRead(q) ==
    q.src # "none" => q.rev <= rev /\ (q.src = "live" /\ q.rev = rev => q.config = stored)
QueryIsRead ==
    /\ IsRead(query)
    /\ fetch.at = "read" => IsRead(fetch.got) /\ (fetch.got.src = "live" => fetch.got.rev >= known)
    /\ fetch.at = "none" /\ query.src = "live" => query.rev >= known

(* The baseline is the configuration the page was mounted with, until a    *)
(* save that is newer was answered; and a save of the workspace is newer.  *)
BaseIsOfTheQuery == query.src # "none" => base = query.config \/ known > query.rev
OwnIsNewer ==
    \A k \in Save : saves[k].at # "none" =>
        /\ saves[k].rev <= rev
        /\ saves[k].own => query.src # "none"
        /\ saves[k].own /\ saves[k].at = "applied" => saves[k].rev > query.rev

ConfigInv ==
    /\ StoredTypes /\ QueryTypes /\ DraftTypes /\ SaveTypes
    /\ DraftIsTouched /\ SaveIsTouched
    /\ QueryIsRead /\ BaseIsOfTheQuery /\ OwnIsNewer


(* The page opens with no draft, and nothing under way. *)
LEMMA ConfigOpens == Config!Init => ConfigInv
<1> SUFFICES ASSUME Config!Init PROVE ConfigInv
  OBVIOUS
<1> USE PageAssumption DEF Config!Init
<1>1. stored \in Config!Config
  BY DEF Config!Config
<1>2. StoredTypes /\ QueryTypes /\ DraftTypes /\ SaveTypes
  BY <1>1 DEF StoredTypes, QueryTypes, DraftTypes, SaveTypes
<1>3. DraftIsTouched /\ SaveIsTouched
  BY <1>1 DEF DraftIsTouched, SaveIsTouched, Covers, Config!Config
<1>4. QueryIsRead /\ BaseIsOfTheQuery /\ OwnIsNewer
  BY DEF QueryIsRead, IsRead, BaseIsOfTheQuery, OwnIsNewer
<1> QED
  BY <1>2, <1>3, <1>4 DEF ConfigInv

(* What a step leaves alone stays as it is. *)
LEMMA ConfigFrame ==
    ASSUME ConfigInv
    PROVE  /\ UNCHANGED <<stored, rev, known>> => StoredTypes'
           /\ UNCHANGED <<query, fetch>> => QueryTypes'
           /\ UNCHANGED <<base, draft, touched>> => DraftTypes' /\ DraftIsTouched'
           /\ UNCHANGED saves => SaveTypes' /\ SaveIsTouched'
           /\ UNCHANGED <<stored, rev, known, query, fetch>> => QueryIsRead'
           /\ UNCHANGED <<query, base, known>> => BaseIsOfTheQuery'
           /\ UNCHANGED <<saves, rev, query>> => OwnIsNewer'
BY DEF ConfigInv, StoredTypes, QueryTypes, DraftTypes, SaveTypes, DraftIsTouched, Covers,
       SaveIsTouched, QueryIsRead, IsRead, BaseIsOfTheQuery, OwnIsNewer

(* A write: the revision that is stored is newer than every one read. *)
LEMMA WriteIsNewer ==
    ASSUME ConfigInv, rev < MaxWrites, rev' = rev + 1, stored' \in Config!Config,
           UNCHANGED <<query, fetch, base, draft, known, touched>>
    PROVE  /\ StoredTypes' /\ QueryTypes' /\ DraftTypes' /\ DraftIsTouched'
           /\ QueryIsRead' /\ BaseIsOfTheQuery'
<1> USE PageAssumption DEF ConfigInv
<1>1. StoredTypes'
  BY DEF StoredTypes
<1>2. QueryTypes' /\ DraftTypes' /\ DraftIsTouched' /\ BaseIsOfTheQuery'
  BY ConfigFrame
<1>3. ASSUME NEW q, IsRead(q), q = [src |-> "none"] \/ q \in Answered
      PROVE  q.src # "none" => q.rev <= rev' /\ (q.src = "live" /\ q.rev = rev' => q.config = stored')
  BY <1>3 DEF IsRead, Answered, StoredTypes
<1>4. IsRead(query)'
  BY <1>3 DEF QueryIsRead, QueryTypes, IsRead
<1>5. fetch.at = "read" => IsRead(fetch.got)'
  BY <1>3 DEF QueryIsRead, QueryTypes, IsRead
<1>6. QueryIsRead'
  BY <1>4, <1>5 DEF QueryIsRead, IsRead
<1> QED
  BY <1>1, <1>2, <1>6

(* The answer of the query is shown. *)
LEMMA FetchAnsweredKeeps == ConfigInv /\ Config!FetchAnswered => ConfigInv'
<1> SUFFICES ASSUME ConfigInv, Config!FetchAnswered PROVE ConfigInv'
  OBVIOUS
<1> DEFINE got == fetch.got
           Same == Config!Key(query') = Config!Key(query)
<1>1. /\ fetch.at = "read" /\ query' = got /\ fetch' = [at |-> "none"]
      /\ UNCHANGED <<stored, rev, known>>
  BY DEF Config!FetchAnswered
<1>2. /\ got = [src |-> "none"] \/ got \in Answered
      /\ query = [src |-> "none"] \/ query \in Answered
  BY <1>1 DEF ConfigInv, QueryTypes
<1>3. /\ Same \/ got.src = "none" => UNCHANGED <<base, draft, touched>>
      /\ ~Same /\ got.src # "none" =>
            base' = got.config /\ draft' = got.config /\ touched' = {}
      /\ Same => UNCHANGED saves
      /\ ~Same => saves' = [k \in Save |-> IF saves[k].at \in {"sent", "applied"}
                              THEN [saves[k] EXCEPT !.own = FALSE] ELSE saves[k]]
  BY <1>1 DEF Config!FetchAnswered
<1>4. Same => \/ got.src = "none" /\ query.src = "none"
              \/ /\ got.src # "none" /\ query.src # "none"
                 /\ got.rev = query.rev /\ got.config = query.config
  <2>1. \A a, b : [rev |-> a, config |-> b] # [src |-> "none"]
    <3>1. \A a, b : DOMAIN [rev |-> a, config |-> b] = {"rev", "config"}
      OBVIOUS
    <3>2. DOMAIN [src |-> "none"] = {"src"}
      OBVIOUS
    <3> QED
      BY <3>1, <3>2
  <2>2. \A a, b, c, d : [rev |-> a, config |-> b] = [rev |-> c, config |-> d] => a = c /\ b = d
    OBVIOUS
  <2>3. \A q : Config!Key(q) = IF q.src = "none" THEN q ELSE [rev |-> q.rev, config |-> q.config]
    BY DEF Config!Key
  <2>4. (got.src = "none" => got = [src |-> "none"]) /\ (query.src = "none" => query = [src |-> "none"])
    BY <1>2 DEF Answered
  <2> HIDE DEF got
  <2>5. Same => Config!Key(got) = Config!Key(query)
    BY <1>1
  <2> QED
    BY <2>1, <2>2, <2>3, <2>4, <2>5
<1>5. StoredTypes' /\ QueryTypes'
  <2>1. query' = [src |-> "none"] \/ query' \in Answered
    BY <1>1, <1>2
  <2> QED
    BY <1>1, <2>1, ConfigFrame DEF QueryTypes, Answered
<1>6. DraftTypes' /\ DraftIsTouched'
  <2>1. CASE Same \/ got.src = "none"
    BY <1>3, <2>1, ConfigFrame
  <2>2. CASE ~Same /\ got.src # "none"
    <3>1. got.config \in Config!Config
      BY <1>2, <2>2 DEF Answered
    <3> QED
      BY <1>3, <2>2, <3>1 DEF DraftTypes, DraftIsTouched, Covers
  <2> QED
    BY <2>1, <2>2
<1>7. /\ SaveTypes' /\ SaveIsTouched'
      /\ \A k \in Save : /\ saves'[k].at = saves[k].at
                         /\ saves[k].at # "none" =>
                              /\ saves'[k].rev = saves[k].rev
                              /\ ~Same => ~saves'[k].own
                              /\ Same => saves'[k].own = saves[k].own
  <2>1. CASE Same
    BY <1>3, <2>1, ConfigFrame
  <2>2. CASE ~Same
    <3>1. ASSUME NEW k \in Save, saves[k].at = "none"
          PROVE  saves'[k] = [at |-> "none"] /\ saves[k] = [at |-> "none"]
      BY <1>3, <2>2, <3>1 DEF ConfigInv, SaveTypes, SentSave
    <3>2. ASSUME NEW k \in Save, saves[k].at # "none"
          PROVE  /\ saves[k] \in SentSave /\ saves'[k] = [saves[k] EXCEPT !.own = FALSE]
      BY <1>3, <2>2, <3>2 DEF ConfigInv, SaveTypes, SentSave
    <3>3. \A s \in SentSave :
            /\ [s EXCEPT !.own = FALSE] \in SentSave /\ ~[s EXCEPT !.own = FALSE].own
            /\ [s EXCEPT !.own = FALSE].at = s.at /\ [s EXCEPT !.own = FALSE].rev = s.rev
            /\ [s EXCEPT !.own = FALSE].touched = s.touched
            /\ [s EXCEPT !.own = FALSE].draft = s.draft
            /\ [s EXCEPT !.own = FALSE].base = s.base
            /\ [s EXCEPT !.own = FALSE].bundle = s.bundle
      BY DEF SentSave
    <3>4. saves' \in [Save -> {[at |-> "none"]} \union SentSave]
      <4>1. saves' = [k \in Save |-> saves'[k]]
        BY <1>3, <2>2
      <4> QED
        BY <3>1, <3>2, <3>3, <4>1
    <3>5. \A k \in Save : saves'[k].at = saves[k].at
      BY <3>1, <3>2, <3>3
    <3>6. ASSUME NEW k \in Save, saves'[k].at # "none"
          PROVE  /\ saves'[k].touched = saves[k].touched /\ saves'[k].draft = saves[k].draft
                 /\ saves'[k].base = saves[k].base /\ saves'[k].bundle = saves[k].bundle
                 /\ saves[k].at # "none"
      BY <3>2, <3>3, <3>5, <3>6
    <3>7. SaveIsTouched'
      BY <3>6 DEF ConfigInv, SaveIsTouched, Covers
    <3> QED
      BY <2>2, <3>2, <3>3, <3>4, <3>5, <3>7 DEF SaveTypes
  <2> QED
    BY <2>1, <2>2
<1>8. QueryIsRead'
  <2>1. IsRead(got) /\ (got.src = "live" => got.rev >= known)
    BY <1>1 DEF ConfigInv, QueryIsRead
  <2> QED
    BY <1>1, <2>1 DEF QueryIsRead, IsRead
<1>9. BaseIsOfTheQuery'
  BY <1>1, <1>3, <1>4 DEF ConfigInv, BaseIsOfTheQuery
<1>10. OwnIsNewer'
  BY <1>1, <1>4, <1>7 DEF ConfigInv, OwnIsNewer
<1> QED
  BY <1>5, <1>6, <1>7, <1>8, <1>9, <1>10 DEF ConfigInv

(* One save changes: the others stay as they are. *)
LEMMA OneSave ==
    ASSUME ConfigInv, NEW k \in Save, NEW s, s = [at |-> "none"] \/ s \in SentSave,
           saves' = [saves EXCEPT ![k] = s],
           s.at # "none" => /\ Covers(s.touched, s.draft, s.base)
                            /\ "field" \in s.bundle => s.draft.field # s.base.field
                            /\ "list" \in s.bundle => s.draft.list # s.base.list
    PROVE  /\ SaveTypes' /\ SaveIsTouched' /\ saves'[k] = s
           /\ \A j \in Save : j # k => saves'[j] = saves[j]
<1>1. saves'[k] = s /\ \A j \in Save : j # k => saves'[j] = saves[j]
  BY DEF ConfigInv, SaveTypes
<1>2. SaveTypes'
  BY DEF ConfigInv, SaveTypes
<1>3. SaveIsTouched'
  <2> SUFFICES ASSUME NEW j \in Save, saves'[j].at # "none"
               PROVE  /\ Covers(saves'[j].touched, saves'[j].draft, saves'[j].base)
                      /\ "field" \in saves'[j].bundle => saves'[j].draft.field # saves'[j].base.field
                      /\ "list" \in saves'[j].bundle => saves'[j].draft.list # saves'[j].base.list
    BY DEF SaveIsTouched, Covers
  <2>1. CASE j = k
    BY <1>1, <2>1
  <2>2. CASE j # k
    BY <1>1, <2>2 DEF ConfigInv, SaveIsTouched
  <2> QED
    BY <2>1, <2>2
<1> QED
  BY <1>1, <1>2, <1>3

(* Merge takes from a save what is in its bundle. *)
LEMMA MergeType ==
    ASSUME ConfigInv, NEW k \in Save, saves[k].at # "none"
    PROVE  saves[k] \in SentSave /\ Config!Merge(saves[k]) \in Config!Config
<1>1. saves[k] \in SentSave
  BY DEF ConfigInv, SaveTypes
<1>2. stored \in Config!Config /\ saves[k].draft \in Config!Config
  BY <1>1 DEF SentSave, ConfigInv, StoredTypes
<1> QED
  BY <1>1, <1>2 DEF Config!Merge, Config!Config

(* The page, one action after the other. *)
LEMMA ConfigKeeps == ConfigInv /\ Config!Next => ConfigInv'
<1> SUFFICES ASSUME ConfigInv, Config!Next PROVE ConfigInv'
  OBVIOUS
<1>1. CASE Config!Refetch
  <2>1. /\ fetch' = [at |-> "asked"]
        /\ UNCHANGED <<stored, rev, query, base, draft, saves, known, touched>>
    BY <1>1 DEF Config!Refetch, Config!Asked
  <2>2. QueryTypes' /\ QueryIsRead'
    BY <2>1 DEF ConfigInv, QueryTypes, QueryIsRead, IsRead
  <2> QED
    BY <2>1, <2>2, ConfigFrame DEF ConfigInv
<1>2. CASE Config!FetchAnswered
  BY <1>2, FetchAnsweredKeeps
<1>3. CASE Config!Reset
  <2>1. /\ draft' = base /\ touched' = {}
        /\ UNCHANGED <<stored, rev, query, fetch, base, saves, known>>
    BY <1>3 DEF Config!Reset
  <2>2. DraftTypes' /\ DraftIsTouched'
    BY <2>1 DEF ConfigInv, DraftTypes, DraftIsTouched, Covers
  <2> QED
    BY <2>1, <2>2, ConfigFrame DEF ConfigInv
<1>4. ASSUME NEW q \in {Config!Live, Config!Snapshot, [src |-> "none"]}, Config!Read(q)
      PROVE  ConfigInv'
  <2>1. /\ fetch' = [at |-> "read", got |-> q]
        /\ UNCHANGED <<stored, rev, query, base, draft, saves, known, touched>>
    BY <1>4 DEF Config!Read
  <2>2. q \in Answered \union {[src |-> "none"]}
    <3>1. [field |-> StoredField, list |-> StoredList] \in Config!Config /\ 0 \in 0 .. MaxWrites
      BY PageAssumption DEF Config!Config
    <3> QED
      BY <3>1 DEF Config!Live, Config!Snapshot, Answered, ConfigInv, StoredTypes
  <2>3. q.src = "live" => q.rev >= known
    BY PageAssumption DEF Config!Live, Config!Snapshot, IsRead, ConfigInv, StoredTypes
  <2>4. IsRead(q)'
    BY <2>1, PageAssumption DEF Config!Live, Config!Snapshot, IsRead, ConfigInv, StoredTypes
  <2>5. QueryTypes' /\ QueryIsRead'
    BY <2>1, <2>2, <2>3, <2>4 DEF ConfigInv, QueryTypes, QueryIsRead, IsRead
  <2> QED
    BY <2>1, <2>5, ConfigFrame DEF ConfigInv
<1>5. ASSUME NEW v \in Value, Config!EditField(v) PROVE ConfigInv'
  <2>1. /\ draft' = [draft EXCEPT !.field = v] /\ touched' = touched \union {"field"}
        /\ UNCHANGED <<stored, rev, query, fetch, base, saves, known>>
    BY <1>5 DEF Config!EditField
  <2>2. draft' \in Config!Config /\ draft'.list = draft.list
    BY <2>1 DEF ConfigInv, DraftTypes, Config!Config
  <2>3. DraftTypes' /\ DraftIsTouched'
    BY <2>1, <2>2 DEF ConfigInv, DraftTypes, DraftIsTouched, Covers, Config!Part
  <2> QED
    BY <2>1, <2>3, ConfigFrame DEF ConfigInv
<1>6. ASSUME NEW p \in Mine, Config!EditList(p) PROVE ConfigInv'
  <2>1. /\ draft' = [draft EXCEPT !.list = IF p \in draft.list THEN draft.list \ {p}
                                                             ELSE draft.list \union {p}]
        /\ touched' = touched \union {p}
        /\ UNCHANGED <<stored, rev, query, fetch, base, saves, known>>
    BY <1>6 DEF Config!EditList
  <2>2. p \in Provider
    BY PageAssumption
  <2>3. /\ draft' \in Config!Config /\ draft'.field = draft.field
        /\ \A r \in Provider : r # p => (r \in draft'.list <=> r \in draft.list)
    BY <2>1, <2>2 DEF ConfigInv, DraftTypes, Config!Config
  <2>4. DraftTypes' /\ DraftIsTouched'
    BY <2>1, <2>2, <2>3 DEF ConfigInv, DraftTypes, DraftIsTouched, Covers, Config!Part
  <2> QED
    BY <2>1, <2>4, ConfigFrame DEF ConfigInv
<1>7. ASSUME NEW k \in Save, Config!SaveSent(k) PROVE ConfigInv'
  <2> DEFINE s == [at |-> "sent", own |-> TRUE, bundle |-> Config!Bundle, draft |-> draft,
                   base |-> base, touched |-> touched, rev |-> 0]
  <2>1. /\ saves' = [saves EXCEPT ![k] = s] /\ query.src = "live"
        /\ UNCHANGED <<stored, rev, query, fetch, base, draft, known, touched>>
    BY <1>7 DEF Config!SaveSent
  <2>2. /\ Config!Bundle \subseteq {"field", "list"}
        /\ "field" \in Config!Bundle => draft.field # base.field
        /\ "list" \in Config!Bundle => draft.list # base.list
    BY DEF Config!Bundle
  <2>3. s \in SentSave
    BY <2>2, PageAssumption DEF SentSave, ConfigInv, DraftTypes
  <2>4. Covers(s.touched, s.draft, s.base)
    BY DEF ConfigInv, DraftIsTouched, Covers
  <2>5. /\ SaveTypes' /\ SaveIsTouched' /\ saves'[k] = s
        /\ \A j \in Save : j # k => saves'[j] = saves[j]
    <3> HIDE DEF s
    <3>1. /\ "field" \in s.bundle => s.draft.field # s.base.field
          /\ "list" \in s.bundle => s.draft.list # s.base.list
      BY <2>2 DEF s
    <3> QED
      BY <2>1, <2>3, <2>4, <3>1, OneSave
  <2>6. OwnIsNewer'
    BY <2>1, <2>5, PageAssumption DEF ConfigInv, OwnIsNewer, StoredTypes
  <2> QED
    BY <2>1, <2>5, <2>6, ConfigFrame DEF ConfigInv
<1>8. ASSUME NEW k \in Save, Config!SaveFails(k) PROVE ConfigInv'
  <2>1. /\ saves' = [saves EXCEPT ![k] = [at |-> "none"]]
        /\ UNCHANGED <<stored, rev, query, fetch, base, draft, known, touched>>
    BY <1>8 DEF Config!SaveFails
  <2>2. /\ SaveTypes' /\ SaveIsTouched' /\ saves'[k] = [at |-> "none"]
        /\ \A j \in Save : j # k => saves'[j] = saves[j]
    BY <2>1, OneSave
  <2>3. OwnIsNewer'
    BY <2>1, <2>2 DEF ConfigInv, OwnIsNewer
  <2> QED
    BY <2>1, <2>2, <2>3, ConfigFrame DEF ConfigInv
<1>9. ASSUME NEW k \in Save, Config!SaveAnswered(k) PROVE ConfigInv'
  <2>1. /\ saves' = [saves EXCEPT ![k] = [at |-> "none"]] /\ saves[k].at = "applied"
        /\ IF saves[k].own THEN base' = draft /\ touched' = {} ELSE UNCHANGED <<base, touched>>
        /\ known' = IF saves[k].rev > known THEN saves[k].rev ELSE known
        /\ fetch' = [at |-> "asked"]
        /\ UNCHANGED <<stored, rev, query, draft>>
    BY <1>9 DEF Config!SaveAnswered, Config!Invalidate, Config!Asked
  <2>2. /\ SaveTypes' /\ SaveIsTouched' /\ saves'[k] = [at |-> "none"]
        /\ \A j \in Save : j # k => saves'[j] = saves[j]
    BY <2>1, OneSave
  <2>3. saves[k].rev \in 0 .. rev /\ known \in 0 .. rev
    BY <2>1, MergeType DEF SentSave, ConfigInv, OwnIsNewer, StoredTypes
  <2>4. known' \in 0 .. rev' /\ known' >= known /\ known' >= saves[k].rev
    BY <2>1, <2>3
  <2>5. StoredTypes' /\ QueryTypes' /\ QueryIsRead'
    BY <2>1, <2>4 DEF ConfigInv, StoredTypes, QueryTypes, QueryIsRead, IsRead
  <2>6. DraftTypes' /\ DraftIsTouched'
    BY <2>1 DEF ConfigInv, DraftTypes, DraftIsTouched, Covers
  <2>7. BaseIsOfTheQuery'
    <3> SUFFICES ASSUME query.src # "none", ~(known' > query.rev)
                 PROVE  base' = query.config
      BY <2>1 DEF BaseIsOfTheQuery
    <3>1. query.rev \in Nat /\ known \in Nat
      BY <2>3 DEF ConfigInv, StoredTypes, QueryTypes, Answered
    <3>2. ~saves[k].own
      BY <2>1, <2>3, <2>4, <3>1 DEF ConfigInv, OwnIsNewer
    <3> QED
      BY <2>1, <2>3, <2>4, <3>1, <3>2 DEF ConfigInv, BaseIsOfTheQuery
  <2>8. OwnIsNewer'
    BY <2>1, <2>2 DEF ConfigInv, OwnIsNewer
  <2> QED
    BY <2>2, <2>5, <2>6, <2>7, <2>8 DEF ConfigInv
<1>10. ASSUME NEW k \in Save, NEW kept \in BOOLEAN, NEW heard \in BOOLEAN,
              Config!SaveApplied(k, kept, heard)
       PROVE  ConfigInv'
  <2> DEFINE s == IF heard THEN [saves[k] EXCEPT !.at = "applied", !.rev = rev + 1]
                  ELSE [at |-> "none"]
  <2>1. /\ saves' = [saves EXCEPT ![k] = s] /\ saves[k].at = "sent" /\ rev < MaxWrites
        /\ rev' = rev + 1 /\ stored' = IF kept THEN Config!Merge(saves[k]) ELSE stored
        /\ UNCHANGED <<query, fetch, base, draft, known, touched>>
    BY <1>10 DEF Config!SaveApplied
  <2>2. /\ StoredTypes' /\ QueryTypes' /\ DraftTypes' /\ DraftIsTouched'
        /\ QueryIsRead' /\ BaseIsOfTheQuery'
    BY <2>1, MergeType, WriteIsNewer DEF ConfigInv, StoredTypes
  <2>3. saves[k] \in SentSave /\ rev \in Nat /\ rev + 1 \in 0 .. MaxWrites
    BY <2>1, MergeType, PageAssumption DEF ConfigInv, StoredTypes
  <2>4. \/ s = [at |-> "none"]
        \/ /\ s \in SentSave /\ s.at = "applied" /\ s.rev = rev + 1
           /\ s.bundle = saves[k].bundle /\ s.draft = saves[k].draft /\ s.base = saves[k].base
           /\ s.touched = saves[k].touched /\ s.own = saves[k].own
    BY <2>3 DEF SentSave
  <2> HIDE DEF s
  <2>5. /\ SaveTypes' /\ SaveIsTouched' /\ saves'[k] = s
        /\ \A j \in Save : j # k => saves'[j] = saves[j]
    <3>1. s.at # "none" => /\ Covers(s.touched, s.draft, s.base)
                           /\ "field" \in s.bundle => s.draft.field # s.base.field
                           /\ "list" \in s.bundle => s.draft.list # s.base.list
      BY <2>1, <2>4 DEF ConfigInv, SaveIsTouched
    <3> QED
      BY <2>1, <2>4, <3>1, OneSave
  <2>6. query.src # "none" => query.rev \in Nat /\ query.rev <= rev
    BY <2>3 DEF ConfigInv, QueryTypes, Answered, QueryIsRead, IsRead
  <2>7. OwnIsNewer'
    <3> SUFFICES ASSUME NEW j \in Save, saves'[j].at # "none"
                 PROVE  /\ saves'[j].rev <= rev + 1
                        /\ saves'[j].own => query.src # "none"
                        /\ saves'[j].own /\ saves'[j].at = "applied" => saves'[j].rev > query.rev
      BY <2>1 DEF OwnIsNewer
    <3>1. CASE j = k
      BY <2>1, <2>3, <2>4, <2>5, <2>6, <3>1 DEF ConfigInv, OwnIsNewer
    <3>2. CASE j # k
      <4>1. saves[j] \in SentSave /\ saves[j].rev \in Nat
        BY <2>5, <3>2, MergeType DEF SentSave
      <4> QED
        BY <2>3, <2>5, <3>2, <4>1 DEF ConfigInv, OwnIsNewer
    <3> QED
      BY <3>1, <3>2
  <2> QED
    BY <2>2, <2>5, <2>7 DEF ConfigInv
<1>11. ASSUME NEW c \in Config!Config, Config!OtherWrites(c) PROVE ConfigInv'
  <2>1. /\ stored' = c /\ rev < MaxWrites /\ rev' = rev + 1
        /\ UNCHANGED <<query, fetch, base, draft, saves, known, touched>>
    BY <1>11 DEF Config!OtherWrites
  <2>2. /\ StoredTypes' /\ QueryTypes' /\ DraftTypes' /\ DraftIsTouched'
        /\ QueryIsRead' /\ BaseIsOfTheQuery'
    BY <2>1, WriteIsNewer
  <2>3. \A k \in Save : saves[k].at # "none" => saves[k].rev \in Nat
    BY MergeType DEF SentSave
  <2>4. OwnIsNewer'
    BY <2>1, <2>3 DEF ConfigInv, OwnIsNewer, StoredTypes
  <2> QED
    BY <2>1, <2>2, <2>4, ConfigFrame DEF ConfigInv
<1> QED
  BY <1>1, <1>2, <1>3, <1>4, <1>5, <1>6, <1>7, <1>8, <1>9, <1>10, <1>11 DEF Config!Next

(* What the page shows, when no request is under way. *)
LEMMA ConfigShown == ConfigInv => Config!DraftTypeOK /\ Config!BaselineIsSaved
<1> SUFFICES ASSUME ConfigInv PROVE Config!DraftTypeOK /\ Config!BaselineIsSaved
  OBVIOUS
<1>1. Config!DraftTypeOK
  <2>1. query \in Config!Shown
    BY DEF ConfigInv, QueryTypes, Answered, Config!Shown
  <2>2. fetch \in {[at |-> "none"], [at |-> "asked"]} \union [at : {"read"}, got : Config!Shown]
    BY DEF ConfigInv, QueryTypes, Answered, Config!Shown
  <2>3. \A k \in Save : saves[k].at \in {"none", "sent", "applied"}
    BY DEF ConfigInv, SaveTypes, SentSave
  <2> QED
    BY <2>1, <2>2, <2>3
    DEF Config!DraftTypeOK, ConfigInv, StoredTypes, DraftTypes, DraftIsTouched
<1>2. ASSUME Config!Quiet
      PROVE  query.rev >= known /\ (query.rev = rev => query.config = stored /\ base = stored)
  <2>1. fetch.at = "none" /\ query.src = "live" /\ query \in Answered
    BY <1>2 DEF Config!Quiet, Config!Idle, ConfigInv, QueryTypes
  <2>2. query.rev >= known /\ (query.rev = rev => query.config = stored)
    BY <2>1 DEF ConfigInv, QueryIsRead, IsRead
  <2>3. known \in 0 .. rev /\ rev \in Nat
    BY DEF ConfigInv, StoredTypes
  <2>4. query.rev = rev => base = query.config
    BY <2>1, <2>3 DEF ConfigInv, BaseIsOfTheQuery
  <2> QED
    BY <2>2, <2>4
<1> QED
  BY <1>1, <1>2 DEF Config!BaselineIsSaved

(* What the save of a draft changes at the node. *)
LEMMA SaveFair ==
    ASSUME ConfigInv, Config!Next, NEW k \in Save,
           saves[k].at = "sent", rev' # rev, saves'[k].at # "sent"
    PROVE  /\ stored'.field # stored.field => "field" \in saves[k].touched
           /\ \A p \in Provider : Config!InList(p, stored') # Config!InList(p, stored) =>
                \/ p \in saves[k].touched
                \/ /\ Config!InList(p, stored) # Config!InList(p, saves[k].base)
                   /\ saves[k].touched \cap Provider # {}
<1>1. PICK j \in Save, kept, heard \in BOOLEAN : Config!SaveApplied(j, kept, heard)
  BY DEF Config!Next, Config!Refetch, Config!FetchAnswered, Config!Reset, Config!Read,
         Config!EditField, Config!EditList, Config!SaveSent, Config!SaveFails,
         Config!SaveAnswered, Config!OtherWrites
<1>2. j = k
  <2>1. PICK s : saves' = [saves EXCEPT ![j] = s]
    BY <1>1 DEF Config!SaveApplied
  <2> QED
    BY <2>1 DEF ConfigInv, SaveTypes
<1>3. stored' = stored \/ stored' = Config!Merge(saves[k])
  BY <1>1, <1>2 DEF Config!SaveApplied
<1>4. /\ saves[k] \in SentSave /\ saves[k].draft \in Config!Config
      /\ saves[k].base \in Config!Config
  BY MergeType DEF SentSave
<1>5. /\ Covers(saves[k].touched, saves[k].draft, saves[k].base)
      /\ "field" \in saves[k].bundle => saves[k].draft.field # saves[k].base.field
      /\ "list" \in saves[k].bundle => saves[k].draft.list # saves[k].base.list
  BY DEF ConfigInv, SaveIsTouched
<1>6. /\ stored'.field # stored.field => "field" \in saves[k].bundle
      /\ stored'.list # stored.list => "list" \in saves[k].bundle /\ stored'.list = saves[k].draft.list
  BY <1>3 DEF Config!Merge
<1>7. ASSUME NEW p \in Provider, Config!InList(p, stored') # Config!InList(p, stored)
      PROVE  \/ p \in saves[k].touched
             \/ /\ Config!InList(p, stored) # Config!InList(p, saves[k].base)
                /\ saves[k].touched \cap Provider # {}
  <2>1. /\ stored'.list = saves[k].draft.list /\ saves[k].draft.list # saves[k].base.list
        /\ ~(p \in stored'.list <=> p \in stored.list)
    BY <1>5, <1>6, <1>7 DEF Config!InList
  <2>2. \E q \in Provider : ~(q \in saves[k].draft.list <=> q \in saves[k].base.list)
    BY <1>4, <2>1 DEF Config!Config
  <2>3. saves[k].touched \cap Provider # {}
    BY <1>5, <2>2 DEF Covers
  <2>4. CASE p \in saves[k].draft.list <=> p \in saves[k].base.list
    BY <2>1, <2>3, <2>4 DEF Config!InList
  <2>5. CASE ~(p \in saves[k].draft.list <=> p \in saves[k].base.list)
    BY <1>5, <2>5 DEF Covers
  <2> QED
    BY <2>4, <2>5
<1> QED
  BY <1>5, <1>6, <1>7 DEF Covers

-----------------------------------------------------------------------------
(* services/setup.ts: lists are lists of providers, and a call pairs one.  *)
Provs == Seq(Pairs!Entry)
PairRecord ==
    [at : {"none", "read", "over"}, new : SUBSET [name : Name, url : Url], list : Provs]

PairInv ==
    /\ providers \in Provs /\ archive \in Provs
    /\ pair \in [Pair -> PairRecord]
    /\ \A c \in Pair : \A a, b \in pair[c].new : a = b
    /\ edits \in 0 .. MaxEdits /\ skillsEngine \in BOOLEAN

(* The lists that are saved are lists of providers. *)
LEMMA ListsAreProvs == Pairs!Lists \subseteq Provs
<1> SUFFICES ASSUME NEW l \in Pairs!Lists PROVE l \in Provs
  OBVIOUS
<1>1. PICK n \in 0 .. 2 : l \in [1 .. n -> Pairs!Saved]
  BY DEF Pairs!Lists
<1>2. Pairs!Saved \subseteq Pairs!Entry
  BY ChosenAssumption DEF Pairs!Saved, Pairs!Entry, Pairs!Choice
<1>3. l \in [1 .. n -> Pairs!Entry]
  BY <1>1, <1>2
<1> QED
  BY <1>3 DEF Provs

(* Pairing opens with nothing asked of the node. *)
LEMMA PairOpens == Pairs!Init => PairInv
BY ListsAreProvs, PageAssumption DEF Pairs!Init, Pairs!NoPair, PairInv, PairRecord, Provs

(* Others: the list without the provider found, if one is.  (That one of   *)
(* several matches is the first would take an induction; none needs it.)   *)
LEMMA OthersOf ==
    ASSUME NEW list \in Provs, NEW new \in [name : Name, url : Url]
    PROVE  \/ /\ Pairs!Previous(list, new) = {} /\ Pairs!Others(list, new) = list
              /\ \/ Pairs!Matches(list, new) = {}
                 \/ \E i, j \in Pairs!Matches(list, new) : i # j
           \/ \E k \in Pairs!Matches(list, new) :
                /\ k \in 1 .. Len(list) /\ Pairs!Previous(list, new) = {k}
                /\ Pairs!Others(list, new) \in Provs
                /\ Len(Pairs!Others(list, new)) = Len(list) - 1
                /\ \A i \in 1 .. Len(list) - 1 :
                     Pairs!Others(list, new)[i] = IF i < k THEN list[i] ELSE list[i + 1]
<1> DEFINE M == Pairs!Matches(list, new)
           F == Pairs!Previous(list, new)
<1>1. M \subseteq 1 .. Len(list)
  BY DEF Pairs!Matches, Provs
<1>2. CASE F = {}
  <2>1. ASSUME NEW k \in M, \A j \in M : j = k
        PROVE  FALSE
    <3>1. k <= k
      BY <1>1, <2>1
    <3> QED
      BY <1>2, <2>1, <3>1 DEF Pairs!Previous
  <2>2. Pairs!Others(list, new) = list
    BY <1>2 DEF Pairs!Others
  <2> HIDE DEF M, F
  <2>3. M = {} \/ \E i, j \in M : i # j
    BY <2>1
  <2> QED
    BY <1>2, <2>2, <2>3 DEF M, F
<1>3. CASE F # {}
  <2>1. PICK k \in M : \A j \in M : k <= j
    BY <1>3 DEF Pairs!Previous
  <2>2. k \in 1 .. Len(list) /\ F = {k}
    BY <1>1, <2>1 DEF Pairs!Previous
  <2>3. Pairs!Others(list, new) = Pairs!RemoveAt(list, k)
    <3>1. (CHOOSE i \in {k} : TRUE) = k
      OBVIOUS
    <3> QED
      BY <2>2, <3>1 DEF Pairs!Others
  <2> DEFINE a == SubSeq(list, 1, k - 1)
             b == SubSeq(list, k + 1, Len(list))
  <2>4. Pairs!Others(list, new) = a \o b
    BY <2>3 DEF Pairs!RemoveAt
  <2>5. /\ a \in Provs /\ Len(a) = k - 1 /\ b \in Provs /\ Len(b) = Len(list) - k
        /\ \A i \in 1 .. k - 1 : a[i] = list[i]
        /\ \A i \in 1 .. Len(list) - k : b[i] = list[i + k]
    BY <2>2 DEF Provs
  <2> HIDE DEF a, b
  <2>6. /\ a \o b \in Provs /\ Len(a \o b) = Len(list) - 1
        /\ \A i \in 1 .. k - 1 : (a \o b)[i] = list[i]
        /\ \A i \in k .. Len(list) - 1 : (a \o b)[i] = b[i - (k - 1)]
    <3>1. Len(list) \in Nat /\ k \in 1 .. Len(list)
      BY <2>2 DEF Provs
    <3>2. /\ a \o b \in Provs /\ Len(a \o b) = Len(a) + Len(b)
          /\ \A i \in 1 .. Len(a) : (a \o b)[i] = a[i]
          /\ \A i \in Len(a) + 1 .. Len(a) + Len(b) : (a \o b)[i] = b[i - Len(a)]
      <4>1. a \in Seq(Pairs!Entry) /\ b \in Seq(Pairs!Entry)
        BY <2>5 DEF Provs
      <4> QED
        BY <4>1, ConcatProperties DEF Provs
    <3> QED
      BY <2>5, <3>1, <3>2
  <2>7. ASSUME NEW i \in k .. Len(list) - 1
        PROVE  (a \o b)[i] = list[i + 1]
    <3>1. i - (k - 1) \in 1 .. Len(list) - k /\ i - (k - 1) + k = i + 1
      BY <2>2
    <3> QED
      BY <2>5, <2>6, <3>1
  <2>8. \A i \in 1 .. Len(list) - 1 :
          (a \o b)[i] = IF i < k THEN list[i] ELSE list[i + 1]
    BY <2>2, <2>6, <2>7
  <2> QED
    BY <2>1, <2>2, <2>4, <2>6, <2>8
<1> QED
  BY <1>2, <1>3

(* Paired: the new provider goes after the others. *)
LEMMA PairedType ==
    ASSUME NEW list \in Provs, NEW new \in [name : Name, url : Url]
    PROVE  /\ Pairs!Paired(list, new) \in Provs /\ Pairs!Others(list, new) \in Provs
           /\ \E own \in SUBSET Pairs!Choice :
                /\ own = UNION {list[i].own \intersect Pairs!Kept :
                                 i \in Pairs!Previous(list, new)}
                /\ Pairs!Paired(list, new) =
                     Append(Pairs!Others(list, new), [name |-> new.name, url |-> new.url, own |-> own])
<1>1. Pairs!Others(list, new) \in Provs
  BY OthersOf
<1> DEFINE own == UNION {list[i].own \intersect Pairs!Kept :
                          i \in Pairs!Previous(list, new)}
           new3 == [name |-> new.name, url |-> new.url, own |-> own]
<1>5. own \in SUBSET Pairs!Choice
  BY DEF Pairs!Kept, Pairs!Choice
<1>2. new3 \in Pairs!Entry
  BY <1>5 DEF Pairs!Entry
<1>3. Pairs!Paired(list, new) = Append(Pairs!Others(list, new), new3)
  BY DEF Pairs!Paired
<1>4. Pairs!Paired(list, new) \in Provs
  <2> HIDE DEF new3
  <2> QED
    BY <1>1, <1>2, <1>3 DEF Provs
<1> QED
  BY <1>1, <1>3, <1>4, <1>5

(* The pairing, one action after the other. *)
LEMMA PairKeeps == PairInv /\ Pairs!Next => PairInv'
<1> SUFFICES ASSUME PairInv, Pairs!Next PROVE PairInv'
  OBVIOUS
<1> USE DEF PairInv
<1>1. ASSUME NEW c \in Pair, NEW new \in [name : Name, url : Url], NEW live \in BOOLEAN,
             Pairs!PairRead(c, new, live)
      PROVE  PairInv'
  <2> DEFINE r == [at |-> "read", new |-> {new}, list |-> IF live THEN providers ELSE archive]
  <2>1. r \in PairRecord /\ r.new = {new}
    BY DEF PairRecord
  <2>2. pair' = [pair EXCEPT ![c] = r] /\ UNCHANGED <<providers, skillsEngine, archive, edits>>
    BY <1>1 DEF Pairs!PairRead
  <2> HIDE DEF r
  <2> QED
    BY <2>1, <2>2
<1>2. ASSUME NEW c \in Pair, Pairs!PairImported(c) \/ Pairs!PairFails(c)
      PROVE  PairInv'
  <2>1. pair' = [pair EXCEPT ![c].at = "over"] /\ UNCHANGED <<archive, edits>>
    BY <1>2 DEF Pairs!PairImported, Pairs!PairFails
  <2>2. /\ pair' \in [Pair -> PairRecord]
        /\ \A d \in Pair : pair'[d].new = pair[d].new
    BY <2>1 DEF PairRecord
  <2>3. providers' \in Provs
    <3>1. pair[c].list \in Provs /\ pair[c].new \subseteq [name : Name, url : Url]
      BY DEF PairRecord
    <3> QED
      BY <1>2, <3>1, PairedType DEF Pairs!PairImported, Pairs!PairFails
  <2>4. skillsEngine' \in BOOLEAN
    BY <1>2 DEF Pairs!PairImported, Pairs!PairFails
  <2> QED
    BY <2>1, <2>2, <2>3, <2>4
<1>3. CASE Pairs!Archive
  BY <1>3 DEF Pairs!Archive
<1>4. ASSUME NEW list \in Pairs!Lists, NEW on \in BOOLEAN, Pairs!EditProviders(list, on)
      PROVE  PairInv'
  BY <1>4, ListsAreProvs, PageAssumption DEF Pairs!EditProviders
<1> QED
  BY <1>1, <1>2, <1>3, <1>4 DEF Pairs!Next

(* A pairing takes one provider out of a list, the one it matches, and     *)
(* puts one in, which takes over the trust tier and the configuration.     *)
LEMMA PairedReplacesOne ==
    ASSUME NEW list \in Provs, NEW new \in [name : Name, url : Url], Pairs!Named(list),
           NEW list2, list2 = Pairs!Paired(list, new)
    PROVE  LET old == Pairs!Entries(list) \ Pairs!Entries(list2)
               add == Pairs!Entries(list2) \ Pairs!Entries(list) IN
           /\ \A e \in old : e.name = new.name \/ e.url = new.url
           /\ \A e, f \in old : e = f
           /\ \A e \in add : e.name = new.name /\ e.url = new.url
           /\ \A e \in old, f \in add : f.own = e.own \intersect Pairs!Kept
           /\ (\E e \in add : e.own # {}) => old # {}
           /\ Pairs!Named(list2) \/ \E i, j \in Pairs!Matches(list, new) : i # j
<1> DEFINE others == Pairs!Others(list, new)
           old == Pairs!Entries(list) \ Pairs!Entries(list2)
           add == Pairs!Entries(list2) \ Pairs!Entries(list)
<1>1. PICK own \in SUBSET Pairs!Choice :
        /\ own = UNION {list[i].own \intersect Pairs!Kept : i \in Pairs!Previous(list, new)}
        /\ list2 = Append(others, [name |-> new.name, url |-> new.url, own |-> own])
  BY PairedType
<1> DEFINE one == [name |-> new.name, url |-> new.url, own |-> own]
<1>2. one \in Pairs!Entry /\ one.name = new.name /\ one.url = new.url /\ one.own = own
  BY DEF Pairs!Entry
<1> HIDE DEF one
<1>3. /\ others \in Provs /\ list2 \in Provs /\ Len(list2) = Len(others) + 1
      /\ \A i \in 1 .. Len(others) : list2[i] = others[i]
      /\ list2[Len(others) + 1] = one
  <2>1. others \in Provs /\ list2 = Append(others, one)
    BY <1>1, PairedType DEF one
  <2> HIDE DEF others
  <2> QED
    BY <1>2, <2>1 DEF Provs
<1>4. /\ DOMAIN list = 1 .. Len(list) /\ DOMAIN list2 = 1 .. Len(others) + 1
      /\ Len(list) \in Nat /\ Len(others) \in Nat
  BY <1>3 DEF Provs
<1>5. Pairs!Matches(list, new)
        = {i \in 1 .. Len(list) : list[i].name = new.name \/ list[i].url = new.url}
  BY <1>4 DEF Pairs!Matches
<1>7. CASE Pairs!Previous(list, new) = {}
  <2>1. /\ others = list /\ own = {}
        /\ \/ Pairs!Matches(list, new) = {}
           \/ \E i, j \in Pairs!Matches(list, new) : i # j
    <3>1. own = {}
      BY <1>1, <1>7
    <3>2. \A k : Pairs!Previous(list, new) # {k}
      BY <1>7
    <3> QED
      BY <3>1, <3>2, OthersOf
  <2>2. old = {} /\ add \subseteq {one}
    BY <1>3, <1>4, <2>1 DEF Pairs!Entries
  <2>3. Pairs!Matches(list, new) = {} => Pairs!Named(list2)
    <3> SUFFICES ASSUME Pairs!Matches(list, new) = {} PROVE Pairs!Named(list2)
      OBVIOUS
    <3>1. \A i \in 1 .. Len(list) : list[i].name # new.name
      BY <1>5
    <3> QED
      BY <1>2, <1>3, <1>4, <2>1, <3>1 DEF Pairs!Named
  <2> QED
    BY <1>2, <2>1, <2>2, <2>3
<1>8. CASE Pairs!Previous(list, new) # {}
  <2>1. PICK k \in Pairs!Matches(list, new) :
          /\ k \in 1 .. Len(list) /\ Pairs!Previous(list, new) = {k}
          /\ Len(others) = Len(list) - 1
          /\ \A i \in 1 .. Len(list) - 1 :
               others[i] = IF i < k THEN list[i] ELSE list[i + 1]
    BY <1>8, OthersOf
  <2> DEFINE from(i) == IF i < k THEN i ELSE i + 1
  <2>2. \A i \in 1 .. Len(others) :
          /\ from(i) \in 1 .. Len(list) /\ from(i) # k /\ list2[i] = list[from(i)]
          /\ \A j \in 1 .. Len(others) : from(i) = from(j) => i = j
    BY <1>3, <1>4, <2>1
  <2>3. \A m \in 1 .. Len(list) : m # k => \E i \in 1 .. Len(others) : list2[i] = list[m]
    <3> SUFFICES ASSUME NEW m \in 1 .. Len(list), m # k
                 PROVE  \E i \in 1 .. Len(others) : list2[i] = list[m]
      OBVIOUS
    <3>1. CASE m < k
      <4>1. m \in 1 .. Len(others) /\ from(m) = m
        BY <1>4, <2>1, <3>1
      <4> QED
        BY <2>2, <4>1
    <3>2. CASE m > k
      <4>1. m - 1 \in 1 .. Len(others) /\ from(m - 1) = m
        BY <1>4, <2>1, <3>2
      <4> QED
        BY <2>2, <4>1
    <3> QED
      BY <1>4, <2>1, <3>1, <3>2
  <2> HIDE DEF from
  <2>4. own = list[k].own \intersect Pairs!Kept
    BY <1>1, <2>1
  <2>5. old \subseteq {list[k]}
    BY <1>4, <2>3 DEF Pairs!Entries
  <2>6. add \subseteq {one}
    BY <1>3, <1>4, <2>2 DEF Pairs!Entries
  <2>7. list[k].name = new.name \/ list[k].url = new.url
    BY <1>5, <2>1
  <2>8. add # {} => list[k] \in old
    <3> SUFFICES ASSUME add # {}, list[k] \in Pairs!Entries(list2) PROVE FALSE
      BY <1>4, <2>1 DEF Pairs!Entries
    <3>1. one \notin Pairs!Entries(list)
      BY <2>6
    <3>2. list[k] # one
      BY <1>4, <2>1, <3>1 DEF Pairs!Entries
    <3>3. PICK i \in 1 .. Len(others) : list2[i] = list[k]
      BY <1>3, <1>4, <3>2 DEF Pairs!Entries
    <3>4. from(i) \in 1 .. Len(list) /\ from(i) # k /\ list[from(i)].name = list[k].name
      BY <2>2, <3>3
    <3> QED
      BY <1>4, <2>1, <3>4 DEF Pairs!Named
  <2>9. Pairs!Named(list2) \/ \E i, j \in Pairs!Matches(list, new) : i # j
    <3> SUFFICES ASSUME \A i, j \in Pairs!Matches(list, new) : i = j
                 PROVE  Pairs!Named(list2)
      OBVIOUS
    <3>1. ASSUME NEW i \in 1 .. Len(others) PROVE list2[i].name # new.name
      <4>1. from(i) \in 1 .. Len(list) /\ from(i) # k /\ list2[i] = list[from(i)]
        BY <2>2
      <4>2. from(i) \notin Pairs!Matches(list, new)
        BY <2>1, <4>1
      <4> QED
        BY <1>5, <4>1, <4>2
    <3>2. \A i, j \in 1 .. Len(others) : list2[i].name = list2[j].name => i = j
      <4>1. SUFFICES ASSUME NEW i \in 1 .. Len(others), NEW j \in 1 .. Len(others),
                            list2[i].name = list2[j].name
                     PROVE  i = j
        OBVIOUS
      <4>2. /\ from(i) \in DOMAIN list /\ list2[i] = list[from(i)]
            /\ from(j) \in DOMAIN list /\ list2[j] = list[from(j)]
        BY <1>4, <2>2
      <4>3. from(i) = from(j)
        BY <4>1, <4>2 DEF Pairs!Named
      <4> QED
        BY <2>2, <4>3
    <3> QED
      BY <1>2, <1>3, <1>4, <3>1, <3>2 DEF Pairs!Named
  <2> HIDE DEF old, add
  <2> QED
    BY <1>2, <2>4, <2>5, <2>6, <2>7, <2>8, <2>9 DEF old, add
<1> QED
  BY <1>7, <1>8

(* What a call that ends has done to the list of the node. *)
LEMMA PairFair ==
    ASSUME PairInv, Pairs!Next, NEW c \in Pair, NEW new \in pair[c].new,
           pair'[c].at = "over", pair[c].at = "read", providers' # providers,
           pair[c].list = providers
    PROVE  /\ providers \in Provs /\ new \in [name : Name, url : Url]
           /\ providers' = Pairs!Paired(providers, new) /\ skillsEngine'
<1>1. pair[c] \in PairRecord /\ \A a, b \in pair[c].new : a = b
  BY DEF PairInv
<1>2. Pairs!PairImported(c)
  <2>1. PICK d \in Pair : Pairs!PairImported(d)
    <3>1. pair' # pair
      OBVIOUS
    <3> QED
      BY <3>1 DEF Pairs!Next, Pairs!PairRead, Pairs!PairFails, Pairs!Archive,
                  Pairs!EditProviders
  <2>2. pair' = [pair EXCEPT ![d].at = "over"]
    BY <2>1 DEF Pairs!PairImported
  <2>3. d = c
    BY <2>2 DEF PairInv
  <2> QED
    BY <2>1, <2>3
<1> QED
  BY <1>1, <1>2 DEF Pairs!PairImported, PairInv, PairRecord

-----------------------------------------------------------------------------
(* Nothing happens to a grading panel that rests. *)
LEMMA GradeRests == GradeInv /\ Grade!Rests => GradeInv'
BY DEF Grade!Rests, Grade!evalVars, GradeInv, Grade!EvalTypeOK, FormIsOfThePage

(* Nor to a replay card. *)
LEMMA ReplayRests == ReplayInv /\ Replays!Rests => ReplayInv'
BY DEF Replays!Rests, Replays!replayVars, ReplayInv, Replays!ReplayTypeOK,
       Replays!ReplayIsHeard, StageHasItsTrack

(* Nor to the transfer of a mind. *)
LEMMA MindRests == MindInv /\ Mind!Rests => MindInv'
BY DEF Mind!Rests, Mind!mindVars, MindInv, Mind!MindTypeOK, ImportRecords,
       DialogIsOfTheFile, Mind!Asks

(* Nor to a draft of the configuration. *)
LEMMA ConfigRests == ConfigInv /\ Config!Rests => ConfigInv'
BY ConfigFrame DEF Config!Rests, Config!configVars, ConfigInv

(* Nor to the providers. *)
LEMMA PairRests == PairInv /\ Pairs!Rests => PairInv'
BY DEF Pairs!Rests, Pairs!pairVars, PairInv

(* The invariant of the pairing gives its types. *)
LEMMA PairTyped == PairInv => Pairs!PairTypeOK
BY DEF PairInv, PairRecord, Provs, Pairs!PairTypeOK, Pairs!Entries

(* grading-panel.tsx: what the panel always has. *)
THEOREM GradeInvariant == Grade!Spec => []GradeInv
<1>1. GradeInv /\ [Grade!Next]_Grade!evalVars => GradeInv'
  BY GradeKeeps, GradeRests DEF Grade!Rests
<1> QED
  BY GradeOpens, <1>1, PTL DEF Grade!Spec

(* grading-panel.tsx: the evaluation is sent whole, and has in the fields  *)
(* the user has not changed what the conversation was shown with; and what *)
(* is stored is of the conversation it was sent for.                       *)
THEOREM GradesAreOfThePage == Grade!Spec => Grade!GradeIsOfThePage
<1> DEFINE Fair ==
      /\ grading = Grade!NoGrade /\ grading' # Grade!NoGrade /\ ~carried =>
            \A f \in Grade!Field \ edited : grading'.values[f] = graded.stored[f]
      /\ \A c \in Conversation : label'[c]["note"] # label[c]["note"] =>
            grading # Grade!NoGrade /\ grading.of = c
<1>1. GradeInv /\ [Grade!Next]_Grade!evalVars => [Fair]_Grade!evalVars
  BY GradeFair
<1> QED
  BY <1>1, GradeInvariant, PTL DEF Grade!Spec, Grade!GradeIsOfThePage

(* replay-card.tsx: what the card always has, with what it lets sound. *)
THEOREM ReplayInvariant == Replays!Spec => []ReplayInv
<1>1. ReplayInv /\ [Replays!Next]_Replays!replayVars => ReplayInv'
  BY ReplayKeeps, ReplayRests DEF Replays!Rests
<1> QED
  BY ReplayOpens, <1>1, PTL DEF Replays!Spec

(* mind-transfer-card.tsx: what the card always has. *)
THEOREM MindInvariant == Mind!Spec => []MindInv
<1>1. MindInv /\ [Mind!Next]_Mind!mindVars => MindInv'
  BY MindKeeps, MindRests DEF Mind!Rests
<1> QED
  BY MindOpens, <1>1, PTL DEF Mind!Spec

(* mind-transfer-card.tsx: what is imported is what the dialog showed when *)
(* its name was typed, one import at a time, and the report is of the file *)
(* shown, unless a file was read late.                                     *)
THEOREM MindsAreConfirmed == Mind!Spec => Mind!ImportIsConfirmed
<1> DEFINE Confirmed ==
      /\ import'.at = "sent" /\ import' # import /\ ~late =>
            import'.of = agreed /\ confirm.open /\ import = Mind!NoImport
      /\ confirm'.open /\ ~confirm.open => ~confirm'.typed
      /\ ~late' => \A q \in report' : q.file \in bundle'
<1>1. MindInv /\ MindInv' /\ [Mind!Next]_Mind!mindVars => [Confirmed]_Mind!mindVars
  BY MindFair
<1> QED
  BY <1>1, MindInvariant, PTL DEF Mind!Spec, Mind!ImportIsConfirmed

(* use-config-draft.ts: what a draft, its baseline and its saves have. *)
THEOREM ConfigInvariant == Config!Spec => []ConfigInv
<1>1. ConfigInv /\ [Config!Next]_Config!configVars => ConfigInv'
  BY ConfigKeeps, ConfigRests DEF Config!Rests
<1> QED
  BY ConfigOpens, <1>1, PTL DEF Config!Spec

(* use-config-draft.ts: a save changes what the user touched, or what      *)
(* another writer has changed since in the list that was touched.          *)
THEOREM SavesTouchEdits == Config!Spec => Config!SaveTouchesOnlyEdits
<1> DEFINE Edits ==
      \A k \in Save : saves[k].at = "sent" /\ rev' # rev /\ saves'[k].at # "sent" =>
         LET s == saves[k] IN
         /\ stored'.field # stored.field => "field" \in s.touched
         /\ \A p \in Provider : Config!InList(p, stored') # Config!InList(p, stored) =>
              \/ p \in s.touched
              \/ Config!InList(p, stored) # Config!InList(p, s.base) /\ s.touched \cap Provider # {}
<1>1. ConfigInv /\ [Config!Next]_Config!configVars => [Edits]_Config!configVars
  BY SaveFair
<1> QED
  BY <1>1, ConfigInvariant, PTL DEF Config!Spec, Config!SaveTouchesOnlyEdits

(* services/setup.ts: what the lists of providers and the calls have. *)
THEOREM PairInvariant == Pairs!Spec => []PairInv
<1>1. PairInv /\ [Pairs!Next]_Pairs!pairVars => PairInv'
  BY PairKeeps, PairRests DEF Pairs!Rests
<1> QED
  BY PairOpens, <1>1, PTL DEF Pairs!Spec

(* services/setup.ts: a pairing replaces the provider of its name or URL,  *)
(* and no other, takes over its trust tier and its configuration, and      *)
(* leaves the skills engine on, if the list that was read is the node's    *)
(* when it is written.                                                     *)
THEOREM PairingsReplaceOne == Pairs!Spec => Pairs!PairingReplacesOne
<1> DEFINE One ==
      \A c \in Pair : \A new \in pair[c].new :
         /\ pair'[c].at = "over" /\ pair[c].at = "read" /\ providers' # providers
         /\ pair[c].list = providers /\ Pairs!Named(providers)
         => LET old == Pairs!Entries(providers) \ Pairs!Entries(providers')
                add == Pairs!Entries(providers') \ Pairs!Entries(providers) IN
            /\ \A e \in old : e.name = new.name \/ e.url = new.url
            /\ \A e, f \in old : e = f
            /\ \A e \in add : e.name = new.name /\ e.url = new.url
            /\ \A e \in old, f \in add : f.own = e.own \intersect Pairs!Kept
            /\ (\E e \in add : e.own # {}) => old # {}
            /\ Pairs!Named(providers') \/ \E i, j \in Pairs!Matches(providers, new) : i # j
            /\ skillsEngine'
<1>1. ASSUME PairInv, Pairs!Next PROVE One
  <2> SUFFICES ASSUME NEW c \in Pair, NEW new \in pair[c].new,
                      pair'[c].at = "over", pair[c].at = "read", providers' # providers,
                      pair[c].list = providers, Pairs!Named(providers)
               PROVE  LET old == Pairs!Entries(providers) \ Pairs!Entries(providers')
                          add == Pairs!Entries(providers') \ Pairs!Entries(providers) IN
                      /\ \A e \in old : e.name = new.name \/ e.url = new.url
                      /\ \A e, f \in old : e = f
                      /\ \A e \in add : e.name = new.name /\ e.url = new.url
                      /\ \A e \in old, f \in add : f.own = e.own \intersect Pairs!Kept
                      /\ (\E e \in add : e.own # {}) => old # {}
                      /\ \/ Pairs!Named(providers')
                         \/ \E i, j \in Pairs!Matches(providers, new) : i # j
                      /\ skillsEngine'
    OBVIOUS
  <2>1. /\ providers \in Provs /\ new \in [name : Name, url : Url]
        /\ providers' = Pairs!Paired(providers, new) /\ skillsEngine'
    BY <1>1, PairFair
  <2> QED
    BY <2>1, PairedReplacesOne
<1>2. PairInv /\ [Pairs!Next]_Pairs!pairVars => [One]_Pairs!pairVars
  BY <1>1
<1> QED
  BY <1>2, PairInvariant, PTL DEF Pairs!Spec, Pairs!PairingReplacesOne
=============================================================================
