---------------------------- MODULE ConsoleProofs ----------------------------
(***************************************************************************)
(* What the console guarantees on all its pages, whichever page a tab      *)
(* shows, for every value of the constants.                                *)
(*                                                                         *)
(* The pages are proved in VoiceProofs, NodePageProofs and DomiaPageProofs *)
(* and, for the search box of the tables, here.  The console implements    *)
(* the specification of each of its pages (PagesRun): a step is one of the *)
(* page the tab shows, and rests the others.  So what a page guarantees    *)
(* the console does.                                                       *)
(***************************************************************************)
EXTENDS NodePageProofs, DomiaPageProofs, VoiceProofs

-----------------------------------------------------------------------------
(* While the box has sent nothing, nobody else has moved the search; once  *)
(* it has, the text is the search taken, or the one shown when Back came.  *)
SearchInv ==
    /\ SearchTypeOK
    /\ debounce /\ ~behind => taken.q = rendered.q
    /\ ~debounce /\ ~behind => typed \in {taken.q, rendered.q}

(* A page opens with the search of its URL in the box. *)
LEMMA InitAgrees == SearchInit => SearchInv
BY PageAssumption DEF SearchInit, SearchInv, SearchTypeOK, Location

(* Each step of the hook and of the router keeps them in agreement. *)
LEMMA StepAgrees == ASSUME SearchInv, [SearchNext]_searchVars PROVE SearchInv'
<1> USE PageAssumption DEF SearchInv, SearchTypeOK, Location
<1>1. ASSUME NEW t \in Text, Type(t) PROVE SearchInv'
  BY <1>1 DEF Type, Debounce
<1>2. CASE SearchFires
  BY <1>2 DEF SearchFires, Searched
<1>3. CASE Render
  <2>1. CASE taken.q = rendered.q
    BY <1>3, <2>1 DEF Render
  <2>2. CASE taken.q # rendered.q
    BY <1>3, <2>2 DEF Render, Debounce
  <2> QED
    BY <2>1, <2>2
<1>4. ASSUME NEW p \in Page, SetPage(p) PROVE SearchInv'
  BY <1>4 DEF SetPage
<1>5. ASSUME NEW l \in Location, GoBack(l) PROVE SearchInv'
  BY <1>5 DEF GoBack
<1>6. CASE UNCHANGED searchVars
  BY <1>6 DEF searchVars
<1> QED
  BY <1>1, <1>2, <1>3, <1>4, <1>5, <1>6 DEF SearchNext

(* The invariant of the search box. *)
THEOREM SearchInvariant == SearchSpec => []SearchInv
<1>1. SearchInv /\ [SearchNext]_searchVars => SearchInv'
  BY StepAgrees
<1> QED
  BY InitAgrees, <1>1, PTL DEF SearchSpec

(* use-table-params.ts: at rest the box says what the table shows, unless  *)
(* Back crossed the navigation of a search.                                *)
THEOREM BoxAgrees == SearchSpec => []BoxIsTheSearch
<1>1. SearchInv => BoxIsTheSearch
  BY DEF SearchInv, BoxIsTheSearch
<1> QED
  BY <1>1, SearchInvariant, PTL

(* use-table-params.ts: what is being typed is taken back only by a        *)
(* navigation under way, or by Back, and a search starts on page 1.        *)
THEOREM TypingSurvives == SearchSpec => TypingIsKept
<1> DEFINE Kept ==
      /\ debounce /\ ~behind /\ rendered' # rendered => typed' = typed
      /\ debounce /\ ~debounce' /\ taken' # taken => taken'.page = 1
<1>1. ASSUME SearchInv, SearchNext PROVE Kept
  <2>1. CASE Render
    BY <1>1, <2>1 DEF SearchInv, Render
  <2>2. CASE SearchFires
    BY <2>2 DEF SearchFires, Searched
  <2>3. ASSUME NEW t \in Text, Type(t) PROVE Kept
    BY <2>3 DEF Type
  <2>4. ASSUME NEW p \in Page, SetPage(p) PROVE Kept
    BY <2>4 DEF SetPage
  <2>5. ASSUME NEW l \in Location, GoBack(l) PROVE Kept
    BY <2>5 DEF GoBack
  <2> QED
    BY <1>1, <2>1, <2>2, <2>3, <2>4, <2>5 DEF SearchNext
<1>2. SearchInv /\ [SearchNext]_searchVars => [Kept]_searchVars
  BY <1>1
<1> QED
  BY <1>2, SearchInvariant, PTL DEF SearchSpec, TypingIsKept

-----------------------------------------------------------------------------
(* A step of the console is one of a page, or the page rests. *)
LEMMA OnePageSteps ==
    ASSUME Next
    PROVE  /\ LiveNext \/ LiveRests
           /\ RecorderNext \/ RecorderRests
           /\ Config!Next \/ Config!Rests
           /\ LabNext \/ LabRests
           /\ Bind!Next \/ Bind!Rests
           /\ Jobs!Next \/ Jobs!Rests
           /\ SearchNext \/ SearchRests
           /\ Avatar!Next \/ Avatar!Rests
           /\ Mind!Next \/ Mind!Rests
           /\ Pairs!Next \/ Pairs!Rests
           /\ Audio!Next \/ Audio!Rests
           /\ Replays!Next \/ Replays!Rests
           /\ Grade!Next \/ Grade!Rests
           /\ Picker!Next \/ Picker!Rests
BY DEF Next, In

(* When nothing happens, no page changes. *)
LEMMA AllRest ==
    ASSUME UNCHANGED consoleVars
    PROVE  /\ LiveRests /\ RecorderRests /\ Config!Rests /\ LabRests /\ Bind!Rests
           /\ Jobs!Rests /\ SearchRests /\ Avatar!Rests /\ Mind!Rests /\ Pairs!Rests
           /\ Audio!Rests /\ Replays!Rests /\ Grade!Rests /\ Picker!Rests
BY DEF consoleVars, LiveRests, RecorderRests, Config!Rests, LabRests, Bind!Rests,
       Jobs!Rests, SearchRests, Avatar!Rests, Mind!Rests, Pairs!Rests,
       Audio!Rests, Replays!Rests, Grade!Rests, Picker!Rests

(* The console implements the specification of each of its pages: what it  *)
(* starts with, what it does and what it keeps doing.                      *)
THEOREM PagesRun ==
    Spec => /\ LiveSpec /\ RecorderSpec /\ Config!Spec /\ LabSpec /\ Bind!Spec
            /\ Jobs!Spec /\ SearchSpec /\ Avatar!Spec /\ Mind!Spec /\ Pairs!Spec
            /\ Audio!Spec /\ Replays!Spec /\ Grade!Spec /\ Picker!Spec
<1>1. Init => /\ LiveInit /\ RecorderInit /\ Config!Init /\ LabInit /\ Bind!Init
              /\ Jobs!Init /\ SearchInit /\ Avatar!Init /\ Mind!Init /\ Pairs!Init
              /\ Audio!Init /\ Replays!Init /\ Grade!Init /\ Picker!Init
  BY DEF Init
<1>2. [Next]_consoleVars => [LiveNext]_liveVars
  BY OnePageSteps, AllRest DEF LiveRests
<1>3. [Next]_consoleVars => [RecorderNext]_recorderVars
  BY OnePageSteps, AllRest DEF RecorderRests
<1>4. [Next]_consoleVars => [Config!Next]_Config!configVars
  BY OnePageSteps, AllRest DEF Config!Rests
<1>5. [Next]_consoleVars => [LabNext]_labVars
  BY OnePageSteps, AllRest DEF LabRests
<1>6. [Next]_consoleVars => [Bind!Next]_Bind!bindVars
  BY OnePageSteps, AllRest DEF Bind!Rests
<1>7. [Next]_consoleVars => [Jobs!Next]_Jobs!jobVars
  BY OnePageSteps, AllRest DEF Jobs!Rests
<1>8. [Next]_consoleVars => [SearchNext]_searchVars
  BY OnePageSteps, AllRest DEF SearchRests
<1>9. [Next]_consoleVars => [Avatar!Next]_Avatar!avatarVars
  BY OnePageSteps, AllRest DEF Avatar!Rests
<1>10. [Next]_consoleVars => [Mind!Next]_Mind!mindVars
  BY OnePageSteps, AllRest DEF Mind!Rests
<1>11. [Next]_consoleVars => [Pairs!Next]_Pairs!pairVars
  BY OnePageSteps, AllRest DEF Pairs!Rests
<1>12. [Next]_consoleVars => [Audio!Next]_Audio!audioVars
  BY OnePageSteps, AllRest DEF Audio!Rests
<1>13. [Next]_consoleVars => [Replays!Next]_Replays!replayVars
  BY OnePageSteps, AllRest DEF Replays!Rests
<1>14. [Next]_consoleVars => [Grade!Next]_Grade!evalVars
  BY OnePageSteps, AllRest DEF Grade!Rests
<1>15. [Next]_consoleVars => [Picker!Next]_Picker!pickerVars
  BY OnePageSteps, AllRest DEF Picker!Rests
<1> QED
  BY <1>1, <1>2, <1>3, <1>4, <1>5, <1>6, <1>7, <1>8, <1>9, <1>10, <1>11, <1>12, <1>13, <1>14, <1>15,
     PTL
  DEF Spec, LiveSpec, RecorderSpec, Config!Spec, LabSpec, Bind!Spec, Jobs!Spec, SearchSpec,
      Avatar!Spec, Mind!Spec, Pairs!Spec, Audio!Spec, Replays!Spec, Grade!Spec, Picker!Spec

-----------------------------------------------------------------------------
(* The types of all pages, with the ties between their refs and what is    *)
(* open: a page refers to one session, one room, one file at most.         *)
THEOREM PageTypesHold == Spec => []PageTypesOK
<1>1. /\ ConfigInv => Config!DraftTypeOK
      /\ BindInv => Bind!BindTypeOK
      /\ JobInv => Jobs!JobTypeOK
      /\ SearchInv => SearchTypeOK
      /\ AvatarInv => Avatar!AvatarTypeOK
      /\ MindInv => Mind!MindTypeOK
      /\ PairInv => Pairs!PairTypeOK
      /\ AudioInv => Audio!AudioTypeOK
      /\ ReplayInv => Replays!ReplayTypeOK
      /\ GradeInv => Grade!EvalTypeOK
      /\ PickerInv => Picker!PickerTypeOK
  BY ConfigShown, JobsTyped, AvatarServed, PairTyped
  DEF BindInv, SearchInv, MindInv, AudioInv, ReplayInv, GradeInv, PickerInv
<1>2. LiveSpec /\ RecorderSpec /\ LabSpec => []LiveTypeOK /\ []RecorderTypeOK /\ []LabTypeOK
  BY LiveTypes, RecorderTypes, LabTypes, PTL
<1> QED
  BY <1>1, <1>2, PagesRun, ConfigInvariant, BindInvariant, JobInvariant, SearchInvariant,
     AvatarInvariant, MindInvariant, PairInvariant, AudioInvariant, ReplayInvariant,
     GradeInvariant, PickerInvariant, PTL DEF PageTypesOK

(* What a page shows of a conversation, of a call, of a replay and of an   *)
(* install is so.                                                          *)
THEOREM WhatIsShownIsTrue == Spec => []ShownIsTrue
<1>1. (ReplayInv => Replays!ReplayIsHeard) /\ (PickerInv => Picker!InstallIsFollowed)
  BY DEF ReplayInv, PickerInv
<1> QED
  BY <1>1, PagesRun, LiveIsTrue, DisconnectStaysOffered, ReplayInvariant, PickerInvariant, PTL
  DEF ShownIsTrue

(* The end of an install is announced after it, and once, unless two       *)
(* callbacks of the interval asked for the job together.                   *)
THEOREM ConsoleAnnouncesOnce == Spec => []AnnouncedOnce
BY PagesRun, InstallsAreAnnouncedOnce, PTL DEF AnnouncedOnce

(* use-config-draft.ts: the baseline of a draft is what the node stores,   *)
(* once nothing is under way and the page has read the node.               *)
THEOREM BaselinesAreSaved == Spec => []BaselineIsSaved
<1>1. ConfigInv => BaselineIsSaved
  BY ConfigShown DEF BaselineIsSaved
<1> QED
  BY <1>1, PagesRun, ConfigInvariant, PTL

(* The image that a row names is there, whole, unless a change failed or   *)
(* was cut short; a recording is answered with the bytes asked for.        *)
THEOREM FilesStayServed == Spec => []FilesAreServed
<1>1. AvatarInv /\ AudioInv => FilesAreServed
  BY AvatarServed DEF AudioInv, AudioStages, FilesAreServed
<1> QED
  BY <1>1, PagesRun, AvatarInvariant, AudioInvariant, PTL

(* A save of a configuration changes what the user changed; a pairing      *)
(* replaces one provider; an evaluation is written whole, the fields the   *)
(* user has not changed as they were read.                                 *)
THEOREM WritesAreEdits == Spec => SaveTouchesOnlyEdits
BY PagesRun, SavesTouchEdits, PairingsReplaceOne, GradesAreOfThePage, PTL
DEF SaveTouchesOnlyEdits

(* A mind is imported as it was confirmed. *)
THEOREM ImportsAreConfirmed == Spec => ImportIsConfirmed
BY PagesRun, MindsAreConfirmed, PTL DEF ImportIsConfirmed

(* A device has its time, and a node its tries, before the console says    *)
(* that it is silent.                                                      *)
THEOREM SilenceStaysFair == Spec => SilenceIsFair
BY PagesRun, DeviceHasItsTime, StatusHasItsTries, PTL DEF SilenceIsFair

(* What live voice, the recorder, the lab and the tables guarantee alone   *)
(* they guarantee in the console.                                          *)
THEOREM ConsoleKeepsItsPages ==
    Spec => /\ []MicsAreHeld /\ []MicMeansRecording /\ []ClipIsOneTake
            /\ []RoomsAreHeld /\ []BoxIsTheSearch
            /\ PlayedIsTrue /\ TypingIsKept
BY PagesRun, MicsStayHeld, MicrophoneMeansRecording, ClipsAreOneTake, RoomsStayHeld,
   BoxAgrees, PlayedStaysTrue, TypingSurvives, PTL
=============================================================================
