------------------------------ MODULE ModelPicker -----------------------------
(***************************************************************************)
(* Installing a model from a field of the configuration: ModelPicker       *)
(* starts the job on the node and asks for its status again and again, one *)
(* timer after the other, until it has ended or the node has failed to     *)
(* answer too often in a row.                                              *)
(*                                                                         *)
(* A picker goes when the page is left or the configuration is loaded      *)
(* anew.  It then clears its timer; a request it is waiting for goes on,   *)
(* and the polls that follow, which nothing can stop any more.             *)
(***************************************************************************)
EXTENDS Naturals

CONSTANTS
    Job,
    MaxFailures   \* MAX_POLL_FAILURES

VARIABLES
    installing,   \* the install the picker on the page shows
    chain,        \* the polls of each install, and whose they are
    atNode,       \* status of a job at the node: done and error are "ended"
    thrown,       \* history: installs of the picker whose poll was rejected
    misses,       \* history: polls of an install that failed since one did not
    unavailable   \* history: installs whose status was said to be unavailable

pickerVars == <<installing, chain, atNode, thrown, misses, unavailable>>
Rests == UNCHANGED pickerVars

-----------------------------------------------------------------------------
None == "none"
Active == {"post", "timer", "asked"}

PickerTypeOK ==
    /\ installing \in Job \union {None}
    /\ chain \in [Job -> [at : Active \union {"none", "over"}, mine : BOOLEAN,
                         failures : 0 .. MaxFailures]]
    /\ atNode \in [Job -> {"none", "running", "ended"}]
    /\ thrown \subseteq Job /\ unavailable \subseteq Job
    /\ misses \in [Job -> 0 .. MaxFailures + 1]

Init ==
    /\ installing = None /\ thrown = {} /\ unavailable = {}
    /\ chain = [j \in Job |-> [at |-> "none", mine |-> FALSE, failures |-> 0]]
    /\ atNode = [j \in Job |-> "none"] /\ misses = [j \in Job |-> 0]

-----------------------------------------------------------------------------
(* setInstalling(null), which does nothing for a picker that is gone. *)
Freed(j) == IF chain[j].mine THEN None ELSE installing

Over(j) == chain' = [chain EXCEPT ![j].at = "over"]
Schedule(j, n) == chain' = [chain EXCEPT ![j].at = "timer", ![j].failures = n]

(* onInstall; its button is disabled while an install is shown. *)
OnInstall(j) ==
    /\ installing = None /\ chain[j].at = "none"
    /\ installing' = j /\ chain' = [chain EXCEPT ![j].at = "post", ![j].mine = TRUE]
    /\ UNCHANGED <<atNode, thrown, misses, unavailable>>

(* The node has started the job, and the first poll is scheduled.  The     *)
(* field is given the model at once: an edit of the draft, which is        *)
(* ConfigDraft's, and which stays when the install fails.                  *)
InstallStarted(j) ==
    /\ chain[j].at = "post" /\ Schedule(j, 0)
    /\ atNode' = [atNode EXCEPT ![j] = "running"]
    /\ UNCHANGED <<installing, thrown, misses, unavailable>>

\* Mutant: a failed install is shown for ever.
InstallFails_Silent(j) ==
    /\ chain[j].at = "post" /\ Over(j)
    /\ atNode' \in {atNode, [atNode EXCEPT ![j] = "running"]}
    /\ UNCHANGED <<installing, thrown, misses, unavailable>>

(* It has not, or its answer is lost. *)
InstallFails(j) ==
    /\ chain[j].at = "post" /\ Over(j) /\ installing' = Freed(j)
    /\ atNode' \in {atNode, [atNode EXCEPT ![j] = "running"]}
    /\ UNCHANGED <<thrown, misses, unavailable>>

TimerFires(j) ==
    /\ chain[j].at = "timer" /\ chain' = [chain EXCEPT ![j].at = "asked"]
    /\ UNCHANGED <<installing, atNode, thrown, misses, unavailable>>

\* Mutant: the failures before an answer still count.
StillRuns_Counts(j) ==
    /\ chain[j].at = "asked" /\ atNode[j] = "running"
    /\ Schedule(j, chain[j].failures) /\ misses' = [misses EXCEPT ![j] = 0]
    /\ UNCHANGED <<installing, atNode, thrown, unavailable>>

(* The node answers that the job is running. *)
StillRuns(j) ==
    /\ chain[j].at = "asked" /\ atNode[j] = "running"
    /\ Schedule(j, 0) /\ misses' = [misses EXCEPT ![j] = 0]
    /\ UNCHANGED <<installing, atNode, thrown, unavailable>>

(* The node answers that it has ended. *)
HasEnded(j) ==
    /\ chain[j].at = "asked" /\ atNode[j] = "ended"
    /\ Over(j) /\ installing' = Freed(j) /\ misses' = [misses EXCEPT ![j] = 0]
    /\ UNCHANGED <<atNode, thrown, unavailable>>

\* Mutant: a poll that fails is the last.
PollFails_Stops(j) ==
    /\ chain[j].at = "asked" /\ Over(j)
    /\ misses' = [misses EXCEPT ![j] = @ + 1]
    /\ UNCHANGED <<installing, atNode, thrown, unavailable>>

(* The console cannot get the status from the node. *)
PollFails(j) ==
    /\ chain[j].at = "asked" /\ misses' = [misses EXCEPT ![j] = @ + 1]
    /\ IF chain[j].failures < MaxFailures
       THEN Schedule(j, chain[j].failures + 1) /\ UNCHANGED <<installing, unavailable>>
       ELSE /\ Over(j) /\ installing' = Freed(j)
            /\ unavailable' = unavailable \union {j}
    /\ UNCHANGED <<atNode, thrown>>

(* The browser cannot get it from the console: tick throws. *)
PollRejected(j) ==
    /\ chain[j].at = "asked" /\ Over(j)
    /\ thrown' = IF chain[j].mine THEN thrown \union {j} ELSE thrown
    /\ UNCHANGED <<installing, atNode, misses, unavailable>>

JobEnds(j) ==
    /\ atNode[j] = "running" /\ atNode' = [atNode EXCEPT ![j] = "ended"]
    /\ UNCHANGED <<installing, chain, thrown, misses, unavailable>>

(* The picker goes, and another one may take its place. *)
PickerGoes ==
    /\ installing' = None
    /\ chain' = [j \in Job |->
          [chain[j] EXCEPT !.mine = FALSE,
                           !.at = IF chain[j].mine /\ @ = "timer" THEN "over" ELSE @]]
    /\ UNCHANGED <<atNode, thrown, misses, unavailable>>

Next ==
    \/ \E j \in Job :
        \/ OnInstall(j) \/ InstallStarted(j) \/ InstallFails(j)
        \/ TimerFires(j) \/ StillRuns(j) \/ HasEnded(j) \/ PollFails(j)
        \/ PollRejected(j) \/ JobEnds(j)
    \/ PickerGoes

(* Timers fire, and requests are answered, one way or another. *)
Fairness ==
    \A j \in Job : WF_pickerVars(\/ TimerFires(j) \/ StillRuns(j) \/ HasEnded(j)
                                 \/ PollFails(j) \/ PollRejected(j))

Spec == Init /\ [][Next]_pickerVars /\ Fairness

-----------------------------------------------------------------------------
(* The picker shows the install that it started and still follows, and no  *)
(* other; one whose poll was rejected it shows for ever.                   *)
InstallIsFollowed ==
    \A j \in Job :
        /\ chain[j].mine /\ chain[j].at \in Active => installing = j
        /\ installing = j => chain[j].mine /\ (chain[j].at \in Active \/ j \in thrown)

(* A status is said to be unavailable after that many polls in a row have  *)
(* failed, and not for failures that an answer came between.               *)
UnavailableIsFair ==
    [][\A j \in unavailable' \ unavailable : misses'[j] = MaxFailures + 1]_pickerVars

(* An install that has ended is not shown any longer, in the end. *)
ShownWhenOver(j) == installing = j /\ atNode[j] = "ended"
IsFreed(j) == installing # j \/ j \in thrown
EndedIsFreed(j) == ShownWhenOver(j) ~> IsFreed(j)
=============================================================================
