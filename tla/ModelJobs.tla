------------------------------ MODULE ModelJobs ------------------------------
(***************************************************************************)
(* Installing models on a node: ModelsManager starts a job on the node and *)
(* polls every job that it shows as running until it has ended.            *)
(*                                                                         *)
(* One interval polls.  Each time it fires, its callback asks for the jobs *)
(* one after the other and waits for each answer; a callback that is still *)
(* waiting does not hold back the next one.  An effect that runs on every  *)
(* change of the jobs replaces the interval by one that knows the new jobs.*)
(***************************************************************************)
EXTENDS Naturals

CONSTANTS
    Job,
    Round      \* bound: callbacks of the interval under way together

VARIABLES
    managing,  \* the component is mounted
    install,   \* jobs whose POST has been answered by the node only
    job,       \* status of a job at the node: done and error are "ended"
    jobs,      \* the jobs the page shows, and their status
    interval,  \* the running jobs the callback of the interval knows
    polls,     \* per callback: the jobs to ask for, and the one it waits for
    told,      \* history: how often the end of a job was announced
    overlapped \* history: jobs that two callbacks asked for together

jobVars == <<managing, install, job, jobs, interval, polls, told, overlapped>>
Rests == UNCHANGED jobVars

-----------------------------------------------------------------------------
NoPoll == [todo |-> {}, asked |-> {}, got |-> "none"]
Busy(p) == polls[p].todo \union polls[p].asked

JobTypeOK ==
    /\ managing \in BOOLEAN /\ install \subseteq Job
    /\ job \in [Job -> {"none", "running", "ended", "gone"}]
    /\ jobs \in [Job -> {"none", "running", "ended"}]
    /\ interval = IF managing THEN {j \in Job : jobs[j] = "running"} ELSE {}
    /\ polls \in [Round -> [todo : SUBSET Job, asked : SUBSET Job,
                           got : {"none", "running", "ended", "failed"}]]
    /\ \A p \in Round : \A i, j \in polls[p].asked : i = j
    /\ told \in [Job -> 0 .. 2] /\ overlapped \subseteq Job

Init ==
    /\ managing = TRUE /\ install = {}
    /\ job = [j \in Job |-> "none"] /\ jobs = [j \in Job |-> "none"]
    /\ interval = {} /\ polls = [p \in Round |-> NoPoll]
    /\ told = [j \in Job |-> 0] /\ overlapped = {}

-----------------------------------------------------------------------------
\* Mutant: an interval that is there is kept with the jobs it knows.
Effect_KeepsInterval(list) ==
    LET running == {j \in Job : list[j] = "running"} IN
    interval' = IF running # {} /\ interval # {} THEN interval ELSE running

(* The effect after a change of the jobs. *)
Effect(list) == interval' = {j \in Job : list[j] = "running"}

(* setJobs, of a component that is mounted or gone. *)
SetJobs(list) ==
    IF managing THEN jobs' = list /\ Effect(list) ELSE UNCHANGED <<jobs, interval>>

(* installModel: the node starts the job. *)
InstallSent(j) ==
    /\ managing /\ job[j] = "none"
    /\ job' = [job EXCEPT ![j] = "running"] /\ install' = install \union {j}
    /\ UNCHANGED <<managing, jobs, interval, polls, told, overlapped>>

(* onDone of the install, or an answer that was lost. *)
InstallAnswered(j, ok) ==
    /\ j \in install /\ install' = install \ {j}
    /\ IF ok THEN SetJobs([jobs EXCEPT ![j] = "running"])
       ELSE UNCHANGED <<jobs, interval>>
    /\ UNCHANGED <<managing, job, polls, told, overlapped>>

(* The node ends the job, or has forgotten it after a restart. *)
JobEnds(j, how) ==
    /\ job[j] = "running" \/ (how = "gone" /\ job[j] = "ended")
    /\ job' = [job EXCEPT ![j] = how]
    /\ UNCHANGED <<managing, install, jobs, interval, polls, told, overlapped>>

(* The interval fires. *)
PollTick(p) ==
    /\ interval # {} /\ polls[p] = NoPoll
    /\ polls' = [polls EXCEPT ![p].todo = interval]
    /\ overlapped' = overlapped \union
                       (interval \cap UNION {Busy(q) : q \in Round})
    /\ UNCHANGED <<managing, install, job, jobs, interval, told>>

(* The callback asks for its next job. *)
AskJob(p, j) ==
    /\ polls[p].asked = {} /\ j \in polls[p].todo
    /\ polls' = [polls EXCEPT ![p] = [todo |-> @.todo \ {j}, asked |-> {j}, got |-> "none"]]
    /\ UNCHANGED <<managing, install, job, jobs, interval, told, overlapped>>

(* getModelJob: the node answers, or its answer says that it failed. *)
JobRead(p, ok) ==
    /\ polls[p].asked # {} /\ polls[p].got = "none"
    /\ \E j \in polls[p].asked :
          polls' = [polls EXCEPT ![p].got =
                      IF ok /\ job[j] # "gone" THEN job[j] ELSE "failed"]
    /\ UNCHANGED <<managing, install, job, jobs, interval, told, overlapped>>

(* The request itself is rejected: that ends the callback, and the jobs    *)
(* that it has not asked for are left to the next.                         *)
JobRejected(p) ==
    /\ polls[p].asked # {} /\ polls[p].got = "none"
    /\ polls' = [polls EXCEPT ![p] = NoPoll]
    /\ UNCHANGED <<managing, install, job, jobs, interval, told, overlapped>>

\* Mutant: the end is announced but not shown.
JobAnswered_NotShown(p) ==
    /\ polls[p].got # "none"
    /\ polls' = [polls EXCEPT ![p] = [todo |-> @.todo, asked |-> {}, got |-> "none"]]
    /\ \E j \in polls[p].asked :
          told' = IF polls[p].got = "ended" /\ told[j] < 2
                  THEN [told EXCEPT ![j] = @ + 1] ELSE told
    /\ UNCHANGED <<managing, install, job, jobs, interval, overlapped>>

(* The callback goes on: the status is shown, its end announced, also on   *)
(* another page.  Bound: announcements are counted to two.                 *)
JobAnswered(p) ==
    /\ polls[p].got # "none"
    /\ polls' = [polls EXCEPT ![p] = [todo |-> @.todo, asked |-> {}, got |-> "none"]]
    /\ \E j \in polls[p].asked :
          IF polls[p].got = "failed" THEN UNCHANGED <<jobs, interval, told>>
          ELSE /\ SetJobs([jobs EXCEPT ![j] = polls[p].got])
               /\ told' = IF polls[p].got = "ended" /\ told[j] < 2
                          THEN [told EXCEPT ![j] = @ + 1] ELSE told
    /\ UNCHANGED <<managing, install, job, overlapped>>

(* The page is left: the interval is cleared, a callback goes on. *)
LeaveModels ==
    /\ managing /\ managing' = FALSE /\ interval' = {}
    /\ UNCHANGED <<install, job, jobs, polls, told, overlapped>>

Next ==
    \/ \E j \in Job :
          \/ InstallSent(j)
          \/ \E ok \in BOOLEAN : InstallAnswered(j, ok)
          \/ \E how \in {"ended", "gone"} : JobEnds(j, how)
    \/ \E p \in Round :
          \/ PollTick(p) \/ JobAnswered(p) \/ JobRejected(p)
          \/ \E j \in Job : AskJob(p, j)
          \/ \E ok \in BOOLEAN : JobRead(p, ok)
    \/ LeaveModels

(* The interval fires, its callbacks go on, their requests are over in the *)
(* end, and one that is made again and again is answered in the end.       *)
Fairness ==
    /\ WF_jobVars(\E p \in Round : PollTick(p))
    /\ \A p \in Round :
          /\ WF_jobVars(\E j \in Job : AskJob(p, j))
          /\ WF_jobVars(JobRejected(p) \/ \E ok \in BOOLEAN : JobRead(p, ok))
          /\ WF_jobVars(JobAnswered(p))
    /\ \A j \in Job : SF_jobVars(\E p \in Round : j \in polls[p].asked /\ JobRead(p, TRUE))

Spec == Init /\ [][Next]_jobVars /\ Fairness

-----------------------------------------------------------------------------
(* The end of an installation is announced after it, and once; unless two  *)
(* callbacks asked for the job together.                                   *)
AnnouncedOnce ==
    \A j \in Job :
        /\ told[j] > 0 => job[j] \in {"ended", "gone"}
        /\ told[j] > 1 => j \in overlapped

(* A job that has ended is shown as ended, while the page is there and the *)
(* node knows of it.                                                       *)
HasEnded(j) == managing /\ jobs[j] = "running" /\ job[j] = "ended"
IsShown(j) == ~managing \/ job[j] = "gone" \/ jobs[j] = "ended"
EndedIsShown(j) == HasEnded(j) ~> IsShown(j)
=============================================================================
