--------------------------- MODULE NodePageProofs ---------------------------
(***************************************************************************)
(* Proofs about the pages of the console that work on a node: installs,    *)
(* the fleet's model picker, satellites, avatars and the audio routes, for *)
(* any number of jobs, devices, callbacks and files.                       *)
(*                                                                         *)
(* Each page is proved as MCConsole instantiates it.  A page has an        *)
(* inductive invariant, a lemma that its Init establishes it, and a lemma  *)
(* that its Next preserves it; ConsoleProofs puts the pages together.      *)
(***************************************************************************)
EXTENDS MCConsole, FiniteSetTheorems, TLAPS

-----------------------------------------------------------------------------
(* models-manager.tsx: why the end of an install is announced once.  A     *)
(* callback asks for each of its jobs once, a job that two callbacks have  *)
(* between them was asked for together, and a job whose end was announced  *)
(* is neither polled again nor asked for by a callback still under way.    *)
JobTypes ==
    /\ managing \in BOOLEAN /\ install \subseteq Job
    /\ job \in [Job -> {"none", "running", "ended", "gone"}]
    /\ jobs \in [Job -> {"none", "running", "ended"}]
    /\ polls \in [Round -> [todo : SUBSET Job, asked : SUBSET Job,
                           got : {"none", "running", "ended", "failed"}]]
    /\ told \in [Job -> 0 .. 2] /\ overlapped \subseteq Job
    /\ interval = IF managing THEN {j \in Job : jobs[j] = "running"} ELSE {}

Asks(p, j) == j \in polls[p].todo \/ j \in polls[p].asked

(* One job after the other, and no job twice. *)
AsksInTurn ==
    \A p \in Round :
        /\ polls[p].asked = {} => polls[p].got = "none"
        /\ \A j \in polls[p].asked : polls[p].asked = {j} /\ j \notin polls[p].todo

(* A job is asked for once the page knows it. *)
AskedIsKnown ==
    \A j \in Job :
        /\ j \in install => job[j] # "none" /\ jobs[j] = "none"
        /\ job[j] = "none" => jobs[j] = "none"
        /\ jobs[j] = "none" => told[j] = 0 /\ \A p \in Round : ~Asks(p, j)

EndWasRead ==
    \A p \in Round : \A j \in polls[p].asked :
        polls[p].got = "ended" => job[j] \in {"ended", "gone"}

OverlapIsNoted ==
    \A p, q \in Round : \A j \in Job :
        p # q /\ Asks(p, j) /\ Asks(q, j) => j \in overlapped

ToldIsOver ==
    \A j \in Job :
        /\ told[j] > 0 => job[j] \in {"ended", "gone"}
        /\ told[j] > 0 /\ j \notin overlapped =>
              told[j] = 1 /\ j \notin interval /\ \A p \in Round : ~Asks(p, j)

JobInv ==
    /\ JobTypes /\ AsksInTurn /\ AskedIsKnown
    /\ EndWasRead /\ OverlapIsNoted /\ ToldIsOver

(* Nothing is installed and nobody asks when the page opens. *)
LEMMA JobsOpen == Jobs!Init => JobInv
BY DEF Jobs!Init, Jobs!NoPoll, JobInv, JobTypes, AsksInTurn, AskedIsKnown, EndWasRead,
       OverlapIsNoted, ToldIsOver, Asks

(* The fields of a callback that starts, once its jobs are set. *)
LEMMA TodoGiven ==
    ASSUME NEW list
    PROVE  [[todo |-> {}, asked |-> {}, got |-> "none"] EXCEPT !.todo = list]
                = [todo |-> list, asked |-> {}, got |-> "none"]
OBVIOUS

(* A callback that has no job to ask for is given those of the interval. *)
LEMMA TickKeeps ==
    ASSUME JobInv, NEW p \in Round, Jobs!PollTick(p)
    PROVE  JobInv'
<1> USE DEF JobInv, JobTypes, Asks
<1>1. /\ polls[p] = [todo |-> {}, asked |-> {}, got |-> "none"]
      /\ interval \subseteq {j \in Job : jobs[j] = "running"}
  BY DEF Jobs!PollTick, Jobs!NoPoll
<1>2. polls' = [polls EXCEPT ![p] = [todo |-> interval, asked |-> {}, got |-> "none"]]
  <2>1. polls' = [polls EXCEPT ![p] = [polls[p] EXCEPT !.todo = interval]]
    BY DEF Jobs!PollTick
  <2>2. [polls[p] EXCEPT !.todo = interval] = [todo |-> interval, asked |-> {}, got |-> "none"]
    BY <1>1, TodoGiven
  <2> QED
    BY <2>1, <2>2
<1>3. /\ \A q \in Round \ {p} : polls'[q] = polls[q]
      /\ polls'[p].todo = interval /\ polls'[p].asked = {} /\ polls'[p].got = "none"
  BY <1>2
<1>4. /\ UNCHANGED <<managing, install, job, jobs, interval, told>>
      /\ overlapped \subseteq overlapped' /\ overlapped' \subseteq Job
      /\ \A j \in interval, q \in Round : Asks(q, j) => j \in overlapped'
  BY DEF Jobs!PollTick, Jobs!Busy
<1>5. JobTypes'
  BY <1>1, <1>2, <1>4
<1>6. AsksInTurn' /\ EndWasRead'
  BY <1>3, <1>4 DEF AsksInTurn, EndWasRead
<1>7. AskedIsKnown'
  BY <1>1, <1>3, <1>4 DEF AskedIsKnown
<1>8. OverlapIsNoted'
  BY <1>3, <1>4 DEF OverlapIsNoted
<1>9. ToldIsOver'
  BY <1>3, <1>4 DEF ToldIsOver
<1> QED
  BY <1>5, <1>6, <1>7, <1>8, <1>9

(* A callback goes on with an answer: when it tells the end of a job that  *)
(* no other had asked for, nobody will ask for that job again.             *)
LEMMA AnswerKeeps ==
    ASSUME JobInv, NEW p \in Round, Jobs!JobAnswered(p)
    PROVE  JobInv'
<1> USE DEF JobInv, JobTypes, Asks
<1>1. PICK j \in Job :
        /\ j \in polls[p].asked
        /\ IF polls[p].got = "failed" THEN UNCHANGED <<jobs, interval, told>>
           ELSE /\ Jobs!SetJobs([jobs EXCEPT ![j] = polls[p].got])
                /\ told' = IF polls[p].got = "ended" /\ told[j] < 2
                           THEN [told EXCEPT ![j] = @ + 1] ELSE told
  BY DEF Jobs!JobAnswered
<1>2. polls[p].asked = {j} /\ j \notin polls[p].todo /\ Asks(p, j)
  BY <1>1 DEF AsksInTurn
<1>3. /\ UNCHANGED <<managing, install, job, overlapped>> /\ polls[p].got # "none"
      /\ polls' = [polls EXCEPT ![p] =
                     [todo |-> polls[p].todo, asked |-> {}, got |-> "none"]]
  BY DEF Jobs!JobAnswered
<1>4. /\ \A q \in Round \ {p} : polls'[q] = polls[q]
      /\ polls'[p].todo = polls[p].todo /\ polls'[p].asked = {} /\ polls'[p].got = "none"
  BY <1>3
<1>5. \A q \in Round, i \in Job : Asks(q, i)' => Asks(q, i) /\ ~(q = p /\ i = j)
  BY <1>2, <1>4
<1>6. jobs[j] # "none" /\ job[j] # "none"
  BY <1>2 DEF AskedIsKnown
<1>7. \A i \in Job \ {j} : jobs'[i] = jobs[i] /\ told'[i] = told[i]
  BY <1>1 DEF Jobs!SetJobs
<1>8. /\ jobs' \in [Job -> {"none", "running", "ended"}] /\ told' \in [Job -> 0 .. 2]
      /\ interval' = IF managing' THEN {i \in Job : jobs'[i] = "running"} ELSE {}
      /\ jobs'[j] # "none"
  BY <1>1, <1>3, <1>6 DEF Jobs!SetJobs, Jobs!Effect
<1>9. JobTypes'
  BY <1>3, <1>8
<1>10. AsksInTurn' /\ EndWasRead'
  BY <1>3, <1>4 DEF AsksInTurn, EndWasRead
<1>11. AskedIsKnown'
  BY <1>3, <1>5, <1>6, <1>7, <1>8 DEF AskedIsKnown
<1>12. OverlapIsNoted'
  BY <1>3, <1>5 DEF OverlapIsNoted
<1>13. ToldIsOver'
  <2> SUFFICES ASSUME NEW i \in Job, told'[i] > 0
               PROVE  /\ job'[i] \in {"ended", "gone"}
                      /\ i \notin overlapped' =>
                            /\ told'[i] = 1 /\ i \notin interval'
                            /\ \A q \in Round : ~Asks(q, i)'
    BY DEF ToldIsOver
  <2>1. CASE i # j
    BY <2>1, <1>3, <1>5, <1>7, <1>8 DEF ToldIsOver
  <2>2. CASE i = j
    <3>1. job[j] \in {"ended", "gone"}
      <4>1. told[j] > 0 \/ polls[p].got = "ended"
        BY <1>1, <2>2
      <4> QED
        BY <4>1, <1>1 DEF ToldIsOver, EndWasRead
    <3>2. ASSUME j \notin overlapped
          PROVE  /\ told'[j] = 1 /\ j \notin interval'
                 /\ \A q \in Round : ~Asks(q, j)'
      <4>1. told[j] = 0
        BY <3>2, <1>2 DEF ToldIsOver
      <4>2. polls[p].got = "ended"
        BY <4>1, <1>1, <2>2
      <4>3. told'[j] = 1 /\ (managing => jobs'[j] = "ended")
        BY <4>1, <4>2, <1>1 DEF Jobs!SetJobs
      <4>4. \A q \in Round : ~Asks(q, j)'
        BY <3>2, <1>2, <1>5 DEF OverlapIsNoted
      <4> QED
        BY <4>3, <4>4, <1>3, <1>8
    <3> QED
      BY <3>1, <3>2, <2>2, <1>3
  <2> QED
    BY <2>1, <2>2
<1> QED
  BY <1>9, <1>10, <1>11, <1>12, <1>13

(* The page of the installs, one action after the other. *)
LEMMA JobsKeep == JobInv /\ Jobs!Next => JobInv'
<1> SUFFICES ASSUME JobInv, Jobs!Next PROVE JobInv'
  OBVIOUS
<1> USE DEF JobInv, JobTypes, Asks, AsksInTurn, AskedIsKnown, EndWasRead, OverlapIsNoted,
            ToldIsOver
<1>1. ASSUME NEW j \in Job, Jobs!InstallSent(j) PROVE JobInv'
  BY <1>1 DEF Jobs!InstallSent
<1>2. ASSUME NEW j \in Job, NEW ok \in BOOLEAN, Jobs!InstallAnswered(j, ok) PROVE JobInv'
  <2>1. CASE ok /\ managing
    BY <1>2, <2>1 DEF Jobs!InstallAnswered, Jobs!SetJobs, Jobs!Effect
  <2>2. CASE ~(ok /\ managing)
    BY <1>2, <2>2 DEF Jobs!InstallAnswered, Jobs!SetJobs
  <2> QED
    BY <2>1, <2>2
<1>3. ASSUME NEW j \in Job, NEW how \in {"ended", "gone"}, Jobs!JobEnds(j, how) PROVE JobInv'
  BY <1>3 DEF Jobs!JobEnds
<1>4. ASSUME NEW p \in Round, Jobs!PollTick(p) PROVE JobInv'
  BY <1>4, TickKeeps
<1>5. ASSUME NEW p \in Round, Jobs!JobAnswered(p) PROVE JobInv'
  BY <1>5, AnswerKeeps
<1>6. ASSUME NEW p \in Round, NEW j \in Job, Jobs!AskJob(p, j) PROVE JobInv'
  <2>1. /\ polls' = [polls EXCEPT ![p] =
                      [todo |-> polls[p].todo \ {j}, asked |-> {j}, got |-> "none"]]
        /\ UNCHANGED <<managing, install, job, jobs, interval, told, overlapped>>
        /\ Asks(p, j)
    BY <1>6 DEF Jobs!AskJob
  <2>2. \A q \in Round, i \in Job : Asks(q, i)' = Asks(q, i)
    BY <1>6, <2>1 DEF Jobs!AskJob
  <2>3. JobTypes' /\ AsksInTurn' /\ EndWasRead'
    BY <2>1
  <2>4. AskedIsKnown' /\ OverlapIsNoted' /\ ToldIsOver'
    <3> HIDE DEF Asks
    <3> QED
      BY <2>1, <2>2
  <2> QED
    BY <2>3, <2>4
<1>7. ASSUME NEW p \in Round, NEW ok \in BOOLEAN, Jobs!JobRead(p, ok) PROVE JobInv'
  <2>1. PICK j \in Job :
          /\ j \in polls[p].asked /\ Asks(p, j)
          /\ polls' = [polls EXCEPT ![p].got =
                         IF ok /\ job[j] # "gone" THEN job[j] ELSE "failed"]
    BY <1>7 DEF Jobs!JobRead
  <2>2. /\ UNCHANGED <<managing, install, job, jobs, interval, told, overlapped>>
        /\ job[j] # "none" /\ polls[p].asked = {j}
    BY <1>7, <2>1 DEF Jobs!JobRead
  <2>3. \A q \in Round : polls'[q].todo = polls[q].todo /\ polls'[q].asked = polls[q].asked
    BY <2>1
  <2>4. JobTypes'
    BY <2>1, <2>2
  <2>5. /\ \A q \in Round \ {p} : polls'[q] = polls[q]
        /\ polls'[p].got = "ended" => job[j] = "ended"
    BY <2>1
  <2>6. AsksInTurn' /\ EndWasRead'
    BY <2>2, <2>3, <2>5
  <2>7. AskedIsKnown' /\ OverlapIsNoted' /\ ToldIsOver'
    BY <2>2, <2>3
  <2> QED
    BY <2>4, <2>6, <2>7
<1>8. CASE Jobs!LeaveModels
  BY <1>8 DEF Jobs!LeaveModels
<1>9. ASSUME NEW p \in Round, Jobs!JobRejected(p) PROVE JobInv'
  <2>1. /\ polls' = [polls EXCEPT ![p] = [todo |-> {}, asked |-> {}, got |-> "none"]]
        /\ UNCHANGED <<managing, install, job, jobs, interval, told, overlapped>>
    BY <1>9 DEF Jobs!JobRejected, Jobs!NoPoll
  <2>2. \A q \in Round, i \in Job : Asks(q, i)' => Asks(q, i)
    BY <2>1
  <2>3. JobTypes' /\ AsksInTurn' /\ EndWasRead'
    BY <2>1
  <2>4. AskedIsKnown' /\ OverlapIsNoted' /\ ToldIsOver'
    <3> HIDE DEF Asks
    <3> QED
      BY <2>1, <2>2
  <2> QED
    BY <2>3, <2>4
<1> QED
  BY <1>1, <1>2, <1>3, <1>4, <1>5, <1>6, <1>7, <1>8, <1>9 DEF Jobs!Next

(* The invariant gives the type invariant of the page. *)
LEMMA JobsTyped == JobInv => Jobs!JobTypeOK
BY DEF JobInv, JobTypes, AsksInTurn, Jobs!JobTypeOK

-----------------------------------------------------------------------------
(* satellites-panel.tsx: unless the device was bound while its room waited *)
(* for another, the deadline of the room is counted from its bind.         *)
DeadlineIsOfTheBind ==
    ~rushed => \A q \in pending : \A t \in deadline[q[1]] : t >= since + Patience

BindInv == Bind!BindTypeOK /\ DeadlineIsOfTheBind

(* The satellites page opens with no device waiting. *)
LEMMA BindOpens == Bind!Init => BindInv
<1> SUFFICES ASSUME Bind!Init PROVE BindInv
  OBVIOUS
<1> USE PageAssumption DEF Bind!Init
<1>1. clock \in 0 .. MaxTime /\ since \in 0 .. clock
  OBVIOUS
<1>2. rushed \in BOOLEAN
  OBVIOUS
<1>3. device \in [Device -> [room : SUBSET Room, online : BOOLEAN]]
  BY DEF Bind!Unbound
<1>4. /\ sats \in [Room -> [Device -> {"absent", "offline", "online", "unknown"}]]
      /\ pending = {} /\ deadline = [r \in Room |-> {}]
  OBVIOUS
<1> QED
  BY <1>1, <1>2, <1>3, <1>4 DEF BindInv, Bind!BindTypeOK, DeadlineIsOfTheBind

(* The deadline of a room that waits is not before what it was, and set    *)
(* anew it is a full wait from now.                                        *)
LEMMA DueType ==
    ASSUME BindInv, NEW r \in Room
    PROVE  /\ Bind!Due(r) \subseteq 0 .. MaxTime + Patience
           /\ Bind!Due(r) # {}
           /\ deadline[r] = {} => Bind!Due(r) = {clock + Patience}
           /\ deadline[r] # {} => Bind!Due(r) = deadline[r]
<1>1. /\ clock \in 0 .. MaxTime /\ Patience \in Nat /\ MaxTime \in Nat
      /\ deadline[r] \subseteq 0 .. MaxTime + Patience
  BY PageAssumption DEF BindInv, Bind!BindTypeOK
<1>2. clock + Patience \in 0 .. MaxTime + Patience
  BY <1>1
<1> QED
  BY <1>1, <1>2 DEF Bind!Due

(* The effects of a panel that waits for p, at most one device: it waits   *)
(* for p or for nothing, and only a room that waits has a deadline.        *)
LEMMA EffectsKeep ==
    ASSUME BindInv, NEW p \in SUBSET (Room \X Device), \A q1, q2 \in p : q1 = q2,
           NEW s, Bind!Effects(p, s)
    PROVE  /\ pending' \subseteq p
           /\ deadline' \in [Room -> SUBSET (0 .. MaxTime + Patience)]
           /\ \A r \in Room : deadline'[r] # {} => \E d \in Device : <<r, d>> \in pending'
           /\ \A q \in pending' : deadline'[q[1]] = Bind!Due(q[1])
<1> DEFINE w == {q \in p : ~Bind!Resolves(q[1], q[2], s[q[1]])}
<1>1. /\ pending' = w
      /\ deadline' = [r \in Room |-> IF \E q \in w : q[1] = r THEN Bind!Due(r) ELSE {}]
  BY DEF Bind!Effects
<1>2. w \subseteq Room \X Device
  OBVIOUS
<1>3. w \subseteq p
  OBVIOUS
<1> HIDE DEF w
<1>4. deadline' \in [Room -> SUBSET (0 .. MaxTime + Patience)]
  <2>1. \A r \in Room : Bind!Due(r) \in SUBSET (0 .. MaxTime + Patience)
    BY DueType
  <2> QED
    BY <1>1, <2>1
<1>5. \A r \in Room : deadline'[r] # {} => \E d \in Device : <<r, d>> \in w
  <2> SUFFICES ASSUME NEW r \in Room, NEW q \in w, q[1] = r
               PROVE  \E d \in Device : <<r, d>> \in w
    BY <1>1
  <2>1. q = <<r, q[2]>> /\ q[2] \in Device
    BY <1>2
  <2> QED
    BY <2>1
<1>6. \A q \in w : deadline'[q[1]] = Bind!Due(q[1])
  BY <1>1, <1>2
<1> QED
  BY <1>1, <1>3, <1>4, <1>5, <1>6

(* The panel, one action after the other. *)
LEMMA BindKeeps == BindInv /\ Bind!Next => BindInv'
<1> SUFFICES ASSUME BindInv, Bind!Next PROVE BindInv'
  OBVIOUS
<1> DEFINE Devices == [Device -> [room : SUBSET Room, online : BOOLEAN]]
           Shown == [Room -> [Device -> {"absent", "offline", "online", "unknown"}]]
           Time == clock \in 0 .. MaxTime /\ since \in 0 .. clock
           Waits == /\ pending \in SUBSET (Room \X Device)
                    /\ \A p, q \in pending : p = q
                    /\ deadline \in [Room -> SUBSET (0 .. MaxTime + Patience)]
                    /\ \A r \in Room : deadline[r] # {} =>
                          \E d \in Device : <<r, d>> \in pending
           Fair == DeadlineIsOfTheBind
<1>1. device \in Devices /\ sats \in Shown /\ Time /\ Waits /\ Fair /\ rushed \in BOOLEAN
  BY DEF BindInv, Bind!BindTypeOK
<1>2. SUFFICES device' \in Devices /\ sats' \in Shown /\ Time' /\ Waits' /\ Fair'
               /\ rushed' \in BOOLEAN
  BY DEF BindInv, Bind!BindTypeOK
<1>3. /\ clock' = clock /\ since' = since => Time'
      /\ pending' = pending /\ deadline' = deadline => Waits'
      /\ UNCHANGED <<pending, deadline, since, rushed>> => Fair'
      /\ rushed' = rushed => rushed' \in BOOLEAN
  BY <1>1 DEF DeadlineIsOfTheBind
<1> HIDE DEF Devices, Shown, Time, Waits, Fair
<1>4. CASE Bind!Tick
  <2>1. UNCHANGED <<device, sats, pending, deadline, since, rushed>>
    BY <1>4 DEF Bind!Tick
  <2>2. Time'
    BY <1>1, <1>4, PageAssumption DEF Bind!Tick, Time
  <2> QED
    BY <1>1, <1>3, <2>1, <2>2
<1>5. ASSUME NEW s, Bind!Effects(pending, s), UNCHANGED <<clock, since, rushed>>
      PROVE  Time' /\ Waits' /\ Fair' /\ rushed' \in BOOLEAN
  <2>1. /\ pending' \subseteq pending
        /\ deadline' \in [Room -> SUBSET (0 .. MaxTime + Patience)]
        /\ \A r \in Room : deadline'[r] # {} => \E d \in Device : <<r, d>> \in pending'
        /\ \A q \in pending' : deadline'[q[1]] = Bind!Due(q[1])
    BY <1>1, <1>5, EffectsKeep DEF Waits
  <2>2. Waits'
    <3>1. pending \subseteq Room \X Device /\ \A p, q \in pending : p = q
      BY <1>1 DEF Waits
    <3>2. pending' \subseteq Room \X Device /\ \A p, q \in pending' : p = q
      BY <2>1, <3>1
    <3> QED
      BY <2>1, <3>2 DEF Waits
  <2>3. Fair'
    <3> SUFFICES ASSUME ~rushed, NEW q \in pending', NEW t \in Bind!Due(q[1])
                 PROVE  t >= since + Patience
      BY <1>5, <2>1 DEF Fair, DeadlineIsOfTheBind
    <3>1. q[1] \in Room /\ q \in pending
      BY <1>1, <2>1 DEF Waits
    <3>2. CASE deadline[q[1]] = {}
      BY <1>1, <3>1, <3>2, DueType, PageAssumption DEF Time
    <3>3. CASE deadline[q[1]] # {}
      BY <1>1, <3>1, <3>3, DueType DEF Fair, DeadlineIsOfTheBind
    <3> QED
      BY <3>2, <3>3
  <2> QED
    BY <1>3, <1>5, <2>2, <2>3
<1>6. CASE Bind!Redraw
  BY <1>1, <1>5, <1>6 DEF Bind!Redraw
<1>7. ASSUME NEW r \in Room, NEW presence \in BOOLEAN, Bind!Poll(r, presence)
      PROVE  /\ device' \in Devices /\ sats' \in Shown /\ Time' /\ Waits' /\ Fair'
             /\ rushed' \in BOOLEAN
  <2>1. sats' \in Shown
    BY <1>1, <1>7 DEF Bind!Poll, Bind!Answer, Shown
  <2>2. UNCHANGED <<clock, device, since, rushed>>
    BY <1>7 DEF Bind!Poll
  <2>3. Bind!Effects(pending, sats') \/ UNCHANGED <<pending, deadline>>
    BY <1>7 DEF Bind!Poll
  <2> QED
    BY <1>1, <1>3, <1>5, <2>1, <2>2, <2>3
<1>10. ASSUME NEW r \in Room, Bind!PollFails(r)
       PROVE  /\ device' \in Devices /\ sats' \in Shown /\ Time' /\ Waits' /\ Fair'
              /\ rushed' \in BOOLEAN
  <2>1. sats' \in Shown
    BY <1>1, <1>10 DEF Bind!PollFails, Shown
  <2>2. UNCHANGED <<clock, device, since, rushed>>
    BY <1>10 DEF Bind!PollFails
  <2>3. Bind!Effects(pending, sats') \/ UNCHANGED <<pending, deadline>>
    BY <1>10 DEF Bind!PollFails
  <2> QED
    BY <1>1, <1>3, <1>5, <2>1, <2>2, <2>3
<1>8. ASSUME NEW r \in Room, NEW d \in Device, Bind!Bind(r, d)
      PROVE  /\ device' \in Devices /\ sats' \in Shown /\ Time' /\ Waits' /\ Fair'
             /\ rushed' \in BOOLEAN
  <2>1. /\ Bind!Effects({<<r, d>>}, sats) /\ UNCHANGED <<clock, sats>>
        /\ device' = [device EXCEPT ![d] = [room |-> {r}, online |-> FALSE]]
        /\ since' = clock
        /\ rushed' = \E e \in Device : <<r, e>> \in pending
    BY <1>8 DEF Bind!Bind
  <2>2. device' \in Devices
    BY <1>1, <2>1 DEF Devices
  <2>3. Time'
    BY <1>1, <2>1, PageAssumption DEF Time
  <2>4. ~rushed' => deadline[r] = {}
    BY <1>1, <2>1 DEF Waits
  <2>5. /\ pending' \subseteq {<<r, d>>}
        /\ deadline' \in [Room -> SUBSET (0 .. MaxTime + Patience)]
        /\ \A i \in Room : deadline'[i] # {} => \E e \in Device : <<i, e>> \in pending'
        /\ \A q \in pending' : deadline'[q[1]] = Bind!Due(q[1])
    <3> DEFINE one == {<<r, d>>}
    <3>1. one \in SUBSET (Room \X Device) /\ \A q1, q2 \in one : q1 = q2
      OBVIOUS
    <3>2. Bind!Effects(one, sats)
      BY <2>1
    <3> HIDE DEF one
    <3>3. /\ pending' \subseteq one
          /\ deadline' \in [Room -> SUBSET (0 .. MaxTime + Patience)]
          /\ \A i \in Room : deadline'[i] # {} => \E e \in Device : <<i, e>> \in pending'
          /\ \A q \in pending' : deadline'[q[1]] = Bind!Due(q[1])
      BY <3>1, <3>2, EffectsKeep
    <3> QED
      BY <3>3 DEF one
  <2>6. Waits'
    <3>1. pending' \subseteq Room \X Device /\ \A p, q \in pending' : p = q
      BY <2>5
    <3> QED
      BY <2>5, <3>1 DEF Waits
  <2>7. Fair'
    <3>1. \A q \in pending' : q[1] = r
      BY <2>5
    <3>2. ~rushed' => Bind!Due(r) = {clock + Patience}
      BY <2>4, DueType
    <3>3. clock + Patience >= clock + Patience
      BY <1>1, PageAssumption DEF Time
    <3> QED
      BY <2>1, <2>5, <3>1, <3>2, <3>3 DEF Fair, DeadlineIsOfTheBind
  <2>8. rushed' \in BOOLEAN
    BY <2>1
  <2> QED
    BY <1>1, <2>1, <2>2, <2>3, <2>6, <2>7, <2>8
<1>9. ASSUME NEW d \in Device, Bind!Unbind(d) \/ Bind!Connects(d)
      PROVE  /\ device' \in Devices /\ sats' \in Shown /\ Time' /\ Waits' /\ Fair'
             /\ rushed' \in BOOLEAN
  <2>1. device' \in Devices
    <3>1. Bind!Unbound \in [room : SUBSET Room, online : BOOLEAN]
      BY DEF Bind!Unbound
    <3>2. [device[d] EXCEPT !.online = ~@] \in [room : SUBSET Room, online : BOOLEAN]
      BY <1>1 DEF Devices
    <3>3. \/ device' = [device EXCEPT ![d] = Bind!Unbound]
          \/ device' = [device EXCEPT ![d] = [device[d] EXCEPT !.online = ~@]]
      BY <1>9 DEF Bind!Unbind, Bind!Connects
    <3> QED
      BY <1>1, <3>1, <3>2, <3>3 DEF Devices
  <2> QED
    BY <1>1, <1>3, <1>9, <2>1 DEF Bind!Unbind, Bind!Connects
<1> QED
  BY <1>4, <1>6, <1>7, <1>8, <1>9, <1>10, <1>1, <1>5 DEF Bind!Next

(* A wait that ends without the device was as long as it has to be. *)
LEMMA SilenceFair ==
    ASSUME BindInv, Bind!Next, NEW r \in Room, NEW d \in Device,
           pending = {<<r, d>>}, pending' = {}, device' = device, sats'[r][d] # "online"
    PROVE  rushed \/ clock > since + Patience
<1> USE PageAssumption DEF BindInv, Bind!BindTypeOK
<1>1. ASSUME Bind!Effects(pending, sats') PROVE rushed \/ clock > since + Patience
  <2>1. Bind!Resolves(r, d, sats'[r])
    BY <1>1 DEF Bind!Effects
  <2>2. PICK t \in Bind!Due(r) : clock > t
    BY <2>1 DEF Bind!Resolves
  <2>3. deadline[r] # {} /\ t \in deadline[r]
    BY <2>2, DueType
  <2>4. ~rushed => t >= since + Patience
    BY <2>3 DEF DeadlineIsOfTheBind
  <2> QED
    BY <2>2, <2>3, <2>4
<1>2. ASSUME NEW i \in Room, NEW e \in Device, Bind!Bind(i, e) PROVE FALSE
  <2>1. device'[e].room = {i} /\ device[e].room = {}
    BY <1>2 DEF Bind!Bind
  <2> QED
    BY <2>1
<1>3. ASSUME NEW i \in Room, NEW presence \in BOOLEAN, Bind!Poll(i, presence)
      PROVE  Bind!Effects(pending, sats')
  BY <1>3 DEF Bind!Poll
<1>4. ASSUME Bind!Redraw PROVE Bind!Effects(pending, sats')
  BY <1>4 DEF Bind!Redraw
<1>5. ASSUME NEW i \in Room, Bind!PollFails(i) PROVE Bind!Effects(pending, sats')
  BY <1>5 DEF Bind!PollFails
<1> QED
  BY <1>1, <1>2, <1>3, <1>4, <1>5 DEF Bind!Next, Bind!Tick, Bind!Unbind, Bind!Connects

-----------------------------------------------------------------------------
(* model-picker.tsx: the count of failures that a chain of polls carries   *)
(* is that of the polls that failed in a row.                              *)
FailuresAreMisses ==
    \A j \in Job :
        /\ chain[j].at \in {"none", "post"} => misses[j] = 0
        /\ chain[j].at \in {"timer", "asked"} => misses[j] = chain[j].failures

PickerInv == Picker!PickerTypeOK /\ Picker!InstallIsFollowed /\ FailuresAreMisses

(* The picker opens with no node asked. *)
LEMMA PickerOpens == Picker!Init => PickerInv
<1> SUFFICES ASSUME Picker!Init PROVE PickerInv
  OBVIOUS
<1> USE PageAssumption DEF Picker!Init, Picker!None, Picker!Active
<1>1. Picker!PickerTypeOK
  BY DEF Picker!PickerTypeOK
<1>2. Picker!InstallIsFollowed /\ FailuresAreMisses
  BY DEF Picker!InstallIsFollowed, FailuresAreMisses
<1> QED
  BY <1>1, <1>2 DEF PickerInv

(* The next poll of a chain: its timer, and the count it starts with. *)
LEMMA ScheduleType ==
    ASSUME Picker!PickerTypeOK, NEW j \in Job, NEW n \in 0 .. MaxFailures,
           Picker!Schedule(j, n)
    PROVE  /\ chain' \in [Job -> [at : Picker!Active \union {"none", "over"}, mine : BOOLEAN,
                                  failures : 0 .. MaxFailures]]
           /\ chain'[j].at = "timer" /\ chain'[j].failures = n
           /\ chain'[j].mine = chain[j].mine
           /\ \A i \in Job \ {j} : chain'[i] = chain[i]
BY DEF Picker!PickerTypeOK, Picker!Schedule, Picker!Active

(* The picker, one action after the other. *)
LEMMA PickerKeeps == PickerInv /\ Picker!Next => PickerInv'
<1> SUFFICES ASSUME PickerInv, Picker!Next PROVE PickerInv'
  OBVIOUS
<1> USE PageAssumption
    DEF PickerInv, Picker!PickerTypeOK, Picker!InstallIsFollowed, FailuresAreMisses,
        Picker!None, Picker!Active, Picker!Over, Picker!Freed
<1>1. ASSUME NEW j \in Job, Picker!OnInstall(j) PROVE PickerInv'
  BY <1>1 DEF Picker!OnInstall
<1>2. ASSUME NEW j \in Job, Picker!InstallStarted(j) PROVE PickerInv'
  <2>1. Picker!Schedule(j, 0) /\ 0 \in 0 .. MaxFailures
    BY <1>2 DEF Picker!InstallStarted
  <2>2. /\ chain' \in [Job -> [at : Picker!Active \union {"none", "over"}, mine : BOOLEAN,
                               failures : 0 .. MaxFailures]]
        /\ chain'[j].at = "timer" /\ chain'[j].failures = 0
        /\ chain'[j].mine = chain[j].mine
        /\ \A i \in Job \ {j} : chain'[i] = chain[i]
    BY <2>1, ScheduleType
  <2>3. /\ misses' \in [Job -> 0 .. MaxFailures + 1] /\ misses'[j] = 0
        /\ \A i \in Job \ {j} : misses'[i] = misses[i]
        /\ atNode' \in [Job -> {"none", "running", "ended"}]
        /\ UNCHANGED <<installing, thrown, unavailable>>
        /\ chain[j].at \in {"post", "asked"}
    BY <1>2 DEF Picker!InstallStarted
  <2>4. Picker!PickerTypeOK'
    BY <2>2, <2>3
  <2>5. Picker!InstallIsFollowed'
    BY <2>2, <2>3
  <2>6. FailuresAreMisses'
    BY <2>2, <2>3
  <2> QED
    BY <2>4, <2>5, <2>6
<1>3. ASSUME NEW j \in Job, Picker!InstallFails(j) PROVE PickerInv'
  BY <1>3 DEF Picker!InstallFails
<1>4. ASSUME NEW j \in Job, Picker!TimerFires(j) PROVE PickerInv'
  BY <1>4 DEF Picker!TimerFires
<1>5. ASSUME NEW j \in Job, Picker!StillRuns(j) PROVE PickerInv'
  <2>1. Picker!Schedule(j, 0) /\ 0 \in 0 .. MaxFailures
    BY <1>5 DEF Picker!StillRuns
  <2>2. /\ chain' \in [Job -> [at : Picker!Active \union {"none", "over"}, mine : BOOLEAN,
                               failures : 0 .. MaxFailures]]
        /\ chain'[j].at = "timer" /\ chain'[j].failures = 0
        /\ chain'[j].mine = chain[j].mine
        /\ \A i \in Job \ {j} : chain'[i] = chain[i]
    BY <2>1, ScheduleType
  <2>3. /\ misses' \in [Job -> 0 .. MaxFailures + 1] /\ misses'[j] = 0
        /\ \A i \in Job \ {j} : misses'[i] = misses[i]
        /\ atNode' \in [Job -> {"none", "running", "ended"}]
        /\ UNCHANGED <<installing, thrown, unavailable>>
        /\ chain[j].at \in {"post", "asked"}
    BY <1>5 DEF Picker!StillRuns
  <2>4. Picker!PickerTypeOK'
    BY <2>2, <2>3
  <2>5. Picker!InstallIsFollowed'
    BY <2>2, <2>3
  <2>6. FailuresAreMisses'
    BY <2>2, <2>3
  <2> QED
    BY <2>4, <2>5, <2>6
<1>6. ASSUME NEW j \in Job, Picker!HasEnded(j) PROVE PickerInv'
  BY <1>6 DEF Picker!HasEnded
<1>7. ASSUME NEW j \in Job, Picker!PollFails(j) PROVE PickerInv'
  BY <1>7 DEF Picker!PollFails, Picker!Schedule
<1>8. ASSUME NEW j \in Job, Picker!PollRejected(j) PROVE PickerInv'
  BY <1>8 DEF Picker!PollRejected
<1>9. ASSUME NEW j \in Job, Picker!JobEnds(j) PROVE PickerInv'
  BY <1>9 DEF Picker!JobEnds
<1>10. CASE Picker!PickerGoes
  BY <1>10 DEF Picker!PickerGoes
<1> QED
  BY <1>1, <1>2, <1>3, <1>4, <1>5, <1>6, <1>7, <1>8, <1>9, <1>10 DEF Picker!Next

(* The chain that gives up has failed as often as it may. *)
LEMMA UnavailableFair ==
    ASSUME PickerInv, Picker!Next, NEW i \in unavailable' \ unavailable
    PROVE  misses'[i] = MaxFailures + 1
<1>1. PICK j \in Job : Picker!PollFails(j) /\ chain[j].failures = MaxFailures /\ i = j
  <2>1. \E j \in Job : Picker!PollFails(j)
    BY DEF Picker!Next, Picker!OnInstall, Picker!InstallStarted, Picker!InstallFails,
           Picker!TimerFires, Picker!StillRuns, Picker!HasEnded, Picker!PollRejected,
           Picker!JobEnds, Picker!PickerGoes
  <2>2. PICK j \in Job : Picker!PollFails(j)
    BY <2>1
  <2>3. ~(chain[j].failures < MaxFailures) /\ i = j
    BY <2>2 DEF Picker!PollFails
  <2>4. chain[j].failures \in 0 .. MaxFailures /\ MaxFailures \in Nat
    BY PageAssumption DEF PickerInv, Picker!PickerTypeOK
  <2> QED
    BY <2>2, <2>3, <2>4
<1>2. misses'[j] = misses[j] + 1 /\ chain[j].at = "asked"
  BY <1>1 DEF Picker!PollFails, PickerInv, Picker!PickerTypeOK
<1> QED
  BY <1>1, <1>2 DEF PickerInv, FailuresAreMisses

-----------------------------------------------------------------------------
(* services/avatars: what holds at each stage of a call of setAvatar.  The *)
(* call knows the row it has read, since nobody else writes it meanwhile;  *)
(* once the old file is removed, or could not be, only orphans are there,  *)
(* and then the new file, whole, beside them.                              *)
AvatarTypes ==
    /\ avatarRow \subseteq Mime
    /\ files \in [Mime -> 0 .. SetCall] /\ torn \subseteq Mime
    /\ call \in 0 .. SetCall
    /\ doing \in [at : {"none", "read", "removed", "filed"},
                  mime : SUBSET Mime, old : SUBSET Mime]
    /\ answered \in 0 .. SetCall /\ orphans \subseteq Mime

OneImage == (\A m, n \in avatarRow : m = n) /\ (\A m, n \in doing.mime : m = n)

RowAndFiles ==
    /\ \A t \in avatarRow : (files[t] = answered /\ t \notin torn) \/ failing
    /\ \A t \in Mime : files[t] # 0 => t \in avatarRow \union orphans

Stages ==
    /\ doing.at = "none" => RowAndFiles /\ doing = Avatar!Idle
    /\ doing.at = "read" => RowAndFiles /\ doing.old = avatarRow
    /\ doing.at = "removed" => \A t \in Mime : files[t] # 0 => t \in orphans
    /\ doing.at = "filed" =>
          /\ \A t \in doing.mime : files[t] = call /\ t \notin torn
          /\ \A t \in Mime : files[t] # 0 => t \in doing.mime \union orphans

AvatarInv == AvatarTypes /\ failing \in BOOLEAN /\ OneImage /\ Stages

(* At first no row names an image, and there is none. *)
LEMMA AvatarOpens == Avatar!Init => AvatarInv
<1> SUFFICES ASSUME Avatar!Init PROVE AvatarInv
  OBVIOUS
<1> USE PageAssumption DEF Avatar!Init, Avatar!Idle
<1>1. AvatarTypes /\ OneImage
  BY DEF AvatarTypes, OneImage
<1>2. failing \in BOOLEAN
  OBVIOUS
<1>3. Stages
  BY DEF Stages, RowAndFiles
<1> QED
  BY <1>1, <1>2, <1>3 DEF AvatarInv

(* A call of setAvatar, one stage after the other, and its failures. *)
LEMMA AvatarKeeps == AvatarInv /\ Avatar!Next => AvatarInv'
<1> SUFFICES ASSUME AvatarInv, Avatar!Next PROVE AvatarInv'
  OBVIOUS
<1>t. AvatarTypes /\ failing \in BOOLEAN /\ OneImage /\ Stages
  BY DEF AvatarInv
<1>1. ASSUME NEW mime \in SUBSET Mime, \A m, n \in mime : m = n, Avatar!ReadAvatar(mime)
      PROVE  AvatarInv'
  <2>1. doing' = [at |-> "read", mime |-> mime, old |-> avatarRow]
    BY <1>1 DEF Avatar!ReadAvatar
  <2>2. doing.at = "none" /\ call < SetCall /\ call' = call + 1
        /\ UNCHANGED <<avatarRow, files, torn, answered, failing, orphans>>
    BY <1>1 DEF Avatar!ReadAvatar, Avatar!Idle
  <2>3. AvatarTypes' /\ OneImage'
    BY <1>1, <1>t, <2>1, <2>2, PageAssumption DEF AvatarTypes, OneImage
  <2>4. Stages'
    BY <1>t, <2>1, <2>2 DEF Stages, RowAndFiles
  <2> QED
    BY <1>t, <2>2, <2>3, <2>4 DEF AvatarInv
<1>2. CASE Avatar!RemoveStoredFile
  <2>1. /\ doing.at = "read" /\ doing' = [doing EXCEPT !.at = "removed"]
        /\ UNCHANGED <<avatarRow, call, answered, failing>>
    BY <1>2 DEF Avatar!RemoveStoredFile
  <2>4. PICK gone \in SUBSET doing.old :
          /\ files' = [t \in Mime |-> IF t \in gone THEN 0 ELSE files[t]]
          /\ torn' = torn \ gone
          /\ orphans' = (orphans \ gone) \union {t \in doing.old \ gone : files[t] # 0}
    BY <1>2 DEF Avatar!RemoveStoredFile, Avatar!Removed
  <2>5. \A t \in Mime : files'[t] # 0 => t \notin gone /\ files[t] # 0
    BY <1>t, <2>4 DEF AvatarTypes
  <2>2. AvatarTypes' /\ OneImage' /\ doing'.at = "removed"
    BY <1>t, <2>1, <2>4, PageAssumption DEF AvatarTypes, OneImage
  <2>3. Stages'
    BY <1>t, <2>1, <2>2, <2>4, <2>5 DEF Stages, RowAndFiles
  <2> QED
    BY <1>t, <2>1, <2>2, <2>3 DEF AvatarInv
<1>3. CASE Avatar!WriteFile
  <2>1. /\ doing.at = "removed" /\ doing' = [doing EXCEPT !.at = "filed"]
        /\ files' = [t \in Mime |-> IF t \in doing.mime THEN call ELSE files[t]]
        /\ torn' = torn \ doing.mime
        /\ UNCHANGED <<avatarRow, call, answered, failing, orphans>>
    BY <1>3 DEF Avatar!WriteFile
  <2>2. AvatarTypes' /\ OneImage' /\ doing'.at = "filed" /\ doing'.mime = doing.mime
    BY <1>t, <2>1 DEF AvatarTypes, OneImage
  <2>3. Stages'
    BY <1>t, <2>1, <2>2 DEF Stages, AvatarTypes
  <2> QED
    BY <1>t, <2>1, <2>2, <2>3 DEF AvatarInv
<1>4. CASE Avatar!SetRegistryAvatar
  <2>1. /\ doing.at = "filed" /\ doing' = [at |-> "none", mime |-> {}, old |-> {}]
        /\ avatarRow' = doing.mime /\ answered' = call
        /\ orphans' = orphans \ doing.mime /\ UNCHANGED <<files, torn, call>>
    BY <1>4 DEF Avatar!SetRegistryAvatar, Avatar!Idle
  <2>2. AvatarTypes' /\ OneImage'
    BY <1>t, <2>1 DEF AvatarTypes, OneImage
  <2>3. Stages'
    BY <1>t, <2>1 DEF Stages, RowAndFiles, Avatar!Idle
  <2>4. failing' \in BOOLEAN
    BY <1>4 DEF Avatar!SetRegistryAvatar
  <2> QED
    BY <2>2, <2>3, <2>4 DEF AvatarInv
<1>5. CASE Avatar!SetAvatarFails
  <2>1. /\ doing' = [at |-> "none", mime |-> {}, old |-> {}]
        /\ UNCHANGED <<avatarRow, files, torn, call, answered>>
    BY <1>5 DEF Avatar!SetAvatarFails, Avatar!Idle
  <2>2. /\ failing' = (failing \/ doing.at \in {"removed", "filed"})
        /\ orphans' = IF doing.at = "filed" THEN orphans \union doing.mime ELSE orphans
        /\ doing.at \in {"read", "removed", "filed"}
    BY <1>5, <1>t DEF Avatar!SetAvatarFails, AvatarTypes, Stages
  <2>3. AvatarTypes' /\ OneImage'
    BY <1>t, <2>1, <2>2 DEF AvatarTypes, OneImage
  <2>4. RowAndFiles'
    <3>1. CASE doing.at = "read"
      <4>1. failing' = failing /\ orphans' = orphans
        BY <1>t, <2>2, <3>1
      <4> QED
        BY <1>t, <2>1, <3>1, <4>1 DEF Stages, RowAndFiles
    <3>2. CASE doing.at \in {"removed", "filed"}
      <4>1. failing'
        BY <2>2, <3>2
      <4> QED
        BY <1>t, <2>1, <2>2, <3>2, <4>1 DEF Stages, RowAndFiles
    <3> QED
      BY <2>2, <3>1, <3>2
  <2>5. Stages' /\ failing' \in BOOLEAN
    BY <2>1, <2>2, <2>4 DEF Stages, Avatar!Idle
  <2> QED
    BY <2>3, <2>5 DEF AvatarInv
<1>6. \A mime \in {{}} \union {{t} : t \in Mime} :
        mime \in SUBSET Mime /\ \A m, n \in mime : m = n
  OBVIOUS
<1>7. CASE Avatar!WriteFileTorn
  <2>1. /\ doing.at = "removed" /\ doing' = [at |-> "none", mime |-> {}, old |-> {}]
        /\ files' = [t \in Mime |-> IF t \in doing.mime THEN call ELSE files[t]]
        /\ torn' = torn \union doing.mime
        /\ failing' = TRUE /\ orphans' = orphans \union doing.mime
        /\ UNCHANGED <<avatarRow, call, answered>>
    BY <1>7 DEF Avatar!WriteFileTorn, Avatar!Idle
  <2>2. AvatarTypes' /\ OneImage'
    BY <1>t, <2>1 DEF AvatarTypes, OneImage
  <2>3. RowAndFiles'
    BY <1>t, <2>1 DEF Stages, RowAndFiles, AvatarTypes
  <2>4. Stages' /\ failing' \in BOOLEAN
    BY <2>1, <2>3 DEF Stages, Avatar!Idle
  <2> QED
    BY <2>2, <2>4 DEF AvatarInv
<1> QED
  BY <1>1, <1>2, <1>3, <1>4, <1>5, <1>6, <1>7 DEF Avatar!Next

(* What the invariant says between two calls. *)
LEMMA AvatarServed == AvatarInv => Avatar!AvatarTypeOK /\ Avatar!RowHasItsFile
<1> SUFFICES ASSUME AvatarInv PROVE Avatar!AvatarTypeOK /\ Avatar!RowHasItsFile
  OBVIOUS
<1>1. Avatar!AvatarTypeOK
  BY DEF AvatarInv, AvatarTypes, OneImage, Avatar!AvatarTypeOK
<1>2. Avatar!RowHasItsFile
  BY DEF AvatarInv, Stages, RowAndFiles, Avatar!RowHasItsFile, Avatar!Idle
<1> QED
  BY <1>1, <1>2

-----------------------------------------------------------------------------
(* The audio routes: what a request has at each of its stages.  Nothing is *)
(* answered before the route has what it asked for; the body of a node is  *)
(* passed through from its first byte on; and when it is over, the answer  *)
(* is the one the browser asked for.                                       *)
AudioStages ==
    /\ serving = "none" => request = Audio!NoRequest
    /\ serving \in {"none", "upstream"} => passed = 0 /\ response = Audio!NoResponse
    /\ serving = "upstream" => request.route \in {"range", "node"}
    /\ serving = "body" =>
          /\ request.route = "node" /\ response.status = 200
          /\ response.length = size /\ response.bytes = 0 .. passed - 1
    /\ Audio!ServedIsAsked

AudioInv == Audio!AudioTypeOK /\ AudioStages

(* Counting bytes as the routes do, and the bytes of an interval. *)
LEMMA BytesCounted ==
    ASSUME NEW a \in Int, NEW b \in Int
    PROVE  Audio!Cardinality(a .. b) = IF a > b THEN 0 ELSE b - a + 1
<1>1. \A S : Audio!Cardinality(S) = Cardinality(S)
  BY DEF Audio!Cardinality, Cardinality
<1> QED
  BY <1>1, FS_Interval

(* Audio counts the bytes of an interval with the library: none is none. *)
LEMMA NoByteCounted == Audio!Cardinality({}) = 0
<1>1. \A S : Audio!Cardinality(S) = Cardinality(S)
  BY DEF Audio!Cardinality, Cardinality
<1> QED
  BY <1>1, FS_EmptySet

(* A file is the bytes 0 to size - 1. *)
LEMMA AllIsInterval ==
    ASSUME Audio!AudioTypeOK
    PROVE  /\ Audio!All = 0 .. size - 1 /\ size \in 0 .. MaxBytes
           /\ Audio!All \subseteq Audio!Number
           /\ Audio!Cardinality(Audio!All) = size
<1>1. size \in 0 .. MaxBytes /\ MaxBytes \in Nat
  BY PageAssumption DEF Audio!AudioTypeOK, Audio!Number
<1>2. Audio!All = 0 .. size - 1 /\ Audio!All \subseteq Audio!Number
  BY <1>1 DEF Audio!All, Audio!Number
<1>3. Audio!Cardinality(0 .. size - 1) = size
  BY <1>1, BytesCounted
<1> QED
  BY <1>1, <1>2, <1>3

(* A number of a range, or what stands for one left out. *)
LEMMA GivenNumber ==
    ASSUME NEW n, NEW default
    PROVE  Audio!Given({n}, default) = n /\ Audio!Given({}, default) = default
BY DEF Audio!Given, Audio!Absent

(* The ends of a range, as getRange makes them of the two numbers.         *)
LEMMA RangeEnds ==
    ASSUME Audio!AudioTypeOK
    PROVE  /\ Audio!Start \in Nat /\ Audio!End \in Int /\ Audio!End <= size - 1
           /\ \A n \in request.first : Audio!Start = n
           /\ request.first = {} => Audio!Start = 0
           /\ request.last = {} => Audio!End = size - 1
           /\ \A n \in request.last : Audio!End = IF n < size - 1 THEN n ELSE size - 1
<1>1. size \in 0 .. MaxBytes /\ MaxBytes \in Nat
  BY PageAssumption DEF Audio!AudioTypeOK, Audio!Number
<1>2. /\ request.first = {} \/ \E n \in 0 .. MaxBytes : request.first = {n}
      /\ request.last = {} \/ \E n \in 0 .. MaxBytes : request.last = {n}
  BY DEF Audio!AudioTypeOK, Audio!Optional, Audio!Absent, Audio!Number
<1>3. /\ Audio!Start \in Nat
      /\ \A n \in request.first : Audio!Start = n
      /\ request.first = {} => Audio!Start = 0
  <2>1. ASSUME request.first = {} PROVE Audio!Start = 0
    BY <2>1, GivenNumber DEF Audio!Start
  <2>2. ASSUME NEW n \in 0 .. MaxBytes, request.first = {n} PROVE Audio!Start = n
    BY <2>2, GivenNumber DEF Audio!Start
  <2>3. \A n \in 0 .. MaxBytes : n \in Nat
    BY <1>1
  <2> QED
    BY <1>2, <2>1, <2>2, <2>3
<1>4. ASSUME request.last = {} PROVE Audio!End = size - 1
  <2>1. Audio!Given(request.last, size - 1) = size - 1
    BY <1>4, GivenNumber
  <2> QED
    BY <1>1, <2>1 DEF Audio!End
<1>5. ASSUME NEW n \in 0 .. MaxBytes, request.last = {n}
      PROVE  Audio!End = IF n < size - 1 THEN n ELSE size - 1
  BY <1>1, <1>5, GivenNumber DEF Audio!End
<1> QED
  BY <1>1, <1>2, <1>3, <1>4, <1>5

(* The routes start with no request answered. *)
LEMMA AudioOpens == Audio!Init => AudioInv
<1> SUFFICES ASSUME Audio!Init PROVE AudioInv
  OBVIOUS
<1> USE PageAssumption DEF Audio!Init, Audio!NoRequest, Audio!NoResponse
<1>1. size \in Audio!Number /\ size \in Nat /\ passed \in 0 .. size /\ 0 \in 0 .. size
  BY DEF Audio!Number
<1>2. archived \in {"no", "row", "file"}
  OBVIOUS
<1>3. Audio!AudioTypeOK
  BY <1>1, <1>2 DEF Audio!AudioTypeOK, Audio!Optional, Audio!Absent
<1>4. AudioStages
  BY DEF AudioStages, Audio!ServedIsAsked
<1> QED
  BY <1>3, <1>4 DEF AudioInv

(* The whole file, or 404 when there is none in the archive. *)
LEMMA WholeIsAsked ==
    ASSUME AudioInv, Audio!Whole(200), request'.route # "range",
           UNCHANGED <<size, archived, passed>>
    PROVE  /\ response'.status \in {200, 404} /\ response'.bytes \subseteq Audio!Number
           /\ response'.length \in 0 .. size
           /\ Audio!ServedIsAsked'
<1>1. /\ Audio!Cardinality(Audio!All) = size /\ Audio!All \subseteq Audio!Number
      /\ size \in 0 .. MaxBytes /\ MaxBytes \in Nat /\ Audio!All' = Audio!All
  BY AllIsInterval, PageAssumption DEF AudioInv, Audio!All
<1>2. CASE archived = "file" /\ Audio!Answer(200, Audio!All)
  <2>1. response' = [status |-> 200, bytes |-> Audio!All, length |-> size]
    BY <1>1, <1>2 DEF Audio!Answer
  <2>2. ~(Audio!Cardinality(Audio!All) < size)
    BY <1>1
  <2> QED
    BY <1>1, <1>2, <2>1, <2>2 DEF Audio!ServedIsAsked
<1>3. CASE archived # "file" /\ Audio!Answer(404, {})
  <2>1. response' = [status |-> 404, bytes |-> {}, length |-> 0]
    BY <1>3, NoByteCounted DEF Audio!Answer
  <2>2. ~(Audio!Cardinality({}) < 0)
    BY NoByteCounted
  <2> QED
    BY <1>1, <1>3, <2>1, <2>2 DEF Audio!ServedIsAsked
<1> QED
  BY <1>2, <1>3 DEF Audio!Whole, Audio!NotFound, Audio!FileMissing

(* A range of the archive: the bytes of the file between its two numbers.  *)
LEMMA RangeIsAsked ==
    ASSUME AudioInv, Audio!GetRange
    PROVE  /\ response'.status \in {404, 206, 416} /\ response'.bytes \subseteq Audio!Number
           /\ response'.length \in 0 .. size
           /\ Audio!ServedIsAsked'
<1>1. /\ Audio!All = 0 .. size - 1 /\ size \in 0 .. MaxBytes /\ MaxBytes \in Nat
      /\ Audio!All' = Audio!All /\ Audio!All \subseteq Audio!Number
      /\ UNCHANGED <<size, archived, request, passed>> /\ request.route = "range"
  BY AllIsInterval, PageAssumption DEF AudioInv, Audio!All, Audio!GetRange
<1>2. /\ request.first = {} \/ \E n \in 0 .. MaxBytes : request.first = {n}
      /\ request.last = {} \/ \E n \in 0 .. MaxBytes : request.last = {n}
  BY DEF AudioInv, Audio!AudioTypeOK, Audio!Optional, Audio!Absent, Audio!Number
<1>3. /\ Audio!Start \in Nat /\ Audio!End \in Int /\ Audio!End <= size - 1
      /\ \A n \in request.first : Audio!Start = n
      /\ request.first = {} => Audio!Start = 0
      /\ request.last = {} => Audio!End = size - 1
      /\ \A n \in request.last : Audio!End = IF n < size - 1 THEN n ELSE size - 1
  BY RangeEnds DEF AudioInv
<1> DEFINE asked == {p \in Audio!All : /\ \A n \in request.first : n <= p
                                      /\ \A n \in request.last : p <= n}
<1>4. asked = Audio!Start .. Audio!End
  <2>1. \A p \in 0 .. size - 1 : (\A n \in request.first : n <= p) <=> Audio!Start <= p
    BY <1>1, <1>2, <1>3
  <2>2. \A p \in 0 .. size - 1 : (\A n \in request.last : p <= n) <=> p <= Audio!End
    BY <1>1, <1>2, <1>3
  <2>3. asked = {p \in 0 .. size - 1 : Audio!Start <= p /\ p <= Audio!End}
    BY <1>1, <2>1, <2>2
  <2> QED
    BY <1>1, <1>3, <2>3
<1>5. CASE archived # "file" /\ Audio!Answer(404, {})
  <2>1. response' = [status |-> 404, bytes |-> {}, length |-> 0]
    BY <1>5, NoByteCounted DEF Audio!Answer
  <2>2. ~(Audio!Cardinality({}) < 0)
    BY NoByteCounted
  <2> QED
    BY <1>1, <1>5, <2>1, <2>2 DEF Audio!ServedIsAsked
<1>6. CASE /\ archived = "file" /\ (Audio!Start >= size \/ Audio!Start > Audio!End)
           /\ Audio!Answer(416, {})
  <2>1. response' = [status |-> 416, bytes |-> {}, length |-> 0]
    BY <1>6, NoByteCounted DEF Audio!Answer
  <2>2. ~(Audio!Cardinality({}) < 0)
    BY NoByteCounted
  <2>3. asked = {}
    BY <1>1, <1>3, <1>4, <1>6
  <2> QED
    BY <1>1, <1>6, <2>1, <2>2, <2>3 DEF Audio!ServedIsAsked, Audio!Absent
<1>7. CASE /\ archived = "file" /\ Audio!Start < size /\ Audio!Start <= Audio!End
           /\ Audio!Answer(206, Audio!Start .. Audio!End)
  <2> DEFINE n == Audio!End - Audio!Start + 1
  <2>1. Audio!Cardinality(Audio!Start .. Audio!End) = n /\ n \in 0 .. size
    <3>1. /\ Audio!Start \in Int /\ Audio!End \in Int /\ ~(Audio!Start > Audio!End)
          /\ n \in 0 .. size
      BY <1>1, <1>3, <1>7
    <3> QED
      BY <3>1, BytesCounted
  <2>2. response' = [status |-> 206, bytes |-> Audio!Start .. Audio!End, length |-> n]
    BY <1>7, <2>1 DEF Audio!Answer
  <2>3. ~(n < n) /\ asked # {} /\ asked \subseteq Audio!All
    BY <1>1, <1>3, <1>4, <1>7, <2>1
  <2> HIDE DEF n
  <2> QED
    BY <1>1, <1>4, <1>7, <2>1, <2>2, <2>3 DEF Audio!ServedIsAsked, Audio!Absent
<1> QED
  BY <1>5, <1>6, <1>7 DEF Audio!GetRange, Audio!NotFound, Audio!FileMissing

(* The routes, one step of a request after the other. *)
LEMMA AudioKeeps == AudioInv /\ Audio!Next => AudioInv'
<1> SUFFICES ASSUME AudioInv, Audio!Next PROVE AudioInv'
  OBVIOUS
<1> DEFINE Fixed == size \in Audio!Number /\ archived \in {"no", "row", "file"}
           Requested == request \in [route : {"none", "audio", "range", "node"},
                                     first : Audio!Optional, last : Audio!Optional]
           Sent == /\ serving \in {"none", "upstream", "body", "over"} /\ passed \in 0 .. size
                   /\ response.status \in {0, 200, 206, 404, 416}
                   /\ response.bytes \subseteq Audio!Number /\ response.length \in 0 .. size
<1>1. Fixed /\ Requested /\ Sent /\ AudioStages
  BY DEF AudioInv, Audio!AudioTypeOK
<1>2. SUFFICES Fixed' /\ Requested' /\ Sent' /\ AudioStages'
  BY DEF AudioInv, Audio!AudioTypeOK
<1>3. size \in 0 .. MaxBytes /\ MaxBytes \in Nat
  BY <1>1, PageAssumption DEF Audio!Number
<1>4. /\ UNCHANGED <<size, archived>> => Fixed'
      /\ request' = request => Requested'
  BY <1>1
<1>5. CASE Audio!GetAudio
  <2>1. /\ UNCHANGED <<size, archived, passed>> /\ serving' = "over" /\ Audio!Whole(200)
        /\ request' = [route |-> "audio", first |-> {}, last |-> {}]
    BY <1>5 DEF Audio!GetAudio, Audio!NoRequest, Audio!Absent
  <2>2. /\ response'.status \in {200, 404} /\ response'.bytes \subseteq Audio!Number
        /\ response'.length \in 0 .. size /\ Audio!ServedIsAsked'
    BY <2>1, WholeIsAsked
  <2> QED
    BY <1>1, <1>4, <2>1, <2>2 DEF AudioStages, Audio!Optional, Audio!Absent
<1>6. ASSUME NEW first \in Audio!Optional, NEW last \in Audio!Optional, Audio!AskRange(first, last)
      PROVE  Fixed' /\ Requested' /\ Sent' /\ AudioStages'
  BY <1>1, <1>4, <1>6 DEF Audio!AskRange, AudioStages, Audio!ServedIsAsked
<1>7. CASE Audio!GetRange
  <2>1. /\ response'.status \in {404, 206, 416} /\ response'.bytes \subseteq Audio!Number
        /\ response'.length \in 0 .. size /\ Audio!ServedIsAsked'
    BY <1>7, RangeIsAsked
  <2> QED
    BY <1>1, <1>4, <1>7, <2>1 DEF Audio!GetRange, AudioStages
<1>8. CASE Audio!AskNodeAudio
  <2>1. request' = [route |-> "node", first |-> {}, last |-> {}]
    BY <1>8 DEF Audio!AskNodeAudio, Audio!NoRequest, Audio!Absent
  <2> QED
    BY <1>1, <1>4, <1>8, <2>1
    DEF Audio!AskNodeAudio, AudioStages, Audio!ServedIsAsked, Audio!Optional, Audio!Absent
<1>9. CASE Audio!NodeAudioBegins
  <2>1. 0 .. 0 - 1 = {} /\ passed' = 0 /\ size \in 0 .. size
    BY <1>1, <1>3, <1>9 DEF Audio!NodeAudioBegins, AudioStages
  <2> QED
    BY <1>1, <1>3, <1>4, <1>9, <2>1 DEF Audio!NodeAudioBegins, AudioStages, Audio!ServedIsAsked
<1>10. CASE Audio!NodeAudioFlows
  <2>1. /\ serving = "body" /\ passed < size /\ passed' = passed + 1 /\ passed \in 0 .. size
        /\ response' = [response EXCEPT !.bytes = @ \union {passed}]
        /\ UNCHANGED <<size, archived, request, serving>>
    BY <1>1, <1>10 DEF Audio!NodeAudioFlows
  <2>2. /\ response'.bytes = response.bytes \union {passed}
        /\ response'.status = response.status /\ response'.length = response.length
    BY <2>1
  <2>3. response.bytes = 0 .. passed - 1
    BY <1>1, <2>1 DEF AudioStages
  <2>4. /\ response'.bytes = 0 .. passed' - 1 /\ response'.bytes \subseteq Audio!Number
        /\ passed' \in 0 .. size
    BY <1>3, <2>1, <2>2, <2>3 DEF Audio!Number
  <2> QED
    BY <1>1, <1>4, <2>1, <2>2, <2>4 DEF AudioStages, Audio!ServedIsAsked
<1>11. CASE Audio!NodeAudioEnds
  <2>1. /\ serving = "body" /\ serving' = "over"
        /\ UNCHANGED <<size, archived, request, passed, response>>
    BY <1>11 DEF Audio!NodeAudioEnds
  <2>2. /\ request.route = "node" /\ response.status = 200 /\ response.length = size
        /\ response.bytes = 0 .. passed - 1 /\ passed \in 0 .. size
    BY <1>1, <2>1 DEF AudioStages
  <2>3. Audio!Cardinality(response.bytes) = passed
    BY <1>3, <2>2, BytesCounted
  <2>4. response.bytes \subseteq Audio!All /\ Audio!All' = Audio!All
    BY <1>3, <2>1, <2>2, AllIsInterval DEF AudioInv, Audio!All
  <2>5. Audio!ServedIsAsked'
    BY <2>1, <2>2, <2>3, <2>4 DEF Audio!ServedIsAsked
  <2> QED
    BY <1>1, <1>4, <2>1, <2>5 DEF AudioStages
<1>12. CASE Audio!NodeAudioFails
  <2>1. /\ UNCHANGED <<size, archived, request, passed>> /\ serving' = "over"
        /\ Audio!Whole(200) /\ request.route = "node"
    BY <1>12 DEF Audio!NodeAudioFails
  <2>2. /\ response'.status \in {200, 404} /\ response'.bytes \subseteq Audio!Number
        /\ response'.length \in 0 .. size /\ Audio!ServedIsAsked'
    BY <2>1, WholeIsAsked
  <2> QED
    BY <1>1, <1>4, <2>1, <2>2 DEF AudioStages
<1>13. CASE Audio!RecordingArchived
  BY <1>1, <1>4, <1>13 DEF Audio!RecordingArchived, AudioStages, Audio!ServedIsAsked
<1>14. CASE Audio!FileLost
  BY <1>1, <1>4, <1>14 DEF Audio!FileLost, AudioStages, Audio!ServedIsAsked
<1> QED
  BY <1>5, <1>6, <1>7, <1>8, <1>9, <1>10, <1>11, <1>12, <1>13, <1>14 DEF Audio!Next

-----------------------------------------------------------------------------
(* Nothing happens to a page that rests. *)
LEMMA JobsRest == JobInv /\ Jobs!Rests => JobInv'
BY DEF Jobs!Rests, Jobs!jobVars, JobInv, JobTypes, AsksInTurn, AskedIsKnown, EndWasRead,
       OverlapIsNoted, ToldIsOver, Asks

(* Nor to the panel of the satellites. *)
LEMMA BindRests == ASSUME BindInv, Bind!Rests PROVE BindInv'
BY DEF Bind!Rests, Bind!bindVars, BindInv, Bind!BindTypeOK, DeadlineIsOfTheBind

(* Nor to a model picker. *)
LEMMA PickerRests == PickerInv /\ Picker!Rests => PickerInv'
BY DEF Picker!Rests, Picker!pickerVars, PickerInv, Picker!PickerTypeOK,
       Picker!InstallIsFollowed, FailuresAreMisses

(* Nor to the avatars. *)
LEMMA AvatarRests == AvatarInv /\ Avatar!Rests => AvatarInv'
BY DEF Avatar!Rests, Avatar!avatarVars, AvatarInv, AvatarTypes, OneImage, Stages, RowAndFiles

(* Nor to the audio routes. *)
LEMMA AudioRests == AudioInv /\ Audio!Rests => AudioInv'
BY DEF Audio!Rests, Audio!audioVars, AudioInv, Audio!AudioTypeOK, AudioStages,
       Audio!ServedIsAsked, Audio!All, Audio!Number

(* models-manager.tsx: what the page of the installs always has.  That an  *)
(* end that is known is asked for by nobody is of the jobs that no two     *)
(* callbacks asked for together.                                           *)
THEOREM JobInvariant == Jobs!Spec => []JobInv
<1>1. JobInv /\ [Jobs!Next]_Jobs!jobVars => JobInv'
  BY JobsKeep, JobsRest DEF Jobs!Rests
<1> QED
  BY JobsOpen, <1>1, PTL DEF Jobs!Spec

(* models-manager.tsx: the end of an install is announced after it, and    *)
(* once, unless two callbacks of the interval asked for it together.       *)
THEOREM InstallsAreAnnouncedOnce == Jobs!Spec => []Jobs!AnnouncedOnce
<1>1. ASSUME JobInv PROVE Jobs!AnnouncedOnce
  <2>1. ASSUME NEW j \in Job, told[j] > 1 PROVE told[j] > 0 /\ told[j] # 1
    <3>1. told[j] \in 0 .. 2
      BY <1>1 DEF JobInv, JobTypes
    <3> QED
      BY <2>1, <3>1
  <2> QED
    BY <1>1, <2>1 DEF JobInv, ToldIsOver, Jobs!AnnouncedOnce
<1> QED
  BY <1>1, JobInvariant, PTL

(* satellites-panel.tsx: what the panel of the satellites always has. *)
THEOREM BindInvariant == Bind!Spec => []BindInv
<1>1. BindInv /\ [Bind!Next]_Bind!bindVars => BindInv'
  BY BindKeeps, BindRests DEF Bind!Rests
<1> QED
  BY BindOpens, <1>1, PTL DEF Bind!Spec

(* satellites-panel.tsx: a device that did not move is not said to be      *)
(* silent before its time is over, unless it was bound while its room      *)
(* waited for another.                                                     *)
THEOREM DeviceHasItsTime == Bind!Spec => Bind!SilenceIsFair
<1> DEFINE Fair ==
      \A r \in Room, d \in Device :
         /\ pending = {<<r, d>>} /\ pending' = {} /\ device' = device
         /\ sats'[r][d] # "online"
         => rushed \/ clock > since + Patience
<1>1. BindInv /\ [Bind!Next]_Bind!bindVars => [Fair]_Bind!bindVars
  BY SilenceFair
<1> QED
  BY <1>1, BindInvariant, PTL DEF Bind!Spec, Bind!SilenceIsFair

(* model-picker.tsx: what a picker always has. *)
THEOREM PickerInvariant == Picker!Spec => []PickerInv
<1>1. PickerInv /\ [Picker!Next]_Picker!pickerVars => PickerInv'
  BY PickerKeeps, PickerRests DEF Picker!Rests
<1> QED
  BY PickerOpens, <1>1, PTL DEF Picker!Spec

(* model-picker.tsx: a status is said to be unavailable when as many polls *)
(* as the picker allows have failed in a row.                              *)
THEOREM StatusHasItsTries == Picker!Spec => Picker!UnavailableIsFair
<1> DEFINE Fair == \A j \in unavailable' \ unavailable : misses'[j] = MaxFailures + 1
<1>1. PickerInv /\ [Picker!Next]_Picker!pickerVars => [Fair]_Picker!pickerVars
  BY UnavailableFair
<1> QED
  BY <1>1, PickerInvariant, PTL DEF Picker!Spec, Picker!UnavailableIsFair

(* avatar.ts: what the row and the files always have. *)
THEOREM AvatarInvariant == Avatar!Spec => []AvatarInv
<1>1. AvatarInv /\ [Avatar!Next]_Avatar!avatarVars => AvatarInv'
  BY AvatarKeeps, AvatarRests DEF Avatar!Rests
<1> QED
  BY AvatarOpens, <1>1, PTL DEF Avatar!Spec

(* The audio routes: what a request always has at its stage. *)
THEOREM AudioInvariant == Audio!Spec => []AudioInv
<1>1. AudioInv /\ [Audio!Next]_Audio!audioVars => AudioInv'
  BY AudioKeeps, AudioRests DEF Audio!Rests
<1> QED
  BY AudioOpens, <1>1, PTL DEF Audio!Spec
=============================================================================
