--------------------------- MODULE RegistryProofs ---------------------------
(***************************************************************************)
(* Proofs about Registry, for every fleet, every number of overlapping     *)
(* rounds, every threshold and every delay: its type invariant; that a     *)
(* Domia shown online was alive, or listed by a running node, no earlier   *)
(* than it was last seen, but for the delay of a message; and, in the      *)
(* scenarios in which the code keeps it, that a report is never undone and *)
(* a settled Domia never retired.                                          *)
(***************************************************************************)
EXTENDS Registry, TLAPS

(***************************************************************************)
(* Whatever is under way about a Domia tells the truth about the moment it *)
(* is dated: nobody has heard of the Domia for no longer than that.        *)
(***************************************************************************)
BeatsAreHonest ==
    \A d \in Domia : beat[d] # None => silence[d] <= beat[d].age

RostersAreHonest ==
    \A j \in Job : job[j].pc = "apply" =>
        \A d \in job[j].live : silence[d] <= job[j].age

ProbeIsHonest ==
    /\ adder.pc = "probed" =>
          /\ adder.addr \in Address
          /\ adder.age <= Patience
          /\ \A d \in adder.hosted : silence[d] <= adder.age
    /\ adder.pc = "config" =>
          /\ adder.addr \in Address
          /\ adder.node \in NodeId
          /\ \A d \in adder.hosted : silence[d] <= adder.age + Patience

NamedIsHeard == \A d \in Domia : Heard(d) => silence[d] = 0

HonestInv ==
    /\ TypeOK
    /\ BeatsAreHonest
    /\ RostersAreHonest
    /\ ProbeIsHonest
    /\ NamedIsHeard
    /\ OnlineWasHeardOf

-----------------------------------------------------------------------------
\* A Domia that is alive is heard of, and so is whoever a running node lists.
LEMMA AliveIsNamed ==
    ASSUME RegistryAssumption
    PROVE  /\ \A d \in Domia : home[d] \in Node /\ Alive(d) => Heard(d)
           /\ \A n \in Node : up[n] => \A d \in Roster(n) \union Named(n) : d \in Domia => Heard(d)
BY DEF Alive, Heard, Named, Roster

\* A round that goes on, or ends, holds no answer.
LEMMA ContinueRound ==
    ASSUME job \in [Job -> JobType], NEW j \in Job, NEW groups \in SUBSET Group,
           Continue(j, groups)
    PROVE  /\ job' \in [Job -> JobType]
           /\ \A i \in Job : job'[i].pc = "apply" => job'[i] = job[i]
<1>. USE RegistryAssumption
<1>1. CASE job' = [job EXCEPT ![j] = NoJob]
  <2>1. NoJob \in JobType
    BY DEF NoJob, JobType
  <2>. QED
    BY <1>1, <2>1 DEF NoJob
<1>2. CASE \E g \in groups :
              job' = [job EXCEPT ![j] = [pc |-> "fetch", groups |-> groups \ {g},
                                         group |-> g, live |-> {}, age |-> 0]]
  <2>1. PICK g \in groups :
              job' = [job EXCEPT ![j] = [pc |-> "fetch", groups |-> groups \ {g},
                                         group |-> g, live |-> {}, age |-> 0]]
    BY <1>2
  <2>2. [pc |-> "fetch", groups |-> groups \ {g},
         group |-> g, live |-> {}, age |-> 0] \in JobType
    BY DEF JobType
  <2>. QED
    BY <2>1, <2>2
<1>. QED
  BY <1>1, <1>2 DEF Continue

\* Nothing is registered, or under way, when the collector starts.
LEMMA InitHonest == Init => HonestInv
<1>. SUFFICES ASSUME Init
              PROVE  HonestInv
  OBVIOUS
<1>. USE RegistryAssumption
<1>1. TypeOK
  <2>1. NoJob \in JobType
    BY DEF NoJob, JobType
  <2>2. NoAdder \in AdderType
    BY DEF NoAdder, AdderType, Revision
  <2>. QED
    BY <2>1, <2>2 DEF Init, TypeOK, Revision, NoAdder
<1>2. BeatsAreHonest /\ RostersAreHonest /\ ProbeIsHonest
  BY DEF Init, BeatsAreHonest, RostersAreHonest, ProbeIsHonest, NoJob, NoAdder
<1>3. NamedIsHeard /\ OnlineWasHeardOf
  BY DEF Init, NamedIsHeard, OnlineWasHeardOf, Online, Registered
<1>. QED
  BY <1>1, <1>2, <1>3 DEF HonestInv

-----------------------------------------------------------------------------
\* A change leaves one change less in the scenario.
LEMMA ChangeIsBounded ==
    ASSUME TypeOK, NEW kind, Change(kind)
    PROVE  plan' \in Plan
<1>1. plan \in Plan /\ plan.left \in Nat /\ plan.left > 0
  BY DEF TypeOK, Change, Plan
<1>2. plan' = [kinds |-> plan.kinds, left |-> plan.left - 1]
  BY <1>1 DEF Change, Plan
<1>. QED
  BY <1>1, <1>2 DEF Plan

\* What the fleet does: the silence of a Domia only ends.
LEMMA FleetHonest ==
    ASSUME HonestInv, Fleet
    PROVE  HonestInv'
<1>. USE RegistryAssumption
<1>0. /\ TypeOK
      /\ BeatsAreHonest
      /\ RostersAreHonest
      /\ ProbeIsHonest
      /\ NamedIsHeard
      /\ OnlineWasHeardOf
  BY DEF HonestInv
<1>. DEFINE Quiet ==
        /\ home' \in [Domia -> Node \union {None}]
        /\ peers' \in [Node -> SUBSET Domia]
        /\ up' \in [Node -> BOOLEAN]
        /\ addr' \in [Node -> Address]
        /\ config' \in [Domia -> Revision]
        /\ marker' \in [Node -> BOOLEAN]
        /\ tenure' \in [Domia -> 0 .. Patience + 1]
        /\ plan' \in Plan
        /\ beat' = beat /\ row' = row /\ job' = job /\ adder' = adder
        /\ \/ silence' = silence /\ \A d \in Domia : Heard(d)' => Heard(d)
           \/ Witness
<1>1. Quiet
  <2>1. ASSUME NEW d \in Domia, NEW n \in Node, Settle(d, n)
        PROVE  Quiet
    BY <1>0, <2>1, ChangeIsBounded DEF TypeOK, Settle, network
  <2>2. ASSUME NEW d \in Domia, Remove(d)
        PROVE  Quiet
    <3>1. \A e \in Domia : Heard(e)' => Heard(e)
      BY <1>0, <2>2 DEF TypeOK, Remove, Heard, Named, Roster
    <3>. QED
      BY <1>0, <2>2, <3>1, ChangeIsBounded DEF TypeOK, Remove, network
  <2>3. ASSUME NEW d \in Domia, Configure(d)
        PROVE  Quiet
    BY <1>0, <2>3, ChangeIsBounded DEF TypeOK, Configure, network, history, Heard, Named, Roster,
                                       Revision
  <2>4. ASSUME NEW n \in Node, StopNode(n)
        PROVE  Quiet
    <3>1. \A e \in Domia : Heard(e)' => Heard(e)
      BY <1>0, <2>4 DEF TypeOK, StopNode, Heard, Named, Roster
    <3>. QED
      BY <1>0, <2>4, <3>1, ChangeIsBounded DEF TypeOK, StopNode, history
  <2>5. ASSUME NEW n \in Node, StartNode(n)
        PROVE  Quiet
    BY <1>0, <2>5, ChangeIsBounded DEF TypeOK, StartNode, network
  <2>6. ASSUME NEW n \in Node, NEW a \in Address, Readdress(n, a)
        PROVE  Quiet
    BY <1>0, <2>6, ChangeIsBounded DEF TypeOK, Readdress, network, history, Heard, Named, Roster
  <2>7. ASSUME NEW n \in Node, NEW d \in Domia, Meet(n, d)
        PROVE  Quiet
    BY <1>0, <2>7, ChangeIsBounded DEF TypeOK, Meet, network
  <2>. QED
    BY <2>1, <2>2, <2>3, <2>4, <2>5, <2>6, <2>7 DEF Fleet
<1>2. /\ silence' \in [Domia -> 0 .. Threshold + Patience]
      /\ \A d \in Domia : silence'[d] <= silence[d]
      /\ NamedIsHeard'
  BY <1>0, <1>1 DEF TypeOK, Witness, NamedIsHeard
<1>3. TypeOK'
  BY <1>0, <1>1, <1>2 DEF TypeOK
<1>4. /\ \A d \in Domia : silence[d] \in Nat /\ silence'[d] \in Nat
      /\ \A d \in Domia : beat[d] # None => beat[d].age \in Nat
      /\ \A d \in Domia : row[d] # None => row[d].age \in Nat
      /\ \A j \in Job : job[j].age \in Nat /\ job[j].live \subseteq Domia
      /\ adder.age \in Nat /\ adder.hosted \subseteq Domia
  BY <1>0, <1>2 DEF TypeOK, Heartbeat, RowType, JobType, AdderType
<1>5. BeatsAreHonest' /\ RostersAreHonest' /\ ProbeIsHonest'
  <2>1. BeatsAreHonest'
    BY <1>0, <1>1, <1>2, <1>4 DEF BeatsAreHonest
  <2>2. RostersAreHonest'
    BY <1>0, <1>1, <1>2, <1>4 DEF RostersAreHonest
  <2>3. ProbeIsHonest'
    BY <1>0, <1>1, <1>2, <1>4 DEF ProbeIsHonest
  <2>. QED
    BY <2>1, <2>2, <2>3
<1>6. OnlineWasHeardOf'
  BY <1>0, <1>1, <1>2, <1>4 DEF OnlineWasHeardOf, Online, Registered
<1>. QED
  BY <1>2, <1>3, <1>5, <1>6 DEF HonestInv

-----------------------------------------------------------------------------
\* The messages: a heartbeat is dated by its publication.
LEMMA MessagesHonest ==
    ASSUME HonestInv, Messages
    PROVE  HonestInv'
<1>. USE RegistryAssumption
<1>0. /\ TypeOK
      /\ BeatsAreHonest
      /\ RostersAreHonest
      /\ ProbeIsHonest
      /\ NamedIsHeard
      /\ OnlineWasHeardOf
  BY DEF HonestInv
<1>1. /\ fleet' = fleet /\ job' = job /\ adder' = adder /\ history' = history
      /\ plan' = plan
  BY DEF Messages, Publish, LoseHeartbeat, UpsertHeartbeat, LoseMarker, MarkNodeOffline
<1>2. RostersAreHonest' /\ ProbeIsHonest' /\ NamedIsHeard'
  BY <1>0, <1>1 DEF RostersAreHonest, ProbeIsHonest, NamedIsHeard, Heard, Named, Roster,
                    fleet, history
<1>3. ASSUME NEW d \in Domia, Publish(d)
      PROVE  TypeOK' /\ BeatsAreHonest' /\ OnlineWasHeardOf'
  <2>1. /\ home[d] \in Node
        /\ silence[d] = 0
    BY <1>0, <1>3, AliveIsNamed DEF Publish, Alive, NamedIsHeard, TypeOK
  <2>. PICK n \in Said(home[d]), a \in Said(addr[home[d]]) :
          beat' = [beat EXCEPT ![d] = [node |-> n, addr |-> a, config |-> config[d], age |-> 0]]
    BY <1>3 DEF Publish
  <2>2. [node |-> n, addr |-> a, config |-> config[d], age |-> 0] \in Heartbeat
    BY <1>0, <2>1 DEF TypeOK, Heartbeat, Said
  <2>3. beat' \in [Domia -> Heartbeat \union {None}]
    BY <1>0, <2>2 DEF TypeOK
  <2>4. TypeOK'
    BY <1>0, <1>1, <1>3, <2>3 DEF TypeOK, Publish, fleet, history
  <2>5. BeatsAreHonest'
    BY <1>0, <1>1, <1>3, <2>1 DEF BeatsAreHonest, Publish, TypeOK, history
  <2>6. OnlineWasHeardOf'
    BY <1>0, <1>1, <1>3 DEF OnlineWasHeardOf, Online, Registered, Publish, history
  <2>. QED
    BY <2>4, <2>5, <2>6
<1>4. ASSUME NEW d \in Domia, LoseHeartbeat(d)
      PROVE  TypeOK' /\ BeatsAreHonest' /\ OnlineWasHeardOf'
  <2>1. TypeOK'
    BY <1>0, <1>1, <1>4 DEF TypeOK, LoseHeartbeat, fleet, history
  <2>2. BeatsAreHonest'
    BY <1>0, <1>1, <1>4 DEF BeatsAreHonest, LoseHeartbeat, TypeOK, history
  <2>3. OnlineWasHeardOf'
    BY <1>0, <1>1, <1>4 DEF OnlineWasHeardOf, Online, Registered, LoseHeartbeat, history
  <2>. QED
    BY <2>1, <2>2, <2>3
<1>5. ASSUME NEW d \in Domia, UpsertHeartbeat(d)
      PROVE  TypeOK' /\ BeatsAreHonest' /\ OnlineWasHeardOf'
  <2>1. /\ beat[d] \in Heartbeat
        /\ silence[d] <= beat[d].age
        /\ beat[d].age \in 0 .. Patience
        /\ silence[d] \in Nat
    BY <1>0, <1>5 DEF UpsertHeartbeat, BeatsAreHonest, TypeOK, Heartbeat
  <2>2. Upserted(d) \in RowType
    BY <2>1 DEF Upserted, RowType, Heartbeat, NodeId
  <2>3. TypeOK'
    <3>1. row' \in [Domia -> RowType \union {None}]
      BY <1>0, <1>5, <2>2 DEF UpsertHeartbeat, TypeOK
    <3>2. beat' \in [Domia -> Heartbeat \union {None}]
      BY <1>0, <1>5 DEF UpsertHeartbeat, TypeOK
    <3>. QED
      BY <1>0, <1>1, <1>5, <3>1, <3>2 DEF TypeOK, UpsertHeartbeat, fleet, history
  <2>4. BeatsAreHonest'
    BY <1>0, <1>1, <1>5 DEF BeatsAreHonest, UpsertHeartbeat, TypeOK, history
  <2>5. OnlineWasHeardOf'
    <3>1. Upserted(d).age = 0
      BY DEF Upserted
    <3>. QED
      BY <1>0, <1>1, <1>5, <2>1, <3>1
         DEF OnlineWasHeardOf, Online, Registered, UpsertHeartbeat, TypeOK, history
  <2>. QED
    BY <2>3, <2>4, <2>5
<1>6. ASSUME NEW n \in Node, LoseMarker(n)
      PROVE  TypeOK' /\ BeatsAreHonest' /\ OnlineWasHeardOf'
  <2>1. TypeOK'
    BY <1>0, <1>1, <1>6 DEF TypeOK, LoseMarker, fleet, history
  <2>2. BeatsAreHonest' /\ OnlineWasHeardOf'
    BY <1>0, <1>1, <1>6 DEF BeatsAreHonest, OnlineWasHeardOf, Online, Registered,
                            LoseMarker, history
  <2>. QED
    BY <2>1, <2>2
<1>7. ASSUME NEW n \in Node, MarkNodeOffline(n)
      PROVE  TypeOK' /\ BeatsAreHonest' /\ OnlineWasHeardOf'
  <2>1. row' \in [Domia -> RowType \union {None}]
    BY <1>0, <1>7 DEF TypeOK, MarkNodeOffline, RowType, Registered
  <2>2. TypeOK'
    BY <1>0, <1>1, <1>7, <2>1 DEF TypeOK, MarkNodeOffline, fleet, history
  <2>3. BeatsAreHonest'
    BY <1>0, <1>1, <1>7 DEF BeatsAreHonest, MarkNodeOffline, history
  <2>4. \A e \in Domia : Online(e)' => row'[e] = row[e]
    BY <1>0, <1>7 DEF Online, Registered, MarkNodeOffline, TypeOK, RowType
  <2>5. OnlineWasHeardOf'
    BY <1>0, <1>1, <2>4 DEF OnlineWasHeardOf, Online, Registered, history
  <2>. QED
    BY <2>2, <2>3, <2>5
<1>. QED
  BY <1>2, <1>3, <1>4, <1>5, <1>6, <1>7 DEF HonestInv, Messages

-----------------------------------------------------------------------------
\* The rounds: a roster is dated by the moment the node answered.
LEMMA ReconcileHonest ==
    ASSUME HonestInv, Reconcile
    PROVE  HonestInv'
<1>. USE RegistryAssumption
<1>0. /\ TypeOK
      /\ BeatsAreHonest
      /\ RostersAreHonest
      /\ ProbeIsHonest
      /\ NamedIsHeard
      /\ OnlineWasHeardOf
      /\ job \in [Job -> JobType]
  BY DEF HonestInv, TypeOK
<1>. DEFINE Quiet ==
        /\ fleet' = fleet /\ network' = network /\ adder' = adder /\ history' = history
        /\ plan' \in Plan
<1>1. Quiet
  <2>1. ASSUME NEW j \in Job,
               \/ StartReconcile(j) \/ RosterAnswers(j) \/ RosterFails(j) \/ ApplyRoster(j)
               \/ RetireGone(j)
        PROVE  Quiet
    BY <1>0, <2>1 DEF StartReconcile, RosterAnswers, RosterFails, ApplyRoster, RetireGone, TypeOK
  <2>2. ASSUME Crash
        PROVE  Quiet
    BY <1>0, <2>2, ChangeIsBounded DEF Crash, TypeOK
  <2>. QED
    BY <2>1, <2>2 DEF Reconcile
<1>2. BeatsAreHonest' /\ ProbeIsHonest' /\ NamedIsHeard'
  BY <1>0, <1>1 DEF BeatsAreHonest, ProbeIsHonest, NamedIsHeard, Heard, Named, Roster,
                    fleet, network, history
<1>3. ASSUME NEW j \in Job, StartReconcile(j)
      PROVE  TypeOK' /\ RostersAreHonest' /\ OnlineWasHeardOf'
  <2>. DEFINE nodes == {n \in NodeId : ActiveOn(n) # {}}
  <2>1. PICK first \in [nodes -> Domia] :
              /\ \A n \in nodes : first[n] \in ActiveOn(n)
              /\ Continue(j, {[node |-> n, addr |-> row[first[n]].addr,
                               keys |-> ActiveOn(n)] : n \in nodes})
    BY <1>3 DEF StartReconcile
  <2>2. {[node |-> n, addr |-> row[first[n]].addr, keys |-> ActiveOn(n)] : n \in nodes}
           \in SUBSET Group
    BY <1>0, <2>1 DEF Group, ActiveOn, Active, Registered, TypeOK, RowType
  <2>3. /\ job' \in [Job -> JobType]
        /\ \A i \in Job : job'[i].pc = "apply" => job'[i] = job[i]
    BY <1>0, <2>1, <2>2, ContinueRound
  <2>4. row' = row
    BY <1>3 DEF StartReconcile
  <2>5. TypeOK'
    BY <1>0, <1>1, <2>3, <2>4 DEF TypeOK, fleet, network, history
  <2>6. RostersAreHonest' /\ OnlineWasHeardOf'
    BY <1>0, <1>1, <2>3, <2>4 DEF RostersAreHonest, OnlineWasHeardOf, Online, Registered, history
  <2>. QED
    BY <2>5, <2>6
<1>4. ASSUME NEW j \in Job, RosterAnswers(j)
      PROVE  TypeOK' /\ RostersAreHonest' /\ OnlineWasHeardOf'
  <2>1. PICK n \in Answering(job[j].group.addr), ok \in BOOLEAN :
              job' = [job EXCEPT ![j].pc = "apply",
                                 ![j].live = IF ok THEN Named(n) ELSE {}]
    BY <1>4 DEF RosterAnswers
  <2>2. \A d \in Named(n) : d \in Domia /\ silence[d] = 0
    <3>1. n \in Node /\ up[n]
      BY <2>1 DEF Answering
    <3>2. Named(n) \subseteq Domia
      BY <1>0, <3>1 DEF Named, Roster, TypeOK
    <3>. QED
      BY <1>0, <3>1, <3>2, AliveIsNamed DEF NamedIsHeard
  <2>3. job'[j] \in JobType /\ job'[j].live \subseteq Named(n)
    BY <1>0, <2>1, <2>2 DEF JobType
  <2>4. /\ job' \in [Job -> JobType]
        /\ \A i \in Job : i # j => job'[i] = job[i]
    BY <1>0, <2>1, <2>3
  <2>5. row' = row
    BY <1>4 DEF RosterAnswers
  <2>6. TypeOK'
    BY <1>0, <1>1, <2>4, <2>5 DEF TypeOK, fleet, network, history
  <2>7. RostersAreHonest'
    <3>1. \A d \in job'[j].live : silence[d] <= job'[j].age
      BY <1>0, <2>2, <2>3 DEF JobType
    <3>. QED
      BY <1>0, <1>1, <2>4, <3>1 DEF RostersAreHonest, history
  <2>8. OnlineWasHeardOf'
    BY <1>0, <1>1, <2>5 DEF OnlineWasHeardOf, Online, Registered, history
  <2>. QED
    BY <2>6, <2>7, <2>8
<1>5. ASSUME NEW j \in Job, Continue(j, job[j].groups)
      PROVE  /\ job' \in [Job -> JobType]
             /\ RostersAreHonest'
  <2>1. job[j].groups \in SUBSET Group
    BY <1>0 DEF JobType
  <2>2. /\ job' \in [Job -> JobType]
        /\ \A i \in Job : job'[i].pc = "apply" => job'[i] = job[i]
    BY <1>0, <1>5, <2>1, ContinueRound
  <2>. QED
    BY <1>0, <1>1, <2>2 DEF RostersAreHonest, history
<1>6. ASSUME NEW j \in Job, RosterFails(j)
      PROVE  TypeOK' /\ RostersAreHonest' /\ OnlineWasHeardOf'
  <2>1. row' = row /\ Continue(j, job[j].groups)
    BY <1>6 DEF RosterFails
  <2>2. TypeOK'
    BY <1>0, <1>1, <1>5, <1>6, <2>1 DEF TypeOK, fleet, network, history
  <2>3. OnlineWasHeardOf'
    BY <1>0, <1>1, <2>1 DEF OnlineWasHeardOf, Online, Registered, history
  <2>. QED
    BY <1>5, <1>6, <2>1, <2>2, <2>3
<1>7. ASSUME NEW j \in Job, ApplyRoster(j)
      PROVE  TypeOK' /\ RostersAreHonest' /\ OnlineWasHeardOf'
  <2>1. \A d \in job[j].live : silence[d] <= job[j].age
    BY <1>0, <1>7 DEF ApplyRoster, RostersAreHonest
  <2>2. /\ job[j].age \in 0 .. Patience
        /\ \A d \in Domia : silence[d] \in Nat
    BY <1>0 DEF TypeOK, JobType
  <2>3. \A d \in Domia : Active(d) => /\ [row[d] EXCEPT !.age = 0] \in RowType
                                     /\ [row[d] EXCEPT !.age = 0].age = 0
    BY <1>0 DEF TypeOK, Active, Registered, RowType
  <2>4. row' \in [Domia -> RowType \union {None}]
    BY <1>0, <1>7, <2>3 DEF ApplyRoster, TypeOK
  <2>5. job' \in [Job -> JobType] /\ RostersAreHonest'
    <3>1. CASE Continue(j, job[j].groups)
      BY <1>5, <3>1
    <3>2. CASE job' = [job EXCEPT ![j].pc = "retire"]
      <4>1. [job[j] EXCEPT !.pc = "retire"] \in JobType
        BY <1>0 DEF JobType
      <4>2. /\ job' \in [Job -> JobType]
            /\ \A i \in Job : job'[i].pc = "apply" => job'[i] = job[i]
        BY <1>0, <3>2, <4>1 DEF JobType
      <4>. QED
        BY <1>0, <1>1, <4>2 DEF RostersAreHonest, history
    <3>. QED
      BY <1>7, <3>1, <3>2 DEF ApplyRoster
  <2>6. TypeOK'
    BY <1>0, <1>1, <2>4, <2>5 DEF TypeOK, fleet, network, history
  <2>7. ASSUME NEW d \in Domia, Online(d)'
        PROVE  silence[d] <= row'[d].age + Patience
    <3>1. CASE row'[d] = row[d]
      BY <1>0, <2>7, <3>1 DEF OnlineWasHeardOf, Online, Registered
    <3>2. CASE row'[d] # row[d]
      <4>1. d \in job[j].live /\ Active(d) /\ row'[d] = [row[d] EXCEPT !.age = 0]
        BY <1>7, <3>2 DEF ApplyRoster, Seen
      <4>. QED
        BY <2>1, <2>2, <2>3, <4>1
    <3>. QED
      BY <3>1, <3>2
  <2>8. OnlineWasHeardOf'
    BY <1>1, <2>7 DEF OnlineWasHeardOf, history
  <2>. QED
    BY <2>5, <2>6, <2>8
<1>9. ASSUME NEW j \in Job, RetireGone(j)
      PROVE  TypeOK' /\ RostersAreHonest' /\ OnlineWasHeardOf'
  <2>1. Continue(j, job[j].groups)
    BY <1>9 DEF RetireGone
  <2>2. \A d \in Domia : Active(d) =>
           /\ [row[d] EXCEPT !.active = FALSE] \in RowType
           /\ [row[d] EXCEPT !.active = FALSE].age = row[d].age
    <3>1. \A d \in Domia : Active(d) => row[d] \in RowType
      BY <1>0 DEF TypeOK, Active, Registered
    <3>. QED
      BY <3>1 DEF RowType
  <2>3. row' \in [Domia -> RowType \union {None}]
    BY <1>0, <1>9, <2>2 DEF RetireGone, TypeOK
  <2>4. TypeOK'
    BY <1>0, <1>1, <1>5, <2>1, <2>3 DEF TypeOK, fleet, network, history
  <2>5. \A d \in Domia : Online(d)' => Online(d) /\ row'[d].age = row[d].age
    BY <1>9, <2>2 DEF RetireGone, Online, Registered, Active
  <2>6. OnlineWasHeardOf'
    BY <1>0, <1>1, <2>5 DEF OnlineWasHeardOf, history
  <2>. QED
    BY <1>5, <2>1, <2>4, <2>6
<1>8. ASSUME Crash
      PROVE  TypeOK' /\ RostersAreHonest' /\ OnlineWasHeardOf'
  <2>1. NoJob \in JobType
    BY DEF NoJob, JobType
  <2>2. TypeOK'
    BY <1>0, <1>1, <1>8, <2>1 DEF TypeOK, Crash, fleet, network, history
  <2>3. RostersAreHonest'
    BY <1>8 DEF RostersAreHonest, Crash, NoJob
  <2>4. OnlineWasHeardOf'
    BY <1>0, <1>1, <1>8 DEF OnlineWasHeardOf, Online, Registered, Crash, history
  <2>. QED
    BY <2>2, <2>3, <2>4
<1>. QED
  BY <1>2, <1>3, <1>4, <1>6, <1>7, <1>8, <1>9 DEF HonestInv, Reconcile

-----------------------------------------------------------------------------
\* addNodeByAddress: its rows are dated by the moment the node had answered.
LEMMA AddNodeHonest ==
    ASSUME HonestInv, AddNode
    PROVE  HonestInv'
<1>. USE RegistryAssumption
<1>0. /\ TypeOK
      /\ BeatsAreHonest
      /\ RostersAreHonest
      /\ ProbeIsHonest
      /\ NamedIsHeard
      /\ OnlineWasHeardOf
      /\ adder \in AdderType
  BY DEF HonestInv, TypeOK
<1>. DEFINE Quiet ==
        /\ fleet' = fleet /\ network' = network /\ job' = job /\ history' = history
        /\ plan' \in Plan
<1>1. Quiet
  <2>1. ASSUME NEW a \in Address, ProbeNode(a)
        PROVE  Quiet
    BY <1>0, <2>1, ChangeIsBounded DEF ProbeNode, TypeOK
  <2>2. ASSUME NEW d \in Domia, ReadConfig(d) \/ ReadConfigFails(d)
        PROVE  Quiet
    BY <1>0, <2>2 DEF ReadConfig, ReadConfigFails, TypeOK
  <2>3. ASSUME ReadRegistry \/ CommitNode \/ AbandonNode
        PROVE  Quiet
    BY <1>0, <2>3 DEF ReadRegistry, CommitNode, AbandonNode, TypeOK
  <2>. QED
    BY <2>1, <2>2, <2>3 DEF AddNode
<1>2. BeatsAreHonest' /\ RostersAreHonest' /\ NamedIsHeard'
  BY <1>0, <1>1 DEF BeatsAreHonest, RostersAreHonest, NamedIsHeard, Heard, Named, Roster,
                    fleet, network, history
<1>3. NoAdder \in AdderType /\ NoAdder.pc = "idle"
  BY DEF NoAdder, AdderType, Revision
<1>4. \A d \in Domia : silence[d] \in Nat
  BY <1>0 DEF TypeOK
<1>5. ASSUME row' = row, adder' \in AdderType, adder'.pc = "config" => adder'.node # None
      PROVE  TypeOK' /\ OnlineWasHeardOf'
  <2>1. TypeOK'
    BY <1>0, <1>1, <1>5 DEF TypeOK, fleet, network, history
  <2>2. OnlineWasHeardOf'
    BY <1>0, <1>1, <1>5 DEF OnlineWasHeardOf, Online, Registered, history
  <2>. QED
    BY <2>1, <2>2
<1>6. ASSUME NEW a \in Address, ProbeNode(a)
      PROVE  TypeOK' /\ ProbeIsHonest' /\ OnlineWasHeardOf'
  <2>1. PICK n \in Answering(a) :
              adder' = [NoAdder EXCEPT !.pc = "probed", !.addr = a, !.hosted = Roster(n)]
    BY <1>6 DEF ProbeNode
  <2>2. \A d \in Roster(n) : d \in Domia /\ silence[d] = 0
    <3>1. n \in Node /\ up[n]
      BY <2>1 DEF Answering
    <3>2. Roster(n) \subseteq Domia
      BY DEF Roster
    <3>. QED
      BY <1>0, <3>1, <3>2, AliveIsNamed DEF NamedIsHeard
  <2>3. /\ adder' \in AdderType
        /\ adder'.pc = "probed" /\ adder'.addr = a /\ adder'.hosted = Roster(n)
        /\ adder'.age = 0
    <3>1. NoAdder.age = 0
      BY DEF NoAdder
    <3>2. Roster(n) \subseteq Domia
      BY DEF Roster
    <3>. QED
      BY <1>3, <2>1, <3>1, <3>2 DEF AdderType
  <2>4. ProbeIsHonest'
    BY <1>1, <2>2, <2>3 DEF ProbeIsHonest, history
  <2>. QED
    BY <1>5, <1>6, <2>3, <2>4 DEF ProbeNode
<1>7. ASSUME ReadRegistry
      PROVE  TypeOK' /\ ProbeIsHonest' /\ OnlineWasHeardOf'
  <2>. DEFINE known == {row[d].node : d \in {e \in adder.hosted : Registered(e)}}
                       \ {adder.addr, None}
  <2>1. PICK n \in IF known = {} THEN {adder.addr} ELSE known :
             adder' = [adder EXCEPT !.pc = "config", !.node = n, !.age = 0,
                         !.left = adder.hosted,
                         !.stale = {d \in Domia \ adder.hosted :
                                      Registered(d) /\ row[d].node = n}]
    BY <1>7 DEF ReadRegistry
  <2>2. n \in NodeId /\ adder.addr \in Address
    <3>1. \A d \in adder.hosted : Registered(d) => row[d].node \in NodeId \union {None}
      BY <1>0 DEF TypeOK, AdderType, RowType, Registered
    <3>2. adder.addr \in Address /\ adder.addr \in NodeId
      BY <1>0, <1>7 DEF ReadRegistry, ProbeIsHonest, NodeId
    <3>. QED
      BY <2>1, <3>1, <3>2
  <2>3. /\ adder' \in AdderType
        /\ adder'.pc = "config" /\ adder'.age = 0 /\ adder'.hosted = adder.hosted
        /\ adder'.addr = adder.addr /\ adder'.node = n
    BY <1>0, <2>1, <2>2 DEF AdderType
  <2>4. \A d \in adder.hosted : d \in Domia /\ silence[d] <= Patience
    BY <1>0, <1>4, <1>7 DEF ReadRegistry, ProbeIsHonest, AdderType
  <2>5. ProbeIsHonest'
    BY <1>1, <1>4, <2>2, <2>3, <2>4 DEF ProbeIsHonest, history
  <2>6. n # None
    BY <2>2 DEF NodeId
  <2>. QED
    BY <1>5, <1>7, <2>3, <2>5, <2>6 DEF ReadRegistry
<1>8. ASSUME NEW d \in Domia, ReadConfig(d) \/ ReadConfigFails(d)
      PROVE  TypeOK' /\ ProbeIsHonest' /\ OnlineWasHeardOf'
  <2>1. config[d] \in Revision
    BY <1>0 DEF TypeOK
  <2>2. /\ adder' \in AdderType
        /\ adder'.pc = "config" /\ adder'.age = adder.age /\ adder'.hosted = adder.hosted
        /\ adder'.addr = adder.addr /\ adder'.node = adder.node
    <3>1. CASE ReadConfig(d)
      <4>. DEFINE left == adder.left \ {d}
                  read == [adder.read EXCEPT ![d] = config[d]]
      <4>1. left \in SUBSET Domia /\ read \in [Domia -> Revision]
        BY <1>0, <2>1 DEF AdderType
      <4>2. adder' = [adder EXCEPT !.left = left, !.read = read]
        BY <1>0, <3>1 DEF ReadConfig, AdderType
      <4>3. adder.pc = "config"
        BY <3>1 DEF ReadConfig
      <4>. HIDE DEF left, read
      <4>. QED
        BY <1>0, <4>1, <4>2, <4>3 DEF AdderType
    <3>2. CASE ReadConfigFails(d)
      BY <1>0, <3>2 DEF AdderType, ReadConfigFails
    <3>. QED
      BY <1>8, <3>1, <3>2
  <2>3. ProbeIsHonest'
    BY <1>0, <1>1, <1>8, <2>2 DEF ProbeIsHonest, ReadConfig, ReadConfigFails, history
  <2>4. adder.node # None
    BY <1>0, <1>8 DEF ReadConfig, ReadConfigFails, TypeOK
  <2>. QED
    BY <1>5, <1>8, <2>2, <2>3, <2>4 DEF ReadConfig, ReadConfigFails
<1>9. ASSUME CommitNode
      PROVE  TypeOK' /\ ProbeIsHonest' /\ OnlineWasHeardOf'
  <2>1. /\ adder.addr \in Address /\ adder.node \in NodeId
        /\ adder.age \in Nat
        /\ \A d \in adder.hosted : silence[d] <= adder.age + Patience
    BY <1>0, <1>9 DEF CommitNode, ProbeIsHonest, AdderType
  <2>2. adder' = NoAdder
    BY <1>9 DEF CommitNode
  <2>3. \A d \in Domia : row[d] \in RowType \union {None}
    BY <1>0 DEF TypeOK
  <2>4. AddedAge \in 0 .. Threshold
    BY <2>1 DEF AddedAge
  <2>5. \A d \in Domia : Added(d) \in RowType /\ Added(d).age = AddedAge
    <3>. SUFFICES ASSUME NEW d \in Domia
                  PROVE  Added(d) \in RowType /\ Added(d).age = AddedAge
      OBVIOUS
    <3>. DEFINE c == IF adder.read[d] # 0 THEN adder.read[d]
                     ELSE IF Registered(d) THEN row[d].config ELSE 0
    <3>1. c \in Revision
      BY <1>0, <2>3 DEF AdderType, RowType, Registered, Revision
    <3>2. Added(d) = [node |-> adder.node, addr |-> adder.addr, active |-> TRUE,
                      age |-> AddedAge, config |-> c]
      BY DEF Added
    <3>. HIDE DEF c
    <3>. QED
      BY <2>1, <2>4, <3>1, <3>2 DEF RowType
  <2>6. row' \in [Domia -> RowType \union {None}]
    <3>1. \A d \in Domia : Registered(d) => [row[d] EXCEPT !.active = FALSE] \in RowType
      BY <2>3 DEF Registered, RowType
    <3>. QED
      BY <1>9, <2>3, <2>5, <3>1 DEF CommitNode
  <2>7. TypeOK'
    BY <1>0, <1>1, <1>3, <2>2, <2>6 DEF TypeOK, fleet, network, history
  <2>8. ProbeIsHonest'
    BY <2>2 DEF ProbeIsHonest, NoAdder
  <2>9. ASSUME NEW d \in Domia, Online(d)'
        PROVE  silence[d] <= row'[d].age + Patience
    <3>1. CASE d \in adder.hosted
      <4>1. row'[d] = Added(d)
        BY <1>9, <3>1 DEF CommitNode
      <4>2. AddedAge < Threshold
        BY <2>5, <2>9, <4>1 DEF Online
      <4>3. AddedAge = adder.age
        BY <4>2 DEF AddedAge
      <4>. QED
        BY <2>1, <2>5, <3>1, <4>1, <4>3
    <3>2. CASE d \notin adder.hosted
      <4>1. /\ Registered(d)
            /\ row'[d].age = row[d].age
        BY <1>9, <2>3, <2>9, <3>2 DEF CommitNode, Online, Registered, RowType
      <4>2. Online(d)
        BY <2>9, <4>1 DEF Online
      <4>. QED
        BY <1>0, <4>1, <4>2 DEF OnlineWasHeardOf
    <3>. QED
      BY <3>1, <3>2
  <2>10. OnlineWasHeardOf'
    BY <1>1, <2>9 DEF OnlineWasHeardOf, history
  <2>. QED
    BY <2>7, <2>8, <2>10
<1>10. ASSUME AbandonNode
       PROVE  TypeOK' /\ ProbeIsHonest' /\ OnlineWasHeardOf'
  <2>1. ProbeIsHonest'
    BY <1>10 DEF AbandonNode, ProbeIsHonest, NoAdder
  <2>. QED
    BY <1>3, <1>5, <1>10, <2>1 DEF AbandonNode
<1>. QED
  BY <1>2, <1>6, <1>7, <1>8, <1>9, <1>10 DEF HonestInv, AddNode

-----------------------------------------------------------------------------
\* Time: a Domia is silent for no longer than what is dated gets older.
LEMMA TickHonest ==
    ASSUME HonestInv, Tick
    PROVE  HonestInv'
<1>. USE RegistryAssumption
<1>0. /\ TypeOK
      /\ BeatsAreHonest
      /\ RostersAreHonest
      /\ ProbeIsHonest
      /\ NamedIsHeard
      /\ OnlineWasHeardOf
      /\ adder \in AdderType
      /\ job \in [Job -> JobType]
  BY DEF HonestInv, TypeOK
<1>1. fleet' = fleet /\ marker' = marker /\ plan' = plan
  BY DEF Tick
<1>2. \A d \in Domia : Heard(d)' <=> Heard(d)
  BY <1>1 DEF Heard, Named, Roster, fleet
<1>3. /\ silence' \in [Domia -> 0 .. Threshold + Patience]
      /\ tenure' \in [Domia -> 0 .. Patience + 1]
  <2>1. \A d \in Domia : silence[d] \in 0 .. Threshold + Patience /\ tenure[d] \in 0 .. Patience + 1
    BY <1>0 DEF TypeOK
  <2>. QED
    BY <2>1 DEF Tick, Older
<1>4. \A d \in Domia : /\ silence[d] \in Nat
                       /\ silence[d] <= Threshold + Patience
                       /\ silence'[d] \in Nat
                       /\ silence'[d] <= Threshold + Patience
                       /\ silence'[d] <= silence[d] + 1
                       /\ Heard(d) => silence'[d] = 0
  BY <1>0, <1>3 DEF TypeOK, Tick, Older
<1>5. beat' \in [Domia -> Heartbeat \union {None}] /\ BeatsAreHonest'
  <2>1. \A d \in Domia : beat[d] # None =>
           /\ beat[d] \in Heartbeat
           /\ beat[d].age \in 0 .. Patience
           /\ beat[d].age < Patience
           /\ [beat[d] EXCEPT !.age = @ + 1] \in Heartbeat
           /\ [beat[d] EXCEPT !.age = @ + 1].age = beat[d].age + 1
    <3>1. \A d \in Domia : beat[d] # None => beat[d] \in Heartbeat /\ beat[d].age < Patience
      BY <1>0 DEF TypeOK, Tick
    <3>. QED
      BY <3>1 DEF Heartbeat
  <2>2. beat' \in [Domia -> Heartbeat \union {None}]
    BY <1>0, <2>1 DEF TypeOK, Tick
  <2>3. ASSUME NEW d \in Domia, beat'[d] # None
        PROVE  silence'[d] <= beat'[d].age
    <3>1. beat[d] # None /\ beat'[d].age = beat[d].age + 1
      BY <2>1, <2>3 DEF Tick
    <3>2. silence[d] <= beat[d].age
      BY <1>0, <3>1 DEF BeatsAreHonest
    <3>3. beat[d].age \in Nat
      BY <1>0, <2>3, <3>1 DEF TypeOK, Heartbeat
    <3>4. silence[d] \in Nat /\ silence'[d] \in Nat /\ silence'[d] <= silence[d] + 1
      BY <1>4, <2>3
    <3>. QED
      BY <3>1, <3>2, <3>3, <3>4
  <2>. QED
    BY <2>2, <2>3 DEF BeatsAreHonest
<1>6. job' \in [Job -> JobType] /\ RostersAreHonest'
  <2>1. \A j \in Job : job[j].pc = "apply" =>
           /\ job[j].age \in 0 .. Patience
           /\ job[j].age < Patience
           /\ [job[j] EXCEPT !.age = @ + 1] \in JobType
           /\ [job[j] EXCEPT !.age = @ + 1].age = job[j].age + 1
           /\ [job[j] EXCEPT !.age = @ + 1].live = job[j].live
           /\ job[j].live \subseteq Domia
    BY <1>0 DEF JobType, Tick
  <2>2. job' \in [Job -> JobType]
    BY <1>0, <2>1 DEF Tick
  <2>3. ASSUME NEW j \in Job, job'[j].pc = "apply", NEW d \in job'[j].live
        PROVE  silence'[d] <= job'[j].age
    <3>1. job[j].pc = "apply"
      BY <1>0, <2>3 DEF Tick
    <3>2. /\ job'[j].age = job[j].age + 1
          /\ d \in job[j].live /\ d \in Domia
      BY <2>1, <2>3, <3>1 DEF Tick
    <3>3. silence[d] <= job[j].age
      BY <1>0, <3>1, <3>2 DEF RostersAreHonest
    <3>4. job[j].age \in Nat
      BY <1>0, <2>3 DEF JobType
    <3>5. silence[d] \in Nat /\ silence'[d] \in Nat /\ silence'[d] <= silence[d] + 1
      BY <1>4, <2>3, <3>2
    <3>. QED
      BY <3>2, <3>3, <3>4, <3>5
  <2>. QED
    BY <2>2, <2>3 DEF RostersAreHonest
<1>7. adder' \in AdderType /\ ProbeIsHonest'
  <2>. DEFINE age == Older(adder.age, Threshold + Patience)
  <2>1. /\ adder.age \in Nat
        /\ adder.hosted \subseteq Domia
        /\ age \in Nat
        /\ age = adder.age + 1 \/ (age = Threshold + Patience /\ adder.age >= age)
    BY <1>0 DEF AdderType, Older
  <2>2. CASE adder.pc = "idle"
    BY <1>0, <2>2 DEF Tick, ProbeIsHonest
  <2>3. CASE adder.pc # "idle"
    <3>1. adder' = [adder EXCEPT !.age = age]
      BY <2>3 DEF Tick
    <3>. HIDE DEF age
    <3>2. /\ adder' \in AdderType
          /\ adder'.age = age
          /\ adder'.pc = adder.pc /\ adder'.hosted = adder.hosted
          /\ adder'.addr = adder.addr /\ adder'.node = adder.node
      BY <1>0, <2>1, <3>1 DEF AdderType
    <3>3. adder.pc = "probed" => adder.age < Patience
      BY DEF Tick
    <3>4. ASSUME adder.pc = "probed"
          PROVE  age <= Patience /\ \A d \in adder.hosted : silence'[d] <= age
      BY <1>0, <1>4, <2>1, <3>3, <3>4 DEF ProbeIsHonest
    <3>5. ASSUME adder.pc = "config"
          PROVE  \A d \in adder.hosted : silence'[d] <= age + Patience
      BY <1>0, <1>4, <2>1, <3>5 DEF ProbeIsHonest
    <3>. QED
      BY <1>0, <3>2, <3>4, <3>5 DEF ProbeIsHonest
  <2>. QED
    BY <2>2, <2>3
<1>8. row' \in [Domia -> RowType \union {None}] /\ OnlineWasHeardOf'
  <2>1. \A d \in Domia : Registered(d) =>
           /\ row[d].age \in 0 .. Threshold
           /\ [row[d] EXCEPT !.age = Older(@, Threshold)] \in RowType
           /\ [row[d] EXCEPT !.age = Older(@, Threshold)].age = Older(row[d].age, Threshold)
    BY <1>0 DEF TypeOK, RowType, Registered, Older
  <2>2. row' \in [Domia -> RowType \union {None}]
    BY <2>1 DEF Tick
  <2>3. ASSUME NEW d \in Domia, Online(d)'
        PROVE  silence'[d] <= row'[d].age + Patience
    <3>1. /\ Registered(d)
          /\ row'[d].age = Older(row[d].age, Threshold)
          /\ row'[d].age < Threshold
      BY <2>1, <2>3 DEF Tick, Online, Registered
    <3>2. row[d].age < Threshold /\ row'[d].age = row[d].age + 1
      BY <2>1, <3>1 DEF Older
    <3>3. silence[d] <= row[d].age + Patience
      BY <1>0, <3>1, <3>2 DEF OnlineWasHeardOf, Online
    <3>4. row[d].age \in Nat
      BY <1>0, <2>3, <3>1 DEF TypeOK, RowType, Registered
    <3>5. silence[d] \in Nat /\ silence'[d] \in Nat /\ silence'[d] <= silence[d] + 1
      BY <1>4, <2>3
    <3>. QED
      BY <3>2, <3>3, <3>4, <3>5
  <2>. QED
    BY <2>2, <2>3 DEF OnlineWasHeardOf
<1>9. TypeOK'
  <2>1. adder'.pc = adder.pc /\ adder'.node = adder.node
    BY <1>0 DEF Tick, AdderType
  <2>. QED
    BY <1>0, <1>1, <1>3, <1>5, <1>6, <1>7, <1>8, <2>1 DEF TypeOK, fleet
<1>10. NamedIsHeard'
  BY <1>2, <1>4 DEF NamedIsHeard
<1>. QED
  BY <1>5, <1>6, <1>7, <1>8, <1>9, <1>10 DEF HonestInv

-----------------------------------------------------------------------------
\* Whatever is under way is honest about its date: what makes a Domia online is
\* never older than it says, but for the delay of a message.
THEOREM HonestInvariant == Spec => []HonestInv
<1>1. HonestInv /\ [Next]_vars => HonestInv'
  <2>. SUFFICES ASSUME HonestInv, [Next]_vars
                PROVE  HonestInv'
    OBVIOUS
  <2>1. CASE UNCHANGED vars
    BY <2>1 DEF vars, fleet, network, history, HonestInv, TypeOK, BeatsAreHonest,
                RostersAreHonest, ProbeIsHonest, NamedIsHeard, OnlineWasHeardOf,
                Heard, Named, Roster, Online, Registered
  <2>. QED
    BY <2>1, FleetHonest, MessagesHonest, ReconcileHonest, AddNodeHonest, TickHonest DEF Next
<1>. QED
  BY <1>1, InitHonest, PTL DEF Spec

\* Every variable of the registry stays in its domain.
THEOREM RegistryTypeCorrect == Spec => []TypeOK
<1>1. HonestInv => TypeOK
  BY DEF HonestInv
<1>. QED
  BY <1>1, HonestInvariant, PTL

\* A Domia shown online was alive, or listed by a running node, no earlier than it
\* was last seen, but for the delay of a message: upsertHeartbeat, reconcileRosters
\* and addNodeByAddress each keep a Domia that nobody has heard of online for no
\* longer than Threshold + Patience.
THEOREM OnlineIsHonest == Spec => []OnlineWasHeardOf
<1>1. HonestInv => OnlineWasHeardOf
  BY DEF HonestInv
<1>. QED
  BY <1>1, HonestInvariant, PTL

-----------------------------------------------------------------------------
\* What may happen in a scenario stays what it was.
LEMMA KindsStay ==
    ASSUME TypeOK, Next
    PROVE  plan'.kinds = plan.kinds
<1>1. ASSUME NEW kind, Change(kind)
      PROVE  plan'.kinds = plan.kinds
  BY <1>1 DEF Change, TypeOK, Plan
<1>2. CASE Fleet
  BY <1>1, <1>2 DEF Fleet, Settle, Remove, Configure, StopNode, StartNode, Readdress, Meet
<1>3. CASE Messages
  BY <1>3 DEF Messages, Publish, LoseHeartbeat, UpsertHeartbeat, LoseMarker, MarkNodeOffline
<1>4. CASE Reconcile
  BY <1>1, <1>4 DEF Reconcile, StartReconcile, RosterAnswers, RosterFails, ApplyRoster, RetireGone, Crash
<1>5. CASE AddNode
  BY <1>1, <1>5 DEF AddNode, ProbeNode, ReadRegistry, ReadConfig, ReadConfigFails, CommitNode,
                    AbandonNode
<1>6. CASE Tick
  BY <1>6 DEF Tick
<1>. QED
  BY <1>2, <1>3, <1>4, <1>5, <1>6 DEF Next

-----------------------------------------------------------------------------
\* The scenarios in which no node is added by its address while configurations
\* change.
AddedOrConfigured ==
    /\ ~({"add", "configure"} \subseteq plan.kinds)
    /\ "add" \notin plan.kinds => adder.pc = "idle"
    /\ "configure" \notin plan.kinds =>
          \A d \in Domia :
             /\ config[d] = 1 /\ adder.read[d] <= 1
             /\ beat[d] # None => beat[d].config = 1

\* What the archive holds of a configuration is not newer than what is under way,
\* and that is not newer than what the Domia has.
ReportsInOrder ==
    \A d \in Domia :
        /\ Registered(d) => row[d].config <= config[d]
        /\ beat[d] # None =>
              /\ beat[d].config <= config[d]
              /\ Registered(d) => row[d].config <= beat[d].config

ReportInv == AddedOrConfigured /\ ReportsInOrder

\* LastReportKept, of one step.
ReportKept == \A d \in Domia : Registered(d) => row[d].config <= row'[d].config

\* The changes of the fleet write no row.
LEMMA FleetReports ==
    ASSUME TypeOK, ReportInv, Fleet
    PROVE  ReportInv' /\ ReportKept
<1>1. plan'.kinds = plan.kinds /\ row' = row /\ beat' = beat /\ adder' = adder
  BY KindsStay DEF Next, Fleet, Settle, Remove, Configure, StopNode, StartNode, Readdress, Meet, network
<1>2. \/ config' = config
      \/ "configure" \in plan.kinds /\ \A d \in Domia : config[d] <= config'[d]
  <2>1. ASSUME NEW d \in Domia, Configure(d)
        PROVE  "configure" \in plan.kinds /\ \A e \in Domia : config[e] <= config'[e]
    <3>1. config' = [config EXCEPT ![d] = config[d] + 1] /\ "configure" \in plan.kinds
      BY <2>1 DEF Configure, Change
    <3>2. config \in [Domia -> Nat]
      BY RegistryAssumption DEF TypeOK, Revision
    <3>. QED
      BY <3>1, <3>2
  <2>. QED
    BY <2>1 DEF Fleet, Settle, Remove, StopNode, StartNode, Readdress, Meet
<1>3. /\ config \in [Domia -> Nat] /\ config' \in [Domia -> Nat]
      /\ \A d \in Domia : /\ Registered(d) => row[d].config \in Nat
                          /\ beat[d] # None => beat[d].config \in Nat
  <2>1. config \in [Domia -> Nat] /\ config' \in [Domia -> Nat]
    <3>1. config \in [Domia -> Nat]
      BY RegistryAssumption DEF TypeOK, Revision
    <3>2. config' = config \/ \E d \in Domia : config' = [config EXCEPT ![d] = config[d] + 1]
      BY DEF Fleet, Settle, Remove, StopNode, StartNode, Readdress, Meet, Configure
    <3>. QED
      BY <3>1, <3>2
  <2>. QED
    BY <2>1, RegistryAssumption
    DEF TypeOK, Registered, RowType, Revision, Heartbeat
<1>4. AddedOrConfigured'
  BY <1>1, <1>2 DEF ReportInv, AddedOrConfigured
<1>5. ReportsInOrder' /\ ReportKept
  BY <1>1, <1>2, <1>3 DEF ReportInv, ReportsInOrder, ReportKept, Registered
<1>. QED
  BY <1>4, <1>5 DEF ReportInv

\* A heartbeat brings what the Domia has; its upsert, what was under way.
LEMMA MessagesReport ==
    ASSUME TypeOK, ReportInv, Messages
    PROVE  ReportInv' /\ ReportKept
<1>1. plan'.kinds = plan.kinds /\ adder' = adder /\ config' = config
  BY KindsStay DEF Next, Messages, Publish, LoseHeartbeat, UpsertHeartbeat, LoseMarker,
                   MarkNodeOffline, fleet
<1>2. \A d \in Domia : /\ config[d] \in Nat
                       /\ Registered(d) => row[d].config \in Nat
                       /\ beat[d] # None => beat[d].config \in Nat
  BY RegistryAssumption DEF TypeOK, Registered, RowType, Revision, Heartbeat
<1>3. ASSUME NEW d \in Domia, Publish(d)
      PROVE  ReportInv' /\ ReportKept
  <2>1. home[d] \in Node
    BY <1>3 DEF Publish, Alive, TypeOK
  <2>. PICK n \in Said(home[d]), a \in Said(addr[home[d]]) :
          beat' = [beat EXCEPT ![d] = [node |-> n, addr |-> a, config |-> config[d], age |-> 0]]
    BY <1>3 DEF Publish
  <2>2. [node |-> n, addr |-> a, config |-> config[d], age |-> 0] \in Heartbeat
    BY <2>1, RegistryAssumption DEF TypeOK, Heartbeat, Said
  <2>3. /\ row' = row /\ beat'[d] # None /\ beat'[d].config = config[d]
        /\ \A e \in Domia \ {d} : beat'[e] = beat[e]
    BY <1>3, <2>2, NoneAssumption DEF Publish, TypeOK
  <2>. QED
    BY <1>1, <1>2, <2>3 DEF ReportInv, AddedOrConfigured, ReportsInOrder, ReportKept, Registered
<1>4. ASSUME NEW d \in Domia, LoseHeartbeat(d)
      PROVE  ReportInv' /\ ReportKept
  <2>1. /\ row' = row /\ beat'[d] = None
        /\ \A e \in Domia \ {d} : beat'[e] = beat[e]
    BY <1>4 DEF LoseHeartbeat, TypeOK
  <2>. QED
    BY <1>1, <1>2, <2>1 DEF ReportInv, AddedOrConfigured, ReportsInOrder, ReportKept, Registered
<1>5. ASSUME NEW d \in Domia, UpsertHeartbeat(d)
      PROVE  ReportInv' /\ ReportKept
  <2>1. /\ row'[d].config = beat[d].config /\ beat[d] # None /\ beat'[d] = None
        /\ \A e \in Domia \ {d} : beat'[e] = beat[e] /\ row'[e] = row[e]
    BY <1>5 DEF UpsertHeartbeat, Upserted, TypeOK
  <2>. QED
    BY <1>1, <1>2, <2>1 DEF ReportInv, AddedOrConfigured, ReportsInOrder, ReportKept, Registered
<1>6. ASSUME NEW n \in Node, LoseMarker(n)
      PROVE  ReportInv' /\ ReportKept
  BY <1>1, <1>2, <1>6
  DEF LoseMarker, ReportInv, AddedOrConfigured, ReportsInOrder, ReportKept, Registered
<1>7. ASSUME NEW n \in Node, MarkNodeOffline(n)
      PROVE  ReportInv' /\ ReportKept
  <2>1. /\ beat' = beat
        /\ \A e \in Domia : /\ Registered(e)' = Registered(e)
                            /\ Registered(e) => row'[e].config = row[e].config
    <3>1. ASSUME NEW e \in Domia, Registered(e)
          PROVE  /\ row[e] \in RowType /\ [row[e] EXCEPT !.age = Threshold] \in RowType
                 /\ [row[e] EXCEPT !.age = Threshold].config = row[e].config
      <4>1. row[e] \in RowType
        BY <3>1 DEF TypeOK, Registered
      <4>. QED
        BY <4>1, RegistryAssumption DEF RowType
    <3>. QED
      BY <1>7, <3>1, NoneAssumption DEF MarkNodeOffline, Registered
  <2>. QED
    BY <1>1, <1>2, <2>1 DEF ReportInv, AddedOrConfigured, ReportsInOrder, ReportKept
<1>. QED
  BY <1>3, <1>4, <1>5, <1>6, <1>7 DEF Messages

\* A round changes the age of a row, or whether it is active, and nothing else.
LEMMA RoundRows ==
    ASSUME TypeOK, NEW j \in Job, ApplyRoster(j) \/ RetireGone(j), NEW d \in Domia
    PROVE  /\ Registered(d)' = Registered(d)
           /\ Registered(d) => /\ row'[d].config = row[d].config
                               /\ row'[d].node = row[d].node /\ row'[d].addr = row[d].addr
           /\ Active(d) /\ ~Active(d)' =>
                 RetireGone(j) /\ job[j].pc = "retire" /\ Retired(j, d)
<1>1. ASSUME Registered(d)
      PROVE  /\ row[d] \in RowType
             /\ [row[d] EXCEPT !.age = 0] \in RowType
             /\ [row[d] EXCEPT !.age = 0].config = row[d].config
             /\ [row[d] EXCEPT !.age = 0].node = row[d].node
             /\ [row[d] EXCEPT !.age = 0].addr = row[d].addr
             /\ [row[d] EXCEPT !.active = FALSE] \in RowType
             /\ [row[d] EXCEPT !.active = FALSE].config = row[d].config
             /\ [row[d] EXCEPT !.active = FALSE].node = row[d].node
             /\ [row[d] EXCEPT !.active = FALSE].addr = row[d].addr
  <2>1. row[d] \in RowType
    BY <1>1 DEF TypeOK, Registered
  <2>2. /\ [row[d] EXCEPT !.age = 0] \in RowType
        /\ [row[d] EXCEPT !.age = 0].config = row[d].config
        /\ [row[d] EXCEPT !.age = 0].node = row[d].node
        /\ [row[d] EXCEPT !.age = 0].addr = row[d].addr
    BY <2>1, RegistryAssumption DEF RowType
  <2>3. /\ [row[d] EXCEPT !.active = FALSE] \in RowType
        /\ [row[d] EXCEPT !.active = FALSE].config = row[d].config
        /\ [row[d] EXCEPT !.active = FALSE].node = row[d].node
        /\ [row[d] EXCEPT !.active = FALSE].addr = row[d].addr
    BY <2>1 DEF RowType
  <2>. QED
    BY <2>1, <2>2, <2>3
<1>2. ASSUME Active(d)
      PROVE  [row[d] EXCEPT !.age = 0].active
  BY <1>2 DEF Active, Registered, TypeOK, RowType
<1>3. CASE ApplyRoster(j)
  <2>1. row'[d] = row[d] \/ (Active(d) /\ row'[d] = [row[d] EXCEPT !.age = 0])
    BY <1>3 DEF ApplyRoster
  <2>. QED
    BY <1>1, <1>2, <2>1, NoneAssumption DEF Active, Registered
<1>4. CASE RetireGone(j)
  <2>1. \/ row'[d] = row[d]
        \/ Active(d) /\ Retired(j, d) /\ row'[d] = [row[d] EXCEPT !.active = FALSE]
    BY <1>4 DEF RetireGone
  <2>2. job[j].pc = "retire"
    BY <1>4 DEF RetireGone
  <2>. QED
    BY <1>1, <1>4, <2>1, <2>2, NoneAssumption DEF Active, Registered
<1>. QED
  BY <1>3, <1>4

\* Rounds and time leave the configurations of the rows alone.
LEMMA RoundsReport ==
    ASSUME TypeOK, ReportInv, Reconcile \/ Tick
    PROVE  ReportInv' /\ ReportKept
<1>1. plan'.kinds = plan.kinds /\ config' = config
  BY KindsStay DEF Next, Reconcile, StartReconcile, RosterAnswers, RosterFails, ApplyRoster, RetireGone, Crash,
                   Tick, fleet
<1>2. \A d \in Domia : Registered(d)' = Registered(d)
                       /\ (Registered(d) => row'[d].config = row[d].config)
  <2>1. ASSUME NEW j \in Job, ApplyRoster(j) \/ RetireGone(j)
        PROVE  \A d \in Domia : Registered(d)' = Registered(d)
                                /\ (Registered(d) => row'[d].config = row[d].config)
    BY <2>1, RoundRows
  <2>2. CASE Tick
    <3>1. ASSUME NEW d \in Domia, Registered(d)
          PROVE  /\ [row[d] EXCEPT !.age = Older(row[d].age, Threshold)] \in RowType
                 /\ [row[d] EXCEPT !.age = Older(row[d].age, Threshold)].config = row[d].config
      <4>1. row[d] \in RowType
        BY <3>1 DEF TypeOK, Registered
      <4>2. Older(row[d].age, Threshold) \in 0 .. Threshold
        BY <4>1, RegistryAssumption DEF Older, RowType
      <4>. QED
        BY <4>1, <4>2 DEF RowType
    <3>. QED
      BY <2>2, <3>1, NoneAssumption DEF Tick, Registered
  <2>. QED
    BY <2>1, <2>2 DEF Reconcile, StartReconcile, RosterAnswers, RosterFails, Crash, Registered
<1>3. \A d \in Domia : (beat'[d] # None => beat[d] # None)
                       /\ (beat'[d] # None => beat'[d].config = beat[d].config)
  <2>1. CASE Tick
    BY <2>1, RegistryAssumption DEF Tick, TypeOK, Heartbeat
  <2>. QED
    BY <2>1 DEF Reconcile, StartReconcile, RosterAnswers, RosterFails, ApplyRoster, RetireGone, Crash, network
<1>4. adder'.pc = adder.pc /\ adder'.read = adder.read
  BY DEF Reconcile, StartReconcile, RosterAnswers, RosterFails, ApplyRoster, RetireGone, Crash, Tick,
         TypeOK, AdderType
<1>5. \A d \in Domia : /\ config[d] \in Nat
                       /\ Registered(d) => row[d].config \in Nat
  BY RegistryAssumption DEF TypeOK, Registered, RowType, Revision
<1>. QED
  BY <1>1, <1>2, <1>3, <1>4, <1>5 DEF ReportInv, AddedOrConfigured, ReportsInOrder, ReportKept

\* A node is added by its address only while configurations stay as they are.
LEMMA AddReports ==
    ASSUME TypeOK, ReportInv, AddNode
    PROVE  ReportInv' /\ ReportKept
<1>1. plan'.kinds = plan.kinds /\ config' = config /\ beat' = beat
  BY KindsStay DEF Next, AddNode, ProbeNode, ReadRegistry, ReadConfig, ReadConfigFails, CommitNode,
                   AbandonNode, fleet, network
<1>2. "add" \in plan.kinds /\ "configure" \notin plan.kinds
  <2>1. "add" \in plan.kinds
    BY DEF AddNode, ProbeNode, Change, ReadRegistry, ReadConfig, ReadConfigFails, CommitNode,
           AbandonNode, ReportInv, AddedOrConfigured
  <2>. QED
    BY <2>1 DEF ReportInv, AddedOrConfigured
<1>3. \A d \in Domia : /\ config[d] = 1 /\ adder.read[d] <= 1 /\ adder.read[d] \in Nat
                       /\ beat[d] # None => beat[d].config = 1
                       /\ Registered(d) => row[d].config \in Nat /\ row[d].config <= 1
  BY <1>2, RegistryAssumption
  DEF ReportInv, AddedOrConfigured, ReportsInOrder, TypeOK, AdderType, Revision, Registered, RowType
<1>4. \A d \in Domia : adder'.read[d] <= 1
  <2>1. \A d \in Domia : NoAdder.read[d] = 0
    BY DEF NoAdder
  <2>2. ASSUME NEW a \in Address, ProbeNode(a)
        PROVE  adder'.read = NoAdder.read
    BY <2>2 DEF ProbeNode, NoAdder
  <2>3. ASSUME NEW d \in Domia, ReadConfig(d) \/ ReadConfigFails(d)
        PROVE  \A e \in Domia : adder'.read[e] \in {adder.read[e], config[e]}
    <3>1. adder'.read \in {adder.read, [adder.read EXCEPT ![d] = config[d]]}
      BY <2>3 DEF ReadConfig, ReadConfigFails, TypeOK, AdderType
    <3>2. adder.read \in [Domia -> Revision]
      BY DEF TypeOK, AdderType
    <3>. QED
      BY <3>1, <3>2
  <2>4. CASE ReadRegistry
    BY <1>3, <2>4 DEF ReadRegistry, TypeOK, AdderType
  <2>. QED
    BY <1>3, <2>1, <2>2, <2>3, <2>4 DEF AddNode, CommitNode, AbandonNode
<1>5. AddedOrConfigured'
  BY <1>1, <1>2, <1>3, <1>4 DEF AddedOrConfigured
<1>6. \A d \in Domia : /\ Registered(d)' => row'[d].config <= 1
                       /\ Registered(d) => row[d].config <= row'[d].config
  <2>1. CASE CommitNode
    <3>. SUFFICES ASSUME NEW d \in Domia
                  PROVE  /\ Registered(d)' => row'[d].config <= 1
                         /\ Registered(d) => row[d].config <= row'[d].config
      OBVIOUS
    <3>1. CASE d \in adder.hosted
      <4>1. row'[d].config = IF adder.read[d] # 0 THEN adder.read[d]
                             ELSE IF Registered(d) THEN row[d].config ELSE 0
        BY <2>1, <3>1 DEF CommitNode, Added
      <4>. QED
        BY <1>3, <4>1
    <3>2. CASE d \notin adder.hosted
      <4>1. row'[d] = row[d] \/ (Registered(d) /\ row'[d].config = row[d].config)
        BY <2>1, <3>2 DEF CommitNode, TypeOK, Registered, RowType
      <4>. QED
        BY <1>3, <4>1 DEF Registered
    <3>. QED
      BY <3>1, <3>2
  <2>2. CASE row' = row
    BY <1>3, <2>2 DEF Registered
  <2>. QED
    BY <2>1, <2>2 DEF AddNode, ProbeNode, ReadRegistry, ReadConfig, ReadConfigFails, AbandonNode
<1>7. ReportsInOrder' /\ ReportKept
  BY <1>1, <1>3, <1>6 DEF ReportsInOrder, ReportKept
<1>. QED
  BY <1>5, <1>7 DEF ReportInv

\* The configuration the Console holds of a Domia is the last it reported, when
\* no node is added by its address while configurations change.  (The run
\* registry_report shows that it is not when one is.)
THEOREM ReportsAreKept ==
    ASSUME \A p \in Plans : ~({"add", "configure"} \subseteq p.kinds)
    PROVE  Spec => LastReportKept
<1>1. Init => ReportInv
  BY RegistryAssumption
  DEF Init, NoAdder, ReportInv, AddedOrConfigured, ReportsInOrder, Registered
<1>2. ASSUME TypeOK, ReportInv, Next
      PROVE  ReportInv' /\ ReportKept
  BY <1>2, FleetReports, MessagesReport, RoundsReport, AddReports DEF Next
<1>3. TypeOK /\ ReportInv /\ UNCHANGED vars => ReportInv'
  BY DEF vars, fleet, network, ReportInv, AddedOrConfigured, ReportsInOrder, Registered
<1>4. TypeOK /\ ReportInv /\ [Next]_vars => ReportInv' /\ [ReportKept]_vars
  BY <1>2, <1>3
<1>. QED
  BY <1>1, <1>4, RegistryTypeCorrect, PTL DEF Spec, LastReportKept, ReportKept

-----------------------------------------------------------------------------
\* The scenarios in which the nodes keep their addresses, and no node is added by
\* its address while Domias move.
FixedFleet ==
    /\ "readdress" \notin plan.kinds
    /\ ~({"move", "add"} \subseteq plan.kinds)
    /\ "add" \notin plan.kinds => adder.pc = "idle"
    /\ \A m, n \in Node : addr[m] = addr[n] => m = n

\* A row, a heartbeat or a group that says n, or n's address for it, and where
\* n answers.
OfNode(n, id, at) == id \in {n, addr[n]} /\ at = addr[n]

\* The same, when they may leave it out.
MayBeOf(n, id, at) == id \in {n, addr[n], None} /\ at \in {addr[n], None}

RowsAreOfNodes ==
    \A d \in Domia :
        /\ Registered(d) => \E n \in Node :
              MayBeOf(n, row[d].node, row[d].addr) /\ ("move" \notin plan.kinds => home[d] = n)
        /\ beat[d] # None => \E n \in Node :
              MayBeOf(n, beat[d].node, beat[d].addr) /\ ("move" \notin plan.kinds => home[d] = n)

GroupsAreOfNodes ==
    \A j \in Job :
        /\ \A g \in job[j].groups : \E n \in Node : OfNode(n, g.node, g.addr)
        /\ job[j].pc # "idle" => \E n \in Node : OfNode(n, job[j].group.node, job[j].group.addr)

\* A Domia of the node that its roster does not list has come since it answered;
\* nobody is retired by an empty roster.
AnswersAreRecent ==
    \A j \in Job :
        /\ job[j].pc \in {"apply", "retire"} /\ job[j].live # {} =>
              \A d \in Domia \ job[j].live : home[d] = job[j].group.node => tenure[d] <= job[j].age
        /\ job[j].pc = "retire" => job[j].live # {}

\* What is to be added is the node that answered, and nothing of it is stale.
AdderIsOfNode ==
    adder.pc # "idle" => \E n \in Node :
        /\ adder.addr = addr[n] /\ adder.hosted = Roster(n)
        /\ adder.pc = "config" => adder.node \in {n, addr[n]} /\ adder.stale = {}

SettledInv ==
    FixedFleet /\ RowsAreOfNodes /\ GroupsAreOfNodes /\ AnswersAreRecent /\ AdderIsOfNode

\* SettledIsKept, of one step.
SettledKept ==
    \A d \in Domia :
        Active(d) /\ ~Active(d)' /\ d \notin Dormant /\ home[d] = row[d].node
        => tenure[d] <= Patience

\* In these scenarios addresses never change, and homes only when Domias move.
LEMMA FleetIsFixed ==
    ASSUME TypeOK, FixedFleet, Next
    PROVE  /\ addr' = addr /\ plan'.kinds = plan.kinds
           /\ "move" \notin plan.kinds => home' = home
           /\ adder' # adder => "add" \in plan.kinds \/ adder.pc # "idle"
           /\ FixedFleet'
<1>1. plan'.kinds = plan.kinds
  BY KindsStay
<1>2. CASE Fleet
  <2>1. addr' = addr
    <3>1. ASSUME NEW n \in Node, StartNode(n)
          PROVE  addr' = addr
      BY <3>1 DEF StartNode, FixedFleet, TypeOK
    <3>2. ASSUME NEW n \in Node, NEW a \in Address, Readdress(n, a)
          PROVE  FALSE
      BY <3>2 DEF Readdress, Change, FixedFleet
    <3>. QED
      BY <1>2, <3>1, <3>2 DEF Fleet, Settle, Remove, Configure, StopNode, Meet
  <2>2. "move" \notin plan.kinds => home' = home
    BY <1>2 DEF Fleet, Settle, Remove, Configure, StopNode, StartNode, Readdress, Meet, Change
  <2>3. adder' = adder
    BY <1>2 DEF Fleet, Settle, Remove, Configure, StopNode, StartNode, Readdress, Meet
  <2>. QED
    BY <1>1, <2>1, <2>2, <2>3 DEF FixedFleet
<1>3. CASE Messages
  BY <1>1, <1>3 DEF Messages, Publish, LoseHeartbeat, UpsertHeartbeat, LoseMarker, MarkNodeOffline,
                    fleet, FixedFleet
<1>4. CASE Reconcile
  BY <1>1, <1>4 DEF Reconcile, StartReconcile, RosterAnswers, RosterFails, ApplyRoster, RetireGone, Crash,
                    fleet, FixedFleet
<1>5. CASE AddNode
  <2>1. home' = home /\ addr' = addr
    BY <1>5 DEF AddNode, ProbeNode, ReadRegistry, ReadConfig, ReadConfigFails, CommitNode,
                AbandonNode, fleet
  <2>2. "add" \in plan.kinds
    BY <1>5 DEF AddNode, ProbeNode, Change, ReadRegistry, ReadConfig, ReadConfigFails, CommitNode,
                AbandonNode, FixedFleet
  <2>. QED
    BY <1>1, <2>1, <2>2 DEF FixedFleet
<1>6. CASE Tick
  BY <1>1, <1>6 DEF Tick, fleet, FixedFleet, TypeOK, AdderType
<1>. QED
  BY <1>2, <1>3, <1>4, <1>5, <1>6 DEF Next

\* Rows and heartbeats that keep their node and address, or go, stay of a node.
LEMMA RowFrame ==
    ASSUME RowsAreOfNodes, addr' = addr, plan'.kinds = plan.kinds,
           "move" \notin plan.kinds => home' = home,
           \A d \in Domia : /\ Registered(d)' => /\ Registered(d) /\ row'[d].node = row[d].node
                                                 /\ row'[d].addr = row[d].addr
                            /\ beat'[d] # None => /\ beat[d] # None
                                                  /\ beat'[d].node = beat[d].node
                                                  /\ beat'[d].addr = beat[d].addr
    PROVE  RowsAreOfNodes'
BY DEF RowsAreOfNodes, MayBeOf

\* The fleet moves a Domia at a moment of its own, and touches no row.
LEMMA FleetSettles ==
    ASSUME TypeOK, SettledInv, Fleet
    PROVE  SettledInv' /\ SettledKept
<1>0. FixedFleet /\ RowsAreOfNodes /\ GroupsAreOfNodes /\ AnswersAreRecent /\ AdderIsOfNode
  BY DEF SettledInv
<1>1. /\ addr' = addr /\ plan'.kinds = plan.kinds /\ FixedFleet'
      /\ "move" \notin plan.kinds => home' = home
  BY <1>0, FleetIsFixed DEF Next
<1>2. row' = row /\ beat' = beat /\ job' = job /\ adder' = adder
  BY DEF Fleet, Settle, Remove, Configure, StopNode, StartNode, Readdress, Meet, network
<1>3. \A d \in Domia : (home'[d] = home[d] /\ tenure'[d] = tenure[d]) \/ tenure'[d] = 0
  BY DEF Fleet, Settle, Remove, Configure, StopNode, StartNode, Readdress, Meet, history, TypeOK
<1>4. RowsAreOfNodes' /\ GroupsAreOfNodes'
  BY <1>0, <1>1, <1>2, RowFrame DEF GroupsAreOfNodes, OfNode, Registered
<1>5. AnswersAreRecent'
  <2>1. \A j \in Job : job[j].age \in Nat
    BY RegistryAssumption DEF TypeOK, JobType
  <2>. QED
    BY <1>0, <1>2, <1>3, <2>1 DEF AnswersAreRecent
<1>6. AdderIsOfNode'
  BY <1>0, <1>1, <1>2 DEF AdderIsOfNode, FixedFleet, Roster
<1>7. SettledKept
  BY <1>2 DEF SettledKept, Active, Registered
<1>. QED
  BY <1>1, <1>4, <1>5, <1>6, <1>7 DEF SettledInv

\* A heartbeat says which node it is of, and retires nobody that is active there.
LEMMA MessagesSettle ==
    ASSUME TypeOK, SettledInv, Messages
    PROVE  SettledInv' /\ SettledKept
<1>0. FixedFleet /\ RowsAreOfNodes /\ GroupsAreOfNodes /\ AnswersAreRecent /\ AdderIsOfNode
  BY DEF SettledInv
<1>1. plan'.kinds = plan.kinds /\ FixedFleet'
  BY <1>0, FleetIsFixed DEF Next
<1>2. home' = home /\ addr' = addr /\ tenure' = tenure /\ job' = job /\ adder' = adder
  BY DEF Messages, Publish, LoseHeartbeat, UpsertHeartbeat, LoseMarker, MarkNodeOffline,
         fleet, history
<1>3. GroupsAreOfNodes' /\ AnswersAreRecent' /\ AdderIsOfNode'
  BY <1>0, <1>2 DEF GroupsAreOfNodes, OfNode, AnswersAreRecent, AdderIsOfNode, Roster
<1>4. ASSUME NEW d \in Domia, Publish(d)
      PROVE  RowsAreOfNodes' /\ SettledKept
  <2>1. home[d] \in Node
    BY <1>4 DEF Publish, Alive, TypeOK
  <2>2. /\ row' = row
        /\ beat'[d].node \in {home[d], None} /\ beat'[d].addr \in {addr[home[d]], None}
        /\ \A e \in Domia \ {d} : beat'[e] = beat[e]
    BY <1>4, <2>1 DEF Publish, TypeOK, Said
  <2>. QED
    BY <1>0, <1>1, <1>2, <2>1, <2>2
    DEF RowsAreOfNodes, MayBeOf, SettledKept, Active, Registered
<1>5. ASSUME NEW d \in Domia, LoseHeartbeat(d)
      PROVE  RowsAreOfNodes' /\ SettledKept
  <2>1. row' = row /\ beat'[d] = None /\ \A e \in Domia \ {d} : beat'[e] = beat[e]
    BY <1>5 DEF LoseHeartbeat, TypeOK
  <2>. QED
    BY <1>0, <1>1, <1>2, <2>1 DEF RowsAreOfNodes, MayBeOf, SettledKept, Active, Registered
<1>6. ASSUME NEW d \in Domia, UpsertHeartbeat(d)
      PROVE  RowsAreOfNodes' /\ SettledKept
  <2>1. /\ beat[d] # None /\ beat'[d] = None
        /\ row'[d].node = beat[d].node /\ row'[d].addr = beat[d].addr
        /\ row'[d] # None /\ row'[d].active = (d \notin Dormant)
        /\ \A e \in Domia \ {d} : beat'[e] = beat[e] /\ row'[e] = row[e]
    <3>1. beat[d] \in Heartbeat
      BY <1>6 DEF UpsertHeartbeat, TypeOK
    <3>2. Upserted(d) \in RowType
      BY <3>1, RegistryAssumption DEF Upserted, RowType, Heartbeat, NodeId
    <3>. QED
      BY <1>6, <3>2, NoneAssumption DEF UpsertHeartbeat, Upserted, TypeOK
  <2>2. RowsAreOfNodes'
    BY <1>0, <1>1, <1>2, <2>1 DEF RowsAreOfNodes, MayBeOf, Registered
  <2>3. SettledKept
    BY <2>1 DEF SettledKept, Active, Registered
  <2>. QED
    BY <2>2, <2>3
<1>7. ASSUME NEW n \in Node, LoseMarker(n)
      PROVE  RowsAreOfNodes' /\ SettledKept
  <2>1. row' = row /\ beat' = beat
    BY <1>7 DEF LoseMarker
  <2>. QED
    BY <1>0, <1>1, <1>2, <2>1 DEF RowsAreOfNodes, MayBeOf, SettledKept, Active, Registered
<1>8. ASSUME NEW n \in Node, MarkNodeOffline(n)
      PROVE  RowsAreOfNodes' /\ SettledKept
  <2>1. \A e \in Domia :
           /\ Registered(e)' = Registered(e)
           /\ Registered(e) => /\ row'[e].node = row[e].node /\ row'[e].addr = row[e].addr
                               /\ row'[e].active = row[e].active
    <3>1. ASSUME NEW e \in Domia, Registered(e)
          PROVE  /\ [row[e] EXCEPT !.age = Threshold] \in RowType
                 /\ [row[e] EXCEPT !.age = Threshold].node = row[e].node
                 /\ [row[e] EXCEPT !.age = Threshold].addr = row[e].addr
                 /\ [row[e] EXCEPT !.age = Threshold].active = row[e].active
      <4>1. row[e] \in RowType
        BY <3>1 DEF TypeOK, Registered
      <4>. QED
        BY <4>1, RegistryAssumption DEF RowType
    <3>. QED
      BY <1>8, <3>1, NoneAssumption DEF MarkNodeOffline, Registered
  <2>2. beat' = beat
    BY <1>8 DEF MarkNodeOffline
  <2>3. RowsAreOfNodes'
    BY <1>0, <1>1, <1>2, <2>1, <2>2, RowFrame
  <2>4. SettledKept
    BY <2>1 DEF SettledKept, Active
  <2>. QED
    BY <2>3, <2>4
<1>. QED
  BY <1>1, <1>3, <1>4, <1>5, <1>6, <1>7, <1>8 DEF Messages, SettledInv

\* A round that goes on takes one of its groups, and holds no answer.
LEMMA ContinueGroups ==
    ASSUME TypeOK, GroupsAreOfNodes, AnswersAreRecent, NEW j \in Job, NEW groups,
           Continue(j, groups), UNCHANGED <<home, addr, tenure>>,
           \A g \in groups : \E n \in Node : OfNode(n, g.node, g.addr)
    PROVE  GroupsAreOfNodes' /\ AnswersAreRecent'
<1>1. \A i \in Job \ {j} : job'[i] = job[i]
  BY DEF Continue, TypeOK
<1>2. /\ job'[j].pc \notin {"apply", "retire"}
      /\ \A g \in job'[j].groups : \E n \in Node : OfNode(n, g.node, g.addr)
      /\ job'[j].pc # "idle" =>
            \E n \in Node : OfNode(n, job'[j].group.node, job'[j].group.addr)
  <2>1. CASE job' = [job EXCEPT ![j] = NoJob]
    BY <2>1 DEF NoJob, TypeOK
  <2>2. ASSUME NEW g \in groups,
               job' = [job EXCEPT ![j] = [pc |-> "fetch", groups |-> groups \ {g},
                                          group |-> g, live |-> {}, age |-> 0]]
        PROVE  <1>2!1
    BY <2>2 DEF TypeOK
  <2>. QED
    BY <2>1, <2>2 DEF Continue
<1>3. GroupsAreOfNodes'
  BY <1>1, <1>2 DEF GroupsAreOfNodes, OfNode
<1>4. AnswersAreRecent'
  BY <1>1, <1>2 DEF AnswersAreRecent
<1>. QED
  BY <1>3, <1>4

\* A round retires who is registered on the node that answered and was not there
\* when it did.
LEMMA RoundsSettle ==
    ASSUME Node \cap Address = {}, TypeOK, SettledInv, Reconcile
    PROVE  SettledInv' /\ SettledKept
<1>0. FixedFleet /\ RowsAreOfNodes /\ GroupsAreOfNodes /\ AnswersAreRecent /\ AdderIsOfNode
  BY DEF SettledInv
<1>1. plan'.kinds = plan.kinds /\ FixedFleet'
  BY <1>0, FleetIsFixed DEF Next
<1>2. UNCHANGED <<home, up, addr, tenure, beat, adder>>
  BY DEF Reconcile, StartReconcile, RosterAnswers, RosterFails, ApplyRoster, RetireGone, Crash,
         fleet, history, network
<1>3. AdderIsOfNode'
  BY <1>0, <1>2 DEF AdderIsOfNode, Roster
<1>4. ASSUME row' = row
      PROVE  RowsAreOfNodes' /\ SettledKept
  BY <1>0, <1>1, <1>2, <1>4 DEF RowsAreOfNodes, MayBeOf, SettledKept, Active, Registered
<1>5. ASSUME NEW j \in Job, StartReconcile(j)
      PROVE  SettledInv' /\ SettledKept
  <2>. DEFINE nodes == {n \in NodeId : ActiveOn(n) # {}}
  <2>1. PICK first \in [nodes -> Domia] :
              /\ \A n \in nodes : first[n] \in ActiveOn(n)
              /\ Continue(j, {[node |-> n, addr |-> row[first[n]].addr,
                               keys |-> ActiveOn(n)] : n \in nodes})
    BY <1>5 DEF StartReconcile
  <2>2. ASSUME NEW n \in nodes
        PROVE  \E m \in Node : OfNode(m, n, row[first[n]].addr)
    <3>1. /\ first[n] \in Domia /\ Registered(first[n]) /\ row[first[n]].node = n
          /\ row[first[n]].addr # None /\ n # None
      BY <2>1, <2>2, RegistryAssumption DEF ActiveOn, Active, NodeId
    <3>. QED
      BY <1>0, <3>1 DEF RowsAreOfNodes, MayBeOf, OfNode
  <2>. DEFINE groups == {[node |-> n, addr |-> row[first[n]].addr, keys |-> ActiveOn(n)] : n \in nodes}
  <2>3. \A g \in groups : \E n \in Node : OfNode(n, g.node, g.addr)
    BY <2>2
  <2>4. Continue(j, groups)
    BY <2>1
  <2>. HIDE DEF groups
  <2>5. GroupsAreOfNodes' /\ AnswersAreRecent'
    BY <1>0, <1>2, <2>3, <2>4, ContinueGroups
  <2>6. row' = row
    BY <1>5 DEF StartReconcile
  <2>. QED
    BY <1>1, <1>3, <1>4, <2>5, <2>6 DEF SettledInv
<1>6. ASSUME NEW j \in Job, RosterAnswers(j)
      PROVE  SettledInv' /\ SettledKept
  <2>1. PICK n \in Answering(job[j].group.addr), ok \in BOOLEAN :
              job' = [job EXCEPT ![j].pc = "apply",
                                 ![j].live = IF ok THEN Named(n) ELSE {}]
    BY <1>6 DEF RosterAnswers
  <2>2. row' = row /\ job[j].pc = "fetch" /\ n \in Node /\ addr[n] = job[j].group.addr
    BY <1>6, <2>1 DEF RosterAnswers, Answering
  <2>3. /\ job'[j].groups = job[j].groups /\ job'[j].group = job[j].group
        /\ job'[j].pc = "apply" /\ job'[j].live \in {Named(n), {}}
        /\ \A i \in Job \ {j} : job'[i] = job[i]
    <3>1. job[j] \in JobType
      BY DEF TypeOK
    <3>. DEFINE live == IF ok THEN Named(n) ELSE {}
    <3>2. job'[j] = [job[j] EXCEPT !.pc = "apply", !.live = live]
          /\ \A i \in Job \ {j} : job'[i] = job[i]
      BY <2>1 DEF TypeOK
    <3>3. live \in {Named(n), {}}
      OBVIOUS
    <3>. HIDE DEF live
    <3>. QED
      BY <3>1, <3>2, <3>3 DEF JobType
  <2>4. GroupsAreOfNodes'
    BY <1>0, <1>2, <2>2, <2>3 DEF GroupsAreOfNodes, OfNode
  <2>5. job[j].group.node \in {n, addr[n]} /\ addr[n] \in Address
    <3>1. PICK m \in Node : OfNode(m, job[j].group.node, job[j].group.addr)
      BY <1>0, <2>2 DEF GroupsAreOfNodes
    <3>2. m = n
      BY <1>0, <2>2, <3>1 DEF OfNode, FixedFleet
    <3>. QED
      BY <3>1, <3>2 DEF OfNode, TypeOK
  <2>6. \A d \in Domia : home[d] = job[j].group.node => d \in Named(n)
    BY <2>2, <2>5, RegistryAssumption DEF TypeOK, Named, Roster
  <2>7. AnswersAreRecent'
    BY <1>0, <1>2, <2>3, <2>6 DEF AnswersAreRecent
  <2>. QED
    BY <1>1, <1>3, <1>4, <2>2, <2>4, <2>7 DEF SettledInv
<1>7. ASSUME NEW j \in Job, RosterFails(j)
      PROVE  SettledInv' /\ SettledKept
  <2>1. row' = row /\ Continue(j, job[j].groups)
    BY <1>7 DEF RosterFails
  <2>2. \A g \in job[j].groups : \E n \in Node : OfNode(n, g.node, g.addr)
    BY <1>0 DEF GroupsAreOfNodes
  <2>3. GroupsAreOfNodes' /\ AnswersAreRecent'
    BY <1>0, <1>2, <2>1, <2>2, ContinueGroups
  <2>. QED
    BY <1>1, <1>3, <1>4, <2>1, <2>3 DEF SettledInv
<1>8. ASSUME NEW j \in Job, ApplyRoster(j) \/ RetireGone(j)
      PROVE  SettledInv' /\ SettledKept
  <2>1. \A g \in job[j].groups : \E n \in Node : OfNode(n, g.node, g.addr)
    BY <1>0 DEF GroupsAreOfNodes
  <2>2. GroupsAreOfNodes' /\ AnswersAreRecent'
    <3>1. CASE Continue(j, job[j].groups)
      BY <1>0, <1>2, <2>1, <3>1, ContinueGroups
    <3>2. CASE /\ job[j].pc = "apply" /\ job[j].live # {}
               /\ job' = [job EXCEPT ![j].pc = "retire"]
      <4>1. \A i \in Job : /\ job'[i].groups = job[i].groups /\ job'[i].group = job[i].group
                           /\ job'[i].live = job[i].live /\ job'[i].age = job[i].age
                           /\ \/ job'[i].pc = job[i].pc
                              \/ job[i].pc = "apply" /\ job'[i].pc = "retire" /\ job[i].live # {}
        BY <3>2 DEF TypeOK, JobType
      <4>2. GroupsAreOfNodes'
        BY <1>0, <1>2, <4>1 DEF GroupsAreOfNodes, OfNode
      <4>3. AnswersAreRecent'
        BY <1>0, <1>2, <4>1 DEF AnswersAreRecent
      <4>. QED
        BY <4>2, <4>3
    <3>. QED
      BY <1>8, <3>1, <3>2 DEF ApplyRoster, RetireGone, Gone
  <2>3. \A d \in Domia : /\ Registered(d)' = Registered(d)
                         /\ Registered(d) => row'[d].node = row[d].node /\ row'[d].addr = row[d].addr
    BY <1>8, RoundRows
  <2>4. RowsAreOfNodes'
    BY <1>0, <1>1, <1>2, <2>3, RowFrame
  <2>5. ASSUME NEW d \in Domia, Active(d), ~Active(d)', home[d] = row[d].node
        PROVE  tenure[d] <= Patience
    <3>1. job[j].pc = "retire" /\ Retired(j, d)
      BY <1>8, <2>5, RoundRows
    <3>2. job[j].live # {}
      BY <1>0, <3>1 DEF AnswersAreRecent
    <3>3. tenure[d] <= job[j].age
      BY <1>0, <2>5, <3>1, <3>2 DEF AnswersAreRecent, Retired
    <3>4. job[j].age \in 0 .. Patience /\ tenure[d] \in 0 .. Patience + 1 /\ Patience \in Nat
      BY RegistryAssumption DEF TypeOK, JobType
    <3>. QED
      BY <3>3, <3>4
  <2>. QED
    BY <1>1, <1>3, <2>2, <2>4, <2>5 DEF SettledInv, SettledKept
<1>9. ASSUME Crash
      PROVE  SettledInv' /\ SettledKept
  <2>1. row' = row /\ job' = [i \in Job |-> NoJob]
    BY <1>9 DEF Crash
  <2>2. GroupsAreOfNodes' /\ AnswersAreRecent'
    BY <2>1 DEF GroupsAreOfNodes, AnswersAreRecent, NoJob
  <2>. QED
    BY <1>1, <1>3, <1>4, <2>1, <2>2 DEF SettledInv
<1>. QED
  BY <1>5, <1>6, <1>7, <1>8, <1>9 DEF Reconcile

\* A node is added as it answered; who is registered on it is hosted there.
LEMMA AddSettles ==
    ASSUME Node \cap Address = {}, TypeOK, SettledInv, AddNode
    PROVE  SettledInv' /\ SettledKept
<1>0. FixedFleet /\ RowsAreOfNodes /\ GroupsAreOfNodes /\ AnswersAreRecent /\ AdderIsOfNode
  BY DEF SettledInv
<1>1. plan'.kinds = plan.kinds /\ FixedFleet'
  BY <1>0, FleetIsFixed DEF Next
<1>2. UNCHANGED <<home, up, addr, tenure, beat, job>>
  BY DEF AddNode, ProbeNode, ReadRegistry, ReadConfig, ReadConfigFails, CommitNode, AbandonNode,
         fleet, history, network
<1>3. GroupsAreOfNodes' /\ AnswersAreRecent'
  BY <1>0, <1>2 DEF GroupsAreOfNodes, OfNode, AnswersAreRecent
<1>4. "move" \notin plan.kinds
  BY <1>0 DEF AddNode, ProbeNode, Change, ReadRegistry, ReadConfig, ReadConfigFails, CommitNode,
              AbandonNode, FixedFleet
<1>5. ASSUME row' = row
      PROVE  RowsAreOfNodes' /\ SettledKept
  BY <1>0, <1>1, <1>2, <1>5 DEF RowsAreOfNodes, MayBeOf, SettledKept, Active, Registered
<1>6. ASSUME NEW a \in Address, ProbeNode(a)
      PROVE  AdderIsOfNode' /\ row' = row
  <2>1. PICK n \in Answering(a) :
          adder' = [NoAdder EXCEPT !.pc = "probed", !.addr = a, !.hosted = Roster(n)]
    BY <1>6 DEF ProbeNode
  <2>2. adder'.pc = "probed" /\ adder'.addr = a /\ adder'.hosted = Roster(n)
    BY <2>1 DEF NoAdder
  <2>3. n \in Node /\ addr[n] = a
    BY DEF Answering
  <2>4. row' = row
    BY <1>6 DEF ProbeNode
  <2>. QED
    BY <1>2, <2>2, <2>3, <2>4 DEF AdderIsOfNode, Roster
<1>7. ASSUME ReadRegistry
      PROVE  AdderIsOfNode' /\ row' = row
  <2>. DEFINE known == {row[d].node : d \in {e \in adder.hosted : Registered(e)}}
                       \ {adder.addr, None}
  <2>1. PICK m \in IF known = {} THEN {adder.addr} ELSE known :
          adder' = [adder EXCEPT !.pc = "config", !.node = m, !.age = 0, !.left = adder.hosted,
                      !.stale = {d \in Domia \ adder.hosted : Registered(d) /\ row[d].node = m}]
    BY <1>7 DEF ReadRegistry
  <2>2. /\ adder'.pc = "config" /\ adder'.node = m /\ adder'.addr = adder.addr
        /\ adder'.hosted = adder.hosted
        /\ adder'.stale = {d \in Domia \ adder.hosted : Registered(d) /\ row[d].node = m}
    BY <2>1 DEF TypeOK, AdderType
  <2>3. row' = row /\ adder.pc = "probed"
    BY <1>7 DEF ReadRegistry
  <2>4. PICK n \in Node : adder.addr = addr[n] /\ adder.hosted = Roster(n)
    BY <1>0, <2>3 DEF AdderIsOfNode
  <2>5. \A d \in Domia : Registered(d) =>
           row[d].node \in {home[d], addr[home[d]], None} /\ home[d] \in Node
    BY <1>0, <1>4 DEF RowsAreOfNodes, MayBeOf
  <2>6. m \in {n, addr[n]}
    <3>1. CASE known = {}
      BY <2>4, <3>1
    <3>2. CASE known # {}
      <4>1. PICK d \in adder.hosted : Registered(d) /\ m = row[d].node /\ m # None
        BY <2>1, <3>2
      <4>2. d \in Domia /\ home[d] = n
        BY <2>4 DEF Roster
      <4>. QED
        BY <2>5, <4>1, <4>2
    <3>. QED
      BY <3>1, <3>2
  <2>7. ASSUME NEW d \in Domia, d \notin adder.hosted, Registered(d), row[d].node = m
        PROVE  FALSE
    <3>1. home[d] # n
      BY <2>4, <2>7 DEF Roster
    <3>2. row[d].node \in {home[d], addr[home[d]], None} /\ home[d] \in Node
      BY <2>5, <2>7
    <3>3. addr[n] \in Address /\ addr[home[d]] \in Address /\ addr[n] # addr[home[d]]
      BY <1>0, <3>1, <3>2 DEF FixedFleet, TypeOK
    <3>. QED
      BY <2>6, <2>7, <3>1, <3>2, <3>3, RegistryAssumption
  <2>8. adder'.stale = {}
    BY <2>2, <2>7
  <2>. QED
    BY <1>2, <2>2, <2>3, <2>4, <2>6, <2>8 DEF AdderIsOfNode, Roster
<1>8. ASSUME NEW d \in Domia, ReadConfig(d) \/ ReadConfigFails(d)
      PROVE  AdderIsOfNode' /\ row' = row
  <2>1. /\ adder'.pc = adder.pc /\ adder'.addr = adder.addr /\ adder'.hosted = adder.hosted
        /\ adder'.node = adder.node /\ adder'.stale = adder.stale
    BY <1>8 DEF ReadConfig, ReadConfigFails, TypeOK, AdderType
  <2>2. row' = row
    BY <1>8 DEF ReadConfig, ReadConfigFails
  <2>. QED
    BY <1>0, <1>2, <2>1, <2>2 DEF AdderIsOfNode, Roster
<1>9. ASSUME CommitNode
      PROVE  AdderIsOfNode' /\ RowsAreOfNodes' /\ SettledKept
  <2>1. AdderIsOfNode'
    BY <1>9 DEF CommitNode, AdderIsOfNode, NoAdder
  <2>2. PICK n \in Node : /\ adder.addr = addr[n] /\ adder.hosted = Roster(n)
                          /\ adder.node \in {n, addr[n]} /\ adder.stale = {}
    BY <1>0, <1>9 DEF CommitNode, AdderIsOfNode
  <2>3. \A d \in Domia : IF d \in adder.hosted THEN row'[d] = Added(d) ELSE row'[d] = row[d]
    BY <1>9, <2>2 DEF CommitNode
  <2>4. \A d \in Domia : /\ Added(d).node = adder.node /\ Added(d).addr = adder.addr
                         /\ Added(d).active
    BY DEF Added
  <2>5. ASSUME NEW d \in adder.hosted PROVE Added(d) # None
    <3>1. Added(d) \in RowType
      <4>1. AddedAge \in 0 .. Threshold
        BY RegistryAssumption DEF AddedAge, TypeOK, AdderType
      <4>2. adder.node \in NodeId /\ adder.addr \in Address
        BY <2>2 DEF NodeId, TypeOK
      <4>3. d \in Domia
        BY <2>2 DEF Roster
      <4>. DEFINE c == IF adder.read[d] # 0 THEN adder.read[d]
                       ELSE IF Registered(d) THEN row[d].config ELSE 0
      <4>4. c \in Revision
        BY <4>3, RegistryAssumption DEF TypeOK, AdderType, Registered, RowType, Revision
      <4>. HIDE DEF c
      <4>. QED
        BY <4>1, <4>2, <4>4 DEF Added, RowType, c
    <3>. QED
      BY <3>1, NoneAssumption
  <2>6. RowsAreOfNodes'
    <3>1. ASSUME NEW d \in Domia, Registered(d)'
          PROVE  \E m \in Node : MayBeOf(m, row'[d].node, row'[d].addr) /\ home[d] = m
      <4>1. CASE d \in adder.hosted
        BY <2>2, <2>3, <2>4, <4>1 DEF MayBeOf, Roster
      <4>2. CASE d \notin adder.hosted
        BY <1>0, <1>4, <2>3, <3>1, <4>2 DEF RowsAreOfNodes, Registered
      <4>. QED
        BY <4>1, <4>2
    <3>. QED
      BY <1>0, <1>1, <1>2, <3>1 DEF RowsAreOfNodes, MayBeOf
  <2>7. \A d \in Domia : Active(d) => Active(d)'
    BY <2>2, <2>3, <2>4, <2>5 DEF Active, Registered
  <2>. QED
    BY <2>1, <2>6, <2>7 DEF SettledKept
<1>10. ASSUME AbandonNode
       PROVE  AdderIsOfNode' /\ row' = row
  BY <1>10 DEF AbandonNode, AdderIsOfNode, NoAdder
<1>. QED
  BY <1>1, <1>3, <1>5, <1>6, <1>7, <1>8, <1>9, <1>10 DEF AddNode, SettledInv

\* An answer and the stay of a Domia get older together.
LEMMA TickSettles ==
    ASSUME TypeOK, SettledInv, Tick
    PROVE  SettledInv' /\ SettledKept
<1>0. FixedFleet /\ RowsAreOfNodes /\ GroupsAreOfNodes /\ AnswersAreRecent /\ AdderIsOfNode
  BY DEF SettledInv
<1>1. plan'.kinds = plan.kinds /\ FixedFleet' /\ UNCHANGED <<home, up, addr>>
  BY <1>0, FleetIsFixed DEF Next, Tick, fleet
<1>2. \A d \in Domia :
         /\ Registered(d)' = Registered(d)
         /\ Registered(d) => /\ row'[d].node = row[d].node /\ row'[d].addr = row[d].addr
                             /\ row'[d].active = row[d].active
  <2>1. ASSUME NEW d \in Domia, Registered(d)
        PROVE  /\ [row[d] EXCEPT !.age = Older(row[d].age, Threshold)] \in RowType
               /\ [row[d] EXCEPT !.age = Older(row[d].age, Threshold)].node = row[d].node
               /\ [row[d] EXCEPT !.age = Older(row[d].age, Threshold)].addr = row[d].addr
               /\ [row[d] EXCEPT !.age = Older(row[d].age, Threshold)].active = row[d].active
    <3>1. row[d] \in RowType
      BY <2>1 DEF TypeOK, Registered
    <3>2. Older(row[d].age, Threshold) \in 0 .. Threshold
      BY <3>1, RegistryAssumption DEF Older, RowType
    <3>. QED
      BY <3>1, <3>2 DEF RowType
  <2>. QED
    BY <2>1, NoneAssumption DEF Tick, Registered
<1>3. \A d \in Domia : beat'[d] # None =>
         beat[d] # None /\ beat'[d].node = beat[d].node /\ beat'[d].addr = beat[d].addr
  BY RegistryAssumption DEF Tick, TypeOK, Heartbeat
<1>4. RowsAreOfNodes'
  BY <1>0, <1>1, <1>2, <1>3, RowFrame
<1>5. SettledKept
  BY <1>2 DEF SettledKept, Active
<1>6. \A j \in Job :
         /\ job'[j].pc = job[j].pc /\ job'[j].group = job[j].group
         /\ job'[j].groups = job[j].groups /\ job'[j].live = job[j].live
         /\ job[j].pc = "apply" => job'[j].age = job[j].age + 1
  BY DEF Tick, TypeOK, JobType
<1>7. GroupsAreOfNodes'
  BY <1>0, <1>1, <1>6 DEF GroupsAreOfNodes, OfNode
<1>8. \A d \in Domia : tenure[d] \in Nat /\ tenure'[d] \in Nat /\ tenure'[d] <= tenure[d] + 1
  BY RegistryAssumption DEF Tick, TypeOK, Older
<1>9. \A j \in Job : job[j].age \in Nat
  BY RegistryAssumption DEF TypeOK, JobType
<1>10. AnswersAreRecent'
  <2>1. \A j \in Job : job[j].pc # "retire"
    BY DEF Tick, Undivided
  <2>. QED
    BY <1>0, <1>1, <1>6, <1>8, <1>9, <2>1 DEF AnswersAreRecent
<1>11. /\ adder'.pc = adder.pc /\ adder'.addr = adder.addr /\ adder'.hosted = adder.hosted
       /\ adder'.node = adder.node /\ adder'.stale = adder.stale
  BY DEF Tick, TypeOK, AdderType
<1>12. AdderIsOfNode'
  BY <1>0, <1>1, <1>11 DEF AdderIsOfNode, Roster
<1>. QED
  BY <1>1, <1>4, <1>5, <1>7, <1>10, <1>12 DEF SettledInv

\* A Domia that is settled on a node and registered there is not retired, when
\* the nodes keep their addresses and none is added by its address while Domias
\* move; an id that a node reports is not an address.
THEOREM SettledAreKept ==
    ASSUME Node \cap Address = {},
           \A p \in Plans : "readdress" \notin p.kinds /\ ~({"move", "add"} \subseteq p.kinds)
    PROVE  Spec => SettledIsKept
<1>1. Init => SettledInv
  BY RegistryAssumption
  DEF Init, NoAdder, NoJob, SettledInv, FixedFleet, RowsAreOfNodes, GroupsAreOfNodes,
      AnswersAreRecent, AdderIsOfNode, Registered
<1>2. ASSUME TypeOK, SettledInv, Next
      PROVE  SettledInv' /\ SettledKept
  BY <1>2, FleetSettles, MessagesSettle, RoundsSettle, AddSettles, TickSettles DEF Next
<1>3. TypeOK /\ SettledInv /\ UNCHANGED vars => SettledInv'
  BY DEF vars, fleet, network, history, SettledInv, FixedFleet, RowsAreOfNodes, MayBeOf,
         OfNode, GroupsAreOfNodes, AnswersAreRecent, AdderIsOfNode, Registered, Roster
<1>4. TypeOK /\ SettledInv /\ [Next]_vars => SettledInv' /\ [SettledKept]_vars
  BY <1>2, <1>3
<1>. QED
  BY <1>1, <1>4, RegistryTypeCorrect, PTL DEF Spec, SettledIsKept, SettledKept
=============================================================================
