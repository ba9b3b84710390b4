------------------------------ MODULE Registry ------------------------------
(***************************************************************************)
(* The registry of the fleet, domia_registry: which Domias the Console     *)
(* knows, on which node, at which address, whether they are online and     *)
(* which configuration they last reported.                                 *)
(*                                                                         *)
(* Its rows are written by four handlers that do not wait for each other:  *)
(* upsertHeartbeat and handleOfflineMessage (MQTT messages, which may be   *)
(* late or lost), reconcileRosters (every minute, even when the last round *)
(* has not ended) of apps/collector, and addNodeByAddress of apps/web.     *)
(* The last two await answers of the nodes between reading and writing.    *)
(*                                                                         *)
(* Time: a moment the code stores is represented by its age in ticks.  An  *)
(* age stops growing where nothing tells it from a greater one.            *)
(***************************************************************************)
EXTENDS Naturals, FiniteSets

CONSTANTS
    Domia,      \* domiaKeys
    Node,       \* the nodeIds the nodes report
    Address,    \* host and port; also the nodeId the Console makes up from them
    Job,        \* rounds of reconcileRosters that may overlap
    None,
    Threshold,  \* ONLINE_THRESHOLD_MS, in ticks
    Patience,   \* longest delivery of a heartbeat, and timeout of a request
    Dormant,    \* the Domias that report isActive = false
    Plans,      \* bound: the scenarios, members of Plan
    MaxConfig   \* bound: revisions of a Domia's configuration

\* Bound: what may happen in a scenario, and how many changes of it.  "mesh" is for
\* nodes that list everybody at first, "bare" for heartbeats without a node or an
\* address, "overlap" for rounds that overlap.
Kind == {"move", "power", "readdress", "configure", "mesh", "peer", "bare", "add", "crash",
         "reconcile", "overlap"}
Plan == [kinds : SUBSET Kind, left : Nat]

ASSUME RegistryAssumption ==
    /\ None \notin Node \union Address \union Domia
    /\ Threshold \in Nat \ {0}
    /\ Patience \in Nat
    /\ Dormant \subseteq Domia
    /\ Plans \subseteq Plan
    /\ MaxConfig \in Nat \ {0}

VARIABLES
    home,     \* fleet: the node that hosts each Domia, None when nobody does
    peers,    \* fleet: the Domias a node lists besides those it hosts
    up,       \* fleet: whether a node is running
    addr,     \* fleet: where a node answers
    config,   \* fleet: the revision of a Domia's configuration
    beat,     \* MQTT: the heartbeat of a Domia that is under way
    marker,   \* MQTT: whether the offline marker of a node is under way
    row,      \* archive: the domia_registry row of a Domia, None when it has none
    job,      \* collector: the rounds of reconcileRosters
    adder,    \* web: the call of addNodeByAddress
    silence,  \* history: how long ago a Domia was last alive, or listed by a running node
    tenure,   \* history: for how long a Domia has had its home
    plan      \* bound: the scenario, and the changes left in it

fleet == <<home, peers, up, addr, config>>
network == <<beat, marker>>
history == <<silence, tenure>>
vars == <<fleet, network, row, job, adder, history, plan>>

-----------------------------------------------------------------------------
NodeId == Node \union Address
Revision == 0 .. MaxConfig

\* A heartbeat may say neither which node it is of nor where that answers.
Heartbeat == [node : Node \union {None}, addr : Address \union {None},
              config : Revision, age : 0 .. Patience]
RowType == [node : NodeId \union {None}, addr : Address \union {None}, active : BOOLEAN,
            age : 0 .. Threshold, config : Revision]

\* No heartbeat and no row is one that says there is none.
ASSUME NoneAssumption == None \notin Heartbeat /\ None \notin RowType

Group == [node : NodeId, addr : Address, keys : SUBSET Domia]
JobType == [pc : {"idle", "fetch", "apply", "retire"}, groups : SUBSET Group,
            group : Group \union {None}, live : SUBSET Domia, age : 0 .. Patience]
AdderType == [pc : {"idle", "probed", "config"}, addr : Address \union {None},
              node : NodeId \union {None}, hosted : SUBSET Domia,
              stale : SUBSET Domia, left : SUBSET Domia,
              read : [Domia -> Revision], age : Nat]

NoJob == [pc |-> "idle", groups |-> {}, group |-> None, live |-> {}, age |-> 0]
NoAdder == [pc |-> "idle", addr |-> None, node |-> None, hosted |-> {},
            stale |-> {}, left |-> {}, read |-> [d \in Domia |-> 0], age |-> 0]

TypeOK ==
    /\ home \in [Domia -> Node \union {None}]
    /\ peers \in [Node -> SUBSET Domia]
    /\ up \in [Node -> BOOLEAN]
    /\ addr \in [Node -> Address]
    /\ config \in [Domia -> Revision]
    /\ beat \in [Domia -> Heartbeat \union {None}]
    /\ marker \in [Node -> BOOLEAN]
    /\ row \in [Domia -> RowType \union {None}]
    /\ job \in [Job -> JobType]
    /\ adder \in AdderType
    /\ adder.pc = "config" => adder.node # None
    /\ silence \in [Domia -> 0 .. Threshold + Patience]
    /\ tenure \in [Domia -> 0 .. Patience + 1]
    /\ plan \in Plan

Alive(d) == home[d] # None /\ up[home[d]]
Roster(n) == {d \in Domia : home[d] = n}

\* GET /identities lists the peers of the node too, marked as not hosted.
Named(n) == Roster(n) \union peers[n]
Heard(d) == \E n \in Node : up[n] /\ d \in Named(n)
Answering(a) == {n \in Node : up[n] /\ addr[n] = a}
Registered(d) == row[d] # None
Active(d) == Registered(d) /\ row[d].active

\* isOnline
Online(d) == Registered(d) /\ row[d].age < Threshold

\* A moment gets older, until its age tells nothing more.
Older(age, cap) == IF age < cap THEN age + 1 ELSE cap

\* Every node runs at an address of its own, and lists everybody in a mesh,
\* and else only what it hosts; no Domia is registered yet.
Init ==
    /\ plan \in Plans
    /\ home \in [Domia -> Node \union {None}]
    /\ peers = [n \in Node |-> IF "mesh" \in plan.kinds THEN Domia ELSE {}]
    /\ up = [n \in Node |-> TRUE]
    /\ addr \in {f \in [Node -> Address] : \A m, n \in Node : f[m] = f[n] => m = n}
    /\ config = [d \in Domia |-> 1]
    /\ beat = [d \in Domia |-> None]
    /\ marker = [n \in Node |-> FALSE]
    /\ row = [d \in Domia |-> None]
    /\ job = [j \in Job |-> NoJob]
    /\ adder = NoAdder
    /\ silence = [d \in Domia |-> IF Heard(d) THEN 0 ELSE Threshold + Patience]
    /\ tenure = [d \in Domia |-> Patience + 1]

(***************************************************************************)
(* The fleet.                                                              *)
(***************************************************************************)
Change(kind) ==
    /\ kind \in plan.kinds
    /\ plan.left > 0
    /\ plan' = [plan EXCEPT !.left = @ - 1]

\* The Domias heard of after the step were heard of just now.
Witness == silence' = [d \in Domia |-> IF Heard(d)' THEN 0 ELSE silence[d]]

\* A Domia is created or restored on a node, or moves there.
Settle(d, n) ==
    /\ Change("move")
    /\ home[d] # n
    /\ up[n]
    /\ home' = [home EXCEPT ![d] = n]
    /\ tenure' = [tenure EXCEPT ![d] = 0]
    /\ UNCHANGED <<peers, up, addr, config, network, row, job, adder>>
    /\ Witness

\* A Domia is removed from its node.
Remove(d) ==
    /\ Change("move")
    /\ Alive(d)
    /\ home' = [home EXCEPT ![d] = None]
    /\ tenure' = [tenure EXCEPT ![d] = 0]
    /\ UNCHANGED <<peers, up, addr, config, network, row, job, adder, silence>>

\* A node stops; the broker will publish its offline marker.
StopNode(n) ==
    /\ Change("power")
    /\ up[n]
    /\ up' = [up EXCEPT ![n] = FALSE]
    /\ marker' = [marker EXCEPT ![n] = TRUE]
    /\ UNCHANGED <<home, peers, addr, config, beat, row, job, adder, history>>

Free(n, a) == \A m \in Answering(a) : m = n

\* A node starts again, at its address when no lease of it was given away.
StartNode(n) ==
    /\ Change("power")
    /\ ~up[n]
    /\ up' = [up EXCEPT ![n] = TRUE]
    /\ \E a \in Address :
          /\ Free(n, a)
          /\ a = addr[n] \/ "readdress" \in plan.kinds
          /\ addr' = [addr EXCEPT ![n] = a]
    /\ UNCHANGED <<home, peers, config, network, row, job, adder, tenure>>
    /\ Witness

\* A node gets another address.
Readdress(n, a) ==
    /\ Change("readdress")
    /\ up[n]
    /\ addr[n] # a
    /\ Free(n, a)
    /\ addr' = [addr EXCEPT ![n] = a]
    /\ UNCHANGED <<home, peers, up, config, network, row, job, adder, history>>

\* The configuration of a Domia changes.
Configure(d) ==
    /\ Change("configure")
    /\ Alive(d)
    /\ config[d] < MaxConfig
    /\ config' = [config EXCEPT ![d] = @ + 1]
    /\ UNCHANGED <<home, peers, up, addr, network, row, job, adder, history>>

\* A node comes to know a Domia it does not host, or forgets it.
Meet(n, d) ==
    /\ Change("peer")
    /\ up[n]
    /\ peers' = [peers EXCEPT ![n] = IF d \in @ THEN @ \ {d} ELSE @ \union {d}]
    /\ UNCHANGED <<home, up, addr, config, network, row, job, adder, tenure>>
    /\ Witness

(***************************************************************************)
(* MQTT.  At most one heartbeat of a Domia is under way, so they stay in   *)
(* order; one that is not delivered in time is lost.                       *)
(***************************************************************************)
\* What a heartbeat may leave out.
Said(x) == IF "bare" \in plan.kinds THEN {x, None} ELSE {x}

Publish(d) ==
    /\ Alive(d)
    /\ beat[d] = None
    /\ \E n \in Said(home[d]), a \in Said(addr[home[d]]) :
          beat' = [beat EXCEPT ![d] = [node |-> n, addr |-> a, config |-> config[d], age |-> 0]]
    /\ UNCHANGED <<fleet, marker, row, job, adder, history, plan>>

LoseHeartbeat(d) ==
    /\ beat[d] # None
    /\ beat' = [beat EXCEPT ![d] = None]
    /\ UNCHANGED <<fleet, marker, row, job, adder, history, plan>>

LoseMarker(n) ==
    /\ marker[n]
    /\ marker' = [marker EXCEPT ![n] = FALSE]
    /\ UNCHANGED <<fleet, beat, row, job, adder, history, plan>>

(***************************************************************************)
(* The collector's message handlers.                                       *)
(***************************************************************************)
\* The collector is one thread: between two statements of a handler nothing else
\* of it runs, and no time passes.
Undivided == \A j \in Job : job[j].pc # "retire"

\* Mutant: the row is replaced, without the configuration when that is the same.
Upserted_Replaced(d) ==
    [node |-> beat[d].node, addr |-> beat[d].addr, active |-> d \notin Dormant, age |-> 0,
     config |-> IF Registered(d) /\ row[d].config = beat[d].config THEN 0 ELSE beat[d].config]

\* Mutant: the address of an existing row is left alone.
Upserted_KeepsAddress(d) ==
    [node |-> beat[d].node, addr |-> IF Registered(d) THEN row[d].addr ELSE beat[d].addr,
     active |-> d \notin Dormant, age |-> 0, config |-> beat[d].config]

\* Mutant: a row keeps the moment at which it was first seen.
Upserted_KeepsAge(d) ==
    [node |-> beat[d].node, addr |-> beat[d].addr, active |-> d \notin Dormant,
     age |-> IF Registered(d) THEN row[d].age ELSE 0, config |-> beat[d].config]

\* Mutant: a retired row stays retired.
Upserted_KeepsRetired(d) ==
    [node |-> beat[d].node, addr |-> beat[d].addr, age |-> 0, config |-> beat[d].config,
     active |-> IF Registered(d) THEN row[d].active ELSE d \notin Dormant]

\* The row of a Domia after its heartbeat: all of it, for the configuration is
\* left alone only when it is the same.
Upserted(d) ==
    [node |-> beat[d].node, addr |-> beat[d].addr, active |-> d \notin Dormant,
     age |-> 0, config |-> beat[d].config]

UpsertHeartbeat(d) ==
    /\ Undivided
    /\ beat[d] # None
    /\ row' = [row EXCEPT ![d] = Upserted(d)]
    /\ beat' = [beat EXCEPT ![d] = None]
    /\ UNCHANGED <<fleet, marker, job, adder, history, plan>>

\* handleOfflineMessage: whatever is registered on the node was last seen too
\* long ago to be online.
MarkNodeOffline(n) ==
    /\ Undivided
    /\ marker[n]
    /\ marker' = [marker EXCEPT ![n] = FALSE]
    /\ row' = [d \in Domia |-> IF Registered(d) /\ row[d].node = n
                               THEN [row[d] EXCEPT !.age = Threshold]
                               ELSE row[d]]
    /\ UNCHANGED <<fleet, beat, job, adder, history, plan>>

(***************************************************************************)
(* reconcileRosters.                                                       *)
(***************************************************************************)
ActiveOn(n) == {d \in Domia : Active(d) /\ row[d].node = n /\ row[d].addr # None}

\* The round goes on to another of the given nodes, or ends.
Continue(j, groups) ==
    \/ /\ groups = {}
       /\ job' = [job EXCEPT ![j] = NoJob]
    \/ \E g \in groups :
          job' = [job EXCEPT ![j] = [pc |-> "fetch", groups |-> groups \ {g},
                                     group |-> g, live |-> {}, age |-> 0]]

\* A round reads the active rows that name a node and an address, and groups them
\* by node; the first row of a node, whichever it is, says where the node answers.
StartReconcile(j) ==
    /\ Undivided
    /\ "reconcile" \in plan.kinds
    /\ "overlap" \in plan.kinds \/ \A k \in Job : job[k] = NoJob
    /\ job[j].pc = "idle"
    /\ LET nodes == {n \in NodeId : ActiveOn(n) # {}}
       IN  /\ nodes # {}
           /\ \E first \in [nodes -> Domia] :
                 /\ \A n \in nodes : first[n] \in ActiveOn(n)
                 /\ Continue(j, {[node |-> n, addr |-> row[first[n]].addr,
                                  keys |-> ActiveOn(n)] : n \in nodes})
    /\ UNCHANGED <<fleet, network, row, adder, history, plan>>

\* The node that now answers at the address lists the Domias it hosts and its
\* peers, which the round does not tell apart, or nobody when it is not well.
RosterAnswers(j) ==
    /\ job[j].pc = "fetch"
    /\ \E n \in Answering(job[j].group.addr), ok \in BOOLEAN :
          job' = [job EXCEPT ![j].pc = "apply",
                             ![j].live = IF ok THEN Named(n) ELSE {}]
    /\ UNCHANGED <<fleet, network, row, adder, history, plan>>

\* The request fails or times out, or its answer is not understood.
RosterFails(j) ==
    /\ Undivided
    /\ job[j].pc \in {"fetch", "apply"}
    /\ Continue(j, job[j].groups)
    /\ UNCHANGED <<fleet, network, row, adder, history, plan>>

\* Mutant: whatever the snapshot holds is seen.
Seen_Snapshot(j, d) == d \in job[j].group.keys

\* bumpMirrorLastSeen
Seen(j, d) == d \in job[j].live

\* Mutant: an empty roster is trusted.
Gone_Empty(j) == job[j].group.keys \ job[j].live

\* Mutant: nobody is ever gone.
Gone_Nobody(j) == {}

\* retired: who was registered on the node and is not listed; an empty roster says
\* nothing.
Gone(j) == IF job[j].live = {} THEN {} ELSE job[j].group.keys \ job[j].live

\* The answer is applied to the rows as they are now: first whoever is listed and
\* active is seen,
ApplyRoster(j) ==
    /\ Undivided
    /\ job[j].pc = "apply"
    /\ row' = [d \in Domia |-> IF Active(d) /\ Seen(j, d) THEN [row[d] EXCEPT !.age = 0]
                               ELSE row[d]]
    /\ IF Gone(j) = {} THEN Continue(j, job[j].groups)
                        ELSE job' = [job EXCEPT ![j].pc = "retire"]
    /\ UNCHANGED <<fleet, network, adder, history, plan>>

\* Mutant: the rows of the snapshot are retired, wherever they are now.
Retired_Snapshot(j, d) == d \in Gone(j)

\* retireMirrorIdentitiesByNode: whatever is registered on the node now and not
\* listed,
Retired(j, d) == row[d].node = job[j].group.node /\ d \notin job[j].live

\* and then, when somebody is gone, whoever is registered there is retired.
RetireGone(j) ==
    /\ job[j].pc = "retire"
    /\ row' = [d \in Domia |-> IF Active(d) /\ Retired(j, d) THEN [row[d] EXCEPT !.active = FALSE]
                               ELSE row[d]]
    /\ Continue(j, job[j].groups)
    /\ UNCHANGED <<fleet, network, adder, history, plan>>

\* The collector restarts; the messages under way are lost on their own.
Crash ==
    /\ Change("crash")
    /\ job' = [j \in Job |-> NoJob]
    /\ UNCHANGED <<fleet, network, row, adder, history>>

(***************************************************************************)
(* addNodeByAddress.                                                       *)
(***************************************************************************)
\* The node at the address answers the probe.
ProbeNode(a) ==
    /\ Change("add")
    /\ adder.pc = "idle"
    /\ \E n \in Answering(a) :
          /\ Roster(n) # {}
          /\ adder' = [NoAdder EXCEPT !.pc = "probed", !.addr = a, !.hosted = Roster(n)]
    /\ UNCHANGED <<fleet, network, row, job, history>>

\* Mutant: a Domia registered without a node names one.
ReadRegistry_Nameless ==
    /\ adder.pc = "probed"
    /\ LET known == {row[d].node : d \in {e \in adder.hosted : Registered(e)}} \ {adder.addr}
       IN \E n \in IF known = {} THEN {adder.addr} ELSE known :
             adder' = [adder EXCEPT !.pc = "config", !.node = n, !.age = 0,
                         !.left = adder.hosted,
                         !.stale = {d \in Domia \ adder.hosted :
                                      Registered(d) /\ row[d].node = n}]
    /\ UNCHANGED <<fleet, network, row, job, history, plan>>

\* Mutant: every other Domia is stale, on whichever node it is.
ReadRegistry_AnyNode ==
    /\ adder.pc = "probed"
    /\ adder' = [adder EXCEPT !.pc = "config", !.node = adder.addr, !.age = 0,
                   !.left = adder.hosted,
                   !.stale = {d \in Domia \ adder.hosted : Registered(d)}]
    /\ UNCHANGED <<fleet, network, row, job, history, plan>>

\* now, known, nodeId and stale: the node is the one a hosted Domia is already
\* registered on, whichever is read first, or one named after the address.
ReadRegistry ==
    /\ adder.pc = "probed"
    /\ LET known == {row[d].node : d \in {e \in adder.hosted : Registered(e)}}
                    \ {adder.addr, None}
       IN \E n \in IF known = {} THEN {adder.addr} ELSE known :
             adder' = [adder EXCEPT !.pc = "config", !.node = n, !.age = 0,
                         !.left = adder.hosted,
                         !.stale = {d \in Domia \ adder.hosted :
                                      Registered(d) /\ row[d].node = n}]
    /\ UNCHANGED <<fleet, network, row, job, history, plan>>

\* nodeGetConfig of one of them,
ReadConfig(d) ==
    /\ adder.pc = "config"
    /\ d \in adder.left
    /\ home[d] \in Answering(adder.addr)
    /\ adder' = [adder EXCEPT !.left = @ \ {d}, !.read[d] = config[d]]
    /\ UNCHANGED <<fleet, network, row, job, history, plan>>

\* which may fail.
ReadConfigFails(d) ==
    /\ adder.pc = "config"
    /\ d \in adder.left
    /\ adder' = [adder EXCEPT !.left = @ \ {d}]
    /\ UNCHANGED <<fleet, network, row, job, history, plan>>

\* Mutant: the rows are stamped with the time of the transaction.
AddedAge_Commit == 0

\* The rows are stamped with the time of the probe.
AddedAge == IF adder.age < Threshold THEN adder.age ELSE Threshold

Added(d) ==
    [node |-> adder.node, addr |-> adder.addr, active |-> TRUE, age |-> AddedAge,
     config |-> IF adder.read[d] # 0 THEN adder.read[d]
                ELSE IF Registered(d) THEN row[d].config ELSE 0]

\* The transaction.
CommitNode ==
    /\ adder.pc = "config"
    /\ adder.left = {}
    /\ row' = [d \in Domia |->
                 IF d \in adder.hosted THEN Added(d)
                 ELSE IF d \in adder.stale /\ Registered(d)
                      THEN [row[d] EXCEPT !.active = FALSE]
                 ELSE row[d]]
    /\ adder' = NoAdder
    /\ UNCHANGED <<fleet, network, job, history, plan>>

\* The web process stops first.
AbandonNode ==
    /\ adder.pc # "idle"
    /\ adder' = NoAdder
    /\ UNCHANGED <<fleet, network, row, job, history, plan>>

(***************************************************************************)
(* Time passes; nothing stays under way for longer than Patience.          *)
(***************************************************************************)
Tick ==
    /\ Undivided
    /\ \A d \in Domia : beat[d] # None => beat[d].age < Patience
    /\ \A j \in Job : job[j].pc = "apply" => job[j].age < Patience
    /\ adder.pc = "probed" => adder.age < Patience
    /\ beat' = [d \in Domia |-> IF beat[d] = None THEN None
                                ELSE [beat[d] EXCEPT !.age = @ + 1]]
    /\ row' = [d \in Domia |-> IF Registered(d)
                               THEN [row[d] EXCEPT !.age = Older(@, Threshold)]
                               ELSE None]
    /\ job' = [j \in Job |-> IF job[j].pc = "apply"
                             THEN [job[j] EXCEPT !.age = @ + 1] ELSE job[j]]
    /\ adder' = IF adder.pc = "idle" THEN adder
                ELSE [adder EXCEPT !.age = Older(@, Threshold + Patience)]
    /\ silence' = [d \in Domia |-> IF Heard(d) THEN 0
                                   ELSE Older(silence[d], Threshold + Patience)]
    /\ tenure' = [d \in Domia |-> Older(tenure[d], Patience + 1)]
    /\ UNCHANGED <<fleet, marker, plan>>

-----------------------------------------------------------------------------
Fleet ==
    \/ \E d \in Domia, n \in Node : Settle(d, n)
    \/ \E d \in Domia : Remove(d) \/ Configure(d)
    \/ \E n \in Node : StopNode(n) \/ StartNode(n)
    \/ \E n \in Node, a \in Address : Readdress(n, a)
    \/ \E n \in Node, d \in Domia : Meet(n, d)

Messages ==
    \/ \E d \in Domia : Publish(d) \/ LoseHeartbeat(d) \/ UpsertHeartbeat(d)
    \/ \E n \in Node : LoseMarker(n) \/ MarkNodeOffline(n)

Reconcile ==
    \/ \E j \in Job : \/ StartReconcile(j)
                      \/ RosterAnswers(j)
                      \/ RosterFails(j)
                      \/ ApplyRoster(j)
                      \/ RetireGone(j)
    \/ Crash

AddNode ==
    \/ \E a \in Address : ProbeNode(a)
    \/ ReadRegistry
    \/ \E d \in Domia : ReadConfig(d) \/ ReadConfigFails(d)
    \/ CommitNode
    \/ AbandonNode

Next == Fleet \/ Messages \/ Reconcile \/ AddNode \/ Tick

Spec == Init /\ [][Next]_vars

\* A handler of the collector goes on to its next statement.
HandlersGoOn == \A j \in Job : WF_vars(RetireGone(j))

\* A Domia that is alive goes on publishing, and its heartbeats arrive again and
\* again.
HeartbeatsArrive ==
    \A d \in Domia : WF_vars(Publish(d)) /\ SF_vars(UpsertHeartbeat(d))

\* Rounds of reconcileRosters go on starting, and end, for a request ends at its
\* timeout; a node that can answer well again and again does, and is heard.
RoundsEnd ==
    \A j \in Job :
        /\ WF_vars(StartReconcile(j))
        /\ WF_vars(RosterFails(j))
        /\ \A n \in Node :
              /\ SF_vars(RosterAnswers(j) /\ job[j].group.node = n /\ job'[j].live # {})
              /\ SF_vars(ApplyRoster(j) /\ job[j].group.node = n /\ job[j].live # {})

HeartbeatSpec == Spec /\ HandlersGoOn /\ HeartbeatsArrive
RoundSpec == Spec /\ HandlersGoOn /\ RoundsEnd

-----------------------------------------------------------------------------
\* A Domia the Console shows online was alive, or listed by a running node, no
\* earlier than it was last seen, but for the delay of a message: neither a late
\* heartbeat, nor a roster that comes back after the node died, nor an address
\* added meanwhile keeps a Domia online that nobody has heard of for longer than
\* Threshold + Patience.  (A dead Domia that a running node lists as a peer is kept
\* online by the rounds.)
OnlineWasHeardOf ==
    \A d \in Domia : Online(d) => silence[d] <= row[d].age + Patience

\* A Domia registered on the node that hosts it is never retired, unless it has
\* arrived there within the delay of a message: no roster read elsewhere, earlier
\* or for the rows of a snapshot retires it.
SettledIsKept ==
    [][\A d \in Domia :
          Active(d) /\ ~Active(d)' /\ d \notin Dormant /\ home[d] = row[d].node
          => tenure[d] <= Patience]_vars

\* The configuration the Console holds of a Domia is never set back to an older
\* one than it reported.
LastReportKept ==
    [][\A d \in Domia : Registered(d) => row[d].config <= row'[d].config]_vars

\* A Domia a running node goes on hosting is registered there at last, as it is,
\* and shown online again and again: whatever the rounds, offline markers and
\* addNodeByAddress wrote, heartbeats that name their node mend it, and nothing that
\* has still to be written breaks it for good.
HostedIsShown ==
    \A d \in Domia \ Dormant, n \in Node :
        <>[](home[d] = n /\ up[n]) =>
        /\ <>[](Active(d) /\ row[d].node = n /\ row[d].addr = addr[n]
                /\ row[d].config = config[d])
        /\ []<>Online(d)

\* A Domia its running node neither hosts nor lists as a peer any longer is retired
\* from it at last, when the node lists another one: without any heartbeat, by the
\* rounds alone.
RemovedIsRetired ==
    \A d \in Domia, n \in Node :
        <>[](d \notin Named(n) /\ up[n] /\ Named(n) # {}) =>
        <>[]~(Active(d) /\ row[d].node = n)
=============================================================================
