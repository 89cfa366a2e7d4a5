----------------------------- MODULE ClusterLeader -----------------------------
(***************************************************************************)
(* Which instance of `hubhq auto run` acts on hub events: clusterRegistry  *)
(* of src/internal/cli/cluster.go.  The instances serve the same hub, one  *)
(* on each host, and find each other by mDNS.                              *)
(*                                                                         *)
(* An advertisement carries no id, so clusterInstanceInfoFromEntry names   *)
(* EVERY instance of the hub by its hub_key, and Refresh writes them all   *)
(* to one entry of the map peers: the last one written, of the host that   *)
(* sorts last, is the only peer a registry knows.  An instance also finds  *)
(* its own advertisement, unless `ss` lists its port, in which case the    *)
(* local view replaces it under another id and in another group.  Only the *)
(* entry of the hub_key takes part in an election; it is the variable      *)
(* entry.                                                                  *)
(*                                                                         *)
(* A tick is one round of refreshLoop (the two-second ticker and the       *)
(* listening time of a query).                                             *)
(***************************************************************************)
EXTENDS Integers, FiniteSets

CONSTANTS
    Nodes,       \* hosts; a larger one has a name that sorts later
    SsWorks,     \* the hosts on which `ss -ltnp` lists the own port
    HubKeyFirst, \* the hosts whose name, and so an id, sorts after the hub_key
    StaleAfter,  \* rounds within the fifteen seconds of clusterInstanceActive
    MaxLost,     \* bound: rounds in a row in which a query misses an answer
    MaxStarts    \* bound: processes ever started

ASSUME NodesAssumption == Nodes \subseteq Nat \ {0} /\ IsFiniteSet(Nodes)
ASSUME SsAssumption == SsWorks \subseteq Nodes
ASSUME HubKeyAssumption == HubKeyFirst \subseteq Nodes
ASSUME BoundsAssumption == {StaleAfter, MaxLost, MaxStarts} \subseteq Nat

VARIABLES
    phase,    \* down, booted (StartedAt taken), registered, up
    started,  \* StartedAt, as a rank among all starts
    starts,   \* processes started so far
    entry,    \* peers[hub_key] of each registry
    due,      \* the round's Refresh is still to be made
    quiet,    \* rounds in a row in which the query missed an answer
    known,    \* history: the processes a registry has heard of
    hosts     \* history: the hosts that ever ran one

vars == <<phase, started, starts, entry, due, quiet, known, hosts>>

\* No peer heard of yet.
Nobody == [started |-> 0, age |-> StaleAfter + 1]

Advertised(n) == phase[n] \in {"registered", "up"}
Up(n) == phase[n] = "up"

-----------------------------------------------------------------------------
(* The election: clusterRegistry.leader and IsLeader.                      *)

\* Mutant: a peer once seen counts for ever.
EverSeen(r) == entry[r] # Nobody

\* Mutant: the limit is shorter than the refresh interval.
SeenThisRound(r) == entry[r].age = 0

Active(r) == entry[r].age =< StaleAfter

\* Mutant: the youngest instance leads.
PeerYounger(r) == started[r] < entry[r].started

\* sort.Slice puts the peer before self: it started earlier, or it is the
\* own advertisement and the hub_key sorts before the own id.
PeerFirst(r) ==
    \/ entry[r].started < started[r]
    \/ entry[r].started = started[r] /\ r \in HubKeyFirst

IsLeader(r) == Up(r) /\ ~(Active(r) /\ PeerFirst(r))

Leaders == {r \in Nodes : IsLeader(r)}

-----------------------------------------------------------------------------
Init ==
    /\ phase = [n \in Nodes |-> "down"]
    /\ started = [n \in Nodes |-> 0]
    /\ starts = 0
    /\ entry = [n \in Nodes |-> Nobody]
    /\ due = [n \in Nodes |-> FALSE]
    /\ quiet = [n \in Nodes |-> 0]
    /\ known = [n \in Nodes |-> {}]
    /\ hosts = {}

\* buildRuntimeInstanceInfo takes the time before anything is registered.
Boot(n) ==
    /\ phase[n] = "down"
    /\ starts < MaxStarts
    /\ phase' = [phase EXCEPT ![n] = "booted"]
    /\ starts' = starts + 1
    /\ started' = [started EXCEPT ![n] = starts + 1]
    /\ hosts' = hosts \cup {n}
    /\ UNCHANGED <<entry, due, quiet, known>>

Register(n) ==
    /\ phase[n] = "booted"
    /\ phase' = [phase EXCEPT ![n] = "registered"]
    /\ UNCHANGED <<started, starts, entry, due, quiet, known, hosts>>

\* Advertisements a query of r merges under the hub_key.
Visible(r) == {n \in Nodes : Advertised(n)} \ (IF r \in SsWorks THEN {r} ELSE {})

\* Mutant: the host that sorts first stays.
FirstHost(S) == CHOOSE n \in S : \A m \in S : n =< m

\* The views are written in the order of their hosts: the last one stays.
LastHost(S) == CHOOSE n \in S : \A m \in S : m =< n

\* queryClusterInstances and the writes of Refresh.  Multicast answers may be
\* lost; what is not heard leaves peers alone, nothing is ever deleted.
Query(r) ==
    \E heard \in SUBSET Visible(r) :
        /\ heard # Visible(r) => quiet[r] < MaxLost
        /\ quiet' = [quiet EXCEPT ![r] = IF heard = Visible(r) THEN 0 ELSE @ + 1]
        /\ known' = [known EXCEPT ![r] = @ \cup {started[n] : n \in heard}]
        /\ entry' = IF heard = {} THEN entry
                    ELSE [entry EXCEPT ![r] =
                            [started |-> started[LastHost(heard)], age |-> 0]]

\* newClusterRegistry queries once before autoRun goes on.
FirstRefresh(r) ==
    /\ phase[r] = "registered"
    /\ Query(r)
    /\ phase' = [phase EXCEPT ![r] = "up"]
    /\ UNCHANGED <<started, starts, due, hosts>>

Refresh(r) ==
    /\ Up(r)
    /\ due[r]
    /\ Query(r)
    /\ due' = [due EXCEPT ![r] = FALSE]
    /\ UNCHANGED <<phase, started, starts, hosts>>

\* The process ends, by a crash, a signal or an exec of itself; its mDNS
\* server answers no more, and its peers remember it until it is stale.
Stop(n) ==
    /\ phase[n] # "down"
    /\ phase' = [phase EXCEPT ![n] = "down"]
    /\ started' = [started EXCEPT ![n] = 0]
    /\ entry' = [entry EXCEPT ![n] = Nobody]
    /\ due' = [due EXCEPT ![n] = FALSE]
    /\ quiet' = [quiet EXCEPT ![n] = 0]
    /\ known' = [known EXCEPT ![n] = {}]
    /\ UNCHANGED <<starts, hosts>>

\* A round passes; every registry has made its Refresh, and a query of a
\* starting instance fits into a round.
Tick ==
    /\ \A n \in Nodes : ~due[n] /\ phase[n] # "registered"
    /\ due' = [n \in Nodes |-> Up(n)]
    /\ entry' = [n \in Nodes |->
                    IF entry[n].age > StaleAfter THEN entry[n]
                    ELSE [entry[n] EXCEPT !.age = @ + 1]]
    /\ UNCHANGED <<phase, started, starts, quiet, known, hosts>>

Instance(n) == Register(n) \/ FirstRefresh(n) \/ Refresh(n)

Next ==
    \/ \E n \in Nodes : Boot(n) \/ Instance(n) \/ Stop(n)
    \/ Tick

Spec == Init /\ [][Next]_vars

\* Time passes and registries refresh; nobody has to start or to stop.
FairSpec == Spec /\ WF_vars(Tick) /\ \A n \in Nodes : WF_vars(Instance(n))

-----------------------------------------------------------------------------
\* The variables have the shapes of the Go values they stand for, and a
\* process has a StartedAt as long as it lives.
TypeOK ==
    /\ \A n \in Nodes : phase[n] # "down" <=> started[n] # 0
    /\ phase \in [Nodes -> {"down", "booted", "registered", "up"}]
    /\ started \in [Nodes -> 0 .. MaxStarts]
    /\ starts \in 0 .. MaxStarts
    /\ entry \in [Nodes -> [started : 0 .. MaxStarts, age : 0 .. StaleAfter + 1]]
    /\ due \in [Nodes -> BOOLEAN]
    /\ quiet \in [Nodes -> 0 .. MaxLost]
    /\ known \in [Nodes -> SUBSET (1 .. MaxStarts)]
    /\ hosts \subseteq Nodes

\* Where `ss` lists the port of n (on Linux, the port one of 8080 to 8090) the
\* registry of n never takes its own advertisement for a peer; elsewhere it does,
\* and either loses to it or lets it hide another host and goes on leading.
LosesToItself(n) == n \in HubKeyFirst \ SsWorks
HidesPeers(n) == n \notin SsWorks \cup HubKeyFirst

\* As long as the hub was served from two hosts at most, two instances act on
\* the same hub event only while one of them has never heard of the other, or
\* its own advertisement hides the other from it; fewer lost rounds than make an
\* entry stale do not bring a second leader.
DoubleLeadIsTransient ==
    \A a, b \in Leaders :
        a # b /\ Cardinality(hosts) <= 2 /\ ~HidesPeers(a) /\ ~HidesPeers(b)
        => started[a] \notin known[b] \/ started[b] \notin known[a]

Oldest(n) == Up(n) /\ \A m \in Nodes : Up(m) => started[n] =< started[m]

\* When nothing starts or stops any more, no instance leads beside the oldest
\* (cluster.go, leader over Refresh), if at most two hosts ever ran one, but for
\* one from which its own advertisement hides the oldest.
NoSecondLeaderAtLast ==
    <>[](Cardinality(hosts) <= 2
         => \A n \in Leaders : Oldest(n) \/ HidesPeers(n))

\* When nothing starts or stops any more, the oldest instance leads, however
\* many hosts there are (cluster.go, leader over Refresh), unless it loses to
\* itself: then events may be lost for want of a leader.
OldestLeadsAtLast ==
    <>[](\A n \in Nodes : Oldest(n) /\ ~LosesToItself(n) => n \in Leaders)
=============================================================================
