------------------------- MODULE ClusterLeaderProofs -------------------------
(***************************************************************************)
(* For every set of hosts and however long a hub is served: two registries *)
(* that have heard of each other do not both lead, as long as the hub was  *)
(* served from two hosts at most.                                          *)
(***************************************************************************)
EXTENDS ClusterLeader, FiniteSetTheorems, WellFoundedInduction, TLAPS

-----------------------------------------------------------------------------
(* The last host of an answer.                                             *)

LEMMA LastHostExists ==
    ASSUME NEW S \in SUBSET Nodes, S # {}
    PROVE  LastHost(S) \in S /\ \A m \in S : m =< LastHost(S)
<1> DEFINE Beyond(n) == {m \in S : n < m}
           T == {Beyond(n) : n \in S}
<1>1. IsFiniteSet(S) /\ S \subseteq Nat
  BY NodesAssumption, FS_Subset
<1>2. T \subseteq FiniteSubsetsOf(S) /\ T # {}
  <2>1. \A n \in S : Beyond(n) \in SUBSET S
    OBVIOUS
  <2>2. \A n \in S : IsFiniteSet(Beyond(n))
    BY <1>1, <2>1, FS_Subset
  <2> QED BY <2>1, <2>2 DEF FiniteSubsetsOf
<1>3. IsWellFoundedOn(StrictSubsetOrdering(S), FiniteSubsetsOf(S))
  BY FS_StrictSubsetOrderingWellFounded
<1>4. PICK b \in T : \A c \in T : <<c, b>> \notin StrictSubsetOrdering(S)
  BY <1>2, <1>3, WFMin
<1>5. PICK n \in S : b = Beyond(n)
  BY <1>4
<1>6. ASSUME NEW m \in S, n < m
      PROVE  FALSE
  <2>1. Beyond(m) \in T /\ Beyond(m) \subseteq Beyond(n) /\ m \in Beyond(n) \ Beyond(m)
    BY <1>1, <1>6
  <2>2. <<Beyond(m), b>> \in StrictSubsetOrdering(S)
    BY <1>5, <2>1 DEF StrictSubsetOrdering
  <2> QED BY <1>4, <2>1, <2>2
<1>7. \A m \in S : m =< n
  BY <1>1, <1>6
<1> QED BY <1>7 DEF LastHost

\* Two hosts that ever served the hub are all of them.
LEMMA TwoHosts ==
    ASSUME NEW H \in SUBSET Nodes, Cardinality(H) =< 2,
           NEW a \in H, NEW b \in H, a # b
    PROVE  H = {a, b}
<1>1. IsFiniteSet(H)
  BY NodesAssumption, FS_Subset
<1>2. IsFiniteSet({a, b}) /\ Cardinality({a, b}) = 2
  <2>1. IsFiniteSet({a}) /\ Cardinality({a}) = 1
    BY FS_Singleton
  <2>2. IsFiniteSet({a} \cup {b}) /\ Cardinality({a} \cup {b}) = 1 + 1
    BY <2>1, FS_AddElement
  <2>3. {a} \cup {b} = {a, b}
    OBVIOUS
  <2> QED BY <2>2, <2>3
<1>3. Cardinality({a, b}) =< Cardinality(H) /\ (Cardinality(H) = Cardinality({a, b}) => H = {a, b})
  BY <1>1, FS_Subset
<1>4. Cardinality(H) \in Nat
  BY <1>1, FS_CardinalityType
<1> QED BY <1>2, <1>3, <1>4

-----------------------------------------------------------------------------
(* Types.                                                                  *)

LEMMA Bounds == StaleAfter \in Nat /\ MaxLost \in Nat /\ MaxStarts \in Nat
BY BoundsAssumption

LEMMA QueryTypes ==
    ASSUME TypeOK, NEW r \in Nodes, phase[r] # "down", Query(r)
    PROVE  /\ entry' \in [Nodes -> [started : 0 .. MaxStarts, age : 0 .. StaleAfter + 1]]
           /\ quiet' \in [Nodes -> 0 .. MaxLost]
           /\ known' \in [Nodes -> SUBSET (1 .. MaxStarts)]
<1>1. PICK heard \in SUBSET Visible(r) :
         /\ heard # Visible(r) => quiet[r] < MaxLost
         /\ quiet' = [quiet EXCEPT ![r] = IF heard = Visible(r) THEN 0 ELSE @ + 1]
         /\ known' = [known EXCEPT ![r] = @ \cup {started[n] : n \in heard}]
         /\ entry' = IF heard = {} THEN entry
                     ELSE [entry EXCEPT ![r] =
                             [started |-> started[LastHost(heard)], age |-> 0]]
  BY DEF Query
<1>2. heard \in SUBSET Nodes /\ \A n \in heard : phase[n] # "down"
  BY DEF Visible, Advertised
<1>3. \A n \in heard : started[n] \in 1 .. MaxStarts
  BY <1>2, Bounds DEF TypeOK
<1>4. quiet' \in [Nodes -> 0 .. MaxLost]
  BY <1>1, Bounds DEF TypeOK
<1>5. known' \in [Nodes -> SUBSET (1 .. MaxStarts)]
  BY <1>1, <1>3 DEF TypeOK
<1>6. entry' \in [Nodes -> [started : 0 .. MaxStarts, age : 0 .. StaleAfter + 1]]
  <2>1. CASE heard = {}
    BY <1>1, <2>1 DEF TypeOK
  <2>2. CASE heard # {}
    <3>1. LastHost(heard) \in heard
      BY <1>2, <2>2, LastHostExists
    <3>2. [started |-> started[LastHost(heard)], age |-> 0]
             \in [started : 0 .. MaxStarts, age : 0 .. StaleAfter + 1]
      BY <1>3, <3>1, Bounds
    <3> QED BY <1>1, <2>2, <3>2 DEF TypeOK
  <2> QED BY <2>1, <2>2
<1> QED BY <1>4, <1>5, <1>6

LEMMA TypeKept == TypeOK /\ [Next]_vars => TypeOK'
<1> SUFFICES ASSUME TypeOK, [Next]_vars
             PROVE  TypeOK'
  OBVIOUS
<1>1. ASSUME NEW n \in Nodes, Boot(n)
      PROVE  TypeOK'
  <2>1. starts + 1 \in 1 .. MaxStarts
    BY <1>1, Bounds DEF Boot, TypeOK
  <2> QED BY <1>1, <2>1, Bounds DEF Boot, TypeOK
<1>2. ASSUME NEW n \in Nodes, Register(n)
      PROVE  TypeOK'
  BY <1>2 DEF Register, TypeOK
<1>3. ASSUME NEW n \in Nodes, FirstRefresh(n)
      PROVE  TypeOK'
  <2>1. phase[n] # "down" /\ Query(n)
    BY <1>3 DEF FirstRefresh
  <2> QED BY <1>3, <2>1, QueryTypes DEF FirstRefresh, TypeOK
<1>4. ASSUME NEW n \in Nodes, Refresh(n)
      PROVE  TypeOK'
  <2>1. phase[n] # "down" /\ Query(n)
    BY <1>4 DEF Refresh, Up
  <2> QED BY <1>4, <2>1, QueryTypes DEF Refresh, TypeOK
<1>5. ASSUME NEW n \in Nodes, Stop(n)
      PROVE  TypeOK'
  <2>1. Nobody \in [started : 0 .. MaxStarts, age : 0 .. StaleAfter + 1]
    BY Bounds DEF Nobody
  <2>2. 0 \in 0 .. MaxStarts /\ 0 \in 0 .. MaxLost
    BY Bounds
  <2> QED BY <1>5, <2>1, <2>2 DEF Stop, TypeOK
<1>6. CASE Tick
  <2>1. due' \in [Nodes -> BOOLEAN]
    BY <1>6 DEF Tick, Up
  <2>2. ASSUME NEW n \in Nodes, NEW e \in [started : 0 .. MaxStarts, age : 0 .. StaleAfter + 1],
               ~(e.age > StaleAfter)
        PROVE  [e EXCEPT !.age = @ + 1] \in [started : 0 .. MaxStarts, age : 0 .. StaleAfter + 1]
    <3>1. e.age + 1 \in 0 .. StaleAfter + 1
      BY <2>2, Bounds
    <3> QED BY <3>1
  <2>3. entry' \in [Nodes -> [started : 0 .. MaxStarts, age : 0 .. StaleAfter + 1]]
    BY <1>6, <2>2 DEF Tick, TypeOK
  <2> QED BY <1>6, <2>1, <2>3 DEF Tick, TypeOK
<1>7. CASE UNCHANGED vars
  BY <1>7 DEF vars, TypeOK
<1> QED BY <1>1, <1>2, <1>3, <1>4, <1>5, <1>6, <1>7 DEF Next, Instance

\* Whatever starts, stops and is lost, a registry keeps its shape, and a
\* process has a StartedAt exactly as long as it lives.
THEOREM TypeCorrect == Spec => []TypeOK
<1>1. Init => TypeOK
  BY Bounds DEF Init, TypeOK, Nobody
<1> QED BY <1>1, TypeKept, PTL DEF Spec

-----------------------------------------------------------------------------
(* No two processes started at once, and nobody is heard of before it      *)
(* starts.                                                                 *)

Ranks ==
    /\ \A n \in Nodes : /\ started[n] =< starts
                        /\ \A k \in known[n] : k =< starts
                        /\ phase[n] # "down" => n \in hosts
                        /\ phase[n] # "up" => known[n] = {}
    /\ \A a, b \in Nodes : a # b /\ started[a] = started[b] => started[a] = 0

LEMMA Numbers ==
    ASSUME TypeOK
    PROVE  /\ starts \in Nat
           /\ \A n \in Nodes : /\ started[n] \in Nat /\ quiet[n] \in 0 .. MaxLost
                               /\ known[n] \subseteq Nat \ {0}
                               /\ entry[n].age \in Nat /\ entry[n].started \in Nat
BY Bounds DEF TypeOK

LEMMA RanksKept ==
    ASSUME TypeOK, Ranks, [Next]_vars
    PROVE  Ranks'
<1>1. ASSUME NEW n \in Nodes, Boot(n)
      PROVE  Ranks'
  <2>1. /\ \A m \in Nodes : /\ started'[m] = IF m = n THEN starts + 1 ELSE started[m]
                            /\ phase'[m] = IF m = n THEN "booted" ELSE phase[m]
        /\ starts' = starts + 1 /\ hosts' = hosts \cup {n} /\ known' = known
        /\ phase[n] = "down"
    BY <1>1 DEF Boot, TypeOK
  <2> QED BY <2>1, Numbers DEF Ranks
<1>2. ASSUME NEW n \in Nodes, Register(n)
      PROVE  Ranks'
  <2>1. \A m \in Nodes : phase'[m] = IF m = n THEN "registered" ELSE phase[m]
    BY <1>2 DEF Register, TypeOK
  <2> QED BY <1>2, <2>1 DEF Register, Ranks
<1>3. ASSUME NEW r \in Nodes, Query(r), Advertised(r), NEW m \in Nodes, NEW k \in known'[m]
      PROVE  k =< starts
  <2>1. \A n \in Visible(r) : n \in Nodes
    BY DEF Visible
  <2>2. k \in known[m] \/ \E n \in Visible(r) : k = started[n]
    BY <1>3 DEF Query, TypeOK
  <2> QED BY <2>1, <2>2 DEF Ranks
<1>4. ASSUME NEW r \in Nodes, Query(r), NEW m \in Nodes, m # r
      PROVE  known'[m] = known[m]
  BY <1>4 DEF Query, TypeOK
<1>5. ASSUME NEW r \in Nodes, FirstRefresh(r)
      PROVE  Ranks'
  <2>1. \A m \in Nodes : phase'[m] = IF m = r THEN "up" ELSE phase[m]
    BY <1>5 DEF FirstRefresh, TypeOK
  <2>2. Query(r) /\ Advertised(r) /\ phase[r] = "registered"
    BY <1>5 DEF FirstRefresh, Advertised
  <2> QED BY <1>3, <1>4, <1>5, <2>1, <2>2 DEF FirstRefresh, Ranks
<1>6. ASSUME NEW r \in Nodes, Refresh(r)
      PROVE  Ranks'
  <2>1. Query(r) /\ Advertised(r) /\ phase[r] = "up"
    BY <1>6 DEF Refresh, Advertised, Up
  <2> QED BY <1>3, <1>4, <1>6, <2>1 DEF Refresh, Ranks
<1>7. ASSUME NEW n \in Nodes, Stop(n)
      PROVE  Ranks'
  <2>1. /\ \A m \in Nodes : /\ started'[m] = IF m = n THEN 0 ELSE started[m]
                            /\ phase'[m] = IF m = n THEN "down" ELSE phase[m]
                            /\ known'[m] = IF m = n THEN {} ELSE known[m]
        /\ starts' = starts /\ hosts' = hosts
    BY <1>7 DEF Stop, TypeOK
  <2> QED BY <2>1, Numbers DEF Ranks
<1>8. CASE Tick
  BY <1>8 DEF Tick, Ranks
<1>9. CASE UNCHANGED vars
  BY <1>9 DEF vars, Ranks
<1> QED BY <1>1, <1>2, <1>5, <1>6, <1>7, <1>8, <1>9 DEF Next, Instance

-----------------------------------------------------------------------------
(* What a registry knows of the other host.                                *)

\* r has heard of the process that n runs now.
Knows(r, n) == n # r /\ phase[n] # "down" /\ started[n] \in known[r]

\* Its entry is that process, or its own advertisement, and not older than
\* the rounds in which it heard nothing.
HasEntry(r, n) ==
    /\ Advertised(n)
    /\ \/ entry[r].started = started[n]
       \/ entry[r].started = started[r] /\ r \notin SsWorks
    /\ entry[r].age =< quiet[r] + (IF due[r] THEN 1 ELSE 0)

Informed ==
    Cardinality(hosts) =< 2 => \A r, n \in Nodes : Knows(r, n) => HasEntry(r, n)

\* A query hears of the other host, or hears nothing, or what it hears is the
\* own advertisement.
LEMMA QueryInforms ==
    ASSUME TypeOK, Ranks, Informed, Cardinality(hosts) =< 2,
           NEW r \in Nodes, Query(r), Advertised(r), NEW n \in Nodes, n # r,
           phase[n] # "down", started[n] \in known'[r]
    PROVE  /\ Advertised(n)
           /\ \/ entry'[r].started = started[n]
              \/ entry'[r].started = started[r] /\ r \notin SsWorks
           /\ entry'[r].age = 0
              \/ (entry'[r].age = entry[r].age /\ quiet'[r] = quiet[r] + 1 /\ Knows(r, n))
<1>1. PICK heard \in SUBSET Visible(r) :
         /\ heard # Visible(r) => quiet[r] < MaxLost
         /\ quiet' = [quiet EXCEPT ![r] = IF heard = Visible(r) THEN 0 ELSE @ + 1]
         /\ known' = [known EXCEPT ![r] = @ \cup {started[m] : m \in heard}]
         /\ entry' = IF heard = {} THEN entry
                     ELSE [entry EXCEPT ![r] =
                             [started |-> started[LastHost(heard)], age |-> 0]]
  BY DEF Query
<1>2. hosts = {r, n}
  <2>1. r \in hosts /\ n \in hosts /\ hosts \in SUBSET Nodes
    BY DEF Advertised, Ranks, TypeOK
  <2> QED BY <2>1, TwoHosts
<1>3. /\ heard \in SUBSET Nodes /\ heard \subseteq {r, n}
      /\ r \in SsWorks => r \notin heard
      /\ \A m \in heard : Advertised(m)
  BY <1>2 DEF Visible, Advertised, Ranks
<1>4. started[n] # 0
  BY DEF TypeOK
<1>5. Knows(r, n) \/ n \in heard
  <2>1. started[n] \in known[r] \/ \E m \in heard : started[n] = started[m]
    BY <1>1 DEF TypeOK
  <2> QED BY <1>3, <1>4, <2>1 DEF Knows, Ranks
<1>6. Advertised(n)
  BY <1>3, <1>5 DEF Informed, HasEntry
<1>7. CASE heard = {}
  <2>1. entry' = entry /\ Knows(r, n)
    BY <1>1, <1>5, <1>7
  <2>2. n \in Visible(r)
    BY <1>6 DEF Visible
  <2>3. quiet'[r] = quiet[r] + 1
    BY <1>1, <1>7, <2>2 DEF TypeOK
  <2> QED BY <1>6, <2>1, <2>3 DEF Informed, HasEntry
<1>8. CASE heard # {}
  <2>1. LastHost(heard) \in heard
    BY <1>3, <1>8, LastHostExists
  <2>2. entry'[r].started = started[LastHost(heard)] /\ entry'[r].age = 0
    BY <1>1, <1>8 DEF TypeOK
  <2>3. LastHost(heard) = n \/ (LastHost(heard) = r /\ r \notin SsWorks)
    BY <1>3, <2>1
  <2>4. CASE LastHost(heard) = n
    BY <1>6, <2>2, <2>4
  <2>5. CASE LastHost(heard) = r /\ r \notin SsWorks
    BY <1>6, <2>2, <2>5
  <2> QED BY <2>3, <2>4, <2>5
<1> QED BY <1>7, <1>8

\* The query of one registry leaves the others alone.
LEMMA QueryIsLocal ==
    ASSUME TypeOK, NEW r \in Nodes, Query(r), NEW m \in Nodes, m # r
    PROVE  entry'[m] = entry[m] /\ quiet'[m] = quiet[m] /\ known'[m] = known[m]
BY DEF Query, TypeOK

LEMMA InformedKept ==
    ASSUME TypeOK, Ranks, Informed, [Next]_vars
    PROVE  Informed'
<1>0. /\ starts \in Nat
      /\ \A n \in Nodes : entry[n].age \in Nat /\ quiet[n] \in Nat
  BY Numbers, Bounds
<1>1. ASSUME NEW n \in Nodes, Boot(n)
      PROVE  Informed'
  <2>1. /\ \A m \in Nodes : /\ started'[m] = IF m = n THEN starts + 1 ELSE started[m]
                            /\ phase'[m] = IF m = n THEN "booted" ELSE phase[m]
        /\ hosts' = hosts \cup {n} /\ phase[n] = "down"
        /\ known' = known /\ entry' = entry /\ quiet' = quiet /\ due' = due
    BY <1>1 DEF Boot, TypeOK
  <2>2. Cardinality(hosts) \in Nat /\ Cardinality(hosts') \in Nat
        /\ Cardinality(hosts) =< Cardinality(hosts')
    <3>1. IsFiniteSet(hosts') /\ hosts \subseteq hosts'
      <4>1. hosts' \in SUBSET Nodes /\ hosts \subseteq hosts'
        BY <2>1 DEF TypeOK
      <4> QED BY <4>1, NodesAssumption, FS_Subset
    <3> QED BY <3>1, FS_Subset, FS_CardinalityType
  <2>3. ASSUME NEW r \in Nodes, NEW m \in Nodes, Knows(r, m)'
        PROVE  Knows(r, m) /\ m # n /\ r # n
    <3>1. m # n
      BY <1>0, <2>1, <2>3 DEF Knows, Ranks
    <3>2. known[n] = {}
      BY <2>1 DEF Ranks
    <3> QED BY <2>1, <2>3, <3>1, <3>2 DEF Knows
  <2> QED BY <2>1, <2>2, <2>3 DEF Informed, HasEntry, Advertised
<1>2. ASSUME NEW n \in Nodes, Register(n)
      PROVE  Informed'
  <2>1. \A m \in Nodes : phase'[m] = IF m = n THEN "registered" ELSE phase[m]
    BY <1>2 DEF Register, TypeOK
  <2>2. phase[n] = "booted"
    BY <1>2 DEF Register
  <2> QED BY <1>2, <2>1, <2>2 DEF Register, Informed, Knows, HasEntry, Advertised
<1>3. ASSUME NEW r \in Nodes, Query(r), Advertised(r),
             UNCHANGED <<started, starts, hosts>>,
             \A m \in Nodes : phase'[m] = phase[m] \/ (m = r /\ phase'[m] = "up"),
             \A m \in Nodes \ {r} : due'[m] = due[m],
             due'[r] = FALSE \/ known[r] = {}, due'[r] \in BOOLEAN,
             due[r] \/ known[r] = {}
      PROVE  Informed'
  <2> SUFFICES ASSUME Cardinality(hosts) =< 2, NEW q \in Nodes, NEW n \in Nodes, Knows(q, n)'
               PROVE  HasEntry(q, n)'
    BY <1>3 DEF Informed
  <2>1. started'[n] = started[n] /\ started'[q] = started[q] /\ phase[n] # "down"
        /\ (Advertised(n) => Advertised(n)')
    BY <1>3 DEF Knows, Advertised
  <2>2. CASE q = r
    <3>1. /\ Advertised(n)
          /\ \/ entry'[r].started = started[n]
             \/ entry'[r].started = started[r] /\ r \notin SsWorks
          /\ entry'[r].age = 0
             \/ (entry'[r].age = entry[r].age /\ quiet'[r] = quiet[r] + 1 /\ Knows(r, n))
      BY <1>3, <2>1, <2>2, QueryInforms DEF Knows
    <3>2. quiet'[r] \in Nat
      BY <1>3, Bounds, QueryTypes DEF Advertised
    <3>3. CASE entry'[r].age = 0
      BY <1>3, <2>1, <2>2, <3>1, <3>2, <3>3 DEF HasEntry
    <3>4. CASE entry'[r].age = entry[r].age /\ quiet'[r] = quiet[r] + 1 /\ Knows(r, n)
      <4>1. entry[r].age =< quiet[r] + (IF due[r] THEN 1 ELSE 0)
        BY <3>4 DEF Informed, HasEntry
      <4>2. due'[r] = FALSE
        BY <1>3, <3>4 DEF Knows
      <4>3. entry'[r].age =< quiet'[r]
        BY <1>0, <3>4, <4>1
      <4> QED BY <2>1, <2>2, <3>1, <3>2, <4>2, <4>3 DEF HasEntry
    <3> QED BY <3>1, <3>3, <3>4
  <2>3. CASE q # r
    <3>1. entry'[q] = entry[q] /\ quiet'[q] = quiet[q] /\ known'[q] = known[q]
          /\ due'[q] = due[q]
      BY <1>3, <2>3, QueryIsLocal
    <3>2. HasEntry(q, n)
      BY <2>1, <3>1 DEF Informed, Knows
    <3> QED BY <2>1, <3>1, <3>2 DEF HasEntry
  <2> QED BY <2>2, <2>3
<1>4. ASSUME NEW r \in Nodes, FirstRefresh(r)
      PROVE  Informed'
  <2>1. Query(r) /\ Advertised(r) /\ known[r] = {} /\ due' = due /\ due[r] \in BOOLEAN
    BY <1>4 DEF FirstRefresh, Advertised, Ranks, TypeOK
  <2>2. \A m \in Nodes : phase'[m] = phase[m] \/ (m = r /\ phase'[m] = "up")
    BY <1>4 DEF FirstRefresh, TypeOK
  <2> QED BY <1>3, <1>4, <2>1, <2>2 DEF FirstRefresh
<1>5. ASSUME NEW r \in Nodes, Refresh(r)
      PROVE  Informed'
  <2>1. Query(r) /\ Advertised(r) /\ due[r] /\ due'[r] = FALSE
        /\ \A m \in Nodes \ {r} : due'[m] = due[m]
    BY <1>5 DEF Refresh, Advertised, Up, TypeOK
  <2> QED BY <1>3, <1>5, <2>1 DEF Refresh
<1>6. ASSUME NEW n \in Nodes, Stop(n)
      PROVE  Informed'
  <2>1. /\ \A m \in Nodes : /\ started'[m] = IF m = n THEN 0 ELSE started[m]
                            /\ phase'[m] = IF m = n THEN "down" ELSE phase[m]
                            /\ known'[m] = IF m = n THEN {} ELSE known[m]
                            /\ m # n => entry'[m] = entry[m] /\ quiet'[m] = quiet[m]
                                        /\ due'[m] = due[m]
        /\ hosts' = hosts
    BY <1>6 DEF Stop, TypeOK
  <2>2. ASSUME NEW r \in Nodes, NEW m \in Nodes, Knows(r, m)'
        PROVE  Knows(r, m) /\ m # n /\ r # n
    BY <2>1, <2>2 DEF Knows
  <2> QED BY <2>1, <2>2 DEF Informed, HasEntry, Advertised
<1>7. CASE Tick
  <2>1. ASSUME NEW r \in Nodes
        PROVE  /\ entry'[r].started = entry[r].started
               /\ entry'[r].age = entry[r].age
                  \/ entry'[r].age = entry[r].age + 1
               /\ ~due[r] /\ (due'[r] <=> Up(r))
    BY <1>7 DEF Tick, TypeOK
  <2>2. UNCHANGED <<phase, started, quiet, known, hosts>>
    BY <1>7 DEF Tick
  <2>3. ASSUME NEW r \in Nodes, NEW n \in Nodes, Knows(r, n), HasEntry(r, n)
        PROVE  HasEntry(r, n)'
    <3>1. Up(r)
      BY <2>3 DEF Knows, Up, Ranks
    <3>2. entry'[r].age =< quiet[r] + 1
      BY <1>0, <2>1, <2>3 DEF HasEntry
    <3> QED BY <2>1, <2>2, <2>3, <3>1, <3>2 DEF HasEntry, Advertised
  <2> QED BY <2>2, <2>3 DEF Informed, Knows
<1>8. CASE UNCHANGED vars
  BY <1>8 DEF vars, Informed, Knows, HasEntry, Advertised
<1> QED BY <1>1, <1>2, <1>4, <1>5, <1>6, <1>7, <1>8 DEF Next, Instance

\* On two hosts, two processes that know of each other never both lead,
\* whatever is lost and however often they restart, unless one of them has the
\* other hidden by its own advertisement - provided that fewer rounds in a row
\* are lost than make an entry stale.
THEOREM OneOfTwoLeads ==
    ASSUME MaxLost < StaleAfter
    PROVE  Spec => []DoubleLeadIsTransient
<1>1. Init => Ranks /\ Informed
  BY DEF Init, Ranks, Informed, Knows
<1>2. TypeOK /\ Ranks /\ Informed /\ [Next]_vars => (Ranks /\ Informed)'
  BY RanksKept, InformedKept
<1>3. TypeOK /\ Ranks /\ Informed => DoubleLeadIsTransient
  <2> SUFFICES ASSUME TypeOK, Ranks, Informed, NEW a \in Leaders, NEW b \in Leaders,
                      a # b, Cardinality(hosts) =< 2, ~HidesPeers(a), ~HidesPeers(b),
                      started[a] \in known[b], started[b] \in known[a]
               PROVE  FALSE
    BY DEF DoubleLeadIsTransient
  <2>1. a \in Nodes /\ b \in Nodes /\ Up(a) /\ Up(b)
    BY DEF Leaders, IsLeader
  <2>2. HasEntry(a, b) /\ HasEntry(b, a)
    BY <2>1 DEF Informed, Knows, Up
  <2>3. ASSUME NEW r \in Leaders, NEW n \in Nodes, HasEntry(r, n), ~HidesPeers(r)
        PROVE  entry[r].started = started[n] /\ started[r] =< started[n]
    <3>1. r \in Nodes /\ quiet[r] \in 0 .. MaxLost /\ entry[r].age \in Nat
          /\ started[r] \in Nat /\ started[n] \in Nat
      BY Numbers DEF Leaders
    <3>2. Active(r)
      BY <2>3, <3>1, Bounds DEF HasEntry, Active
    <3>3. ~PeerFirst(r)
      BY <3>2 DEF Leaders, IsLeader
    <3>4. entry[r].started = started[n]
      BY <2>3, <3>1, <3>3 DEF PeerFirst, HasEntry, HidesPeers
    <3> QED BY <3>1, <3>3, <3>4 DEF PeerFirst
  <2>4. started[a] = started[b]
    BY <2>1, <2>2, <2>3, Numbers
  <2> QED BY <2>1, <2>4 DEF Ranks, TypeOK, Up
<1> QED BY <1>1, <1>2, <1>3, TypeCorrect, PTL DEF Spec
=============================================================================
