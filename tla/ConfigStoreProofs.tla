-------------------------- MODULE ConfigStoreProofs --------------------------
(***************************************************************************)
(* For every set of hubs, fields and processes, and any number of          *)
(* commands, kills and rebuilds: what becomes of the three files of the    *)
(* configuration.                                                          *)
(***************************************************************************)
EXTENDS ConfigStore, TLAPS

-----------------------------------------------------------------------------
(* Types.                                                                  *)

LEMMA Maximum ==
    ASSUME NEW a \in Nat, NEW b \in Nat
    PROVE  /\ Max({a, b}) \in {a, b} /\ a =< Max({a, b}) /\ b =< Max({a, b})
           /\ Max({a}) = a
BY DEF Max

LEMMA LaterTypes ==
    ASSUME NEW S, NEW a \in [S -> Nat], NEW b \in [S -> Nat]
    PROVE  /\ Later(a, b) \in [S -> Nat]
           /\ \A s \in S : /\ a[s] =< Later(a, b)[s] /\ b[s] =< Later(a, b)[s]
                           /\ Later(a, b)[s] \in {a[s], b[s]}
<1>1. DOMAIN a = S /\ \A s \in S : a[s] \in Nat /\ b[s] \in Nat
  OBVIOUS
<1>2. \A s \in S : Later(a, b)[s] = Max({a[s], b[s]})
  BY <1>1 DEF Later
<1>3. \A s \in S : Max({a[s], b[s]}) \in {a[s], b[s]}
                   /\ a[s] =< Max({a[s], b[s]}) /\ b[s] =< Max({a[s], b[s]})
  BY <1>1, Maximum
<1>4. \A s \in S : Max({a[s], b[s]}) \in Nat
  BY <1>1, <1>3
<1>5. Later(a, b) = [s \in S |-> Max({a[s], b[s]})]
  BY <1>1 DEF Later
<1> QED BY <1>2, <1>3, <1>4, <1>5

LEMMA EmptyTypes ==
    /\ NoTokens \in [Hubs -> Nat]
    /\ EmptyConfig \in Configs
    /\ Idle \in ThreadRecords
<1>1. NoTokens \in [Hubs -> Nat]
  BY DEF NoTokens
<1>2. EmptyConfig \in Configs
  BY <1>1 DEF EmptyConfig, Configs
<1>3. Idle \in ThreadRecords
  BY <1>2 DEF Idle, ThreadRecords, Files, JobNames
<1> QED BY <1>1, <1>2, <1>3

\* What Save writes, and what comes after it.
LEMMA ContentTypes ==
    ASSUME NEW cfg \in Configs
    PROVE  /\ ConfigOnly(cfg) \in Configs
           /\ ConfigOnly(cfg).token = NoTokens
           /\ ConfigOnly(cfg).set = cfg.set /\ ConfigOnly(cfg).named = cfg.named
           /\ ConfigOnly(cfg).blank = cfg.blank
           /\ Content(cfg, "config") = ConfigOnly(cfg)
           /\ Content(cfg, "tokens") = cfg.token /\ cfg.token \in [Hubs -> Nat]
           /\ Content(cfg, "cache") = cfg.inventory /\ cfg.inventory \in BOOLEAN
BY EmptyTypes DEF ConfigOnly, Content, Configs

LEMMA WrittenSteps ==
    ASSUME NEW t \in Threads, th[t] \in ThreadRecords
    PROVE  /\ Written(t) \in ThreadRecords
           /\ Written(t).cfg = th[t].cfg /\ Written(t).job = th[t].job
           /\ Written(t).stale = th[t].stale /\ Written(t).stage = th[t].stage
           /\ Written(t).unlinked = FALSE
           /\ th[t].file = "config" => Written(t).phase = "open" /\ Written(t).file = "tokens"
           /\ th[t].file = "tokens" => Written(t).phase = "open" /\ Written(t).file = "cache"
           /\ th[t].file = "cache" => Written(t).phase = "act" /\ Written(t).file = "config"
<1> DEFINE r == th[t]
           rest == {i \in 1 .. 2 : SaveOrder[i] = r.file}
           phase == IF rest = {} THEN "act" ELSE "open"
           file == IF rest = {} THEN "config" ELSE SaveOrder[Max(rest) + 1]
<1>1. SaveOrder[1] = "config" /\ SaveOrder[2] = "tokens" /\ SaveOrder[3] = "cache"
  BY DEF SaveOrder
<1>2. 1 .. 2 = {1, 2}
  OBVIOUS
<1>3. r.file = "config" => rest = {1} /\ phase = "open" /\ file = "tokens"
  BY <1>1, <1>2, Maximum
<1>4. r.file = "tokens" => rest = {2} /\ phase = "open" /\ file = "cache"
  BY <1>1, <1>2, Maximum
<1>5. r.file = "cache" => rest = {} /\ phase = "act" /\ file = "config"
  BY <1>1, <1>2
<1>6. Written(t) = [r EXCEPT !.unlinked = FALSE, !.phase = phase, !.file = file]
  BY DEF Written
<1>7. r.file \in Files
  BY DEF ThreadRecords
<1> HIDE DEF phase, file, rest
<1>8. phase \in {"act", "open"} /\ file \in Files
  BY <1>3, <1>4, <1>5, <1>7 DEF Files
<1> QED BY <1>3, <1>4, <1>5, <1>6, <1>8 DEF ThreadRecords

\* Loading and the commands keep a configuration a configuration.
LEMMA ConfigTypes ==
    ASSUME NEW cfg \in Configs
    PROVE  /\ \A stored \in [Hubs -> Nat] : WithTokens(cfg, stored) \in Configs
           /\ \A b \in BOOLEAN : [cfg EXCEPT !.inventory = b] \in Configs
           /\ \A f : \A n \in Nat : [cfg EXCEPT !.set[f] = n] \in Configs
           /\ \A h \in Hubs, n \in Nat : SetHub(cfg, h, n) \in Configs
<1>1. ASSUME NEW stored \in [Hubs -> Nat]
      PROVE  WithTokens(cfg, stored) \in Configs
  <2> DEFINE token == [h \in Hubs |-> IF stored[h] # 0 THEN stored[h] ELSE cfg.token[h]]
             blank == cfg.blank \cup {h \in Hubs : stored[h] # 0 /\ h \notin Known(cfg)}
  <2>1. token \in [Hubs -> Nat] /\ blank \in SUBSET Hubs
    BY DEF Configs
  <2>2. WithTokens(cfg, stored) = [cfg EXCEPT !.token = token, !.blank = blank]
    BY DEF WithTokens
  <2> HIDE DEF token, blank
  <2> QED BY <2>1, <2>2 DEF Configs
<1>2. \A b \in BOOLEAN : [cfg EXCEPT !.inventory = b] \in Configs
  BY DEF Configs
<1>3. ASSUME NEW f, NEW n \in Nat
      PROVE  [cfg EXCEPT !.set[f] = n] \in Configs
  <2>1. [cfg.set EXCEPT ![f] = n] \in [Fields -> Nat]
    BY DEF Configs
  <2> QED BY <2>1 DEF Configs
<1>4. ASSUME NEW h \in Hubs, NEW n \in Nat
      PROVE  SetHub(cfg, h, n) \in Configs
  <2>1. [cfg.token EXCEPT ![h] = n] \in [Hubs -> Nat]
    BY DEF Configs
  <2> QED BY <2>1 DEF SetHub, Configs
<1> QED BY <1>1, <1>2, <1>3, <1>4

-----------------------------------------------------------------------------
(* Type correctness.                                                       *)

LEMMA RecordTypes ==
    ASSUME NEW r \in ThreadRecords, NEW cfg \in Configs, NEW file \in Files,
           NEW phase \in {"idle", "load", "act", "open", "write"}
    PROVE  /\ r.phase \in {"idle", "load", "act", "open", "write"} /\ r.file \in Files
           /\ r.cfg \in Configs /\ r.job \in JobNames /\ r.stage \in 0 .. 2
           /\ r.stale \in SUBSET Files /\ r.unlinked \in BOOLEAN
           /\ [r EXCEPT !.phase = phase] \in ThreadRecords
           /\ [r EXCEPT !.phase = phase, !.cfg = cfg] \in ThreadRecords
           /\ [r EXCEPT !.file = file, !.cfg = cfg] \in ThreadRecords
           /\ \A s \in SUBSET Files : [r EXCEPT !.stale = s] \in ThreadRecords
           /\ \A b \in BOOLEAN : [r EXCEPT !.unlinked = b] \in ThreadRecords
           /\ [r EXCEPT !.stage = 1] \in ThreadRecords
           /\ \A j \in JobNames :
                [Idle EXCEPT !.phase = "load", !.job = j] \in ThreadRecords
<1>1. ASSUME NEW j \in JobNames
      PROVE  [Idle EXCEPT !.phase = "load", !.job = j] \in ThreadRecords
  BY EmptyTypes DEF ThreadRecords
<1>2. \A s \in SUBSET Files : [r EXCEPT !.stale = s] \in ThreadRecords
  BY DEF ThreadRecords
<1>3. /\ r.phase \in {"idle", "load", "act", "open", "write"} /\ r.file \in Files
      /\ r.cfg \in Configs /\ r.job \in JobNames /\ r.stage \in 0 .. 2
      /\ r.stale \in SUBSET Files /\ r.unlinked \in BOOLEAN
  BY DEF ThreadRecords
<1>4. \A b \in BOOLEAN : [r EXCEPT !.unlinked = b] \in ThreadRecords
  BY DEF ThreadRecords
<1>5. /\ [r EXCEPT !.phase = phase] \in ThreadRecords
      /\ [r EXCEPT !.stage = 1] \in ThreadRecords
  BY DEF ThreadRecords
<1>6. /\ [r EXCEPT !.phase = phase, !.cfg = cfg] \in ThreadRecords
      /\ [r EXCEPT !.file = file, !.cfg = cfg] \in ThreadRecords
  BY DEF ThreadRecords
<1> QED BY <1>1, <1>2, <1>3, <1>4, <1>5, <1>6

LEMMA SaveTypes ==
    ASSUME NEW t \in Threads, th[t] \in ThreadRecords, th[t].stage \in 0 .. 1,
           NEW cfg \in Configs
    PROVE  SaveOf(t, cfg) \in ThreadRecords
<1>1. SaveOrder[1] \in Files
  BY DEF SaveOrder, Files
<1>2. th[t].stage + 1 \in 0 .. 2
  OBVIOUS
<1> QED BY <1>1, <1>2 DEF SaveOf, ThreadRecords

LEMMA TouchTypes ==
    ASSUME NEW t \in Threads, th \in [Threads -> ThreadRecords], NEW f \in Files,
           NEW new \in ThreadRecords
    PROVE  Touch(t, f, new) \in [Threads -> ThreadRecords]
<1>1. ASSUME NEW u \in Threads
      PROVE  [th[u] EXCEPT !.stale = @ \cup {f}] \in ThreadRecords
  <2>1. th[u].stale \cup {f} \in SUBSET Files
    BY th[u] \in ThreadRecords DEF ThreadRecords
  <2> QED BY <2>1, th[u] \in ThreadRecords DEF ThreadRecords
<1> QED BY <1>1 DEF Touch

\* The threads are well formed, the files too.
ThreadsOK == th \in [Threads -> ThreadRecords]

DiskOK ==
    /\ disk = [f \in Files |-> [state |-> disk[f].state, data |-> disk[f].data]]
    /\ \A f \in Files : /\ disk[f].state \in {"absent", "ok", "empty", "garbled"}
                         /\ disk[f].state # "ok" => disk[f].data = EmptyConfig
    /\ disk["config"].data \in Configs
    /\ disk["tokens"].state = "ok" => disk["tokens"].data \in [Hubs -> Nat]
    /\ disk["cache"].state = "ok" => disk["cache"].data \in BOOLEAN

MishapsOK == mishap \subseteq {"torn", "stripped", "stale", "removed", "company"}

\* What f may hold.
Contents(f) == CASE f = "config" -> Configs
                 [] f = "tokens" -> [Hubs -> Nat]
                 [] f = "cache" -> BOOLEAN

LEMMA DiskTypes ==
    ASSUME DiskOK, NEW f \in Files
    PROVE  /\ disk' = [disk EXCEPT ![f] = Absent] => DiskOK'
           /\ disk' = [disk EXCEPT ![f] = Unreadable("empty")] => DiskOK'
           /\ disk' = [disk EXCEPT ![f] = Unreadable("garbled")] => DiskOK'
           /\ \A d \in Contents(f) : disk' = [disk EXCEPT ![f] = Intact(d)] => DiskOK'
<1>0. EmptyConfig \in Configs
  BY EmptyTypes
<1>1. ASSUME NEW s \in {"absent", "empty", "garbled"},
             disk' = [disk EXCEPT ![f] = [state |-> s, data |-> EmptyConfig]]
      PROVE  DiskOK'
  <2>1. disk'[f] = [state |-> s, data |-> EmptyConfig]
        /\ \A g \in Files \ {f} : disk'[g] = disk[g]
    BY <1>1 DEF DiskOK
  <2>2. disk' = [g \in Files |-> [state |-> disk'[g].state, data |-> disk'[g].data]]
    BY <1>1, <2>1 DEF DiskOK
  <2> QED BY <1>0, <2>1, <2>2 DEF DiskOK, Files
<1>2. ASSUME NEW d \in Contents(f), disk' = [disk EXCEPT ![f] = [state |-> "ok", data |-> d]]
      PROVE  DiskOK'
  <2>1. disk'[f] = [state |-> "ok", data |-> d]
        /\ \A g \in Files \ {f} : disk'[g] = disk[g]
    BY <1>2 DEF DiskOK
  <2>2. disk' = [g \in Files |-> [state |-> disk'[g].state, data |-> disk'[g].data]]
    BY <1>2, <2>1 DEF DiskOK
  <2>3. /\ f = "config" => d \in Configs
        /\ f = "tokens" => d \in [Hubs -> Nat]
        /\ f = "cache" => d \in BOOLEAN
    BY <1>2 DEF Contents
  <2> QED BY <1>0, <2>1, <2>2, <2>3 DEF DiskOK, Files
<1> QED BY <1>1, <1>2 DEF Absent, Unreadable, Intact

LEMMA TypesParted ==
    TypeOK <=> stamp \in Nat /\ newest \in Configs /\ MishapsOK /\ ThreadsOK /\ DiskOK
BY DEF TypeOK, MishapsOK, ThreadsOK, DiskOK

LEMMA EndTypes ==
    ASSUME ThreadsOK, MishapsOK
    PROVE  /\ \A t \in Threads : End(t) => ThreadsOK' /\ MishapsOK'
           /\ \A p \in Procs : Ended(p) \in [Threads -> ThreadRecords]
           /\ \A t \in Threads : Cut(t) \subseteq {"torn", "stripped"}
<1>1. \A p \in Procs : Ended(p) \in [Threads -> ThreadRecords]
  BY EmptyTypes DEF Ended, ThreadsOK
<1>2. \A t \in Threads : Cut(t) \subseteq {"torn", "stripped"}
  BY DEF Cut
<1>3. ASSUME NEW t \in Threads, End(t)
      PROVE  ThreadsOK' /\ MishapsOK'
  <2>1. t[1] \in Procs /\ <<t[1], "background">> \in Threads
    BY DEF Threads
  <2>2. CASE t[2] = "main"
    <3>1. th' = Ended(t[1]) /\ mishap' = mishap \cup Cut(<<t[1], "background">>)
      BY <1>3, <2>2 DEF End
    <3> QED BY <1>1, <1>2, <2>1, <3>1 DEF ThreadsOK, MishapsOK
  <2>3. CASE t[2] # "main"
    <3>1. th' = [th EXCEPT ![t] = Idle] /\ mishap' = mishap
      BY <1>3, <2>3 DEF End
    <3> QED BY <3>1, EmptyTypes DEF ThreadsOK, MishapsOK
  <2> QED BY <2>2, <2>3
<1> QED BY <1>1, <1>2, <1>3

LEMMA InitTypes == Init => TypeOK
<1> SUFFICES ASSUME Init PROVE TypeOK
  OBVIOUS
<1>1. \A h \in Hubs : /\ Paired(h) \in Configs
                      /\ Paired(h).token \in [Hubs -> Nat] /\ Paired(h).inventory \in BOOLEAN
  <2> SUFFICES ASSUME NEW h \in Hubs
               PROVE  Paired(h) \in Configs /\ Paired(h).token \in [Hubs -> Nat]
                      /\ Paired(h).inventory \in BOOLEAN
    OBVIOUS
  <2>1. [NoTokens EXCEPT ![h] = 1] \in [Hubs -> Nat]
    BY EmptyTypes
  <2> QED BY <2>1, EmptyTypes DEF Paired, Configs
<1>2. disk = Fresh => DiskOK
  BY EmptyTypes DEF Fresh, Absent, DiskOK, Files
<1>3. ASSUME NEW h \in Hubs, disk = FirstRelease(h)
      PROVE  DiskOK
  <2>1. /\ disk["config"] = Intact(Paired(h))
        /\ disk["tokens"] = Absent /\ disk["cache"] = Absent
        /\ disk = [f \in Files |-> disk[f]]
    BY <1>3 DEF FirstRelease, Fresh, Files
  <2>2. \A f \in Files : disk[f] = [state |-> disk[f].state, data |-> disk[f].data]
    BY <2>1 DEF Files, Absent, Intact
  <2>3. disk = [f \in Files |-> [state |-> disk[f].state, data |-> disk[f].data]]
    BY <2>1, <2>2
  <2> QED BY <1>1, <2>1, <2>3 DEF DiskOK, Files, Absent, Intact
<1>4. ASSUME NEW h \in Hubs, disk = Today(h)
      PROVE  DiskOK
  <2>1. \A f \in Files : disk[f] = [state |-> "ok", data |-> Content(Paired(h), f)]
    BY <1>4 DEF Today, Intact
  <2>2. disk = [f \in Files |-> [state |-> disk[f].state, data |-> disk[f].data]]
    BY <1>4, <2>1 DEF Today, Intact
  <2> QED BY <1>1, <2>1, <2>2, ContentTypes DEF DiskOK, Files
<1>5. th \in [Threads -> ThreadRecords] /\ stamp \in Nat /\ mishap = {}
  BY EmptyTypes DEF Init
<1>6. newest \in Configs
  BY <1>1, EmptyTypes DEF Init
<1>7. DiskOK
  BY <1>2, <1>3, <1>4 DEF Init
<1> QED BY <1>5, <1>6, <1>7, TypesParted DEF ThreadsOK, MishapsOK

LEMMA NewestTypes ==
    ASSUME newest \in Configs, NEW t \in Threads, th[t] \in ThreadRecords, NEW f \in Files
    PROVE  Newest(t, f) \in Configs
<1>1. /\ newest.set \in [Fields -> Nat] /\ newest.token \in [Hubs -> Nat]
      /\ th[t].cfg.set \in [Fields -> Nat] /\ th[t].cfg.token \in [Hubs -> Nat]
  BY DEF ThreadRecords, Configs
<1>2. /\ Later(newest.set, th[t].cfg.set) \in [Fields -> Nat]
      /\ Later(newest.token, th[t].cfg.token) \in [Hubs -> Nat]
  BY <1>1, LaterTypes
<1>3. CASE f = "config"
  BY <1>2, <1>3 DEF Newest, Configs
<1>4. CASE f = "tokens"
  BY <1>2, <1>4 DEF Newest, Configs
<1>5. CASE f = "cache"
  BY <1>5 DEF Newest
<1> QED BY <1>3, <1>4, <1>5 DEF Files

\* Every command keeps th[t] a thread.
LEMMA LoadTypes ==
    ASSUME TypeOK, NEW t \in Threads, Load(t)
    PROVE  TypeOK'
<1>0. /\ stamp \in Nat /\ newest \in Configs /\ MishapsOK /\ ThreadsOK /\ DiskOK
      /\ th[t] \in ThreadRecords
  BY TypesParted DEF ThreadsOK
<1>1. ASSUME NEW new \in ThreadRecords, Step(t, new)
      PROVE  TypeOK'
  <2>1. ThreadsOK'
    BY <1>0, <1>1 DEF ThreadsOK, Step
  <2> QED BY <1>0, <1>1, <2>1 DEF TypeOK, ThreadsOK, Step
<1>2. EmptyConfig \in Configs /\ disk["config"].data \in Configs /\ NoTokens \in [Hubs -> Nat]
  BY <1>0, EmptyTypes DEF DiskOK
<1>3. CASE ReadNoConfig(t)
  <2>1. [th[t] EXCEPT !.phase = "act", !.cfg = EmptyConfig] \in ThreadRecords
    BY <1>0, <1>2 DEF ThreadRecords
  <2> QED BY <1>1, <1>3, <2>1 DEF ReadNoConfig
<1>4. CASE ReadConfig(t)
  <2>1. "tokens" \in Files
    BY DEF Files
  <2> QED BY <1>0, <1>1, <1>2, <1>4, <2>1, RecordTypes DEF ReadConfig, FromConfigFile
<1>5. CASE ReadTokens(t)
  <2> DEFINE stored == IF disk["tokens"].state = "ok" THEN disk["tokens"].data ELSE NoTokens
             cfg == WithTokens(th[t].cfg, stored)
  <2>1. "cache" \in Files /\ th[t].cfg \in Configs
    BY <1>0 DEF Files, ThreadRecords
  <2>2. stored \in [Hubs -> Nat]
    BY <1>0, <1>2 DEF DiskOK
  <2>3. cfg \in Configs
    BY <2>1, <2>2, ConfigTypes
  <2>4. Step(t, [th[t] EXCEPT !.file = "cache", !.cfg = cfg])
    BY <1>5 DEF ReadTokens
  <2> HIDE DEF cfg
  <2> QED BY <1>0, <1>1, <2>1, <2>3, <2>4, RecordTypes
<1>6. CASE SweepCache(t)
  <2>1. ASSUME NEW u \in Threads
        PROVE  [th[u] EXCEPT !.unlinked = @ \/ In(u, "write", "cache")] \in ThreadRecords
    <3>1. th[u] \in ThreadRecords
      BY <1>0 DEF ThreadsOK
    <3>2. (th[u].unlinked \/ In(u, "write", "cache")) \in BOOLEAN
      OBVIOUS
    <3> QED BY <3>1, <3>2 DEF ThreadRecords
  <2>2. [th[t] EXCEPT !.phase = "act"] \in ThreadRecords
    BY <1>0 DEF ThreadRecords
  <2>3. ThreadsOK'
    BY <1>6, <2>1, <2>2 DEF SweepCache, ThreadsOK
  <2>4. disk' = [disk EXCEPT !["cache"] = Absent]
    BY <1>6 DEF SweepCache
  <2>5. DiskOK'
    BY <1>0, <2>4, DiskTypes, "cache" \in Files DEF Files
  <2> QED BY <1>0, <1>6, <2>3, <2>5, TypesParted DEF TypeOK, ThreadsOK, DiskOK, SweepCache
<1>7. CASE ReadCache(t)
  <2> DEFINE found == IF disk["cache"].state = "ok" THEN disk["cache"].data
                      ELSE th[t].cfg.inventory
  <2>1. th[t].cfg \in Configs
    BY <1>0 DEF ThreadRecords
  <2>2. found \in BOOLEAN
    BY <1>0, <2>1 DEF DiskOK, Configs
  <2>3. Step(t, [th[t] EXCEPT !.phase = "act", !.cfg.inventory = found])
    BY <1>7 DEF ReadCache
  <2> HIDE DEF found
  <2>4. [th[t].cfg EXCEPT !.inventory = found] \in Configs
    BY <2>1, <2>2, ConfigTypes
  <2>5. [th[t] EXCEPT !.phase = "act", !.cfg.inventory = found]
          = [th[t] EXCEPT !.phase = "act", !.cfg = [th[t].cfg EXCEPT !.inventory = found]]
    BY <1>0 DEF ThreadRecords
  <2> DEFINE cfg == [th[t].cfg EXCEPT !.inventory = found]
  <2> HIDE DEF cfg
  <2>6. [th[t] EXCEPT !.phase = "act", !.cfg = cfg] \in ThreadRecords
    <3>1. cfg \in Configs
      BY <2>4 DEF cfg
    <3> QED BY <1>0, <3>1 DEF ThreadRecords
  <2> QED BY <1>1, <2>3, <2>5, <2>6 DEF cfg
<1>8. CASE LoadFails(t)
  <2>1. End(t) /\ UNCHANGED <<disk, newer, stamp, newest, bounds>>
    BY <1>8 DEF LoadFails, Stop
  <2> QED BY <1>0, <2>1, EndTypes DEF TypeOK, ThreadsOK, MishapsOK
<1> QED BY <1>3, <1>4, <1>5, <1>6, <1>7, <1>8 DEF Load

LEMMA ActTypes ==
    ASSUME TypeOK, NEW t \in Threads, Act(t)
    PROVE  TypeOK'
<1>0. /\ stamp \in Nat /\ newest \in Configs /\ MishapsOK /\ ThreadsOK /\ DiskOK
      /\ th[t] \in ThreadRecords /\ th[t].cfg \in Configs
  BY TypesParted DEF ThreadsOK, ThreadRecords
<1>1. ASSUME NEW cfg \in Configs, th[t].stage \in 0 .. 1,
             th' = [th EXCEPT ![t] = SaveOf(t, cfg)], stamp' \in Nat,
             UNCHANGED <<disk, newest, mishap>>
      PROVE  TypeOK'
  <2>1. SaveOf(t, cfg) \in ThreadRecords
    BY <1>0, <1>1, SaveTypes
  <2> HIDE DEF SaveOf
  <2> QED BY <1>0, <1>1, <2>1 DEF TypeOK, ThreadsOK
<1>2. ASSUME NEW f \in Fields, SetValue(t, f)
      PROVE  TypeOK'
  <2>1. /\ stamp' \in Nat /\ th[t].stage \in 0 .. 1
        /\ th' = [th EXCEPT ![t] = SaveOf(t, [th[t].cfg EXCEPT !.set[f] = stamp'])]
        /\ UNCHANGED <<disk, newest, mishap>>
    BY <1>0, <1>2 DEF SetValue, Ready
  <2>2. [th[t].cfg EXCEPT !.set[f] = stamp'] \in Configs
    BY <1>0, <2>1, ConfigTypes
  <2> QED BY <1>1, <2>1, <2>2
<1>3. CASE EditDevice(t)
  <2>1. /\ stamp' \in Nat /\ th[t].stage \in 0 .. 1
        /\ th' = [th EXCEPT ![t] = SaveOf(t, [th[t].cfg EXCEPT !.set["dukaone"] = stamp'])]
        /\ UNCHANGED <<disk, newest, mishap>>
    BY <1>0, <1>3 DEF EditDevice, Ready
  <2>2. [th[t].cfg EXCEPT !.set["dukaone"] = stamp'] \in Configs
    BY <1>0, <2>1, ConfigTypes
  <2> QED BY <1>1, <2>1, <2>2
<1>4. ASSUME NEW h \in Hubs, Pair(t, h)
      PROVE  TypeOK'
  <2>1. /\ stamp' \in Nat /\ th[t].stage \in 0 .. 1
        /\ th' = [th EXCEPT ![t] = SaveOf(t, SetHub(th[t].cfg, h, stamp'))]
        /\ UNCHANGED <<disk, newest, mishap>>
    BY <1>0, <1>4 DEF Pair, Ready
  <2>2. SetHub(th[t].cfg, h, stamp') \in Configs
    BY <1>0, <2>1, ConfigTypes
  <2> QED BY <1>1, <2>1, <2>2
<1>5. CASE RefreshInventory(t)
  <2>1. [th[t].cfg EXCEPT !.inventory = TRUE] \in Configs
    BY <1>0, ConfigTypes
  <2>2. th[t].stage \in 0 .. 1
    BY <1>5 DEF RefreshInventory, WantsInventory, Ready
  <2> QED BY <1>0, <1>1, <1>5, <2>1, <2>2 DEF RefreshInventory, Step
<1>6. CASE PersistSpeakers(t)
  <2>1. th[t].stage \in 0 .. 1
    BY <1>6 DEF PersistSpeakers, Ready
  <2> QED BY <1>0, <1>1, <1>6, <2>1 DEF PersistSpeakers, Step
<1>7. CASE AskFromCache(t)
  <2>1. [th[t] EXCEPT !.stage = 1] \in ThreadRecords
    BY <1>0 DEF ThreadRecords
  <2>2. [Idle EXCEPT !.phase = "load", !.job = "refresh"] \in ThreadRecords
    BY EmptyTypes DEF ThreadRecords, JobNames
  <2>3. ThreadsOK'
    BY <1>0, <1>7, <2>1, <2>2 DEF AskFromCache, ThreadsOK
  <2> QED BY <1>0, <1>7, <2>3 DEF AskFromCache, TypeOK, ThreadsOK
<1>8. CASE Done(t)
  <2>1. End(t) /\ UNCHANGED <<disk, newer, stamp, newest, bounds>>
    BY <1>8 DEF Done, Stop
  <2> QED BY <1>0, <2>1, EndTypes DEF TypeOK, ThreadsOK, MishapsOK
<1> QED BY <1>2, <1>3, <1>4, <1>5, <1>6, <1>7, <1>8 DEF Act

LEMMA SaveTypesKept ==
    ASSUME TypeOK, NEW t \in Threads, Save(t)
    PROVE  TypeOK'
<1>0. /\ stamp \in Nat /\ newest \in Configs /\ MishapsOK /\ ThreadsOK /\ DiskOK
      /\ th[t] \in ThreadRecords /\ th[t].cfg \in Configs /\ th[t].file \in Files
  BY TypesParted DEF ThreadsOK, ThreadRecords
<1>1. Opened(t) \in ThreadRecords /\ Written(t) \in ThreadRecords
  BY <1>0, WrittenSteps DEF Opened, ThreadRecords
<1>2. Content(th[t].cfg, th[t].file) \in Contents(th[t].file)
  BY <1>0, ContentTypes DEF Contents, Files
<1>3. Newest(t, th[t].file) \in Configs
  BY <1>0, NewestTypes
<1>4. CASE Open(t)
  <2>1. /\ th' = Touch(t, th[t].file, Opened(t))
        /\ disk' = [disk EXCEPT ![th[t].file] = Unreadable("empty")]
        /\ UNCHANGED <<newer, stamp, newest, mishap, bounds>>
    BY <1>4 DEF Open
  <2>2. ThreadsOK'
    BY <1>0, <1>1, <2>1, TouchTypes DEF ThreadsOK
  <2>3. DiskOK'
    BY <1>0, <2>1, DiskTypes
  <2> QED BY <1>0, <2>1, <2>2, <2>3 DEF TypeOK, ThreadsOK, DiskOK
<1>5. CASE Write(t)
  <2>1. PICK garbled \in BOOLEAN :
          LET f == th[t].file
              file == Result(f, Content(th[t].cfg, f), garbled)
          IN
            /\ disk' = [disk EXCEPT ![f] = file]
            /\ newest' = IF file.state = "ok" THEN Newest(t, f) ELSE newest
            /\ newer' = (newer /\ f # "cache")
            /\ th' = Touch(t, f, Written(t))
            /\ mishap' = mishap \cup (IF f \in th[t].stale THEN {"stale"} ELSE {})
    BY <1>5 DEF Write
  <2>2. ThreadsOK'
    BY <1>0, <1>1, <2>1, TouchTypes DEF ThreadsOK
  <2>3. DiskOK'
    BY <1>0, <1>2, <2>1, DiskTypes DEF Result
  <2>4. stamp' = stamp
    BY <1>5 DEF Write
  <2>5. newest' \in Configs
    BY <1>0, <1>3, <2>1
  <2>6. MishapsOK'
    BY <1>0, <2>1 DEF MishapsOK
  <2> QED BY <1>0, <2>2, <2>3, <2>4, <2>5, <2>6 DEF TypeOK, ThreadsOK, DiskOK, MishapsOK
<1>6. CASE WriteUnlinked(t)
  <2>1. ThreadsOK'
    BY <1>0, <1>1, <1>6 DEF WriteUnlinked, Step, ThreadsOK
  <2> QED BY <1>0, <1>6, <2>1 DEF WriteUnlinked, Step, TypeOK, ThreadsOK
<1> QED BY <1>4, <1>5, <1>6 DEF Save

LEMMA TypesKept == TypeOK /\ [Next]_vars => TypeOK'
<1> SUFFICES ASSUME TypeOK, [Next]_vars PROVE TypeOK'
  OBVIOUS
<1>0. /\ stamp \in Nat /\ newest \in Configs /\ MishapsOK /\ ThreadsOK /\ DiskOK
  BY TypesParted
<1>1. ASSUME NEW p \in Procs, NEW job \in Jobs[p], Begin(p, job)
      PROVE  TypeOK'
  <2>1. job \in JobNames /\ <<p, "main">> \in Threads
    BY JobsAssumption DEF Threads
  <2>2. [Idle EXCEPT !.phase = "load", !.job = job] \in ThreadRecords
    BY <2>1, EmptyTypes DEF ThreadRecords
  <2>3. ThreadsOK'
    BY <1>0, <1>1, <2>1, <2>2 DEF Begin, ThreadsOK
  <2> QED BY <1>0, <1>1, <2>3 DEF Begin, TypeOK, ThreadsOK
<1>2. ASSUME NEW p \in Procs, Kill(p)
      PROVE  TypeOK'
  <2>1. <<p, "main">> \in Threads /\ <<p, "background">> \in Threads
    BY DEF Threads
  <2>2. ThreadsOK' /\ MishapsOK'
    BY <1>0, <1>2, <2>1, EndTypes DEF Kill, ThreadsOK, MishapsOK
  <2> QED BY <1>0, <1>2, <2>2 DEF Kill, TypeOK, ThreadsOK, MishapsOK
<1>3. ASSUME NEW f \in Files, RemoveDamaged(f)
      PROVE  TypeOK'
  <2>1. DiskOK'
    BY <1>0, <1>3, DiskTypes DEF RemoveDamaged
  <2> QED BY <1>0, <1>3, <2>1 DEF RemoveDamaged, TypeOK, DiskOK
<1>4. CASE Rebuild
  BY <1>0, <1>4 DEF Rebuild, TypeOK
<1>5. CASE UNCHANGED vars
  BY <1>0, <1>5 DEF vars, TypeOK
<1> QED BY <1>1, <1>2, <1>3, <1>4, <1>5, LoadTypes, ActTypes, SaveTypesKept DEF Next

\* The files and the threads that read and write them have their shapes.
THEOREM TypeCorrect == Spec => []TypeOK
BY InitTypes, TypesKept, PTL DEF Spec

-----------------------------------------------------------------------------
(* The structure of the threads: the refresh in the background of an ask   *)
(* lives no longer than the ask, and only a save of cache.json has its     *)
(* file unlinked.                                                          *)

Backed ==
    \A p \in Procs :
        th[<<p, "background">>].phase # "idle" =>
            /\ th[<<p, "background">>].job = "refresh"
            /\ th[<<p, "main">>].phase # "idle"
            /\ th[<<p, "main">>].job = "ask"
            /\ th[<<p, "main">>].stage # 0

Unlinked == \A t \in Threads : th[t].unlinked => In(t, "write", "cache")

Structure == Backed /\ Unlinked

\* What a step does to a thread it is not about.
Alike(u) ==
    /\ th'[u].phase = th[u].phase /\ th'[u].file = th[u].file
    /\ th'[u].cfg = th[u].cfg /\ th'[u].job = th[u].job

Same(u) == Alike(u) /\ th'[u].stale = th[u].stale

Marked(u, f) ==
    /\ Alike(u)
    /\ th'[u].stale = IF HasRead(u, f) THEN th[u].stale \cup {f} ELSE th[u].stale

Still == disk'["config"] = disk["config"] /\ disk'["tokens"] = disk["tokens"]
         /\ newest' = newest /\ stamp' = stamp

Others(t) == \A u \in Threads \ {t} : Same(u)

\* A thread takes up a job of its own, or the refresh of an ask.
Begins(t) ==
    /\ Still /\ Others(t)
    /\ th[t].phase = "idle"
    /\ th'[t].phase = "load" /\ th'[t].file = "config"
    /\ th'[t].cfg = EmptyConfig /\ th'[t].stale = {}
    /\ mishap' = mishap \/ mishap' = mishap \cup {"company"}
    /\ \/ t[2] = "main" /\ (Quiet \/ "company" \in mishap')
       \/ t[2] = "background" /\ th'[t].job = "refresh"

\* The steps of Load that have a config.json or tokens.json to look at.
ReadsNone(t) ==
    /\ Still /\ Others(t) /\ mishap' = mishap
    /\ In(t, "load", "config") /\ disk["config"].state = "absent"
    /\ th'[t].phase = "act" /\ th'[t].cfg = EmptyConfig
    /\ th'[t].stale = th[t].stale /\ th'[t].job = th[t].job

ReadsConfig(t) ==
    /\ Still /\ Others(t) /\ mishap' = mishap
    /\ In(t, "load", "config") /\ disk["config"].state = "ok"
    /\ th'[t].phase = "load" /\ th'[t].file = "tokens"
    /\ th'[t].cfg = disk["config"].data
    /\ th'[t].stale = th[t].stale /\ th'[t].job = th[t].job

Stored == IF disk["tokens"].state = "ok" THEN disk["tokens"].data ELSE NoTokens

ReadsTokens(t) ==
    /\ Still /\ Others(t) /\ mishap' = mishap
    /\ In(t, "load", "tokens") /\ ~Damaged("tokens")
    /\ th'[t].phase = "load" /\ th'[t].file = "cache"
    /\ th'[t].cfg = WithTokens(th[t].cfg, Stored)
    /\ th'[t].stale = th[t].stale /\ th'[t].job = th[t].job

\* With config.json and tokens.json read and before they are written.
AtCommand(t) ==
    \/ th[t].phase = "act"
    \/ In(t, "load", "cache")
    \/ In(t, "write", "cache")

\* The command keeps, sets or pairs.
Keeps(t) ==
    /\ th'[t].cfg.set = th[t].cfg.set /\ th'[t].cfg.token = th[t].cfg.token
    /\ th'[t].cfg.named = th[t].cfg.named /\ th'[t].cfg.blank = th[t].cfg.blank
    /\ stamp' = stamp

WithValue(cfg, f, n) == [cfg EXCEPT !.set[f] = n]

Sets(t) ==
    /\ th[t].job \in {"set", "device"}
    /\ stamp' = stamp + 1
    /\ \E f : th'[t].cfg = WithValue(th[t].cfg, f, stamp + 1)

Pairs(t) ==
    /\ stamp' = stamp + 1
    /\ \E h \in Hubs : th'[t].cfg = SetHub(th[t].cfg, h, stamp + 1)

Works(t) ==
    /\ disk'["config"] = disk["config"] /\ disk'["tokens"] = disk["tokens"]
    /\ newest' = newest /\ mishap' = mishap /\ Others(t)
    /\ AtCommand(t)
    /\ th'[t].phase = "act" \/ (th'[t].phase = "open" /\ th'[t].file = "config")
    /\ th'[t].stale = th[t].stale /\ th'[t].job = th[t].job
    /\ Keeps(t) \/ Sets(t) \/ Pairs(t)

\* Threads end; one in the middle of its save leaves a mark.
Ends ==
    /\ Still
    /\ mishap \subseteq mishap'
    /\ \A u \in Threads :
          \/ Same(u)
          \/ /\ th'[u] = Idle
             /\ th[u].phase = "write" => "torn" \in mishap'
             /\ In(u, "open", "tokens") /\ (\E h \in Hubs : StoredToken(h) # newest.token[h])
                => "stripped" \in mishap'

\* Save.
Opens(t, f) ==
    /\ In(t, "open", f)
    /\ disk' = [disk EXCEPT ![f] = Unreadable("empty")]
    /\ newest' = newest /\ stamp' = stamp /\ mishap' = mishap
    /\ th'[t].phase = "write" /\ th'[t].file = f /\ th'[t].cfg = th[t].cfg
    /\ th'[t].stale = th[t].stale /\ th'[t].job = th[t].job
    /\ \A u \in Threads \ {t} : Marked(u, f)

WritesOver(t, f, garbled) ==
    LET file == Result(f, Content(th[t].cfg, f), garbled)
    IN /\ disk' = [disk EXCEPT ![f] = file]
       /\ newest' = IF file.state = "ok" THEN Newest(t, f) ELSE newest

Writes(t, f) ==
    /\ In(t, "write", f) /\ ~th[t].unlinked
    /\ \E garbled \in BOOLEAN : WritesOver(t, f, garbled)
    /\ stamp' = stamp
    /\ mishap' = mishap \cup (IF f \in th[t].stale THEN {"stale"} ELSE {})
    /\ f = "config" => th'[t].phase = "open" /\ th'[t].file = "tokens"
    /\ f = "tokens" => th'[t].phase = "open" /\ th'[t].file = "cache"
    /\ f = "cache" => th'[t].phase = "act" /\ th'[t].file = "config"
    /\ th'[t].cfg = th[t].cfg
    /\ th'[t].stale = th[t].stale /\ th'[t].job = th[t].job
    /\ \A u \in Threads \ {t} : Marked(u, f)

Removes ==
    /\ Quiet
    /\ "removed" \in mishap' /\ mishap \subseteq mishap'
    /\ newest' = newest /\ stamp' = stamp
    /\ \E f \in Files : Damaged(f) /\ disk' = [disk EXCEPT ![f] = Absent]
    /\ \A u \in Threads : Same(u)

Rests == Still /\ mishap' = mishap /\ \A u \in Threads : Same(u)

\* Every step of the program is one of these.
Kinds ==
    \/ \E t \in Threads : \/ Begins(t) \/ ReadsNone(t) \/ ReadsConfig(t)
                          \/ ReadsTokens(t) \/ Works(t)
    \/ \E t \in Threads, f \in Files : Opens(t, f) \/ Writes(t, f)
    \/ Ends
    \/ Removes
    \/ Rests

LEMMA EndKinds ==
    ASSUME TypeOK, NEW p \in Procs, th' = Ended(p), Still, mishap \subseteq mishap',
           Cut(<<p, "background">>) \subseteq mishap',
           \/ Cut(<<p, "main">>) \subseteq mishap'
           \/ th[<<p, "main">>].phase \in {"load", "act"}
    PROVE  Ends
<1> SUFFICES ASSUME NEW u \in Threads, ~Same(u)
             PROVE  /\ th'[u] = Idle
                    /\ th[u].phase = "write" => "torn" \in mishap'
                    /\ In(u, "open", "tokens")
                         /\ (\E h \in Hubs : StoredToken(h) # newest.token[h])
                       => "stripped" \in mishap'
  BY DEF Ends
<1>1. th'[u] = IF u[1] = p THEN Idle ELSE th[u]
  BY DEF Ended
<1>2. u[1] = p /\ th'[u] = Idle
  BY <1>1 DEF Same, Alike
<1>3. u = <<p, "main">> \/ u = <<p, "background">>
  BY <1>2 DEF Threads
<1>4. Cut(u) \subseteq mishap' \/ th[u].phase \in {"load", "act"}
  BY <1>3
<1> QED BY <1>2, <1>4 DEF Cut, In

LEMMA StopKinds ==
    ASSUME TypeOK, NEW t \in Threads, Stop(t), th[t].phase \in {"load", "act"}
    PROVE  Ends
<1>0. ThreadsOK /\ DiskOK /\ th[t] \in ThreadRecords
  BY TypesParted DEF ThreadsOK
<1>1. Still
  BY DEF Stop, Still
<1>2. CASE t[2] = "main"
  <2>1. t = <<t[1], "main">> /\ t[1] \in Procs
    BY <1>2 DEF Threads
  <2> QED BY <1>1, <1>2, <2>1, EndKinds DEF Stop, End
<1>3. CASE t[2] # "main"
  <2>1. th' = [th EXCEPT ![t] = Idle] /\ mishap' = mishap
    BY <1>3 DEF Stop, End
  <2> QED BY <1>0, <1>1, <2>1 DEF Ends, Same, Alike, ThreadsOK, In
<1> QED BY <1>2, <1>3

LEMMA LoadKinds ==
    ASSUME TypeOK, Structure, NEW t \in Threads, Load(t)
    PROVE  Kinds
<1>0. ThreadsOK /\ DiskOK /\ th[t] \in ThreadRecords
  BY TypesParted DEF ThreadsOK
<1>1. ASSUME NEW new \in ThreadRecords, th' = [th EXCEPT ![t] = new]
      PROVE  th'[t] = new /\ Others(t)
  BY <1>0, <1>1 DEF ThreadsOK, Others, Same, Alike
<1>2. ASSUME NEW new, Step(t, new)
      PROVE  th'[t] = new /\ Others(t) /\ Still /\ mishap' = mishap
  BY <1>0, <1>2 DEF ThreadsOK, Others, Same, Alike, Step, Still
<1>3. CASE ReadNoConfig(t)
  <2> DEFINE new == [th[t] EXCEPT !.phase = "act", !.cfg = EmptyConfig]
  <2>1. Step(t, new)
    BY <1>3 DEF ReadNoConfig
  <2>2. new.phase = "act" /\ new.cfg = EmptyConfig /\ new.stale = th[t].stale
        /\ new.job = th[t].job
    BY <1>0 DEF ThreadRecords
  <2> HIDE DEF new
  <2>3. ReadsNone(t)
    BY <1>2, <1>3, <2>1, <2>2 DEF ReadNoConfig, ReadsNone
  <2> QED BY <2>3 DEF Kinds
<1>4. CASE ReadConfig(t)
  <2> DEFINE new == [th[t] EXCEPT !.file = "tokens", !.cfg = disk["config"].data]
  <2>1. Step(t, new)
    BY <1>4 DEF ReadConfig, FromConfigFile
  <2>2. new.phase = th[t].phase /\ new.file = "tokens" /\ new.cfg = disk["config"].data
        /\ new.stale = th[t].stale /\ new.job = th[t].job
    BY <1>0 DEF ThreadRecords
  <2> HIDE DEF new
  <2>3. ReadsConfig(t)
    BY <1>2, <1>4, <2>1, <2>2 DEF ReadConfig, ReadsConfig, In
  <2> QED BY <2>3 DEF Kinds
<1>5. CASE ReadTokens(t)
  <2> DEFINE new == [th[t] EXCEPT !.file = "cache", !.cfg = WithTokens(th[t].cfg, Stored)]
  <2>1. Step(t, new)
    BY <1>5 DEF ReadTokens, Stored
  <2>2. new.phase = th[t].phase /\ new.file = "cache"
        /\ new.cfg = WithTokens(th[t].cfg, Stored)
        /\ new.stale = th[t].stale /\ new.job = th[t].job
    BY <1>0 DEF ThreadRecords
  <2> HIDE DEF new
  <2>3. ReadsTokens(t)
    BY <1>2, <1>5, <2>1, <2>2 DEF ReadTokens, ReadsTokens, In
  <2> QED BY <2>3 DEF Kinds
<1>6. CASE SweepCache(t)
  <2> DEFINE new == [th[t] EXCEPT !.phase = "act"]
  <2>1. th'[t] = new
    BY <1>6 DEF SweepCache
  <2>2. new.phase = "act" /\ new.cfg = th[t].cfg /\ new.stale = th[t].stale
        /\ new.job = th[t].job
    BY <1>0 DEF ThreadRecords
  <2>3. Others(t)
    <3> SUFFICES ASSUME NEW u \in Threads \ {t}
                 PROVE  Same(u)
      BY DEF Others
    <3>1. th'[u] = [th[u] EXCEPT !.unlinked = @ \/ In(u, "write", "cache")]
      BY <1>6 DEF SweepCache
    <3>2. th[u] \in ThreadRecords
      BY <1>0 DEF ThreadsOK
    <3> QED BY <3>1, <3>2 DEF Same, Alike, ThreadRecords
  <2>4. Still /\ mishap' = mishap
    BY <1>0, <1>6 DEF SweepCache, Still, DiskOK, Files
  <2> HIDE DEF new
  <2>5. Works(t)
    BY <1>6, <2>1, <2>2, <2>3, <2>4 DEF SweepCache, Still, Works, AtCommand, Keeps
  <2> QED BY <2>5 DEF Kinds
<1>7. CASE ReadCache(t)
  <2> DEFINE found == IF disk["cache"].state = "ok" THEN disk["cache"].data
                      ELSE th[t].cfg.inventory
             new == [th[t] EXCEPT !.phase = "act", !.cfg.inventory = found]
  <2>1. Step(t, new)
    BY <1>7 DEF ReadCache
  <2> HIDE DEF found
  <2>2. new.phase = "act" /\ new.stale = th[t].stale /\ new.job = th[t].job
        /\ new.cfg.set = th[t].cfg.set /\ new.cfg.token = th[t].cfg.token
        /\ new.cfg.named = th[t].cfg.named /\ new.cfg.blank = th[t].cfg.blank
    BY <1>0 DEF ThreadRecords, Configs
  <2> HIDE DEF new
  <2>3. Works(t)
    BY <1>2, <1>7, <2>1, <2>2 DEF ReadCache, Still, Works, AtCommand, Keeps
  <2> QED BY <2>3 DEF Kinds
<1>8. CASE LoadFails(t)
  <2>1. Stop(t) /\ th[t].phase = "load"
    BY <1>8 DEF LoadFails
  <2> QED BY <2>1, StopKinds DEF Kinds
<1> QED BY <1>3, <1>4, <1>5, <1>6, <1>7, <1>8 DEF Load

LEMMA ActKinds ==
    ASSUME TypeOK, Structure, NEW t \in Threads, Act(t)
    PROVE  Kinds
<1>0. ThreadsOK /\ DiskOK /\ th[t] \in ThreadRecords /\ th[t].cfg \in Configs
  BY TypesParted DEF ThreadsOK, ThreadRecords
<1>1. ASSUME NEW cfg, th' = [th EXCEPT ![t] = SaveOf(t, cfg)]
      PROVE  /\ th'[t].cfg = cfg /\ th'[t].phase = "open" /\ th'[t].file = "config"
             /\ th'[t].stale = th[t].stale /\ th'[t].job = th[t].job
             /\ Others(t)
  <2>1. th'[t] = SaveOf(t, cfg) /\ Others(t)
    BY <1>0, <1>1 DEF ThreadsOK, Others, Same, Alike
  <2>2. SaveOrder[1] = "config"
    BY DEF SaveOrder
  <2> QED BY <1>0, <2>1, <2>2 DEF SaveOf, ThreadRecords
<1>2. ASSUME NEW f \in Fields, SetValue(t, f)
      PROVE  Kinds
  <2> DEFINE cfg == [th[t].cfg EXCEPT !.set[f] = stamp']
  <2>1. /\ th[t].phase = "act" /\ th[t].job = "set" /\ stamp' = stamp + 1
        /\ th' = [th EXCEPT ![t] = SaveOf(t, cfg)]
        /\ UNCHANGED <<disk, newest, mishap>>
    BY <1>2 DEF SetValue, Ready
  <2>2. cfg = WithValue(th[t].cfg, f, stamp + 1)
    BY <2>1 DEF WithValue
  <2> HIDE DEF cfg
  <2>3. Sets(t)
    BY <1>1, <2>1, <2>2 DEF Sets
  <2>4. Works(t)
    BY <1>1, <2>1, <2>3 DEF Works, AtCommand
  <2> QED BY <2>4 DEF Kinds
<1>3. CASE EditDevice(t)
  <2> DEFINE cfg == [th[t].cfg EXCEPT !.set["dukaone"] = stamp']
  <2>1. /\ th[t].phase = "act" /\ th[t].job = "device" /\ stamp' = stamp + 1
        /\ th' = [th EXCEPT ![t] = SaveOf(t, cfg)]
        /\ UNCHANGED <<disk, newest, mishap>>
    BY <1>3 DEF EditDevice, Ready
  <2>2. cfg = WithValue(th[t].cfg, "dukaone", stamp + 1)
    BY <2>1 DEF WithValue
  <2> HIDE DEF cfg
  <2>3. Sets(t)
    BY <1>1, <2>1, <2>2 DEF Sets
  <2>4. Works(t)
    BY <1>1, <2>1, <2>3 DEF Works, AtCommand
  <2> QED BY <2>4 DEF Kinds
<1>4. ASSUME NEW h \in Hubs, Pair(t, h)
      PROVE  Kinds
  <2> DEFINE cfg == SetHub(th[t].cfg, h, stamp')
  <2>1. /\ th[t].phase = "act" /\ stamp' = stamp + 1
        /\ th' = [th EXCEPT ![t] = SaveOf(t, cfg)]
        /\ UNCHANGED <<disk, newest, mishap>>
    BY <1>4 DEF Pair, Ready
  <2>2. cfg = SetHub(th[t].cfg, h, stamp + 1)
    BY <2>1
  <2> HIDE DEF cfg
  <2>3. Pairs(t)
    BY <1>1, <2>1, <2>2 DEF Pairs
  <2>4. Works(t)
    BY <1>1, <2>1, <2>3 DEF Works, AtCommand
  <2> QED BY <2>4 DEF Kinds
<1>5. CASE RefreshInventory(t)
  <2> DEFINE cfg == [th[t].cfg EXCEPT !.inventory = TRUE]
  <2>1. /\ th[t].phase = "act" /\ stamp' = stamp
        /\ th' = [th EXCEPT ![t] = SaveOf(t, cfg)]
        /\ UNCHANGED <<disk, newest, mishap>>
    BY <1>5 DEF RefreshInventory, WantsInventory, Ready, Step
  <2>2. cfg.set = th[t].cfg.set /\ cfg.token = th[t].cfg.token
        /\ cfg.named = th[t].cfg.named /\ cfg.blank = th[t].cfg.blank
    BY <1>0 DEF Configs
  <2> HIDE DEF cfg
  <2>3. Works(t)
    BY <1>1, <2>1, <2>2 DEF Works, AtCommand, Keeps
  <2> QED BY <2>3 DEF Kinds
<1>6. CASE PersistSpeakers(t)
  <2>1. /\ th[t].phase = "act" /\ stamp' = stamp
        /\ th' = [th EXCEPT ![t] = SaveOf(t, th[t].cfg)]
        /\ UNCHANGED <<disk, newest, mishap>>
    BY <1>6 DEF PersistSpeakers, Ready, Step
  <2>2. Works(t)
    BY <1>1, <2>1 DEF Works, AtCommand, Keeps
  <2> QED BY <2>2 DEF Kinds
<1>7. CASE AskFromCache(t)
  <2> DEFINE b == <<t[1], "background">>
             new == [Idle EXCEPT !.phase = "load", !.job = "refresh"]
  <2>1. b \in Threads /\ t[1] \in Procs /\ (t = <<t[1], "main">> \/ t = b)
    BY DEF Threads
  <2>2. th[t].phase = "act" /\ th[t].job = "ask" /\ th[t].stage = 0
    BY <1>7 DEF AskFromCache, Ready
  <2>3. t # b /\ th[b].phase = "idle"
    BY <2>1, <2>2 DEF Structure, Backed
  <2>4. th'[b] = new /\ th'[t] = [th[t] EXCEPT !.stage = 1]
        /\ \A u \in Threads \ {t, b} : th'[u] = th[u]
    BY <1>0, <1>7, <2>1, <2>3 DEF AskFromCache, ThreadsOK
  <2>5. Others(b)
    BY <1>0, <2>4 DEF Others, Same, Alike, ThreadRecords
  <2>6. new.phase = "load" /\ new.file = "config" /\ new.cfg = EmptyConfig
        /\ new.stale = {} /\ new.job = "refresh"
    BY DEF Idle
  <2>7. Still /\ mishap' = mishap /\ b[2] = "background"
    BY <1>7 DEF AskFromCache, Still
  <2> HIDE DEF b, new
  <2>8. Begins(b)
    BY <2>3, <2>4, <2>5, <2>6, <2>7 DEF Begins
  <2> QED BY <2>1, <2>8 DEF Kinds
<1>8. CASE Done(t)
  <2>1. Stop(t) /\ th[t].phase = "act"
    BY <1>8 DEF Done
  <2> QED BY <2>1, StopKinds DEF Kinds
<1> QED BY <1>2, <1>3, <1>4, <1>5, <1>6, <1>7, <1>8 DEF Act

LEMMA TouchMarks ==
    ASSUME ThreadsOK, NEW t \in Threads, NEW f \in Files, NEW new \in ThreadRecords,
           th' = Touch(t, f, new)
    PROVE  th'[t] = new /\ \A u \in Threads \ {t} : Marked(u, f)
<1>1. th'[t] = new
  BY DEF Touch
<1>2. ASSUME NEW u \in Threads \ {t}
      PROVE  Marked(u, f)
  <2>1. th'[u] = IF HasRead(u, f) THEN [th[u] EXCEPT !.stale = @ \cup {f}] ELSE th[u]
    BY DEF Touch
  <2>2. th[u] \in ThreadRecords
    BY DEF ThreadsOK
  <2> HIDE DEF HasRead
  <2> QED BY <2>1, <2>2 DEF Marked, Alike, ThreadRecords
<1> QED BY <1>1, <1>2

LEMMA SaveKinds ==
    ASSUME TypeOK, Structure, NEW t \in Threads, Save(t)
    PROVE  Kinds
<1>0. ThreadsOK /\ DiskOK /\ th[t] \in ThreadRecords /\ th[t].file \in Files
  BY TypesParted DEF ThreadsOK, ThreadRecords
<1>1. Written(t) \in ThreadRecords
  BY <1>0, WrittenSteps
<1>2. CASE Open(t)
  <2>1. Opened(t) \in ThreadRecords /\ Opened(t).phase = "write"
        /\ Opened(t).file = th[t].file /\ Opened(t).cfg = th[t].cfg
        /\ Opened(t).stale = th[t].stale /\ Opened(t).job = th[t].job
    BY <1>0 DEF Opened, ThreadRecords
  <2>2. /\ th' = Touch(t, th[t].file, Opened(t))
        /\ disk' = [disk EXCEPT ![th[t].file] = Unreadable("empty")]
        /\ UNCHANGED <<newer, stamp, newest, mishap, bounds>>
        /\ th[t].phase = "open"
    BY <1>2 DEF Open
  <2>3. th'[t] = Opened(t) /\ \A u \in Threads \ {t} : Marked(u, th[t].file)
    BY <1>0, <2>1, <2>2, TouchMarks
  <2>4. Opens(t, th[t].file)
    BY <2>1, <2>2, <2>3 DEF Opens, In
  <2> QED BY <1>0, <2>4 DEF Kinds
<1>3. CASE Write(t)
  <2> DEFINE f == th[t].file
  <2>1. PICK garbled \in BOOLEAN :
          LET file == Result(f, Content(th[t].cfg, f), garbled)
          IN
            /\ disk' = [disk EXCEPT ![f] = file]
            /\ newest' = IF file.state = "ok" THEN Newest(t, f) ELSE newest
            /\ newer' = (newer /\ f # "cache")
            /\ th' = Touch(t, f, Written(t))
            /\ mishap' = mishap \cup (IF f \in th[t].stale THEN {"stale"} ELSE {})
    BY <1>3 DEF Write
  <2>2. th[t].phase = "write" /\ ~th[t].unlinked /\ stamp' = stamp
    BY <1>3 DEF Write
  <2>3. th'[t] = Written(t) /\ \A u \in Threads \ {t} : Marked(u, f)
    BY <1>0, <1>1, <2>1, TouchMarks
  <2>4. WritesOver(t, f, garbled)
    BY <2>1 DEF WritesOver
  <2>5. Writes(t, f)
    BY <1>0, <2>1, <2>2, <2>3, <2>4, WrittenSteps DEF Writes, In
  <2> QED BY <1>0, <2>5 DEF Kinds
<1>4. CASE WriteUnlinked(t)
  <2>1. th'[t] = Written(t) /\ Others(t) /\ Still /\ mishap' = mishap
    BY <1>0, <1>1, <1>4 DEF WriteUnlinked, Step, ThreadsOK, Others, Same, Alike, Still
  <2>2. In(t, "write", "cache")
    BY <1>4 DEF WriteUnlinked, Structure, Unlinked
  <2>3. th'[t].phase = "act" /\ th'[t].cfg = th[t].cfg /\ th'[t].stale = th[t].stale
        /\ th'[t].job = th[t].job
    BY <1>0, <2>1, <2>2, WrittenSteps DEF In
  <2>4. Works(t)
    BY <2>1, <2>2, <2>3 DEF Works, AtCommand, Keeps, Still
  <2> QED BY <2>4 DEF Kinds
<1> QED BY <1>2, <1>3, <1>4 DEF Save

LEMMA StepKinds ==
    ASSUME TypeOK, Structure, [Next]_vars
    PROVE  Kinds
<1>0. ThreadsOK /\ DiskOK
  BY TypesParted
<1>1. ASSUME NEW p \in Procs, NEW job \in Jobs[p], Begin(p, job)
      PROVE  Kinds
  <2> DEFINE t == <<p, "main">>
             new == [Idle EXCEPT !.phase = "load", !.job = job]
  <2>1. t \in Threads /\ t[2] = "main"
    BY DEF Threads
  <2>2. new.phase = "load" /\ new.file = "config" /\ new.cfg = EmptyConfig
        /\ new.stale = {}
    BY DEF Idle
  <2>3. th'[t] = new /\ Others(t) /\ Still /\ th[t].phase = "idle"
    BY <1>0, <1>1, <2>1 DEF Begin, ThreadsOK, Others, Same, Alike, Still
  <2>4. \/ mishap' = mishap /\ Quiet
        \/ mishap' = mishap \cup {"company"}
    BY <1>1 DEF Begin
  <2> HIDE DEF t, new
  <2>5. Begins(t)
    BY <2>1, <2>2, <2>3, <2>4 DEF Begins
  <2> QED BY <2>1, <2>5 DEF Kinds
<1>2. ASSUME NEW p \in Procs, Kill(p)
      PROVE  Kinds
  <2>1. Ends
    BY <1>2, EndKinds DEF Kill, Still
  <2> QED BY <2>1 DEF Kinds
<1>3. ASSUME NEW f \in Files, RemoveDamaged(f)
      PROVE  Kinds
  <2>1. Removes
    BY <1>3 DEF RemoveDamaged, Removes, Same, Alike
  <2> QED BY <2>1 DEF Kinds
<1>4. CASE Rebuild
  BY <1>4 DEF Rebuild, Kinds, Rests, Still, Same, Alike
<1>5. CASE UNCHANGED vars
  BY <1>5 DEF vars, Kinds, Rests, Still, Same, Alike
<1> QED BY <1>1, <1>2, <1>3, <1>4, <1>5, LoadKinds, ActKinds, SaveKinds DEF Next

\* A thread that goes on with what it does.
Follows(u) ==
    /\ th'[u].job = th[u].job
    /\ th'[u].phase = "idle" <=> th[u].phase = "idle"
    /\ th[u].stage # 0 => th'[u].stage # 0
    /\ th'[u].unlinked => In(u, "write", "cache")'

LEMMA StructureFollows ==
    ASSUME Structure, \A u \in Threads : Follows(u)
    PROVE  Structure'
<1>1. \A p \in Procs : <<p, "main">> \in Threads /\ <<p, "background">> \in Threads
  BY DEF Threads
<1> QED BY <1>1 DEF Structure, Backed, Unlinked, Follows

LEMMA OneFollows ==
    ASSUME ThreadsOK, Structure, NEW t \in Threads, NEW new, th' = [th EXCEPT ![t] = new],
           th[t].phase # "idle", new.phase # "idle", new.job = th[t].job,
           new.stage = th[t].stage \/ new.stage = th[t].stage + 1, ~new.unlinked
    PROVE  Structure'
<1>1. th'[t] = new /\ \A u \in Threads \ {t} : th'[u] = th[u]
  BY DEF ThreadsOK
<1>2. th[t].stage \in 0 .. 2
  BY DEF ThreadsOK, ThreadRecords
<1>3. \A u \in Threads \ {t} : Follows(u)
  BY <1>1 DEF Follows, Structure, Unlinked, In
<1>4. new.stage # 0 \/ th[t].stage = 0
  BY <1>2
<1>5. Follows(t)
  BY <1>1, <1>4 DEF Follows
<1> QED BY <1>3, <1>5, StructureFollows

\* A command ends together with its refresh.
LEMMA EndStructure ==
    ASSUME ThreadsOK, Structure
    PROVE  /\ \A p \in Procs : th' = Ended(p) => Structure'
           /\ \A t \in Threads : End(t) => Structure'
<1>1. ASSUME NEW p \in Procs, th' = Ended(p)
      PROVE  Structure'
  <2>1. \A u \in Threads : th'[u] = IF u[1] = p THEN Idle ELSE th[u]
    BY <1>1 DEF Ended
  <2>2. \A q \in Procs : <<q, "main">> \in Threads /\ <<q, "background">> \in Threads
    BY DEF Threads
  <2>3. Backed'
    BY <2>1, <2>2 DEF Structure, Backed, Idle
  <2>4. Unlinked'
    BY <2>1 DEF Structure, Unlinked, Idle, In
  <2> QED BY <2>3, <2>4 DEF Structure
<1>2. ASSUME NEW t \in Threads, End(t)
      PROVE  Structure'
  <2>1. CASE t[2] = "main"
    BY <1>1, <1>2, <2>1 DEF End, Threads
  <2>2. CASE t[2] # "main"
    <3>1. th'[t] = Idle /\ \A u \in Threads \ {t} : th'[u] = th[u]
      BY <1>2, <2>2 DEF End, ThreadsOK
    <3>2. \A q \in Procs : <<q, "main">> \in Threads /\ <<q, "background">> \in Threads
      BY DEF Threads
    <3>3. \A q \in Procs : <<q, "main">> # t
      BY <2>2
    <3>4. Backed'
      BY <3>1, <3>2, <3>3 DEF Structure, Backed, Idle
    <3>5. Unlinked'
      BY <3>1 DEF Structure, Unlinked, Idle, In
    <3> QED BY <3>4, <3>5 DEF Structure
  <2> QED BY <2>1, <2>2
<1> QED BY <1>1, <1>2

LEMMA StructureKept == TypeOK /\ Structure /\ [Next]_vars => Structure'
<1> SUFFICES ASSUME TypeOK, Structure, [Next]_vars PROVE Structure'
  OBVIOUS
<1>0. ThreadsOK /\ DiskOK
  BY TypesParted
<1>1. ASSUME NEW t \in Threads, th[t].phase # "write"
      PROVE  ~th[t].unlinked /\ th[t] \in ThreadRecords
  BY <1>0, <1>1 DEF Structure, Unlinked, In, ThreadsOK
<1>2. ASSUME NEW p \in Procs, NEW job \in Jobs[p], Begin(p, job)
      PROVE  Structure'
  <2> DEFINE t == <<p, "main">>
  <2>1. t \in Threads /\ \A q \in Procs : <<q, "background">> \in Threads
                                          /\ <<q, "background">> # t
    BY DEF Threads
  <2>2. /\ th'[t] = [Idle EXCEPT !.phase = "load", !.job = job]
        /\ \A u \in Threads \ {t} : th'[u] = th[u]
        /\ th[t].phase = "idle"
    BY <1>0, <1>2, <2>1 DEF Begin, ThreadsOK
  <2>3. Unlinked'
    <3>1. ~th'[t].unlinked
      BY <2>2 DEF Idle
    <3> SUFFICES ASSUME NEW u \in Threads, th'[u].unlinked
                 PROVE  In(u, "write", "cache")'
      BY DEF Unlinked
    <3>2. u \in Threads \ {t}
      BY <3>1
    <3> QED BY <2>2, <3>2 DEF Structure, Unlinked, In
  <2>4. Backed'
    <3> SUFFICES ASSUME NEW q \in Procs, th'[<<q, "background">>].phase # "idle"
                 PROVE  /\ th'[<<q, "background">>].job = "refresh"
                        /\ th'[<<q, "main">>].phase # "idle"
                        /\ th'[<<q, "main">>].job = "ask"
                        /\ th'[<<q, "main">>].stage # 0
      BY DEF Backed
    <3>1. th'[<<q, "background">>] = th[<<q, "background">>]
      BY <2>1, <2>2
    <3>2. q # p
      BY <2>2, <3>1 DEF Structure, Backed
    <3>3. th'[<<q, "main">>] = th[<<q, "main">>]
      BY <2>2, <3>2 DEF Threads
    <3> QED BY <3>1, <3>3 DEF Structure, Backed
  <2> QED BY <2>3, <2>4 DEF Structure
<1>3. ASSUME NEW t \in Threads, Load(t)
      PROVE  Structure'
  <2>0. ASSUME NEW new, Step(t, new), th[t].phase = "load", new.phase # "idle",
               new.job = th[t].job, new.stage = th[t].stage, new.unlinked = th[t].unlinked
        PROVE  Structure'
    <3>1. ~new.unlinked /\ th[t].phase # "idle"
      BY <1>1, <2>0
    <3> QED BY <1>0, <2>0, <3>1, OneFollows DEF Step
  <2>1. CASE ReadNoConfig(t)
    <3> DEFINE new == [th[t] EXCEPT !.phase = "act", !.cfg = EmptyConfig]
    <3>1. Step(t, new) /\ th[t].phase = "load"
      BY <2>1 DEF ReadNoConfig, In
    <3>2. /\ new.phase # "idle" /\ new.job = th[t].job /\ new.stage = th[t].stage
          /\ new.unlinked = th[t].unlinked
      BY <1>1, <3>1 DEF ThreadRecords
    <3> HIDE DEF new
    <3> QED BY <2>0, <3>1, <3>2
  <2>2. CASE ReadConfig(t)
    <3> DEFINE new == [th[t] EXCEPT !.file = "tokens", !.cfg = FromConfigFile(disk["config"].data)]
    <3>1. Step(t, new) /\ th[t].phase = "load"
      BY <2>2 DEF ReadConfig, In
    <3>2. /\ new.phase # "idle" /\ new.job = th[t].job /\ new.stage = th[t].stage
          /\ new.unlinked = th[t].unlinked
      BY <1>1, <3>1 DEF ThreadRecords
    <3> HIDE DEF new
    <3> QED BY <2>0, <3>1, <3>2
  <2>3. CASE ReadTokens(t)
    <3> DEFINE cfg == WithTokens(th[t].cfg, Stored)
               new == [th[t] EXCEPT !.file = "cache", !.cfg = cfg]
    <3>1. Step(t, new) /\ th[t].phase = "load"
      BY <2>3 DEF ReadTokens, In, Stored
    <3> HIDE DEF cfg
    <3>2. /\ new.phase # "idle" /\ new.job = th[t].job /\ new.stage = th[t].stage
          /\ new.unlinked = th[t].unlinked
      BY <1>1, <3>1 DEF ThreadRecords
    <3> HIDE DEF new
    <3> QED BY <2>0, <3>1, <3>2
  <2>4. CASE SweepCache(t)
    <3>1. th[t].phase = "load"
          /\ \A u \in Threads : th'[u] =
                IF u = t THEN [th[t] EXCEPT !.phase = "act"]
                ELSE [th[u] EXCEPT !.unlinked = @ \/ In(u, "write", "cache")]
      BY <2>4 DEF SweepCache, In
    <3>2. Follows(t)
      BY <1>1, <3>1 DEF Follows, ThreadRecords
    <3>3. ASSUME NEW u \in Threads \ {t}
          PROVE  Follows(u)
      <4>1. th[u] \in ThreadRecords
        BY <1>0 DEF ThreadsOK
      <4>2. /\ th'[u].phase = th[u].phase /\ th'[u].file = th[u].file
            /\ th'[u].job = th[u].job /\ th'[u].stage = th[u].stage
            /\ th'[u].unlinked = (th[u].unlinked \/ In(u, "write", "cache"))
        BY <3>1, <4>1 DEF ThreadRecords
      <4> QED BY <4>2 DEF Follows, Structure, Unlinked, In
    <3> QED BY <3>2, <3>3, StructureFollows
  <2>5. CASE ReadCache(t)
    <3> DEFINE found == IF disk["cache"].state = "ok" THEN disk["cache"].data
                        ELSE th[t].cfg.inventory
               new == [th[t] EXCEPT !.phase = "act", !.cfg.inventory = found]
    <3>1. Step(t, new) /\ th[t].phase = "load"
      BY <2>5 DEF ReadCache, In
    <3> HIDE DEF found
    <3>2. /\ new.phase # "idle" /\ new.job = th[t].job /\ new.stage = th[t].stage
          /\ new.unlinked = th[t].unlinked
      BY <1>1, <3>1 DEF ThreadRecords
    <3> HIDE DEF new
    <3> QED BY <2>0, <3>1, <3>2
  <2>6. CASE LoadFails(t)
    BY <1>0, <2>6, EndStructure DEF LoadFails, Stop
  <2> QED BY <1>3, <2>1, <2>2, <2>3, <2>4, <2>5, <2>6 DEF Load
<1>4. ASSUME NEW t \in Threads, Act(t)
      PROVE  Structure'
  <2>1. ASSUME NEW cfg, th' = [th EXCEPT ![t] = SaveOf(t, cfg)], th[t].phase = "act"
        PROVE  Structure'
    <3>1. /\ SaveOf(t, cfg).phase = "open" /\ SaveOf(t, cfg).job = th[t].job
          /\ SaveOf(t, cfg).stage = th[t].stage + 1 /\ ~SaveOf(t, cfg).unlinked
      BY <1>1, <2>1 DEF SaveOf, ThreadRecords
    <3> HIDE DEF SaveOf
    <3> QED BY <1>0, <2>1, <3>1, OneFollows
  <2>2. ASSUME NEW f \in Fields, SetValue(t, f)
        PROVE  Structure'
    BY <2>1, <2>2 DEF SetValue, Ready
  <2>3. CASE EditDevice(t)
    BY <2>1, <2>3 DEF EditDevice, Ready
  <2>4. ASSUME NEW h \in Hubs, Pair(t, h)
        PROVE  Structure'
    BY <2>1, <2>4 DEF Pair, Ready
  <2>5. CASE RefreshInventory(t)
    BY <2>1, <2>5 DEF RefreshInventory, WantsInventory, Ready, Step
  <2>6. CASE PersistSpeakers(t)
    BY <2>1, <2>6 DEF PersistSpeakers, Ready, Step
  <2>7. CASE AskFromCache(t)
    <3> DEFINE b == <<t[1], "background">>
    <3>1. b \in Threads /\ t[1] \in Procs /\ (t = <<t[1], "main">> \/ t = b)
      BY DEF Threads
    <3>2. th[t].phase = "act" /\ th[t].job = "ask" /\ th[t].stage = 0
      BY <2>7 DEF AskFromCache, Ready
    <3>3. t # b /\ t = <<t[1], "main">>
      BY <3>1, <3>2 DEF Structure, Backed
    <3>4. /\ th'[b] = [Idle EXCEPT !.phase = "load", !.job = "refresh"]
          /\ th'[t] = [th[t] EXCEPT !.stage = 1]
          /\ \A u \in Threads \ {t, b} : th'[u] = th[u]
      BY <1>0, <2>7, <3>1, <3>3 DEF AskFromCache, ThreadsOK
    <3>5. /\ th'[b].phase = "load" /\ th'[b].job = "refresh" /\ ~th'[b].unlinked
          /\ th'[t].phase = "act" /\ th'[t].job = "ask" /\ th'[t].stage = 1
          /\ ~th'[t].unlinked
      BY <1>1, <3>2, <3>4 DEF Idle, ThreadRecords
    <3>6. Unlinked'
      <4> SUFFICES ASSUME NEW u \in Threads, th'[u].unlinked
                   PROVE  In(u, "write", "cache")'
        BY DEF Unlinked
      <4>1. u \in Threads \ {t, b}
        BY <3>5
      <4> QED BY <3>4, <4>1 DEF Structure, Unlinked, In
    <3>7. Backed'
      <4> SUFFICES ASSUME NEW q \in Procs, th'[<<q, "background">>].phase # "idle"
                   PROVE  /\ th'[<<q, "background">>].job = "refresh"
                          /\ th'[<<q, "main">>].phase # "idle"
                          /\ th'[<<q, "main">>].job = "ask"
                          /\ th'[<<q, "main">>].stage # 0
        BY DEF Backed
      <4>1. CASE q = t[1]
        BY <3>3, <3>5, <4>1
      <4>2. CASE q # t[1]
        <5>1. /\ <<q, "background">> \in Threads \ {t, b}
              /\ <<q, "main">> \in Threads \ {t, b}
          BY <3>3, <4>2 DEF Threads
        <5> QED BY <3>4, <5>1 DEF Structure, Backed
      <4> QED BY <4>1, <4>2
    <3> QED BY <3>6, <3>7 DEF Structure
  <2>8. CASE Done(t)
    BY <1>0, <2>8, EndStructure DEF Done, Stop
  <2> QED BY <1>4, <2>2, <2>3, <2>4, <2>5, <2>6, <2>7, <2>8 DEF Act
<1>5. ASSUME NEW t \in Threads, Save(t)
      PROVE  Structure'
  <2>0. th[t] \in ThreadRecords /\ th[t].file \in Files
    BY <1>0 DEF ThreadsOK, ThreadRecords
  <2>1. ASSUME NEW f \in Files, NEW new \in ThreadRecords, th' = Touch(t, f, new),
               th[t].phase # "idle", new.phase # "idle", new.job = th[t].job,
               new.stage = th[t].stage, ~new.unlinked
        PROVE  Structure'
    <3>1. th'[t] = new /\ \A u \in Threads \ {t} :
            th'[u] = IF HasRead(u, f) THEN [th[u] EXCEPT !.stale = @ \cup {f}] ELSE th[u]
      BY <2>1 DEF Touch
    <3>2. Follows(t)
      BY <2>1, <3>1 DEF Follows
    <3>3. ASSUME NEW u \in Threads \ {t}
          PROVE  Follows(u)
      <4>1. th[u] \in ThreadRecords
        BY <1>0 DEF ThreadsOK
      <4>2. /\ th'[u].phase = th[u].phase /\ th'[u].file = th[u].file
            /\ th'[u].job = th[u].job /\ th'[u].stage = th[u].stage
            /\ th'[u].unlinked = th[u].unlinked
        BY <3>1, <4>1 DEF ThreadRecords
      <4> QED BY <4>2 DEF Follows, Structure, Unlinked, In
    <3> QED BY <3>2, <3>3, StructureFollows
  <2>2. Written(t) \in ThreadRecords /\ Written(t).phase # "idle"
        /\ Written(t).job = th[t].job /\ Written(t).stage = th[t].stage
        /\ ~Written(t).unlinked
    BY <2>0, WrittenSteps DEF Files
  <2>3. CASE Open(t)
    <3>1. th' = Touch(t, th[t].file, Opened(t)) /\ th[t].phase = "open"
      BY <2>3 DEF Open
    <3>2. Opened(t) \in ThreadRecords /\ Opened(t).phase = "write"
          /\ Opened(t).job = th[t].job /\ Opened(t).stage = th[t].stage
          /\ ~Opened(t).unlinked
      BY <1>1, <2>0, <3>1 DEF Opened, ThreadRecords
    <3> QED BY <2>0, <2>1, <3>1, <3>2
  <2>4. CASE Write(t)
    <3>1. th' = Touch(t, th[t].file, Written(t)) /\ th[t].phase = "write"
      BY <2>4 DEF Write
    <3> QED BY <2>0, <2>1, <2>2, <3>1
  <2>5. CASE WriteUnlinked(t)
    <3>1. th' = [th EXCEPT ![t] = Written(t)] /\ th[t].phase = "write"
      BY <2>5 DEF WriteUnlinked, Step
    <3> QED BY <1>0, <2>2, <3>1, OneFollows
  <2> QED BY <1>5, <2>3, <2>4, <2>5 DEF Save
<1>6. ASSUME NEW p \in Procs, Kill(p)
      PROVE  Structure'
  BY <1>0, <1>6, EndStructure DEF Kill
<1>7. ASSUME th' = th
      PROVE  Structure'
  BY <1>7 DEF Structure, Backed, Unlinked, In
<1> QED BY <1>2, <1>3, <1>4, <1>5, <1>6, <1>7 DEF Next, RemoveDamaged, Rebuild, vars

\* The refresh lives no longer than its ask.
LEMMA StructureHolds == Spec => [](TypeOK /\ Structure)
<1>1. Init => Structure
  BY DEF Init, Idle, Structure, Backed, Unlinked, Threads
<1> QED BY <1>1, StructureKept, TypeCorrect, PTL DEF Spec

-----------------------------------------------------------------------------
(* Damaged files.                                                          *)

Writing(t, f) == In(t, "write", f) /\ ~th[t].unlinked

\* As long as no save was cut off or wrote over another one, a damaged file
\* is one that is being written, and a writer nobody disturbed will write to
\* the empty file it has made.
Attended ==
    mishap \cap {"torn", "stale"} = {} =>
        /\ \A f \in Files : Damaged(f) => \E t \in Threads : Writing(t, f)
        /\ \A t \in Threads, f \in Files :
              Writing(t, f) /\ f \notin th[t].stale => disk[f].state = "empty"

SameWriter(u) ==
    /\ th'[u].phase = th[u].phase /\ th'[u].file = th[u].file
    /\ th'[u].stale = th[u].stale /\ th'[u].unlinked = th[u].unlinked

NoWriter(u) == \A f \in Files : ~Writing(u, f) /\ ~Writing(u, f)'

LEMMA WritersKept ==
    ASSUME Attended, mishap \subseteq mishap',
           \A u \in Threads : SameWriter(u) \/ NoWriter(u),
           \A f \in Files : \/ disk'[f] = disk[f]
                            \/ disk'[f].state = "absent" /\ \A u \in Threads : ~Writing(u, f)'
    PROVE  Attended'
<1> SUFFICES ASSUME mishap' \cap {"torn", "stale"} = {}
             PROVE  /\ \A f \in Files : Damaged(f)' => \E t \in Threads : Writing(t, f)'
                    /\ \A t \in Threads, f \in Files :
                          (Writing(t, f) /\ f \notin th[t].stale)' => disk'[f].state = "empty"
  BY DEF Attended
<1>1. mishap \cap {"torn", "stale"} = {}
  OBVIOUS
<1>2. \A u \in Threads, f \in Files :
        (Writing(u, f)' <=> Writing(u, f)) /\ (Writing(u, f) => th'[u].stale = th[u].stale)
  BY DEF SameWriter, NoWriter, Writing, In
<1>3. ASSUME NEW f \in Files, Damaged(f)'
      PROVE  \E t \in Threads : Writing(t, f)'
  <2>1. Damaged(f)
    BY <1>3 DEF Damaged
  <2> QED BY <1>1, <1>2, <2>1 DEF Attended
<1>4. ASSUME NEW t \in Threads, NEW f \in Files, (Writing(t, f) /\ f \notin th[t].stale)'
      PROVE  disk'[f].state = "empty"
  <2>1. Writing(t, f) /\ f \notin th[t].stale /\ disk'[f] = disk[f]
    BY <1>2, <1>4
  <2> QED BY <1>1, <2>1 DEF Attended
<1> QED BY <1>3, <1>4

LEMMA AttendedKept == TypeOK /\ Structure /\ Attended /\ [Next]_vars => Attended'
<1> SUFFICES ASSUME TypeOK, Structure, Attended, [Next]_vars PROVE Attended'
  OBVIOUS
<1>0. ThreadsOK /\ DiskOK
  BY TypesParted
<1>1. ASSUME NEW t \in Threads, NEW new, th' = [th EXCEPT ![t] = new],
             th[t].phase # "write" \/ th[t].unlinked, new.phase # "write",
             disk' = disk, mishap \subseteq mishap'
      PROVE  Attended'
  <2>1. th'[t] = new /\ \A u \in Threads \ {t} : th'[u] = th[u]
    BY <1>0, <1>1 DEF ThreadsOK
  <2>2. NoWriter(t)
    BY <1>1, <2>1 DEF NoWriter, Writing, In
  <2>3. \A u \in Threads \ {t} : SameWriter(u)
    BY <2>1 DEF SameWriter
  <2> QED BY <1>1, <2>2, <2>3, WritersKept
\* An end leaves the mark of a save that was under way.
<1>2. ASSUME Ends, disk' = disk, \A u \in Threads : th'[u] = th[u] \/ th'[u] = Idle
      PROVE  Attended'
  <2>1. CASE "torn" \in mishap'
    BY <2>1 DEF Attended
  <2>2. CASE "torn" \notin mishap'
    <3>1. \A u \in Threads : \/ th'[u] = th[u]
                             \/ th'[u] = Idle /\ th[u].phase # "write"
      <4> SUFFICES ASSUME NEW u \in Threads, th'[u] # th[u]
                   PROVE  th'[u] = Idle /\ th[u].phase # "write"
        OBVIOUS
      <4>1. th'[u] = Idle
        BY <1>2
      <4>2. CASE Same(u)
        BY <4>1, <4>2 DEF Same, Alike, Idle
      <4>3. CASE ~Same(u)
        BY <1>2, <2>2, <4>1, <4>3 DEF Ends
      <4> QED BY <4>2, <4>3
    <3>2. \A u \in Threads : SameWriter(u) \/ NoWriter(u)
      BY <3>1 DEF SameWriter, NoWriter, Writing, In, Idle
    <3>3. mishap \subseteq mishap'
      BY <1>2 DEF Ends
    <3> QED BY <1>2, <3>2, <3>3, WritersKept
  <2> QED BY <2>1, <2>2
<1>3. ASSUME NEW t \in Threads, Stop(t), th[t].phase \in {"load", "act"}
      PROVE  Attended'
  <2>1. \A u \in Threads : th'[u] = th[u] \/ th'[u] = Idle
    BY <1>0, <1>3 DEF Stop, End, Ended, ThreadsOK
  <2> QED BY <1>2, <1>3, <2>1, StopKinds DEF Stop
<1>4. ASSUME NEW p \in Procs, NEW job \in Jobs[p], Begin(p, job)
      PROVE  Attended'
  <2>1. <<p, "main">> \in Threads
    BY DEF Threads
  <2>2. [Idle EXCEPT !.phase = "load", !.job = job].phase # "write"
    BY DEF Idle
  <2>3. /\ th' = [th EXCEPT ![<<p, "main">>] = [Idle EXCEPT !.phase = "load", !.job = job]]
        /\ th[<<p, "main">>].phase # "write" /\ disk' = disk /\ mishap \subseteq mishap'
    BY <1>4 DEF Begin
  <2> QED BY <1>1, <2>1, <2>2, <2>3
<1>5. ASSUME NEW t \in Threads, Load(t)
      PROVE  Attended'
  <2>0. th[t] \in ThreadRecords
    BY <1>0 DEF ThreadsOK
  <2>1. CASE ReadNoConfig(t)
    <3> DEFINE new == [th[t] EXCEPT !.phase = "act", !.cfg = EmptyConfig]
    <3>1. Step(t, new) /\ th[t].phase = "load"
      BY <2>1 DEF ReadNoConfig, In
    <3>2. new.phase # "write"
      BY <2>0, <3>1 DEF ThreadRecords
    <3> HIDE DEF new
    <3> QED BY <1>1, <3>1, <3>2 DEF Step
  <2>2. CASE ReadConfig(t)
    <3> DEFINE new == [th[t] EXCEPT !.file = "tokens", !.cfg = FromConfigFile(disk["config"].data)]
    <3>1. Step(t, new) /\ th[t].phase = "load"
      BY <2>2 DEF ReadConfig, In
    <3>2. new.phase # "write"
      BY <2>0, <3>1 DEF ThreadRecords
    <3> HIDE DEF new
    <3> QED BY <1>1, <3>1, <3>2 DEF Step
  <2>3. CASE ReadTokens(t)
    <3> DEFINE cfg == WithTokens(th[t].cfg, Stored)
    <3>1. Step(t, [th[t] EXCEPT !.file = "cache", !.cfg = cfg]) /\ th[t].phase = "load"
      BY <2>3 DEF ReadTokens, Stored, In
    <3> DEFINE new == [th[t] EXCEPT !.file = "cache", !.cfg = cfg]
    <3> HIDE DEF cfg
    <3>2. new.phase # "write"
      BY <2>0, <3>1 DEF ThreadRecords
    <3> HIDE DEF new
    <3> QED BY <1>1, <3>1, <3>2 DEF Step, new
  <2>4. CASE SweepCache(t)
    <3>1. /\ th[t].phase = "load"
          /\ disk' = [disk EXCEPT !["cache"] = Absent] /\ mishap' = mishap
          /\ \A u \in Threads : th'[u] =
                IF u = t THEN [th[t] EXCEPT !.phase = "act"]
                ELSE [th[u] EXCEPT !.unlinked = @ \/ In(u, "write", "cache")]
      BY <2>4 DEF SweepCache, In
    <3>2. th'[t].phase = "act"
      BY <2>0, <3>1 DEF ThreadRecords
    <3>3. ASSUME NEW u \in Threads \ {t}
          PROVE  /\ th'[u].phase = th[u].phase /\ th'[u].file = th[u].file
                 /\ th'[u].stale = th[u].stale
                 /\ th'[u].unlinked = (th[u].unlinked \/ In(u, "write", "cache"))
      <4>1. th[u] \in ThreadRecords
        BY <1>0 DEF ThreadsOK
      <4> QED BY <3>1, <4>1 DEF ThreadRecords
    <3>4. \A f \in Files : disk'[f] = IF f = "cache" THEN Absent ELSE disk[f]
      BY <1>0, <3>1 DEF DiskOK
    <3> SUFFICES ASSUME mishap' \cap {"torn", "stale"} = {}
                 PROVE  /\ \A f \in Files : Damaged(f)' => \E u \in Threads : Writing(u, f)'
                        /\ \A u \in Threads, f \in Files :
                             (Writing(u, f) /\ f \notin th[u].stale)'
                             => disk'[f].state = "empty"
      BY DEF Attended
    <3>5. mishap \cap {"torn", "stale"} = {}
      BY <3>1
    <3>6. \A u \in Threads : ~Writing(u, "cache")'
      BY <3>2, <3>3 DEF Writing, In
    <3>7. \A u \in Threads, f \in Files \ {"cache"} : Writing(u, f)' <=> Writing(u, f)
      BY <3>1, <3>2, <3>3 DEF Writing, In
    <3>8. ASSUME NEW f \in Files, Damaged(f)'
          PROVE  \E u \in Threads : Writing(u, f)'
      <4>1. f # "cache" /\ Damaged(f)
        BY <3>4, <3>8 DEF Damaged, Absent
      <4> QED BY <3>5, <3>7, <4>1 DEF Attended
    <3>9. ASSUME NEW u \in Threads, NEW f \in Files, (Writing(u, f) /\ f \notin th[u].stale)'
          PROVE  disk'[f].state = "empty"
      <4>1. f # "cache" /\ Writing(u, f)
        BY <3>6, <3>7, <3>9
      <4>2. u # t /\ disk'[f] = disk[f]
        BY <3>1, <3>4, <4>1 DEF Writing, In
      <4> QED BY <3>3, <3>5, <3>9, <4>1, <4>2 DEF Attended
    <3> QED BY <3>8, <3>9
  <2>5. CASE ReadCache(t)
    <3> DEFINE found == IF disk["cache"].state = "ok" THEN disk["cache"].data
                        ELSE th[t].cfg.inventory
    <3>1. Step(t, [th[t] EXCEPT !.phase = "act", !.cfg.inventory = found])
          /\ th[t].phase = "load"
      BY <2>5 DEF ReadCache, In
    <3> DEFINE new == [th[t] EXCEPT !.phase = "act", !.cfg.inventory = found]
    <3> HIDE DEF found
    <3>2. new.phase # "write"
      BY <2>0, <3>1 DEF ThreadRecords
    <3> HIDE DEF new
    <3> QED BY <1>1, <3>1, <3>2 DEF Step, new
  <2>6. CASE LoadFails(t)
    BY <1>3, <2>6 DEF LoadFails
  <2> QED BY <1>5, <2>1, <2>2, <2>3, <2>4, <2>5, <2>6 DEF Load
<1>6. ASSUME NEW t \in Threads, Act(t)
      PROVE  Attended'
  <2>0. th[t] \in ThreadRecords
    BY <1>0 DEF ThreadsOK
  <2>1. ASSUME NEW cfg, th' = [th EXCEPT ![t] = SaveOf(t, cfg)], th[t].phase = "act",
               disk' = disk, mishap' = mishap
        PROVE  Attended'
    <3>1. SaveOf(t, cfg).phase = "open"
      BY <2>0 DEF SaveOf, ThreadRecords
    <3> HIDE DEF SaveOf
    <3> QED BY <1>1, <2>1, <3>1
  <2>2. ASSUME NEW f \in Fields, SetValue(t, f)
        PROVE  Attended'
    BY <2>1, <2>2 DEF SetValue, Ready
  <2>3. CASE EditDevice(t)
    BY <2>1, <2>3 DEF EditDevice, Ready
  <2>4. ASSUME NEW h \in Hubs, Pair(t, h)
        PROVE  Attended'
    BY <2>1, <2>4 DEF Pair, Ready
  <2>5. CASE RefreshInventory(t)
    BY <2>1, <2>5 DEF RefreshInventory, WantsInventory, Ready, Step
  <2>6. CASE PersistSpeakers(t)
    BY <2>1, <2>6 DEF PersistSpeakers, Ready, Step
  <2>7. CASE AskFromCache(t)
    <3> DEFINE b == <<t[1], "background">>
    <3>1. b \in Threads /\ t[1] \in Procs /\ (t = <<t[1], "main">> \/ t = b)
      BY DEF Threads
    <3>2. th[t].phase = "act" /\ th[t].job = "ask" /\ th[t].stage = 0
      BY <2>7 DEF AskFromCache, Ready
    <3>3. t # b /\ th[b].phase = "idle"
      BY <3>1, <3>2 DEF Structure, Backed
    <3>4. /\ th'[b] = [Idle EXCEPT !.phase = "load", !.job = "refresh"]
          /\ th'[t] = [th[t] EXCEPT !.stage = 1]
          /\ \A u \in Threads \ {t, b} : th'[u] = th[u]
      BY <1>0, <2>7, <3>1, <3>3 DEF AskFromCache, ThreadsOK
    <3>5. th'[b].phase = "load" /\ th'[t].phase = "act"
      BY <2>0, <3>2, <3>4 DEF Idle, ThreadRecords
    <3>6. \A u \in Threads : SameWriter(u) \/ NoWriter(u)
      BY <3>2, <3>3, <3>4, <3>5 DEF SameWriter, NoWriter, Writing, In
    <3>7. disk' = disk /\ mishap' = mishap
      BY <2>7 DEF AskFromCache
    <3> QED BY <3>6, <3>7, WritersKept
  <2>8. CASE Done(t)
    BY <1>3, <2>8 DEF Done
  <2> QED BY <1>6, <2>2, <2>3, <2>4, <2>5, <2>6, <2>7, <2>8 DEF Act
<1>7. ASSUME NEW t \in Threads, Save(t)
      PROVE  Attended'
  <2>0. th[t] \in ThreadRecords /\ th[t].file \in Files
    BY <1>0 DEF ThreadsOK, ThreadRecords
  <2> DEFINE f == th[t].file
  \* What a change of f does to the other writers.
  <2>1. ASSUME NEW new \in ThreadRecords, th' = Touch(t, f, new)
        PROVE  /\ th'[t] = new
               /\ \A u \in Threads \ {t}, g \in Files : Writing(u, g)' <=> Writing(u, g)
               /\ \A u \in Threads \ {t} : Writing(u, f) => f \in th'[u].stale
               /\ \A u \in Threads \ {t}, g \in Files \ {f} :
                     g \in th'[u].stale <=> g \in th[u].stale
    <3>1. th'[t] = new /\ \A u \in Threads \ {t} :
            th'[u] = IF HasRead(u, f) THEN [th[u] EXCEPT !.stale = @ \cup {f}] ELSE th[u]
      BY <2>1 DEF Touch
    <3>2. ASSUME NEW u \in Threads \ {t}
          PROVE  /\ th'[u].phase = th[u].phase /\ th'[u].file = th[u].file
                 /\ th'[u].unlinked = th[u].unlinked
                 /\ th'[u].stale = IF HasRead(u, f) THEN th[u].stale \cup {f} ELSE th[u].stale
      <4>1. th[u] \in ThreadRecords
        BY <1>0 DEF ThreadsOK
      <4> HIDE DEF f, HasRead
      <4> QED BY <3>1, <4>1 DEF ThreadRecords
    <3>3. \A u \in Threads : Writing(u, f) => HasRead(u, f)
      BY DEF Writing, In, HasRead
    <3> QED BY <3>1, <3>2, <3>3 DEF Writing, In
  <2>2. CASE Open(t)
    <3>1. /\ th' = Touch(t, f, Opened(t)) /\ th[t].phase = "open"
          /\ disk' = [disk EXCEPT ![f] = Unreadable("empty")] /\ mishap' = mishap
      BY <2>2 DEF Open
    <3>2. /\ Opened(t) \in ThreadRecords /\ Opened(t).phase = "write" /\ Opened(t).file = f
          /\ Opened(t).unlinked = th[t].unlinked
      BY <2>0 DEF Opened, ThreadRecords
    <3>3. ~th[t].unlinked
      BY <3>1 DEF Structure, Unlinked, In
    <3>4. \A g \in Files : (g = f => Writing(t, g)') /\ ~Writing(t, g)
      BY <2>1, <3>1, <3>2, <3>3 DEF Writing, In
    <3>5. /\ disk'[f].state = "empty"
          /\ \A g \in Files \ {f} : disk'[g] = disk[g]
      BY <1>0, <2>0, <3>1 DEF DiskOK, Unreadable
    <3>6. \A g \in Files \ {f} : ~Writing(t, g)'
      BY <2>1, <3>1, <3>2 DEF Writing, In
    <3> SUFFICES ASSUME mishap' \cap {"torn", "stale"} = {}
                 PROVE  /\ \A g \in Files : Damaged(g)' => \E u \in Threads : Writing(u, g)'
                        /\ \A u \in Threads, g \in Files :
                             (Writing(u, g) /\ g \notin th[u].stale)'
                             => disk'[g].state = "empty"
      BY DEF Attended
    <3>7. mishap \cap {"torn", "stale"} = {}
      BY <3>1
    <3> HIDE DEF f
    <3>8. ASSUME NEW g \in Files, Damaged(g)'
          PROVE  \E u \in Threads : Writing(u, g)'
      <4>1. CASE g = f
        BY <3>4, <4>1
      <4>2. CASE g # f
        <5>1. Damaged(g)
          BY <3>5, <3>8, <4>2 DEF Damaged
        <5>2. PICK u \in Threads : Writing(u, g)
          BY <3>7, <5>1 DEF Attended
        <5>3. u # t
          BY <3>4, <5>2
        <5> QED BY <2>1, <3>1, <3>2, <5>2, <5>3
      <4> QED BY <4>1, <4>2
    <3>9. ASSUME NEW u \in Threads, NEW g \in Files, (Writing(u, g) /\ g \notin th[u].stale)'
          PROVE  disk'[g].state = "empty"
      <4>1. CASE g = f
        BY <3>5, <4>1
      <4>2. CASE g # f
        <5>1. u # t
          BY <3>6, <3>9, <4>2
        <5>2. Writing(u, g) /\ g \notin th[u].stale
          BY <2>1, <3>1, <3>2, <3>9, <4>2, <5>1
        <5> QED BY <3>5, <3>7, <4>2, <5>2 DEF Attended
      <4> QED BY <4>1, <4>2
    <3> QED BY <3>8, <3>9
  <2>3. CASE Write(t)
    <3> SUFFICES ASSUME mishap' \cap {"torn", "stale"} = {}
                 PROVE  /\ \A g \in Files : Damaged(g)' => \E u \in Threads : Writing(u, g)'
                        /\ \A u \in Threads, g \in Files :
                             (Writing(u, g) /\ g \notin th[u].stale)'
                             => disk'[g].state = "empty"
      BY DEF Attended
    <3>1. PICK garbled \in BOOLEAN :
            LET file == Result(f, Content(th[t].cfg, f), garbled)
            IN
              /\ disk' = [disk EXCEPT ![f] = file]
              /\ newest' = IF file.state = "ok" THEN Newest(t, f) ELSE newest
              /\ newer' = (newer /\ f # "cache")
              /\ th' = Touch(t, f, Written(t))
              /\ mishap' = mishap \cup (IF f \in th[t].stale THEN {"stale"} ELSE {})
      BY <2>3 DEF Write
    <3>2. Writing(t, f) /\ f \notin th[t].stale /\ mishap \cap {"torn", "stale"} = {}
      BY <2>3, <3>1 DEF Write, Writing, In
    <3>3. disk[f].state = "empty"
      BY <2>0, <3>2 DEF Attended
    <3>4. /\ disk'[f].state = "ok"
          /\ \A g \in Files \ {f} : disk'[g] = disk[g]
      BY <1>0, <2>0, <3>1, <3>3 DEF DiskOK, Result, Intact
    <3>5. Written(t) \in ThreadRecords /\ Written(t).phase # "write"
      BY <2>0, WrittenSteps DEF Files
    <3>6. \A g \in Files : ~Writing(t, g)'
      BY <2>1, <3>1, <3>5 DEF Writing, In
    <3>7. \A g \in Files \ {f} : ~Writing(t, g)
      BY DEF Writing, In
    <3> HIDE DEF f
    <3>8. ASSUME NEW g \in Files, Damaged(g)'
          PROVE  \E u \in Threads : Writing(u, g)'
      <4>1. g # f /\ Damaged(g)
        BY <3>4, <3>8 DEF Damaged
      <4>2. PICK u \in Threads : Writing(u, g)
        BY <3>2, <4>1 DEF Attended
      <4>3. u # t
        BY <3>7, <4>1, <4>2
      <4> QED BY <2>1, <3>1, <3>5, <4>2, <4>3
    <3>9. ASSUME NEW u \in Threads, NEW g \in Files, (Writing(u, g) /\ g \notin th[u].stale)'
          PROVE  disk'[g].state = "empty"
      <4>1. u # t
        BY <3>6, <3>9
      <4>2. Writing(u, g) /\ g # f /\ g \notin th[u].stale
        BY <2>1, <3>1, <3>5, <3>9, <4>1
      <4> QED BY <3>2, <3>4, <4>2 DEF Attended
    <3> QED BY <3>8, <3>9
  <2>4. CASE WriteUnlinked(t)
    <3>1. th' = [th EXCEPT ![t] = Written(t)] /\ th[t].unlinked /\ disk' = disk
          /\ mishap' = mishap
      BY <2>4 DEF WriteUnlinked, Step
    <3>2. Written(t).phase # "write"
      BY <2>0, WrittenSteps DEF Files
    <3> QED BY <1>1, <3>1, <3>2
  <2> QED BY <1>7, <2>2, <2>3, <2>4 DEF Save
<1>8. ASSUME NEW p \in Procs, Kill(p)
      PROVE  Attended'
  <2>1. Ends
    BY <1>8, EndKinds DEF Kill, Still
  <2>2. \A u \in Threads : th'[u] = th[u] \/ th'[u] = Idle
    BY <1>8 DEF Kill, Ended
  <2> QED BY <1>2, <1>8, <2>1, <2>2 DEF Kill
<1>9. ASSUME NEW f \in Files, RemoveDamaged(f)
      PROVE  Attended'
  <2>1. /\ \A g \in Files : disk'[g] = IF g = f THEN Absent ELSE disk[g]
        /\ th' = th /\ mishap \subseteq mishap' /\ Quiet
    BY <1>0, <1>9 DEF RemoveDamaged, DiskOK
  <2>2. \A u \in Threads, g \in Files : ~Writing(u, g) /\ ~Writing(u, g)'
    BY <2>1 DEF Quiet, Writing, In
  <2> QED BY <2>1, <2>2, WritersKept DEF SameWriter, Absent
<1>10. CASE Rebuild
  BY <1>10, WritersKept DEF Rebuild, SameWriter
<1>11. CASE UNCHANGED vars
  BY <1>11, WritersKept DEF vars, SameWriter
<1> QED BY <1>4, <1>5, <1>6, <1>7, <1>8, <1>9, <1>10, <1>11 DEF Next

\* A file no command can parse is the work of a save that was cut off or of
\* two saves at once (config.go, Save).
THEOREM DamageExplained == Spec => []DamageNeedsMishap
<1>1. Init => Attended
  BY DEF Init, Idle, Attended, Damaged, Fresh, FirstRelease, Today, Absent, Intact, Files,
         Writing, In
<1>2. Attended => DamageNeedsMishap
  BY DEF Attended, DamageNeedsMishap, AtRest, Writing
<1> QED BY <1>1, <1>2, AttendedKept, StructureHolds, PTL DEF Spec

-----------------------------------------------------------------------------
(* What the threads have read.                                             *)

LEMMA Reading ==
    /\ \A u \in Threads : /\ HasRead(u, "tokens") => HasRead(u, "config")
                          /\ HasRead(u, "cache") => HasRead(u, "tokens")
                          /\ \A f \in Files : th[u].phase \in {"act", "open", "write"}
                                              => HasRead(u, f)
                          /\ \A f \in Files : th[u].phase = "idle" => ~HasRead(u, f)
    /\ \A u \in Threads, f \in Files : Alike(u) => (HasRead(u, f)' <=> HasRead(u, f))
BY DEF HasRead, Files, Alike

\* Before it has read config.json a thread has nothing.
Unread == \A u \in Threads : ~HasRead(u, "config") =>
                                th[u].cfg = EmptyConfig /\ th[u].stale = {}

LEMMA UnreadKept == TypeOK /\ Structure /\ Unread /\ [Next]_vars => Unread'
<1> SUFFICES ASSUME TypeOK, Structure, Unread, [Next]_vars PROVE Unread'
  OBVIOUS
<1>0. ASSUME NEW u \in Threads
      PROVE  /\ Same(u) => (~HasRead(u, "config") => th[u].cfg = EmptyConfig /\ th[u].stale = {})'
             /\ \A f \in Files : Marked(u, f) =>
                   (~HasRead(u, "config") => th[u].cfg = EmptyConfig /\ th[u].stale = {})'
             /\ th'[u].phase \in {"act", "open", "write"} => HasRead(u, "config")'
             /\ In(u, "load", "tokens")' => HasRead(u, "config")'
             /\ In(u, "load", "cache")' => HasRead(u, "config")'
  <2>1. Alike(u) => (HasRead(u, "config")' <=> HasRead(u, "config"))
    BY Reading DEF Files
  <2>2. Same(u) => (~HasRead(u, "config") => th[u].cfg = EmptyConfig /\ th[u].stale = {})'
    BY <2>1 DEF Same, Alike, Unread
  <2>3. ASSUME NEW f \in Files, Marked(u, f), ~HasRead(u, "config")'
        PROVE  th'[u].cfg = EmptyConfig /\ th'[u].stale = {}
    <3>1. ~HasRead(u, "config")
      BY <2>1, <2>3 DEF Marked
    <3>2. ~HasRead(u, f)
      BY <3>1, Reading DEF Files
    <3> QED BY <2>3, <3>1, <3>2 DEF Marked, Alike, Unread
  <2> QED BY <2>2, <2>3 DEF HasRead, In
<1>1. Kinds
  BY StepKinds
<1>2. ASSUME NEW t \in Threads,
             Begins(t) \/ ReadsNone(t) \/ ReadsConfig(t) \/ ReadsTokens(t) \/ Works(t)
      PROVE  Unread'
  <2>1. Others(t)
    BY <1>2 DEF Begins, ReadsNone, ReadsConfig, ReadsTokens, Works
  <2>2. \/ th'[t].cfg = EmptyConfig /\ th'[t].stale = {}
        \/ HasRead(t, "config")'
    BY <1>0, <1>2 DEF Begins, ReadsNone, ReadsConfig, ReadsTokens, Works, In
  <2> QED BY <1>0, <2>1, <2>2 DEF Others, Unread
<1>3. ASSUME NEW t \in Threads, NEW f \in Files, Opens(t, f) \/ Writes(t, f)
      PROVE  Unread'
  <2>1. th'[t].phase \in {"act", "open", "write"} /\ \A u \in Threads \ {t} : Marked(u, f)
    BY <1>3 DEF Opens, Writes, Files
  <2> QED BY <1>0, <2>1 DEF Unread
<1>4. CASE Ends
  BY <1>0, <1>4 DEF Ends, Unread, Idle
<1>5. ASSUME \A u \in Threads : Same(u)
      PROVE  Unread'
  BY <1>0, <1>5 DEF Unread
<1> QED BY <1>1, <1>2, <1>3, <1>4, <1>5 DEF Kinds, Removes, Rests

\* Mishaps are never forgotten.
LEMMA MishapsStay ==
    ASSUME Kinds
    PROVE  mishap \subseteq mishap'
BY DEF Kinds, Begins, ReadsNone, ReadsConfig, ReadsTokens, Works, Ends, Opens, Writes,
       Removes, Rests

-----------------------------------------------------------------------------
(* Hubs and tokens.                                                        *)

Tokened(token) == {h \in Hubs : token[h] # 0}

\* With an up-to-date copy of config.json.
Holds(u) == HasRead(u, "config") /\ "config" \notin th[u].stale

SavesTokens(t) == th[t].phase \in {"open", "write"} /\ th[t].file = "tokens"

InTokensFile == Tokened(Stored)

\* config.json is there before tokens.json.
ConfigFirst ==
    "removed" \notin mishap =>
        /\ disk["tokens"].state # "absent" => disk["config"].state # "absent"
        /\ \A t \in Threads : SavesTokens(t) => disk["config"].state # "absent"

\* Whoever has a token has the hub: config.json as long as it can be read,
\* every thread whose copy is up to date; and the tokens that are being
\* saved are those of hubs in config.json and in every such copy.
WholeFile ==
    disk["config"].state = "ok" =>
        /\ disk["config"].data.blank = {}
        /\ Tokened(disk["config"].data.token) \subseteq disk["config"].data.named
        /\ InTokensFile \subseteq disk["config"].data.named

WholeCopies ==
    \A u \in Threads : Holds(u) =>
        /\ th[u].cfg.blank = {}
        /\ Tokened(th[u].cfg.token) \subseteq th[u].cfg.named
        /\ InTokensFile \subseteq th[u].cfg.named

WholeSaves ==
    \A t \in Threads : SavesTokens(t) =>
        /\ disk["config"].state = "ok" =>
              Tokened(th[t].cfg.token) \subseteq disk["config"].data.named
        /\ \A u \in Threads \ {t} : Holds(u) =>
              Tokened(th[t].cfg.token) \subseteq th[u].cfg.named

Undisturbed == mishap \cap {"stale", "removed"} = {}

Whole == ConfigFirst /\ (Undisturbed => WholeFile /\ WholeCopies /\ WholeSaves)

LEMMA ConfigFirstKept ==
    TypeOK /\ Structure /\ Unread /\ ConfigFirst /\ [Next]_vars => ConfigFirst'
<1> SUFFICES ASSUME TypeOK, Structure, ConfigFirst, [Next]_vars, "removed" \notin mishap'
             PROVE  /\ disk'["tokens"].state # "absent" => disk'["config"].state # "absent"
                    /\ \A t \in Threads : SavesTokens(t)' => disk'["config"].state # "absent"
  BY DEF ConfigFirst
<1>0. DiskOK /\ ThreadsOK
  BY TypesParted
<1>1. Kinds /\ "removed" \notin mishap
  BY StepKinds, MishapsStay
<1>2. \A u \in Threads, f \in Files :
        Same(u) \/ Marked(u, f) => (SavesTokens(u)' <=> SavesTokens(u))
  BY DEF Same, Marked, Alike, SavesTokens
<1>3. "config" \in Files /\ "tokens" \in Files
  BY DEF Files
<1>4. ASSUME NEW t \in Threads,
             Begins(t) \/ ReadsNone(t) \/ ReadsConfig(t) \/ ReadsTokens(t) \/ Works(t)
      PROVE  /\ disk'["tokens"].state # "absent" => disk'["config"].state # "absent"
             /\ \A u \in Threads : SavesTokens(u)' => disk'["config"].state # "absent"
  <2>1. Others(t) /\ disk'["tokens"] = disk["tokens"] /\ disk'["config"] = disk["config"]
    BY <1>4 DEF Begins, ReadsNone, ReadsConfig, ReadsTokens, Works, Still
  <2>2. ~SavesTokens(t)'
    BY <1>4 DEF Begins, ReadsNone, ReadsConfig, ReadsTokens, Works, SavesTokens
  <2> QED BY <1>1, <1>2, <1>3, <2>1, <2>2 DEF Others, ConfigFirst
<1>5. ASSUME NEW t \in Threads, NEW f \in Files, Opens(t, f)
      PROVE  /\ disk'["tokens"].state # "absent" => disk'["config"].state # "absent"
             /\ \A u \in Threads : SavesTokens(u)' => disk'["config"].state # "absent"
  <2>1. disk'[f].state = "empty" /\ \A g \in Files \ {f} : disk'[g] = disk[g]
    BY <1>0, <1>5 DEF Opens, DiskOK, Unreadable
  <2>2. \A u \in Threads : SavesTokens(u)' <=> SavesTokens(u)
    BY <1>2, <1>5 DEF Opens, SavesTokens, In
  <2>3. f = "tokens" => SavesTokens(t)
    BY <1>5 DEF Opens, SavesTokens, In
  <2> QED BY <1>1, <1>3, <2>1, <2>2, <2>3 DEF ConfigFirst
<1>6. ASSUME NEW t \in Threads, NEW f \in Files, Writes(t, f)
      PROVE  /\ disk'["tokens"].state # "absent" => disk'["config"].state # "absent"
             /\ \A u \in Threads : SavesTokens(u)' => disk'["config"].state # "absent"
  <2>1. disk'[f].state # "absent" /\ \A g \in Files \ {f} : disk'[g] = disk[g]
    BY <1>0, <1>6 DEF Writes, WritesOver, Result, Intact, Unreadable, DiskOK
  <2>2. \A u \in Threads \ {t} : SavesTokens(u)' <=> SavesTokens(u)
    BY <1>2, <1>6 DEF Writes
  <2>3. (f = "tokens" => SavesTokens(t)) /\ (SavesTokens(t)' => f = "config")
    BY <1>6 DEF Writes, SavesTokens, In, Files
  <2> QED BY <1>1, <1>3, <2>1, <2>2, <2>3 DEF ConfigFirst
<1>7. CASE Ends
  <2>1. \A u \in Threads : SavesTokens(u)' => SavesTokens(u)
    BY <1>2, <1>3, <1>7 DEF Ends, Idle, SavesTokens
  <2> QED BY <1>1, <1>7, <2>1 DEF Ends, Still, ConfigFirst
<1>8. CASE Removes
  BY <1>8 DEF Removes
<1>9. CASE Rests
  BY <1>1, <1>2, <1>3, <1>9 DEF Rests, Still, ConfigFirst
<1> QED BY <1>1, <1>4, <1>5, <1>6, <1>7, <1>8, <1>9 DEF Kinds

\* Reading tokens.json, setting a value and pairing, field by field.
LEMMA Fielded ==
    ASSUME NEW cfg \in Configs
    PROVE  /\ \A stored \in [Hubs -> Nat] :
                /\ WithTokens(cfg, stored).set = cfg.set
                /\ WithTokens(cfg, stored).named = cfg.named
                /\ WithTokens(cfg, stored).blank =
                      cfg.blank \cup {h \in Hubs : stored[h] # 0 /\ h \notin Known(cfg)}
                /\ \A h \in Hubs : WithTokens(cfg, stored).token[h] =
                      IF stored[h] # 0 THEN stored[h] ELSE cfg.token[h]
           /\ \A f, n : /\ WithValue(cfg, f, n).named = cfg.named
                        /\ WithValue(cfg, f, n).blank = cfg.blank
                        /\ WithValue(cfg, f, n).token = cfg.token
                        /\ \A g \in Fields : WithValue(cfg, f, n).set[g] =
                              IF g = f THEN n ELSE cfg.set[g]
           /\ \A h \in Hubs : \A n :
                /\ SetHub(cfg, h, n).set = cfg.set
                /\ SetHub(cfg, h, n).named = cfg.named \cup {h}
                /\ SetHub(cfg, h, n).blank = cfg.blank \ {h}
                /\ \A g \in Hubs : SetHub(cfg, h, n).token[g] =
                      IF g = h THEN n ELSE cfg.token[g]
<1>1. ASSUME NEW stored \in [Hubs -> Nat]
      PROVE  /\ WithTokens(cfg, stored).set = cfg.set
             /\ WithTokens(cfg, stored).named = cfg.named
             /\ WithTokens(cfg, stored).blank =
                   cfg.blank \cup {h \in Hubs : stored[h] # 0 /\ h \notin Known(cfg)}
             /\ \A h \in Hubs : WithTokens(cfg, stored).token[h] =
                   IF stored[h] # 0 THEN stored[h] ELSE cfg.token[h]
  <2> DEFINE token == [h \in Hubs |-> IF stored[h] # 0 THEN stored[h] ELSE cfg.token[h]]
             blank == cfg.blank \cup {h \in Hubs : stored[h] # 0 /\ h \notin Known(cfg)}
  <2>1. WithTokens(cfg, stored) = [cfg EXCEPT !.token = token, !.blank = blank]
    BY DEF WithTokens
  <2>2. \A h \in Hubs : token[h] = IF stored[h] # 0 THEN stored[h] ELSE cfg.token[h]
    OBVIOUS
  <2> HIDE DEF token
  <2>3. WithTokens(cfg, stored).token = token
    BY <2>1 DEF Configs
  <2>4. WithTokens(cfg, stored).blank = blank
    BY <2>1 DEF Configs
  <2>5. WithTokens(cfg, stored).set = cfg.set /\ WithTokens(cfg, stored).named = cfg.named
    BY <2>1 DEF Configs
  <2> QED BY <2>2, <2>3, <2>4, <2>5
<1>2. ASSUME NEW f, NEW n
      PROVE  /\ WithValue(cfg, f, n).named = cfg.named
             /\ WithValue(cfg, f, n).blank = cfg.blank
             /\ WithValue(cfg, f, n).token = cfg.token
             /\ \A g \in Fields : WithValue(cfg, f, n).set[g] =
                   IF g = f THEN n ELSE cfg.set[g]
  BY DEF WithValue, Configs
<1>3. ASSUME NEW h \in Hubs, NEW n
      PROVE  /\ SetHub(cfg, h, n).set = cfg.set
             /\ SetHub(cfg, h, n).named = cfg.named \cup {h}
             /\ SetHub(cfg, h, n).blank = cfg.blank \ {h}
             /\ \A g \in Hubs : SetHub(cfg, h, n).token[g] =
                   IF g = h THEN n ELSE cfg.token[g]
  BY DEF SetHub, Configs
<1> QED BY <1>1, <1>2, <1>3

LEMMA HoldsKept ==
    ASSUME NEW u \in Threads
    PROVE  /\ Same(u) => (Holds(u)' <=> Holds(u)) /\ (SavesTokens(u)' <=> SavesTokens(u))
           /\ \A f \in Files : Marked(u, f) =>
                /\ Holds(u)' => Holds(u) /\ f # "config"
                /\ SavesTokens(u)' <=> SavesTokens(u)
<1>1. "config" \in Files
  BY DEF Files
<1>2. Alike(u) => (HasRead(u, "config")' <=> HasRead(u, "config"))
                  /\ (SavesTokens(u)' <=> SavesTokens(u))
  BY <1>1, Reading DEF Alike, SavesTokens
<1> QED BY <1>2 DEF Same, Marked, Holds

LEMMA StoredTypes == TypeOK => Stored \in [Hubs -> Nat]
BY EmptyTypes DEF TypeOK, Stored

LEMMA WholeKept ==
    TypeOK /\ TypeOK' /\ Structure /\ Unread /\ Whole /\ [Next]_vars => Whole'
<1> SUFFICES ASSUME TypeOK, TypeOK', Structure, Unread, Whole, [Next]_vars, Undisturbed'
             PROVE  WholeFile' /\ WholeCopies' /\ WholeSaves'
  BY ConfigFirstKept DEF Whole
<1>0. DiskOK /\ ThreadsOK /\ \A u \in Threads : th[u] \in ThreadRecords /\ th[u].cfg \in Configs
  BY TypesParted DEF ThreadsOK, ThreadRecords
<1>1. Kinds
  BY StepKinds
<1>2. Undisturbed /\ WholeFile /\ WholeCopies /\ WholeSaves /\ ConfigFirst
      /\ "removed" \notin mishap
  BY <1>1, MishapsStay DEF Undisturbed, Whole
<1>3. "config" \in Files /\ "tokens" \in Files /\ "cache" \in Files
  BY DEF Files
<1>4. Stored \in [Hubs -> Nat]
  BY StoredTypes
\* A step of one thread that leaves the two files alone.
<1>5. ASSUME NEW t \in Threads, Others(t), ~SavesTokens(t)',
             disk'["config"] = disk["config"], disk'["tokens"] = disk["tokens"],
             Holds(t)' => /\ th'[t].cfg.blank = {}
                          /\ Tokened(th'[t].cfg.token) \subseteq th'[t].cfg.named
                          /\ InTokensFile \subseteq th'[t].cfg.named,
             Holds(t)' => \A s \in Threads \ {t} : SavesTokens(s) =>
                            Tokened(th[s].cfg.token) \subseteq th'[t].cfg.named
      PROVE  WholeFile' /\ WholeCopies' /\ WholeSaves'
  <2>1. \A u \in Threads \ {t} : /\ th'[u].cfg = th[u].cfg
                                 /\ Holds(u)' <=> Holds(u)
                                 /\ SavesTokens(u)' <=> SavesTokens(u)
    BY <1>5, HoldsKept DEF Others, Same, Alike
  <2>2. InTokensFile' = InTokensFile
    BY <1>5 DEF InTokensFile, Stored, Tokened
  <2>3. WholeFile'
    BY <1>2, <1>5, <2>2 DEF WholeFile, Tokened
  <2>4. WholeCopies'
    <3> SUFFICES ASSUME NEW u \in Threads, Holds(u)'
                 PROVE  /\ th'[u].cfg.blank = {}
                        /\ Tokened(th'[u].cfg.token) \subseteq th'[u].cfg.named
                        /\ InTokensFile \subseteq th'[u].cfg.named
      BY <2>2 DEF WholeCopies, Tokened
    <3> QED BY <1>2, <1>5, <2>1 DEF WholeCopies
  <2>5. WholeSaves'
    <3> SUFFICES ASSUME NEW s \in Threads, SavesTokens(s)'
                 PROVE  /\ disk["config"].state = "ok" =>
                              Tokened(th'[s].cfg.token) \subseteq disk["config"].data.named
                        /\ \A u \in Threads \ {s} : Holds(u)' =>
                              Tokened(th'[s].cfg.token) \subseteq th'[u].cfg.named
      BY <1>5 DEF WholeSaves, Tokened
    <3>1. s # t /\ SavesTokens(s) /\ th'[s].cfg = th[s].cfg
      BY <1>5, <2>1
    <3> QED BY <1>2, <1>5, <2>1, <3>1 DEF WholeSaves
  <2> QED BY <2>3, <2>4, <2>5
<1>6. ASSUME NEW t \in Threads, Begins(t)
      PROVE  WholeFile' /\ WholeCopies' /\ WholeSaves'
  <2>1. ~Holds(t)' /\ ~SavesTokens(t)'
    BY <1>6 DEF Begins, Holds, HasRead, SavesTokens
  <2> QED BY <1>5, <1>6, <2>1 DEF Begins, Still
<1>7. ASSUME NEW t \in Threads, ReadsNone(t)
      PROVE  WholeFile' /\ WholeCopies' /\ WholeSaves'
  <2>1. ~SavesTokens(t)' /\ th'[t].cfg = EmptyConfig
    BY <1>7 DEF ReadsNone, SavesTokens
  <2>2. disk["tokens"].state = "absent" /\ \A s \in Threads : ~SavesTokens(s)
    BY <1>2, <1>7 DEF ReadsNone, ConfigFirst
  <2>3. InTokensFile = {} /\ EmptyConfig.blank = {} /\ Tokened(EmptyConfig.token) = {}
    BY <2>2 DEF InTokensFile, Stored, Tokened, NoTokens, EmptyConfig
  <2> QED BY <1>5, <1>7, <2>1, <2>2, <2>3 DEF ReadsNone, Still
<1>8. ASSUME NEW t \in Threads, ReadsConfig(t)
      PROVE  WholeFile' /\ WholeCopies' /\ WholeSaves'
  <2>1. ~SavesTokens(t)' /\ th'[t].cfg = disk["config"].data /\ disk["config"].state = "ok"
    BY <1>8 DEF ReadsConfig, SavesTokens
  <2> QED BY <1>2, <1>5, <1>8, <2>1 DEF ReadsConfig, Still, WholeFile, WholeSaves
<1>9. ASSUME NEW t \in Threads, ReadsTokens(t)
      PROVE  WholeFile' /\ WholeCopies' /\ WholeSaves'
  <2> DEFINE c == th[t].cfg
             d == th'[t].cfg
  <2>1. /\ d.named = c.named
        /\ d.blank = c.blank \cup {h \in Hubs : Stored[h] # 0 /\ h \notin Known(c)}
        /\ \A h \in Hubs : d.token[h] = IF Stored[h] # 0 THEN Stored[h] ELSE c.token[h]
    BY <1>0, <1>4, <1>9, Fielded DEF ReadsTokens
  <2>2. ~SavesTokens(t)'
    BY <1>9 DEF ReadsTokens, SavesTokens
  <2>3. Holds(t)' => Holds(t)
    BY <1>9 DEF ReadsTokens, In, Holds, HasRead
  <2>4. Holds(t)' => /\ d.blank = {} /\ Tokened(d.token) \subseteq d.named
                     /\ InTokensFile \subseteq d.named
    <3> SUFFICES ASSUME Holds(t)'
                 PROVE  d.blank = {} /\ Tokened(d.token) \subseteq d.named
                        /\ InTokensFile \subseteq d.named
      OBVIOUS
    <3>1. c.blank = {} /\ Tokened(c.token) \subseteq c.named /\ InTokensFile \subseteq c.named
      BY <1>2, <2>3 DEF WholeCopies
    <3>2. Tokened(d.token) \subseteq Tokened(c.token) \cup InTokensFile
      BY <2>1 DEF Tokened, InTokensFile
    <3>3. \A h \in Hubs : Stored[h] # 0 => h \in Known(c)
      BY <3>1 DEF InTokensFile, Tokened, Known
    <3> QED BY <2>1, <3>1, <3>2, <3>3
  <2>5. Holds(t)' => \A s \in Threads \ {t} : SavesTokens(s) =>
                        Tokened(th[s].cfg.token) \subseteq d.named
    BY <1>2, <2>1, <2>3 DEF WholeSaves
  <2> QED BY <1>5, <1>9, <2>2, <2>4, <2>5 DEF ReadsTokens, Still
<1>10. ASSUME NEW t \in Threads, Works(t)
       PROVE  WholeFile' /\ WholeCopies' /\ WholeSaves'
  <2> DEFINE c == th[t].cfg
             d == th'[t].cfg
  <2>1. ~SavesTokens(t)'
    BY <1>10 DEF Works, SavesTokens
  <2>2. Holds(t)' => Holds(t)
    BY <1>10 DEF Works, AtCommand, In, Holds, HasRead
  <2>3. c.named \subseteq d.named /\ d.blank \subseteq c.blank
        /\ Tokened(d.token) \subseteq Tokened(c.token) \cup d.named
    <3>1. CASE Keeps(t)
      BY <3>1 DEF Keeps
    <3>2. CASE Sets(t)
      BY <1>0, <3>2, Fielded DEF Sets
    <3>3. CASE Pairs(t)
      <4>1. PICK h \in Hubs : d = SetHub(c, h, stamp + 1)
        BY <3>3 DEF Pairs
      <4>2. /\ d.named = c.named \cup {h} /\ d.blank = c.blank \ {h}
            /\ \A g \in Hubs \ {h} : d.token[g] = c.token[g]
        BY <1>0, <4>1, Fielded
      <4> QED BY <4>2 DEF Tokened
    <3> QED BY <1>10, <3>1, <3>2, <3>3 DEF Works
  <2>4. Holds(t)' => /\ d.blank = {} /\ Tokened(d.token) \subseteq d.named
                     /\ InTokensFile \subseteq d.named
    BY <1>2, <2>2, <2>3 DEF WholeCopies
  <2>5. Holds(t)' => \A s \in Threads \ {t} : SavesTokens(s) =>
                        Tokened(th[s].cfg.token) \subseteq d.named
    BY <1>2, <2>2, <2>3 DEF WholeSaves
  <2> QED BY <1>5, <1>10, <2>1, <2>4, <2>5 DEF Works
<1>11. ASSUME NEW t \in Threads, NEW f \in Files, Opens(t, f)
       PROVE  WholeFile' /\ WholeCopies' /\ WholeSaves'
  <2>1. disk'[f] = Unreadable("empty") /\ \A g \in Files \ {f} : disk'[g] = disk[g]
    BY <1>0, <1>11 DEF Opens, DiskOK
  <2>2. /\ \A u \in Threads : /\ th'[u].cfg = th[u].cfg
                              /\ Holds(u)' => Holds(u)
                              /\ SavesTokens(u)' <=> SavesTokens(u)
        /\ f = "config" => \A u \in Threads \ {t} : ~Holds(u)'
    <3>1. Holds(t)' => Holds(t)
      BY <1>11 DEF Opens, In, Holds, HasRead
    <3>2. SavesTokens(t)' <=> SavesTokens(t)
      BY <1>11 DEF Opens, In, SavesTokens
    <3> QED BY <1>11, <3>1, <3>2, HoldsKept DEF Opens, Marked, Alike
  <2>3. InTokensFile' \subseteq InTokensFile
    BY <1>3, <2>1 DEF InTokensFile, Stored, Tokened, Unreadable, NoTokens
  <2>4. disk'["config"].state = "ok" => disk'["config"] = disk["config"]
    BY <1>3, <2>1 DEF Unreadable
  <2>5. WholeFile'
    BY <1>2, <2>3, <2>4 DEF WholeFile, Tokened
  <2>6. WholeCopies'
    BY <1>2, <2>2, <2>3 DEF WholeCopies, Tokened
  <2>7. WholeSaves'
    BY <1>2, <2>2, <2>4 DEF WholeSaves, Tokened
  <2> QED BY <2>5, <2>6, <2>7
<1>12. ASSUME NEW t \in Threads, NEW f \in Files, Writes(t, f)
       PROVE  WholeFile' /\ WholeCopies' /\ WholeSaves'
  <2> DEFINE c == th[t].cfg
  <2>0. c \in Configs /\ th[t].phase = "write" /\ th[t].file = f /\ th'[t].cfg = c
    BY <1>0, <1>12 DEF Writes, In
  <2>1. /\ \/ disk'[f] = Intact(Content(c, f))
           \/ disk'[f] = Unreadable("garbled")
        /\ \A g \in Files \ {f} : disk'[g] = disk[g]
    BY <1>0, <1>12 DEF Writes, WritesOver, Result, DiskOK
  <2>2. f \notin th[t].stale
    BY <1>12 DEF Writes, Undisturbed
  <2>3. \A u \in Threads \ {t} : /\ th'[u].cfg = th[u].cfg
                                 /\ Holds(u)' => Holds(u) /\ f # "config"
                                 /\ SavesTokens(u)' <=> SavesTokens(u)
    BY <1>12, HoldsKept DEF Writes, Marked, Alike
  <2>4. (Holds(t)' => Holds(t)) /\ (SavesTokens(t)' <=> f = "config")
    BY <1>12 DEF Writes, In, Holds, HasRead, SavesTokens, Files
  <2>5. CASE f = "config"
    <3>1. Holds(t)
      BY <2>0, <2>2, <2>5 DEF Holds, HasRead
    <3>2. /\ c.blank = {} /\ Tokened(c.token) \subseteq c.named /\ InTokensFile \subseteq c.named
      BY <1>2, <3>1 DEF WholeCopies
    <3>3. InTokensFile' = InTokensFile
      BY <1>3, <2>1, <2>5 DEF InTokensFile, Stored, Tokened
    <3>4. disk'["config"].state = "ok" =>
            /\ disk'["config"].data.blank = {} /\ disk'["config"].data.token = NoTokens
            /\ disk'["config"].data.named = c.named
      BY <2>0, <2>1, <2>5, <3>2, ContentTypes DEF Intact, Unreadable
    <3>5. Tokened(NoTokens) = {}
      BY DEF Tokened, NoTokens
    <3>6. WholeFile'
      BY <3>2, <3>3, <3>4, <3>5 DEF WholeFile, Tokened
    <3>7. WholeCopies'
      <4> SUFFICES ASSUME NEW u \in Threads, Holds(u)'
                   PROVE  /\ th'[u].cfg.blank = {}
                          /\ Tokened(th'[u].cfg.token) \subseteq th'[u].cfg.named
                          /\ InTokensFile \subseteq th'[u].cfg.named
        BY <3>3 DEF WholeCopies, Tokened
      <4>1. u = t
        BY <2>3, <2>5
      <4> QED BY <2>0, <3>2, <4>1
    <3>8. WholeSaves'
      <4> SUFFICES ASSUME NEW s \in Threads, SavesTokens(s)'
                   PROVE  /\ disk'["config"].state = "ok" =>
                                Tokened(th'[s].cfg.token) \subseteq disk'["config"].data.named
                          /\ \A u \in Threads \ {s} : Holds(u)' =>
                                Tokened(th'[s].cfg.token) \subseteq th'[u].cfg.named
        BY DEF WholeSaves, Tokened
      <4>1. CASE s = t
        BY <2>0, <2>3, <2>5, <3>2, <3>4, <4>1
      <4>2. CASE s # t
        <5>1. Tokened(th[s].cfg.token) \subseteq c.named /\ th'[s].cfg = th[s].cfg
          BY <1>2, <2>3, <3>1, <4>2 DEF WholeSaves
        <5> QED BY <2>0, <2>3, <2>5, <3>4, <5>1
      <4> QED BY <4>1, <4>2
    <3> QED BY <3>6, <3>7, <3>8
  <2>6. CASE f = "tokens"
    <3>1. SavesTokens(t) /\ ~SavesTokens(t)'
      BY <2>0, <2>4, <2>6 DEF SavesTokens
    <3>2. InTokensFile' \subseteq Tokened(c.token)
      <4>1. CASE disk'["tokens"] = Intact(Content(c, "tokens"))
        BY <2>0, <4>1, ContentTypes DEF InTokensFile, Stored, Tokened, Intact
      <4>2. CASE disk'["tokens"] = Unreadable("garbled")
        BY <4>2 DEF InTokensFile, Stored, Tokened, Unreadable, NoTokens
      <4> QED BY <2>1, <2>6, <4>1, <4>2
    <3>3. disk'["config"] = disk["config"]
      BY <1>3, <2>1, <2>6
    <3>4. WholeFile'
      BY <1>2, <3>1, <3>2, <3>3 DEF WholeFile, WholeSaves, Tokened
    <3>5. WholeCopies'
      <4> SUFFICES ASSUME NEW u \in Threads, Holds(u)'
                   PROVE  /\ th'[u].cfg.blank = {}
                          /\ Tokened(th'[u].cfg.token) \subseteq th'[u].cfg.named
                          /\ InTokensFile' \subseteq th'[u].cfg.named
        BY DEF WholeCopies, Tokened
      <4>1. Holds(u) /\ th'[u].cfg = th[u].cfg
        BY <2>0, <2>3, <2>4
      <4>2. Tokened(c.token) \subseteq th[u].cfg.named
        BY <1>2, <3>1, <4>1 DEF WholeCopies, WholeSaves
      <4> QED BY <1>2, <3>2, <4>1, <4>2 DEF WholeCopies
    <3>6. WholeSaves'
      <4> SUFFICES ASSUME NEW s \in Threads, SavesTokens(s)'
                   PROVE  /\ disk["config"].state = "ok" =>
                                Tokened(th'[s].cfg.token) \subseteq disk["config"].data.named
                          /\ \A u \in Threads \ {s} : Holds(u)' =>
                                Tokened(th'[s].cfg.token) \subseteq th'[u].cfg.named
        BY <3>3 DEF WholeSaves, Tokened
      <4>1. s # t /\ SavesTokens(s) /\ th'[s].cfg = th[s].cfg
        BY <2>3, <3>1
      <4>2. \A u \in Threads : Holds(u)' => Holds(u) /\ th'[u].cfg = th[u].cfg
        BY <2>0, <2>3, <2>4
      <4> QED BY <1>2, <4>1, <4>2 DEF WholeSaves
    <3> QED BY <3>4, <3>5, <3>6
  <2>7. CASE f = "cache"
    <3>1. disk'["config"] = disk["config"] /\ disk'["tokens"] = disk["tokens"]
      BY <1>3, <2>1, <2>7
    <3>2. InTokensFile' = InTokensFile
      BY <3>1 DEF InTokensFile, Stored, Tokened
    <3>3. \A u \in Threads : /\ Holds(u)' => Holds(u)
                             /\ SavesTokens(u)' => SavesTokens(u)
                             /\ th'[u].cfg = th[u].cfg
      BY <2>0, <2>3, <2>4, <2>7
    <3>4. WholeFile'
      BY <1>2, <3>1, <3>2 DEF WholeFile, Tokened
    <3>5. WholeCopies'
      BY <1>2, <3>2, <3>3 DEF WholeCopies, Tokened
    <3>6. WholeSaves'
      BY <1>2, <3>1, <3>3 DEF WholeSaves, Tokened
    <3> QED BY <3>4, <3>5, <3>6
  <2> QED BY <2>5, <2>6, <2>7 DEF Files
\* The files stay and the threads do or end.
<1>13. ASSUME Still, \A u \in Threads : Same(u) \/ th'[u] = Idle
       PROVE  WholeFile' /\ WholeCopies' /\ WholeSaves'
  <2>1. \A u \in Threads : /\ Holds(u)' => Holds(u) /\ th'[u].cfg = th[u].cfg
                           /\ SavesTokens(u)' => SavesTokens(u) /\ th'[u].cfg = th[u].cfg
    <3> SUFFICES ASSUME NEW u \in Threads
                 PROVE  /\ Holds(u)' => Holds(u) /\ th'[u].cfg = th[u].cfg
                        /\ SavesTokens(u)' => SavesTokens(u) /\ th'[u].cfg = th[u].cfg
      OBVIOUS
    <3>1. CASE Same(u)
      BY <3>1, HoldsKept DEF Same, Alike
    <3>2. CASE th'[u] = Idle
      BY <3>2 DEF Idle, Holds, HasRead, SavesTokens
    <3> QED BY <1>13, <3>1, <3>2
  <2>2. disk'["config"] = disk["config"] /\ disk'["tokens"] = disk["tokens"]
    BY <1>13 DEF Still
  <2>3. InTokensFile' = InTokensFile
    BY <2>2 DEF InTokensFile, Stored, Tokened
  <2>4. WholeFile'
    BY <1>2, <2>2, <2>3 DEF WholeFile, Tokened
  <2>5. WholeCopies'
    BY <1>2, <2>1, <2>3 DEF WholeCopies, Tokened
  <2>6. WholeSaves'
    BY <1>2, <2>1, <2>2 DEF WholeSaves, Tokened
  <2> QED BY <2>4, <2>5, <2>6
<1>14. CASE Ends
  <2>1. Still /\ \A u \in Threads : Same(u) \/ th'[u] = Idle
    BY <1>14 DEF Ends
  <2> QED BY <1>13, <2>1
<1>15. CASE Removes
  BY <1>15 DEF Removes, Undisturbed
<1>16. CASE Rests
  BY <1>13, <1>16 DEF Rests
<1> QED
  BY <1>1, <1>6, <1>7, <1>8, <1>9, <1>10, <1>11, <1>12, <1>14, <1>15, <1>16 DEF Kinds

LEMMA WholeStart == Init => Unread /\ Whole
<1> SUFFICES ASSUME Init PROVE Unread /\ Whole
  OBVIOUS
<1>1. \A t \in Threads : th[t] = Idle
  BY DEF Init
<1>2. Unread /\ \A t \in Threads : ~Holds(t) /\ ~SavesTokens(t)
  BY <1>1 DEF Idle, Unread, Holds, HasRead, SavesTokens
<1>3. \A h \in Hubs : /\ Paired(h).blank = {} /\ Paired(h).named = {h}
                      /\ Tokened(Paired(h).token) = {h}
                      /\ ConfigOnly(Paired(h)).blank = {}
                      /\ ConfigOnly(Paired(h)).named = {h}
                      /\ Tokened(ConfigOnly(Paired(h)).token) = {}
  BY DEF Paired, EmptyConfig, NoTokens, Tokened, ConfigOnly
<1>4. CASE disk = Fresh
  BY <1>2, <1>4 DEF Fresh, Absent, Whole, ConfigFirst, WholeFile, WholeCopies,
                    WholeSaves, Files
<1>5. ASSUME NEW h \in Hubs, disk = FirstRelease(h)
      PROVE  Whole
  <2>1. disk["config"] = Intact(Paired(h)) /\ disk["tokens"] = Absent
    BY <1>5 DEF FirstRelease, Fresh, Files
  <2>2. InTokensFile = {}
    BY <2>1 DEF InTokensFile, Stored, Tokened, NoTokens, Absent
  <2> QED BY <1>2, <1>3, <2>1, <2>2 DEF Intact, Absent, Whole, ConfigFirst, WholeFile,
                                        WholeCopies, WholeSaves
<1>6. ASSUME NEW h \in Hubs, disk = Today(h)
      PROVE  Whole
  <2>1. disk["config"] = Intact(ConfigOnly(Paired(h)))
        /\ disk["tokens"] = Intact(Paired(h).token)
    BY <1>6 DEF Today, Files, Content
  <2>2. InTokensFile = {h}
    BY <1>3, <2>1 DEF InTokensFile, Stored, Intact
  <2> QED BY <1>2, <1>3, <2>1, <2>2 DEF Intact, Whole, ConfigFirst, WholeFile,
                                        WholeCopies, WholeSaves
<1> QED BY <1>2, <1>4, <1>5, <1>6 DEF Init

\* Every hub that is named somewhere is whole, and config.json comes first.
LEMMA WholeHolds == Spec => [](Unread /\ Whole /\ ConfigFirst)
<1>1. Whole => ConfigFirst
  BY DEF Whole
<1> QED BY <1>1, WholeStart, UnreadKept, WholeKept, StructureHolds, PTL DEF Spec

\* A token in tokens.json or in an up-to-date copy is that of a hub with a
\* name and an address: config.json is written first (config.go, Save).
THEOREM HubsAreComplete == Spec => []HubsComplete
<1>1. TypeOK /\ Unread /\ Whole => HubsComplete
  <2> SUFFICES ASSUME TypeOK, Unread, Whole, mishap \cap {"stale", "removed"} = {}
               PROVE  /\ \A t \in Threads : th[t].stale = {} => th[t].cfg.blank = {}
                      /\ disk["config"].state = "ok" /\ disk["tokens"].state = "ok" =>
                            {h \in Hubs : disk["tokens"].data[h] # 0}
                              \subseteq disk["config"].data.named
    BY DEF HubsComplete
  <2>1. WholeFile /\ WholeCopies
    BY DEF Whole, Undisturbed
  <2>2. \A t \in Threads : th[t].stale = {} => th[t].cfg.blank = {}
    BY <2>1 DEF WholeCopies, Holds, Unread, EmptyConfig
  <2> QED BY <2>1, <2>2 DEF WholeFile, InTokensFile, Tokened, Stored
<1> QED BY <1>1, WholeHolds, StructureHolds, PTL

-----------------------------------------------------------------------------
(* Settings.                                                               *)

\* Nothing is newer than the newest stamp.
StampedSets ==
    \A f \in Fields : /\ newest.set[f] =< stamp
                      /\ disk["config"].data.set[f] =< stamp
                      /\ \A t \in Threads : th[t].cfg.set[f] =< stamp

StampedTokens ==
    \A h \in Hubs : /\ newest.token[h] =< stamp
                    /\ disk["config"].data.token[h] =< stamp
                    /\ Stored[h] =< stamp
                    /\ \A t \in Threads : th[t].cfg.token[h] =< stamp

LEMMA LaterWins ==
    ASSUME NEW S, NEW a \in [S -> Nat], NEW b \in [S -> Nat], \A s \in S : a[s] =< b[s]
    PROVE  Later(a, b) = b
<1>1. Later(a, b) \in [S -> Nat] /\ \A s \in S : b[s] =< Later(a, b)[s]
                                 /\ Later(a, b)[s] \in {a[s], b[s]}
  BY LaterTypes
<1>2. \A s \in S : Later(a, b)[s] = b[s]
  BY <1>1
<1> QED BY <1>1, <1>2

\* What a write makes of the file, and of the newest values.
LEMMA WriteResults ==
    ASSUME TypeOK, NEW t \in Threads, NEW f \in Files, Writes(t, f)
    PROVE  /\ \A g \in Files \ {f} : disk'[g] = disk[g]
           /\ \/ /\ disk'[f] = Intact(Content(th[t].cfg, f))
                 /\ newest'.set = IF f = "config" THEN Later(newest.set, th[t].cfg.set)
                                  ELSE newest.set
                 /\ newest'.token = IF f = "tokens" THEN Later(newest.token, th[t].cfg.token)
                                    ELSE newest.token
              \/ disk'[f] = Unreadable("garbled") /\ newest' = newest
<1>0. DiskOK /\ newest \in Configs
  BY TypesParted
<1>1. PICK garbled \in BOOLEAN : WritesOver(t, f, garbled)
  BY DEF Writes
<1>2. /\ disk' = [disk EXCEPT ![f] = Result(f, Content(th[t].cfg, f), garbled)]
      /\ newest' = IF Result(f, Content(th[t].cfg, f), garbled).state = "ok"
                   THEN Newest(t, f) ELSE newest
  BY <1>1 DEF WritesOver
<1>3. /\ disk'[f] = Result(f, Content(th[t].cfg, f), garbled)
      /\ \A g \in Files \ {f} : disk'[g] = disk[g]
  BY <1>0, <1>2 DEF DiskOK
<1>4. /\ Newest(t, f).set = IF f = "config" THEN Later(newest.set, th[t].cfg.set)
                            ELSE newest.set
      /\ Newest(t, f).token = IF f = "tokens" THEN Later(newest.token, th[t].cfg.token)
                              ELSE newest.token
  BY <1>0 DEF Newest, Configs, Files
<1>5. \/ Result(f, Content(th[t].cfg, f), garbled) = Intact(Content(th[t].cfg, f))
      \/ Result(f, Content(th[t].cfg, f), garbled) = Unreadable("garbled")
  BY DEF Result
<1>6. Intact(Content(th[t].cfg, f)).state = "ok" /\ Unreadable("garbled").state = "garbled"
  BY DEF Intact, Unreadable
<1> QED BY <1>2, <1>3, <1>4, <1>5, <1>6

LEMMA StampedKept ==
    TypeOK /\ TypeOK' /\ Structure /\ StampedSets /\ StampedTokens /\ [Next]_vars
        => StampedSets' /\ StampedTokens'
<1> SUFFICES ASSUME TypeOK, TypeOK', Structure, StampedSets, StampedTokens, [Next]_vars
             PROVE  StampedSets' /\ StampedTokens'
  OBVIOUS
<1>0. DiskOK /\ ThreadsOK /\ stamp \in Nat /\ newest \in Configs
      /\ \A u \in Threads : th[u] \in ThreadRecords /\ th[u].cfg \in Configs
  BY TypesParted DEF ThreadsOK, ThreadRecords
<1>1. Kinds
  BY StepKinds
<1>2. /\ \A f \in Fields : EmptyConfig.set[f] = 0
      /\ \A h \in Hubs : EmptyConfig.token[h] = 0 /\ NoTokens[h] = 0
  BY DEF EmptyConfig, NoTokens
<1>3. "config" \in Files /\ "tokens" \in Files
  BY DEF Files
<1>4. Stored \in [Hubs -> Nat]
  BY StoredTypes
<1>5. /\ newest.set \in [Fields -> Nat] /\ newest.token \in [Hubs -> Nat]
      /\ disk["config"].data.set \in [Fields -> Nat]
      /\ disk["config"].data.token \in [Hubs -> Nat]
      /\ \A u \in Threads : /\ th[u].cfg.set \in [Fields -> Nat]
                             /\ th[u].cfg.token \in [Hubs -> Nat]
  BY <1>0 DEF Configs, DiskOK
\* It is enough that the files, the newest values and the copies all hold
\* what one of them held before, or the new stamp.
<1>6. ASSUME stamp' \in Nat, stamp =< stamp',
             \A f \in Fields :
                /\ newest'.set[f] =< stamp
                /\ disk'["config"].data.set[f] =< stamp
                /\ \A t \in Threads : th'[t].cfg.set[f] =< stamp \/ th'[t].cfg.set[f] = stamp',
             \A h \in Hubs :
                /\ newest'.token[h] =< stamp
                /\ disk'["config"].data.token[h] =< stamp
                /\ Stored'[h] =< stamp
                /\ \A t \in Threads : th'[t].cfg.token[h] =< stamp
                                       \/ th'[t].cfg.token[h] = stamp'
      PROVE  StampedSets' /\ StampedTokens'
  <2>0. /\ newest'.set \in [Fields -> Nat] /\ newest'.token \in [Hubs -> Nat]
        /\ disk'["config"].data.set \in [Fields -> Nat]
        /\ disk'["config"].data.token \in [Hubs -> Nat]
        /\ Stored' \in [Hubs -> Nat]
        /\ \A u \in Threads : /\ th'[u].cfg.set \in [Fields -> Nat]
                               /\ th'[u].cfg.token \in [Hubs -> Nat]
    <3>1. /\ newest' \in Configs /\ disk'["config"].data \in Configs
          /\ th' \in [Threads -> ThreadRecords]
          /\ disk'["tokens"].state = "ok" => disk'["tokens"].data \in [Hubs -> Nat]
      BY DEF TypeOK
    <3>2. \A u \in Threads : th'[u].cfg \in Configs
      BY <3>1 DEF ThreadRecords
    <3>3. Stored' \in [Hubs -> Nat]
      BY <3>1, EmptyTypes DEF Stored
    <3> QED BY <3>1, <3>2, <3>3 DEF Configs
  <2>1. StampedSets'
    <3> SUFFICES ASSUME NEW f \in Fields
                 PROVE  /\ newest'.set[f] =< stamp' /\ disk'["config"].data.set[f] =< stamp'
                        /\ \A t \in Threads : th'[t].cfg.set[f] =< stamp'
      BY DEF StampedSets
    <3>1. newest'.set[f] \in Nat /\ disk'["config"].data.set[f] \in Nat
          /\ \A t \in Threads : th'[t].cfg.set[f] \in Nat
      BY <2>0
    <3> QED BY <1>0, <1>6, <3>1
  <2>2. StampedTokens'
    <3> SUFFICES ASSUME NEW h \in Hubs
                 PROVE  /\ newest'.token[h] =< stamp'
                        /\ disk'["config"].data.token[h] =< stamp' /\ Stored'[h] =< stamp'
                        /\ \A t \in Threads : th'[t].cfg.token[h] =< stamp'
      BY DEF StampedTokens
    <3>1. newest'.token[h] \in Nat /\ disk'["config"].data.token[h] \in Nat
          /\ Stored'[h] \in Nat /\ \A t \in Threads : th'[t].cfg.token[h] \in Nat
      BY <2>0
    <3> QED BY <1>0, <1>6, <3>1
  <2> QED BY <2>1, <2>2
\* The steps of one thread that leave the files alone.
<1>7. ASSUME NEW t \in Threads, Others(t), stamp' \in Nat, stamp =< stamp',
             disk'["config"] = disk["config"], disk'["tokens"] = disk["tokens"],
             newest' = newest,
             \A f \in Fields : th'[t].cfg.set[f] =< stamp \/ th'[t].cfg.set[f] = stamp',
             \A h \in Hubs : th'[t].cfg.token[h] =< stamp \/ th'[t].cfg.token[h] = stamp'
      PROVE  StampedSets' /\ StampedTokens'
  <2>1. \A u \in Threads \ {t} : th'[u].cfg = th[u].cfg
    BY <1>7 DEF Others, Same, Alike
  <2>2. Stored' = Stored
    BY <1>7 DEF Stored
  <2>3. \A f \in Fields :
          /\ newest'.set[f] =< stamp
          /\ disk'["config"].data.set[f] =< stamp
          /\ \A u \in Threads : th'[u].cfg.set[f] =< stamp \/ th'[u].cfg.set[f] = stamp'
    BY <1>7, <2>1 DEF StampedSets
  <2>4. \A h \in Hubs :
          /\ newest'.token[h] =< stamp
          /\ disk'["config"].data.token[h] =< stamp
          /\ Stored'[h] =< stamp
          /\ \A u \in Threads : th'[u].cfg.token[h] =< stamp \/ th'[u].cfg.token[h] = stamp'
    BY <1>7, <2>1, <2>2 DEF StampedTokens
  <2> QED BY <1>6, <1>7, <2>3, <2>4
<1>8. ASSUME NEW t \in Threads, Begins(t) \/ ReadsNone(t)
      PROVE  StampedSets' /\ StampedTokens'
  <2>1. Others(t) /\ Still /\ th'[t].cfg = EmptyConfig
    BY <1>8 DEF Begins, ReadsNone
  <2>2. \A f \in Fields : th'[t].cfg.set[f] =< stamp
    BY <1>0, <1>2, <2>1
  <2>3. \A h \in Hubs : th'[t].cfg.token[h] =< stamp
    BY <1>0, <1>2, <2>1
  <2> QED BY <1>0, <1>7, <2>1, <2>2, <2>3 DEF Still
<1>9. ASSUME NEW t \in Threads, ReadsConfig(t)
      PROVE  StampedSets' /\ StampedTokens'
  <2>1. Others(t) /\ Still /\ th'[t].cfg = disk["config"].data
    BY <1>9 DEF ReadsConfig
  <2> QED BY <1>0, <1>7, <2>1 DEF Still, StampedSets, StampedTokens
<1>10. ASSUME NEW t \in Threads, ReadsTokens(t)
       PROVE  StampedSets' /\ StampedTokens'
  <2>1. Others(t) /\ Still /\ th'[t].cfg = WithTokens(th[t].cfg, Stored)
    BY <1>10 DEF ReadsTokens
  <2>2. /\ th'[t].cfg.set = th[t].cfg.set
        /\ \A h \in Hubs : th'[t].cfg.token[h] \in {Stored[h], th[t].cfg.token[h]}
    BY <1>0, <1>4, <2>1, Fielded
  <2> QED BY <1>0, <1>7, <2>1, <2>2 DEF Still, StampedSets, StampedTokens
<1>11. ASSUME NEW t \in Threads, Works(t)
       PROVE  StampedSets' /\ StampedTokens'
  <2>1. /\ stamp' = stamp \/ stamp' = stamp + 1
        /\ \A f \in Fields : th'[t].cfg.set[f] \in {th[t].cfg.set[f], stamp'}
        /\ \A h \in Hubs : th'[t].cfg.token[h] \in {th[t].cfg.token[h], stamp'}
    <3>1. CASE Keeps(t)
      BY <3>1 DEF Keeps
    <3>2. CASE Sets(t)
      <4>1. PICK f : th'[t].cfg = WithValue(th[t].cfg, f, stamp + 1)
        BY <3>2 DEF Sets
      <4> QED BY <1>0, <3>2, <4>1, Fielded DEF Sets
    <3>3. CASE Pairs(t)
      <4>1. PICK h \in Hubs : th'[t].cfg = SetHub(th[t].cfg, h, stamp + 1)
        BY <3>3 DEF Pairs
      <4> QED BY <1>0, <3>3, <4>1, Fielded DEF Pairs
    <3> QED BY <1>11, <3>1, <3>2, <3>3 DEF Works
  <2>2. stamp' \in Nat /\ stamp =< stamp'
    BY <1>0, <2>1
  <2>3. \A f \in Fields : th'[t].cfg.set[f] =< stamp \/ th'[t].cfg.set[f] = stamp'
    BY <2>1 DEF StampedSets
  <2>4. \A h \in Hubs : th'[t].cfg.token[h] =< stamp \/ th'[t].cfg.token[h] = stamp'
    BY <2>1 DEF StampedTokens
  <2>5. disk'["config"] = disk["config"] /\ disk'["tokens"] = disk["tokens"]
        /\ newest' = newest /\ Others(t)
    BY <1>11 DEF Works
  <2> QED BY <1>7, <2>2, <2>3, <2>4, <2>5
\* The steps that leave the copies alone.
<1>12. ASSUME stamp' = stamp, \A u \in Threads : th'[u].cfg \in {th[u].cfg, EmptyConfig},
              \A f \in Fields : /\ newest'.set[f] =< stamp
                                /\ disk'["config"].data.set[f] =< stamp,
              \A h \in Hubs : /\ newest'.token[h] =< stamp
                              /\ disk'["config"].data.token[h] =< stamp
                              /\ Stored'[h] =< stamp
       PROVE  StampedSets' /\ StampedTokens'
  <2>1. \A f \in Fields, u \in Threads : th'[u].cfg.set[f] =< stamp
    BY <1>0, <1>2, <1>12 DEF StampedSets
  <2>2. \A h \in Hubs, u \in Threads : th'[u].cfg.token[h] =< stamp
    BY <1>0, <1>2, <1>12 DEF StampedTokens
  <2>3. stamp' \in Nat /\ stamp =< stamp'
    BY <1>0, <1>12
  <2> QED BY <1>6, <1>12, <2>1, <2>2, <2>3
<1>13. ASSUME NEW f \in Files, \A g \in Files \ {f} : disk'[g] = disk[g],
              disk'[f] = Absent \/ disk'[f] = Unreadable("empty")
              \/ disk'[f] = Unreadable("garbled"),
              newest' = newest, stamp' = stamp,
              \A u \in Threads : th'[u].cfg = th[u].cfg
       PROVE  StampedSets' /\ StampedTokens'
  <2>1. /\ disk'["config"].data \in {disk["config"].data, EmptyConfig}
        /\ Stored' \in {Stored, NoTokens}
    BY <1>3, <1>13 DEF Absent, Unreadable, Stored
  <2>2. \A g \in Fields : /\ newest'.set[g] =< stamp
                          /\ disk'["config"].data.set[g] =< stamp
    BY <1>0, <1>2, <1>13, <2>1 DEF StampedSets
  <2>3. \A h \in Hubs : /\ newest'.token[h] =< stamp
                        /\ disk'["config"].data.token[h] =< stamp
                        /\ Stored'[h] =< stamp
    BY <1>0, <1>2, <1>13, <2>1 DEF StampedTokens
  <2> QED BY <1>12, <1>13, <2>2, <2>3
<1>14. ASSUME NEW t \in Threads, NEW f \in Files, Opens(t, f)
       PROVE  StampedSets' /\ StampedTokens'
  <2>1. /\ \A g \in Files \ {f} : disk'[g] = disk[g]
        /\ disk'[f] = Unreadable("empty")
    BY <1>0, <1>14 DEF Opens, DiskOK
  <2>2. \A u \in Threads : th'[u].cfg = th[u].cfg
    BY <1>14 DEF Opens, Marked, Alike
  <2> QED BY <1>13, <1>14, <2>1, <2>2 DEF Opens
<1>15. ASSUME NEW t \in Threads, NEW f \in Files, Writes(t, f)
       PROVE  StampedSets' /\ StampedTokens'
  <2>0. \A u \in Threads : th'[u].cfg = th[u].cfg
    BY <1>15 DEF Writes, Marked, Alike
  <2>1. stamp' = stamp
    BY <1>15 DEF Writes
  <2>2. CASE disk'[f] = Unreadable("garbled") /\ newest' = newest
    BY <1>13, <1>15, <2>0, <2>1, <2>2, WriteResults
  <2>3. CASE /\ disk'[f] = Intact(Content(th[t].cfg, f))
             /\ newest'.set = IF f = "config" THEN Later(newest.set, th[t].cfg.set)
                              ELSE newest.set
             /\ newest'.token = IF f = "tokens" THEN Later(newest.token, th[t].cfg.token)
                                ELSE newest.token
    <3>1. \A g \in Files \ {f} : disk'[g] = disk[g]
      BY <1>15, WriteResults
    <3>2. /\ \A g \in Fields : Later(newest.set, th[t].cfg.set)[g]
                                  \in {newest.set[g], th[t].cfg.set[g]}
          /\ \A h \in Hubs : Later(newest.token, th[t].cfg.token)[h]
                                \in {newest.token[h], th[t].cfg.token[h]}
      BY <1>5, LaterTypes
    <3>3. \A g \in Fields : newest'.set[g] =< stamp
      BY <2>3, <3>2 DEF StampedSets
    <3>4. \A h \in Hubs : newest'.token[h] =< stamp
      BY <2>3, <3>2 DEF StampedTokens
    <3>5. /\ disk'["config"].data = IF f = "config" THEN ConfigOnly(th[t].cfg)
                                    ELSE disk["config"].data
          /\ Stored' = IF f = "tokens" THEN th[t].cfg.token ELSE Stored
      <4>1. CASE f = "config"
        BY <1>0, <1>3, <2>3, <3>1, <4>1, ContentTypes DEF Intact, Stored
      <4>2. CASE f = "tokens"
        BY <1>0, <1>3, <2>3, <3>1, <4>2, ContentTypes DEF Intact, Stored
      <4>3. CASE f = "cache"
        BY <1>3, <3>1, <4>3 DEF Stored
      <4> QED BY <4>1, <4>2, <4>3 DEF Files
    <3>6. \A g \in Fields : disk'["config"].data.set[g] =< stamp
      BY <1>0, <3>5, ContentTypes DEF StampedSets
    <3>7. \A h \in Hubs : disk'["config"].data.token[h] =< stamp /\ Stored'[h] =< stamp
      BY <1>0, <1>2, <3>5, ContentTypes DEF StampedTokens
    <3> QED BY <1>12, <2>0, <2>1, <3>3, <3>4, <3>6, <3>7
  <2> QED BY <1>15, <2>2, <2>3, WriteResults
<1>16. ASSUME Still, \A u \in Threads : Same(u) \/ th'[u] = Idle
       PROVE  StampedSets' /\ StampedTokens'
  <2>1. \A u \in Threads : th'[u].cfg \in {th[u].cfg, EmptyConfig}
    BY <1>16 DEF Same, Alike, Idle
  <2>2. Stored' = Stored
    BY <1>16 DEF Still, Stored
  <2>3. \A f \in Fields : newest'.set[f] =< stamp /\ disk'["config"].data.set[f] =< stamp
    BY <1>16 DEF Still, StampedSets
  <2>4. \A h \in Hubs : /\ newest'.token[h] =< stamp /\ Stored'[h] =< stamp
                        /\ disk'["config"].data.token[h] =< stamp
    BY <1>16, <2>2 DEF Still, StampedTokens
  <2> QED BY <1>12, <1>16, <2>1, <2>3, <2>4 DEF Still
<1>17. CASE Ends
  <2>1. Still /\ \A u \in Threads : Same(u) \/ th'[u] = Idle
    BY <1>17 DEF Ends
  <2> QED BY <1>16, <2>1
<1>18. CASE Removes
  <2>1. PICK f \in Files : disk' = [disk EXCEPT ![f] = Absent]
    BY <1>18 DEF Removes
  <2>2. disk'[f] = Absent /\ \A g \in Files \ {f} : disk'[g] = disk[g]
    BY <1>0, <2>1 DEF DiskOK
  <2> QED BY <1>13, <1>18, <2>2 DEF Removes, Same, Alike
<1>19. CASE Rests
  BY <1>16, <1>19 DEF Rests
<1> QED
  BY <1>1, <1>8, <1>9, <1>10, <1>11, <1>14, <1>15, <1>17, <1>18, <1>19 DEF Kinds

\* A copy of config.json with every value at least as new as the newest.
Recent(u) == \A f \in Fields : newest.set[f] =< th[u].cfg.set[f]

\* As long as nobody saves an old copy, every up-to-date copy has the newest
\* values or newer ones.
Settled ==
    Undisturbed =>
        /\ ~Damaged("config") => SettingsLast
        /\ \A u \in Threads : Holds(u) => Recent(u)

\* One process at a time: whoever sets something is alone.
Alone ==
    mishap \cap {"company", "removed"} = {} =>
        /\ \A p, q \in Procs : th[<<p, "main">>].phase # "idle"
                                 /\ th[<<q, "main">>].phase # "idle" => p = q
        /\ ~Damaged("config") => SettingsLast
        /\ \A u \in Threads : HasRead(u, "config") =>
              /\ Recent(u)
              /\ th[u].job \notin {"set", "device"} => th[u].cfg.set = newest.set

LEMMA SettingTypes ==
    ASSUME TypeOK
    PROVE  /\ newest \in Configs /\ newest.set \in [Fields -> Nat]
           /\ disk["config"].data \in Configs /\ disk["config"].data.set \in [Fields -> Nat]
           /\ \A u \in Threads : /\ th[u] \in ThreadRecords /\ th[u].cfg \in Configs
                                 /\ th[u].cfg.set \in [Fields -> Nat]
<1>1. newest \in Configs /\ disk["config"].data \in Configs
      /\ \A u \in Threads : th[u] \in ThreadRecords
  BY DEF TypeOK
<1>2. \A u \in Threads : th[u].cfg \in Configs
  BY <1>1 DEF ThreadRecords
<1> QED BY <1>1, <1>2 DEF Configs

\* What a step of one thread does to its copy, as far as settings go.
LEMMA SettingSteps ==
    ASSUME TypeOK, StampedSets, NEW t \in Threads
    PROVE  /\ Begins(t) => ~HasRead(t, "config")'
           /\ ReadsNone(t) \/ ReadsConfig(t) =>
                th'[t].cfg.set = disk["config"].data.set /\ ~Damaged("config")
           /\ ReadsTokens(t) => th'[t].cfg.set = th[t].cfg.set /\ HasRead(t, "config")
           /\ Works(t) =>
                /\ HasRead(t, "config")
                /\ \/ th'[t].cfg.set = th[t].cfg.set
                   \/ /\ th[t].job \in {"set", "device"}
                      /\ \A f \in Fields : \/ th'[t].cfg.set[f] = th[t].cfg.set[f]
                                           \/ newest.set[f] =< th'[t].cfg.set[f]
<1>0. DiskOK /\ stamp \in Nat
  BY TypesParted
<1>1. Begins(t) => ~HasRead(t, "config")'
  BY DEF Begins, HasRead
<1>2. ReadsNone(t) => th'[t].cfg.set = disk["config"].data.set /\ ~Damaged("config")
  BY <1>0 DEF ReadsNone, DiskOK, Damaged, Files
<1>3. ReadsConfig(t) => th'[t].cfg.set = disk["config"].data.set /\ ~Damaged("config")
  BY DEF ReadsConfig, Damaged
<1>4. ReadsTokens(t) => th'[t].cfg.set = th[t].cfg.set /\ HasRead(t, "config")
  BY SettingTypes, StoredTypes, Fielded DEF ReadsTokens, In, HasRead
<1>5. ASSUME Works(t)
      PROVE  /\ HasRead(t, "config")
             /\ \/ th'[t].cfg.set = th[t].cfg.set
                \/ /\ th[t].job \in {"set", "device"}
                   /\ \A f \in Fields : \/ th'[t].cfg.set[f] = th[t].cfg.set[f]
                                        \/ newest.set[f] =< th'[t].cfg.set[f]
  <2>1. HasRead(t, "config")
    BY <1>5 DEF Works, AtCommand, In, HasRead
  <2>2. CASE Keeps(t)
    BY <2>1, <2>2 DEF Keeps
  <2>3. CASE Sets(t)
    <3>1. PICK f : th'[t].cfg = WithValue(th[t].cfg, f, stamp + 1)
      BY <2>3 DEF Sets
    <3>2. \A g \in Fields : th'[t].cfg.set[g] = IF g = f THEN stamp + 1 ELSE th[t].cfg.set[g]
      BY <3>1, SettingTypes, Fielded
    <3>3. \A g \in Fields : newest.set[g] =< stamp + 1
      <4>1. \A g \in Fields : newest.set[g] \in Nat /\ newest.set[g] =< stamp
        BY SettingTypes DEF StampedSets
      <4> QED BY <1>0, <4>1
    <3> QED BY <2>1, <2>3, <3>2, <3>3 DEF Sets
  <2>4. CASE Pairs(t)
    <3>1. PICK h \in Hubs : th'[t].cfg = SetHub(th[t].cfg, h, stamp + 1)
      BY <2>4 DEF Pairs
    <3> QED BY <2>1, <3>1, SettingTypes, Fielded
  <2> QED BY <1>5, <2>2, <2>3, <2>4 DEF Works
<1> QED BY <1>1, <1>2, <1>3, <1>4, <1>5

\* The write of config.json: all of th[t].cfg.set, or nothing readable.
LEMMA SettingWrites ==
    ASSUME TypeOK, NEW t \in Threads, NEW f \in Files, Writes(t, f)
    PROVE  /\ f # "config" => newest'.set = newest.set /\ disk'["config"] = disk["config"]
           /\ f = "config" /\ Recent(t) =>
                \/ newest'.set = th[t].cfg.set /\ disk'["config"].data.set = th[t].cfg.set
                \/ newest' = newest /\ Damaged("config")'
<1>1. f # "config" => newest'.set = newest.set /\ disk'["config"] = disk["config"]
  BY WriteResults DEF Files
<1>2. ASSUME f = "config", Recent(t)
      PROVE  \/ newest'.set = th[t].cfg.set /\ disk'["config"].data.set = th[t].cfg.set
             \/ newest' = newest /\ Damaged("config")'
  <2>1. CASE disk'[f] = Unreadable("garbled") /\ newest' = newest
    BY <1>2, <2>1 DEF Unreadable, Damaged
  <2>2. CASE disk'[f] = Intact(Content(th[t].cfg, f))
             /\ newest'.set = Later(newest.set, th[t].cfg.set)
    <3>1. Later(newest.set, th[t].cfg.set) = th[t].cfg.set
      BY <1>2, SettingTypes, LaterWins DEF Recent
    <3>2. disk'["config"].data.set = th[t].cfg.set
      BY <1>2, <2>2, SettingTypes, ContentTypes DEF Intact
    <3> QED BY <2>2, <3>1, <3>2
  <2> QED BY <1>2, <2>1, <2>2, WriteResults
<1> QED BY <1>1, <1>2

LEMMA SettledKept ==
    TypeOK /\ Structure /\ StampedSets /\ Settled /\ [Next]_vars => Settled'
<1> SUFFICES ASSUME TypeOK, Structure, StampedSets, Settled, [Next]_vars, Undisturbed'
             PROVE  /\ ~Damaged("config")' => SettingsLast'
                    /\ \A u \in Threads : Holds(u)' => Recent(u)'
  BY DEF Settled
<1>1. Kinds
  BY StepKinds
<1>2. Undisturbed /\ (~Damaged("config") => SettingsLast)
      /\ \A u \in Threads : Holds(u) => Recent(u)
  BY <1>1, MishapsStay DEF Undisturbed, Settled
<1>3. \A u \in Threads : /\ Same(u) => (Holds(u)' <=> Holds(u)) /\ th'[u].cfg = th[u].cfg
                         /\ \A f \in Files : Marked(u, f) =>
                              (Holds(u)' => Holds(u) /\ f # "config")
                              /\ th'[u].cfg = th[u].cfg
  BY HoldsKept DEF Same, Marked, Alike
\* Config.json and the newest values as they were.
<1>4. ASSUME newest'.set = newest.set, disk'["config"] = disk["config"],
             \A u \in Threads : Holds(u)' =>
                \/ Holds(u) /\ th'[u].cfg.set = th[u].cfg.set
                \/ \A f \in Fields : newest.set[f] =< th'[u].cfg.set[f]
      PROVE  /\ ~Damaged("config")' => SettingsLast'
             /\ \A u \in Threads : Holds(u)' => Recent(u)'
  <2>1. Damaged("config")' <=> Damaged("config")
    BY <1>4 DEF Damaged
  <2>2. SettingsLast => SettingsLast'
    BY <1>4 DEF SettingsLast
  <2>3. \A u \in Threads : Holds(u)' => Recent(u)'
    BY <1>2, <1>4 DEF Recent
  <2> QED BY <1>2, <2>1, <2>2, <2>3
<1>5. ASSUME NEW t \in Threads, Begins(t)
      PROVE  /\ ~Damaged("config")' => SettingsLast'
             /\ \A u \in Threads : Holds(u)' => Recent(u)'
  <2>1. ~Holds(t)' /\ Still /\ Others(t)
    BY <1>5, SettingSteps DEF Begins, Holds
  <2> QED BY <1>3, <1>4, <2>1 DEF Still, Others
<1>6. ASSUME NEW t \in Threads, ReadsNone(t) \/ ReadsConfig(t)
      PROVE  /\ ~Damaged("config")' => SettingsLast'
             /\ \A u \in Threads : Holds(u)' => Recent(u)'
  <2>1. th'[t].cfg.set = newest.set
    BY <1>2, <1>6, SettingSteps DEF SettingsLast
  <2>2. \A f \in Fields : newest.set[f] =< th'[t].cfg.set[f]
    BY <2>1, SettingTypes
  <2>3. Still /\ Others(t)
    BY <1>6 DEF ReadsNone, ReadsConfig
  <2> QED BY <1>3, <1>4, <2>2, <2>3 DEF Still, Others
<1>7. ASSUME NEW t \in Threads, ReadsTokens(t)
      PROVE  /\ ~Damaged("config")' => SettingsLast'
             /\ \A u \in Threads : Holds(u)' => Recent(u)'
  <2>1. th'[t].cfg.set = th[t].cfg.set /\ (Holds(t)' => Holds(t))
    BY <1>7, SettingSteps DEF ReadsTokens, Holds
  <2>2. Still /\ Others(t)
    BY <1>7 DEF ReadsTokens
  <2> QED BY <1>3, <1>4, <2>1, <2>2 DEF Still, Others
<1>8. ASSUME NEW t \in Threads, Works(t)
      PROVE  /\ ~Damaged("config")' => SettingsLast'
             /\ \A u \in Threads : Holds(u)' => Recent(u)'
  <2>1. Holds(t)' => Holds(t)
    BY <1>8, SettingSteps DEF Works, Holds
  <2>2. Holds(t)' => \A f \in Fields : newest.set[f] =< th'[t].cfg.set[f]
    BY <1>2, <1>8, <2>1, SettingSteps DEF Recent
  <2>3. newest' = newest /\ disk'["config"] = disk["config"] /\ Others(t)
    BY <1>8 DEF Works
  <2> QED BY <1>3, <1>4, <2>2, <2>3 DEF Others
<1>9. ASSUME NEW t \in Threads, NEW f \in Files, Opens(t, f)
      PROVE  /\ ~Damaged("config")' => SettingsLast'
             /\ \A u \in Threads : Holds(u)' => Recent(u)'
  <2>1. (Holds(t)' => Holds(t)) /\ th'[t].cfg = th[t].cfg
    BY <1>9 DEF Opens, In, Holds, HasRead
  <2>2. \A u \in Threads : Holds(u)' => Holds(u) /\ th'[u].cfg = th[u].cfg
    BY <1>3, <1>9, <2>1 DEF Opens
  <2>3. \A u \in Threads : Holds(u)' => Recent(u)'
    BY <1>2, <1>9, <2>2 DEF Opens, Recent
  <2>4. CASE f = "config"
    <3>1. Damaged("config")'
      BY <1>9, <2>4, TypesParted DEF Opens, DiskOK, Damaged, Unreadable
    <3> QED BY <2>3, <3>1
  <2>5. CASE f # "config"
    <3>1. disk'["config"] = disk["config"] /\ newest' = newest
      BY <1>9, <2>5, TypesParted DEF Opens, DiskOK, Files
    <3> QED BY <1>4, <2>2, <3>1
  <2> QED BY <2>4, <2>5
<1>10. ASSUME NEW t \in Threads, NEW f \in Files, Writes(t, f)
       PROVE  /\ ~Damaged("config")' => SettingsLast'
              /\ \A u \in Threads : Holds(u)' => Recent(u)'
  <2>1. (Holds(t)' => Holds(t)) /\ th'[t].cfg = th[t].cfg
    BY <1>10 DEF Writes, In, Holds, HasRead
  <2>2. \A u \in Threads : Holds(u)' => Holds(u) /\ th'[u].cfg = th[u].cfg
    BY <1>3, <1>10, <2>1 DEF Writes
  <2>3. CASE f # "config"
    BY <1>4, <1>10, <2>2, <2>3, SettingWrites
  <2>4. CASE f = "config"
    <3>1. Holds(t)
      BY <1>10, <2>4 DEF Writes, In, Undisturbed, Holds, HasRead
    <3>2. Recent(t)
      BY <1>2, <3>1
    <3>3. \A u \in Threads \ {t} : ~Holds(u)'
      BY <1>3, <1>10, <2>4 DEF Writes
    <3>4. CASE newest'.set = th[t].cfg.set /\ disk'["config"].data.set = th[t].cfg.set
      <4>1. Recent(t)'
        BY <2>1, <3>4, SettingTypes DEF Recent
      <4> QED BY <3>3, <3>4, <4>1 DEF SettingsLast
    <3>5. CASE newest' = newest /\ Damaged("config")'
      BY <2>1, <3>2, <3>3, <3>5 DEF Recent
    <3> QED BY <1>10, <2>4, <3>2, <3>4, <3>5, SettingWrites
  <2> QED BY <2>3, <2>4
<1>11. CASE Ends
  <2>1. \A u \in Threads : Holds(u)' => Holds(u) /\ th'[u].cfg = th[u].cfg
    BY <1>3, <1>11 DEF Ends, Idle, Holds, HasRead
  <2> QED BY <1>4, <1>11, <2>1 DEF Ends, Still
<1>12. CASE Removes
  BY <1>12 DEF Removes, Undisturbed
<1>13. CASE Rests
  BY <1>3, <1>4, <1>13 DEF Rests, Still
<1> QED
  BY <1>1, <1>5, <1>6, <1>7, <1>8, <1>9, <1>10, <1>11, <1>12, <1>13 DEF Kinds

\* Of the copies of a lone process only one sets anything, and then it is the
\* only one.
LEMMA AloneKept ==
    TypeOK /\ Structure /\ StampedSets /\ Alone /\ [Next]_vars => Alone'
<1> SUFFICES ASSUME TypeOK, Structure, StampedSets, Alone, [Next]_vars,
                    mishap' \cap {"company", "removed"} = {}
             PROVE  /\ \A p, q \in Procs : th'[<<p, "main">>].phase # "idle"
                                           /\ th'[<<q, "main">>].phase # "idle" => p = q
                    /\ ~Damaged("config")' => SettingsLast'
                    /\ \A u \in Threads : HasRead(u, "config")' =>
                         /\ Recent(u)'
                         /\ th'[u].job \notin {"set", "device"} =>
                               th'[u].cfg.set = newest'.set
  BY DEF Alone
<1> DEFINE Sole == \A p, q \in Procs : th'[<<p, "main">>].phase # "idle"
                                        /\ th'[<<q, "main">>].phase # "idle" => p = q
           Last == ~Damaged("config")' => SettingsLast'
           Right(u) == HasRead(u, "config")' =>
                         /\ Recent(u)'
                         /\ th'[u].job \notin {"set", "device"} =>
                               th'[u].cfg.set = newest'.set
<1> SUFFICES Sole /\ Last /\ \A u \in Threads : Right(u)
  OBVIOUS
<1>1. Kinds
  BY StepKinds
<1>2. /\ \A p, q \in Procs : th[<<p, "main">>].phase # "idle"
                              /\ th[<<q, "main">>].phase # "idle" => p = q
      /\ ~Damaged("config") => SettingsLast
      /\ \A u \in Threads : HasRead(u, "config") =>
            /\ Recent(u)
            /\ th[u].job \notin {"set", "device"} => th[u].cfg.set = newest.set
  BY <1>1, MishapsStay DEF Alone
<1>3. \A u \in Threads :
        Alike(u) => /\ HasRead(u, "config")' <=> HasRead(u, "config")
                    /\ th'[u].cfg = th[u].cfg /\ th'[u].job = th[u].job
                    /\ th'[u].phase = th[u].phase
  BY Reading DEF Alike, Files
<1>4. \A u \in Threads : (Same(u) => Alike(u)) /\ \A f \in Files : Marked(u, f) => Alike(u)
  BY DEF Same, Marked
<1>5. \A p \in Procs : <<p, "main">> \in Threads
  BY DEF Threads
\* Config.json and the newest values as they were.
<1>6. ASSUME newest'.set = newest.set, disk'["config"] = disk["config"]
      PROVE  /\ Last
             /\ \A u \in Threads : Alike(u) => Right(u)
  <2>1. Last
    BY <1>2, <1>6 DEF Damaged, SettingsLast
  <2>2. \A u \in Threads : Alike(u) => Right(u)
    BY <1>2, <1>3, <1>6 DEF Recent
  <2> QED BY <2>1, <2>2
<1>7. ASSUME \A u \in Threads : th'[u].phase # "idle" => th[u].phase # "idle"
      PROVE  Sole
  BY <1>2, <1>5, <1>7
<1> HIDE DEF Sole, Last, Right
<1>8. ASSUME NEW t \in Threads, Begins(t)
      PROVE  Sole /\ Last /\ \A u \in Threads : Right(u)
  <2>1. ~HasRead(t, "config")' /\ Still /\ Others(t)
    BY <1>8, SettingSteps DEF Begins
  <2>2. Right(t)
    BY <2>1 DEF Right
  <2>3. Sole
    <3>1. CASE t[2] = "main" /\ Quiet
      <4>1. \A u \in Threads \ {t} : th'[u].phase = "idle"
        BY <1>3, <1>4, <2>1, <3>1 DEF Others, Quiet
      <4> QED BY <1>5, <4>1 DEF Sole
    <3>2. CASE t[2] = "background"
      <4>1. \A p \in Procs : th'[<<p, "main">>].phase = th[<<p, "main">>].phase
        <5>1. \A p \in Procs : <<p, "main">> # t
          BY <3>2
        <5> QED BY <1>3, <1>4, <1>5, <2>1, <5>1 DEF Others
      <4> QED BY <1>2, <4>1 DEF Sole
    <3> QED BY <1>8, <3>1, <3>2 DEF Begins
  <2> QED BY <1>4, <1>6, <2>1, <2>2, <2>3 DEF Still, Others
<1>9. ASSUME NEW t \in Threads, ReadsNone(t) \/ ReadsConfig(t)
      PROVE  Sole /\ Last /\ \A u \in Threads : Right(u)
  <2>1. th'[t].cfg.set = newest.set
    BY <1>2, <1>9, SettingSteps DEF SettingsLast
  <2>2. Still /\ Others(t) /\ th[t].phase # "idle"
    BY <1>9 DEF ReadsNone, ReadsConfig, In
  <2>3. Right(t)
    BY <2>1, <2>2, SettingTypes DEF Right, Recent, Still
  <2>4. Sole
    BY <1>3, <1>4, <1>7, <2>2 DEF Others
  <2> QED BY <1>4, <1>6, <2>2, <2>3, <2>4 DEF Still, Others
<1>10. ASSUME NEW t \in Threads, ReadsTokens(t)
       PROVE  Sole /\ Last /\ \A u \in Threads : Right(u)
  <2>1. th'[t].cfg.set = th[t].cfg.set /\ HasRead(t, "config") /\ th'[t].job = th[t].job
    BY <1>10, SettingSteps DEF ReadsTokens
  <2>2. Still /\ Others(t) /\ th[t].phase # "idle"
    BY <1>10 DEF ReadsTokens, In
  <2>3. Right(t)
    BY <1>2, <2>1, <2>2 DEF Right, Recent, Still
  <2>4. Sole
    BY <1>3, <1>4, <1>7, <2>2 DEF Others
  <2> QED BY <1>4, <1>6, <2>2, <2>3, <2>4 DEF Still, Others
<1>11. ASSUME NEW t \in Threads, Works(t)
       PROVE  Sole /\ Last /\ \A u \in Threads : Right(u)
  <2>1. newest' = newest /\ disk'["config"] = disk["config"] /\ Others(t)
        /\ th'[t].job = th[t].job /\ th[t].phase # "idle"
    BY <1>11 DEF Works, AtCommand, In
  <2>2. Right(t)
    <3>1. HasRead(t, "config")
      BY <1>11, SettingSteps
    <3>2. CASE th'[t].cfg.set = th[t].cfg.set
      BY <1>2, <2>1, <3>1, <3>2 DEF Right, Recent
    <3>3. CASE /\ th[t].job \in {"set", "device"}
               /\ \A f \in Fields : \/ th'[t].cfg.set[f] = th[t].cfg.set[f]
                                    \/ newest.set[f] =< th'[t].cfg.set[f]
      BY <1>2, <2>1, <3>1, <3>3 DEF Right, Recent
    <3> QED BY <1>11, <3>2, <3>3, SettingSteps
  <2>3. Sole
    BY <1>3, <1>4, <1>7, <2>1 DEF Others
  <2> QED BY <1>4, <1>6, <2>1, <2>2, <2>3 DEF Others
<1>12. ASSUME NEW t \in Threads, NEW f \in Files, Opens(t, f)
       PROVE  Sole /\ Last /\ \A u \in Threads : Right(u)
  <2>1. /\ th[t].phase = "open" /\ th'[t].phase = "write" /\ th'[t].cfg = th[t].cfg
        /\ th'[t].job = th[t].job /\ \A u \in Threads \ {t} : Alike(u)
        /\ newest' = newest
    BY <1>4, <1>12 DEF Opens, In
  <2>2. Sole
    BY <1>3, <1>7, <2>1
  <2>3. \A u \in Threads : Right(u)
    <3> SUFFICES ASSUME NEW u \in Threads, HasRead(u, "config")'
                 PROVE  Recent(u)' /\ (th'[u].job \notin {"set", "device"} =>
                                          th'[u].cfg.set = newest'.set)
      BY DEF Right
    <3>1. HasRead(u, "config") /\ th'[u].cfg = th[u].cfg /\ th'[u].job = th[u].job
      BY <1>3, <2>1 DEF HasRead
    <3> QED BY <1>2, <2>1, <3>1 DEF Recent
  <2>4. Last
    <3>1. CASE f = "config"
      BY <1>12, <3>1, TypesParted DEF Opens, DiskOK, Damaged, Unreadable, Last
    <3>2. CASE f # "config"
      <4>1. disk'["config"] = disk["config"]
        BY <1>12, <3>2, TypesParted DEF Opens, DiskOK, Files
      <4> QED BY <1>6, <2>1, <4>1
    <3> QED BY <3>1, <3>2
  <2> QED BY <2>2, <2>3, <2>4
<1>13. ASSUME NEW t \in Threads, NEW f \in Files, Writes(t, f)
       PROVE  Sole /\ Last /\ \A u \in Threads : Right(u)
  <2>1. /\ th[t].phase = "write" /\ th'[t].phase # "idle" /\ th'[t].cfg = th[t].cfg
        /\ th'[t].job = th[t].job /\ \A u \in Threads \ {t} : Alike(u)
        /\ HasRead(t, "config")
    BY <1>4, <1>13 DEF Writes, In, HasRead, Files
  <2>2. Sole
    BY <1>3, <1>7, <2>1
  <2>3. \A u \in Threads : HasRead(u, "config")' =>
            HasRead(u, "config") /\ th'[u].cfg = th[u].cfg /\ th'[u].job = th[u].job
    BY <1>3, <2>1
  <2>4. ASSUME newest'.set = newest.set
        PROVE  \A u \in Threads : Right(u)
    BY <1>2, <2>3, <2>4 DEF Right, Recent
  <2>5. CASE f # "config"
    BY <1>6, <1>13, <2>2, <2>4, <2>5, SettingWrites
  <2>6. CASE f = "config"
    <3>1. Recent(t)
      BY <1>2, <2>1
    <3>2. CASE newest' = newest /\ Damaged("config")'
      BY <2>2, <2>4, <3>2 DEF Last
    <3>3. CASE newest'.set = th[t].cfg.set /\ disk'["config"].data.set = th[t].cfg.set
      <4>1. Last
        BY <3>3 DEF Last, SettingsLast
      <4>2. CASE th[t].job \notin {"set", "device"}
        BY <1>2, <2>1, <2>2, <2>4, <3>3, <4>1, <4>2
      <4>3. CASE th[t].job \in {"set", "device"}
        \* Its process has no refresh, and no other process runs.
        <5>1. \A u \in Threads : HasRead(u, "config") => u = t
          <6> SUFFICES ASSUME NEW u \in Threads, th[u].phase # "idle"
                       PROVE  u = t
            BY Reading DEF Files
          <6>1. /\ t[1] \in Procs /\ (t = <<t[1], "main">> \/ t = <<t[1], "background">>)
                /\ u[1] \in Procs /\ (u = <<u[1], "main">> \/ u = <<u[1], "background">>)
            BY DEF Threads
          <6>2. t = <<t[1], "main">>
            BY <2>1, <4>3, <6>1 DEF Structure, Backed
          <6>3. th[<<u[1], "main">>].phase # "idle"
            BY <6>1 DEF Structure, Backed
          <6>4. u[1] = t[1]
            BY <1>2, <2>1, <6>1, <6>2, <6>3
          <6>5. u # <<u[1], "background">>
            BY <4>3, <6>1, <6>2, <6>4 DEF Structure, Backed
          <6> QED BY <6>1, <6>2, <6>4, <6>5
        <5>2. \A u \in Threads : Right(u)
          BY <2>1, <2>3, <3>3, <4>3, <5>1, SettingTypes DEF Right, Recent
        <5> QED BY <2>2, <4>1, <5>2
      <4> QED BY <4>2, <4>3
    <3> QED BY <1>13, <2>6, <3>1, <3>2, <3>3, SettingWrites
  <2> QED BY <2>5, <2>6
<1>14. ASSUME Still, \A u \in Threads : Same(u) \/ th'[u] = Idle
       PROVE  Sole /\ Last /\ \A u \in Threads : Right(u)
  <2>1. \A u \in Threads : th'[u].phase # "idle" => th[u].phase # "idle"
    BY <1>3, <1>4, <1>14 DEF Idle
  <2>2. \A u \in Threads : th'[u] = Idle => Right(u)
    BY DEF Idle, HasRead, Right
  <2> QED BY <1>4, <1>6, <1>7, <1>14, <2>1, <2>2 DEF Still
<1>15. CASE Ends
  <2>1. Still /\ \A u \in Threads : Same(u) \/ th'[u] = Idle
    BY <1>15 DEF Ends
  <2> QED BY <1>14, <2>1
<1>16. CASE Removes
  BY <1>16 DEF Removes
<1>17. CASE Rests
  BY <1>14, <1>17 DEF Rests
<1> QED
  BY <1>1, <1>8, <1>9, <1>10, <1>11, <1>12, <1>13, <1>15, <1>16, <1>17 DEF Kinds

LEMMA SettingsStart == Init => StampedSets /\ StampedTokens /\ Settled /\ Alone
<1> SUFFICES ASSUME Init PROVE StampedSets /\ StampedTokens /\ Settled /\ Alone
  OBVIOUS
<1>1. \A t \in Threads : th[t] = Idle
  BY DEF Init
<1>2. stamp = 1
  BY DEF Init
<1>3. /\ \A f \in Fields : EmptyConfig.set[f] = 0
      /\ \A h \in Hubs : EmptyConfig.token[h] = 0 /\ NoTokens[h] = 0
      /\ Idle.cfg = EmptyConfig /\ Idle.phase = "idle"
  BY DEF EmptyConfig, NoTokens, Idle
<1>4. \A g \in Hubs : /\ Paired(g).set = EmptyConfig.set
                      /\ ConfigOnly(Paired(g)).set = EmptyConfig.set
                      /\ \A h \in Hubs : /\ Paired(g).token[h] \in {0, 1}
                                          /\ ConfigOnly(Paired(g)).token[h] = 0
  BY DEF Paired, EmptyConfig, NoTokens, ConfigOnly
<1>5. \A f \in Fields : /\ newest.set[f] = 0 /\ disk["config"].data.set[f] = 0
  BY <1>3, <1>4 DEF Init, Fresh, FirstRelease, Today, Absent, Intact, Content, Files
<1>6. newest.set = EmptyConfig.set /\ disk["config"].data.set = EmptyConfig.set
  BY <1>3, <1>4 DEF Init, Fresh, FirstRelease, Today, Absent, Intact, Content, Files
<1>7. \A h \in Hubs : newest.token[h] \in {0, 1} /\ disk["config"].data.token[h] \in {0, 1}
                      /\ Stored[h] \in {0, 1}
  BY <1>3, <1>4 DEF Init, Fresh, FirstRelease, Today, Absent, Intact, Content, Files, Stored
<1>8. StampedSets
  BY <1>1, <1>2, <1>3, <1>5 DEF StampedSets
<1>9. StampedTokens
  BY <1>1, <1>2, <1>3, <1>7 DEF StampedTokens
<1>10. \A u \in Threads, f \in Files : ~HasRead(u, f)
  BY <1>1, <1>3, Reading
<1>11. Settled
  BY <1>6, <1>10 DEF Settled, SettingsLast, Holds, Files
<1>12. Alone
  BY <1>1, <1>3, <1>6, <1>10 DEF Alone, SettingsLast, Files, Threads
<1> QED BY <1>8, <1>9, <1>11, <1>12

\* Nothing holds a value or a token that is newer than the newest stamp.
LEMMA StampsHold == Spec => [](StampedSets /\ StampedTokens)
BY SettingsStart, StampedKept, StructureHolds, PTL DEF Spec

\* What a command saved stays until another command sets it, unless an old
\* copy was saved or a damaged file removed (config.go, Save).
THEOREM SettingsAreKept == Spec => []SettingsKept
<1>1. Settled => SettingsKept
  BY DEF Settled, Undisturbed, SettingsKept
<1> QED BY <1>1, SettingsStart, SettledKept, StampsHold, StructureHolds, PTL DEF Spec

\* Commands run one after the other never undo each other's settings, killed
\* or not, although an ask saves twice at once.
THEOREM LoneSettingsAreKept == Spec => []AloneKeepsSettings
<1>1. Alone => AloneKeepsSettings
  BY DEF Alone, AloneKeepsSettings
<1> QED BY <1>1, SettingsStart, AloneKept, StampsHold, StructureHolds, PTL DEF Spec

-----------------------------------------------------------------------------
(* Tokens.                                                                 *)

\* No file has a token newer than the newest, and config.json has none left
\* when tokens.json is to be written.
Bounded ==
    \A h \in Hubs : disk["config"].data.token[h] =< newest.token[h]
                    /\ Stored[h] =< newest.token[h]

Emptied ==
    \A t \in Threads : SavesTokens(t) => \A h \in Hubs : disk["config"].data.token[h] = 0

\* The two files lack a token; a save that will bring it.
Behind == \E h \in Hubs : StoredToken(h) # newest.token[h]

AtWork(t) == In(t, "open", "tokens")

\* The tokens u has, or would have if it went on reading.
HeldToken(u, h) ==
    IF ~HasRead(u, "tokens") /\ Stored[h] # 0 THEN Stored[h] ELSE th[u].cfg.token[h]

Keyed(u) == \A h \in Hubs : newest.token[h] =< HeldToken(u, h)

Rescued(u) == Behind /\ \E t \in Threads \ {u} : AtWork(t)

Uncut == mishap \cap {"stripped", "stale", "removed"} = {}

\* With its copy of tokens.json up to date, or about to read it.
Current(u) ==
    \/ HasRead(u, "tokens") /\ "tokens" \notin th[u].stale
    \/ HasRead(u, "config") /\ ~HasRead(u, "tokens") /\ ~Damaged("tokens")

\* The files have every newest token, or a save is about to bring it; and so
\* has every current copy, or another thread's save is about to make it old.
FilesSafe == ~Damaged("config") /\ ~Damaged("tokens")
             => ~Behind \/ \E t \in Threads : AtWork(t)

CopiesSafe == \A u \in Threads : Current(u) => Keyed(u) \/ Rescued(u)

TokensSafe == Uncut => FilesSafe /\ CopiesSafe

LEMMA TokenTypes ==
    ASSUME TypeOK
    PROVE  /\ newest \in Configs /\ newest.token \in [Hubs -> Nat]
           /\ disk["config"].data \in Configs
           /\ disk["config"].data.token \in [Hubs -> Nat]
           /\ Stored \in [Hubs -> Nat]
           /\ \A u \in Threads : /\ th[u] \in ThreadRecords /\ th[u].cfg \in Configs
                                 /\ th[u].cfg.token \in [Hubs -> Nat]
           /\ \A h \in Hubs : StoredToken(h) = IF Stored[h] # 0 THEN Stored[h]
                                               ELSE disk["config"].data.token[h]
<1>1. /\ newest \in Configs /\ disk["config"].data \in Configs
      /\ \A u \in Threads : th[u] \in ThreadRecords
  BY DEF TypeOK
<1>2. \A u \in Threads : th[u].cfg \in Configs
  BY <1>1 DEF ThreadRecords
<1>3. \A h \in Hubs : StoredToken(h) = IF Stored[h] # 0 THEN Stored[h]
                                       ELSE disk["config"].data.token[h]
  BY DEF StoredToken, Stored, NoTokens
<1> QED BY <1>1, <1>2, <1>3, StoredTypes DEF Configs

\* What a save does to the tokens in the files.
LEMMA TokenSaves ==
    ASSUME TypeOK, NEW t \in Threads, NEW f \in Files
    PROVE  /\ Opens(t, f) =>
                /\ newest' = newest
                /\ f = "config" =>
                      /\ Stored' = Stored /\ disk'["tokens"] = disk["tokens"]
                      /\ Damaged("config")'
                      /\ \A h \in Hubs : disk'["config"].data.token[h] = 0
                /\ f = "tokens" => /\ disk'["config"] = disk["config"]
                                   /\ Damaged("tokens")' /\ Stored' = NoTokens
                /\ f = "cache" => disk'["config"] = disk["config"]
                                  /\ disk'["tokens"] = disk["tokens"]
           /\ Writes(t, f) =>
                /\ f = "config" =>
                      /\ Stored' = Stored /\ disk'["tokens"] = disk["tokens"]
                      /\ newest'.token = newest.token
                      /\ \A h \in Hubs : disk'["config"].data.token[h] = 0
                /\ f = "tokens" =>
                      /\ disk'["config"] = disk["config"]
                      /\ \/ /\ Stored' = th[t].cfg.token /\ ~Damaged("tokens")'
                            /\ newest'.token = Later(newest.token, th[t].cfg.token)
                         \/ Stored' = NoTokens /\ Damaged("tokens")' /\ newest' = newest
                /\ f = "cache" => /\ disk'["config"] = disk["config"]
                                  /\ disk'["tokens"] = disk["tokens"]
                                  /\ newest'.token = newest.token
<1>0. DiskOK /\ "config" \in Files /\ "tokens" \in Files
      /\ \A h \in Hubs : EmptyConfig.token[h] = 0 /\ NoTokens[h] = 0
  BY TypesParted DEF Files, EmptyConfig, NoTokens
<1>1. ASSUME Opens(t, f)
      PROVE  /\ newest' = newest
             /\ f = "config" =>
                   /\ Stored' = Stored /\ disk'["tokens"] = disk["tokens"]
                   /\ Damaged("config")'
                   /\ \A h \in Hubs : disk'["config"].data.token[h] = 0
             /\ f = "tokens" => /\ disk'["config"] = disk["config"]
                                /\ Damaged("tokens")' /\ Stored' = NoTokens
             /\ f = "cache" => disk'["config"] = disk["config"]
                               /\ disk'["tokens"] = disk["tokens"]
  <2>1. disk'[f] = Unreadable("empty") /\ \A g \in Files \ {f} : disk'[g] = disk[g]
    BY <1>0, <1>1 DEF Opens, DiskOK
  <2> QED BY <1>0, <1>1, <2>1 DEF Opens, Unreadable, Damaged, Stored
<1>2. ASSUME Writes(t, f)
      PROVE  /\ f = "config" =>
                   /\ Stored' = Stored /\ disk'["tokens"] = disk["tokens"]
                   /\ newest'.token = newest.token
                   /\ \A h \in Hubs : disk'["config"].data.token[h] = 0
             /\ f = "tokens" =>
                   /\ disk'["config"] = disk["config"]
                   /\ \/ /\ Stored' = th[t].cfg.token /\ ~Damaged("tokens")'
                         /\ newest'.token = Later(newest.token, th[t].cfg.token)
                      \/ Stored' = NoTokens /\ Damaged("tokens")' /\ newest' = newest
             /\ f = "cache" => /\ disk'["config"] = disk["config"]
                               /\ disk'["tokens"] = disk["tokens"]
                               /\ newest'.token = newest.token
  <2>1. /\ \A g \in Files \ {f} : disk'[g] = disk[g]
        /\ \/ /\ disk'[f] = Intact(Content(th[t].cfg, f))
              /\ newest'.token = IF f = "tokens" THEN Later(newest.token, th[t].cfg.token)
                                 ELSE newest.token
           \/ disk'[f] = Unreadable("garbled") /\ newest' = newest
    BY <1>2, WriteResults
  <2>2. /\ Content(th[t].cfg, "config").token = NoTokens
        /\ Content(th[t].cfg, "tokens") = th[t].cfg.token
    BY TokenTypes, ContentTypes
  <2>3. CASE f = "config"
    BY <1>0, <2>1, <2>2, <2>3 DEF Intact, Unreadable, Stored
  <2>4. CASE f = "tokens"
    BY <1>0, <2>1, <2>2, <2>4 DEF Intact, Unreadable, Stored, Damaged
  <2>5. CASE f = "cache"
    BY <1>0, <2>1, <2>5
  <2> QED BY <2>3, <2>4, <2>5 DEF Files
<1> QED BY <1>1, <1>2

LEMMA BoundedKept ==
    TypeOK /\ TypeOK' /\ Structure /\ Bounded /\ Emptied /\ [Next]_vars
        => Bounded' /\ Emptied'
<1> SUFFICES ASSUME TypeOK, TypeOK', Structure, Bounded, Emptied, [Next]_vars
             PROVE  Bounded' /\ Emptied'
  OBVIOUS
<1>0. DiskOK /\ "config" \in Files /\ "tokens" \in Files
      /\ \A h \in Hubs : EmptyConfig.token[h] = 0 /\ NoTokens[h] = 0
  BY TypesParted DEF Files, EmptyConfig, NoTokens
<1>1. Kinds
  BY StepKinds
<1>2. \A u \in Threads : /\ Same(u) => (SavesTokens(u)' <=> SavesTokens(u))
                         /\ \A f \in Files : Marked(u, f) => (SavesTokens(u)' <=> SavesTokens(u))
  BY HoldsKept
<1>3. \A h \in Hubs : newest.token[h] \in Nat /\ 0 =< newest.token[h]
  BY TokenTypes
<1>4. ASSUME disk'["config"] = disk["config"], disk'["tokens"] = disk["tokens"],
             newest'.token = newest.token,
             \A u \in Threads : SavesTokens(u)' => SavesTokens(u)
      PROVE  Bounded' /\ Emptied'
  <2>1. Stored' = Stored
    BY <1>4 DEF Stored
  <2> QED BY <1>4, <2>1 DEF Bounded, Emptied
<1>5. ASSUME NEW t \in Threads,
             Begins(t) \/ ReadsNone(t) \/ ReadsConfig(t) \/ ReadsTokens(t) \/ Works(t)
      PROVE  Bounded' /\ Emptied'
  <2>1. Others(t) /\ disk'["tokens"] = disk["tokens"] /\ disk'["config"] = disk["config"]
        /\ newest' = newest
    BY <1>5 DEF Begins, ReadsNone, ReadsConfig, ReadsTokens, Works, Still
  <2>2. ~SavesTokens(t)'
    BY <1>5 DEF Begins, ReadsNone, ReadsConfig, ReadsTokens, Works, SavesTokens
  <2> QED BY <1>2, <1>4, <2>1, <2>2 DEF Others
<1>6. ASSUME NEW t \in Threads, NEW f \in Files, Opens(t, f)
      PROVE  Bounded' /\ Emptied'
  <2>1. \A u \in Threads : SavesTokens(u)' <=> SavesTokens(u)
    BY <1>2, <1>6 DEF Opens, SavesTokens, In
  <2>2. CASE f = "config"
    BY <1>3, <1>6, <2>2, TokenSaves DEF Bounded, Emptied
  <2>3. CASE f = "tokens"
    <3>1. disk'["config"] = disk["config"] /\ Stored' = NoTokens /\ newest' = newest
      BY <1>6, <2>3, TokenSaves
    <3> QED BY <1>0, <1>3, <2>1, <3>1 DEF Bounded, Emptied
  <2>4. CASE f = "cache"
    BY <1>4, <1>6, <2>1, <2>4, TokenSaves
  <2> QED BY <2>2, <2>3, <2>4 DEF Files
<1>7. ASSUME NEW t \in Threads, NEW f \in Files, Writes(t, f)
      PROVE  Bounded' /\ Emptied'
  <2>1. \A u \in Threads \ {t} : SavesTokens(u)' <=> SavesTokens(u)
    BY <1>2, <1>7 DEF Writes
  <2>2. CASE f = "config"
    BY <1>3, <1>7, <2>2, TokenSaves DEF Bounded, Emptied
  <2>3. CASE f = "tokens"
    <3>1. SavesTokens(t) /\ ~SavesTokens(t)'
      BY <1>7, <2>3 DEF Writes, In, SavesTokens
    <3>2. disk'["config"] = disk["config"]
      BY <1>7, <2>3, TokenSaves
    <3>3. Emptied'
      BY <2>1, <3>1, <3>2 DEF Emptied
    <3>4. CASE Stored' = th[t].cfg.token
               /\ newest'.token = Later(newest.token, th[t].cfg.token)
      <4>1. \A h \in Hubs : newest.token[h] =< newest'.token[h]
                            /\ th[t].cfg.token[h] =< newest'.token[h]
        BY <3>4, TokenTypes, LaterTypes
      <4>2. \A h \in Hubs : disk["config"].data.token[h] = 0
        BY <3>1 DEF Emptied
      <4>3. \A h \in Hubs : newest'.token[h] \in Nat
        BY DEF TypeOK, Configs
      <4> QED BY <3>2, <3>3, <3>4, <4>1, <4>2, <4>3 DEF Bounded
    <3>5. CASE Stored' = NoTokens /\ newest' = newest
      BY <1>0, <1>3, <3>2, <3>3, <3>5 DEF Bounded
    <3> QED BY <1>7, <2>3, <3>4, <3>5, TokenSaves
  <2>4. CASE f = "cache"
    <3>1. \A u \in Threads : SavesTokens(u)' => SavesTokens(u)
      BY <1>7, <2>1, <2>4 DEF Writes, SavesTokens
    <3> QED BY <1>4, <1>7, <2>4, <3>1, TokenSaves
  <2> QED BY <2>2, <2>3, <2>4 DEF Files
<1>8. CASE Ends
  <2>1. \A u \in Threads : SavesTokens(u)' => SavesTokens(u)
    BY <1>2, <1>8 DEF Ends, Idle, SavesTokens
  <2> QED BY <1>4, <1>8, <2>1 DEF Ends, Still
<1>9. CASE Removes
  <2>1. PICK f \in Files : disk' = [disk EXCEPT ![f] = Absent]
    BY <1>9 DEF Removes
  <2>2. disk'[f] = Absent /\ \A g \in Files \ {f} : disk'[g] = disk[g]
    BY <1>0, <2>1 DEF DiskOK
  <2>3. /\ disk'["config"].data \in {disk["config"].data, EmptyConfig}
        /\ Stored' \in {Stored, NoTokens}
    BY <1>0, <2>2 DEF Absent, Stored
  <2>4. Bounded'
    BY <1>0, <1>3, <1>9, <2>3 DEF Removes, Bounded
  <2>5. \A u \in Threads : ~SavesTokens(u)'
    BY <1>2, <1>9 DEF Removes, Quiet, SavesTokens
  <2> QED BY <2>4, <2>5 DEF Emptied
<1>10. CASE Rests
  BY <1>2, <1>4, <1>10 DEF Rests, Still
<1> QED BY <1>1, <1>5, <1>6, <1>7, <1>8, <1>9, <1>10 DEF Kinds

\* Behind, told by the token that is missing.
LEMMA Missing ==
    ASSUME TypeOK, Bounded
    PROVE  /\ Behind <=> \E h \in Hubs : StoredToken(h) < newest.token[h]
           /\ \A h \in Hubs : StoredToken(h) \in Nat /\ newest.token[h] \in Nat
                              /\ StoredToken(h) =< newest.token[h]
<1>1. \A h \in Hubs : StoredToken(h) \in Nat /\ newest.token[h] \in Nat
                      /\ StoredToken(h) =< newest.token[h]
  <2> SUFFICES ASSUME NEW h \in Hubs
               PROVE  StoredToken(h) \in Nat /\ newest.token[h] \in Nat
                      /\ StoredToken(h) =< newest.token[h]
    OBVIOUS
  <2>1. /\ StoredToken(h) = IF Stored[h] # 0 THEN Stored[h]
                            ELSE disk["config"].data.token[h]
        /\ Stored[h] \in Nat /\ disk["config"].data.token[h] \in Nat
        /\ newest.token[h] \in Nat
    BY TokenTypes
  <2> QED BY <2>1 DEF Bounded
<1>2. \A h \in Hubs : StoredToken(h) # newest.token[h] <=> StoredToken(h) < newest.token[h]
  BY <1>1
<1> QED BY <1>1, <1>2 DEF Behind

\* The files lose tokens, never the newest values: who was behind is behind.
LEMMA StillBehind ==
    ASSUME TypeOK, TypeOK', Bounded, Bounded', Behind, newest'.token = newest.token,
           \A h \in Hubs : disk'["config"].data.token[h] = disk["config"].data.token[h]
                           \/ disk'["config"].data.token[h] = 0,
           \/ Stored' = Stored
           \/ Stored' = NoTokens /\ \A h \in Hubs : disk'["config"].data.token[h] = 0
    PROVE  Behind'
<1>1. PICK h \in Hubs : StoredToken(h) < newest.token[h]
  BY Missing
<1>2. /\ StoredToken(h) \in Nat /\ newest.token[h] \in Nat /\ newest'.token[h] = newest.token[h]
  BY Missing
<1>3. StoredToken(h) = IF Stored[h] # 0 THEN Stored[h] ELSE disk["config"].data.token[h]
  BY TokenTypes
<1>4. StoredToken(h)' = IF Stored'[h] # 0 THEN Stored'[h] ELSE disk'["config"].data.token[h]
  BY DEF StoredToken, Stored, NoTokens
<1>5. NoTokens[h] = 0
  BY DEF NoTokens
<1>6. StoredToken(h)' = StoredToken(h) \/ StoredToken(h)' = 0
  BY <1>3, <1>4, <1>5
<1> QED BY <1>1, <1>2, <1>6 DEF Behind

LEMMA TokensSafeKept ==
    TypeOK /\ TypeOK' /\ Structure /\ Unread /\ ConfigFirst /\ StampedTokens /\ Bounded
      /\ Bounded' /\ Emptied /\ TokensSafe /\ [Next]_vars => TokensSafe'
<1> SUFFICES ASSUME TypeOK, TypeOK', Structure, Unread, ConfigFirst, StampedTokens,
                    Bounded, Bounded', Emptied, TokensSafe, [Next]_vars, Uncut'
             PROVE  FilesSafe' /\ CopiesSafe'
  BY DEF TokensSafe
<1>0. DiskOK /\ "config" \in Files /\ "tokens" \in Files
      /\ \A h \in Hubs : EmptyConfig.token[h] = 0 /\ NoTokens[h] = 0
  BY TypesParted DEF Files, EmptyConfig, NoTokens
<1>1. Kinds
  BY StepKinds
<1>2. Uncut /\ FilesSafe /\ CopiesSafe /\ "removed" \notin mishap
  BY <1>1, MishapsStay DEF Uncut, TokensSafe
<1>3. \A u \in Threads : Alike(u) =>
        /\ HasRead(u, "tokens")' <=> HasRead(u, "tokens")
        /\ HasRead(u, "config")' <=> HasRead(u, "config")
        /\ AtWork(u)' <=> AtWork(u)
        /\ th'[u].cfg = th[u].cfg
  BY <1>0, Reading DEF Alike, AtWork, In
<1>4. /\ \A u \in Threads : Same(u) => Alike(u) /\ th'[u].stale = th[u].stale
      /\ \A u \in Threads, f \in Files : Marked(u, f) =>
            /\ Alike(u) /\ th[u].stale \subseteq th'[u].stale
            /\ HasRead(u, f) => f \in th'[u].stale
            /\ \A g \in Files \ {f} : g \in th'[u].stale <=> g \in th[u].stale
  BY DEF Same, Marked
<1>5. ASSUME disk'["config"] = disk["config"], disk'["tokens"] = disk["tokens"],
             newest'.token = newest.token
      PROVE  /\ Stored' = Stored /\ (Behind' <=> Behind)
             /\ Damaged("config")' <=> Damaged("config")
             /\ Damaged("tokens")' <=> Damaged("tokens")
  BY <1>5 DEF Stored, Behind, StoredToken, Damaged
\* A step of one thread that leaves the two files alone and is no save.
<1>6. ASSUME NEW t \in Threads, Others(t),
             disk'["config"] = disk["config"], disk'["tokens"] = disk["tokens"],
             newest' = newest, ~AtWork(t), ~AtWork(t)',
             Current(t)' => Keyed(t)' \/ Rescued(t)
      PROVE  FilesSafe' /\ CopiesSafe'
  <2>1. \A u \in Threads : AtWork(u)' <=> AtWork(u)
    BY <1>3, <1>4, <1>6 DEF Others
  <2>2. Stored' = Stored /\ (Behind' <=> Behind)
        /\ (Damaged("config")' <=> Damaged("config"))
        /\ (Damaged("tokens")' <=> Damaged("tokens"))
    BY <1>5, <1>6
  <2>3. FilesSafe'
    BY <1>2, <2>1, <2>2 DEF FilesSafe
  <2>4. \A u \in Threads : Rescued(u)' <=> Rescued(u)
    BY <2>1, <2>2 DEF Rescued
  <2>5. ASSUME NEW u \in Threads \ {t}, Current(u)'
        PROVE  Keyed(u)' \/ Rescued(u)'
    <3>1. Same(u)
      BY <1>6 DEF Others
    <3>2. Current(u)
      BY <1>3, <1>4, <2>2, <2>5, <3>1 DEF Current
    <3>3. Keyed(u) => Keyed(u)'
      BY <1>3, <1>4, <1>6, <2>2, <3>1 DEF Keyed, HeldToken
    <3> QED BY <1>2, <2>4, <3>2, <3>3 DEF CopiesSafe
  <2> QED BY <1>6, <2>3, <2>4, <2>5 DEF CopiesSafe
<1>7. ASSUME NEW t \in Threads, Begins(t)
      PROVE  FilesSafe' /\ CopiesSafe'
  <2>1. ~AtWork(t) /\ ~AtWork(t)' /\ ~Current(t)'
    BY <1>7 DEF Begins, AtWork, In, Current, HasRead
  <2> QED BY <1>6, <1>7, <2>1 DEF Begins, Still
<1>8. ASSUME NEW t \in Threads, ReadsNone(t)
      PROVE  FilesSafe' /\ CopiesSafe'
  <2>1. ~AtWork(t) /\ ~AtWork(t)' /\ th'[t].cfg = EmptyConfig
    BY <1>8 DEF ReadsNone, AtWork, In
  <2>2. disk["config"].state = "absent" /\ disk["tokens"].state = "absent"
        /\ \A u \in Threads : ~SavesTokens(u)
    BY <1>2, <1>8 DEF ReadsNone, ConfigFirst
  <2>3. ~Damaged("config") /\ ~Damaged("tokens") /\ \A u \in Threads : ~AtWork(u)
    BY <2>2 DEF Damaged, AtWork, In, SavesTokens
  <2>4. \A h \in Hubs : StoredToken(h) = newest.token[h]
    BY <1>2, <2>3 DEF FilesSafe, Behind
  <2>5. \A h \in Hubs : StoredToken(h) = 0
    BY <1>0, <2>2 DEF StoredToken, DiskOK
  <2>6. HasRead(t, "tokens")' /\ newest' = newest
    BY <1>8 DEF ReadsNone, HasRead, Still
  <2>7. Keyed(t)'
    BY <1>0, <2>1, <2>4, <2>5, <2>6 DEF Keyed, HeldToken
  <2> QED BY <1>6, <1>8, <2>1, <2>7 DEF ReadsNone, Still
<1>9. ASSUME NEW t \in Threads, ReadsConfig(t)
      PROVE  FilesSafe' /\ CopiesSafe'
  <2>1. ~AtWork(t) /\ ~AtWork(t)' /\ th'[t].cfg = disk["config"].data
        /\ ~Damaged("config") /\ ~HasRead(t, "tokens")'
    BY <1>9 DEF ReadsConfig, AtWork, In, Damaged, HasRead
  <2>2. newest' = newest /\ disk'["config"] = disk["config"] /\ disk'["tokens"] = disk["tokens"]
    BY <1>9 DEF ReadsConfig, Still
  <2>3. Stored' = Stored /\ (Damaged("tokens")' <=> Damaged("tokens"))
    BY <1>5, <2>2
  <2>4. \A h \in Hubs : HeldToken(t, h)' = StoredToken(h)
    BY <2>1, <2>3, TokenTypes DEF HeldToken
  <2>5. ASSUME Current(t)'
        PROVE  Keyed(t)' \/ Rescued(t)
    <3>1. ~Damaged("tokens")
      BY <2>1, <2>3, <2>5 DEF Current
    <3>2. CASE Behind
      BY <1>2, <2>1, <3>1, <3>2 DEF FilesSafe, Rescued
    <3>3. CASE ~Behind
      <4>1. \A h \in Hubs : HeldToken(t, h)' = newest.token[h]
        BY <2>4, <3>3 DEF Behind
      <4>2. \A h \in Hubs : newest.token[h] \in Nat
        BY TokenTypes
      <4> QED BY <2>2, <4>1, <4>2 DEF Keyed
    <3> QED BY <3>2, <3>3
  <2> QED BY <1>6, <1>9, <2>1, <2>2, <2>5 DEF ReadsConfig
<1>10. ASSUME NEW t \in Threads, ReadsTokens(t)
       PROVE  FilesSafe' /\ CopiesSafe'
  <2>1. /\ ~AtWork(t) /\ ~AtWork(t)' /\ ~HasRead(t, "tokens") /\ HasRead(t, "tokens")'
        /\ Current(t)
    BY <1>10 DEF ReadsTokens, AtWork, In, HasRead, Current
  <2>2. newest' = newest /\ disk'["config"] = disk["config"] /\ disk'["tokens"] = disk["tokens"]
    BY <1>10 DEF ReadsTokens, Still
  <2>3. \A h \in Hubs : HeldToken(t, h)' = HeldToken(t, h)
    <3>1. \A h \in Hubs : th'[t].cfg.token[h] =
                            IF Stored[h] # 0 THEN Stored[h] ELSE th[t].cfg.token[h]
      BY <1>10, TokenTypes, Fielded DEF ReadsTokens
    <3> QED BY <2>1, <3>1 DEF HeldToken
  <2>4. Keyed(t)' \/ Rescued(t)
    BY <1>2, <2>1, <2>2, <2>3 DEF CopiesSafe, Keyed
  <2> QED BY <1>6, <1>10, <2>1, <2>2, <2>4 DEF ReadsTokens
<1>11. ASSUME NEW t \in Threads, Works(t)
       PROVE  FilesSafe' /\ CopiesSafe'
  <2>1. /\ ~AtWork(t) /\ ~AtWork(t)' /\ HasRead(t, "tokens") /\ HasRead(t, "tokens")'
        /\ th'[t].stale = th[t].stale
    BY <1>11 DEF Works, AtCommand, AtWork, In, HasRead
  <2>2. newest' = newest /\ disk'["config"] = disk["config"] /\ disk'["tokens"] = disk["tokens"]
        /\ Others(t)
    BY <1>11 DEF Works
  <2>3. \A h \in Hubs : newest.token[h] =< th[t].cfg.token[h]
                          => newest.token[h] =< th'[t].cfg.token[h]
    <3>1. CASE Keeps(t)
      BY <3>1 DEF Keeps
    <3>2. CASE Sets(t)
      BY <3>2, TokenTypes, Fielded DEF Sets
    <3>3. CASE Pairs(t)
      <4>1. PICK g \in Hubs : th'[t].cfg = SetHub(th[t].cfg, g, stamp + 1)
        BY <3>3 DEF Pairs
      <4>2. \A h \in Hubs : th'[t].cfg.token[h] = IF h = g THEN stamp + 1
                                                   ELSE th[t].cfg.token[h]
        BY <4>1, TokenTypes, Fielded
      <4>3. stamp \in Nat /\ \A h \in Hubs : newest.token[h] \in Nat /\ newest.token[h] =< stamp
        BY TypesParted, TokenTypes DEF StampedTokens
      <4>4. \A h \in Hubs : newest.token[h] =< stamp + 1
        BY <4>3
      <4> QED BY <4>2, <4>4
    <3> QED BY <1>11, <3>1, <3>2, <3>3 DEF Works
  <2>4. Current(t)' => Current(t)
    BY <2>1 DEF Current
  <2>5. Keyed(t) => Keyed(t)'
    BY <2>1, <2>2, <2>3 DEF Keyed, HeldToken
  <2> QED BY <1>2, <1>6, <2>1, <2>2, <2>4, <2>5 DEF CopiesSafe
\* A save truncates one of the two files.
<1>12. ASSUME NEW t \in Threads, NEW f \in Files, Opens(t, f)
       PROVE  FilesSafe' /\ CopiesSafe'
  <2>1. /\ HasRead(t, "tokens") /\ HasRead(t, "tokens")' /\ th'[t].stale = th[t].stale
        /\ th'[t].cfg = th[t].cfg /\ (AtWork(t) <=> f = "tokens") /\ ~AtWork(t)'
    BY <1>12 DEF Opens, In, HasRead, AtWork
  <2>2. /\ newest' = newest
        /\ \A u \in Threads \ {t} : Marked(u, f)
    BY <1>12 DEF Opens
  <2>3. \A u \in Threads \ {t} : AtWork(u)' <=> AtWork(u)
    BY <1>3, <1>4, <2>2
  <2>4. CASE f = "config"
    <3>1. /\ Stored' = Stored /\ disk'["tokens"] = disk["tokens"] /\ Damaged("config")'
          /\ \A h \in Hubs : disk'["config"].data.token[h] = 0
      BY <1>12, <2>4, TokenSaves
    <3>2. Behind => Behind'
      BY <2>2, <3>1, StillBehind
    <3>3. \A u \in Threads : Rescued(u) => Rescued(u)'
      BY <2>1, <2>3, <2>4, <3>2 DEF Rescued
    <3>4. \A u \in Threads : Current(u)' => Current(u)
      <4>1. Damaged("tokens")' <=> Damaged("tokens")
        BY <3>1 DEF Damaged
      <4> QED BY <1>0, <1>3, <1>4, <2>1, <2>2, <2>4, <4>1 DEF Current
    <3>5. \A u \in Threads : Keyed(u) => Keyed(u)'
      BY <1>3, <1>4, <2>1, <2>2, <3>1 DEF Keyed, HeldToken
    <3>6. CopiesSafe'
      BY <1>2, <3>3, <3>4, <3>5 DEF CopiesSafe
    <3> QED BY <3>1, <3>6 DEF FilesSafe
  <2>5. CASE f = "tokens"
    <3>1. disk'["config"] = disk["config"] /\ Damaged("tokens")' /\ Stored' = NoTokens
      BY <1>12, <2>5, TokenSaves
    <3>2. \A u \in Threads \ {t} : ~Current(u)'
      BY <1>3, <1>4, <2>2, <2>5, <3>1 DEF Current
    <3>3. Current(t)' => Current(t)
      BY <2>1 DEF Current
    <3>4. Keyed(t) => Keyed(t)'
      BY <2>1, <2>2 DEF Keyed, HeldToken
    <3>5. Rescued(t) => Rescued(t)'
      <4>1. \A h \in Hubs : disk["config"].data.token[h] = 0
        BY <1>12, <2>5 DEF Opens, In, SavesTokens, Emptied
      <4>2. Behind => Behind'
        BY <2>2, <3>1, <4>1, StillBehind
      <4> QED BY <2>3, <4>2 DEF Rescued
    <3> QED BY <1>2, <3>1, <3>2, <3>3, <3>4, <3>5 DEF FilesSafe, CopiesSafe
  <2>6. CASE f = "cache"
    <3>1. disk'["config"] = disk["config"] /\ disk'["tokens"] = disk["tokens"]
      BY <1>12, <2>6, TokenSaves
    <3>2. Stored' = Stored /\ (Behind' <=> Behind)
          /\ (Damaged("config")' <=> Damaged("config"))
          /\ (Damaged("tokens")' <=> Damaged("tokens"))
      BY <1>5, <2>2, <3>1
    <3>3. \A u \in Threads : AtWork(u)' <=> AtWork(u)
      BY <2>1, <2>3, <2>6
    <3>4. FilesSafe' /\ \A u \in Threads : Rescued(u)' <=> Rescued(u)
      BY <1>2, <3>2, <3>3 DEF FilesSafe, Rescued
    <3>5. \A u \in Threads : Current(u)' => Current(u)
      BY <1>0, <1>3, <1>4, <2>1, <2>2, <2>6, <3>2 DEF Current
    <3>6. \A u \in Threads : Keyed(u) => Keyed(u)'
      BY <1>3, <1>4, <2>1, <2>2, <3>2 DEF Keyed, HeldToken
    <3> QED BY <1>2, <3>4, <3>5, <3>6 DEF CopiesSafe
  <2> QED BY <2>4, <2>5, <2>6 DEF Files
\* A save writes one of the two files.
<1>13. ASSUME NEW t \in Threads, NEW f \in Files, Writes(t, f)
       PROVE  FilesSafe' /\ CopiesSafe'
  <2>1. /\ HasRead(t, "tokens") /\ HasRead(t, "tokens")' /\ th'[t].stale = th[t].stale
        /\ th'[t].cfg = th[t].cfg /\ ~AtWork(t) /\ (AtWork(t)' <=> f = "config")
        /\ f \notin th[t].stale
    BY <1>13 DEF Writes, In, HasRead, AtWork, Files, Uncut
  <2>2. \A u \in Threads \ {t} : Marked(u, f)
    BY <1>13 DEF Writes
  <2>3. \A u \in Threads \ {t} : AtWork(u)' <=> AtWork(u)
    BY <1>3, <1>4, <2>2
  <2>4. CASE f = "config"
    <3>1. /\ Stored' = Stored /\ disk'["tokens"] = disk["tokens"]
          /\ newest'.token = newest.token
          /\ \A h \in Hubs : disk'["config"].data.token[h] = 0
      BY <1>13, <2>4, TokenSaves
    <3>2. Behind => Behind'
      BY <3>1, StillBehind
    <3>3. \A u \in Threads : Rescued(u) => Rescued(u)'
      BY <2>1, <2>3, <3>2 DEF Rescued
    <3>4. \A u \in Threads : Current(u)' => Current(u)
      <4>1. Damaged("tokens")' <=> Damaged("tokens")
        BY <3>1 DEF Damaged
      <4> QED BY <1>0, <1>3, <1>4, <2>1, <2>2, <2>4, <4>1 DEF Current
    <3>5. \A u \in Threads : Keyed(u) => Keyed(u)'
      BY <1>3, <1>4, <2>1, <2>2, <3>1 DEF Keyed, HeldToken
    <3>6. CopiesSafe'
      BY <1>2, <3>3, <3>4, <3>5 DEF CopiesSafe
    <3> QED BY <2>1, <2>4, <3>6 DEF FilesSafe
  <2>5. CASE f = "tokens"
    <3>1. disk'["config"] = disk["config"]
      BY <1>13, <2>5, TokenSaves
    <3>2. \A h \in Hubs : disk["config"].data.token[h] = 0
      BY <1>13, <2>5 DEF Writes, In, SavesTokens, Emptied
    <3>3. Keyed(t) \/ Rescued(t)
      BY <1>2, <2>1, <2>5 DEF Current, CopiesSafe
    <3>4. \A h \in Hubs : newest.token[h] \in Nat /\ th[t].cfg.token[h] \in Nat
      BY TokenTypes
    <3>5. CASE Stored' = NoTokens /\ Damaged("tokens")' /\ newest' = newest
      <4>1. Behind => Behind'
        BY <3>1, <3>2, <3>5, StillBehind
      <4>2. \A u \in Threads \ {t} : ~Current(u)'
        BY <1>3, <1>4, <2>2, <2>5, <3>5 DEF Current
      <4>3. Keyed(t) => Keyed(t)'
        BY <2>1, <3>5 DEF Keyed, HeldToken
      <4>4. Rescued(t) => Rescued(t)'
        BY <2>3, <4>1 DEF Rescued
      <4> QED BY <3>3, <3>5, <4>2, <4>3, <4>4 DEF FilesSafe, CopiesSafe
    <3>6. CASE /\ Stored' = th[t].cfg.token /\ ~Damaged("tokens")'
               /\ newest'.token = Later(newest.token, th[t].cfg.token)
      \* What is in the files now is what t has.
      <4>1. \A h \in Hubs : StoredToken(h)' = th[t].cfg.token[h]
        <5>1. \A h \in Hubs : StoredToken(h)' = IF Stored'[h] # 0 THEN Stored'[h]
                                                 ELSE disk'["config"].data.token[h]
          BY DEF StoredToken, Stored, NoTokens
        <5> QED BY <3>1, <3>2, <3>6, <5>1
      <4>2. \A h \in Hubs : /\ newest.token[h] =< newest'.token[h]
                            /\ newest'.token[h] \in {newest.token[h], th[t].cfg.token[h]}
                            /\ newest'.token[h] \in Nat
        BY <3>4, <3>6, TokenTypes, LaterTypes
      <4>3. ~Behind' => Keyed(t)'
        <5>1. ~Behind' => \A h \in Hubs : th[t].cfg.token[h] = newest'.token[h]
          BY <4>1 DEF Behind
        <5> QED BY <2>1, <3>4, <5>1 DEF Keyed, HeldToken
      <4>4. Keyed(t) => ~Behind'
        <5>1. ASSUME Keyed(t), NEW h \in Hubs
              PROVE  newest'.token[h] = th[t].cfg.token[h]
          <6>1. newest.token[h] =< th[t].cfg.token[h]
            BY <2>1, <5>1 DEF Keyed, HeldToken
          <6>2. th[t].cfg.token[h] =< newest'.token[h]
            BY <3>6, TokenTypes, LaterTypes
          <6> QED BY <3>4, <4>2, <6>1, <6>2
        <5> QED BY <4>1, <5>1 DEF Behind
      <4>5. Behind' => \E u \in Threads \ {t} : AtWork(u)'
        BY <2>3, <3>3, <4>4 DEF Rescued
      <4>6. FilesSafe'
        BY <4>5 DEF FilesSafe
      <4>7. ASSUME NEW u \in Threads, Current(u)'
            PROVE  Keyed(u)' \/ Rescued(u)'
        <5>1. CASE u = t
          BY <4>3, <4>5, <5>1 DEF Rescued
        <5>2. CASE u # t
          <6>1. ~HasRead(u, "tokens")'
            BY <1>3, <1>4, <2>2, <2>5, <4>7, <5>2 DEF Current
          <6>2. CASE Behind'
            <7>1. ~AtWork(u)'
              BY <6>1 DEF AtWork, In, HasRead
            <7> QED BY <2>1, <2>5, <4>5, <6>2, <7>1 DEF Rescued
          <6>3. CASE ~Behind'
            <7>1. \A h \in Hubs : Stored'[h] = newest'.token[h]
              BY <3>6, <4>1, <6>3 DEF Behind
            <7>2. \A h \in Hubs : th'[u].cfg.token[h] \in Nat
              BY TokenTypes DEF TypeOK, ThreadRecords, Configs
            <7>3. ASSUME NEW h \in Hubs
                  PROVE  newest'.token[h] =< HeldToken(u, h)'
              <8>1. CASE Stored'[h] # 0
                BY <4>2, <6>1, <7>1, <8>1 DEF HeldToken
              <8>2. CASE Stored'[h] = 0
                BY <7>1, <7>2, <8>2 DEF HeldToken
              <8> QED BY <8>1, <8>2
            <7> QED BY <7>3 DEF Keyed
          <6> QED BY <6>2, <6>3
        <5> QED BY <5>1, <5>2
      <4> QED BY <4>6, <4>7 DEF CopiesSafe
    <3> QED BY <1>13, <2>5, <3>5, <3>6, TokenSaves
  <2>6. CASE f = "cache"
    <3>1. /\ disk'["config"] = disk["config"] /\ disk'["tokens"] = disk["tokens"]
          /\ newest'.token = newest.token
      BY <1>13, <2>6, TokenSaves
    <3>2. Stored' = Stored /\ (Behind' <=> Behind)
          /\ (Damaged("config")' <=> Damaged("config"))
          /\ (Damaged("tokens")' <=> Damaged("tokens"))
      BY <1>5, <3>1
    <3>3. \A u \in Threads : AtWork(u)' <=> AtWork(u)
      BY <2>1, <2>3, <2>6
    <3>4. FilesSafe' /\ \A u \in Threads : Rescued(u)' <=> Rescued(u)
      BY <1>2, <3>2, <3>3 DEF FilesSafe, Rescued
    <3>5. \A u \in Threads : Current(u)' => Current(u)
      BY <1>0, <1>3, <1>4, <2>1, <2>2, <2>6, <3>2 DEF Current
    <3>6. \A u \in Threads : Keyed(u) => Keyed(u)'
      BY <1>3, <1>4, <2>1, <2>2, <3>1, <3>2 DEF Keyed, HeldToken
    <3> QED BY <1>2, <3>4, <3>5, <3>6 DEF CopiesSafe
  <2> QED BY <2>4, <2>5, <2>6 DEF Files
\* The files stay; who ends was not about to bring a missing token.
<1>14. ASSUME Still, \A u \in Threads : Same(u) \/ (th'[u] = Idle /\ ~(AtWork(u) /\ Behind))
       PROVE  FilesSafe' /\ CopiesSafe'
  <2>1. Stored' = Stored /\ (Behind' <=> Behind) /\ newest' = newest
        /\ (Damaged("config")' <=> Damaged("config"))
        /\ (Damaged("tokens")' <=> Damaged("tokens"))
    BY <1>5, <1>14 DEF Still
  <2>2. \A u \in Threads : Behind /\ AtWork(u) => AtWork(u)'
    BY <1>3, <1>4, <1>14
  <2>3. \A u \in Threads : Rescued(u) => Rescued(u)'
    BY <2>1, <2>2 DEF Rescued
  <2>4. ASSUME NEW u \in Threads, Current(u)'
        PROVE  Keyed(u)' \/ Rescued(u)'
    <3>1. th'[u] # Idle
      BY <2>4 DEF Idle, Current, HasRead
    <3>2. Same(u)
      BY <1>14, <3>1
    <3>3. Current(u)
      BY <1>3, <1>4, <2>1, <2>4, <3>2 DEF Current
    <3>4. Keyed(u) => Keyed(u)'
      BY <1>3, <1>4, <2>1, <3>2 DEF Keyed, HeldToken
    <3> QED BY <1>2, <2>3, <3>3, <3>4 DEF CopiesSafe
  <2> QED BY <1>2, <2>1, <2>2, <2>4 DEF FilesSafe, CopiesSafe
<1>15. CASE Ends
  <2>1. Still /\ \A u \in Threads : Same(u) \/ (th'[u] = Idle /\ ~(AtWork(u) /\ Behind))
    BY <1>15 DEF Ends, Uncut, AtWork, Behind
  <2> QED BY <1>14, <2>1
<1>16. CASE Removes
  BY <1>16 DEF Removes, Uncut
<1>17. CASE Rests
  BY <1>14, <1>17 DEF Rests
<1> QED
  BY <1>1, <1>7, <1>8, <1>9, <1>10, <1>11, <1>12, <1>13, <1>15, <1>16, <1>17 DEF Kinds

LEMMA TokensStart == Init => Bounded /\ Emptied /\ TokensSafe
<1> SUFFICES ASSUME Init PROVE Bounded /\ Emptied /\ TokensSafe
  OBVIOUS
<1>1. \A t \in Threads : th[t] = Idle
  BY DEF Init
<1>2. \A u \in Threads, f \in Files : ~HasRead(u, f)
  BY <1>1, Reading DEF Idle
<1>3. \A h \in Hubs : EmptyConfig.token[h] = 0 /\ NoTokens[h] = 0
  BY DEF EmptyConfig, NoTokens
<1>4. \A g \in Hubs : Paired(g).token = [NoTokens EXCEPT ![g] = 1]
                      /\ ConfigOnly(Paired(g)).token = NoTokens
  BY DEF Paired, EmptyConfig, ConfigOnly
<1>5. \A h \in Hubs : /\ StoredToken(h) = newest.token[h]
                      /\ disk["config"].data.token[h] =< newest.token[h]
                      /\ Stored[h] =< newest.token[h]
  <2>1. CASE disk = Fresh /\ newest = EmptyConfig
    BY <1>3, <2>1 DEF Fresh, Absent, StoredToken, Stored, Files
  <2>2. ASSUME NEW g \in Hubs, disk = FirstRelease(g), newest = Paired(g)
        PROVE  \A h \in Hubs : /\ StoredToken(h) = newest.token[h]
                               /\ disk["config"].data.token[h] =< newest.token[h]
                               /\ Stored[h] =< newest.token[h]
    <3>1. disk["config"].data = Paired(g) /\ disk["tokens"].state = "absent"
      BY <2>2 DEF FirstRelease, Fresh, Absent, Intact, Files
    <3>2. \A h \in Hubs : Paired(g).token[h] \in {0, 1}
      BY <1>3, <1>4 DEF NoTokens
    <3> QED BY <1>3, <2>2, <3>1, <3>2 DEF StoredToken, Stored
  <2>3. ASSUME NEW g \in Hubs, disk = Today(g), newest = Paired(g)
        PROVE  \A h \in Hubs : /\ StoredToken(h) = newest.token[h]
                               /\ disk["config"].data.token[h] =< newest.token[h]
                               /\ Stored[h] =< newest.token[h]
    <3>1. /\ disk["config"].data.token = NoTokens
          /\ disk["tokens"].state = "ok" /\ disk["tokens"].data = Paired(g).token
      BY <1>4, <2>3 DEF Today, Intact, Content, Files
    <3>2. \A h \in Hubs : Paired(g).token[h] \in {0, 1}
      BY <1>3, <1>4 DEF NoTokens
    <3> QED BY <1>3, <2>3, <3>1, <3>2 DEF StoredToken, Stored
  <2> QED BY <2>1, <2>2, <2>3 DEF Init
<1>6. Bounded /\ Emptied
  BY <1>1, <1>5 DEF Bounded, Emptied, SavesTokens, Idle
<1>7. TokensSafe
  BY <1>2, <1>5 DEF TokensSafe, FilesSafe, CopiesSafe, Current, Behind, Files
<1> QED BY <1>6, <1>7

\* The last token a hub was paired with is kept, through kills and through
\* the step from one file to three, except where a cut, an old copy or the
\* removal of a damaged file is on record (config.go, Save).
THEOREM TokensAreKept == Spec => []TokensKept
<1>1. TypeOK /\ TokensSafe => TokensKept
  <2> SUFFICES ASSUME TokensSafe, Quiet, ~Damaged("config"), ~Damaged("tokens"), Uncut
               PROVE  \A h \in Hubs : StoredToken(h) = newest.token[h]
    BY DEF TokensKept, Uncut
  <2>1. \A t \in Threads : ~AtWork(t)
    BY DEF Quiet, AtWork, In
  <2> QED BY <2>1 DEF TokensSafe, FilesSafe, Behind
<1> QED BY <1>1, TokensStart, TokensSafeKept, BoundedKept, WholeHolds, StampsHold,
           StructureHolds, PTL DEF Spec
=============================================================================
