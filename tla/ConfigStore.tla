----------------------------- MODULE ConfigStore -----------------------------
(***************************************************************************)
(* The three files of the configuration - config.json, tokens.json and     *)
(* cache.json - and the commands that load and save them                   *)
(* (src/internal/config/config.go, Load and Save; src/internal/cli/cli.go, *)
(* the commands that change them and the background inventory refresh).    *)
(*                                                                         *)
(* Every command loads all of it, changes something and saves all of it,   *)
(* one file after the other, each by a truncation and a write; there is no *)
(* lock and no rename.  `hubhq ask` does the same twice at once: a         *)
(* goroutine refreshes the inventory under a configuration of its own and  *)
(* dies wherever it is when the command ends.                              *)
(***************************************************************************)
EXTENDS Integers, FiniteSets, Sequences, FiniteSetsExt

CONSTANTS
    Procs,        \* processes; each runs commands one after the other
    Fields,       \* the parts of config.json a command sets
    Hubs,         \* hub ids
    Jobs,         \* the commands each process runs
    MaxCommands,  \* bound: commands run
    MaxKills,     \* bound: processes killed
    MaxRebuilds   \* bound: times the binary is replaced

NoHub == "no hub"

ASSUME HubsAssumption == IsFiniteSet(Hubs) /\ NoHub \notin Hubs
JobNames == {"set", "pair", "refresh", "speaker", "device", "ask"}

ASSUME JobsAssumption == Jobs \in [Procs -> SUBSET JobNames]
ASSUME BoundsAssumption ==
    MaxCommands \in Nat /\ MaxKills \in Nat /\ MaxRebuilds \in Nat

Files == {"config", "tokens", "cache"}
Threads == Procs \X {"main", "background"}

VARIABLES
    disk,     \* the files
    newer,    \* is the binary newer than cache.json
    th,       \* the goroutines that use a configuration
    stamp,    \* every value set and every token stored is a new one
    newest,   \* history: the newest values a command ever saved
    mishap,   \* history: what went wrong so far
    ran, kills, rebuilds

vars == <<disk, newer, th, stamp, newest, mishap, ran, kills, rebuilds>>
bounds == <<ran, kills, rebuilds>>

-----------------------------------------------------------------------------
(* Configurations.  Stamp 0 is "not set", token 0 is "".                   *)

NoTokens == [h \in Hubs |-> 0]

\* What Load starts from.  `blank` are the entries of the map without id,
\* name and host; `inventory` is hasCachedInventory of the cache.
EmptyConfig ==
    [set |-> [f \in Fields |-> 0], default |-> NoHub, named |-> {}, blank |-> {},
     token |-> NoTokens, inventory |-> FALSE]

Known(cfg) == cfg.named \cup cfg.blank

\* Mutant: a file of the first releases loses its tokens.
IgnoreEmbedded(data) == [data EXCEPT !.token = NoTokens]

\* json.Unmarshal and loadLegacyEmbeddedData: config.json of the first
\* releases holds the tokens and the cache as well.
FromConfigFile(data) == data

\* loadTokens: an id config.json does not have becomes a hub without name.
WithTokens(cfg, stored) ==
    [cfg EXCEPT
        !.token = [h \in Hubs |-> IF stored[h] # 0 THEN stored[h] ELSE @[h]],
        !.blank = @ \cup {h \in Hubs : stored[h] # 0 /\ h \notin Known(cfg)}]

\* Mutant: one of the fields is not copied.
CopyForgets(cfg) ==
    [cfg EXCEPT !.token = NoTokens, !.inventory = FALSE,
                !.set = [f \in Fields |-> IF f = "dukaone" THEN 0 ELSE @[f]]]

\* configOnly: everything but the tokens and the cache.
ConfigOnly(cfg) == [cfg EXCEPT !.token = NoTokens, !.inventory = FALSE]

Content(cfg, f) ==
    CASE f = "config" -> ConfigOnly(cfg)
      [] f = "tokens" -> cfg.token
      [] f = "cache" -> cfg.inventory

Absent == [state |-> "absent", data |-> EmptyConfig]
Unreadable(state) == [state |-> state, data |-> EmptyConfig]
Intact(data) == [state |-> "ok", data |-> data]

Idle == [phase |-> "idle", file |-> "config", cfg |-> EmptyConfig, job |-> "set",
         stage |-> 0, stale |-> {}, unlinked |-> FALSE]

\* The machine before the first command: nothing, the one file of the first
\* releases with a paired hub, or the three files of today.
Paired(h) == [EmptyConfig EXCEPT !.default = h, !.named = {h},
                                 !.token = [NoTokens EXCEPT ![h] = 1],
                                 !.inventory = TRUE]

Fresh == [f \in Files |-> Absent]
FirstRelease(h) == [Fresh EXCEPT !["config"] = Intact(Paired(h))]
Today(h) == [f \in Files |-> Intact(Content(Paired(h), f))]

Init ==
    /\ \/ disk = Fresh /\ newest = EmptyConfig
       \/ \E h \in Hubs :
             /\ disk = FirstRelease(h) \/ disk = Today(h)
             /\ newest = Paired(h)
    /\ newer = FALSE
    /\ th = [t \in Threads |-> Idle]
    /\ stamp = 1
    /\ mishap = {}
    /\ ran = 0
    /\ kills = 0
    /\ rebuilds = 0

Damaged(f) == disk[f].state \in {"empty", "garbled"}
In(t, phase, f) == th[t].phase = phase /\ th[t].file = f
Quiet == \A t \in Threads : th[t].phase = "idle"

-----------------------------------------------------------------------------
(* The end of a thread.  When a command ends or is killed, its background  *)
(* refresh dies with it, between any two steps of a save.                  *)

\* The token the next Load will find.
StoredToken(h) ==
    IF disk["tokens"].state = "ok" /\ disk["tokens"].data[h] # 0
    THEN disk["tokens"].data[h] ELSE disk["config"].data.token[h]

\* What a thread leaves behind that stops here: a file cut short, or a
\* config.json rewritten without the tokens that only it held.
Cut(t) ==
    { m \in {"torn", "stripped"} :
        \/ m = "torn" /\ th[t].phase = "write"
        \/ m = "stripped" /\ In(t, "open", "tokens") /\
           \E h \in Hubs : StoredToken(h) # newest.token[h] }

Ended(p) == [t \in Threads |-> IF t[1] = p THEN Idle ELSE th[t]]

End(t) ==
    IF t[2] = "main"
    THEN /\ th' = Ended(t[1])
         /\ mishap' = mishap \cup Cut(<<t[1], "background">>)
    ELSE /\ th' = [th EXCEPT ![t] = Idle]
         /\ UNCHANGED mishap

\* A command that fails, or that has nothing left to do.
Stop(t) ==
    /\ End(t)
    /\ UNCHANGED <<disk, newer, stamp, newest, bounds>>

-----------------------------------------------------------------------------
(* Load.                                                                   *)

Step(t, new) ==
    /\ th' = [th EXCEPT ![t] = new]
    /\ UNCHANGED <<disk, newer, stamp, newest, mishap, bounds>>

Begin(p, job) ==
    /\ th[<<p, "main">>].phase = "idle"
    /\ ran < MaxCommands
    /\ ran' = ran + 1
    /\ th' = [th EXCEPT ![<<p, "main">>] = [Idle EXCEPT !.phase = "load", !.job = job]]
    /\ mishap' = mishap \cup (IF Quiet THEN {} ELSE {"company"})
    /\ UNCHANGED <<disk, newer, stamp, newest, kills, rebuilds>>

\* Without config.json the other two files are not looked at.
ReadNoConfig(t) ==
    /\ In(t, "load", "config")
    /\ disk["config"].state = "absent"
    /\ Step(t, [th[t] EXCEPT !.phase = "act", !.cfg = EmptyConfig])

ReadConfig(t) ==
    /\ In(t, "load", "config")
    /\ disk["config"].state = "ok"
    /\ Step(t, [th[t] EXCEPT !.file = "tokens", !.cfg = FromConfigFile(disk["config"].data)])

ReadTokens(t) ==
    /\ In(t, "load", "tokens")
    /\ ~Damaged("tokens")
    /\ LET cfg == th[t].cfg
           stored == IF disk["tokens"].state = "ok" THEN disk["tokens"].data ELSE NoTokens
       IN Step(t, [th[t] EXCEPT !.file = "cache", !.cfg = WithTokens(cfg, stored)])

\* invalidateCachesOnRebuild: the file goes, and a save that has it open
\* writes to a file without a name.
SweepCache(t) ==
    /\ In(t, "load", "cache")
    /\ newer
    /\ disk["cache"].state # "absent"
    /\ disk' = [disk EXCEPT !["cache"] = Absent]
    /\ newer' = FALSE
    /\ th' = [u \in Threads |->
                IF u = t THEN [th[t] EXCEPT !.phase = "act"]
                ELSE [th[u] EXCEPT !.unlinked = @ \/ In(u, "write", "cache")]]
    /\ UNCHANGED <<stamp, newest, mishap, bounds>>

ReadCache(t) ==
    /\ In(t, "load", "cache")
    /\ ~Damaged("cache")
    /\ disk["cache"].state = "ok" => ~newer
    /\ LET found == IF disk["cache"].state = "ok" THEN disk["cache"].data
                    ELSE th[t].cfg.inventory
       IN Step(t, [th[t] EXCEPT !.phase = "act", !.cfg.inventory = found])

\* "parse config", "parse tokens", "parse cache": the command ends.
LoadFails(t) ==
    /\ th[t].phase = "load"
    /\ Damaged(th[t].file)
    /\ th[t].file = "cache" => ~newer
    /\ Stop(t)

-----------------------------------------------------------------------------
(* The commands, between Load and Save.                                    *)

Ready(t, job, stage) ==
    th[t].phase = "act" /\ th[t].job = job /\ th[t].stage = stage

HasHub(t) == th[t].cfg.default \in Known(th[t].cfg)

\* Mutant: the tokens are written first.
TokensFirst == <<"tokens", "config", "cache">>

SaveOrder == <<"config", "tokens", "cache">>

\* Save begins; the next part of the job follows it.
SaveOf(t, cfg) ==
    [th[t] EXCEPT !.cfg = cfg, !.phase = "open", !.file = SaveOrder[1], !.stage = @ + 1]

\* `config set`, `dukaone add`, `remove`, `rename` and `room`.
SetValue(t, f) ==
    /\ Ready(t, "set", 0)
    /\ stamp' = stamp + 1
    /\ th' = [th EXCEPT ![t] = SaveOf(t, [th[t].cfg EXCEPT !.set[f] = stamp'])]
    /\ UNCHANGED <<disk, newer, newest, mishap, bounds>>

\* `devices rename` and `devices delete` of a DukaOne device: saved, then the
\* inventory is refreshed and everything saved again.
EditDevice(t) ==
    /\ Ready(t, "device", 0)
    /\ HasHub(t)
    /\ stamp' = stamp + 1
    /\ th' = [th EXCEPT ![t] = SaveOf(t, [th[t].cfg EXCEPT !.set["dukaone"] = stamp'])]
    /\ UNCHANGED <<disk, newer, newest, mishap, bounds>>

\* Mutant: pairing starts a new map.
OnlyHub(cfg, h, token) ==
    [cfg EXCEPT !.named = {h}, !.blank = {}, !.token = [NoTokens EXCEPT ![h] = token],
                !.default = h]

\* SetHub(h, true)
SetHub(cfg, h, token) ==
    [cfg EXCEPT !.named = @ \cup {h}, !.blank = @ \ {h}, !.token[h] = token, !.default = h]

\* `hub auth` and `hub import-token`, the new token in hand.
Pair(t, h) ==
    /\ Ready(t, "pair", 0)
    /\ stamp' = stamp + 1
    /\ th' = [th EXCEPT ![t] = SaveOf(t, SetHub(th[t].cfg, h, stamp'))]
    /\ UNCHANGED <<disk, newer, newest, mishap, bounds>>

WantsInventory(t) ==
    \/ Ready(t, "refresh", 0)
    \/ Ready(t, "device", 1)
    \/ Ready(t, "ask", 0) /\ ~th[t].cfg.inventory
    \/ Ready(t, "ask", 1)

\* refreshInventoryCache, when hub and speakers answer.
RefreshInventory(t) ==
    /\ WantsInventory(t)
    /\ HasHub(t)
    /\ Step(t, SaveOf(t, [th[t].cfg EXCEPT !.inventory = TRUE]))

\* persistSpeakerCache, after a discovery that found speakers.
PersistSpeakers(t) ==
    /\ Ready(t, "speaker", 0)
    /\ Step(t, SaveOf(t, th[t].cfg))

\* collectHomeContextWithSpeakers: the cached inventory answers at once, and
\* startBackgroundInventoryRefresh loads a configuration of its own.
AskFromCache(t) ==
    /\ Ready(t, "ask", 0)
    /\ HasHub(t)
    /\ th[t].cfg.inventory
    /\ th' = [th EXCEPT ![t].stage = 1,
                        ![<<t[1], "background">>] =
                            [Idle EXCEPT !.phase = "load", !.job = "refresh"]]
    /\ UNCHANGED <<disk, newer, stamp, newest, mishap, bounds>>

\* The rest: no hub, no answer, an invalid argument, a script that changed
\* nothing, or a job that is done.
Done(t) ==
    /\ th[t].phase = "act"
    /\ Stop(t)

-----------------------------------------------------------------------------
(* Save.                                                                   *)

\* Has u read f, so that a change to f now makes its copy old?
HasRead(u, f) ==
    \/ th[u].phase \in {"act", "open", "write"}
    \/ /\ th[u].phase = "load"
       /\ \/ f = "config" /\ th[u].file # "config"
          \/ f = "tokens" /\ th[u].file = "cache"

\* The threads when t, now `new`, changes f.
Touch(t, f, new) ==
    [u \in Threads |->
        IF u = t THEN new
        ELSE IF HasRead(u, f) THEN [th[u] EXCEPT !.stale = @ \cup {f}]
        ELSE th[u]]

Opened(t) == [th[t] EXCEPT !.phase = "write"]

\* Mutant: os.WriteFile without O_TRUNC.
OpenUntruncated(t) ==
    /\ th[t].phase = "open"
    /\ LET f == th[t].file
       IN /\ th' = Touch(t, f, Opened(t))
          /\ disk' = IF disk[f].state = "absent"
                     THEN [disk EXCEPT ![f] = Unreadable("empty")] ELSE disk
    /\ UNCHANGED <<newer, stamp, newest, mishap, bounds>>

Open(t) ==
    /\ th[t].phase = "open"
    /\ LET f == th[t].file
       IN /\ th' = Touch(t, f, Opened(t))
          /\ disk' = [disk EXCEPT ![f] = Unreadable("empty")]
    /\ UNCHANGED <<newer, stamp, newest, mishap, bounds>>

\* After the first file the second, after the last one the job goes on.
Written(t) ==
    LET rest == {i \in 1..2 : SaveOrder[i] = th[t].file}
    IN [th[t] EXCEPT !.unlinked = FALSE,
                     !.phase = IF rest = {} THEN "act" ELSE "open",
                     !.file = IF rest = {} THEN "config" ELSE SaveOrder[Max(rest) + 1]]

\* Over the text another save has left there since, a shorter one leaves
\* the tail of it.
Result(f, data, garbled) ==
    IF garbled /\ disk[f].state # "empty" THEN Unreadable("garbled") ELSE Intact(data)

Later(a, b) == [x \in DOMAIN a |-> Max({a[x], b[x]})]

\* The newest values any command has saved, when t has written f.
Newest(t, f) ==
    CASE f = "config" -> [newest EXCEPT !.set = Later(@, th[t].cfg.set)]
      [] f = "tokens" -> [newest EXCEPT !.token = Later(@, th[t].cfg.token)]
      [] f = "cache" -> newest

Write(t) ==
    /\ th[t].phase = "write"
    /\ ~th[t].unlinked
    /\ LET f == th[t].file
       IN \E garbled \in BOOLEAN :
          LET file == Result(f, Content(th[t].cfg, f), garbled)
          IN
            /\ disk' = [disk EXCEPT ![f] = file]
            /\ newest' = IF file.state = "ok" THEN Newest(t, f) ELSE newest
            /\ newer' = (newer /\ f # "cache")
            /\ th' = Touch(t, f, Written(t))
            /\ mishap' = mishap \cup (IF f \in th[t].stale THEN {"stale"} ELSE {})
    /\ UNCHANGED <<stamp, bounds>>

WriteUnlinked(t) ==
    /\ th[t].phase = "write"
    /\ th[t].unlinked
    /\ Step(t, Written(t))

-----------------------------------------------------------------------------
(* The world.                                                              *)

Kill(p) ==
    /\ kills < MaxKills
    /\ th[<<p, "main">>].phase # "idle"
    /\ kills' = kills + 1
    /\ th' = Ended(p)
    /\ mishap' = mishap \cup Cut(<<p, "main">>) \cup Cut(<<p, "background">>)
    /\ UNCHANGED <<disk, newer, stamp, newest, ran, rebuilds>>

\* The user deletes a file no command can read.
RemoveDamaged(f) ==
    /\ Quiet
    /\ Damaged(f)
    /\ disk' = [disk EXCEPT ![f] = Absent]
    /\ mishap' = mishap \cup {"removed"}
    /\ UNCHANGED <<newer, th, stamp, newest, bounds>>

Rebuild ==
    /\ rebuilds < MaxRebuilds
    /\ rebuilds' = rebuilds + 1
    /\ newer' = TRUE
    /\ UNCHANGED <<disk, th, stamp, newest, mishap, ran, kills>>

Load(t) ==
    \/ ReadNoConfig(t)
    \/ ReadConfig(t)
    \/ ReadTokens(t)
    \/ SweepCache(t)
    \/ ReadCache(t)
    \/ LoadFails(t)

Act(t) ==
    \/ \E f \in Fields : SetValue(t, f)
    \/ EditDevice(t)
    \/ \E h \in Hubs : Pair(t, h)
    \/ RefreshInventory(t)
    \/ PersistSpeakers(t)
    \/ AskFromCache(t)
    \/ Done(t)

Save(t) ==
    \/ Open(t)
    \/ Write(t)
    \/ WriteUnlinked(t)

Next ==
    \/ \E p \in Procs : \E job \in Jobs[p] : Begin(p, job)
    \/ \E t \in Threads : Load(t) \/ Act(t) \/ Save(t)
    \/ \E p \in Procs : Kill(p)
    \/ \E f \in Files : RemoveDamaged(f)
    \/ Rebuild

Spec == Init /\ [][Next]_vars

-----------------------------------------------------------------------------
(* Properties.                                                             *)

Configs ==
    [set : [Fields -> Nat], default : Hubs \cup {NoHub}, named : SUBSET Hubs,
     blank : SUBSET Hubs, token : [Hubs -> Nat], inventory : BOOLEAN]

ThreadRecords ==
    [phase : {"idle", "load", "act", "open", "write"}, file : Files, cfg : Configs,
     job : JobNames, stage : 0 .. 2, stale : SUBSET Files, unlinked : BOOLEAN]

\* A thread is at a step of Load, of its command or of Save, with a whole
\* configuration in its hands; what a file holds is of the file's kind, and a
\* damaged one holds nothing.
TypeOK ==
    /\ stamp \in Nat
    /\ newest \in Configs
    /\ mishap \subseteq {"torn", "stripped", "stale", "removed", "company"}
    /\ th \in [Threads -> ThreadRecords]
    /\ disk = [f \in Files |-> [state |-> disk[f].state, data |-> disk[f].data]]
    /\ \A f \in Files : /\ disk[f].state \in {"absent", "ok", "empty", "garbled"}
                         /\ disk[f].state # "ok" => disk[f].data = EmptyConfig
    /\ disk["config"].data \in Configs
    /\ disk["tokens"].state = "ok" => disk["tokens"].data \in [Hubs -> Nat]
    /\ disk["cache"].state = "ok" => disk["cache"].data \in BOOLEAN

AtRest(f) == \A t \in Threads : ~In(t, "write", f) \/ th[t].unlinked

\* A file no command can parse (config.go:150, 407, 453) is the work of a save
\* that was cut off, by a kill or by the end of an ask, or of two saves at
\* once - which one ask manages by itself.  No other command that runs alone
\* to its end leaves one.
DamageNeedsMishap ==
    \A f \in Files :
        Damaged(f) /\ AtRest(f) => mishap \cap {"torn", "stale"} # {}

\* The last token every hub was paired with is kept, through kills, and when
\* config.json of the first releases is taken apart - where one cut between
\* the two files loses it without a trace.
TokensKept ==
    Quiet /\ ~Damaged("config") /\ ~Damaged("tokens")
    => \/ \A h \in Hubs : StoredToken(h) = newest.token[h]
       \/ mishap \cap {"stripped", "stale", "removed"} # {}

SettingsLast == disk["config"].data.set = newest.set

\* What a command has saved in config.json stays until another one sets it,
\* unless a command saved a configuration it had loaded before (all of it is
\* written, config.go:182, whatever the command was about).
SettingsKept ==
    Quiet /\ ~Damaged("config") => SettingsLast \/ mishap \cap {"stale", "removed"} # {}

\* Commands run one after the other never undo each other's settings, killed
\* or not, although an ask is two savers at once.
AloneKeepsSettings ==
    Quiet /\ ~Damaged("config")
    => SettingsLast \/ mishap \cap {"company", "removed"} # {}

\* Every hub with a token has its name and address: config.json is written
\* before tokens.json, so that a cut never leaves a token of an unknown hub,
\* which loadTokens would turn into a hub without an address.
HubsComplete ==
    mishap \cap {"stale", "removed"} = {} =>
        /\ \A t \in Threads : th[t].stale = {} => th[t].cfg.blank = {}
        /\ disk["config"].state = "ok" /\ disk["tokens"].state = "ok" =>
              {h \in Hubs : disk["tokens"].data[h] # 0} \subseteq disk["config"].data.named
=============================================================================
