# A TLA+ verification of hubhq

`hubhq` (Go, `src/`) is a command-line controller for an IKEA DIRIGERA hub: it
pairs with a hub, lists and sets devices and scenes, plays sounds on speakers,
lets a language model turn a sentence into a script (`ask`) or an automation
(`auto`), and runs the automations in a long-lived process (`auto run`).

The specifications here model the parts whose correctness depends on the order
of events: the runner with its reloads, its schedulers, its election, its time
triggers, the execution of scripts, the files several processes share, the
scenes several commands make on one hub, the playing of sounds, and the
ventilation units behind one UDP port. `PROJECT.json` lists the
components, the runs, the mutants, the map from definitions to source lines,
the findings, the hazards and the theorems.

    cd tla
    tlc -workers 2 -config AutoRunner.cfg AutoRunnerMC.tla
    tlapm AutoRunnerProofs.tla

## 1. The system

Paths are relative to `src/internal`; most of the program is `cli/cli.go`.

| component | state | operations | what is hard | what makes it correct |
|---|---|---|---|---|
| auto runner, events and reload (`autoRun`, `runWithRuntimeFileReload`, `monitorRuntimeFiles`, `client.Watch`) | `inFlight`, `lastEventRun`, the context, `changedCh` and monitor of each generation | one callback per hub event, one goroutine per script run, reload on a file change, exec on a new binary | goroutines outlive the generation whose mutex they use; a read in progress when the context is cancelled; files truncated while read | one run per automation at a time; a debounce window; a noticed change is acted on |
| scheduler (`autoRunScheduler`, `runScheduledSpecs`) | `lastRuns`, a ticker per generation | a pass every 15 s, scripts one after another | slow scripts, retries within the minute, schedulers that overlap across a reload | no due minute is overslept; one success per run key |
| time and sun triggers (`autoTimeMatches`, `sunEventTime`) | none | due or not, and under which run key | zones, clock changes, dates that differ between UTC and local time | due once on every date that has the event |
| event matching (`autoEventMatches`) | none | a walk over the event's JSON | arbitrary shapes | pure |
| cluster registry (`cli/cluster.go`) | `peers`, the own advertisement | register, query every 2 s, elect | lost multicast, stale peers, crashes, ids that collide, the own advertisement | one leader, and never none, where an instance does not lose to itself |
| runtime status server (`startRuntimeStatusServer`) | a ring of 100 log lines | `/status`, `/restart` | exec 100 ms after the answer | reads a consistent snapshot |
| autos store and commands (`autos/store.go`, `autoAdd`, `autoApply`, `autoDelete`) | `autos.json` | load, change, save whole | concurrent saves, two-step apply (hub, then file) | no spec lost, what is stored as applied has its scene |
| config store (`config/config.go`) | `config.json`, `tokens.json`, `cache.json` | load three, save three in order | crash between writes, lost updates, background refresh | a token belongs to a hub; files parse |
| inventory cache (`refreshInventoryCache`, `startBackgroundInventoryRefresh`) | `cfg.Cache` | refresh now or in the background | saves the whole configuration it loaded | no setting is undone |
| ask and script cache (`ask`, `llm/cache.go`, `GenerateAskScript`) | `llm-cache.json`, one copy per process | lookup, model call, put, block or execute, fallback | a copy kept over a model call, in-place writes, partial execution | bounded, fresh entries; what is blocked stays blocked |
| LLM provider (`llm/openai_compatible.go`) | none | one HTTP call, at most one repair | arbitrary answers | an input to the models |
| script engine (`script/javascript.go`) | pipes of a node process | a line protocol, requests and answers | full pipes, a script killed half-way | no deadlock before the deadline |
| runtime services, script state (`runtimeDeviceService`, ..., `runtimeStateStore`) | `script-state.json`, a mutex per execution | get, set, delete, snapshot | several executions over one file | no key lost; a guard suppresses |
| hub client and pairing (`client/client.go`) | none | HTTP, websocket, pairing with retries | the button must be pressed in time | the token is asked for until granted or the deadline |
| names and device commands (`resolveByNameOrID`, `resolveSpeakerTargets`) | none | resolve, set, rename, delete | ambiguity | an ambiguous name is refused |
| speakers (`speakerSound`, `speakerPlay`, `cast`, `airplay`) | cached targets | play, retry on fresh targets | repeated sounds, a temporary scene that leaks, names resolved in an old list | a sound is repeated only after a failure; success means heard; no scene is left behind |
| DukaOne (`dukaone`, `dukaone/native`) | UDP port 4000 | discover, read, set | lost and late packets, the port in use | a reading is current, the last setting stays, the port is given back |
| discovery (`discovery/discovery.go`) | none | mDNS, then a scan by a worker pool | early results, cancelled workers | all workers end |

How they interact: every command is a process that loads the configuration and
may save it; `auto run` is the one process that stays. It reads `autos.json`
again at each event and each scheduler pass, watches the configuration,
token, cache, script-cache and autos files and its own executable, and reloads when one is
written, so every other command acts on the runner through the file system.
The dispatcher asks the cluster registry before it triggers; the scheduler does
not. Scripts call back into the hub client, the speakers and the state store.
`auto apply` and a sound on a hub speaker both make scenes on the one hub, and
every command that reads or sets a ventilation unit needs the one UDP port.

## 2. The modules

| module | models | kind |
|---|---|---|
| `AutoRunner` | dispatcher, script runs, monitor, reload loop | one action per step that other threads can see |
| `DebouncedTrigger` | the promise: exclusive runs, starts at least `Debounce` apart | abstract specification of `AutoRunner` |
| `TimeTriggers` | `autoTimeMatches`, `sunEventTime` | pure operators |
| `TriggerClock` | a site's minutes going by, and what is due in them | drives `TimeTriggers` |
| `AutoScheduler` | schedulers of all generations; extends `TimeTriggers` | state machine |
| `ClusterLeader` | registries on several hosts | state machine with rounds |
| `AskCache` | `ask` processes over one cache file | state machine |
| `ConfigStore` | commands and the background refresh over the three files | state machine |
| `ScriptRuns` | script host and node process, their pipes, `script-state.json` | state machine |
| `DukaNative` | commands, units and packets around UDP port 4000 | state machine |
| `HubScenes` | the hub's scenes and the outcomes of requests about them | shared by the next two |
| `AutosFile` | `auto add`, `apply`, `delete`, `list` over `autos.json` | extends `HubScenes` |
| `SpeakerSound` | `speaker play` and the speaker service of scripts | extends `HubScenes` |
| `HubCommands` | both side by side on one hub | composition |
| `AutoRunnerProofs`, `ClusterLeaderProofs`, `AskCacheProofs`, `ConfigStoreProofs`, `ScriptRunsProofs`, `DukaNativeProofs` | the theorems about the module each is named after | proofs |
| `HubCommandsProofs` | the theorems about `HubCommands` and the two modules it extends | proofs |
| `AutoSchedulerProofs` | the theorems about `AutoScheduler` and `TriggerClock` | proofs |
| `AutoRunnerMC`, `AutoSchedulerMC`, `TriggerClockMC`, `AskCacheMC`, `ConfigStoreMC`, `ScriptRunsMC`, `DukaNativeMC`, `HubCommandsMC` | values of the constants | |

Every module with a state but `TriggerClock` also states its type invariant,
`TypeOK`. It is proved for all of them, and the run of `AutoRunner` checks it;
for the others add `INVARIANT TypeOK` to the `.cfg`.

### AutoRunner

A *generation* is one call of the closure in `autoRun`. `inFlight` and
`lastEventRun` are the two maps declared outside it; `triggerMu` is declared
inside, so the lock of a generation is derived from who is between its `Lock`
and `Unlock` (`MuFree(k)` for the mutex of generation `k`). A script run is a
slot of `runs` that remembers the generation it was started in, because its
deferred delete locks that generation's mutex. The monitor arms itself, reads
one batch, notifies, and is gone; what is written while it is not armed is not
noticed (`Notify`). `torn` is the moment between the truncation and the write
of `os.WriteFile`, in which the callback's load fails and ends `Watch`.
`WatchReturns` is any end of the websocket. When the closure has returned, the
loop goes on (`NextGeneration`), execs (`ExecSelf`) or returns
(`LoopReturns`) according to `changedCh`. `RuntimeThrows` is Go's check for
concurrent map access, enabled exactly when two threads are inside sections of
*different* mutexes. Leadership and event matching are the free choice between
`SkipSpec` and `LockTrigger`.

Abstracted: texts, logs, the output lock, the failure to set up inotify (a
generation without a monitor), undecodable events (skipped by the code), and the
configuration record that a reload overwrites.

### TimeTriggers, TriggerClock, AutoScheduler

An instant is a number of UTC minutes and a wall-clock reading the number of
minutes the local calendar shows; a site has one change of its zone offset. The
astronomy is abstracted to the minute of the UTC day it yields (`site.sun`), and
what is modelled is how the code puts that minute on a date and compares it.
`TriggerClock` lets four days pass and collects the dates and run keys.

`AutoScheduler` counts the ticks of the 15-second ticker. A pass reads the
clock once (`LoadAutos`), then walks the specs, newest first; a script takes up
to `Timeout` ticks; the ticker's channel holds one tick. `Reload` starts the
next generation at any time, and the old scheduler goes on until its `select`.
Other steps take no time: the clock moves when everybody waits (`AtRest`).
`lastRuns` has at most one key for each automation, as a set, so that the empty
set is the map without that entry. The history variables `attempts` and `ok`
record what was started and what succeeded.

An old scheduler whose script ends late overwrites the run key of a newer pass.
Within a generation that never matters as long as the two passes are less than
a day apart, for then a due minute has the same key in both; a script that took
longer than a day would make `OncePerGeneration` false (TLC shows it with a day
of four minutes). Section 5 has the exact premise.

### ClusterLeader

An advertisement carries no id, so each registry files every advertisement
under the shared `hub_key`: `peers` has one entry that matters, the last one
written, and that is the variable `entry`. A tick is one round of `refreshLoop`.
`Query` may miss any answers for up to `MaxLost` rounds in a row. `known` is a
history of the processes a registry ever heard of.

A registry keeps its peers in memory only: a crash forgets them, a start is a
new, younger advertisement. `hosts` is a history of the hosts that ever ran an
instance, so that one run with three hosts also says what holds with two.

A registry also hears its own advertisement. Where `ss` lists its port
(`SsWorks`) the local view replaces it; where `ss` is missing, as on macOS, or the
port is not one of 8080 to 8090, it is one more peer with the same `StartedAt`,
and the order of the ids decides (`PeerFirst`). An instance's id begins with the
name of its host: if the hub key sorts before it (`HubKeyFirst`) the instance never
leads (`LosesToItself`), and if it is the oldest, or alone, nobody does and its
hub events run nothing. If the hub key sorts after it, the advertisement wins
nothing but may hide an older host, beside which the instance then leads
(`HidesPeers`). `OldestLeadsAtLast` excepts the instance that loses to itself, the two
other properties the one whose peers are hidden. No text of the repository
promises a leader, so this is stated here and not as a finding.

With three hosts every registry remembers only the host that sorts last; the
oldest still leads in the end (`OldestLeadsAtLast`), yet an instance on the host
that sorts last sees either nobody older or only itself and may lead beside it
for good. No text of the repository promises a single leader, so this is stated
here and not as a finding.

### AskCache

Each `ask` is a process with its own copy of the cache file, loaded at its
first lookup. `PutBegins` prunes, replaces, trims and truncates the file;
`PutEnds` writes it. When another process has written since the truncation the
bytes land on top of the other's, and the result may be unparsable
(`"corrupt"`); a process killed between the two steps leaves an empty file,
which is unparsable as well. Either fails every later ask (`LookupFails`) until
a new build removes the caches (`Rebuild`). A plan carries the flags of the
model's answer; an entry carries the script only, with a history bit `flagged`
that says what the model had said of it.

Abstracted: the home context and the model are fixed (they are part of the
key), a cache that is switched off, the text of answers.

### ConfigStore

A thread is a goroutine with a configuration in its hands: the main one of a
process, and the background refresh that an `ask` with a cached inventory
starts (`AskFromCache`). A thread loads (`ReadConfig`, `ReadTokens`,
`SweepCache` or `ReadCache`), does one part of its job in memory (`SetValue`,
`Pair`, `RefreshInventory`, ...), and saves: `Open` truncates a file and
`Write` fills it, for `config.json`, `tokens.json` and `cache.json` in that
order (`SaveOrder`). `devices rename` and `ask` save twice from one
configuration (`stage`). When the main thread is done the process ends and its
background thread with it (`End`).

A value is a stamp: every `config set` writes a larger one, every pairing
stores a larger token; 0 is "not there". A file is absent, intact, empty
(truncated) or garbled (two saves on top of each other); the last two cannot be
parsed. `newest` remembers the largest stamps that ever reached the disk, and
`mishap` what happened that may excuse a loss: a file cut short (`torn`), a
`config.json` of the first release rewritten without its embedded tokens before
`tokens.json` had them (`stripped`), a save of something another thread had
replaced since it was read (`stale`), a damaged file deleted by the user
(`removed`), or merely that two commands were run at once (`company`). `stale` of a thread names the files that changed under it.

What the model shows beyond its properties: a single `ask`, with no other
command and no kill, can leave a `config.json` that cannot be parsed, because
its own refresh and the background refresh truncate and write it at the same
time, or because it ends while the background refresh has it open. The window
is short and no text excludes it, so it is stated here and not as a finding.

Abstracted: failing writes (they leave what a kill at that point leaves), the
runner's reload, the contents of the inventory (one bit: is there one), and the
entries of `dukaone.devices` (one stamped field).

### ScriptRuns

An execution is a host goroutine (`host`) and a node process (`node`) joined by
two bounded pipes, `out` and `inp`. A script is the sequence of its calls: an
operation is emitted and answered "ok" inside the script at once (`sent`), and
performed by the host later (`done`); a request is answered through the pipe,
which the script reads only while it awaits. The host scans one line after the
other and writes an answer before it scans on, so that both can be blocked by
full pipes. `RunScript` executes another script inside the request, under the
caller's context. A context with a deadline (`Timed`: automations, not asks)
kills the node process (`NodeDies`). `script-state.json` is loaded, truncated
(`OpenState`) and written (`SaveState`) by every state operation; the mutex of
the store belongs to one execution and excludes nobody else. The script itself
works on the copy that was put into its text when it started (`copy`), and so
do the guards `api.guard.debounce` and `throttle` (`Guard`).

`newest` is what the state operations performed so far amount to; `mishap` says
what may excuse a lost key, a save of a map another execution had replaced
(`stale`) or a truncated file read as an empty state (`misread`), and what may
excuse a guard: the pass of an earlier start saved over that of a later one
(`late`), which takes the time of the last pass back. `blind` are
the executions whose guard was not saved when this one took its copy.

Two things the model shows beyond its properties: two runs started together
both pass the same guard, and `api.access.writeText`, `writeJson` and `delete`
are sent as requests while the host knows them as operations, so they always
fail (`WriteRequest`). An `ask` has no deadline, so a script of an `ask` that
floods the pipe while it awaits nothing can hang for good.

Abstracted: JavaScript, the arguments and results of calls, the size of lines
except for one longer than the scanner takes (`huge`).

### DukaNative

A process runs one command at a time (`list`, inventory `refresh`, `dukaone
set`, `devices set` of a unit, `discover`, `dukaone add`). `List` reads the
configured units one after another (`ReadState`: `OpenRead`, `AskStatus`,
`Receive`, `EndRead`), `SetAttributes` opens the port, writes one packet per
attribute (`Write`) and then reads the unit (`Reread`), `Discover` collects answers until
its deadline (`Collect`, `Collected`). `port` is the one socket on UDP port
4000; a listen finds it free or fails. Requests and answers are sets of packets
that are served, lost or dropped in any order; a unit's address may differ from
the configured one. An answer carries the unit and the values, not the request.
The status is asked again only when a packet has woken the reader, because one
deadline covers all its reads.

A send may fail at any packet and ends the exchange (`Fail`): a reader gives up
what it has heard and `List` leaves the unit out (`ReadUnsent`, `LeaveOut`), a
search returns an error (`SearchUnsent`), and a setting sends none of the packets
that are left (`WriteUnsent`). A process can be killed anywhere (`Kill`), between
two packets of a setting in particular. Either way the unit keeps some of the old
values: nothing sends the rest again, and only the error tells. Lost packets,
failing sends and kills share the bound `MaxLost`.

`want` is the last value asked of a register, `spoilt` the registers whose last
packet was lost, misdirected, sent while an older one was under way or not sent
at all, `excused`
the units a reader may miss, `held` the values a unit had while it was read.

A refresh that began before a `dukaone add` and ends after another refresh
writes the older list over the newer one, and the added unit is gone from the
inventory until the next refresh. It takes three commands at once; nothing says
that it may not happen, so it is one of the excuses of `CacheDropsForCause`.

`Reread` has one outcome: the socket of `SetAttributes` is still open, so its
own read cannot listen, and a setting that was sent is reported as a failure
(finding 3). For the same reason `discover` lists addresses without values.

The run uses `refresh`, `set`, `devices set` and `add`; `discover` searches as `add`
does and then reads as `refresh` does, and its jobs only multiply the states.

Abstracted: packet encoding, attributes beyond two registers, the room and name
of a unit, the backend that starts a Python program.

### HubScenes, AutosFile, SpeakerSound, HubCommands

A request to the hub is carried out and answered, refused, or carried out with
its answer lost (`Outcomes`). The creation of a scene may also be answered without
an id (`"blank"` of `PostOutcomes`), because `decodeResponse` takes an empty body
for an answer; `unnamed` holds the scenes whose maker was never told their id.
`mishaps` collects what excuses a stray scene or a torn file: `lost` answers,
`undeleted` scenes, `killed` processes, a sound `left` by `auto test`, `overlapped`
saves, and specifications `unsaved` because `autos.Save` failed.

In `AutosFile` a process loads `autos.json` (`LoadAutos`), changes its copy,
for `auto apply` of device actions first creates a scene (`ApplyScene`), and
truncates and writes the file (`TruncateAutos`, `WriteAutos`). After an answer
without an id it stores the specification as applied and notes no scene
(`ApplyScene`); the save may fail before or after it truncates (`SaveFails`), the
scene being on the hub by then. The content of a
specification is one of four forms; the form "scene" is there only because an
earlier release stored it: today's `automationScriptToSpec` leaves the action
list empty, so a specification that `auto add` stores now has a script or ends
as `apply_blocked`. `owed` is what the commands have reported to their users.

In `SpeakerSound` a command resolves its words in the cached list, in a search,
or in both (`LookInCache`, `Search`, `Snapshot`, `Fresh`), plays its targets in
the order of the words, and of the names where one word means all (`PlayNext`;
`queue` holds each target with the place of its word), and the hub's speakers
last through a temporary scene (`PostTemp`, `Trigger`, `DeleteTemp`; the
deletion is deferred). `Failed` starts over with a search when the cache had been used. A search may miss
network speakers, and all or none of the hub's. A script of an automation does
not wait for its sound: `auto run` lives on, `auto test` ends and takes the
sound with it (`LeaveSound`). `heard` counts how often each speaker sounded.
Cast and AirPlay speakers are played on in one step that can fail before or after
it was heard. A cast speaker has one outcome more: when `Load` is pending after
2 s + 4 s, `PlayFile` returns no error and drops the one that may follow, so the
speaker may or may not be heard (`CastPending`) and the command goes on as if it
had been; `unsure` remembers the speaker, which `SuccessSounded` excepts. A
temporary scene that is created without an id is an error before its deletion is
deferred, and stays on the hub (`PostTemp`).

`HubCommands` extends both, whose variables meet in `HubScenes`.

Abstracted: `--host` and `--use-hub`, several sounds in one process, the
volume, the lists' sources, random ids (no specification is added twice).

## 3. What the runs check

| run | bounds | shows |
|---|---|---|
| `AutoRunner` | 2 automations, one goroutine slot more, window 2, clock 0-2, 1 file change | one run per automation; `inFlight` = automations with a run that owes the delete; a map race needs a run older than the present generation; the runner implements `DebouncedTrigger`; a running automation becomes triggerable again; a noticed change leaves the generation |
| `AutoScheduler` | 2 automations due at 00:01, minutes of 4 ticks, scripts up to 1 tick, 2 generations, 14 ticks, 1 failing read | nothing due is overslept; no key succeeds twice within a generation; an old scheduler ends |
| `TriggerClock_days` | 5 sites, 4 days, every minute | due once on every whole date, except a "time" minute that spring skips; one run key per date, also in the hour autumn repeats |
| `TriggerClock_west` (violation) | Boston in midsummer | sunset at 20:25 local time is 00:25 UTC; the code puts it on the previous evening and the automation is never due |
| `ClusterLeader` | 4 hosts, 2 where `ss` lists the port, 1 that loses to its own advertisement and 1 it hides others from; stale after 2 rounds, 1 lost round in a row, 3 starts | while only two hosts have run, both lead only as long as one has never heard of the other or has it hidden, and in the end only such a one leads beside the oldest; with three the oldest leads in the end, unless it loses to itself |
| `AskCache` | 2 processes, 1 question, 4 kinds of plan, 1 entry that lives 1, clock 0-2, 1 crash | a flagged plan runs only from the cache; a conditional script is never repeated; total failure is reported; only a crash inside a write or overlapping writes damage the file |
| `AskCache_readme` (violation) | 1 process, 1 question | a destructive plan is executed the second time it is asked for |
| `ConfigStore` | 2 processes (one runs every kind of command, one sets and pairs; 2 threads each), 2 commands, 2 hubs, 1 field, 1 kill, 1 new binary, from nothing, from the first release's file and from today's files | damage needs a cut or two saves at once; tokens survive except where a migration is cut; only a stale save undoes a setting, and commands run one by one have none, although an ask is two savers; no token without its hub |
| `ScriptRuns` | 2 executions (one with a deadline) of 10 scripts, pipes of 1 line each, guard window 1, clock 1-2, 1 kill | success means that every operation was performed; host and script block each other only over a full pipe; a key is lost only to a stale save or a truncated file; a guard lets two through only when neither saw the other, or after one of the three mishaps; a deadline ends everything, calls included |
| `DukaNative` | 2 processes, 2 units at 3 addresses, 2 registers, waits of 1 tick, 2 commands, 1 packet lost or not sent or 1 kill | a reading shows values of its own time unless a packet was left over; the last setting stays unless its packet was spoilt; a unit leaves the cached inventory only for a cause; the port is always given back |
| `DukaNative_readme` (violation) | 1 setting, nothing else running, nothing lost | the setting fails because the command itself holds the port |
| `HubCommands` | 2 commands of 10 automation jobs in 2 processes and 7 sounds in 2 others, 2 mishaps, 3 speakers (a hub's, a cast and a local one) in 3 houses, any cached list | the file holds what was reported, and is unreadable only after a kill, a failing save or an overlap; what is applied has its scene; a speaker sounds twice only after a cached failure; what is ambiguous plays only when the list was wrong; success was heard, but for a cast speaker still loading; a stray scene has a cause |

Why these bounds are enough. Two automations are what it takes for one to
wait for the other's lock or script; one slot more than automations gives a
second run of the same automation room to appear. One file change makes a
second generation that overlaps the first. A window of 2 with a clock of 2 has starts inside,
at the edge of and outside the window. In the scheduler, 14 ticks hold the due
minute, the ones around it and a second one; two generations let an old
scheduler overlap the present one. `MaxLost < StaleAfter` is the premise
under which losses must not matter; three starts are any three of the four
hosts, or two of them of which one crashes and comes back. The names are such
that the hub key sorts between the second and the third, so that the host that
sorts last is once an ordinary one and once the one that loses to itself. In `ConfigStore` two commands
are the smallest race, and one that damages with one that meets the damage; an
ask brings a third thread. A pipe of one line is full after one call, so that
every blocking pair is within reach; two scripts are what a race over the state
file takes. Two units let an answer of one reach a reader of the other, and two
commands let a late answer of the first reach the second. In `HubCommands` two
commands are a race over the file or over the hub, two mishaps a failed request
with a failed repeat; the jobs differ in what they do to scenes and the file,
and the three houses in which kinds of speaker are there to be found. Symmetry
is used over hubs and asks, which nothing orders; automations and hosts are ordered. Bounds on clocks are explicit stutters (`TimeIsUp`), and the
end of the runner is one (`Exited`), so deadlock checking is on in the runs of
`AutoRunner`, `AutoScheduler`, `TriggerClock`, `ClusterLeader` and `AskCache`. It
is off in the others, where all is over when the number of commands or scripts
is used up; in `ScriptRuns` two full pipes are a real deadlock besides, which
`DeadlockNeedsFullPipe` is about.

Each property of a passing run has a mutant in `PROJECT.json`: the model with a
plausible bug (a dropped lock test, maps declared inside the closure, a stale
test without its time limit, ...) that TLC refutes it on.

## 4. Fairness

- `AutoRunner!Fairness`: the Go scheduler runs runnable goroutines (weak
  fairness of the monitor, the callback, the loop and the steps of a run);
  `sync.Mutex` hands itself to a starving waiter after a millisecond (strong
  fairness of `LockFinish`); a script has a deadline, 30 s by default (weak
  fairness of `ScriptEnds`); a cancelled generation has its connection closed by
  a goroutine of `Watch`, so that its read fails after the frames already
  buffered (strong fairness of `WatchReturns /\ cancelled`). Events, file
  changes and failures are never forced.
- `AutoScheduler!FairSpec`: time passes and goroutines run; no reload is forced.
- `ClusterLeader!FairSpec`: rounds pass and registries refresh; nothing has to
  start or stop, and losses in a row are bounded by `MaxLost`.
- `ScriptRuns!FairSpec`: the host goroutine and the node process go on when they
  can, calls to the hub return, and a deadline comes (`context.WithTimeout`).
- `DukaNative!FairSpec`: processes run and their time passes (the read deadline
  of the socket); the network owes nothing, any packet may stay under way.
- `HubCommands`, `ConfigStore`, `AskCache` and `TriggerClock` are checked for
  safety only.

## 5. What is proved

Each theorem holds for every value of the module's constants that satisfies its
`ASSUME`s: any number of automations, processes, hosts, scripts or hubs, and any
bound on clocks, kills and losses. The assumptions say what the code says: sets
of numbers are sets of numbers, windows, capacities and limits are positive,
every program is a sequence of calls. Where a theorem has a hypothesis
of its own (`OneOfTwoLeads`, `SucceedsOnce`, `SunIsDue`) it is one without which the
property is false, and the text below says on what instance.

Every module is proved along the same lines: the types first, then one lemma per
action or family of actions that the inductive invariant survives it, then the
property from the invariant. None of the properties is inductive alone, and what
had to be added to each is the reason why the code is right.

**`AutoRunnerProofs`**

- `TypeCorrect`: `Spec => []TypeOK`.
- `Inductive`: `Spec => []IInv`, where `IInv` is `AtMostOneRun`,
  `InFlightOwned`, `RunsOfThePast` (no run comes from a generation that has not
  begun), `MutexExcludes` (one holder per mutex, the dispatcher included) and
  `StampIsStart` (the debounce stamps are the times of the last starts).
  `AtMostOneRun` needs `InFlightOwned` so
  that the test of `inFlight` tells that no run is alive; `InFlightOwned` needs
  `AtMostOneRun` so that a run's delete removes no other run's entry; the map
  race needs both other parts; the refinement needs the stamps.
- `MutualExclusion`, `NoOrphanEntry`, `MapRaces`: the other invariants of the run `AutoRunner`.
- `Refinement`: `Spec => ImplementsTrigger`, under the mapping that forgets
  everything but the clock, the automations with a live run and the start times.

**`ClusterLeaderProofs`**

- `TypeCorrect`.
- `OneOfTwoLeads`: `Spec => []DoubleLeadIsTransient`, provided that fewer rounds in
  a row are lost than make an entry stale; TLC finds two lasting leaders on two
  hosts where two rounds may be lost and one makes an entry stale. The exception
  `HidesPeers` inside the property is needed as well: without it TLC finds two
  leaders that have heard of each other where `ss` fails on one host and the hub
  key sorts after its name.
  The invariant: no two processes have one start time and nobody is heard of
  before it starts (`Ranks`); and as long as two hosts at most have served the
  hub, a registry that has heard of the other host's process holds its
  advertisement or its own, not older than the rounds in which it heard nothing
  (`Informed`). With that the two compare the same two start times.

**`AskCacheProofs`**

- `TypeCorrect`; `AsksAreSound`: each ask is at a step its plan, its script and
  its counters allow. From it follow `FlagsOutsideTheCache`
  (`FlaggedRunsOnlyFromCache`), `ConditionalOnce` (`ConditionalNeverRepeats`) and
  `FailuresReach` (`FailureReported`).
- `OneWriter`, hence `DamageIsExplained` (`DamageNeedsMishap`): as long as nothing
  has gone wrong, either the file is whole and nobody writes, or it is empty
  and exactly one process is inside its write.
- `CacheBounded`, which no run checks: neither the file nor any copy of it ever
  holds more than `MaxEntries` entries, or two for one question. `put` adds
  before it trims, so that the bound is one of `Trim` and not of the counter.

**`ConfigStoreProofs`**

All five invariants of the run. Every step is first shown to be one of ten kinds
(`StepKinds`: a thread begins, reads one of the files, works, opens, writes,
ends, ...) that say what it may do to the two files and to the
configurations of others; the proofs go through the kinds.

- `TypeCorrect`; `Structure`: the background refresh lives no longer than its ask.
- `DamageExplained` (`DamageNeedsMishap`), from `Attended`: a damaged file has a
  writer, and a writer nobody disturbed still has the empty file it made.
- `HubsAreComplete` (`HubsComplete`), from `Whole`: not only `config.json` but
  every copy in memory that is up to date names the hubs of all tokens, those in
  `tokens.json` and those a save is about to put there; for which `config.json`
  must be the first file (`ConfigFirst`) and a thread empty-handed until it has
  read it (`Unread`).
- `SettingsAreKept` (`SettingsKept`), from `Settled`: every up-to-date copy has
  values at least as new as the file's, and no value is newer than the last
  stamp. `LoneSettingsAreKept` (`AloneKeepsSettings`), from `Alone`: the two savers
  of a lone ask hold the same settings, so that it does not matter who is last.
- `TokensAreKept` (`TokensKept`), from `TokensSafe`: every newest token is in one of the
  files or in the hands of a thread that is about to save `tokens.json`, and
  every up-to-date copy has it too, or such a save is about to make that copy
  old. `config.json` has lost its embedded tokens by then (`Emptied`), which is
  the window a cut migration falls into.

**`ScriptRunsProofs`**

- `TypeCorrect`; `NothingMislaid`: what is under way adds up. Operations made are
  operations done, plus one in the host's hand, plus the lines in the pipe;
  requests made are lines, one in the host's hand, answers in the pipe. The
  lines are counted by cardinality (`Among`), with lemmas on appending and
  taking the first. From it `SuccessIsWhole` (`SuccessMeansAllDone`: the host
  reports success only at the end of the output) and `DeadlockIsFullPipe`
  (`DeadlockNeedsFullPipe`: a script that awaits has a request under way).
- `KeysAreKept` (`KeysKept`), from `StateFollows`: until a save is lost or a
  truncated file read, the file holds the state, and so does every host about to
  save, unless another has saved since.
- `GuardsHold` (`GuardFailsOnlyBlind`): the copy of every running script is at
  least as new as the start of every execution whose mark it could see
  (`CopySees`), the state's stamp is at least every saved mark (`NewestStamp`), and
  whoever passed did so a window after everybody it saw (`PassesApart`). The proof
  showed that a mark saved late, over a newer one, sends the stamp back and lets
  a third execution pass: two executions cannot meet it, and `late` names it.

**`HubCommandsProofs`**

All six invariants of the run, for any automations, speakers, names, queries and
jobs, in any number of processes. The two parts meet in the hub's scenes only;
`TempAssumption` says that the scene of a sound is none of an automation.

- `TypeCorrect`: the types of both parts, and no two scenes with one id, which
  needs that ids are counted up (`ScenesOK`).
- `SpecsAreKept` (`SpecsKept`), from `Kept`: until two commands overlap, every copy
  that is not out of date is the file but for the one specification its command
  is about (`Agrees`), and the command that is writing has the only such copy; a
  truncated file without writer is the work of a kill or a failing save (`Torn`).
- `AppliedScenesExist` (`AppliedHasScene`), from `BackedAll`: not only the file but
  every copy that may be written over it has, for each specification applied
  through a scene, one that was made for it: noted with it, or among the scenes
  whose id the hub did not tell.
- `NoStrayScene` (`StraySceneNeedsCause`), from `Tracked`: without a mishap every
  scene whose id was told is known to somebody, a temporary one to the sound it
  belongs to (`Housed`), any other to the file or to a copy about to be saved.
- `NoRepeat` (`RepeatNeedsCachedFailure`), from `Counted`: what was heard and what
  is still to be heard make one for each attempt, which needs that a queue has
  no speaker twice (the removal of duplicates) and none of the hub's.
- `NoAmbiguity` (`AmbiguousPlaysOnlyBlind`), from `Clear`, and `SuccessIsHeard`
  (`SuccessSounded`), from `Told`: every target was heard, is still to be, is a cast
  speaker whose `Load` was pending (`Unsure`), or the command goes on only to delete
  its scene and report the error.

**`DukaNativeProofs`**

- `TypeCorrect`; the port is held by exactly the process that is at one of the five
  steps that use it, so that the reader or writer of packets is alone (`OneUser`).
- `ReadingsAreCurrent` (`ReadingIsCurrent`), from `Timely`: while a unit is read, its
  registers, the answers under way from it and what is known of it are among the
  values it had since the read began, and no setting of it is under way, unless a
  packet of that unit was left over.
- `SettingsWin` (`LastSettingWins`), from `Settling`: a register has the value asked
  last, or a packet under way or not yet sent brings it, unless it is spoilt, and a
  writer's packets are what was asked (`Asked`); a send that fails and a kill spoil
  every register whose packet was not sent (`GivenUp`).
- `DropsHaveCause` (`CacheDropsForCause`), from `Accounted`, every configured unit is
  to be read, was read or is excused, and `Awaited`, a reader without answer or
  excuse has a request or an answer for the firmware under way. The proof
  attempt showed the excuse of three overlapping commands that the run's bound
  of two could not.

**`AutoSchedulerProofs`**

- `TypeCorrect`, from `SchedInv`: besides the types, which generations have a
  scheduler (`Generations`), what a pass has left behind was attempted if due and a
  pass is not older than its scripts account for (`Walked`, `Paced`), and a
  remembered key is one that was attempted in a due minute (`Remembered`).
- `NothingOverslept` (`DueIsAttempted`), from `Awake`: every past minute had its pass
  (`Begun`); while the present one has not, it is younger than the longest pass
  and the failing reads so far together (`Late`). A tick that ended such a minute
  would have to come before that time is over, and they fit into a minute.
- `SucceedsOnce` (`OncePerGeneration`), from `Once`: a success is about to be
  remembered or was, by this key or a later one. Whatever a late scheduler
  overwrites, it writes a key that is as late (`NotNewer`), because due minutes
  that are less than a day apart on the wall clock have one key. The premise
  `Daily` says that a pass and a change of the clock together take less than a
  day; without it TLC finds a second success where a day has four minutes.
- `DueEveryDate` (`TimeEveryDate`) and `OneRunPerDate` (`OneKeyPerDate`), for every site
  and stretch of time: the wall clock shows every reading but those it jumps over
  (`Shown`), and what it shows between two others it shows in between, even where
  it is set back (`Reading`); a key is a function of the date.
- `SunIsDue` (`SunEveryDate`), where the shifted event falls on the local date it was
  computed for (`EventsStay`): the instant of the event then shows exactly the
  reading the code compares with. Boston in midsummer is where it does not
  (`TriggerClock_west`).

Only model-checked: liveness (`RunsEnd`, `NoticedChangeActs`, `OldSchedulersStop`,
`NoSecondLeaderAtLast`, `OldestLeadsAtLast`, `ExecutionsEnd`, `PortIsFreed`), because neither
fairness nor `ENABLED` is within the prover's reach. All invariants and action
properties of the passing runs are proved.

## 6. Findings

1. `cli/cli.go:3333`: a sun event that falls on the other UTC date is placed a day
   off and its automation never runs (`TriggerClock_west`).
2. `llm/openai_compatible.go:187`: the script of a destructive plan is cached before
   the plan is blocked, and a cache hit has lost the flags (`AskCache_readme`).
3. `dukaone/native/client.go:159`: `SetAttributes` reads the unit back while its own
   socket still holds port 4000, so every setting under the native backend is
   reported as failed after its packets were sent (`DukaNative_readme`).

## 7. Not modelled

- Event matching (`autoEventMatches`): a pure walk over JSON of any shape; the
  runner's model lets any event match or not.
- The LLM provider: one HTTP call whose answer is an input of `AskCache`.
- Hub discovery: mDNS and a scan by a worker pool that only collects answers; no
  state survives it.
- The runtime status server: a page over a ring of log lines; its `/restart` ends
  the process as a noticed change does in `AutoRunner`.
- Pairing: the loop that asks for a token until the button is pressed.
  `ConfigStore` has its result, the stored token.
- The Python bridge of DukaOne, and `dukaone rename`, `room` and `remove`, which
  edit the configuration as the commands of `ConfigStore` do.
- `resolveByNameOrID` and the plain device and scene commands: one request each.
- Command line, output, version: no state.

## 8. Plan

Worth proving still, beside what the runs check:

1. `ClusterLeader`: what holds with three hosts, as an invariant (every entry is
   the advertisement of the host that sorts last among those heard of).
2. `DebouncedTrigger`: that its steps keep the debounce window, as a theorem of
   the abstract specification alone.

Models still worth adding: `RunnerCluster`, the dispatchers of two hosts with
`ClusterLeader` deciding `SkipSpec` (which events run twice or not at all), and
the runner's reload as a reader in `ConfigStore`.
