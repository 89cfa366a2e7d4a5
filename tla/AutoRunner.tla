------------------------------ MODULE AutoRunner ------------------------------
(***************************************************************************)
(* `hubhq auto run`: the event side of the automation runner               *)
(* (src/internal/cli/cli.go, autoRun and runWithRuntimeFileReload).        *)
(*                                                                         *)
(* One process holds the maps inFlight and lastEventRun for its whole life *)
(* and goes through GENERATIONS: each reload cancels the context of the    *)
(* generation, waits for client.Watch to return, and runs the closure      *)
(* again, which declares a NEW triggerMu over the OLD maps.  Script runs   *)
(* are goroutines that nobody waits for, so a run started in one           *)
(* generation may finish, and delete its inFlight entry, in a later one.   *)
(*                                                                         *)
(* Threads: the dispatcher (client.Watch and its callback), one goroutine  *)
(* per script run, the file monitor, the reload loop.  The environment     *)
(* edits files, sends hub events and breaks the websocket.                 *)
(***************************************************************************)
EXTENDS Integers

CONSTANTS
    Specs,       \* ids of automations with a script; a larger id is newer
    Goroutines,  \* slots for concurrently live script runs
    Debounce,    \* the two-second window of the callback, in clock units
    MaxTime,     \* bound: the clock stops here
    MaxEdits     \* bound: file changes made by the environment

ASSUME SpecsAssumption == Specs \subseteq Nat
ASSUME GoroutinesAssumption == Goroutines \subseteq Nat
ASSUME BoundsAssumption ==
    /\ Debounce \in Nat \ {0}
    /\ MaxTime \in Nat
    /\ MaxEdits \in Nat

VARIABLES
    \* the environment
    autos,         \* autos.json: the specs that are runner-active
    torn,          \* autos.json is truncated by a save in progress
    now,           \* the clock
    edits,         \* file changes so far
    \* the reload loop and the monitor
    loop,          \* is the process in the loop or gone
    gen,           \* generation: how often the closure was entered
    cancelled,     \* runCtx of this generation is cancelled
    changed,       \* changedCh of this generation
    monitor,       \* monitorRuntimeFiles of this generation
    notice,        \* inotify events queued for, or read by, the monitor
    \* shared by all generations
    inFlight,
    lastEventRun,
    \* threads
    dispatch,      \* the Watch loop and its callback
    runs,          \* script runs
    lastStart      \* history: when a run of a spec was last started

environment == <<autos, torn, now, edits>>
reload == <<loop, gen, cancelled, changed, monitor, notice>>
maps == <<inFlight, lastEventRun>>
vars == <<environment, reload, maps, dispatch, runs, lastStart>>

\* No entry in lastEventRun: older than any window.
Never == -Debounce

Notices == {"none", "reload", "exec"}
Idle == [pc |-> "idle", spec |-> 0, gen |-> 0]

Reading == [pc |-> "read", todo |-> {}]

\* The pcs in which a thread is between Lock and Unlock of triggerMu.
Live(g) == runs[g].pc # "idle"
LiveSpecs == {runs[g].spec : g \in {h \in Goroutines : Live(h)}}

-----------------------------------------------------------------------------
(* triggerMu is a variable of the closure: one mutex per generation.       *)

DispatcherHolds == dispatch.pc = "locked"
RunHolds(g) == runs[g].pc = "locked"

\* Mutant: a run takes the lock the dispatcher holds.
MuFreeOfRuns(k) == \A g \in Goroutines : ~(RunHolds(g) /\ runs[g].gen = k)

MuFree(k) ==
    /\ ~(DispatcherHolds /\ gen = k)
    /\ \A g \in Goroutines : ~(RunHolds(g) /\ runs[g].gen = k)

-----------------------------------------------------------------------------
Init ==
    /\ autos \in SUBSET Specs
    /\ torn = FALSE
    /\ now = 0
    /\ edits = 0
    /\ loop = "running"
    /\ gen = 1
    /\ cancelled = FALSE
    /\ changed = "none"
    /\ monitor = "arming"
    /\ notice = "none"
    /\ inFlight = {}
    /\ lastEventRun = [s \in Specs |-> Never]
    /\ dispatch = Reading
    /\ runs = [g \in Goroutines |-> Idle]
    /\ lastStart = [s \in Specs |-> Never]

Running == loop = "running"

-----------------------------------------------------------------------------
(* The environment.                                                        *)

Tick ==
    /\ now < MaxTime
    /\ now' = now + 1
    /\ UNCHANGED <<autos, torn, edits, reload, maps, dispatch, runs, lastStart>>

\* An inotify event reaches the queue of an armed monitor and no other.
\* Events queued together are read together; one of the executable wins.
\* Mutant: a new executable asks for a reload and an exec at once.
NotifyBoth(kind) ==
    notice' = IF monitor # "armed" THEN notice
              ELSE IF "exec" \in {kind, notice} THEN "both" ELSE "reload"

Notify(kind) ==
    notice' = IF monitor # "armed" THEN notice
              ELSE IF "exec" \in {kind, notice} THEN "exec" ELSE "reload"

\* os.WriteFile of autos.json by another process: truncate, ...
SaveAutosBegins ==
    /\ ~torn
    /\ edits < MaxEdits
    /\ torn' = TRUE
    /\ edits' = edits + 1
    /\ UNCHANGED <<autos, now, reload, maps, dispatch, runs, lastStart>>

\* ... write and close, which is what the monitor's mask reports.
SaveAutosEnds(new) ==
    /\ torn
    /\ torn' = FALSE
    /\ autos' = new
    /\ Notify("reload")
    /\ UNCHANGED <<now, edits, loop, gen, cancelled, changed, monitor,
                   maps, dispatch, runs, lastStart>>

\* Another watched file (config, tokens, caches, bridge; the executable).
OtherFileChanges(kind) ==
    /\ edits < MaxEdits
    /\ edits' = edits + 1
    /\ Notify(kind)
    /\ UNCHANGED <<autos, torn, now, loop, gen, cancelled, changed, monitor,
                   maps, dispatch, runs, lastStart>>

-----------------------------------------------------------------------------
(* The file monitor: arms itself, reads one batch of events, calls         *)
(* onChange, returns.  Events outside "armed" are lost.                    *)

MonitorArms ==
    /\ Running
    /\ monitor = "arming"
    /\ monitor' = "armed"
    /\ UNCHANGED <<environment, loop, gen, cancelled, changed, notice,
                   maps, dispatch, runs, lastStart>>

MonitorReads ==
    /\ Running
    /\ monitor = "armed"
    /\ notice # "none"
    /\ monitor' = "notifying"
    /\ UNCHANGED <<environment, loop, gen, cancelled, changed, notice,
                   maps, dispatch, runs, lastStart>>

\* Mutant: onChange leaves the context alone.
NoCancel == UNCHANGED cancelled

\* onChange ends by cancelling runCtx.
CancelGeneration == cancelled' = TRUE

\* onChange: load the configuration, fill changedCh, cancel the generation.
MonitorNotifies ==
    /\ Running
    /\ monitor = "notifying"
    /\ monitor' = "gone"
    /\ notice' = "none"
    /\ changed' = notice
    /\ CancelGeneration
    /\ UNCHANGED <<environment, loop, gen, maps, dispatch, runs, lastStart>>

-----------------------------------------------------------------------------
(* The dispatcher: client.Watch and the callback of autoRun.               *)

\* The callback loads autos.json first; a torn file ends Watch.  Otherwise
\* it walks the active specs.  A frame that is already buffered is still
\* delivered after the generation is cancelled.
EventArrives ==
    /\ Running
    /\ dispatch.pc = "read"
    /\ dispatch' = IF torn THEN [Reading EXCEPT !.pc = "returned"]
                   ELSE [pc |-> "each", todo |-> autos]
    /\ UNCHANGED <<environment, reload, maps, runs, lastStart>>

\* The connection breaks, was never made, or is closed because runCtx is
\* cancelled: Watch returns.
WatchReturns ==
    /\ Running
    /\ dispatch.pc = "read"
    /\ dispatch' = [Reading EXCEPT !.pc = "returned"]
    /\ UNCHANGED <<environment, reload, maps, runs, lastStart>>

CallbackReturns ==
    /\ Running
    /\ dispatch.pc = "each"
    /\ dispatch.todo = {}
    /\ dispatch' = Reading
    /\ UNCHANGED <<environment, reload, maps, runs, lastStart>>

\* SortedSpecs: newest first.
NextSpec(s) ==
    /\ s \in dispatch.todo
    /\ \A t \in dispatch.todo : t <= s

Done(s) == [dispatch EXCEPT !.pc = "each", !.todo = @ \ {s}]

\* Not the cluster's leader, or the event is not the one s waits for: the
\* registry may change its answer, and the hub its events, at any time.
SkipSpec(s) ==
    /\ Running
    /\ dispatch.pc = "each"
    /\ NextSpec(s)
    /\ dispatch' = Done(s)
    /\ UNCHANGED <<environment, reload, maps, runs, lastStart>>

\* Leader, and the event matches.
LockTrigger(s) ==
    /\ Running
    /\ dispatch.pc = "each"
    /\ NextSpec(s)
    /\ MuFree(gen)
    /\ dispatch' = [dispatch EXCEPT !.pc = "locked"]
    /\ UNCHANGED <<environment, reload, maps, runs, lastStart>>

InWindow(s) == now - lastEventRun[s] < Debounce

\* Under the lock: already running, or within the debounce window.
DropTrigger(s) ==
    /\ Running
    /\ dispatch.pc = "locked"
    /\ NextSpec(s)
    /\ s \in inFlight \/ InWindow(s)
    /\ dispatch' = Done(s)
    /\ UNCHANGED <<environment, reload, maps, runs, lastStart>>

\* Slots are taken in order.
FreeSlot(g) ==
    /\ ~Live(g)
    /\ \A h \in Goroutines : h < g => Live(h)

\* Under the lock: mark the spec, unlock, start the goroutine.
StartRun(s, g) ==
    /\ Running
    /\ dispatch.pc = "locked"
    /\ NextSpec(s)
    /\ s \notin inFlight
    /\ ~InWindow(s)
    /\ FreeSlot(g)
    /\ inFlight' = inFlight \cup {s}
    /\ lastEventRun' = [lastEventRun EXCEPT ![s] = now]
    /\ lastStart' = [lastStart EXCEPT ![s] = now]
    /\ runs' = [runs EXCEPT ![g] = [pc |-> "script", spec |-> s, gen |-> gen]]
    /\ dispatch' = Done(s)
    /\ UNCHANGED <<environment, reload>>

-----------------------------------------------------------------------------
(* A script run: executeAutomationScript, then the deferred delete under   *)
(* the triggerMu of the generation that started it.                        *)

\* The script succeeds, fails, is cancelled, or reaches its timeout.
ScriptEnds(g) ==
    /\ Running
    /\ runs[g].pc = "script"
    /\ runs' = [runs EXCEPT ![g].pc = "ended"]
    /\ UNCHANGED <<environment, reload, maps, dispatch, lastStart>>

LockFinish(g) ==
    /\ Running
    /\ runs[g].pc = "ended"
    /\ MuFree(runs[g].gen)
    /\ runs' = [runs EXCEPT ![g].pc = "locked"]
    /\ UNCHANGED <<environment, reload, maps, dispatch, lastStart>>

\* Mutant: the entry stays when the run's generation is over.
DeleteUnlessReloaded(g) ==
    inFlight' = IF runs[g].gen < gen THEN inFlight ELSE inFlight \ {runs[g].spec}

\* The deferred function runs however the script ended.
DeleteInFlight(g) == inFlight' = inFlight \ {runs[g].spec}

FinishRun(g) ==
    /\ Running
    /\ runs[g].pc = "locked"
    /\ DeleteInFlight(g)
    /\ runs' = [runs EXCEPT ![g] = Idle]
    /\ UNCHANGED <<environment, reload, lastEventRun, dispatch, lastStart>>

-----------------------------------------------------------------------------
(* The reload loop, once the closure has returned.                         *)

\* Mutant: the maps are declared inside the closure.
ClosureMaps ==
    /\ inFlight' = {}
    /\ lastEventRun' = [s \in Specs |-> Never]

\* Mutant: the debounce stamps are declared inside the closure.
ClosureStamps ==
    /\ inFlight' = inFlight
    /\ lastEventRun' = [s \in Specs |-> Never]

\* The maps are declared outside the closure: a reload keeps them.
KeepMaps == UNCHANGED maps

NextGeneration ==
    /\ Running
    /\ dispatch.pc = "returned"
    /\ changed = "reload"
    /\ gen' = gen + 1
    /\ cancelled' = FALSE
    /\ changed' = "none"
    /\ monitor' = "arming"
    /\ notice' = "none"
    /\ dispatch' = Reading
    /\ KeepMaps
    /\ UNCHANGED <<environment, loop, runs, lastStart>>

\* The process image is gone: goroutines and maps with it.
ForgetProcess ==
    /\ cancelled' = FALSE
    /\ changed' = "none"
    /\ monitor' = "arming"
    /\ notice' = "none"
    /\ inFlight' = {}
    /\ lastEventRun' = [s \in Specs |-> Never]
    /\ dispatch' = Reading
    /\ runs' = [g \in Goroutines |-> Idle]
    /\ lastStart' = [s \in Specs |-> Never]

\* restartCurrentProcess: the executable changed, exec it.
ExecSelf ==
    /\ Running
    /\ dispatch.pc = "returned"
    /\ changed = "exec"
    /\ gen' = 1
    /\ ForgetProcess
    /\ UNCHANGED <<environment, loop>>

\* The closure returned with nothing in changedCh: autoRun returns its error.
LoopReturns ==
    /\ Running
    /\ dispatch.pc = "returned"
    /\ changed = "none"
    /\ loop' = "exited"
    /\ gen' = gen
    /\ ForgetProcess
    /\ UNCHANGED environment

\* Two threads in sections of different mutexes touch the same Go map: the
\* runtime may stop the program with "concurrent map writes".
MapRace ==
    \/ \E g \in Goroutines : RunHolds(g) /\ DispatcherHolds
    \/ \E g, h \in Goroutines : g # h /\ RunHolds(g) /\ RunHolds(h)

RuntimeThrows ==
    /\ Running
    /\ MapRace
    /\ loop' = "exited"
    /\ gen' = gen
    /\ ForgetProcess
    /\ UNCHANGED environment

\* Nothing restarts the process.
Exited ==
    /\ ~Running
    /\ UNCHANGED vars

-----------------------------------------------------------------------------
Environment ==
    \/ Tick
    \/ SaveAutosBegins
    \/ \E new \in SUBSET Specs : SaveAutosEnds(new)
    \/ \E kind \in {"reload", "exec"} : OtherFileChanges(kind)

Monitor == MonitorArms \/ MonitorReads \/ MonitorNotifies

Callback ==
    \/ CallbackReturns
    \/ \E s \in Specs :
          \/ SkipSpec(s)
          \/ LockTrigger(s)
          \/ DropTrigger(s)
          \/ \E g \in Goroutines : StartRun(s, g)

Dispatcher ==
    \/ EventArrives
    \/ WatchReturns
    \/ Callback

Run(g) == ScriptEnds(g) \/ LockFinish(g) \/ FinishRun(g)

Loop == NextGeneration \/ ExecSelf \/ LoopReturns

Next ==
    \/ Environment
    \/ Monitor
    \/ Dispatcher
    \/ \E g \in Goroutines : Run(g)
    \/ Loop
    \/ RuntimeThrows
    \/ Exited

Spec == Init /\ [][Next]_vars

(***************************************************************************)
(* Fairness.  The Go scheduler runs every runnable goroutine; sync.Mutex   *)
(* hands itself to a starved waiter (strong fairness of LockFinish); a     *)
(* script ends because its context has a deadline (30 s by default); a     *)
(* cancelled generation has its connection closed by the watcher goroutine *)
(* of client.Watch, so its read fails once the frames already buffered are *)
(* consumed (strong fairness of WatchReturns).  Hub events, edits and      *)
(* failures owe nothing.                                                   *)
(***************************************************************************)
Fairness ==
    /\ WF_vars(Monitor)
    /\ WF_vars(Callback)
    /\ SF_vars(WatchReturns /\ cancelled)
    /\ WF_vars(Loop)
    /\ \A g \in Goroutines :
          /\ WF_vars(ScriptEnds(g))
          /\ SF_vars(LockFinish(g))
          /\ WF_vars(FinishRun(g))

FairSpec == Spec /\ Fairness

-----------------------------------------------------------------------------
(* Properties.                                                             *)

RunType == [pc : {"idle", "script", "ended", "locked"},
            spec : Specs \cup {0},
            gen : Nat]

\* The variables have the shapes of the Go values they stand for.
TypeOK ==
    /\ autos \in SUBSET Specs
    /\ torn \in BOOLEAN
    /\ now \in Nat
    /\ edits \in Nat
    /\ loop \in {"running", "exited"}
    /\ gen \in Nat
    /\ cancelled \in BOOLEAN
    /\ changed \in Notices
    /\ monitor \in {"arming", "armed", "notifying", "gone"}
    /\ notice \in Notices
    /\ inFlight \in SUBSET Specs
    /\ lastEventRun \in [Specs -> Int]
    /\ dispatch \in [pc : {"read", "each", "locked", "returned"},
                     todo : SUBSET Specs]
    /\ runs \in [Goroutines -> RunType]
    /\ lastStart \in [Specs -> Int]

\* An automation never has two script runs alive, whatever generations they
\* belong to: inFlight outlives the reloads, and only a run's own deferred
\* delete clears its entry.
AtMostOneRun ==
    \A g, h \in Goroutines :
        Live(g) /\ Live(h) /\ runs[g].spec = runs[h].spec => g = h

\* An id is in inFlight exactly while some goroutine still owes the delete:
\* an entry without an owner would silence its automation for good.
InFlightOwned == inFlight = LiveSpecs

\* The Go maps are only touched by two threads at once when a run outlives
\* the generation that started it: within a generation triggerMu excludes.
MapRaceNeedsReload ==
    MapRace => \E g \in Goroutines : RunHolds(g) /\ runs[g].gen < gen

\* An automation that is running becomes triggerable again.
RunsEnd ==
    \A s \in Specs : s \in inFlight ~> s \notin inFlight

\* A change the monitor has noticed leads out of the generation: to a new
\* one, to the new executable, or out of the process.
NoticedChangeActs ==
    monitor = "notifying" ~> monitor # "notifying" /\ changed = "none"

Trigger == INSTANCE DebouncedTrigger WITH running <- LiveSpecs

\* The runner keeps the promise of DebouncedTrigger: whatever the
\* interleaving of reloads, hub events and run ends, runs of an automation
\* exclude each other and its starts keep the two-second window.
ImplementsTrigger == Trigger!Spec
=============================================================================
