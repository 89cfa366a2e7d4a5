----------------------------- MODULE AutoScheduler -----------------------------
(***************************************************************************)
(* The time side of `hubhq auto run`: autoRunScheduler and                 *)
(* runScheduledSpecs of src/internal/cli/cli.go.                           *)
(*                                                                         *)
(* Every generation of the runner (see AutoRunner) starts a scheduler      *)
(* goroutine over the same lastRuns map and waits for none of them, so an  *)
(* old scheduler may still be in a script when the next one makes its      *)
(* first pass.  A pass reads the clock once, then runs the due scripts one *)
(* after another.                                                          *)
(*                                                                         *)
(* Time is counted in ticks of the 15-second ticker.  Steps other than a   *)
(* script take no time: the clock waits for them.                          *)
(***************************************************************************)
EXTENDS TimeTriggers, FiniteSets

CONSTANTS
    Specs,        \* ids of scripted "time" automations; a larger id is newer
    Trigger,      \* spec -> its trigger, a Site of TimeTriggers
    MinuteTicks,  \* ticks per minute
    Timeout,      \* ticks a script may take
    MaxGen,       \* bound: generations of the runner
    MaxTime,      \* bound: the clock stops here
    MaxTorn       \* bound: failing reads of autos.json

ASSUME SpecsAssumption == Specs \subseteq Nat /\ IsFiniteSet(Specs)
ASSUME TriggerAssumption == Trigger \in [Specs -> Site]
ASSUME TimesAssumption ==
    /\ {MinuteTicks, MaxGen} \subseteq Nat \ {0}
    /\ {Timeout, MaxTime, MaxTorn} \subseteq Nat

VARIABLES
    now,       \* the clock, in ticks
    gen,       \* the present generation
    torn,      \* failing reads of autos.json so far
    lastRuns,  \* spec -> the run key of its last successful run, if it had one
    sched,     \* the scheduler of each generation
    attempts,  \* history: <<spec, key>> of every script started
    ok         \* history: <<generation, spec, key>> of every success

vars == <<now, gen, torn, lastRuns, sched, attempts, ok>>

Gens == 1 .. MaxGen
NoKey == {}

\* A goroutine just started: it makes a pass before it looks at the ticker.
Started == [pc |-> "pass", todo |-> {}, minute |-> 0, spec |-> 0, took |-> 0, tick |-> FALSE]
Unborn == [Started EXCEPT !.pc = "unborn"]

Minute == now \div MinuteTicks
Key(g, s) == TimeKey(Trigger[s], sched[g].minute)

\* Mutant: the scheduler is given the context of the process.
NeverCancelled(g) == FALSE

\* runCtx of generation g is cancelled before the next generation starts.
Cancelled(g) == g < gen

-----------------------------------------------------------------------------
Init ==
    /\ now = 0
    /\ gen = 1
    /\ torn = 0
    /\ lastRuns = [s \in Specs |-> NoKey]
    /\ sched = [g \in Gens |-> IF g = 1 THEN Started ELSE Unborn]
    /\ attempts = {}
    /\ ok = {}

\* The goroutine has nothing to do before the clock moves.
AtRest(g) ==
    \/ sched[g].pc \in {"unborn", "gone"}
    \/ sched[g].pc = "wait" /\ ~sched[g].tick /\ ~Cancelled(g)
    \/ sched[g].pc = "script" /\ sched[g].took < Timeout /\ ~Cancelled(g)

\* Mutant: a ticker of 150 seconds.
SlowTicker(n) == n % 10 = 0

\* time.NewTicker(15 * time.Second).
TickerFires(n) == TRUE

\* The ticker's channel holds one tick; more are dropped.
Tick ==
    /\ now < MaxTime
    /\ \A g \in Gens : AtRest(g)
    /\ now' = now + 1
    /\ sched' = [g \in Gens |->
          [sched[g] EXCEPT !.tick = @ \/ (sched[g].pc \in {"wait", "script"} /\ TickerFires(now')),
                           !.took = IF sched[g].pc = "script" THEN @ + 1 ELSE @]]
    /\ UNCHANGED <<gen, torn, lastRuns, attempts, ok>>

\* A watched file changed: the context of the generation is cancelled and
\* the closure starts the next one.
Reload ==
    /\ gen < MaxGen
    /\ gen' = gen + 1
    /\ sched' = [sched EXCEPT ![gen + 1] = Started]
    /\ UNCHANGED <<now, torn, lastRuns, attempts, ok>>

-----------------------------------------------------------------------------
(* One pass: runScheduledSpecs.                                            *)

LoadAutos(g) ==
    /\ sched[g].pc = "pass"
    /\ sched' = [sched EXCEPT ![g].pc = "walk", ![g].todo = Specs, ![g].minute = Minute]
    /\ UNCHANGED <<now, gen, torn, lastRuns, attempts, ok>>

\* autos.json is being rewritten: the pass is given up.
LoadFails(g) ==
    /\ sched[g].pc = "pass"
    /\ torn < MaxTorn
    /\ torn' = torn + 1
    /\ sched' = [sched EXCEPT ![g].pc = "wait"]
    /\ UNCHANGED <<now, gen, lastRuns, attempts, ok>>

NextSpec(g, s) ==
    /\ s \in sched[g].todo
    /\ \A r \in sched[g].todo : r =< s

Due(g, s) == TimeDue(Trigger[s], sched[g].minute)

SkipSpec(g, s) ==
    /\ sched[g].pc = "walk"
    /\ NextSpec(g, s)
    /\ ~Due(g, s) \/ lastRuns[s] = {Key(g, s)}
    /\ sched' = [sched EXCEPT ![g].todo = @ \ {s}]
    /\ UNCHANGED <<now, gen, torn, lastRuns, attempts, ok>>

RunScript(g, s) ==
    /\ sched[g].pc = "walk"
    /\ NextSpec(g, s)
    /\ Due(g, s)
    /\ lastRuns[s] # {Key(g, s)}
    /\ sched' = [sched EXCEPT ![g].pc = "script", ![g].spec = s, ![g].took = 0]
    /\ attempts' = attempts \cup {<<s, Key(g, s)>>}
    /\ UNCHANGED <<now, gen, torn, lastRuns, ok>>

ScriptSucceeds(g) ==
    /\ sched[g].pc = "script"
    /\ sched' = [sched EXCEPT ![g].pc = "ended"]
    /\ ok' = ok \cup {<<g, sched[g].spec, Key(g, sched[g].spec)>>}
    /\ UNCHANGED <<now, gen, torn, lastRuns, attempts>>

\* An error, the timeout, or the cancelled context: lastRuns stays, so that
\* a later pass within the minute tries again.
ScriptFails(g) ==
    /\ sched[g].pc = "script"
    /\ sched' = [sched EXCEPT ![g].pc = "walk", ![g].todo = @ \ {sched[g].spec}]
    /\ UNCHANGED <<now, gen, torn, lastRuns, attempts, ok>>

\* Mutant: success is not remembered.
ForgetRun(g) == UNCHANGED lastRuns

RememberRun(g) ==
    lastRuns' = [lastRuns EXCEPT ![sched[g].spec] = {Key(g, sched[g].spec)}]

Record(g) ==
    /\ sched[g].pc = "ended"
    /\ RememberRun(g)
    /\ sched' = [sched EXCEPT ![g].pc = "walk", ![g].todo = @ \ {sched[g].spec}]
    /\ UNCHANGED <<now, gen, torn, attempts, ok>>

PassEnds(g) ==
    /\ sched[g].pc = "walk"
    /\ sched[g].todo = {}
    /\ sched' = [sched EXCEPT ![g].pc = "wait"]
    /\ UNCHANGED <<now, gen, torn, lastRuns, attempts, ok>>

-----------------------------------------------------------------------------
(* The select of autoRunScheduler.                                         *)

Wake(g) ==
    /\ sched[g].pc = "wait"
    /\ sched[g].tick
    /\ sched' = [sched EXCEPT ![g].pc = "pass", ![g].tick = FALSE]
    /\ UNCHANGED <<now, gen, torn, lastRuns, attempts, ok>>

Stop(g) ==
    /\ sched[g].pc = "wait"
    /\ Cancelled(g)
    /\ sched' = [sched EXCEPT ![g] = [Unborn EXCEPT !.pc = "gone"]]
    /\ UNCHANGED <<now, gen, torn, lastRuns, attempts, ok>>

Scheduler(g) ==
    \/ LoadAutos(g)
    \/ LoadFails(g)
    \/ \E s \in Specs : SkipSpec(g, s) \/ RunScript(g, s)
    \/ ScriptSucceeds(g)
    \/ ScriptFails(g)
    \/ Record(g)
    \/ PassEnds(g)
    \/ Wake(g)
    \/ Stop(g)

\* The bound of the clock, not a stop of the program.
TimeIsUp ==
    /\ now = MaxTime
    /\ \A g \in Gens : AtRest(g)
    /\ UNCHANGED vars

Next == Tick \/ Reload \/ (\E g \in Gens : Scheduler(g)) \/ TimeIsUp

Spec == Init /\ [][Next]_vars

\* Goroutines run, scripts end at their timeout; nothing obliges a reload.
FairSpec == Spec /\ WF_vars(Tick) /\ \A g \in Gens : WF_vars(Scheduler(g))

-----------------------------------------------------------------------------
SchedRecords ==
    [pc : {"unborn", "pass", "walk", "script", "ended", "wait", "gone"},
     todo : SUBSET Specs, minute : Nat, spec : Specs \cup {0},
     took : 0 .. Timeout, tick : BOOLEAN]

\* The variables have the shapes of the Go values they stand for.
TypeOK ==
    /\ now \in 0 .. MaxTime
    /\ gen \in Gens
    /\ torn \in 0 .. MaxTorn
    /\ lastRuns \in [Specs -> SUBSET Int]
    /\ sched \in [Gens -> SchedRecords]
    /\ attempts \subseteq Specs \X Int
    /\ ok \subseteq Gens \X Specs \X Int

\* Within a generation an automation succeeds at most once for a run key:
\* failures are retried in their minute, successes are not.
OncePerGeneration ==
    [][\A g \in Gens :
          sched[g].pc = "script" /\ sched'[g].pc = "ended"
             => <<g, sched[g].spec, Key(g, sched[g].spec)>> \notin ok]_vars

\* No minute is overslept: an automation due in a minute is attempted in it
\* or in the pass that began in it, provided a pass and the failing reads
\* together fit into the minute.
DueIsAttempted ==
    Cardinality(Specs) * Timeout + MaxTorn < MinuteTicks =>
        \A s \in Specs, m \in 0 .. Minute :
            /\ TimeDue(Trigger[s], m)
            /\ now >= (m + 1) * MinuteTicks + Cardinality(Specs) * Timeout
            => <<s, TimeKey(Trigger[s], m)>> \in attempts

\* The scheduler of a cancelled generation comes to its end.
OldSchedulersStop ==
    \A g \in Gens : g < gen ~> sched[g].pc = "gone"
=============================================================================
