--------------------------- MODULE AutoRunnerProofs ---------------------------
(***************************************************************************)
(* For every set of automations, every number of goroutine slots and every *)
(* window: the invariants of AutoRunner and its refinement of              *)
(* DebouncedTrigger.                                                       *)
(***************************************************************************)
EXTENDS AutoRunner, TLAPS

-----------------------------------------------------------------------------
(* Types.                                                                  *)

\* Never is an integer below every reading of the clock.
LEMMA NeverInt == Never \in Int
BY BoundsAssumption DEF Never

\* Every variable keeps the shape of the Go value it stands for.
THEOREM TypeCorrect == Spec => []TypeOK
<1>1. Init => TypeOK
  <2> SUFFICES ASSUME Init PROVE TypeOK
    OBVIOUS
  <2>1. [s \in Specs |-> Never] \in [Specs -> Int]
    BY NeverInt
  <2>2. [g \in Goroutines |-> Idle] \in [Goroutines -> RunType]
    BY DEF Idle, RunType
  <2> QED BY <2>1, <2>2 DEF Init, TypeOK, Notices, Reading
<1>2. TypeOK /\ [Next]_vars => TypeOK'
  <2> SUFFICES ASSUME TypeOK, [Next]_vars
               PROVE  TypeOK'
    OBVIOUS
  <2> USE DEF TypeOK
  <2>1. CASE Environment
    <3>1. CASE Tick
      BY <3>1 DEF Tick, reload, maps
    <3>2. CASE SaveAutosBegins
      BY <3>2 DEF SaveAutosBegins, reload, maps
    <3>3. ASSUME NEW new \in SUBSET Specs, SaveAutosEnds(new)
          PROVE  TypeOK'
      BY <3>3 DEF SaveAutosEnds, Notify, Notices, maps
    <3>4. ASSUME NEW kind \in {"reload", "exec"}, OtherFileChanges(kind)
          PROVE  TypeOK'
      BY <3>4 DEF OtherFileChanges, Notify, Notices, maps
    <3> QED BY <2>1, <3>1, <3>2, <3>3, <3>4 DEF Environment
  <2>2. CASE Monitor
    BY <2>2 DEF Monitor, MonitorArms, MonitorReads, MonitorNotifies,
                CancelGeneration, environment, maps, Notices
  <2>3. CASE Dispatcher
    <3>1. CASE EventArrives
      BY <3>1 DEF EventArrives, environment, reload, maps, Reading
    <3>2. CASE WatchReturns
      BY <3>2 DEF WatchReturns, environment, reload, maps, Reading
    <3>3. CASE CallbackReturns
      BY <3>3 DEF CallbackReturns, environment, reload, maps, Reading
    <3>4. ASSUME NEW s \in Specs,
                 SkipSpec(s) \/ LockTrigger(s) \/ DropTrigger(s)
          PROVE  TypeOK'
      BY <3>4 DEF SkipSpec, LockTrigger, DropTrigger, Done, environment, reload, maps
    <3>5. ASSUME NEW s \in Specs, NEW g \in Goroutines, StartRun(s, g)
          PROVE  TypeOK'
      <4>1. lastEventRun' \in [Specs -> Int] /\ lastStart' \in [Specs -> Int]
        BY <3>5 DEF StartRun
      <4>2. runs' \in [Goroutines -> RunType]
        BY <3>5 DEF StartRun, RunType
      <4> QED BY <3>5, <4>1, <4>2 DEF StartRun, Done, environment, reload
    <3> QED BY <2>3, <3>1, <3>2, <3>3, <3>4, <3>5 DEF Dispatcher, Callback
  <2>4. ASSUME NEW g \in Goroutines, Run(g)
        PROVE  TypeOK'
    BY <2>4 DEF Run, ScriptEnds, LockFinish, FinishRun, DeleteInFlight,
                RunType, Idle, environment, reload, maps
  <2>5. CASE Loop
    <3>1. CASE NextGeneration
      <4>1. gen' \in Nat
        BY <3>1 DEF NextGeneration
      <4> QED BY <3>1, <4>1 DEF NextGeneration, KeepMaps, Reading, Notices,
                 environment, maps
    <3>2. CASE ExecSelf \/ LoopReturns
      <4>1. [g \in Goroutines |-> Idle] \in [Goroutines -> RunType]
        BY DEF Idle, RunType
      <4>2. [s \in Specs |-> Never] \in [Specs -> Int]
        BY NeverInt
      <4>3. gen' \in Nat /\ loop' \in {"running", "exited"}
        BY <3>2 DEF ExecSelf, LoopReturns
      <4>4. ForgetProcess /\ UNCHANGED environment
        BY <3>2 DEF ExecSelf, LoopReturns
      <4> QED BY <4>1, <4>2, <4>3, <4>4 DEF ForgetProcess, Reading, Notices, environment
    <3> QED BY <2>5, <3>1, <3>2 DEF Loop
  <2>6. CASE RuntimeThrows
    BY <2>6, NeverInt DEF RuntimeThrows, ForgetProcess, RunType, Idle, Reading,
                Notices, environment
  <2>7. CASE UNCHANGED vars
    BY <2>7 DEF vars, environment, reload, maps
  <2> QED BY <2>1, <2>2, <2>3, <2>4, <2>5, <2>6, <2>7 DEF Next, Exited
<1> QED BY <1>1, <1>2, PTL DEF Spec

-----------------------------------------------------------------------------
(* The inductive invariant.  AtMostOneRun and InFlightOwned support each   *)
(* other: an id missing from inFlight has no run, so a start makes the     *)
(* first one; a run is the only one of its id, so its delete leaves        *)
(* inFlight exact.                                                         *)

\* No run comes from a generation that has not begun.
RunsOfThePast == \A g \in Goroutines : Live(g) => runs[g].gen =< gen

\* One holder per mutex.
MutexExcludes ==
    /\ \A g, h \in Goroutines :
          RunHolds(g) /\ RunHolds(h) /\ runs[g].gen = runs[h].gen => g = h
    /\ \A g \in Goroutines :
          RunHolds(g) /\ DispatcherHolds => runs[g].gen # gen

\* The debounce stamp is the time of the last start.
StampIsStart == lastEventRun = lastStart

IInv ==
    /\ AtMostOneRun
    /\ InFlightOwned
    /\ RunsOfThePast
    /\ MutexExcludes
    /\ StampIsStart

\* Steps that touch neither the maps, nor a run, nor the dispatcher.
LEMMA QuietStep ==
    ASSUME IInv, UNCHANGED <<gen, maps, dispatch, runs, lastStart>>
    PROVE  IInv'
BY DEF IInv, AtMostOneRun, InFlightOwned, RunsOfThePast, MutexExcludes,
       StampIsStart, LiveSpecs, Live, RunHolds, DispatcherHolds, maps

\* A process without runs satisfies the invariant.
LEMMA FreshProcess ==
    ASSUME TypeOK, ForgetProcess
    PROVE  IInv' /\ LiveSpecs' = {}
<1>1. \A g \in Goroutines : runs'[g].pc = "idle"
  BY DEF ForgetProcess, Idle
<1> QED
  BY <1>1 DEF ForgetProcess, IInv, AtMostOneRun, InFlightOwned, RunsOfThePast,
              MutexExcludes, StampIsStart, LiveSpecs, Live, RunHolds

\* The dispatcher moves without taking the lock.
LEMMA DispatcherMoves ==
    ASSUME IInv, UNCHANGED <<gen, maps, runs, lastStart>>,
           dispatch'.pc # "locked"
    PROVE  IInv'
BY DEF IInv, AtMostOneRun, InFlightOwned, RunsOfThePast, MutexExcludes,
       StampIsStart, LiveSpecs, Live, RunHolds, DispatcherHolds, maps

\* A start adds its automation to the live ones, and nothing else.
LEMMA StartAddsOne ==
    ASSUME TypeOK, NEW s \in Specs, NEW g \in Goroutines, StartRun(s, g)
    PROVE  LiveSpecs' = LiveSpecs \cup {s}
<1>1. ~Live(g) /\ runs' = [runs EXCEPT ![g] = [pc |-> "script", spec |-> s, gen |-> gen]]
  BY DEF StartRun, FreeSlot
<1>2. \A h \in Goroutines : Live(h)' <=> (Live(h) \/ h = g)
  BY <1>1 DEF Live, TypeOK
<1>3. \A h \in Goroutines : runs'[h].spec = IF h = g THEN s ELSE runs[h].spec
  BY <1>1 DEF TypeOK
<1> QED BY <1>1, <1>2, <1>3 DEF LiveSpecs

\* A run that ends takes its automation, which no other run has.
LEMMA FinishRemovesOne ==
    ASSUME TypeOK, AtMostOneRun, NEW g \in Goroutines, FinishRun(g)
    PROVE  LiveSpecs' = LiveSpecs \ {runs[g].spec}
<1>1. Live(g) /\ runs' = [runs EXCEPT ![g] = Idle]
  BY DEF FinishRun, Live
<1>2. \A h \in Goroutines : Live(h)' <=> (Live(h) /\ h # g)
  BY <1>1 DEF Live, TypeOK, Idle
<1>3. \A h \in Goroutines : h # g => runs'[h].spec = runs[h].spec
  BY <1>1 DEF TypeOK
<1>4. \A h \in Goroutines : Live(h) /\ h # g => runs[h].spec # runs[g].spec
  BY <1>1 DEF AtMostOneRun
<1> QED BY <1>2, <1>3, <1>4 DEF LiveSpecs

\* Every step of a run.
LEMMA RunStep ==
    ASSUME TypeOK, IInv, NEW g \in Goroutines, Run(g)
    PROVE  IInv'
<1>1. CASE ScriptEnds(g)
  <2>1. /\ runs[g].pc = "script"
        /\ runs' = [runs EXCEPT ![g].pc = "ended"]
        /\ UNCHANGED <<gen, maps, dispatch, lastStart>>
    BY <1>1 DEF ScriptEnds, reload
  <2>2. \A h \in Goroutines :
        /\ runs'[h].spec = runs[h].spec
        /\ runs'[h].gen = runs[h].gen
        /\ Live(h)' <=> Live(h)
        /\ RunHolds(h)' <=> RunHolds(h)
    BY <2>1 DEF TypeOK, RunType, Live, RunHolds
  <2>3. LiveSpecs' = LiveSpecs
    BY <2>2 DEF LiveSpecs
  <2> QED BY <2>1, <2>2, <2>3 DEF IInv, AtMostOneRun, InFlightOwned,
              RunsOfThePast, MutexExcludes, StampIsStart, DispatcherHolds, maps
<1>2. CASE LockFinish(g)
  <2>1. /\ runs[g].pc = "ended"
        /\ MuFree(runs[g].gen)
        /\ runs' = [runs EXCEPT ![g].pc = "locked"]
        /\ UNCHANGED <<gen, maps, dispatch, lastStart>>
    BY <1>2 DEF LockFinish, reload
  <2>2. \A h \in Goroutines :
        /\ runs'[h].spec = runs[h].spec
        /\ runs'[h].gen = runs[h].gen
        /\ Live(h)' <=> Live(h)
        /\ RunHolds(h)' <=> (RunHolds(h) \/ h = g)
    BY <2>1 DEF TypeOK, RunType, Live, RunHolds
  <2>3. LiveSpecs' = LiveSpecs
    BY <2>2 DEF LiveSpecs
  <2>4. MutexExcludes'
    BY <2>1, <2>2 DEF MutexExcludes, MuFree, DispatcherHolds, IInv
  <2> QED BY <2>1, <2>2, <2>3, <2>4 DEF IInv, AtMostOneRun, InFlightOwned,
              RunsOfThePast, StampIsStart, maps
<1>3. CASE FinishRun(g)
  <2>1. /\ runs[g].pc = "locked"
        /\ inFlight' = inFlight \ {runs[g].spec}
        /\ runs' = [runs EXCEPT ![g] = Idle]
        /\ UNCHANGED <<gen, lastEventRun, dispatch, lastStart>>
    BY <1>3 DEF FinishRun, DeleteInFlight, reload
  <2>2. \A h \in Goroutines :
        /\ h # g => runs'[h] = runs[h]
        /\ Live(h)' <=> (Live(h) /\ h # g)
        /\ RunHolds(h)' <=> (RunHolds(h) /\ h # g)
    BY <2>1 DEF TypeOK, Live, RunHolds, Idle
  <2>3. LiveSpecs' = LiveSpecs \ {runs[g].spec}
    BY <1>3, FinishRemovesOne DEF IInv
  <2> QED BY <2>1, <2>2, <2>3 DEF IInv, AtMostOneRun, InFlightOwned,
              RunsOfThePast, MutexExcludes, StampIsStart, DispatcherHolds
<1> QED BY <1>1, <1>2, <1>3 DEF Run

\* Every step of the reload loop, and the runtime's throw.
LEMMA LoopStep ==
    ASSUME TypeOK, IInv, Loop \/ RuntimeThrows
    PROVE  IInv'
<1>1. CASE NextGeneration
  <2>1. /\ gen' = gen + 1
        /\ dispatch' = Reading
        /\ UNCHANGED <<maps, runs, lastStart>>
    BY <1>1 DEF NextGeneration, KeepMaps
  <2>2. RunsOfThePast'
    BY <2>1 DEF IInv, RunsOfThePast, TypeOK, RunType, Live
  <2> QED BY <2>1, <2>2 DEF IInv, AtMostOneRun, InFlightOwned, MutexExcludes,
              StampIsStart, LiveSpecs, Live, RunHolds, DispatcherHolds, maps, Reading
<1>2. CASE ExecSelf \/ LoopReturns \/ RuntimeThrows
  BY <1>2, FreshProcess DEF ExecSelf, LoopReturns, RuntimeThrows
<1> QED BY <1>1, <1>2 DEF Loop

\* Every step of the dispatcher.
LEMMA DispatcherStep ==
    ASSUME TypeOK, IInv, Dispatcher
    PROVE  IInv'
<1>1. CASE EventArrives \/ WatchReturns \/ CallbackReturns
  BY <1>1, DispatcherMoves
     DEF EventArrives, WatchReturns, CallbackReturns, Reading, reload
<1>2. ASSUME NEW s \in Specs, SkipSpec(s) \/ DropTrigger(s)
      PROVE  IInv'
  <2>1. dispatch' = Done(s) /\ UNCHANGED <<gen, maps, runs, lastStart>>
    BY <1>2 DEF SkipSpec, DropTrigger, reload
  <2>2. dispatch'.pc = "each"
    BY <2>1 DEF Done, TypeOK
  <2> QED BY <2>1, <2>2, DispatcherMoves
<1>3. ASSUME NEW s \in Specs, LockTrigger(s)
      PROVE  IInv'
  <2>1. MuFree(gen) /\ UNCHANGED <<gen, maps, runs, lastStart>>
    BY <1>3 DEF LockTrigger, reload
  <2>2. MutexExcludes'
    BY <2>1 DEF MutexExcludes, MuFree, RunHolds, IInv
  <2> QED BY <2>1, <2>2 DEF IInv, AtMostOneRun, InFlightOwned, RunsOfThePast,
              StampIsStart, LiveSpecs, Live, maps
<1>4. ASSUME NEW s \in Specs, NEW g \in Goroutines, StartRun(s, g)
      PROVE  IInv'
  <2>1. /\ s \notin inFlight
        /\ ~Live(g)
        /\ inFlight' = inFlight \cup {s}
        /\ runs' = [runs EXCEPT ![g] = [pc |-> "script", spec |-> s, gen |-> gen]]
        /\ dispatch' = Done(s)
        /\ UNCHANGED gen
    BY <1>4 DEF StartRun, FreeSlot, reload
  <2>2. \A h \in Goroutines :
        /\ Live(h)' <=> (Live(h) \/ h = g)
        /\ h # g => runs'[h] = runs[h]
        /\ RunHolds(h)' <=> RunHolds(h)
    BY <2>1 DEF TypeOK, Live, RunHolds
  <2>3. runs'[g].spec = s /\ runs'[g].gen = gen /\ ~RunHolds(g)
    BY <2>1 DEF TypeOK, RunHolds, Live
  <2>4. \A h \in Goroutines : Live(h) => runs[h].spec # s
    BY <2>1 DEF IInv, InFlightOwned, LiveSpecs
  <2>5. AtMostOneRun'
    BY <2>2, <2>3, <2>4 DEF AtMostOneRun, IInv
  <2>6. InFlightOwned'
    BY <1>4, <2>1, StartAddsOne DEF InFlightOwned, IInv
  <2>7. RunsOfThePast'
    BY <2>1, <2>2, <2>3 DEF RunsOfThePast, IInv, TypeOK
  <2>8. MutexExcludes'
    <3>1. ~DispatcherHolds'
      BY <2>1 DEF DispatcherHolds, Done, TypeOK
    <3> QED BY <2>2, <2>3, <3>1 DEF MutexExcludes, IInv
  <2>9. StampIsStart'
    BY <1>4 DEF StampIsStart, StartRun, IInv
  <2> QED BY <2>5, <2>6, <2>7, <2>8, <2>9 DEF IInv
<1> QED BY <1>1, <1>2, <1>3, <1>4 DEF Dispatcher, Callback

\* The conjunction that carries the induction.
THEOREM Inductive == Spec => []IInv
<1>1. Init => IInv
  BY DEF Init, IInv, AtMostOneRun, InFlightOwned, RunsOfThePast, MutexExcludes,
         StampIsStart, LiveSpecs, Live, RunHolds, Idle
<1>2. TypeOK /\ IInv /\ [Next]_vars => IInv'
  <2> SUFFICES ASSUME TypeOK, IInv, [Next]_vars
               PROVE  IInv'
    OBVIOUS
  <2>1. CASE Environment
    BY <2>1, QuietStep DEF Environment, Tick, SaveAutosBegins, SaveAutosEnds,
             OtherFileChanges, reload
  <2>2. CASE Monitor
    BY <2>2, QuietStep DEF Monitor, MonitorArms, MonitorReads, MonitorNotifies
  <2>3. CASE UNCHANGED vars
    BY <2>3, QuietStep DEF vars, reload
  <2> QED BY <2>1, <2>2, <2>3, DispatcherStep, RunStep, LoopStep DEF Next, Exited
<1> QED BY <1>1, <1>2, TypeCorrect, PTL DEF Spec

-----------------------------------------------------------------------------
(* What follows for the runner.                                            *)

\* An automation never has two script runs alive, however often the runner
\* reloads while one is on its way.
THEOREM MutualExclusion == Spec => []AtMostOneRun
BY Inductive, PTL DEF IInv

\* inFlight never keeps an id that no goroutine will delete.
THEOREM NoOrphanEntry == Spec => []InFlightOwned
BY Inductive, PTL DEF IInv

\* Without a reload triggerMu is enough: two threads meet on the maps only
\* when one of them outlived its generation.
THEOREM MapRaces == Spec => []MapRaceNeedsReload
<1>1. TypeOK /\ IInv => MapRaceNeedsReload
  <2> SUFFICES ASSUME TypeOK, IInv, MapRace
               PROVE  \E g \in Goroutines : RunHolds(g) /\ runs[g].gen < gen
    BY DEF MapRaceNeedsReload
  <2>1. \A g \in Goroutines : RunHolds(g) => runs[g].gen =< gen /\ runs[g].gen \in Nat
    BY DEF TypeOK, RunType, IInv, RunsOfThePast, RunHolds, Live
  <2>2. CASE \E g \in Goroutines : RunHolds(g) /\ DispatcherHolds
    BY <2>1, <2>2 DEF IInv, MutexExcludes, TypeOK
  <2>3. CASE \E g, h \in Goroutines : g # h /\ RunHolds(g) /\ RunHolds(h)
    <3> PICK g \in Goroutines, h \in Goroutines : g # h /\ RunHolds(g) /\ RunHolds(h)
      BY <2>3
    <3>1. runs[g].gen # runs[h].gen
      BY DEF IInv, MutexExcludes
    <3> QED BY <2>1, <3>1 DEF TypeOK
  <2> QED BY <2>2, <2>3 DEF MapRace
<1> QED BY <1>1, TypeCorrect, Inductive, PTL

-----------------------------------------------------------------------------
(* Refinement.  running is LiveSpecs; a start is a start, the deferred     *)
(* delete is the finish, the end of the process is Forget, and everything  *)
(* else is time passing or a stutter.                                      *)

\* Whatever leaves the clock, the runs and the starts alone is a stutter.
LEMMA Stutter ==
    ASSUME UNCHANGED <<now, runs, lastStart>>
    PROVE  [Trigger!Next]_(Trigger!vars)
BY DEF Trigger!vars, LiveSpecs, Live

\* A step of a run: the script and the lock are invisible.
LEMMA RunRefines ==
    ASSUME TypeOK, IInv, NEW g \in Goroutines, Run(g)
    PROVE  [Trigger!Next]_(Trigger!vars)
<1>1. CASE ScriptEnds(g) \/ LockFinish(g)
  <2>1. UNCHANGED <<now, lastStart>>
    BY <1>1 DEF ScriptEnds, LockFinish, environment
  <2>2. \A h \in Goroutines : runs'[h].spec = runs[h].spec /\ (Live(h)' <=> Live(h))
    BY <1>1 DEF ScriptEnds, LockFinish, TypeOK, RunType, Live
  <2> QED BY <2>1, <2>2 DEF LiveSpecs, Trigger!vars
<1>2. CASE FinishRun(g)
  <2>1. runs[g].spec \in LiveSpecs
    BY <1>2 DEF FinishRun, LiveSpecs, Live
  <2>2. LiveSpecs' = LiveSpecs \ {runs[g].spec}
    BY <1>2, FinishRemovesOne DEF IInv
  <2>3. UNCHANGED <<now, lastStart>>
    BY <1>2 DEF FinishRun, environment
  <2>4. Trigger!Finish(runs[g].spec)
    BY <2>1, <2>2, <2>3 DEF Trigger!Finish
  <2>5. runs[g].spec \in Specs
    BY <2>1 DEF IInv, InFlightOwned, TypeOK
  <2> QED BY <2>4, <2>5 DEF Trigger!Next
<1> QED BY <1>1, <1>2 DEF Run

\* A start: the debounce stamp is the time of the last start.
LEMMA StartRefines ==
    ASSUME TypeOK, IInv, NEW s \in Specs, NEW g \in Goroutines, StartRun(s, g)
    PROVE  Trigger!Start(s)
<1>1. s \notin LiveSpecs /\ LiveSpecs' = LiveSpecs \cup {s}
  BY StartAddsOne DEF StartRun, IInv, InFlightOwned
<1>2. now - lastStart[s] >= Debounce
  BY BoundsAssumption DEF StartRun, InWindow, IInv, StampIsStart, TypeOK
<1>3. lastStart' = [lastStart EXCEPT ![s] = now] /\ UNCHANGED now
  BY DEF StartRun, environment
<1> QED BY <1>1, <1>2, <1>3 DEF Trigger!Start

\* The end of the process.
LEMMA ForgetRefines ==
    ASSUME TypeOK, ForgetProcess, UNCHANGED environment
    PROVE  Trigger!Forget
BY FreshProcess DEF ForgetProcess, Trigger!Forget, Trigger!Never, Never, environment

\* The runner implements the trigger: with any number of automations, its
\* runs exclude each other and its starts keep the window, across reloads.
THEOREM Refinement == Spec => ImplementsTrigger
<1>1. Init => Trigger!Init
  BY DEF Init, Trigger!Init, Trigger!Never, Never, LiveSpecs, Live, Idle
<1>2. TypeOK /\ IInv /\ [Next]_vars => [Trigger!Next]_(Trigger!vars)
  <2> SUFFICES ASSUME TypeOK, IInv, [Next]_vars
               PROVE  [Trigger!Next]_(Trigger!vars)
    OBVIOUS
  <2>1. CASE Tick
    <3>1. Trigger!Pass
      BY <2>1 DEF Tick, Trigger!Pass, LiveSpecs, Live
    <3> QED BY <3>1 DEF Trigger!Next
  <2>2. CASE Environment /\ ~Tick
    BY <2>2, Stutter DEF Environment, SaveAutosBegins, SaveAutosEnds, OtherFileChanges
  <2>3. CASE Monitor
    BY <2>3, Stutter DEF Monitor, MonitorArms, MonitorReads, MonitorNotifies, environment
  <2>4. CASE Dispatcher
    <3>1. CASE EventArrives \/ WatchReturns \/ CallbackReturns
      BY <3>1, Stutter DEF EventArrives, WatchReturns, CallbackReturns, environment
    <3>2. ASSUME NEW s \in Specs, SkipSpec(s) \/ LockTrigger(s) \/ DropTrigger(s)
          PROVE  [Trigger!Next]_(Trigger!vars)
      BY <3>2, Stutter DEF SkipSpec, LockTrigger, DropTrigger, environment
    <3>3. ASSUME NEW s \in Specs, NEW g \in Goroutines, StartRun(s, g)
          PROVE  [Trigger!Next]_(Trigger!vars)
      BY <3>3, StartRefines DEF Trigger!Next
    <3> QED BY <2>4, <3>1, <3>2, <3>3 DEF Dispatcher, Callback
  <2>5. CASE \E g \in Goroutines : Run(g)
    BY <2>5, RunRefines
  <2>6. CASE NextGeneration
    BY <2>6, Stutter DEF NextGeneration, environment
  <2>7. CASE ExecSelf \/ LoopReturns \/ RuntimeThrows
    <3>1. ForgetProcess /\ UNCHANGED environment
      BY <2>7 DEF ExecSelf, LoopReturns, RuntimeThrows
    <3> QED BY <3>1, ForgetRefines DEF Trigger!Next
  <2>8. CASE UNCHANGED vars
    BY <2>8, Stutter DEF vars, environment
  <2> QED BY <2>1, <2>2, <2>3, <2>4, <2>5, <2>6, <2>7, <2>8 DEF Next, Loop, Exited
<1> QED BY <1>1, <1>2, TypeCorrect, Inductive, PTL
        DEF Spec, ImplementsTrigger, Trigger!Spec
=============================================================================
