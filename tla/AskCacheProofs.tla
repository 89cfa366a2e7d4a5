---------------------------- MODULE AskCacheProofs ----------------------------
(***************************************************************************)
(* For every set of processes, questions and answers of the model: what an *)
(* ask never executes, repeats or hides, what it takes to damage the cache *)
(* file, and that the file stays within its limits.                        *)
(***************************************************************************)
EXTENDS AskCache, FiniteSetTheorems, TLAPS

-----------------------------------------------------------------------------
(* Types.                                                                  *)

LEMMA PlanTypes ==
    /\ NoPlan \in PlanRecords
    /\ Plans \subseteq PlanRecords
    /\ \A script \in Scripts : FromCache(script) \in PlanRecords
BY PlansAssumption DEF NoPlan, NoScript, Scripts, PlanRecords, FromCache

LEMMA AskTypes ==
    /\ \A key \in Keys : NewAsk(key) \in AskRecords
    /\ \A q \in Prompts : Unborn(q) \in AskRecords
    /\ (CHOOSE q \in Prompts : TRUE) \in Prompts
<1>1. \A key \in Keys : NewAsk(key) \in AskRecords
  BY PlanTypes DEF NewAsk, AskRecords, Stages
<1>2. ASSUME NEW q \in Prompts PROVE Unborn(q) \in AskRecords
  <2>1. [prompt |-> q, retry |-> FALSE] \in Keys
    BY DEF Keys
  <2>2. NewAsk([prompt |-> q, retry |-> FALSE]) \in AskRecords
    BY <2>1, <1>1
  <2> QED BY <2>2 DEF Unborn, AskRecords, Stages
<1> QED BY <1>1, <1>2, AsksAssumption

LEMMA StageNames ==
    /\ "idle" \in Stages /\ "lookup" \in Stages /\ "model" \in Stages
    /\ "put" \in Stages /\ "write" \in Stages /\ "decide" \in Stages
    /\ "script" \in Stages /\ "actions" \in Stages
    /\ "success" \in Stages /\ "blocked" \in Stages /\ "error" \in Stages
BY DEF Stages, Outcomes

LEMMA BecomesTypes ==
    ASSUME ask \in [Asks -> AskRecords],
           NEW p \in Asks, NEW a \in AskRecords, Becomes(p, a)
    PROVE  ask' \in [Asks -> AskRecords]
BY DEF Becomes

LEMMA EndTypes ==
    ASSUME ask \in [Asks -> AskRecords],
           NEW p \in Asks, NEW outcome \in Stages, End(p, outcome)
    PROVE  ask' \in [Asks -> AskRecords]
<1>1. [ask[p] EXCEPT !.pc = outcome] \in AskRecords
  BY DEF AskRecords
<1> QED BY <1>1, BecomesTypes DEF End

LEMMA UpdateTypes ==
    ASSUME NEW a \in AskRecords, NEW x \in Nat, NEW y \in Nat
    PROVE  [a EXCEPT !.next = x, !.failed = y] \in AskRecords
BY DEF AskRecords

\* What a process looks into is what the disk or its memory held.
LEMMA CopyTypes ==
    ASSUME TypeOK, NEW p \in Asks
    PROVE  Copy(p) \in SUBSET Entries
BY DEF TypeOK, DiskRecords, AskRecords, Copy, Prune

\* What is written is made of what was read and of the entry just made.
LEMMA TrimTypes ==
    ASSUME NEW mem \in SUBSET Entries, NEW key \in Keys, NEW script \in Scripts,
           now \in Nat, NEW new \in Trim(Replace(mem, key, script))
    PROVE  /\ new \subseteq Replace(mem, key, script)
           /\ new \in SUBSET Entries
<1>1. new \subseteq Replace(mem, key, script)
  BY DEF Trim, kSubset
<1>2. Replace(mem, key, script) \subseteq Entries
  BY DEF Replace, Prune, Entries
<1> QED BY <1>1, <1>2

\* The disk, the clock and the processes keep the shape of the values they
\* stand for, whatever the model answers and however often.
THEOREM TypeCorrect == Spec => []TypeOK
<1>1. Init => TypeOK
  BY AskTypes DEF Init, TypeOK, Empty, DiskRecords
<1>2. TypeOK /\ [Next]_vars => TypeOK'
  <2> SUFFICES ASSUME TypeOK, [Next]_vars
               PROVE  TypeOK'
    OBVIOUS
  <2> USE DEF TypeOK
  <2>1. ASSUME NEW p \in Asks, NEW q \in Prompts, Begin(p, q)
        PROVE  TypeOK'
    <3>1. [prompt |-> q, retry |-> FALSE] \in Keys
      BY DEF Keys
    <3>2. NewAsk([prompt |-> q, retry |-> FALSE]) \in AskRecords
      BY <3>1, AskTypes
    <3> QED BY <2>1, <3>2, BecomesTypes DEF Begin
  <2>2. ASSUME NEW p \in Asks, Generate(p)
        PROVE  TypeOK'
    <3>1. CASE Hit(p)
      <4>1. PICK e \in Copy(p) :
               Becomes(p, [ask[p] EXCEPT !.pc = "decide", !.plan = FromCache(e.script),
                                         !.cached = TRUE, !.mem = {}])
        BY <3>1 DEF Hit
      <4>2. e \in Entries
        BY CopyTypes
      <4>3. FromCache(e.script) \in PlanRecords
        BY <4>2, PlanTypes DEF Entries
      <4>4. [ask[p] EXCEPT !.pc = "decide", !.plan = FromCache(e.script),
                           !.cached = TRUE, !.mem = {}] \in AskRecords
        BY <4>3, StageNames DEF AskRecords
      <4> QED BY <3>1, <4>1, <4>4, BecomesTypes DEF Hit
    <3>2. CASE Miss(p)
      <4>1. [ask[p] EXCEPT !.pc = "model", !.loaded = TRUE, !.mem = Copy(p)]
               \in AskRecords
        BY CopyTypes, StageNames DEF AskRecords
      <4> QED BY <3>2, <4>1, BecomesTypes DEF Miss
    <3>3. CASE LookupFails(p) \/ ModelFails(p) \/ PutFails(p)
      BY <3>3, StageNames, EndTypes DEF LookupFails, ModelFails, PutFails
    <3>4. ASSUME NEW plan \in Plans, ModelAnswers(p, plan) PROVE TypeOK'
      <4>1. [ask[p] EXCEPT !.pc = IF plan.scripted THEN "put" ELSE "decide",
                           !.plan = plan] \in AskRecords
        BY PlanTypes, StageNames DEF AskRecords
      <4> QED BY <3>4, <4>1, BecomesTypes DEF ModelAnswers
    <3>5. CASE PutBegins(p)
      <4>1. PICK mem \in Trim(Replace(ask[p].mem, ask[p].key, ask[p].plan.script)) :
               Becomes(p, [ask[p] EXCEPT !.pc = "write", !.mem = mem])
        BY <3>5 DEF PutBegins
      <4>2. ask[p].mem \in SUBSET Entries /\ ask[p].key \in Keys
               /\ ask[p].plan.script \in Scripts
        BY DEF AskRecords, PlanRecords
      <4>3. mem \in SUBSET Entries
        BY <4>1, <4>2, TrimTypes
      <4>4. [ask[p] EXCEPT !.pc = "write", !.mem = mem] \in AskRecords
        BY <4>3, StageNames DEF AskRecords
      <4>5. ask' \in [Asks -> AskRecords]
        BY <4>1, <4>4, BecomesTypes
      <4> QED BY <3>5, <4>5 DEF PutBegins, Truncated, DiskRecords
    <3>6. CASE PutEnds(p)
      <4>1. ask' \in [Asks -> AskRecords]
        BY <3>6, StageNames, EndTypes DEF PutEnds
      <4>2. disk' \in DiskRecords
        BY <3>6 DEF PutEnds, AskRecords, DiskRecords
      <4> QED BY <3>6, <4>1, <4>2 DEF PutEnds
    <3> QED BY <2>2, <3>1, <3>2, <3>3, <3>4, <3>5, <3>6 DEF Generate
  <2>3. ASSUME NEW p \in Asks, Conclude(p)
        PROVE  TypeOK'
    <3>1. UNCHANGED <<disk, now, crashes, mishap>>
      BY <2>3 DEF Conclude, AsksAgain, Blocks, AnswersOnly, Executes, ScriptOp,
                  ScriptSucceeds, ScriptFails, Action, ActionRefused, ActionsEnd
    <3> SUFFICES ask' \in [Asks -> AskRecords]
      BY <3>1
    <3>2. CASE AsksAgain(p)
      <4>1. [ask[p] EXCEPT !.pc = "lookup", !.key.retry = TRUE] \in AskRecords
        BY StageNames DEF AskRecords, Keys
      <4> QED BY <3>2, <4>1, BecomesTypes DEF AsksAgain
    <3>3. CASE Blocks(p) \/ AnswersOnly(p) \/ Executes(p) \/ ScriptSucceeds(p)
                 \/ ScriptFails(p) \/ ActionRefused(p) \/ ActionsEnd(p)
      BY <3>3, StageNames, EndTypes
         DEF Blocks, AnswersOnly, Executes, ScriptSucceeds, ScriptFails,
             ActionRefused, ActionsEnd
    <3>4. CASE ScriptOp(p)
      <4>1. [ask[p] EXCEPT !.done = @ + 1] \in AskRecords
        BY DEF AskRecords
      <4> QED BY <3>4, <4>1, BecomesTypes DEF ScriptOp
    <3>5. CASE Action(p)
      <4>1. PICK failed \in {0, 1} :
               Becomes(p, [ask[p] EXCEPT !.next = @ + 1, !.failed = @ + failed])
        BY <3>5 DEF Action
      <4>2. ask[p].next + 1 \in Nat /\ ask[p].failed + failed \in Nat
        BY DEF AskRecords
      <4>3. [ask[p] EXCEPT !.next = @ + 1, !.failed = @ + failed] \in AskRecords
        BY <4>2, UpdateTypes
      <4> QED BY <4>1, <4>3, BecomesTypes
    <3> QED BY <2>3, <3>2, <3>3, <3>4, <3>5 DEF Conclude
  <2>4. ASSUME NEW p \in Asks, Becomes(p, Unborn(CHOOSE q \in Prompts : TRUE))
        PROVE  ask' \in [Asks -> AskRecords]
    BY <2>4, AskTypes, BecomesTypes
  <2>5. ASSUME NEW p \in Asks, Exit(p)
        PROVE  TypeOK'
    BY <2>4, <2>5 DEF Exit
  <2>6. ASSUME NEW p \in Asks, Crash(p)
        PROVE  TypeOK'
    BY <2>4, <2>6 DEF Crash
  <2>7. CASE Rebuild
    <3>1. ask' \in [Asks -> AskRecords]
      BY <2>7, StageNames DEF Rebuild, AskRecords
    <3> QED BY <2>7, <3>1 DEF Rebuild, Empty, DiskRecords
  <2>8. CASE Tick
    BY <2>8 DEF Tick
  <2>9. CASE UNCHANGED vars
    BY <2>9 DEF vars
  <2> QED BY <2>1, <2>2, <2>3, <2>5, <2>6, <2>7, <2>8, <2>9 DEF Next
<1> QED BY <1>1, <1>2, PTL DEF Spec

-----------------------------------------------------------------------------
(* One ask.  Each part is about the record of a process alone, so a step   *)
(* of one process leaves the others as sound as they were.                 *)

\* A plan that came from the model carries its own flags in its script.
OwnFlags(a) ==
    a.plan.scripted /\ ~a.cached => a.plan.script.flagged = a.plan.flagged

\* What is executed is a script, of a plan that was not flagged.
NotBlocked(a) ==
    a.pc \in {"script", "actions"} => a.plan.scripted /\ ~a.plan.flagged

\* The list of actions comes after the script, and never after a strict one.
ActionsComeLast(a) ==
    /\ a.pc = "actions" => ~a.plan.script.strict
    /\ a.next > 0 => a.pc \in {"actions", "success", "error"}
    /\ a.next > 0 => ~a.plan.script.strict

\* Only actions that were tried can have failed, and some did not if the
\* ask succeeds after the list.
Counted(a) ==
    /\ a.failed =< a.next
    /\ a.pc = "success" /\ a.next > 0 => a.failed < a.next

Sound(a) ==
    /\ OwnFlags(a)
    /\ NotBlocked(a)
    /\ ActionsComeLast(a)
    /\ Counted(a)

AllSound == \A p \in Asks : Sound(ask[p])

LEMMA NewAskSound ==
    /\ \A key \in Keys : Sound(NewAsk(key))
    /\ Sound(Unborn(CHOOSE q \in Prompts : TRUE))
BY DEF Sound, OwnFlags, NotBlocked, ActionsComeLast, Counted, NewAsk, Unborn,
       NoPlan, NoScript

LEMMA BecomesSound ==
    ASSUME TypeOK, AllSound, NEW p \in Asks, NEW a, Sound(a), Becomes(p, a)
    PROVE  AllSound'
BY DEF TypeOK, AllSound, Becomes

LEMMA EndSound ==
    ASSUME TypeOK, AllSound, NEW p \in Asks, NEW outcome, End(p, outcome),
           Sound([ask[p] EXCEPT !.pc = outcome])
    PROVE  AllSound'
BY BecomesSound DEF End

LEMMA GenerateSound ==
    ASSUME TypeOK, AllSound, NEW p \in Asks, Generate(p)
    PROVE  AllSound'
<1> DEFINE r == ask[p]
<1>1. r \in AskRecords /\ Sound(r)
  BY DEF TypeOK, AllSound
<1>2. CASE Hit(p)
  <2>1. PICK e \in Copy(p) :
           Becomes(p, [r EXCEPT !.pc = "decide", !.plan = FromCache(e.script),
                                !.cached = TRUE, !.mem = {}])
    BY <1>2 DEF Hit
  <2>2. r.pc = "lookup"
    BY <1>2 DEF Hit, At
  <2>3. Sound([r EXCEPT !.pc = "decide", !.plan = FromCache(e.script),
                        !.cached = TRUE, !.mem = {}])
    BY <1>1, <2>2 DEF AskRecords, Sound, OwnFlags, NotBlocked, ActionsComeLast, Counted
  <2> QED BY <2>1, <2>3, BecomesSound
<1>3. CASE Miss(p)
  <2>1. Sound([r EXCEPT !.pc = "model", !.loaded = TRUE, !.mem = Copy(p)])
    BY <1>1, <1>3 DEF Miss, At, AskRecords, Sound, OwnFlags, NotBlocked,
                      ActionsComeLast, Counted
  <2> QED BY <1>3, <2>1, BecomesSound DEF Miss
<1>4. CASE LookupFails(p) \/ ModelFails(p) \/ PutFails(p)
  <2>1. Sound([r EXCEPT !.pc = "error"])
    BY <1>1 DEF AskRecords, Sound, OwnFlags, NotBlocked, ActionsComeLast, Counted
  <2> QED BY <1>4, <2>1, EndSound DEF LookupFails, ModelFails, PutFails
<1>5. ASSUME NEW plan \in Plans, ModelAnswers(p, plan) PROVE AllSound'
  <2>1. Sound([r EXCEPT !.pc = IF plan.scripted THEN "put" ELSE "decide",
                        !.plan = plan])
    BY <1>1, <1>5, PlansAssumption
       DEF ModelAnswers, At, AskRecords, Sound, OwnFlags, NotBlocked,
           ActionsComeLast, Counted
  <2> QED BY <1>5, <2>1, BecomesSound DEF ModelAnswers
<1>6. CASE PutBegins(p)
  <2>1. PICK mem \in Trim(Replace(r.mem, r.key, r.plan.script)) :
           Becomes(p, [r EXCEPT !.pc = "write", !.mem = mem])
    BY <1>6 DEF PutBegins
  <2>2. Sound([r EXCEPT !.pc = "write", !.mem = mem])
    BY <1>1, <1>6 DEF PutBegins, At, AskRecords, Sound, OwnFlags, NotBlocked,
                      ActionsComeLast, Counted
  <2> QED BY <2>1, <2>2, BecomesSound
<1>7. CASE PutEnds(p)
  <2>1. Sound([r EXCEPT !.pc = "decide"])
    BY <1>1, <1>7 DEF PutEnds, At, AskRecords, Sound, OwnFlags, NotBlocked,
                      ActionsComeLast, Counted
  <2> QED BY <1>7, <2>1, EndSound DEF PutEnds
<1> QED BY <1>2, <1>3, <1>4, <1>5, <1>6, <1>7 DEF Generate

LEMMA ConcludeSound ==
    ASSUME TypeOK, AllSound, NEW p \in Asks, Conclude(p)
    PROVE  AllSound'
<1> DEFINE r == ask[p]
<1>1. r \in AskRecords /\ Sound(r)
  BY DEF TypeOK, AllSound
<1> USE DEF AskRecords, PlanRecords, Scripts, Sound, OwnFlags, NotBlocked,
            ActionsComeLast, Counted, At
<1>2. CASE AsksAgain(p)
  <2>1. Sound([r EXCEPT !.pc = "lookup", !.key.retry = TRUE])
    BY <1>1, <1>2 DEF AsksAgain
  <2> QED BY <1>2, <2>1, BecomesSound DEF AsksAgain
<1>3. CASE Blocks(p)
  <2>1. Sound([r EXCEPT !.pc = "blocked"])
    BY <1>1, <1>3 DEF Blocks
  <2> QED BY <1>3, <2>1, EndSound DEF Blocks
<1>4. CASE AnswersOnly(p)
  <2>1. Sound([r EXCEPT !.pc = "success"]) /\ Sound([r EXCEPT !.pc = "error"])
    BY <1>1, <1>4 DEF AnswersOnly
  <2> QED BY <1>4, <2>1, EndSound DEF AnswersOnly
<1>5. CASE Executes(p)
  <2>1. Sound([r EXCEPT !.pc = "script"])
    BY <1>1, <1>5 DEF Executes, Blocked, Plan
  <2> QED BY <1>5, <2>1, EndSound DEF Executes
<1>6. CASE ScriptOp(p)
  <2>1. Sound([r EXCEPT !.done = @ + 1])
    BY <1>1 DEF ScriptOp
  <2> QED BY <1>6, <2>1, BecomesSound DEF ScriptOp
<1>7. CASE ScriptSucceeds(p)
  <2>1. Sound([r EXCEPT !.pc = "success"])
    BY <1>1, <1>7 DEF ScriptSucceeds
  <2> QED BY <1>7, <2>1, EndSound DEF ScriptSucceeds
<1>8. CASE ScriptFails(p)
  <2> DEFINE o == IF Strict(p) THEN "error" ELSE "actions"
  <2>1. Sound([r EXCEPT !.pc = o])
    BY <1>1, <1>8 DEF ScriptFails, Strict, Plan
  <2> QED BY <1>8, <2>1, EndSound DEF ScriptFails
<1>9. CASE Action(p)
  <2>1. PICK failed \in {0, 1} :
           Becomes(p, [r EXCEPT !.next = r.next + 1, !.failed = r.failed + failed])
    BY <1>9 DEF Action
  <2>2. Sound([r EXCEPT !.next = r.next + 1, !.failed = r.failed + failed])
    BY <1>1, <1>9 DEF Action
  <2> QED BY <2>1, <2>2, BecomesSound
<1>10. CASE ActionRefused(p)
  <2>1. Sound([r EXCEPT !.pc = "error"])
    BY <1>1, <1>10 DEF ActionRefused
  <2> QED BY <1>10, <2>1, EndSound DEF ActionRefused
<1>11. CASE ActionsEnd(p)
  <2> DEFINE o == IF Plan(p).actions > 0 /\ AllActionsFailed(p)
                  THEN "error" ELSE "success"
  <2>1. Sound([r EXCEPT !.pc = o])
    BY <1>1, <1>11 DEF ActionsEnd, AllActionsFailed, Plan
  <2> QED BY <1>11, <2>1, EndSound DEF ActionsEnd
<1> QED BY <1>2, <1>3, <1>4, <1>5, <1>6, <1>7, <1>8, <1>9, <1>10, <1>11 DEF Conclude

\* Every ask is sound at every moment.
THEOREM AsksAreSound == Spec => []AllSound
<1>1. Init => AllSound
  BY NewAskSound DEF Init, AllSound
<1>2. TypeOK /\ AllSound /\ [Next]_vars => AllSound'
  <2> SUFFICES ASSUME TypeOK, AllSound, [Next]_vars
               PROVE  AllSound'
    OBVIOUS
  <2>1. ASSUME NEW p \in Asks, NEW q \in Prompts, Begin(p, q)
        PROVE  AllSound'
    <3>1. [prompt |-> q, retry |-> FALSE] \in Keys
      BY DEF Keys
    <3> QED BY <2>1, <3>1, NewAskSound, BecomesSound DEF Begin
  <2>2. ASSUME NEW p \in Asks, Exit(p)
        PROVE  AllSound'
    BY <2>2, NewAskSound, BecomesSound DEF Exit
  <2>3. ASSUME NEW p \in Asks, Crash(p)
        PROVE  AllSound'
    BY <2>3, NewAskSound, BecomesSound DEF Crash
  <2>4. CASE Rebuild
    <3>1. ASSUME NEW p \in Asks, At(p, "write")
          PROVE  Sound([ask[p] EXCEPT !.pc = "decide"])
      BY <3>1 DEF TypeOK, AllSound, At, AskRecords, Sound, OwnFlags, NotBlocked,
                  ActionsComeLast, Counted
    <3> QED BY <2>4, <3>1 DEF Rebuild, AllSound
  <2>5. CASE Tick
    BY <2>5 DEF Tick, AllSound
  <2>6. CASE UNCHANGED vars
    BY <2>6 DEF vars, AllSound
  <2> QED BY <2>1, <2>2, <2>3, <2>4, <2>5, <2>6, GenerateSound, ConcludeSound DEF Next
<1> QED BY <1>1, <1>2, TypeCorrect, PTL DEF Spec

\* README, Notes: what an ask executes was not flagged by the model, unless
\* the script came from the cache, which keeps no flags.
THEOREM FlagsOutsideTheCache == Spec => []FlaggedRunsOnlyFromCache
<1>1. AllSound => FlaggedRunsOnlyFromCache
  BY DEF AllSound, Sound, OwnFlags, NotBlocked, FlaggedRunsOnlyFromCache, Executing,
         Plan, At
<1> QED BY <1>1, AsksAreSound, PTL

\* A conditional or live script is never followed by the plan's actions.
THEOREM ConditionalOnce == Spec => []ConditionalNeverRepeats
<1>1. TypeOK /\ AllSound => ConditionalNeverRepeats
  BY DEF TypeOK, AskRecords, AllSound, Sound, ActionsComeLast,
         ConditionalNeverRepeats, Plan
<1> QED BY <1>1, TypeCorrect, AsksAreSound, PTL

\* An ask whose actions all failed does not succeed.
THEOREM FailuresReach == Spec => []FailureReported
<1>1. AllSound => FailureReported
  BY DEF AllSound, Sound, Counted, FailureReported, At
<1> QED BY <1>1, AsksAreSound, PTL

-----------------------------------------------------------------------------
(* The file.  As long as nothing has gone wrong, whoever truncated it is   *)
(* still there to write it, and is the only one.                           *)

FileHealth ==
    mishap = {} =>
        \/ disk.state = "ok" /\ \A q \in Asks : ~At(q, "write")
        \/ disk.state = "empty"
           /\ \E p \in Asks : \A q \in Asks : At(q, "write") <=> q = p

\* Steps of processes that neither begin nor end a write.
LEMMA NoWriteStep ==
    ASSUME TypeOK, FileHealth, UNCHANGED <<disk, mishap>>,
           NEW p \in Asks, NEW a \in AskRecords, Becomes(p, a),
           ~At(p, "write"), a.pc # "write"
    PROVE  FileHealth'
<1>1. \A q \in Asks : At(q, "write")' <=> At(q, "write")
  BY DEF TypeOK, Becomes, At
<1> QED BY <1>1 DEF FileHealth

LEMMA GenerateHealth ==
    ASSUME TypeOK, FileHealth, NEW p \in Asks, Generate(p)
    PROVE  FileHealth'
<1> DEFINE r == ask[p]
<1>1. r \in AskRecords
  BY DEF TypeOK
<1>2. CASE Hit(p)
  <2>1. PICK e \in Copy(p) :
           Becomes(p, [r EXCEPT !.pc = "decide", !.plan = FromCache(e.script),
                                !.cached = TRUE, !.mem = {}])
    BY <1>2 DEF Hit
  <2>2. \A q \in Asks : At(q, "write")' <=> At(q, "write")
    BY <1>1, <1>2, <2>1 DEF Hit, TypeOK, AskRecords, Becomes, At
  <2> QED BY <1>2, <2>2 DEF Hit, FileHealth
<1>3. CASE Miss(p)
  <2>1. \A q \in Asks : At(q, "write")' <=> At(q, "write")
    BY <1>1, <1>3 DEF Miss, TypeOK, AskRecords, Becomes, At
  <2> QED BY <1>3, <2>1 DEF Miss, FileHealth
<1>4. CASE LookupFails(p) \/ ModelFails(p) \/ PutFails(p)
  <2>1. \A q \in Asks : At(q, "write")' <=> At(q, "write")
    BY <1>1, <1>4 DEF LookupFails, ModelFails, PutFails, End, TypeOK, AskRecords,
                      Becomes, At
  <2> QED BY <1>4, <2>1 DEF LookupFails, ModelFails, PutFails, FileHealth
<1>5. ASSUME NEW plan \in Plans, ModelAnswers(p, plan) PROVE FileHealth'
  <2>1. \A q \in Asks : At(q, "write")' <=> At(q, "write")
    BY <1>1, <1>5 DEF ModelAnswers, TypeOK, AskRecords, Becomes, At
  <2> QED BY <1>5, <2>1 DEF ModelAnswers, FileHealth
<1>6. CASE PutBegins(p)
  <2>1. PICK mem : Becomes(p, [r EXCEPT !.pc = "write", !.mem = mem])
    BY <1>6 DEF PutBegins
  <2>2. \A q \in Asks : At(q, "write")' <=> q = p \/ At(q, "write")
    BY <1>1, <2>1 DEF TypeOK, AskRecords, Becomes, At
  <2>3. mishap' = {} => mishap = {} /\ \A q \in Asks : ~At(q, "write")
    BY <1>6 DEF PutBegins
  <2>4. disk'.state = "empty"
    BY <1>6 DEF PutBegins, Truncated
  <2> QED BY <2>2, <2>3, <2>4 DEF FileHealth
<1>7. CASE PutEnds(p)
  <2>1. \A q \in Asks : At(q, "write")' <=> q # p /\ At(q, "write")
    BY <1>1, <1>7 DEF PutEnds, End, TypeOK, AskRecords, Becomes, At
  <2>2. At(p, "write") /\ mishap' = mishap
    BY <1>7 DEF PutEnds
  <2>3. \/ disk'.state = "ok"
        \/ disk.state # "empty"
    BY <1>7 DEF PutEnds
  <2> QED BY <2>1, <2>2, <2>3 DEF FileHealth
<1> QED BY <1>2, <1>3, <1>4, <1>5, <1>6, <1>7 DEF Generate

LEMMA ConcludeHealth ==
    ASSUME TypeOK, FileHealth, NEW p \in Asks, Conclude(p)
    PROVE  FileHealth'
<1> DEFINE r == ask[p]
<1>1. r \in AskRecords
  BY DEF TypeOK
<1>2. r.pc \in {"decide", "script", "actions"}
  BY DEF Conclude, AsksAgain, Blocks, AnswersOnly, Executes, ScriptOp, ScriptSucceeds,
         ScriptFails, Action, ActionRefused, ActionsEnd, At
<1>3. UNCHANGED <<disk, mishap>>
  BY DEF Conclude, AsksAgain, Blocks, AnswersOnly, Executes, ScriptOp, ScriptSucceeds,
         ScriptFails, Action, ActionRefused, ActionsEnd
<1>4. PICK a : Becomes(p, a) /\ a.pc # "write"
  <2>1. CASE AsksAgain(p) \/ ScriptOp(p) \/ Action(p)
    <3>1. /\ [r EXCEPT !.pc = "lookup", !.key.retry = TRUE].pc # "write"
          /\ [r EXCEPT !.done = @ + 1].pc # "write"
          /\ \A f : [r EXCEPT !.next = @ + 1, !.failed = @ + f].pc # "write"
      BY <1>1, <1>2 DEF AskRecords
    <3> QED BY <2>1, <3>1 DEF AsksAgain, ScriptOp, Action
  <2>2. ASSUME NEW o \in {"success", "blocked", "error", "script", "actions"}, End(p, o)
        PROVE  \E a : Becomes(p, a) /\ a.pc # "write"
    BY <1>1, <2>2 DEF End, AskRecords
  <2> QED BY <2>1, <2>2 DEF Conclude, Blocks, AnswersOnly, Executes, ScriptSucceeds,
                            ScriptFails, ActionRefused, ActionsEnd
<1>5. \A q \in Asks : At(q, "write")' <=> At(q, "write")
  BY <1>2, <1>4 DEF TypeOK, Becomes, At
<1> QED BY <1>3, <1>5 DEF FileHealth

\* The health of the file and the mishaps that are needed to lose it.
THEOREM OneWriter == Spec => []FileHealth
<1>1. Init => FileHealth
  BY DEF Init, FileHealth, Empty, At, Unborn, NewAsk
<1>2. TypeOK /\ FileHealth /\ [Next]_vars => FileHealth'
  <2> SUFFICES ASSUME TypeOK, FileHealth, [Next]_vars
               PROVE  FileHealth'
    OBVIOUS
  <2>1. ASSUME NEW p \in Asks, NEW q \in Prompts, Begin(p, q)
        PROVE  FileHealth'
    <3>1. NewAsk([prompt |-> q, retry |-> FALSE]).pc = "lookup"
      BY DEF NewAsk
    <3>2. NewAsk([prompt |-> q, retry |-> FALSE]) \in AskRecords
      BY AskTypes DEF Keys
    <3>3. ~At(p, "write") /\ UNCHANGED <<disk, mishap>>
      BY <2>1 DEF Begin, At
    <3> QED BY <2>1, <3>1, <3>2, <3>3, NoWriteStep DEF Begin
  <2> DEFINE new == Unborn(CHOOSE q \in Prompts : TRUE)
  <2>2. new \in AskRecords /\ new.pc = "idle"
    BY AskTypes DEF Unborn, NewAsk
  <2>3. ASSUME NEW p \in Asks, Exit(p)
        PROVE  FileHealth'
    <3>1. ~At(p, "write") /\ UNCHANGED <<disk, mishap>>
      BY <2>3 DEF Exit, Finished, At
    <3> QED BY <2>2, <2>3, <3>1, NoWriteStep DEF Exit
  <2>4. ASSUME NEW p \in Asks, Crash(p)
        PROVE  FileHealth'
    <3>1. CASE At(p, "write")
      BY <2>4, <3>1 DEF Crash, FileHealth
    <3>2. CASE ~At(p, "write")
      <4>1. UNCHANGED <<disk, mishap>>
        BY <2>4, <3>2 DEF Crash
      <4> QED BY <2>2, <2>4, <3>2, <4>1, NoWriteStep DEF Crash
    <3> QED BY <3>1, <3>2
  <2>5. CASE Rebuild
    <3>1. \A q \in Asks : ~At(q, "write")'
      BY <2>5 DEF Rebuild, TypeOK, AskRecords, At
    <3> QED BY <2>5, <3>1 DEF Rebuild, Empty, FileHealth
  <2>6. CASE Tick
    BY <2>6 DEF Tick, FileHealth, At
  <2>7. CASE UNCHANGED vars
    BY <2>7 DEF vars, FileHealth, At
  <2> QED BY <2>1, <2>3, <2>4, <2>5, <2>6, <2>7, GenerateHealth, ConcludeHealth DEF Next
<1> QED BY <1>1, <1>2, TypeCorrect, PTL DEF Spec

\* A file that cannot be parsed is being written, or somebody was killed in
\* a write, or two writes overlapped.
THEOREM DamageIsExplained == Spec => []DamageNeedsMishap
<1>1. FileHealth => DamageNeedsMishap
  BY DEF FileHealth, DamageNeedsMishap
<1> QED BY <1>1, OneWriter, PTL

-----------------------------------------------------------------------------
(* The limits of the file.                                                 *)

\* At most MaxEntries entries, and one answer per question.
WithinLimits(entries) ==
    /\ IsFiniteSet(entries)
    /\ Cardinality(entries) =< MaxEntries
    /\ \A d, e \in entries : d.key = e.key => d = e

CacheWithinLimits ==
    /\ WithinLimits(disk.entries)
    /\ \A p \in Asks : WithinLimits(ask[p].mem)

LEMMA NothingWithinLimits == WithinLimits({})
<1>1. IsFiniteSet({}) /\ Cardinality({}) = 0
  BY FS_EmptySet
<1> QED BY <1>1, LimitsAssumption DEF WithinLimits

LEMMA SubsetWithinLimits ==
    ASSUME NEW entries, NEW part \in SUBSET entries, WithinLimits(entries)
    PROVE  WithinLimits(part)
<1>1. IsFiniteSet(part) /\ Cardinality(part) =< Cardinality(entries)
  BY FS_Subset DEF WithinLimits
<1>2. Cardinality(part) \in Nat /\ Cardinality(entries) \in Nat
  BY <1>1, FS_CardinalityType DEF WithinLimits
<1> QED BY <1>1, <1>2, LimitsAssumption DEF WithinLimits

\* put keeps the limits: it replaces the entry of the key, then trims.
LEMMA PutWithinLimits ==
    ASSUME NEW entries, NEW key, NEW script, WithinLimits(entries),
           NEW new \in Trim(Replace(entries, key, script))
    PROVE  WithinLimits(new)
<1> DEFINE others == {e \in Prune(entries) : e.key # key}
           entry == [key |-> key, script |-> script, at |-> now]
           all == Replace(entries, key, script)
<1>1. all = others \cup {entry}
  BY DEF Replace
<1>2. WithinLimits(others)
  BY SubsetWithinLimits DEF Prune
<1>3. IsFiniteSet(all)
  <2>1. IsFiniteSet(others)
    BY <1>2 DEF WithinLimits
  <2>2. IsFiniteSet(others \cup {entry})
    BY <2>1, FS_AddElement
  <2> QED BY <1>1, <2>2
<1>4. \A d, e \in all : d.key = e.key => d = e
  BY <1>1, <1>2 DEF WithinLimits
<1>5. new \subseteq all /\ Cardinality(new) =< MaxEntries
  <2>1. CASE Cardinality(all) =< MaxEntries
    BY <2>1 DEF Trim
  <2>2. CASE ~(Cardinality(all) =< MaxEntries)
    <3>1. new \in kSubset(MaxEntries, all)
      BY <2>2 DEF Trim
    <3> QED BY <3>1, LimitsAssumption DEF kSubset
  <2> QED BY <2>1, <2>2
<1>6. IsFiniteSet(new)
  BY <1>3, <1>5, FS_Subset
<1> QED BY <1>4, <1>5, <1>6 DEF WithinLimits

LEMMA CopyWithinLimits ==
    ASSUME CacheWithinLimits, NEW p \in Asks
    PROVE  WithinLimits(Copy(p))
BY SubsetWithinLimits DEF CacheWithinLimits, Copy, Prune

LEMMA BecomesWithinLimits ==
    ASSUME TypeOK, CacheWithinLimits, NEW p \in Asks, NEW a, Becomes(p, a),
           WithinLimits(a.mem), disk'.entries \in {disk.entries, {}}
    PROVE  CacheWithinLimits'
<1>1. \A q \in Asks : WithinLimits(ask'[q].mem)
  BY DEF TypeOK, CacheWithinLimits, Becomes
<1>2. WithinLimits(disk'.entries)
  BY NothingWithinLimits DEF CacheWithinLimits
<1> QED BY <1>1, <1>2 DEF CacheWithinLimits, WithinLimits

LEMMA EndWithinLimits ==
    ASSUME TypeOK, CacheWithinLimits, NEW p \in Asks, NEW outcome, End(p, outcome),
           UNCHANGED disk
    PROVE  CacheWithinLimits'
<1>1. WithinLimits([ask[p] EXCEPT !.pc = outcome].mem)
  BY DEF TypeOK, AskRecords, CacheWithinLimits
<1> QED BY <1>1, BecomesWithinLimits DEF End

\* Whatever the processes do, the file and every copy of it hold at most
\* MaxEntries entries and no two for one question: get finds at most one.
THEOREM CacheBounded == Spec => []CacheWithinLimits
<1>1. Init => CacheWithinLimits
  <2> SUFFICES ASSUME Init PROVE CacheWithinLimits
    OBVIOUS
  <2>1. disk.entries = {}
    BY DEF Init, Empty
  <2>2. \A p \in Asks : ask[p].mem = {}
    BY DEF Init, Unborn, NewAsk
  <2> QED BY <2>1, <2>2, NothingWithinLimits DEF CacheWithinLimits
<1>2. TypeOK /\ CacheWithinLimits /\ [Next]_vars => CacheWithinLimits'
  <2> SUFFICES ASSUME TypeOK, CacheWithinLimits, [Next]_vars
               PROVE  CacheWithinLimits'
    OBVIOUS
  <2>1. ASSUME NEW p \in Asks, NEW q \in Prompts, Begin(p, q)
        PROVE  CacheWithinLimits'
    <3>1. NewAsk([prompt |-> q, retry |-> FALSE]).mem = {}
      BY DEF NewAsk
    <3> QED BY <2>1, <3>1, NothingWithinLimits, BecomesWithinLimits DEF Begin
  <2>2. ASSUME NEW p \in Asks, Generate(p)
        PROVE  CacheWithinLimits'
    <3> DEFINE r == ask[p]
    <3>1. r \in AskRecords /\ WithinLimits(r.mem)
      BY DEF TypeOK, CacheWithinLimits
    <3>2. CASE Hit(p)
      <4>1. PICK e \in Copy(p) :
               Becomes(p, [r EXCEPT !.pc = "decide", !.plan = FromCache(e.script),
                                    !.cached = TRUE, !.mem = {}])
        BY <3>2 DEF Hit
      <4>2. [r EXCEPT !.pc = "decide", !.plan = FromCache(e.script),
                      !.cached = TRUE, !.mem = {}].mem = {}
        BY <3>1 DEF AskRecords
      <4> QED BY <3>2, <4>1, <4>2, NothingWithinLimits, BecomesWithinLimits DEF Hit
    <3>3. CASE Miss(p)
      <4>1. [r EXCEPT !.pc = "model", !.loaded = TRUE, !.mem = Copy(p)].mem = Copy(p)
        BY <3>1 DEF AskRecords
      <4> QED BY <3>3, <4>1, CopyWithinLimits, BecomesWithinLimits DEF Miss
    <3>4. CASE LookupFails(p) \/ ModelFails(p) \/ PutFails(p)
      BY <3>4, EndWithinLimits DEF LookupFails, ModelFails, PutFails
    <3>5. ASSUME NEW plan \in Plans, ModelAnswers(p, plan) PROVE CacheWithinLimits'
      <4>1. [r EXCEPT !.pc = IF plan.scripted THEN "put" ELSE "decide",
                      !.plan = plan].mem = r.mem
        BY <3>1 DEF AskRecords
      <4> QED BY <3>1, <3>5, <4>1, BecomesWithinLimits DEF ModelAnswers
    <3>6. CASE PutBegins(p)
      <4>1. PICK mem \in Trim(Replace(r.mem, r.key, r.plan.script)) :
               Becomes(p, [r EXCEPT !.pc = "write", !.mem = mem])
        BY <3>6 DEF PutBegins
      <4>2. [r EXCEPT !.pc = "write", !.mem = mem].mem = mem
        BY <3>1 DEF AskRecords
      <4>3. WithinLimits(mem)
        BY <3>1, <4>1, PutWithinLimits
      <4>4. disk'.entries = {}
        BY <3>6 DEF PutBegins, Truncated
      <4> QED BY <4>1, <4>2, <4>3, <4>4, BecomesWithinLimits
    <3>7. CASE PutEnds(p)
      <4>1. disk'.entries \in {r.mem, {}}
        BY <3>7 DEF PutEnds
      <4>2. WithinLimits(disk'.entries)
        BY <3>1, <4>1, NothingWithinLimits
      <4>3. \A q \in Asks : ask'[q].mem = ask[q].mem
        BY <3>1, <3>7 DEF PutEnds, End, Becomes, TypeOK, AskRecords
      <4>4. \A q \in Asks : WithinLimits(ask'[q].mem)
        BY <4>3 DEF CacheWithinLimits
      <4> QED BY <4>2, <4>4 DEF CacheWithinLimits, WithinLimits
    <3> QED BY <2>2, <3>2, <3>3, <3>4, <3>5, <3>6, <3>7 DEF Generate
  <2>3. ASSUME NEW p \in Asks, Conclude(p)
        PROVE  CacheWithinLimits'
    <3> DEFINE r == ask[p]
    <3>1. r \in AskRecords /\ WithinLimits(r.mem)
      BY DEF TypeOK, CacheWithinLimits
    <3>2. UNCHANGED disk
      BY <2>3 DEF Conclude, AsksAgain, Blocks, AnswersOnly, Executes, ScriptOp,
                  ScriptSucceeds, ScriptFails, Action, ActionRefused, ActionsEnd
    <3>3. CASE AsksAgain(p) \/ ScriptOp(p) \/ Action(p)
      <4>1. /\ [r EXCEPT !.pc = "lookup", !.key.retry = TRUE].mem = r.mem
            /\ [r EXCEPT !.done = @ + 1].mem = r.mem
            /\ \A f : [r EXCEPT !.next = @ + 1, !.failed = @ + f].mem = r.mem
        BY <3>1 DEF AskRecords
      <4> QED BY <3>1, <3>2, <3>3, <4>1, BecomesWithinLimits DEF AsksAgain, ScriptOp, Action
    <3>4. CASE ~(AsksAgain(p) \/ ScriptOp(p) \/ Action(p))
      BY <2>3, <3>2, <3>4, EndWithinLimits
         DEF Conclude, Blocks, AnswersOnly, Executes, ScriptSucceeds, ScriptFails,
             ActionRefused, ActionsEnd
    <3> QED BY <3>3, <3>4
  <2>4. ASSUME NEW p \in Asks, Exit(p) \/ Crash(p)
        PROVE  CacheWithinLimits'
    <3>1. Unborn(CHOOSE q \in Prompts : TRUE).mem = {}
      BY DEF Unborn, NewAsk
    <3> QED BY <2>4, <3>1, NothingWithinLimits, BecomesWithinLimits DEF Exit, Crash
  <2>5. CASE Rebuild
    <3>1. \A q \in Asks : ask'[q].mem = ask[q].mem
      BY <2>5 DEF Rebuild, TypeOK, AskRecords
    <3>2. \A q \in Asks : WithinLimits(ask'[q].mem)
      BY <3>1 DEF CacheWithinLimits
    <3>3. WithinLimits(disk'.entries)
      BY <2>5, NothingWithinLimits DEF Rebuild, Empty
    <3> QED BY <3>2, <3>3 DEF CacheWithinLimits, WithinLimits
  <2>6. CASE Tick
    BY <2>6 DEF Tick, CacheWithinLimits, WithinLimits
  <2>7. CASE UNCHANGED vars
    BY <2>7 DEF vars, CacheWithinLimits, WithinLimits
  <2> QED BY <2>1, <2>2, <2>3, <2>4, <2>5, <2>6, <2>7 DEF Next
<1> QED BY <1>1, <1>2, TypeCorrect, PTL DEF Spec
=============================================================================
