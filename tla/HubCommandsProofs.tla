-------------------------- MODULE HubCommandsProofs --------------------------
(***************************************************************************)
(* For every set of processes, specifications, speakers and commands: what *)
(* autos.json holds, which scenes are on the hub, and on which speakers a  *)
(* command has sounded.                                                    *)
(***************************************************************************)
EXTENDS HubCommands, FiniteSetTheorems, TLAPS

-----------------------------------------------------------------------------
(* Types of the hub: every number a process holds is one that was given.   *)

Causes == {"lost", "undeleted", "killed", "left", "overlapped", "unsaved"}

BoundsOK == started \in Nat /\ troubles \in Nat /\ mishaps \subseteq Causes

ScenesOK ==
    /\ made \in Nat
    /\ scenes \subseteq [id : SceneIds, of : Specs \cup {Temp}]
    /\ \A x \in scenes : x.id <= made /\ x.id \notin removed
    /\ removed \subseteq 0 .. made
    /\ unnamed \subseteq [id : 1 .. made, of : Specs \cup {Temp}]

\* The command about an automation that a process can be at.
Suited(r, top) ==
    /\ r.target <= top
    /\ r.op = "unscene" <=> r.pc = "unscene"
    /\ r.pc \in {"post", "save", "write"} => r.op \in {"add", "apply", "delete"}
    /\ r.pc = "post" => r.op = "apply" /\ Form[r.spec] = "scene"
    /\ r.op = "add" => Form[r.spec] # "scene"

Given ==
    /\ \A p \in AutoProcs : Suited(auto[p], made)
    /\ \A p \in SoundProcs : sound[p].scene <= made

LEMMA TypesParted ==
    TypeOK <=> AutosTypeOK /\ SoundTypeOK /\ BoundsOK /\ ScenesOK
BY DEF TypeOK, BoundsOK, ScenesOK, Causes

LEMMA StartTypes == BoundsOK /\ StartCommand => BoundsOK'
BY DEF BoundsOK, StartCommand

LEMMA MishapTypes ==
    ASSUME BoundsOK, NEW kinds \in SUBSET Causes, Mishap(kinds)
    PROVE  BoundsOK' /\ mishaps \subseteq mishaps'
BY DEF BoundsOK, Mishap

LEMMA AnswerTypes ==
    ASSUME BoundsOK, NEW o \in PostOutcomes, Answered(o)
    PROVE  BoundsOK' /\ mishaps \subseteq mishaps' /\ (o = "lost" => "lost" \in mishaps')
<1>1. {"lost"} \cap {o} \in SUBSET Causes
  BY DEF Causes
<1>2. CASE o = "ok"
  BY <1>2 DEF Answered, BoundsOK, bounds
<1>3. CASE o # "ok"
  BY <1>1, <1>3, MishapTypes DEF Answered, Mishap
<1> QED BY <1>2, <1>3

LEMMA CreateTypes ==
    ASSUME BoundsOK, ScenesOK, NEW of \in Specs \cup {Temp}, NEW o \in PostOutcomes,
           CreateScene(of, o)
    PROVE  /\ BoundsOK' /\ ScenesOK'
           /\ mishaps \subseteq mishaps' /\ (o = "lost" => "lost" \in mishaps')
           /\ made' \in Nat /\ made <= made' /\ removed' = removed
           /\ scenes \subseteq scenes'
           /\ \A x \in scenes' : x \in scenes \/ (o # "refused" /\ x = [id |-> made + 1, of |-> of])
           /\ o \in {"ok", "blank"} => made' = made + 1 /\ [id |-> made + 1, of |-> of] \in scenes'
           /\ unnamed \subseteq unnamed'
           /\ o = "blank" => [id |-> made + 1, of |-> of] \in unnamed'
<1>1. BoundsOK' /\ mishaps \subseteq mishaps' /\ (o = "lost" => "lost" \in mishaps')
  BY AnswerTypes DEF CreateScene
<1>2. CASE o = "refused"
  BY <1>1, <1>2 DEF CreateScene, ScenesOK
<1>3. CASE o # "refused"
  <2>1. /\ made' = made + 1 /\ removed' = removed
        /\ scenes' = scenes \cup {[id |-> made + 1, of |-> of]}
        /\ unnamed' = IF o = "blank" THEN unnamed \cup {[id |-> made + 1, of |-> of]} ELSE unnamed
    BY <1>3 DEF CreateScene
  <2>2. unnamed' \subseteq [id : 1 .. made', of : Specs \cup {Temp}]
    <3>1. made \in Nat /\ \A x \in 1 .. made : x \in 1 .. made + 1
      BY DEF ScenesOK
    <3>2. [id |-> made + 1, of |-> of] \in [id : 1 .. made + 1, of : Specs \cup {Temp}]
      BY <3>1
    <3> QED BY <2>1, <3>1, <3>2 DEF ScenesOK
  <2>3. ScenesOK'
    BY <2>1, <2>2 DEF ScenesOK, SceneIds
  <2> QED BY <1>1, <1>3, <2>1, <2>3 DEF ScenesOK
<1> QED BY <1>2, <1>3

LEMMA DeleteTypes ==
    ASSUME BoundsOK, ScenesOK, NEW id \in Nat, id <= made, NEW o \in Outcomes,
           DeleteScene(id, o)
    PROVE  /\ BoundsOK' /\ ScenesOK'
           /\ mishaps \subseteq mishaps' /\ (o = "refused" => "undeleted" \in mishaps')
           /\ made' = made /\ removed \subseteq removed' /\ scenes' \subseteq scenes
           /\ \A x \in scenes \ scenes' : x.id \in removed'
           /\ o # "refused" => \A x \in scenes' : x.id # id
           /\ unnamed' = unnamed
<1>1. BoundsOK' /\ mishaps \subseteq mishaps' /\ (o = "refused" => "undeleted" \in mishaps')
  <2>1. CASE o = "refused"
    <3>1. {"undeleted"} \in SUBSET Causes
      BY DEF Causes
    <3> QED BY <2>1, <3>1, MishapTypes DEF DeleteScene, Mishap
  <2>2. CASE o # "refused"
    BY <2>2, AnswerTypes DEF DeleteScene, PostOutcomes
  <2> QED BY <2>1, <2>2
<1>2. ScenesOK'
  BY DEF DeleteScene, ScenesOK
<1> QED BY <1>1, <1>2 DEF DeleteScene

-----------------------------------------------------------------------------
(* Types of the commands about automations.                                *)

LEMMA AutoIdleType == AutoIdle \in AutoRecords /\ AutoIdle.target = 0
<1>1. [s \in Specs |-> Absent] \in Stores
  BY DEF Stores, Absent, Statuses
<1>2. (CHOOSE s \in Specs : TRUE) \in Specs
  BY FormAssumption
<1> QED BY <1>1, <1>2 DEF AutoIdle, AutoRecords

LEMMA MarkedType ==
    ASSUME NEW specs \in Stores, NEW op \in {"delete", "add", "apply"}, NEW s \in Specs
    PROVE  [specs EXCEPT ![s] = Marked(@, op, s)] \in Stores
<1>1. specs[s] \in [status : Statuses, notes : SUBSET SceneIds]
  BY DEF Stores
<1>2. Marked(specs[s], op, s) \in [status : Statuses, notes : SUBSET SceneIds]
  BY <1>1 DEF Marked, Absent, Statuses
<1> QED BY <1>2 DEF Stores

LEMMA NotedType ==
    ASSUME NEW specs \in Stores, NEW s \in Specs, NEW id \in SceneIds
    PROVE  Noted(specs, s, id) \in Stores
BY DEF Stores, Noted

LEMMA DoTypes ==
    ASSUME AutosTypeOK, NEW p \in AutoProcs, NEW r \in AutoRecords, Do(p, r)
    PROVE  auto' \in [AutoProcs -> AutoRecords]
BY DEF AutosTypeOK, Do

LEMMA AutoTypes ==
    ASSUME TypeOK, Given, NEW p \in AutoProcs, AutoStep(p)
    PROVE  /\ AutosTypeOK' /\ BoundsOK' /\ ScenesOK'
           /\ made <= made' /\ \A q \in AutoProcs : Suited(auto'[q], made')
<1> DEFINE r == auto[p]
           Fits(n) == n \in AutoRecords /\ Suited(n, made')
           Typed == AutosTypeOK' /\ \A q \in AutoProcs : Suited(auto'[q], made')
<1>1. AutosTypeOK /\ BoundsOK /\ ScenesOK
  BY TypesParted
<1>2. /\ r \in AutoRecords /\ r.target \in Nat /\ Suited(r, made) /\ r.spec \in Specs
      /\ r.copy \in Stores /\ made \in Nat /\ r.op \in {"add", "apply", "delete", "list", "unscene"}
  BY <1>1 DEF Given, AutosTypeOK, AutoRecords, ScenesOK
<1>3. ASSUME NEW n, Do(p, n), Fits(n), made <= made', made' \in Nat,
             file' = file, owed' = owed
      PROVE  Typed
  <2>1. auto' \in [AutoProcs -> AutoRecords]
    BY <1>1, <1>3, DoTypes
  <2>2. \A q \in AutoProcs : auto[q].target \in Nat /\ Suited(auto[q], made)
    BY <1>1 DEF Given, AutosTypeOK, AutoRecords
  <2>3. \A q \in AutoProcs : auto'[q] = IF q = p THEN n ELSE auto[q]
    BY <1>1, <1>3 DEF AutosTypeOK, Do
  <2>4. \A q \in AutoProcs : Suited(auto'[q], made')
    BY <1>2, <1>3, <2>2, <2>3 DEF Suited
  <2> QED BY <1>1, <1>3, <2>1, <2>4 DEF AutosTypeOK
<1>0. made' = made => made <= made' /\ made' \in Nat
  BY <1>2
<1>4. ASSUME made <= made', made' \in Nat PROVE Fits(AutoIdle)
  BY <1>2, <1>4, AutoIdleType DEF AutoIdle, Suited
<1> SUFFICES Typed /\ BoundsOK' /\ ScenesOK' /\ made <= made'
  OBVIOUS
<1> HIDE DEF Fits, Typed
<1>5. ASSUME NEW job \in AutoJobs[p], BeginAuto(p, job)
      PROVE  Typed /\ BoundsOK' /\ ScenesOK' /\ made <= made'
  <2>1. BoundsOK' /\ ScenesOK' /\ made' = made
    BY <1>1, <1>5, StartTypes DEF BeginAuto, hub, ScenesOK
  <2>2. job.op \in {"add", "apply", "delete", "list", "unscene"} /\ job.spec \in Specs
    BY AutoJobsAssumption
  <2>3. file' = file /\ owed' = owed /\ made <= made' /\ made' \in Nat
    BY <1>0, <1>5, <2>1 DEF BeginAuto
  <2>5. job.op = "add" => Form[job.spec] # "scene"
    BY <1>5 DEF BeginAuto
  <2>4. PICK n : Do(p, n) /\ Fits(n)
    <3>1. CASE job.op = "unscene"
      <4>1. PICK x \in scenes : Do(p, [AutoIdle EXCEPT !.pc = "unscene", !.op = "unscene",
                                                       !.target = x.id])
        BY <1>5, <3>1 DEF BeginAuto
      <4>2. x.id \in Nat /\ x.id <= made
        BY <1>1 DEF ScenesOK, SceneIds
      <4>3. Fits([AutoIdle EXCEPT !.pc = "unscene", !.op = "unscene", !.target = x.id])
        BY <2>1, <4>2, AutoIdleType DEF AutoRecords, Fits, Suited
      <4> QED BY <4>1, <4>3
    <3>2. CASE job.op # "unscene"
      <4>1. Fits([AutoIdle EXCEPT !.pc = "load", !.op = job.op, !.spec = job.spec])
        <5> DEFINE n == [AutoIdle EXCEPT !.pc = "load", !.op = job.op, !.spec = job.spec]
        <5>1. n \in AutoRecords
          BY <2>2, AutoIdleType DEF AutoRecords
        <5>2. n.pc = "load" /\ n.op = job.op /\ n.spec = job.spec /\ n.target = 0
          BY AutoIdleType DEF AutoRecords
        <5> HIDE DEF n
        <5>3. Suited(n, made')
          BY <2>3, <2>5, <3>2, <5>2 DEF Suited
        <5>4. Fits(n)
          BY <5>1, <5>3 DEF Fits
        <5> QED BY <5>4 DEF n
      <4>2. Do(p, [AutoIdle EXCEPT !.pc = "load", !.op = job.op, !.spec = job.spec])
        BY <1>5, <3>2 DEF BeginAuto
      <4> QED BY <4>1, <4>2
    <3> QED BY <3>1, <3>2
  <2> QED BY <1>3, <2>1, <2>3, <2>4
<1>6. CASE LoadAutos(p)
  <2>1. BoundsOK' /\ ScenesOK' /\ made' = made
    BY <1>1, <1>6 DEF LoadAutos, hub, bounds, ScenesOK, BoundsOK
  <2> DEFINE changed == [file.specs EXCEPT ![r.spec] = Marked(@, r.op, r.spec)]
             pc == IF r.op = "apply" /\ Form[r.spec] = "scene" THEN "post" ELSE "save"
  <2>2. Do(p, AutoIdle) \/ (r.op # "list" /\ Do(p, [r EXCEPT !.pc = pc, !.copy = changed]))
    BY <1>6 DEF LoadAutos, Loaded
  <2>3. r.pc = "load" /\ file' = file /\ owed' = owed /\ made <= made' /\ made' \in Nat
    BY <1>2, <1>6, <2>1 DEF LoadAutos
  <2>4. r.op \in {"add", "delete", "apply", "list"}
    BY <1>2, <2>3 DEF Suited
  <2>5. ASSUME r.op \in {"add", "delete", "apply"}
        PROVE  Fits([r EXCEPT !.pc = pc, !.copy = changed])
    <3>1. changed \in Stores
      BY <1>1, <1>2, <2>5, MarkedType DEF AutosTypeOK
    <3> HIDE DEF changed
    <3> QED BY <1>2, <2>1, <2>5, <3>1 DEF AutoRecords, Fits, Suited
  <2>6. PICK n : Do(p, n) /\ Fits(n)
    BY <1>4, <2>2, <2>3, <2>4, <2>5
  <2>7. Typed
    BY <1>3, <2>3, <2>6
  <2> QED BY <2>1, <2>3, <2>7
<1>7. ASSUME NEW o \in PostOutcomes, ApplyScene(p, o)
      PROVE  Typed /\ BoundsOK' /\ ScenesOK' /\ made <= made'
  <2>1. BoundsOK' /\ ScenesOK' /\ made' \in Nat /\ made <= made'
    BY <1>1, <1>2, <1>7, CreateTypes DEF ApplyScene
  <2>2. file' = file /\ owed' = owed
    BY <1>7 DEF ApplyScene
  <2> DEFINE noted == IF o = "ok" THEN Noted(r.copy, r.spec, made + 1) ELSE r.copy
  <2>3. Do(p, AutoIdle) \/ Do(p, [r EXCEPT !.pc = "save", !.copy = noted])
    BY <1>7 DEF ApplyScene
  <2>4. noted \in Stores
    BY <1>2, NotedType DEF SceneIds
  <2>5. r.pc = "post"
    BY <1>7 DEF ApplyScene
  <2> HIDE DEF noted
  <2>6. Fits([r EXCEPT !.pc = "save", !.copy = noted])
    <3> DEFINE n == [r EXCEPT !.pc = "save", !.copy = noted]
    <3>1. n \in AutoRecords
      BY <1>2, <2>4 DEF AutoRecords
    <3>2. n.pc = "save" /\ n.op = r.op /\ n.spec = r.spec /\ n.target = r.target
      BY <1>2 DEF AutoRecords
    <3> HIDE DEF n
    <3>3. Suited(n, made')
      BY <1>2, <2>1, <2>5, <3>2 DEF Suited
    <3>4. Fits(n)
      BY <3>1, <3>3 DEF Fits
    <3> QED BY <3>4 DEF n
  <2> QED BY <1>3, <1>4, <2>1, <2>2, <2>3, <2>6
<1>8. ASSUME NEW o \in Outcomes, DeleteSceneByName(p, o)
      PROVE  Typed /\ BoundsOK' /\ ScenesOK' /\ made <= made'
  <2>1. BoundsOK' /\ ScenesOK' /\ made' = made
    BY <1>1, <1>2, <1>8, DeleteTypes DEF DeleteSceneByName, Suited
  <2> QED BY <1>2, <1>3, <1>4, <1>8, <2>1 DEF DeleteSceneByName
<1>9. CASE TruncateAutos(p)
  <2>1. BoundsOK' /\ ScenesOK' /\ made' = made
    BY <1>1, <1>9 DEF TruncateAutos, hub, ScenesOK, BoundsOK, Causes
  <2>2. \A q \in AutoProcs : /\ auto[q] \in AutoRecords /\ Suited(auto[q], made)
                             /\ [auto[q] EXCEPT !.stale = TRUE] \in AutoRecords
                             /\ Suited([auto[q] EXCEPT !.stale = TRUE], made')
    BY <1>1, <2>1 DEF AutosTypeOK, AutoRecords, Given, Suited
  <2>3. [r EXCEPT !.pc = "write"] \in AutoRecords /\ Suited([r EXCEPT !.pc = "write"], made')
    BY <1>2, <1>9, <2>1 DEF TruncateAutos, AutoRecords, Suited
  <2>4. \A q \in AutoProcs : Suited(auto'[q], made')
    BY <1>9, <2>1, <2>2, <2>3 DEF TruncateAutos, Suited
  <2>5. auto' \in [AutoProcs -> AutoRecords]
    BY <1>9, <2>2, <2>3 DEF TruncateAutos
  <2>6. file' \in [ok : BOOLEAN, specs : Stores] /\ owed' = owed
    BY <1>1, <1>9 DEF TruncateAutos, AutosTypeOK
  <2> QED BY <1>1, <1>2, <2>1, <2>4, <2>5, <2>6 DEF AutosTypeOK, Typed
<1>10. ASSUME NEW garbled \in BOOLEAN, WriteAutos(p, garbled)
       PROVE  Typed /\ BoundsOK' /\ ScenesOK' /\ made <= made'
  <2>1. BoundsOK' /\ ScenesOK' /\ made' = made
    BY <1>1, <1>10 DEF WriteAutos, hub, bounds, ScenesOK, BoundsOK
  <2>2. \A q \in AutoProcs : /\ auto[q] \in AutoRecords /\ Suited(auto[q], made)
                             /\ [auto[q] EXCEPT !.overtaken = TRUE] \in AutoRecords
                             /\ Suited([auto[q] EXCEPT !.overtaken = TRUE], made')
    BY <1>1, <2>1 DEF AutosTypeOK, AutoRecords, Given, Suited
  <2>3. AutoIdle \in AutoRecords /\ Suited(AutoIdle, made')
    BY <1>2, <1>4, <2>1 DEF Fits
  <2>4. \A q \in AutoProcs : Suited(auto'[q], made')
    BY <1>10, <2>1, <2>2, <2>3 DEF WriteAutos, Suited
  <2>5. auto' \in [AutoProcs -> AutoRecords]
    BY <1>10, <2>2, <2>3 DEF WriteAutos
  <2>6. file' \in [ok : BOOLEAN, specs : Stores]
    BY <1>2, <1>10 DEF WriteAutos
  <2>7. owed' \subseteq Specs
    BY <1>1, <1>2, <1>10 DEF WriteAutos, AutosTypeOK
  <2> QED BY <1>2, <2>1, <2>4, <2>5, <2>6, <2>7 DEF AutosTypeOK, Typed
<1>11. CASE KillAuto(p)
  <2>1. BoundsOK'
    <3>1. {"killed"} \in SUBSET Causes
      BY DEF Causes
    <3> QED BY <1>1, <1>11, <3>1, MishapTypes DEF KillAuto
  <2>2. ScenesOK' /\ made' = made
    BY <1>1, <1>11 DEF KillAuto, hub, ScenesOK
  <2>3. Do(p, AutoIdle) /\ file' = file /\ owed' = owed
    BY <1>11 DEF KillAuto
  <2> QED BY <1>0, <1>3, <1>4, <2>1, <2>2, <2>3
<1>12. CASE SaveFails(p)
  <2>1. BoundsOK'
    <3>1. {"unsaved"} \in SUBSET Causes
      BY DEF Causes
    <3> QED BY <1>1, <1>12, <3>1, MishapTypes DEF SaveFails
  <2>2. ScenesOK' /\ made' = made
    BY <1>1, <1>12 DEF SaveFails, hub, ScenesOK
  <2>3. Do(p, AutoIdle) /\ file' = file /\ owed' = owed
    BY <1>12 DEF SaveFails
  <2> QED BY <1>0, <1>3, <1>4, <2>1, <2>2, <2>3
<1> QED BY <1>5, <1>6, <1>7, <1>8, <1>9, <1>10, <1>11, <1>12 DEF AutoStep

-----------------------------------------------------------------------------
(* What resolveSpeakerTargets finds: each speaker once, and somebody.      *)

TargetRecords == [place : Nat, spk : Speakers]
Once(targets) == \A t, u \in targets : t.spk = u.spk => t = u
Queries == Seq(DOMAIN Names \cup {All})

LEMMA ResolvedTypes ==
    ASSUME NEW entries \in SUBSET Speakers, NEW by, NEW parts \in Queries
    PROVE  Resolved(entries, by, parts) \subseteq TargetRecords
<1>1. \A i \in DOMAIN parts : i \in Nat /\ Chosen(entries, by, parts[i]) \subseteq entries
  BY DEF Chosen, Matches, Queries
<1>2. \A i \in DOMAIN parts : Targets(i, Chosen(entries, by, parts[i])) \subseteq TargetRecords
  BY <1>1 DEF Targets, TargetRecords
<1> QED BY <1>2 DEF Resolved, Deduped

LEMMA ResolvedOnce ==
    ASSUME NEW entries \in SUBSET Speakers, NEW by, NEW parts \in Queries
    PROVE  Once(Resolved(entries, by, parts))
<1>1. \A t, u \in Resolved(entries, by, parts) :
         t.spk = u.spk => t.place <= u.place /\ u.place <= t.place
  BY DEF Resolved, Deduped
<1> QED BY <1>1, ResolvedTypes DEF Once, TargetRecords

LEMMA ResolvedSome ==
    ASSUME NEW entries \in SUBSET Speakers, NEW by, NEW parts \in Queries,
           Resolves(entries, by, parts)
    PROVE  Resolved(entries, by, parts) # {}
<1> DEFINE all == UNION {Targets(i, Chosen(entries, by, parts[i])) : i \in DOMAIN parts}
<1>1. 1 \in DOMAIN parts /\ \A i \in DOMAIN parts : i \in Nat /\ 1 <= i
  BY DEF Resolves, Queries
<1>2. Chosen(entries, by, parts[1]) # {}
  <2>1. CASE parts[1] = All
    BY <1>1, <2>1 DEF Resolves, Chosen
  <2>2. CASE parts[1] # All
    <3>1. Cardinality(Matches(entries, by, parts[1])) = 1
      BY <1>1, <2>2 DEF Resolves
    <3>2. Matches(entries, by, parts[1]) # {}
      BY <3>1, FS_EmptySet
    <3> QED BY <2>2, <3>2 DEF Chosen
  <2> QED BY <2>1, <2>2
<1>3. PICK s \in Chosen(entries, by, parts[1]) : TRUE
  BY <1>2
<1>4. [place |-> 1, spk |-> s] \in all
  BY <1>1, <1>3 DEF Targets
<1>5. \A u \in all : 1 <= u.place
  BY <1>1 DEF Targets
<1> HIDE DEF all
<1>6. [place |-> 1, spk |-> s] \in Deduped(all)
  BY <1>4, <1>5 DEF Deduped
<1> QED BY <1>6 DEF Resolved, all

LEMMA LocalTargets ==
    LET t == Targets(0, OfKind({"local"}))
    IN t \subseteq TargetRecords /\ Once(t) /\ t # {}
<1>1. OfKind({"local"}) # {}
  BY KindAssumption, FS_EmptySet
<1> DEFINE t == Targets(0, OfKind({"local"}))
<1>2. t = {[place |-> 0, spk |-> s] : s \in OfKind({"local"})}
  BY DEF Targets
<1>3. t \subseteq TargetRecords
  BY <1>2 DEF TargetRecords, OfKind
<1>4. Once(t)
  BY <1>2 DEF Once
<1>5. t # {}
  BY <1>1, <1>2
<1> QED BY <1>3, <1>4, <1>5

-----------------------------------------------------------------------------
(* The state of one command that plays.                                    *)

Early == {"idle", "cache", "snapshot", "search", "again", "fresh"}
Plays == {"play", "post", "trigger", "delete"}

\* A scene of its own from the creation to the deletion.
Housed(r, top) == (HasTemp(r) <=> r.scene # 0) /\ r.scene <= top

InQueue(r, s) == \E t \in r.queue : t.spk = s

\* It is still to sound on s.
Due(r, s) == InQueue(r, s) \/ (s \in r.hubs /\ r.pc \in {"play", "post", "trigger"})

\* What was heard and what is still to be heard, once for each attempt.
Counted(r) ==
    /\ Once(r.queue) /\ \A t \in r.queue : t.spk \notin r.hubs
    /\ \A s \in Speakers : r.heard[s] + (IF Due(r, s) THEN 1 ELSE 0)
                              <= IF r.again THEN 2 ELSE 1
    /\ r.fromCache \/ r.pc = "cache" => ~r.again
    /\ r.pc \in Early => /\ r.queue = {} /\ r.hubs = {} /\ ~r.fromCache
                         /\ \A s \in Speakers : r.heard[s] <= IF r.again THEN 1 ELSE 0
    /\ r.pc \in {"post", "trigger", "delete"} => r.queue = {}

\* Who plays has found its words in the list as it saw it.
Clear(r, there) ==
    r.parts # <<>> /\ ~r.blind /\ (r.pc \in Plays \/ \E s \in Speakers : r.heard[s] > 0)
    => Resolves(there, r.by, r.parts)

\* What PlayFile returned before the end of its Load.
Unsure(r, s) == Kind[s] = "cast" /\ s \in r.unsure

\* Success is not reported before every target was heard, or as good as.
Served(r, s) ==
    \/ r.heard[s] > 0
    \/ Due(r, s)
    \/ r.pc = "delete" /\ r.erred
    \/ Unsure(r, s)

Succeeds(r, there) ==
    \/ r.targets # {} /\ \A s \in r.targets \cap there : r.heard[s] > 0 \/ Unsure(r, s)
    \/ r.targets = {} /\ r.nilErr

Told(r, there) ==
    ~Async(r) =>
        /\ r.pc # "ended" => r.said = "nothing"
        /\ r.pc \in {"idle", "snapshot", "fresh"} => r.targets = {}
        /\ r.pc \in Plays => r.targets # {} /\ \A s \in r.targets \cap there : Served(r, s)
        /\ r.said = "ok" => Succeeds(r, there)

Sane(r, top, there) ==
    r \in SoundRecords /\ Housed(r, top) /\ Counted(r) /\ Clear(r, there) /\ Told(r, there)

LEMMA IdleSane ==
    ASSUME NEW by \in {"sound", "media", "id", "name"},
           NEW who \in {"cli", "ask", "run", "test"}, NEW parts \in Queries,
           NEW pc \in Early, NEW top \in Nat
    PROVE  Sane([[SoundIdle EXCEPT !.by = by, !.who = who, !.parts = parts] EXCEPT !.pc = pc], top, live)
<1> DEFINE n == [[SoundIdle EXCEPT !.by = by, !.who = who, !.parts = parts] EXCEPT !.pc = pc]
<1>1. n \in SoundRecords
  BY DEF SoundIdle, SoundRecords, Queries, Early
<1>2. /\ n.pc \in Early /\ n.queue = {} /\ n.hubs = {} /\ n.scene = 0
      /\ n.fromCache = FALSE /\ n.again = FALSE
      /\ n.said = "nothing" /\ n.targets = {} /\ \A s \in Speakers : n.heard[s] = 0
  BY DEF SoundIdle
<1> HIDE DEF n
<1>3. Housed(n, top)
  BY <1>2 DEF Housed, HasTemp, Early
<1>4. Counted(n)
  BY <1>2 DEF Counted, Once, Due, InQueue, Early
<1>5. Clear(n, live)
  BY <1>2 DEF Clear, Early, Plays
<1>6. Told(n, live)
  BY <1>2 DEF Told, Early, Plays
<1>7. Sane(n, top, live)
  BY <1>1, <1>3, <1>4, <1>5, <1>6 DEF Sane
<1> QED BY <1>7 DEF n

LEMMA BlindSane ==
    ASSUME NEW r, NEW top, Sane(r, top, live), NEW b \in BOOLEAN
    PROVE  Sane([r EXCEPT !.blind = @ \/ b], top, live)
<1> DEFINE n == [r EXCEPT !.blind = @ \/ b]
<1>1. n \in SoundRecords
  BY DEF Sane, SoundRecords
<1>2. /\ n.pc = r.pc /\ n.by = r.by /\ n.who = r.who /\ n.parts = r.parts
      /\ n.fromCache = r.fromCache /\ n.queue = r.queue /\ n.hubs = r.hubs /\ n.scene = r.scene
      /\ n.erred = r.erred /\ n.nilErr = r.nilErr /\ n.said = r.said /\ n.targets = r.targets
      /\ n.heard = r.heard /\ n.unsure = r.unsure /\ n.again = r.again
      /\ (r.blind => n.blind)
  BY DEF Sane, SoundRecords
<1> HIDE DEF n
<1>3. Housed(n, top) /\ Counted(n)
  BY <1>2 DEF Sane, Housed, HasTemp, Counted, Due, InQueue
<1>4. Clear(n, live)
  BY <1>2 DEF Sane, Clear
<1>5. Told(n, live)
  BY <1>2 DEF Sane, Told, Served, Unsure, Due, InQueue, Succeeds, Async
<1>6. Sane(n, top, live)
  BY <1>1, <1>3, <1>4, <1>5 DEF Sane
<1> QED BY <1>6 DEF n

\* It begins to play on what the words named in a list.
LEMMA PlayingSane ==
    ASSUME NEW r, NEW top, Sane(r, top, live), r.pc \in Early,
           NEW targets \in SUBSET TargetRecords, Once(targets), targets # {},
           r.parts # <<>> /\ ~r.blind => Resolves(live, r.by, r.parts),
           NEW cached \in BOOLEAN, cached => ~r.again
    PROVE  Sane([Playing(r, targets) EXCEPT !.fromCache = cached], top, live)
<1> DEFINE n == [Playing(r, targets) EXCEPT !.fromCache = cached]
           spks == {t.spk : t \in targets}
<1>0. r \in SoundRecords /\ spks \in SUBSET Speakers
  BY DEF Sane, TargetRecords
<1>1. n \in SoundRecords
  <2> DEFINE told == IF Async(r) THEN "ok" ELSE r.said
  <2>1. told \in {"nothing", "ok", "error", "killed"}
    BY <1>0 DEF SoundRecords
  <2>2. targets \in SUBSET [place : Nat, spk : Speakers]
    BY DEF TargetRecords
  <2> HIDE DEF told, spks
  <2>3. [[r EXCEPT !.pc = "play", !.queue = targets, !.targets = spks, !.hubs = {},
                   !.erred = FALSE, !.said = told] EXCEPT !.fromCache = cached] \in SoundRecords
    BY <1>0, <2>1, <2>2 DEF SoundRecords
  <2> QED BY <1>0, <2>3 DEF Playing, told, spks, SoundRecords
<1>2. /\ n.pc = "play" /\ n.by = r.by /\ n.who = r.who /\ n.parts = r.parts
      /\ n.fromCache = cached /\ n.queue = targets /\ n.hubs = {} /\ n.scene = r.scene
      /\ (~Async(r) => n.said = r.said) /\ n.targets = spks
      /\ n.heard = r.heard /\ n.unsure = r.unsure /\ n.again = r.again /\ n.blind = r.blind
  BY <1>0 DEF SoundRecords, Playing
<1> HIDE DEF n
<1>3. Housed(n, top)
  BY <1>2 DEF Sane, Housed, HasTemp, Early
<1>4. Counted(n)
  <2>1. \A s \in Speakers : r.heard[s] \in Nat /\ r.heard[s] <= IF r.again THEN 1 ELSE 0
    BY <1>0 DEF Sane, Counted, SoundRecords
  <2>2. \A s \in Speakers : r.heard[s] + 1 <= (IF r.again THEN 2 ELSE 1)
                            /\ r.heard[s] + 0 <= (IF r.again THEN 2 ELSE 1)
    BY <2>1
  <2>3. \A t \in n.queue : t.spk \notin n.hubs
    BY <1>2
  <2> QED BY <1>2, <2>2, <2>3 DEF Counted, Early
<1>5. Clear(n, live)
  BY <1>2 DEF Clear
<1>6. Told(n, live)
  <2>1. ~Async(r) => r.said = "nothing"
    BY DEF Sane, Told, Early
  <2>2. \A s \in spks : Served(n, s)
    BY <1>2 DEF Served, Due, InQueue
  <2>3. spks # {}
    OBVIOUS
  <2>4. Async(n) <=> Async(r)
    BY <1>2 DEF Async
  <2> HIDE DEF spks
  <2> QED BY <1>2, <2>1, <2>2, <2>3, <2>4 DEF Told
<1>7. Sane(n, top, live)
  BY <1>1, <1>3, <1>4, <1>5, <1>6 DEF Sane
<1> QED BY <1>7 DEF n

\* It plays what a search found, never from the cache.
LEMMA FoundSane ==
    ASSUME NEW r, NEW top, Sane(r, top, live), r.pc \in Early,
           NEW targets \in SUBSET TargetRecords, Once(targets), targets # {},
           r.parts # <<>> /\ ~r.blind => Resolves(live, r.by, r.parts)
    PROVE  Sane(Playing(r, targets), top, live)
<1>1. r \in SoundRecords /\ r.fromCache = FALSE
  BY DEF Sane, Counted, SoundRecords
<1>2. [Playing(r, targets) EXCEPT !.fromCache = FALSE] = Playing(r, targets)
  BY <1>1 DEF SoundRecords, Playing
<1>3. Sane([Playing(r, targets) EXCEPT !.fromCache = FALSE], top, live)
  BY PlayingSane
<1> QED BY <1>2, <1>3

LEMMA EndedSane ==
    ASSUME NEW r, NEW top \in Nat, r \in SoundRecords, Counted(r), Clear(r, live),
           NEW said \in {"ok", "error", "killed"},
           ~Async(r) /\ said = "ok" => Succeeds(r, live)
    PROVE  Sane(Ended(r, said), top, live)
<1> DEFINE n == Ended(r, said)
<1>1. n \in SoundRecords
  <2> DEFINE told == IF Async(r) /\ r.said = "ok" THEN r.said ELSE said
  <2>1. told \in {"nothing", "ok", "error", "killed"}
    BY DEF SoundRecords
  <2> HIDE DEF told
  <2>2. [r EXCEPT !.pc = "ended", !.queue = {}, !.hubs = {}, !.scene = 0, !.erred = FALSE,
                  !.said = told] \in SoundRecords
    BY <2>1 DEF SoundRecords
  <2> QED BY <2>2 DEF Ended, told, SoundRecords
<1>2. /\ n.pc = "ended" /\ n.by = r.by /\ n.who = r.who /\ n.parts = r.parts
      /\ n.fromCache = r.fromCache /\ n.queue = {} /\ n.hubs = {} /\ n.scene = 0
      /\ (~Async(r) => n.said = said) /\ n.targets = r.targets /\ n.nilErr = r.nilErr
      /\ n.heard = r.heard /\ n.unsure = r.unsure /\ n.again = r.again /\ n.blind = r.blind
  BY DEF SoundRecords, Ended
<1> HIDE DEF n
<1>3. Housed(n, top)
  BY <1>2 DEF Housed, HasTemp
<1>4. Counted(n)
  <2>1. \A s \in Speakers : r.heard[s] \in Nat
    BY DEF SoundRecords
  <2>2. \A s \in Speakers : r.heard[s] <= IF r.again THEN 2 ELSE 1
    BY <2>1 DEF Counted
  <2>3. \A s \in Speakers : ~Due(n, s)
    BY <1>2 DEF Due, InQueue
  <2>4. (r.fromCache => ~r.again) /\ Once(n.queue)
    BY <1>2 DEF Counted, Once
  <2> QED BY <1>2, <2>1, <2>2, <2>3, <2>4 DEF Counted, Early
<1>5. Clear(n, live)
  BY <1>2 DEF Clear, Plays
<1>6. Told(n, live)
  BY <1>2 DEF Told, Plays, Succeeds, Unsure, Async
<1>7. Sane(n, top, live)
  BY <1>1, <1>3, <1>4, <1>5, <1>6 DEF Sane
<1> QED BY <1>7 DEF n

\* Whatever of its targets is unheard: a failure asks nothing of that.
LEMMA FailedSane ==
    ASSUME NEW r, NEW top \in Nat, r \in SoundRecords, Counted(r), Clear(r, live),
           ~Async(r) => r.said = "nothing"
    PROVE  Sane(Failed(r), top, live)
<1>1. CASE ~r.fromCache
  BY <1>1, EndedSane DEF Failed
<1>2. CASE r.fromCache
  <2> DEFINE n == Failed(r)
  <2>1. n \in SoundRecords
    BY <1>2 DEF SoundRecords, Failed
  <2>2. /\ n.pc = "search" /\ n.by = r.by /\ n.who = r.who /\ n.parts = r.parts
        /\ n.fromCache = FALSE /\ n.queue = {} /\ n.hubs = {} /\ n.scene = 0
        /\ n.said = r.said /\ n.heard = r.heard /\ n.again = TRUE /\ n.blind = r.blind
    BY <1>2 DEF SoundRecords, Failed
  <2> HIDE DEF n
  <2>3. Housed(n, top)
    BY <2>2 DEF Housed, HasTemp
  <2>4. Counted(n)
    <3>1. \A s \in Speakers : r.heard[s] \in Nat
      BY DEF SoundRecords
    <3>2. \A s \in Speakers : r.heard[s] <= 1
      BY <1>2, <3>1 DEF Counted
    <3>3. \A s \in Speakers : ~Due(n, s)
      BY <2>2 DEF Due, InQueue
    <3>4. Once(n.queue)
      BY <2>2 DEF Once
    <3> QED BY <2>2, <3>1, <3>2, <3>3, <3>4 DEF Counted
  <2>5. Clear(n, live)
    BY <2>2 DEF Clear, Plays
  <2>6. Told(n, live)
    BY <2>2 DEF Told, Plays, Async
  <2>7. Sane(n, top, live)
    BY <2>1, <2>3, <2>4, <2>5, <2>6 DEF Sane
  <2> QED BY <2>7 DEF n
<1> QED BY <1>1, <1>2

-----------------------------------------------------------------------------
(* Every step of a command that plays keeps it so.                         *)

SoundSane ==
    /\ live \subseteq Speakers /\ known \subseteq Speakers
    /\ sound \in [SoundProcs -> SoundRecords]
    /\ \A p \in SoundProcs : Sane(sound[p], made, live)

LEMMA HousedStays ==
    ASSUME NEW r, NEW top \in Nat, NEW more \in Nat, top <= more, Sane(r, top, live)
    PROVE  Sane(r, more, live)
BY DEF Sane, Housed, SoundRecords

LEMMA NowSane ==
    ASSUME SoundSane, NEW p \in SoundProcs, NEW n, Now(p, n), Sane(n, made', live),
           live' = live, known' \subseteq Speakers,
           made \in Nat, made' \in Nat, made <= made'
    PROVE  SoundSane'
<1>1. \A q \in SoundProcs : sound'[q] = IF q = p THEN n ELSE sound[q]
  BY DEF SoundSane, Now
<1>2. \A q \in SoundProcs : Sane(sound[q], made', live)
  BY HousedStays DEF SoundSane
<1>3. \A q \in SoundProcs : Sane(sound'[q], made', live')
  BY <1>1, <1>2
<1>4. sound' \in [SoundProcs -> SoundRecords]
  BY DEF SoundSane, Now, Sane
<1>5. (\A q \in SoundProcs : Sane(sound[q], made, live))'
  BY <1>3
<1>6. live' \subseteq Speakers
  BY DEF SoundSane
<1> QED BY <1>4, <1>5, <1>6 DEF SoundSane

LEMMA SoundStays ==
    ASSUME SoundSane, UNCHANGED soundVars, made \in Nat, made' \in Nat, made <= made'
    PROVE  SoundSane'
<1>1. \A q \in SoundProcs : Sane(sound[q], made', live)
  BY HousedStays DEF SoundSane
<1>2. live' = live /\ known' = known /\ sound' = sound
  BY DEF soundVars
<1>3. \A q \in SoundProcs : Sane(sound'[q], made', live')
  BY <1>1, <1>2
<1>4. (\A q \in SoundProcs : Sane(sound[q], made, live))'
  BY <1>3
<1> QED BY <1>2, <1>4 DEF SoundSane

\* One command is where it was found, and nothing changes but it.
Alone == SoundSane /\ made \in Nat /\ UNCHANGED <<live, made>>

LEMMA AloneSane ==
    ASSUME Alone, known' \subseteq Speakers, NEW p \in SoundProcs, NEW n, Now(p, n), Sane(n, made, live)
    PROVE  SoundSane'
<1>1. made' \in Nat /\ made <= made' /\ made' = made
  BY DEF Alone
<1> QED BY <1>1, NowSane DEF Alone

LEMMA BeginKeeps ==
    ASSUME Alone, NEW p \in SoundProcs, NEW job \in SoundJobs[p], BeginSound(p, job)
    PROVE  SoundSane'
<1>1. /\ job.by \in {"sound", "media", "id", "name"} /\ job.who \in {"cli", "ask", "run", "test"}
      /\ job.parts \in Queries
  BY SoundJobsAssumption DEF Queries
<1>2. made \in Nat /\ known' \subseteq Speakers
  BY DEF Alone, SoundSane, BeginSound
<1> DEFINE r == [SoundIdle EXCEPT !.by = job.by, !.who = job.who, !.parts = job.parts]
<1>3. \A pc \in Early : Sane([r EXCEPT !.pc = pc], made, live)
  BY <1>1, <1>2, IdleSane
<1>4. r \in SoundRecords /\ r.pc = "idle" /\ r.parts = job.parts
  BY <1>1 DEF SoundIdle, SoundRecords, Queries
<1>5. r = [r EXCEPT !.pc = "idle"]
  <2> HIDE DEF r
  <2> QED BY <1>4 DEF SoundRecords
<1>6. /\ Sane(r, made, live) /\ Sane([r EXCEPT !.pc = "cache"], made, live)
      /\ Sane([r EXCEPT !.pc = "search"], made, live) /\ Sane([r EXCEPT !.pc = "snapshot"], made, live)
  <2> HIDE DEF r
  <2> QED BY <1>3, <1>5 DEF Early
<1>8. CASE job.by = "sound" /\ job.parts = <<>>
  <2>1. Now(p, Playing(r, Targets(0, OfKind({"local"}))))
    BY <1>8 DEF BeginSound
  <2> HIDE DEF r
  <2>2. Sane(Playing(r, Targets(0, OfKind({"local"}))), made, live)
    BY <1>4, <1>6, <1>8, LocalTargets, FoundSane DEF Early
  <2> QED BY <1>2, <2>1, <2>2, AloneSane
<1>9. CASE job.by = "sound" /\ job.parts # <<>>
  <2>1. Now(p, [r EXCEPT !.pc = "cache"])
    BY <1>9 DEF BeginSound
  <2> HIDE DEF r
  <2> QED BY <1>2, <1>6, <2>1, AloneSane
<1>10. CASE job.by = "media"
  <2>1. Now(p, [r EXCEPT !.pc = "search"])
    BY <1>10 DEF BeginSound
  <2> HIDE DEF r
  <2> QED BY <1>2, <1>6, <2>1, AloneSane
<1>11. CASE job.by \in {"id", "name"}
  <2>1. Now(p, [r EXCEPT !.pc = "snapshot"])
    BY <1>11 DEF BeginSound
  <2> HIDE DEF r
  <2> QED BY <1>2, <1>6, <2>1, AloneSane
<1> QED BY <1>1, <1>8, <1>9, <1>10, <1>11

\* What the words name in a list is played, when each names one speaker.
LEMMA ResolvedSane ==
    ASSUME NEW r, NEW top, Sane(r, top, live), r.pc \in Early, NEW entries \in SUBSET Speakers,
           ~r.blind => entries = live, Resolves(entries, r.by, r.parts)
    PROVE  Sane(Playing(r, Resolved(entries, r.by, r.parts)), top, live)
<1>1. r.parts \in Queries
  BY DEF Sane, SoundRecords, Queries
<1>2. /\ Resolved(entries, r.by, r.parts) \in SUBSET TargetRecords
      /\ Once(Resolved(entries, r.by, r.parts)) /\ Resolved(entries, r.by, r.parts) # {}
  BY <1>1, ResolvedTypes, ResolvedOnce, ResolvedSome
<1>3. r.parts # <<>> /\ ~r.blind => Resolves(live, r.by, r.parts)
  OBVIOUS
<1> QED BY <1>2, <1>3, FoundSane

\* It waits for another list, with nothing begun.
LEMMA MovedSane ==
    ASSUME NEW r, NEW top, Sane(r, top, live), NEW pc \in Early \ {"cache"}, r.pc \in Early, NEW nil \in BOOLEAN,
           ~Async(r) /\ pc \in {"idle", "snapshot", "fresh"} => r.targets = {}
    PROVE  Sane([r EXCEPT !.pc = pc, !.nilErr = nil], top, live)
<1> DEFINE n == [r EXCEPT !.pc = pc, !.nilErr = nil]
<1>0. r \in SoundRecords
  BY DEF Sane
<1>1. n \in SoundRecords
  BY <1>0 DEF SoundRecords, Early
<1>2. /\ n.pc = pc /\ n.by = r.by /\ n.who = r.who /\ n.parts = r.parts
      /\ n.fromCache = r.fromCache /\ n.queue = r.queue /\ n.hubs = r.hubs /\ n.scene = r.scene
      /\ n.said = r.said /\ n.targets = r.targets
      /\ n.heard = r.heard /\ n.unsure = r.unsure /\ n.again = r.again /\ n.blind = r.blind
  BY <1>0 DEF SoundRecords
<1> HIDE DEF n
<1>3. Housed(n, top)
  BY <1>2 DEF Sane, Housed, HasTemp, Early
<1>4. Counted(n)
  <2>1. \A s \in Speakers : ~Due(r, s) /\ ~Due(n, s)
    BY <1>2 DEF Sane, Counted, Due, InQueue
  <2> QED BY <1>2, <2>1 DEF Sane, Counted, Early
<1>5. Clear(n, live)
  BY <1>2 DEF Sane, Clear, Early, Plays
<1>6. Told(n, live)
  BY <1>2 DEF Sane, Told, Early, Plays, Async
<1>7. Sane(n, top, live)
  BY <1>1, <1>3, <1>4, <1>5, <1>6 DEF Sane
<1> QED BY <1>7 DEF n

LEMMA WaitsSane ==
    ASSUME NEW r, NEW top, Sane(r, top, live), r.pc \in Early, NEW pc \in {"search", "again"}
    PROVE  Sane([r EXCEPT !.pc = pc], top, live)
<1>1. r \in SoundRecords /\ r.nilErr \in BOOLEAN
  BY DEF Sane, SoundRecords
<1>2. [r EXCEPT !.pc = pc] = [r EXCEPT !.pc = pc, !.nilErr = r.nilErr]
  BY <1>1 DEF SoundRecords
<1>3. pc \in Early \ {"cache"} /\ pc \notin {"idle", "snapshot", "fresh"}
  BY DEF Early
<1> HIDE DEF Early
<1>4. Sane([r EXCEPT !.pc = pc, !.nilErr = r.nilErr], top, live)
  BY <1>1, <1>3, MovedSane
<1> QED BY <1>2, <1>4

LEMMA SearchesFound == live \subseteq Speakers => Searches \subseteq SUBSET Speakers
BY DEF Searches

LEMMA LookKeeps ==
    ASSUME Alone, NEW p \in SoundProcs, LookInCache(p)
    PROVE  SoundSane'
<1> DEFINE b == known # live
           r == [sound[p] EXCEPT !.blind = @ \/ known # live]
           targets == Resolved(known, r.by, r.parts)
           hit == Resolves(known, r.by, r.parts) /\ ~NeedsRefresh(targets)
<1>1. /\ Sane(sound[p], made, live) /\ sound[p] \in SoundRecords /\ sound[p].pc = "cache"
      /\ known \subseteq Speakers /\ known' \subseteq Speakers /\ made \in Nat
  BY DEF Alone, SoundSane, LookInCache, Sane
<1>2. Now(p, IF hit THEN [Playing(r, targets) EXCEPT !.fromCache = TRUE]
             ELSE [sound[p] EXCEPT !.pc = "search"])
  BY DEF LookInCache
<1>3. Sane(r, made, live)
  BY <1>1, BlindSane
<1>4. /\ r.pc = "cache" /\ (~r.blind => known = live)
      /\ r.parts \in Queries /\ r.again = sound[p].again
  BY <1>1 DEF SoundRecords, Queries
<1> HIDE DEF r
<1>5. CASE hit
  <2>1. targets \in SUBSET TargetRecords /\ Once(targets) /\ targets # {}
    BY <1>1, <1>4, <1>5, ResolvedTypes, ResolvedOnce, ResolvedSome
  <2>2. r.parts # <<>> /\ ~r.blind => Resolves(live, r.by, r.parts)
    BY <1>4, <1>5
  <2>3. ~r.again
    BY <1>3, <1>4 DEF Sane, Counted
  <2> HIDE DEF targets
  <2>4. Sane([Playing(r, targets) EXCEPT !.fromCache = TRUE], made, live)
    BY <1>3, <1>4, <2>1, <2>2, <2>3, PlayingSane DEF Early
  <2> QED BY <1>1, <1>2, <1>5, <2>4, AloneSane
<1>6. CASE ~hit
  <2> DEFINE n == [sound[p] EXCEPT !.pc = "search"]
  <2>1. Sane(n, made, live)
    BY <1>1, WaitsSane DEF Early
  <2> QED BY <1>1, <1>2, <1>6, <2>1, AloneSane
<1> QED BY <1>5, <1>6

LEMMA SnapshotKeeps ==
    ASSUME Alone, NEW p \in SoundProcs, NEW found \in Searches, Snapshot(p, found)
    PROVE  SoundSane'
<1> DEFINE cached == sound[p].who = "ask" /\ known # {}
           entries == IF cached THEN known ELSE found
           r == [sound[p] EXCEPT !.blind = @ \/ entries # live]
           targets == Resolved(entries, r.by, r.parts)
           resolves == Resolves(entries, r.by, r.parts)
           stale == cached /\ resolves /\ NeedsRefresh(targets)
           nil == stale /\ r.by = "name"
<1>1. /\ Sane(sound[p], made, live) /\ sound[p] \in SoundRecords /\ sound[p].pc = "snapshot"
      /\ known' \subseteq Speakers /\ made \in Nat /\ entries \in SUBSET Speakers
  BY SearchesFound DEF Alone, SoundSane, Snapshot, Sane
<1>2. Now(p, IF entries = {} THEN Ended(r, "error")
             ELSE IF resolves /\ ~stale THEN Playing(r, targets)
             ELSE [r EXCEPT !.pc = "fresh", !.nilErr = nil])
  BY DEF Snapshot
<1> HIDE DEF entries
<1>3. Sane(r, made, live)
  BY <1>1, BlindSane
<1>4. r.pc = "snapshot" /\ (~r.blind => entries = live)
  BY <1>1 DEF SoundRecords
<1> HIDE DEF r
<1>5. Sane(Ended(r, "error"), made, live)
  BY <1>1, <1>3, EndedSane DEF Sane
<1>6. resolves => Sane(Playing(r, targets), made, live)
  BY <1>1, <1>3, <1>4, ResolvedSane DEF Early
<1>7. Sane([r EXCEPT !.pc = "fresh", !.nilErr = nil], made, live)
  <2>1. nil \in BOOLEAN
    OBVIOUS
  <2>2. "fresh" \in Early \ {"cache"} /\ "snapshot" \in Early
    BY DEF Early
  <2>3. ~Async(r) => r.targets = {}
    BY <1>3, <1>4 DEF Sane, Told
  <2> HIDE DEF nil
  <2> QED BY <1>3, <1>4, <2>1, <2>2, <2>3, MovedSane
<1> HIDE DEF nil, stale, resolves, targets
<1> QED BY <1>1, <1>2, <1>5, <1>6, <1>7, AloneSane

LEMMA FreshKeeps ==
    ASSUME Alone, NEW p \in SoundProcs, NEW found \in Searches, Fresh(p, found)
    PROVE  SoundSane'
<1> DEFINE r == [sound[p] EXCEPT !.blind = @ \/ found # live]
           said == IF r.nilErr THEN "ok" ELSE "error"
<1>1. /\ Sane(sound[p], made, live) /\ sound[p] \in SoundRecords /\ sound[p].pc = "fresh"
      /\ known' \subseteq Speakers /\ made \in Nat /\ found \in SUBSET Speakers
  BY SearchesFound DEF Alone, SoundSane, Fresh, Sane
<1>2. Now(p, IF Resolves(found, r.by, r.parts) THEN Playing(r, Resolved(found, r.by, r.parts))
             ELSE Ended(r, said))
  BY DEF Fresh
<1>3. Sane(r, made, live)
  BY <1>1, BlindSane
<1>4. r.pc = "fresh" /\ (~r.blind => found = live)
  BY <1>1 DEF SoundRecords
<1> HIDE DEF r
<1>5. Sane(Ended(r, said), made, live)
  <2>1. ~Async(r) => r.targets = {}
    BY <1>3, <1>4 DEF Sane, Told
  <2>2. ~Async(r) /\ said = "ok" => Succeeds(r, live)
    BY <2>1 DEF Succeeds
  <2>3. said \in {"ok", "error", "killed"}
    OBVIOUS
  <2> HIDE DEF said
  <2> QED BY <1>1, <1>3, <2>2, <2>3, EndedSane DEF Sane
<1>6. Resolves(found, r.by, r.parts) => Sane(Playing(r, Resolved(found, r.by, r.parts)), made, live)
  BY <1>1, <1>3, <1>4, ResolvedSane DEF Early
<1> HIDE DEF said
<1> QED BY <1>1, <1>2, <1>5, <1>6, AloneSane

LEMMA SearchKeeps ==
    ASSUME Alone, NEW p \in SoundProcs, NEW found \in Searches, Search(p, found)
    PROVE  SoundSane'
<1> DEFINE r == [sound[p] EXCEPT !.blind = @ \/ found # live]
<1>1. /\ Sane(sound[p], made, live) /\ sound[p] \in SoundRecords
      /\ sound[p].pc \in {"search", "again"}
      /\ known' \subseteq Speakers /\ made \in Nat /\ found \in SUBSET Speakers
  BY SearchesFound DEF Alone, SoundSane, Search, Sane
<1>2. Now(p, IF found = {} THEN Ended(r, "error")
             ELSE IF Resolves(found, r.by, r.parts) THEN Playing(r, Resolved(found, r.by, r.parts))
             ELSE IF r.pc = "search" THEN [r EXCEPT !.pc = "again"]
             ELSE Ended(r, "error"))
  BY DEF Search
<1>3. Sane(r, made, live)
  BY <1>1, BlindSane
<1>4. r.pc \in Early /\ (~r.blind => found = live)
  BY <1>1 DEF SoundRecords, Early
<1> HIDE DEF r
<1>5. Sane(Ended(r, "error"), made, live)
  BY <1>1, <1>3, EndedSane DEF Sane
<1>6. Resolves(found, r.by, r.parts) => Sane(Playing(r, Resolved(found, r.by, r.parts)), made, live)
  BY <1>1, <1>3, <1>4, ResolvedSane
<1>7. Sane([r EXCEPT !.pc = "again"], made, live)
  BY <1>3, <1>4, WaitsSane
<1> QED BY <1>1, <1>2, <1>5, <1>6, <1>7, AloneSane

\* The next speaker is taken from the queue, before anything is heard on it.
Taken(q, t) == [q EXCEPT !.queue = @ \ {t}]

LEMMA TakenCounted ==
    ASSUME NEW q, NEW top, Sane(q, top, live), q.pc = "play", NEW t \in q.queue,
           NEW r, r = Taken(q, t)
    PROVE  /\ r \in SoundRecords /\ Counted(r) /\ Clear(r, live)
           /\ ~Async(r) => r.said = "nothing"
           /\ r.pc = "play" /\ r.who = q.who /\ r.targets = q.targets /\ r.heard = q.heard
           /\ r.unsure = q.unsure
           /\ r.scene = q.scene /\ t.spk \in Speakers /\ ~Due(r, t.spk)
           /\ \A s \in Speakers : Due(q, s) => s = t.spk \/ Due(r, s)
           /\ r.heard[t.spk] + 1 <= IF r.again THEN 2 ELSE 1
<1>0. q \in SoundRecords /\ t \in TargetRecords /\ t.spk \in Speakers
  BY DEF Sane, SoundRecords, TargetRecords
<1>1. r \in SoundRecords
  BY <1>0 DEF SoundRecords, Taken
<1>2. /\ r.pc = "play" /\ r.by = q.by /\ r.who = q.who /\ r.parts = q.parts
      /\ r.fromCache = q.fromCache /\ r.queue = q.queue \ {t} /\ r.hubs = q.hubs
      /\ r.scene = q.scene /\ r.said = q.said /\ r.targets = q.targets
      /\ r.heard = q.heard /\ r.unsure = q.unsure /\ r.again = q.again /\ r.blind = q.blind
  BY <1>0 DEF SoundRecords, Taken
<1>3. /\ Once(q.queue) /\ \A u \in q.queue : u.spk \notin q.hubs
      /\ q.fromCache => ~q.again
  BY DEF Sane, Counted
<1>4. \A s \in Speakers : q.heard[s] \in Nat
  BY <1>0 DEF SoundRecords
<1>5. \A s \in Speakers : q.heard[s] + (IF Due(q, s) THEN 1 ELSE 0) <= IF q.again THEN 2 ELSE 1
  BY DEF Sane, Counted
<1>6. Due(q, t.spk) /\ ~Due(r, t.spk)
  BY <1>2, <1>3 DEF Due, InQueue, Once
<1>7. \A s \in Speakers : /\ Due(q, s) => s = t.spk \/ Due(r, s)
                          /\ Due(r, s) => Due(q, s)
  BY <1>2 DEF Due, InQueue
<1>8. r.heard[t.spk] + 1 <= IF r.again THEN 2 ELSE 1
  BY <1>0, <1>2, <1>5, <1>6
<1>9. Counted(r)
  <2>1. \A s \in Speakers : r.heard[s] + (IF Due(r, s) THEN 1 ELSE 0) <= IF r.again THEN 2 ELSE 1
    BY <1>2, <1>4, <1>5, <1>7
  <2>2. Once(r.queue) /\ \A u \in r.queue : u.spk \notin r.hubs
    BY <1>2, <1>3 DEF Once
  <2> QED BY <1>2, <1>3, <2>1, <2>2 DEF Counted, Early
<1>10. Clear(r, live)
  BY <1>2 DEF Sane, Clear
<1>11. ~Async(r) => r.said = "nothing"
  BY <1>2 DEF Sane, Told, Async
<1> HIDE DEF Due
<1> QED BY <1>0, <1>1, <1>2, <1>6, <1>7, <1>8, <1>9, <1>10, <1>11

LEMMA HeardCounted ==
    ASSUME NEW r, r \in SoundRecords, Counted(r), Clear(r, live), r.pc = "play", NEW s \in Speakers,
           ~Due(r, s), r.heard[s] + 1 <= IF r.again THEN 2 ELSE 1,
           NEW n, n = Hear(r, {s})
    PROVE  /\ n \in SoundRecords /\ Counted(n) /\ Clear(n, live)
           /\ n.pc = r.pc /\ n.queue = r.queue /\ n.hubs = r.hubs /\ n.scene = r.scene
           /\ n.said = r.said /\ n.who = r.who /\ n.targets = r.targets /\ n.unsure = r.unsure
           /\ \A v \in Speakers : r.heard[v] \in Nat /\ n.heard[v] = r.heard[v] + IF v = s THEN 1 ELSE 0
<1> DEFINE heard == [v \in Speakers |-> r.heard[v] + IF v \in {s} THEN 1 ELSE 0]
<1>1. r.heard \in [Speakers -> Nat]
  BY DEF SoundRecords
<1>2. heard \in [Speakers -> Nat] /\ n = [r EXCEPT !.heard = heard]
  BY <1>1 DEF Hear
<1>3. \A v \in Speakers : r.heard[v] \in Nat /\ heard[v] = r.heard[v] + IF v = s THEN 1 ELSE 0
  BY <1>1
<1> HIDE DEF heard
<1>4. n \in SoundRecords
  BY <1>2 DEF SoundRecords
<1>5. /\ n.pc = r.pc /\ n.by = r.by /\ n.who = r.who /\ n.parts = r.parts
      /\ n.fromCache = r.fromCache /\ n.queue = r.queue /\ n.hubs = r.hubs
      /\ n.scene = r.scene /\ n.said = r.said /\ n.targets = r.targets
      /\ n.heard = heard /\ n.unsure = r.unsure /\ n.again = r.again /\ n.blind = r.blind
  BY <1>2 DEF SoundRecords
<1>6. Counted(n)
  <2>1. \A v \in Speakers : Due(n, v) <=> Due(r, v)
    BY <1>5 DEF Due, InQueue
  <2>2. \A v \in Speakers : r.heard[v] + (IF Due(r, v) THEN 1 ELSE 0) <= IF r.again THEN 2 ELSE 1
    BY DEF Counted
  <2>3. \A v \in Speakers : n.heard[v] + (IF Due(n, v) THEN 1 ELSE 0) <= IF n.again THEN 2 ELSE 1
    BY <1>3, <1>5, <2>1, <2>2
  <2>4. /\ Once(n.queue) /\ \A u \in n.queue : u.spk \notin n.hubs
        /\ n.fromCache => ~n.again
    BY <1>5 DEF Counted
  <2> QED BY <1>5, <2>3, <2>4 DEF Counted, Early
<1>7. Clear(n, live)
  BY <1>5 DEF Clear, Plays
<1> QED BY <1>3, <1>4, <1>5, <1>6, <1>7

\* The speaker taken is heard: the others are heard, in doubt or still due.
LEMMA HeardSane ==
    ASSUME NEW r, r \in SoundRecords, Counted(r), Clear(r, live), r.pc = "play", NEW s \in Speakers,
           ~Due(r, s), r.heard[s] + 1 <= IF r.again THEN 2 ELSE 1,
           r.scene = 0, made \in Nat, live \subseteq Speakers,
           ~Async(r) => /\ r.said = "nothing" /\ r.targets # {}
                        /\ \A v \in r.targets \cap live :
                              v = s \/ r.heard[v] > 0 \/ Due(r, v) \/ Unsure(r, v)
    PROVE  Sane(Hear(r, {s}), made, live)
<1> DEFINE h == Hear(r, {s})
<1>1. /\ h \in SoundRecords /\ Counted(h) /\ Clear(h, live)
      /\ h.pc = r.pc /\ h.queue = r.queue /\ h.hubs = r.hubs /\ h.scene = r.scene
      /\ h.said = r.said /\ h.who = r.who /\ h.targets = r.targets /\ h.unsure = r.unsure
      /\ \A v \in Speakers : r.heard[v] \in Nat /\ h.heard[v] = r.heard[v] + IF v = s THEN 1 ELSE 0
  <2>1. h = Hear(r, {s})
    OBVIOUS
  <2> HIDE DEF h
  <2> QED BY <2>1, HeardCounted
<1> HIDE DEF h
<1>2. Housed(h, made)
  BY <1>1 DEF Housed, HasTemp
<1>3. ~Async(r) => \A v \in h.targets \cap live : Served(h, v)
  <2>1. \A v \in Speakers : Due(r, v) => Due(h, v)
    BY <1>1 DEF Due, InQueue
  <2>2. ASSUME ~Async(r), NEW v \in r.targets \cap live PROVE Served(h, v)
    <3>1. v \in Speakers /\ r.heard[v] \in Nat /\ h.heard[v] = r.heard[v] + IF v = s THEN 1 ELSE 0
      BY <1>1, <2>2
    <3>2. CASE v = s
      BY <3>1, <3>2 DEF Served
    <3>3. CASE v # s
      <4>1. r.heard[v] > 0 \/ Due(h, v) \/ Unsure(r, v)
        BY <2>1, <2>2, <3>1, <3>3
      <4>2. Unsure(r, v) => Unsure(h, v)
        BY <1>1 DEF Unsure
      <4> QED BY <3>1, <3>3, <4>1, <4>2 DEF Served
    <3> QED BY <3>2, <3>3
  <2> QED BY <1>1, <2>2
<1>4. Told(h, live)
  BY <1>1, <1>3 DEF Told, Plays, Async
<1> QED BY <1>1, <1>2, <1>4 DEF Sane, h

LEMMA PlayNextKeeps ==
    ASSUME Alone, NEW p \in SoundProcs, NEW o \in Outcomes, PlayNext(p, o)
    PROVE  SoundSane'
<1>1. PICK t \in sound[p].queue :
        LET r == Taken(sound[p], t)
        IN IF Kind[t.spk] = "hub"
           THEN Now(p, IF Unplayable(r, t.spk) THEN Failed(r) ELSE [r EXCEPT !.hubs = @ \cup {t.spk}])
           ELSE IF t.spk \notin live THEN Now(p, Failed(r))
           ELSE Now(p, CASE o = "ok" -> Hear(r, {t.spk})
                         [] o = "refused" -> Failed(r)
                         [] o = "lost" -> Failed(Hear(r, {t.spk})))
  BY DEF PlayNext, Taken
<1> DEFINE r == Taken(sound[p], t)
           s == t.spk
<1>2. /\ Sane(sound[p], made, live) /\ sound[p].pc = "play"
      /\ known' \subseteq Speakers /\ made \in Nat
  BY DEF Alone, SoundSane, PlayNext
<1>3. \/ Now(p, Failed(r))
      \/ Now(p, [r EXCEPT !.hubs = @ \cup {s}])
      \/ Now(p, Hear(r, {s}))
      \/ Now(p, Failed(Hear(r, {s})))
  BY <1>1 DEF Outcomes
<1>4. /\ r \in SoundRecords /\ Counted(r) /\ Clear(r, live)
      /\ ~Async(r) => r.said = "nothing"
      /\ r.pc = "play" /\ r.who = sound[p].who /\ r.targets = sound[p].targets
      /\ r.heard = sound[p].heard /\ r.unsure = sound[p].unsure
      /\ r.scene = sound[p].scene /\ s \in Speakers /\ ~Due(r, s)
      /\ \A v \in Speakers : Due(sound[p], v) => v = s \/ Due(r, v)
      /\ r.heard[s] + 1 <= IF r.again THEN 2 ELSE 1
  <2>1. r = Taken(sound[p], t)
    OBVIOUS
  <2> HIDE DEF r
  <2> QED BY <1>2, <2>1, TakenCounted
<1>5. ~Async(r) => /\ r.targets # {}
                   /\ \A v \in r.targets \cap live : Served(sound[p], v)
  BY <1>2, <1>4 DEF Sane, Told, Plays, Async
<1>6. r.scene = 0
  BY <1>2, <1>4 DEF Sane, Housed, HasTemp
<1>7. live \subseteq Speakers
  BY DEF Alone, SoundSane
<1> HIDE DEF r, s
<1>8. Sane(Failed(r), made, live)
  BY <1>2, <1>4, FailedSane
<1>9. Sane([r EXCEPT !.hubs = @ \cup {s}], made, live)
  <2> DEFINE n == [r EXCEPT !.hubs = @ \cup {s}]
  <2>1. n \in SoundRecords
    BY <1>4 DEF SoundRecords
  <2>2. /\ n.pc = r.pc /\ n.by = r.by /\ n.who = r.who /\ n.parts = r.parts
        /\ n.fromCache = r.fromCache /\ n.queue = r.queue /\ n.hubs = r.hubs \cup {s}
        /\ n.scene = r.scene /\ n.said = r.said /\ n.targets = r.targets
        /\ n.heard = r.heard /\ n.unsure = r.unsure /\ n.again = r.again /\ n.blind = r.blind
    BY <1>4 DEF SoundRecords
  <2> HIDE DEF n
  <2>3. Housed(n, made)
    BY <1>2, <1>4, <1>6, <2>2 DEF Housed, HasTemp
  <2>4. Counted(n)
    <3>1. \A v \in Speakers : Due(n, v) => v = s \/ Due(r, v)
      BY <2>2 DEF Due, InQueue
    <3>2. \A v \in Speakers : r.heard[v] \in Nat
      BY <1>4 DEF SoundRecords
    <3>3. \A v \in Speakers : r.heard[v] + (IF Due(r, v) THEN 1 ELSE 0) <= IF r.again THEN 2 ELSE 1
      BY <1>4 DEF Counted
    <3>4. \A v \in Speakers : n.heard[v] + (IF Due(n, v) THEN 1 ELSE 0) <= IF n.again THEN 2 ELSE 1
      BY <1>4, <2>2, <3>1, <3>2, <3>3
    <3>5. Once(n.queue) /\ \A u \in n.queue : u.spk \notin n.hubs
      BY <1>4, <2>2 DEF Counted, Due, InQueue
    <3> QED BY <1>4, <2>2, <3>4, <3>5 DEF Counted, Early
  <2>5. Clear(n, live)
    BY <1>4, <2>2 DEF Clear, Plays
  <2>6. Told(n, live)
    <3>1. \A v \in Speakers : Due(sound[p], v) => Due(n, v)
      BY <1>4, <2>2 DEF Due, InQueue
    <3>2. ~Async(r) => \A v \in n.targets \cap live : Served(n, v)
      BY <1>2, <1>4, <1>5, <1>7, <2>2, <3>1 DEF Served, Unsure
    <3> QED BY <1>4, <1>5, <2>2, <3>2 DEF Told, Plays, Async
  <2>7. Sane(n, made, live)
    BY <2>1, <2>3, <2>4, <2>5, <2>6 DEF Sane
  <2> QED BY <2>7 DEF n
<1> DEFINE h == Hear(r, {s})
<1>10. /\ h \in SoundRecords /\ Counted(h) /\ Clear(h, live)
       /\ h.pc = r.pc /\ h.queue = r.queue /\ h.hubs = r.hubs /\ h.scene = r.scene
       /\ h.said = r.said /\ h.who = r.who /\ h.targets = r.targets
       /\ \A v \in Speakers : r.heard[v] \in Nat /\ h.heard[v] = r.heard[v] + IF v = s THEN 1 ELSE 0
  <2>1. h = Hear(r, {s})
    OBVIOUS
  <2> HIDE DEF h
  <2> QED BY <1>4, <2>1, HeardCounted
<1> HIDE DEF h
<1>11. Sane(h, made, live)
  <2>1. \A v \in live : v = s \/ (Served(sound[p], v) => r.heard[v] > 0 \/ Due(r, v) \/ Unsure(r, v))
    BY <1>2, <1>4, <1>7 DEF Served, Unsure
  <2>2. ~Async(r) => \A v \in r.targets \cap live :
                        v = s \/ r.heard[v] > 0 \/ Due(r, v) \/ Unsure(r, v)
    BY <1>5, <2>1
  <2> QED BY <1>2, <1>4, <1>5, <1>6, <1>7, <2>2, HeardSane DEF h
<1>12. Sane(Failed(h), made, live)
  BY <1>2, <1>4, <1>10, FailedSane DEF Async
<1> QED BY <1>2, <1>3, <1>8, <1>9, <1>11, <1>12, AloneSane DEF h

\* A speaker that may never play is in doubt, whether it plays or not.
LEMMA CastPendingKeeps ==
    ASSUME Alone, NEW p \in SoundProcs, NEW plays \in BOOLEAN, CastPending(p, plays)
    PROVE  SoundSane'
<1>1. PICK t \in sound[p].queue :
        LET d == [Taken(sound[p], t) EXCEPT !.unsure = @ \cup {t.spk}]
        IN /\ Kind[t.spk] = "cast"
           /\ Now(p, IF plays THEN Hear(d, {t.spk}) ELSE d)
  <2>1. PICK t \in sound[p].queue :
          LET d == [sound[p] EXCEPT !.queue = @ \ {t}, !.unsure = @ \cup {t.spk}]
          IN /\ Kind[t.spk] = "cast"
             /\ Now(p, IF plays THEN Hear(d, {t.spk}) ELSE d)
    BY DEF CastPending
  <2>2. [sound[p] EXCEPT !.queue = @ \ {t}, !.unsure = @ \cup {t.spk}]
        = [Taken(sound[p], t) EXCEPT !.unsure = @ \cup {t.spk}]
    BY DEF Alone, SoundSane, SoundRecords, Taken
  <2> QED BY <2>1, <2>2
<1> DEFINE r == Taken(sound[p], t)
           s == t.spk
           doubt == r.unsure \cup {s}
           d == [r EXCEPT !.unsure = doubt]
<1>2. /\ Sane(sound[p], made, live) /\ sound[p].pc = "play"
      /\ known' \subseteq Speakers /\ made \in Nat
  BY DEF Alone, SoundSane, CastPending
<1>3. Kind[s] = "cast" /\ (Now(p, Hear(d, {s})) \/ Now(p, d))
  BY <1>1
<1>4. /\ r \in SoundRecords /\ Counted(r) /\ Clear(r, live)
      /\ ~Async(r) => r.said = "nothing"
      /\ r.pc = "play" /\ r.who = sound[p].who /\ r.targets = sound[p].targets
      /\ r.heard = sound[p].heard /\ r.unsure = sound[p].unsure
      /\ r.scene = sound[p].scene /\ s \in Speakers /\ ~Due(r, s)
      /\ \A v \in Speakers : Due(sound[p], v) => v = s \/ Due(r, v)
      /\ r.heard[s] + 1 <= IF r.again THEN 2 ELSE 1
  <2>1. r = Taken(sound[p], t)
    OBVIOUS
  <2> HIDE DEF r
  <2> QED BY <1>2, <2>1, TakenCounted
<1>5. ~Async(r) => /\ r.targets # {}
                   /\ \A v \in r.targets \cap live : Served(sound[p], v)
  BY <1>2, <1>4 DEF Sane, Told, Plays, Async
<1>6. r.scene = 0
  BY <1>2, <1>4 DEF Sane, Housed, HasTemp
<1>7. live \subseteq Speakers
  BY DEF Alone, SoundSane
<1>8. doubt \in SUBSET Speakers /\ s \in doubt /\ r.unsure \subseteq doubt
  BY <1>4 DEF SoundRecords
<1> HIDE DEF r, s, doubt
<1>9. /\ d \in SoundRecords
      /\ d.pc = r.pc /\ d.by = r.by /\ d.who = r.who /\ d.parts = r.parts
      /\ d.fromCache = r.fromCache /\ d.queue = r.queue /\ d.hubs = r.hubs
      /\ d.scene = r.scene /\ d.said = r.said /\ d.targets = r.targets
      /\ d.heard = r.heard /\ d.unsure = doubt /\ d.again = r.again /\ d.blind = r.blind
  BY <1>4, <1>8 DEF SoundRecords
<1> HIDE DEF d
<1>10. \A v \in Speakers : Due(d, v) <=> Due(r, v)
  BY <1>9 DEF Due, InQueue
<1>11. Counted(d)
  BY <1>4, <1>9, <1>10 DEF Counted, Early
<1>12. Clear(d, live)
  BY <1>4, <1>9 DEF Clear
<1>13. ~Async(r) => \A v \in d.targets \cap live : d.heard[v] > 0 \/ Due(d, v) \/ Unsure(d, v)
  <2>1. ASSUME ~Async(r), NEW v \in d.targets \cap live
        PROVE  d.heard[v] > 0 \/ Due(d, v) \/ Unsure(d, v)
    <3>1. v \in Speakers /\ Served(sound[p], v)
      BY <1>5, <1>7, <1>9, <2>1
    <3>2. sound[p].heard[v] > 0 \/ Due(sound[p], v) \/ Unsure(sound[p], v)
      BY <1>2, <3>1 DEF Served
    <3>3. v = s => Unsure(d, v)
      BY <1>3, <1>8, <1>9 DEF Unsure
    <3>4. Unsure(sound[p], v) => Unsure(d, v)
      BY <1>4, <1>8, <1>9 DEF Unsure
    <3> QED BY <1>4, <1>9, <1>10, <3>1, <3>2, <3>3, <3>4
  <2> QED BY <2>1
<1>14. Sane(d, made, live)
  <2>1. Housed(d, made)
    BY <1>2, <1>4, <1>6, <1>9 DEF Housed, HasTemp
  <2>2. ~Async(r) => \A v \in d.targets \cap live : Served(d, v)
    BY <1>13 DEF Served
  <2>3. Told(d, live)
    BY <1>4, <1>5, <1>9, <2>2 DEF Told, Plays, Async
  <2> QED BY <1>9, <1>11, <1>12, <2>1, <2>3 DEF Sane
<1>15. Sane(Hear(d, {s}), made, live)
  <2>1. d.scene = 0 /\ d.pc = "play" /\ ~Due(d, s) /\ s \in Speakers /\ made \in Nat
    BY <1>2, <1>4, <1>6, <1>9, <1>10
  <2>2. d.heard[s] + 1 <= IF d.again THEN 2 ELSE 1
    BY <1>4, <1>9
  <2>3. ~Async(d) => /\ d.said = "nothing" /\ d.targets # {}
                     /\ \A v \in d.targets \cap live :
                           v = s \/ d.heard[v] > 0 \/ Due(d, v) \/ Unsure(d, v)
    BY <1>4, <1>5, <1>9, <1>13 DEF Async
  <2> QED BY <1>7, <1>9, <1>11, <1>12, <2>1, <2>2, <2>3, HeardSane
<1> QED BY <1>2, <1>3, <1>14, <1>15, AloneSane

LEMMA PlayedAllKeeps ==
    ASSUME Alone, NEW p \in SoundProcs, PlayedAll(p)
    PROVE  SoundSane'
<1> DEFINE r == sound[p]
           n == [r EXCEPT !.pc = "post"]
<1>1. /\ Sane(r, made, live) /\ r \in SoundRecords /\ r.pc = "play" /\ r.queue = {}
      /\ known' \subseteq Speakers /\ made \in Nat /\ live \subseteq Speakers
  BY DEF Alone, SoundSane, PlayedAll, Sane
<1>2. Now(p, IF r.hubs = {} THEN Ended(r, "ok") ELSE n)
  BY DEF PlayedAll
<1> HIDE DEF r
<1>3. CASE r.hubs = {}
  <2>1. ~Async(r) => Succeeds(r, live)
    BY <1>1, <1>3 DEF Sane, Told, Plays, Served, Due, InQueue, Succeeds
  <2>2. Sane(Ended(r, "ok"), made, live)
    BY <1>1, <2>1, EndedSane DEF Sane
  <2> QED BY <1>1, <1>2, <1>3, <2>2, AloneSane
<1>4. CASE r.hubs # {}
  <2>1. n \in SoundRecords
    BY <1>1 DEF SoundRecords
  <2>2. /\ n.pc = "post" /\ n.by = r.by /\ n.who = r.who /\ n.parts = r.parts
        /\ n.fromCache = r.fromCache /\ n.queue = {} /\ n.hubs = r.hubs
        /\ n.scene = r.scene /\ n.said = r.said /\ n.targets = r.targets
        /\ n.heard = r.heard /\ n.unsure = r.unsure /\ n.again = r.again /\ n.blind = r.blind
    BY <1>1 DEF SoundRecords
  <2> HIDE DEF n
  <2>3. \A v \in Speakers : Due(n, v) <=> Due(r, v)
    BY <1>1, <2>2 DEF Due, InQueue
  <2>4. Housed(n, made)
    BY <1>1, <2>2 DEF Sane, Housed, HasTemp
  <2>5. Counted(n)
    BY <1>1, <2>2, <2>3 DEF Sane, Counted, Early
  <2>6. Clear(n, live)
    BY <1>1, <2>2 DEF Sane, Clear, Plays
  <2>7. Told(n, live)
    BY <1>1, <2>2, <2>3 DEF Sane, Told, Plays, Async, Served, Unsure
  <2>8. Sane(n, made, live)
    BY <2>1, <2>4, <2>5, <2>6, <2>7 DEF Sane
  <2> QED BY <1>1, <1>2, <1>4, <2>8, AloneSane
<1> QED BY <1>3, <1>4

LEMMA PostTempKeeps ==
    ASSUME SoundSane, BoundsOK, ScenesOK, NEW p \in SoundProcs, NEW o \in PostOutcomes,
           PostTemp(p, o)
    PROVE  SoundSane'
<1> DEFINE r == sound[p]
           id == made + 1
           n == [r EXCEPT !.pc = "trigger", !.scene = id]
<1>1. /\ Sane(r, made, live) /\ r \in SoundRecords /\ r.pc = "post"
      /\ known' \subseteq Speakers /\ live' = live /\ live \subseteq Speakers
  BY DEF SoundSane, PostTemp, Sane
<1>2. made \in Nat /\ made' \in Nat /\ made <= made' /\ (o = "ok" => made' = made + 1)
  <2>1. CreateScene(Temp, o)
    BY DEF PostTemp
  <2> QED BY <2>1, CreateTypes DEF ScenesOK
<1>6. id \in Nat /\ id # 0 /\ (o = "ok" => id <= made')
  BY <1>2
<1>3. Now(p, IF o = "ok" THEN n ELSE Failed(r))
  BY DEF PostTemp
<1> HIDE DEF r, id
<1>4. CASE o = "ok"
  <2>1. n \in SoundRecords
    BY <1>1, <1>6 DEF SoundRecords
  <2>2. /\ n.pc = "trigger" /\ n.by = r.by /\ n.who = r.who /\ n.parts = r.parts
        /\ n.fromCache = r.fromCache /\ n.queue = r.queue /\ n.hubs = r.hubs
        /\ n.scene = id /\ n.said = r.said /\ n.targets = r.targets
        /\ n.heard = r.heard /\ n.unsure = r.unsure /\ n.again = r.again /\ n.blind = r.blind
    BY <1>1 DEF SoundRecords
  <2> HIDE DEF n
  <2>3. \A v \in Speakers : Due(n, v) <=> Due(r, v)
    BY <1>1, <2>2 DEF Due, InQueue
  <2>4. Housed(n, made')
    BY <1>4, <1>6, <2>2 DEF Housed, HasTemp
  <2>5. Counted(n)
    BY <1>1, <2>2, <2>3 DEF Sane, Counted, Early
  <2>6. Clear(n, live)
    BY <1>1, <2>2 DEF Sane, Clear, Plays
  <2>7. Told(n, live)
    BY <1>1, <2>2, <2>3 DEF Sane, Told, Plays, Async, Served, Unsure
  <2>8. Sane(n, made', live)
    BY <2>1, <2>4, <2>5, <2>6, <2>7 DEF Sane
  <2> QED BY <1>1, <1>2, <1>3, <1>4, <2>8, NowSane
<1>5. CASE o # "ok"
  <2>1. ~Async(r) => r.said = "nothing"
    BY <1>1 DEF Sane, Told
  <2>2. Sane(Failed(r), made', live)
    BY <1>1, <1>2, <2>1, FailedSane DEF Sane
  <2> QED BY <1>1, <1>2, <1>3, <1>5, <2>2, NowSane
<1> QED BY <1>4, <1>5

LEMMA TriggerKeeps ==
    ASSUME Alone, NEW p \in SoundProcs, NEW o \in Outcomes, Trigger(p, o)
    PROVE  SoundSane'
<1> DEFINE r == sound[p]
           h == IF o = "refused" THEN r ELSE Hear(r, r.hubs \cap live)
           spk == IF o = "refused" THEN {} ELSE r.hubs \cap live
           erred == o # "ok"
           n == [h EXCEPT !.pc = "delete", !.erred = erred]
<1>1. /\ Sane(r, made, live) /\ r \in SoundRecords /\ r.pc = "trigger" /\ r.queue = {}
      /\ known' \subseteq Speakers /\ made \in Nat /\ live \subseteq Speakers
  BY DEF Alone, SoundSane, Trigger, Sane, Counted
<1>2. Now(p, n)
  BY DEF Trigger, AfterTrigger
<1> HIDE DEF r
<1>3. /\ h \in SoundRecords /\ h.pc = r.pc /\ h.by = r.by /\ h.who = r.who /\ h.parts = r.parts
      /\ h.fromCache = r.fromCache /\ h.queue = r.queue /\ h.hubs = r.hubs
      /\ h.scene = r.scene /\ h.said = r.said /\ h.targets = r.targets
      /\ h.unsure = r.unsure /\ h.again = r.again /\ h.blind = r.blind
      /\ \A v \in Speakers : /\ r.heard[v] \in Nat
                             /\ h.heard[v] = r.heard[v] + IF v \in spk THEN 1 ELSE 0
  <2> DEFINE heard == [v \in Speakers |-> r.heard[v] + IF v \in r.hubs \cap live THEN 1 ELSE 0]
  <2>1. r.heard \in [Speakers -> Nat]
    BY <1>1 DEF SoundRecords
  <2>2. CASE o = "refused"
    BY <1>1, <2>1, <2>2
  <2>3. CASE o # "refused"
    <3>1. heard \in [Speakers -> Nat] /\ h = [r EXCEPT !.heard = heard]
      BY <2>1, <2>3 DEF Hear
    <3>2. \A v \in Speakers : heard[v] = r.heard[v] + IF v \in spk THEN 1 ELSE 0
      BY <2>1, <2>3
    <3> HIDE DEF heard, h, spk
    <3> QED BY <1>1, <2>1, <3>1, <3>2 DEF SoundRecords
  <2> QED BY <2>2, <2>3
<1>4. \A v \in Speakers : v \in spk => Due(r, v)
  BY <1>1 DEF Due
<1>5. ~erred => spk = r.hubs \cap live
  OBVIOUS
<1>6. erred \in BOOLEAN
  OBVIOUS
<1> HIDE DEF h, spk, erred
<1>7. n \in SoundRecords
  BY <1>3, <1>6 DEF SoundRecords
<1>8. /\ n.pc = "delete" /\ n.by = r.by /\ n.who = r.who /\ n.parts = r.parts
      /\ n.fromCache = r.fromCache /\ n.queue = {} /\ n.hubs = r.hubs
      /\ n.scene = r.scene /\ n.said = r.said /\ n.targets = r.targets
      /\ n.heard = h.heard /\ n.unsure = r.unsure /\ n.again = r.again /\ n.blind = r.blind
      /\ n.erred = erred
  BY <1>1, <1>3 DEF SoundRecords
<1> HIDE DEF n
<1>9. \A v \in Speakers : ~Due(n, v)
  BY <1>8 DEF Due, InQueue
<1>10. Housed(n, made)
  BY <1>1, <1>8 DEF Sane, Housed, HasTemp
<1>11. Counted(n)
  <2>1. \A v \in Speakers : r.heard[v] + (IF Due(r, v) THEN 1 ELSE 0) <= IF r.again THEN 2 ELSE 1
    BY <1>1 DEF Sane, Counted
  <2>2. \A v \in Speakers : n.heard[v] + (IF Due(n, v) THEN 1 ELSE 0) <= IF n.again THEN 2 ELSE 1
    BY <1>3, <1>4, <1>8, <1>9, <2>1
  <2>3. Once(n.queue) /\ (n.fromCache => ~n.again)
    BY <1>1, <1>8 DEF Sane, Counted, Once
  <2> QED BY <1>8, <2>2, <2>3 DEF Counted, Early
<1>12. Clear(n, live)
  BY <1>1, <1>8 DEF Sane, Clear, Plays
<1>13. Told(n, live)
  <2>1. ~Async(r) => \A v \in r.targets \cap live : r.heard[v] > 0 \/ Unsure(r, v) \/ v \in r.hubs
    BY <1>1 DEF Sane, Told, Plays, Served, Due, InQueue
  <2>2. ~Async(r) /\ ~n.erred => \A v \in r.targets \cap live : n.heard[v] > 0 \/ Unsure(r, v)
    BY <1>1, <1>3, <1>5, <1>8, <2>1
  <2> QED BY <1>1, <1>8, <2>2 DEF Sane, Told, Plays, Async, Served, Unsure
<1>14. Sane(n, made, live)
  BY <1>7, <1>10, <1>11, <1>12, <1>13 DEF Sane
<1> QED BY <1>1, <1>2, <1>14, AloneSane

LEMMA DeleteTempKeeps ==
    ASSUME Alone, NEW p \in SoundProcs, NEW o \in Outcomes, DeleteTemp(p, o)
    PROVE  SoundSane'
<1> DEFINE r == sound[p]
<1>1. /\ Sane(r, made, live) /\ r \in SoundRecords /\ r.pc = "delete" /\ r.queue = {}
      /\ known' \subseteq Speakers /\ made \in Nat
  BY DEF Alone, SoundSane, DeleteTemp, Sane, Counted
<1>2. Now(p, IF r.erred THEN Failed(r) ELSE Ended(r, "ok"))
  BY DEF DeleteTemp
<1> HIDE DEF r
<1>3. Sane(Failed(r), made, live)
  BY <1>1, FailedSane DEF Sane, Told
<1>4. ~r.erred => Sane(Ended(r, "ok"), made, live)
  <2>1. ~Async(r) /\ ~r.erred => Succeeds(r, live)
    BY <1>1 DEF Sane, Told, Plays, Served, Due, InQueue, Succeeds
  <2> QED BY <1>1, <2>1, EndedSane DEF Sane
<1> QED BY <1>1, <1>2, <1>3, <1>4, AloneSane

LEMMA LeaveKeeps ==
    ASSUME Alone, NEW p \in SoundProcs, LeaveSound(p) \/ KillSound(p)
    PROVE  SoundSane'
<1>1. /\ Sane(sound[p], made, live) /\ made \in Nat
      /\ known' \subseteq Speakers
  BY DEF Alone, SoundSane, LeaveSound, KillSound
<1>2. CASE LeaveSound(p)
  <2>1. Async(sound[p]) /\ Now(p, Ended(sound[p], "ok"))
    BY <1>2 DEF LeaveSound, Async
  <2>2. Sane(Ended(sound[p], "ok"), made, live)
    BY <1>1, <2>1, EndedSane DEF Sane
  <2> QED BY <1>1, <2>1, <2>2, AloneSane
<1>3. CASE KillSound(p)
  <2>1. Now(p, Ended(sound[p], "killed"))
    BY <1>3 DEF KillSound
  <2>2. Sane(Ended(sound[p], "killed"), made, live)
    BY <1>1, EndedSane DEF Sane
  <2> QED BY <1>1, <2>1, <2>2, AloneSane
<1> QED BY <1>2, <1>3

LEMMA SoundKeeps ==
    ASSUME SoundSane, BoundsOK, ScenesOK, SoundNext
    PROVE  SoundSane' /\ BoundsOK' /\ ScenesOK' /\ made' \in Nat /\ made <= made'
<1>1. PICK p \in SoundProcs :
        \/ \E job \in SoundJobs[p] : BeginSound(p, job)
        \/ PlayStep(p)
        \/ LeaveSound(p) \/ KillSound(p)
  BY DEF SoundNext
<1>2. made \in Nat /\ (UNCHANGED made => made' \in Nat /\ made <= made')
  BY DEF ScenesOK
<1>3. BoundsOK /\ UNCHANGED bounds => BoundsOK'
  BY DEF BoundsOK, bounds
<1>4. ScenesOK /\ UNCHANGED hub => ScenesOK' /\ UNCHANGED made
  BY DEF ScenesOK, hub
<1>5. ASSUME NEW job \in SoundJobs[p], BeginSound(p, job)
      PROVE  SoundSane' /\ BoundsOK' /\ UNCHANGED hub
  <2>1. UNCHANGED <<live, hub>> /\ StartCommand
    BY <1>5 DEF BeginSound
  <2>2. Alone /\ UNCHANGED hub
    BY <1>2, <1>4, <2>1 DEF Alone
  <2> QED BY <1>5, <2>1, <2>2, BeginKeeps, StartTypes
<1>6. CASE LookInCache(p) \/ PlayedAll(p)
  <2>1. UNCHANGED live /\ UNCHANGED hub /\ UNCHANGED bounds
    BY <1>6 DEF LookInCache, PlayedAll
  <2>2. Alone
    BY <1>2, <1>4, <2>1 DEF Alone
  <2>3. SoundSane'
    BY <1>6, <2>2, LookKeeps, PlayedAllKeeps
  <2> QED BY <1>2, <1>3, <1>4, <2>1, <2>3
<1>7. ASSUME NEW found \in Searches, Snapshot(p, found) \/ Fresh(p, found) \/ Search(p, found)
      PROVE  SoundSane' /\ BoundsOK' /\ UNCHANGED hub
  <2>1. UNCHANGED live /\ UNCHANGED hub /\ UNCHANGED bounds
    BY <1>7 DEF Snapshot, Fresh, Search
  <2>2. Alone
    BY <1>2, <1>4, <2>1 DEF Alone
  <2>3. SoundSane'
    BY <1>7, <2>2, SnapshotKeeps, FreshKeeps, SearchKeeps
  <2> QED BY <1>3, <2>1, <2>3
<1>8. ASSUME NEW o \in Outcomes, PlayNext(p, o)
      PROVE  SoundSane' /\ BoundsOK' /\ UNCHANGED hub
  <2>1. UNCHANGED live /\ UNCHANGED hub
    BY <1>8 DEF PlayNext
  <2>2. UNCHANGED bounds \/ Mishap({})
    BY <1>8 DEF PlayNext
  <2>3. BoundsOK'
    BY <1>3, <2>2, MishapTypes
  <2>4. Alone
    BY <1>2, <1>4, <2>1 DEF Alone
  <2> QED BY <1>8, <2>1, <2>3, <2>4, PlayNextKeeps
<1>9. ASSUME NEW o \in PostOutcomes, PostTemp(p, o)
      PROVE  SoundSane' /\ BoundsOK' /\ ScenesOK' /\ made' \in Nat /\ made <= made'
  <2>1. CreateScene(Temp, o)
    BY <1>9 DEF PostTemp
  <2>2. BoundsOK' /\ ScenesOK' /\ made' \in Nat /\ made <= made'
    BY <2>1, CreateTypes
  <2> QED BY <1>9, <2>2, PostTempKeeps
<1>14. ASSUME NEW plays \in BOOLEAN, CastPending(p, plays)
       PROVE  SoundSane' /\ BoundsOK' /\ UNCHANGED hub
  <2>1. UNCHANGED live /\ UNCHANGED hub /\ Mishap({})
    BY <1>14 DEF CastPending
  <2>2. BoundsOK'
    BY <2>1, MishapTypes
  <2>3. Alone
    BY <1>2, <1>4, <2>1 DEF Alone
  <2> QED BY <1>14, <2>1, <2>2, <2>3, CastPendingKeeps
<1>10. ASSUME NEW o \in Outcomes, Trigger(p, o)
       PROVE  SoundSane' /\ BoundsOK' /\ UNCHANGED hub
  <2>1. UNCHANGED live /\ UNCHANGED hub /\ (UNCHANGED bounds \/ Answered(o))
    BY <1>10 DEF Trigger, TriggerScene
  <2>2. Alone
    BY <1>2, <1>4, <2>1 DEF Alone
  <2>3. BoundsOK'
    BY <1>3, <2>1, AnswerTypes DEF PostOutcomes
  <2> QED BY <1>10, <2>1, <2>2, <2>3, TriggerKeeps
<1>11. ASSUME NEW o \in Outcomes, DeleteTemp(p, o)
       PROVE  SoundSane' /\ BoundsOK' /\ ScenesOK' /\ UNCHANGED made
  <2>1. UNCHANGED live /\ DeleteScene(sound[p].scene, o)
    BY <1>11 DEF DeleteTemp
  <2>2. sound[p].scene \in Nat /\ sound[p].scene <= made
    BY DEF SoundSane, Sane, Housed, SoundRecords
  <2>3. BoundsOK' /\ ScenesOK' /\ UNCHANGED made
    BY <2>1, <2>2, DeleteTypes
  <2>4. Alone
    BY <1>2, <2>1, <2>3 DEF Alone
  <2> QED BY <1>11, <2>3, <2>4, DeleteTempKeeps
<1>12. CASE LeaveSound(p) \/ KillSound(p)
  <2>1. UNCHANGED live /\ UNCHANGED hub
    BY <1>12 DEF LeaveSound, KillSound
  <2>2. BoundsOK'
    <3>1. CASE LeaveSound(p)
      BY <3>1 DEF LeaveSound, BoundsOK, Causes
    <3>2. CASE KillSound(p)
      <4>1. {"killed"} \in SUBSET Causes
        BY DEF Causes
      <4> QED BY <3>2, <4>1, MishapTypes DEF KillSound
    <3> QED BY <1>12, <3>1, <3>2
  <2>3. Alone
    BY <1>2, <1>4, <2>1 DEF Alone
  <2> QED BY <1>2, <1>4, <1>12, <2>1, <2>2, <2>3, LeaveKeeps
<1>13. CASE PlayStep(p)
  BY <1>2, <1>4, <1>6, <1>7, <1>8, <1>9, <1>10, <1>11, <1>13, <1>14 DEF PlayStep
<1> QED BY <1>1, <1>2, <1>4, <1>5, <1>12, <1>13

-----------------------------------------------------------------------------
(* What autos.json and the copies of it hold.                              *)

\* A copy is the file but for the specification the command is about.
Agrees(r, specs) ==
    /\ \A s \in Specs \ {r.spec} : r.copy[s] = specs[s]
    /\ r.op = "delete" <=> r.copy[r.spec].status = "absent"
    /\ r.op = "apply" => /\ specs[r.spec].status # "absent"
                         /\ specs[r.spec].notes \subseteq r.copy[r.spec].notes

\* A write was begun and not ended.
Torn == mishaps \cap {"killed", "unsaved"} # {}

\* Unless two commands overlapped, the copies that are not out of date agree
\* with the file, and the one that is being written is the only such.
Kept ==
    "overlapped" \notin mishaps =>
        /\ owed = Present(file.specs)
        /\ \A p \in AutoProcs : HasCopy(p) /\ ~auto[p].stale => Agrees(auto[p], file.specs)
        /\ \A p \in AutoProcs : auto[p].pc = "write" =>
              /\ ~file.ok /\ ~auto[p].stale /\ ~auto[p].overtaken
              /\ \A q \in AutoProcs \ {p} : HasCopy(q) => auto[q].stale
        /\ ~file.ok => Writing \/ Torn

OvertakenWrite == \A p \in AutoProcs : auto[p].overtaken => auto[p].pc = "write"

\* A specification applied through a scene has one that was made for it, noted
\* or without a name.
Backed(s, spec, there, gone, blank) ==
    Form[s] = "scene" /\ spec.status = "applied"
    => \/ \E id \in spec.notes : id \in gone \/ [id |-> id, of |-> s] \in there
       \/ \E x \in blank : x.of = s /\ (x.id \in gone \/ x \in there)

BackedAll ==
    /\ \A s \in Specs : Backed(s, file.specs[s], scenes, removed, unnamed)
    /\ \A p \in AutoProcs : HasCopy(p) =>
          \A s \in Specs : Backed(s, auto[p].copy[s], scenes, removed, unnamed)
                            \/ (auto[p].pc = "post" /\ s = auto[p].spec)

\* Without a mishap somebody knows of every scene that has a name.
Owned(x) == \E p \in SoundProcs : HasTemp(sound[p]) /\ sound[p].scene = x.id
Pending(x) == \E p \in AutoProcs : auto[p].pc \in {"save", "write"} /\ x.id \in auto[p].copy[x.of].notes

Tracked ==
    /\ \A x \in scenes : x.of # Temp => Form[x.of] = "scene"
    /\ mishaps = {} =>
          \A x \in scenes \ unnamed :
             IF x.of = Temp THEN Owned(x)
             ELSE x.id \in file.specs[x.of].notes \/ x.of \notin owed \/ Pending(x)

HubInv ==
    /\ AutosTypeOK /\ BoundsOK /\ ScenesOK
    /\ \A p \in AutoProcs : Suited(auto[p], made)
    /\ SoundSane
    /\ Kept /\ OvertakenWrite /\ BackedAll /\ Tracked

LEMMA InvTypes ==
    ASSUME HubInv
    PROVE  /\ TypeOK /\ Given /\ made \in Nat
           /\ file \in [ok : BOOLEAN, specs : Stores] /\ owed \subseteq Specs
           /\ \A p \in AutoProcs : auto[p] \in AutoRecords
<1>1. SoundTypeOK
  BY DEF HubInv, SoundSane, Sane, Housed, SoundTypeOK
<1>2. TypeOK
  BY <1>1, TypesParted DEF HubInv
<1>3. Given
  BY DEF HubInv, SoundSane, Sane, Housed, Given
<1> QED BY <1>2, <1>3 DEF HubInv, AutosTypeOK, ScenesOK

\* A command gets on, or gives up, and the file is as it was.
LEMMA KeptFrame ==
    ASSUME HubInv, NEW p \in AutoProcs, NEW n, Do(p, n), UNCHANGED <<file, owed>>,
           mishaps \subseteq mishaps', n.pc # "write",
           auto[p].pc = "write" => Torn',
           n.pc \in {"post", "save"} /\ ~n.stale /\ "overlapped" \notin mishaps
           => Agrees(n, file.specs) /\ (file.ok \/ (HasCopy(p) /\ ~auto[p].stale))
    PROVE  Kept'
<1>1. \A q \in AutoProcs : auto'[q] = IF q = p THEN n ELSE auto[q]
  BY DEF HubInv, AutosTypeOK, Do
<1> SUFFICES ASSUME "overlapped" \notin mishaps'
             PROVE  /\ owed = Present(file.specs)
                    /\ \A q \in AutoProcs :
                          auto'[q].pc \in {"post", "save", "write"} /\ ~auto'[q].stale
                          => Agrees(auto'[q], file.specs)
                    /\ \A q \in AutoProcs : auto'[q].pc = "write" =>
                          /\ ~file.ok /\ ~auto'[q].stale /\ ~auto'[q].overtaken
                          /\ \A u \in AutoProcs \ {q} :
                                auto'[u].pc \in {"post", "save", "write"} => auto'[u].stale
                    /\ ~file.ok => (\E q \in AutoProcs : auto'[q].pc = "write") \/ Torn'
  BY DEF Kept, HasCopy, Writing, Present
<1>2. /\ owed = Present(file.specs)
      /\ \A q \in AutoProcs : HasCopy(q) /\ ~auto[q].stale => Agrees(auto[q], file.specs)
      /\ \A q \in AutoProcs : auto[q].pc = "write" =>
            /\ ~file.ok /\ ~auto[q].stale /\ ~auto[q].overtaken
            /\ \A u \in AutoProcs \ {q} : HasCopy(u) => auto[u].stale
      /\ ~file.ok => Writing \/ Torn
  BY DEF HubInv, Kept
<1>3. n.pc \in {"post", "save"} /\ ~n.stale
      => Agrees(n, file.specs) /\ (file.ok \/ (HasCopy(p) /\ ~auto[p].stale))
  OBVIOUS
<1>4. \A q \in AutoProcs :
         auto'[q].pc \in {"post", "save", "write"} /\ ~auto'[q].stale => Agrees(auto'[q], file.specs)
  BY <1>1, <1>2, <1>3 DEF HasCopy
<1>5. ASSUME NEW q \in AutoProcs, auto'[q].pc = "write"
      PROVE  /\ ~file.ok /\ ~auto'[q].stale /\ ~auto'[q].overtaken
             /\ \A u \in AutoProcs \ {q} :
                   auto'[u].pc \in {"post", "save", "write"} => auto'[u].stale
  <2>1. q # p /\ auto'[q] = auto[q]
    BY <1>1, <1>5
  <2>2. /\ ~file.ok /\ ~auto[q].stale /\ ~auto[q].overtaken
        /\ \A u \in AutoProcs \ {q} : HasCopy(u) => auto[u].stale
    BY <1>2, <1>5, <2>1
  <2>3. n.pc \in {"post", "save"} => n.stale
    BY <1>3, <2>1, <2>2
  <2>4. \A u \in AutoProcs \ {q} : auto'[u].pc \in {"post", "save", "write"} => auto'[u].stale
    BY <1>1, <2>2, <2>3 DEF HasCopy
  <2> QED BY <2>1, <2>2, <2>4
<1>6. ~file.ok => (\E q \in AutoProcs : auto'[q].pc = "write") \/ Torn'
  BY <1>1, <1>2 DEF Writing, Torn
<1> QED BY <1>2, <1>4, <1>5, <1>6

LEMMA BackedGrows ==
    ASSUME NEW s, NEW spec, NEW there, NEW gone, NEW blank, NEW there2, NEW gone2, NEW blank2,
           Backed(s, spec, there, gone, blank), blank \subseteq blank2,
           \A x \in there : x \in there2 \/ x.id \in gone2, gone \subseteq gone2
    PROVE  Backed(s, spec, there2, gone2, blank2)
BY DEF Backed

LEMMA BackedFrame ==
    ASSUME HubInv, NEW p \in AutoProcs, NEW n, Do(p, n), UNCHANGED file,
           \A x \in scenes : x \in scenes' \/ x.id \in removed', removed \subseteq removed',
           unnamed \subseteq unnamed',
           n.pc \in {"post", "save", "write"} =>
              \A s \in Specs : Backed(s, n.copy[s], scenes', removed', unnamed') \/ (n.pc = "post" /\ s = n.spec)
    PROVE  BackedAll'
<1>1. \A q \in AutoProcs : auto'[q] = IF q = p THEN n ELSE auto[q]
  BY DEF HubInv, AutosTypeOK, Do
<1>2. \A s \in Specs : Backed(s, file.specs[s], scenes', removed', unnamed')
  BY BackedGrows DEF HubInv, BackedAll
<1>3. \A q \in AutoProcs : HasCopy(q) =>
         \A s \in Specs : Backed(s, auto[q].copy[s], scenes', removed', unnamed')
                           \/ (auto[q].pc = "post" /\ s = auto[q].spec)
  BY BackedGrows DEF HubInv, BackedAll
<1>4. \A q \in AutoProcs : auto'[q].pc \in {"post", "save", "write"} =>
         \A s \in Specs : Backed(s, auto'[q].copy[s], scenes', removed', unnamed')
                           \/ (auto'[q].pc = "post" /\ s = auto'[q].spec)
  BY <1>1, <1>3 DEF HasCopy
<1> QED BY <1>2, <1>4 DEF BackedAll, HasCopy

\* No scene is made, and the command had noted none.
LEMMA TrackedFrame ==
    ASSUME HubInv, NEW p \in AutoProcs, NEW n, Do(p, n), UNCHANGED <<file, owed, sound>>,
           mishaps \subseteq mishaps', scenes' \subseteq scenes, unnamed \subseteq unnamed',
           auto[p].pc \notin {"save", "write"} \/ mishaps' # {}
    PROVE  Tracked'
<1>1. \A q \in AutoProcs : auto'[q] = IF q = p THEN n ELSE auto[q]
  BY DEF HubInv, AutosTypeOK, Do
<1>2. \A x \in scenes' : x.of # Temp => Form[x.of] = "scene"
  BY DEF HubInv, Tracked
<1>3. CASE mishaps' # {}
  BY <1>2, <1>3 DEF Tracked
<1>4. CASE mishaps' = {}
  <2>1. \A x \in scenes \ unnamed : IF x.of = Temp THEN Owned(x)
                          ELSE x.id \in file.specs[x.of].notes \/ x.of \notin owed \/ Pending(x)
    BY <1>4 DEF HubInv, Tracked
  <2>2. ASSUME NEW x \in scenes, Pending(x)
        PROVE  \E q \in AutoProcs : auto'[q].pc \in {"save", "write"} /\ x.id \in auto'[q].copy[x.of].notes
    BY <1>1, <1>4, <2>2 DEF Pending
  <2>3. \A x \in scenes' \ unnamed' :
           IF x.of = Temp THEN \E q \in SoundProcs : HasTemp(sound'[q]) /\ sound'[q].scene = x.id
           ELSE \/ x.id \in file'.specs[x.of].notes \/ x.of \notin owed'
                \/ \E q \in AutoProcs : auto'[q].pc \in {"save", "write"} /\ x.id \in auto'[q].copy[x.of].notes
    BY <2>1, <2>2 DEF Owned
  <2> QED BY <1>2, <2>3 DEF Tracked, Owned, Pending
<1> QED BY <1>3, <1>4

LEMMA OvertakenFrame ==
    ASSUME HubInv, NEW p \in AutoProcs, NEW n, Do(p, n), ~n.overtaken
    PROVE  OvertakenWrite'
BY DEF HubInv, AutosTypeOK, OvertakenWrite, Do

\* What a step about automations has to keep besides the types.
Books == Kept /\ OvertakenWrite /\ BackedAll /\ Tracked

LEMMA IdleKeeps ==
    ASSUME HubInv, NEW p \in AutoProcs, NEW n, Do(p, n), n.pc \in {"idle", "load", "unscene"},
           ~n.overtaken, UNCHANGED <<file, owed, sound>>, mishaps \subseteq mishaps',
           unnamed \subseteq unnamed',
           scenes' \subseteq scenes, \A x \in scenes : x \in scenes' \/ x.id \in removed',
           removed \subseteq removed', auto[p].pc \in {"save", "write"} => Torn'
    PROVE  Books'
<1>1. Kept'
  BY KeptFrame
<1>2. BackedAll'
  BY BackedFrame
<1>3. Tracked'
  BY TrackedFrame DEF Torn
<1> QED BY <1>1, <1>2, <1>3, OvertakenFrame DEF Books

LEMMA BeginAutoKeeps ==
    ASSUME HubInv, UNCHANGED soundVars, NEW p \in AutoProcs, NEW job \in AutoJobs[p], BeginAuto(p, job)
    PROVE  Books'
<1>1. /\ UNCHANGED <<file, owed, sound, scenes, removed, unnamed, mishaps>>
      /\ auto[p].pc = "idle"
  BY DEF BeginAuto, StartCommand, hub, soundVars
<1>2. CASE job.op = "unscene"
  <2>1. PICK x \in scenes : Do(p, [AutoIdle EXCEPT !.pc = "unscene", !.op = "unscene", !.target = x.id])
    BY <1>2 DEF BeginAuto
  <2> DEFINE n == [AutoIdle EXCEPT !.pc = "unscene", !.op = "unscene", !.target = x.id]
  <2>2. n.pc = "unscene" /\ ~n.overtaken
    BY DEF AutoIdle
  <2> HIDE DEF n
  <2>3. Do(p, n)
    BY <2>1 DEF n
  <2> QED BY <1>1, <2>2, <2>3, IdleKeeps
<1>3. CASE job.op # "unscene"
  <2> DEFINE n == [AutoIdle EXCEPT !.pc = "load", !.op = job.op, !.spec = job.spec]
  <2>1. Do(p, n)
    BY <1>3 DEF BeginAuto
  <2>2. n.pc = "load" /\ ~n.overtaken
    BY DEF AutoIdle
  <2> HIDE DEF n
  <2> QED BY <1>1, <2>1, <2>2, IdleKeeps
<1> QED BY <1>2, <1>3

\* How a command's change of its copy relates to the file it was read from.
LEMMA MarkedAgrees ==
    ASSUME NEW r \in AutoRecords, NEW specs \in Stores, r.op \in {"add", "delete", "apply"},
           r.op = "add" \/ specs[r.spec].status # "absent",
           r.copy = [specs EXCEPT ![r.spec] = Marked(@, r.op, r.spec)]
    PROVE  Agrees(r, specs)
<1>1. r.spec \in Specs /\ specs[r.spec] \in [status : Statuses, notes : SUBSET SceneIds]
  BY DEF AutoRecords, Stores
<1>2. /\ \A s \in Specs \ {r.spec} : r.copy[s] = specs[s]
      /\ r.copy[r.spec] = Marked(specs[r.spec], r.op, r.spec)
  BY <1>1 DEF Stores
<1>3. CASE r.op = "add"
  BY <1>1, <1>2, <1>3 DEF Agrees, Marked, Absent
<1>4. CASE r.op = "delete"
  BY <1>1, <1>2, <1>4 DEF Agrees, Marked, Absent
<1>5. CASE r.op = "apply"
  BY <1>1, <1>2, <1>5 DEF Agrees, Marked
<1> QED BY <1>3, <1>4, <1>5

LEMMA LoadKeeps ==
    ASSUME HubInv, UNCHANGED soundVars, NEW p \in AutoProcs, LoadAutos(p)
    PROVE  Books'
<1> DEFINE r == auto[p]
           changed == [file.specs EXCEPT ![r.spec] = Marked(@, r.op, r.spec)]
           pc == IF r.op = "apply" /\ Form[r.spec] = "scene" THEN "post" ELSE "save"
           n == [r EXCEPT !.pc = pc, !.copy = changed]
<1>1. /\ UNCHANGED <<file, owed, sound, scenes, removed, unnamed, mishaps>>
      /\ r.pc = "load" /\ r \in AutoRecords /\ file.specs \in Stores
  BY InvTypes DEF LoadAutos, hub, bounds, soundVars
<1>2. \/ Do(p, AutoIdle)
      \/ /\ file.ok /\ r.op # "list" /\ (r.op = "add" \/ file.specs[r.spec].status # "absent")
         /\ Do(p, n)
  BY DEF LoadAutos, Loaded
<1>3. CASE Do(p, AutoIdle)
  <2>1. AutoIdle.pc = "idle" /\ ~AutoIdle.overtaken
    BY DEF AutoIdle
  <2> QED BY <1>1, <1>3, <2>1, IdleKeeps
<1>4. CASE /\ file.ok /\ r.op # "list" /\ (r.op = "add" \/ file.specs[r.spec].status # "absent")
           /\ Do(p, n)
  <2>0. ~r.overtaken /\ r.spec \in Specs /\ r.op \in {"add", "delete", "apply"}
    BY <1>1, <1>4 DEF HubInv, OvertakenWrite, Suited, AutoRecords
  <2>1. changed \in Stores
    BY <1>1, <2>0, MarkedType
  <2>2. \A s \in Specs : changed[s] = IF s = r.spec THEN Marked(file.specs[s], r.op, s) ELSE file.specs[s]
    BY <1>1 DEF Stores
  <2>9. changed = [file.specs EXCEPT ![r.spec] = Marked(@, r.op, r.spec)] /\ pc \in {"post", "save"}
    OBVIOUS
  <2>10. pc = "post" <=> r.op = "apply" /\ Form[r.spec] = "scene"
    OBVIOUS
  <2> HIDE DEF changed, pc
  <2>3. /\ n \in AutoRecords /\ n.pc = pc /\ n.copy = changed /\ n.op = r.op /\ n.spec = r.spec
        /\ ~n.overtaken
    BY <1>1, <2>0, <2>1, <2>9 DEF AutoRecords
  <2> HIDE DEF n, r
  <2>4. Agrees(n, file.specs)
    BY <1>1, <1>4, <2>0, <2>3, <2>9, MarkedAgrees
  <2>5. Kept'
    BY <1>1, <1>4, <2>3, <2>4, <2>9, KeptFrame DEF r
  <2>6. BackedAll'
    <3>1. \A s \in Specs : Backed(s, file.specs[s], scenes, removed, unnamed)
      BY DEF HubInv, BackedAll
    <3>2. r.op = "add" => Form[r.spec] # "scene"
      BY DEF HubInv, Suited, r
    <3>3. \A s \in Specs : Backed(s, changed[s], scenes, removed, unnamed) \/ (pc = "post" /\ s = r.spec)
      <4>1. ASSUME NEW s \in Specs, s # r.spec PROVE Backed(s, changed[s], scenes, removed, unnamed)
        BY <2>2, <3>1, <4>1
      <4>2. Backed(r.spec, changed[r.spec], scenes, removed, unnamed) \/ pc = "post"
        <5>1. CASE r.op = "delete"
          BY <2>0, <2>2, <5>1 DEF Backed, Marked, Absent
        <5>2. CASE r.op # "delete"
          BY <2>0, <2>10, <3>2, <5>2 DEF Backed
        <5> QED BY <5>1, <5>2
      <4> QED BY <4>1, <4>2
    <3> QED BY <1>1, <1>4, <2>3, <3>3, BackedFrame
  <2>7. Tracked'
    BY <1>1, <1>4, TrackedFrame DEF r
  <2> QED BY <1>4, <2>3, <2>5, <2>6, <2>7, OvertakenFrame DEF Books
<1> QED BY <1>2, <1>3, <1>4

LEMMA ApplyKeeps ==
    ASSUME HubInv, UNCHANGED soundVars, NEW p \in AutoProcs, NEW o \in PostOutcomes, ApplyScene(p, o)
    PROVE  Books'
<1> DEFINE r == auto[p]
           id == made + 1
           noted == IF o = "ok" THEN Noted(r.copy, r.spec, id) ELSE r.copy
           n == [r EXCEPT !.pc = "save", !.copy = noted]
<1>1. /\ UNCHANGED <<file, owed, sound>>
      /\ r.pc = "post" /\ r \in AutoRecords /\ made \in Nat /\ CreateScene(r.spec, o)
  BY InvTypes DEF ApplyScene, soundVars
<1>2. r.spec \in Specs /\ r.copy \in Stores /\ r.op = "apply" /\ Form[r.spec] = "scene" /\ ~r.overtaken
  BY <1>1 DEF HubInv, AutoRecords, Suited, OvertakenWrite
<1>3. /\ mishaps \subseteq mishaps' /\ (o = "lost" => "lost" \in mishaps') /\ removed' = removed
      /\ scenes \subseteq scenes'
      /\ \A x \in scenes' : x \in scenes \/ (o # "refused" /\ x = [id |-> id, of |-> r.spec])
      /\ o \in {"ok", "blank"} => [id |-> id, of |-> r.spec] \in scenes'
      /\ unnamed \subseteq unnamed' /\ (o = "blank" => [id |-> id, of |-> r.spec] \in unnamed')
  BY <1>1, <1>2, CreateTypes DEF HubInv
<1>4. IF o \in {"ok", "blank"} THEN Do(p, n) ELSE Do(p, AutoIdle)
  BY DEF ApplyScene, AfterPost
<1>5. CASE o \notin {"ok", "blank"}
  <2>1. AutoIdle.pc = "idle" /\ ~AutoIdle.overtaken
    BY DEF AutoIdle
  <2>2. CASE o = "refused"
    <3>1. scenes' \subseteq scenes
      BY <1>3, <2>2
    <3> QED BY <1>1, <1>3, <1>4, <1>5, <2>1, <3>1, IdleKeeps
  <2>3. CASE o = "lost"
    <3>1. Kept'
      BY <1>1, <1>3, <1>4, <1>5, <2>1, KeptFrame
    <3>2. BackedAll'
      BY <1>1, <1>3, <1>4, <1>5, <2>1, BackedFrame
    <3>3. \A x \in scenes' : x.of # Temp => Form[x.of] = "scene"
      BY <1>2, <1>3 DEF HubInv, Tracked
    <3>4. Tracked'
      BY <1>3, <2>3, <3>3 DEF Tracked
    <3> QED BY <1>4, <1>5, <2>1, <3>1, <3>2, <3>4, OvertakenFrame DEF Books
  <2> QED BY <1>5, <2>2, <2>3 DEF PostOutcomes, Outcomes
<1>6. CASE o \in {"ok", "blank"}
  <2>1. noted \in Stores
    BY <1>1, <1>2, NotedType DEF SceneIds
  <2>2. /\ \A s \in Specs : r.copy[s].notes \subseteq noted[s].notes /\ noted[s].status = r.copy[s].status
        /\ \A s \in Specs \ {r.spec} : noted[s] = r.copy[s]
        /\ o = "ok" => id \in noted[r.spec].notes
    BY <1>2 DEF Noted, Stores
  <2> HIDE DEF noted
  <2>3. /\ n \in AutoRecords /\ n.pc = "save" /\ n.copy = noted /\ n.op = r.op /\ n.spec = r.spec
        /\ n.stale = r.stale /\ ~n.overtaken
    BY <1>1, <1>2, <2>1 DEF AutoRecords
  <2>4. Do(p, n)
    BY <1>4, <1>6
  <2> HIDE DEF n, r, id
  <2>5. Kept'
    <3>1. "overlapped" \notin mishaps /\ ~r.stale => Agrees(r, file.specs)
      BY <1>1 DEF HubInv, Kept, HasCopy, r
    <3>2. "overlapped" \notin mishaps /\ ~r.stale => Agrees(n, file.specs)
      BY <1>2, <2>2, <2>3, <3>1 DEF Agrees
    <3> QED BY <1>1, <1>3, <2>3, <2>4, <3>2, KeptFrame DEF r, HasCopy
  <2>6. BackedAll'
    <3>1. \A s \in Specs : s # r.spec => Backed(s, r.copy[s], scenes, removed, unnamed)
      BY <1>1 DEF HubInv, BackedAll, HasCopy, r
    <3>2. \A s \in Specs : s # r.spec => Backed(s, noted[s], scenes', removed', unnamed')
      BY <1>3, <2>2, <3>1, BackedGrows
    <3>3. Backed(r.spec, noted[r.spec], scenes', removed', unnamed')
      <4>1. CASE o = "ok"
        BY <1>3, <2>2, <4>1 DEF Backed
      <4>2. CASE o = "blank"
        <5> DEFINE x == [id |-> id, of |-> r.spec]
        <5>1. x \in unnamed' /\ x \in scenes' /\ x.of = r.spec
          BY <1>3, <4>2
        <5> HIDE DEF x
        <5> QED BY <5>1 DEF Backed
      <4> QED BY <1>6, <4>1, <4>2
    <3> QED BY <1>1, <1>3, <2>3, <2>4, <3>2, <3>3, BackedFrame
  <2>7. Tracked'
    <3>1. \A q \in AutoProcs : auto'[q] = IF q = p THEN n ELSE auto[q]
      BY <2>4 DEF HubInv, AutosTypeOK, Do
    <3>2. \A x \in scenes' : x.of # Temp => Form[x.of] = "scene"
      BY <1>2, <1>3 DEF HubInv, Tracked
    <3>3. CASE mishaps' # {}
      BY <3>2, <3>3 DEF Tracked
    <3>4. CASE mishaps' = {}
      <4>1. \A x \in scenes \ unnamed : IF x.of = Temp THEN Owned(x)
                              ELSE x.id \in file.specs[x.of].notes \/ x.of \notin owed \/ Pending(x)
        BY <1>3, <3>4 DEF HubInv, Tracked
      <4>2. ASSUME NEW x \in scenes, Pending(x)
            PROVE  \E q \in AutoProcs : auto'[q].pc \in {"save", "write"} /\ x.id \in auto'[q].copy[x.of].notes
        BY <1>1, <3>1, <4>2 DEF Pending, r
      <4>3. ASSUME NEW x \in scenes' \ unnamed', x \notin scenes
            PROVE  /\ x.of # Temp
                   /\ auto'[p].pc \in {"save", "write"} /\ x.id \in auto'[p].copy[x.of].notes
        <5>1. x.id = id /\ x.of = r.spec /\ o = "ok"
          BY <1>3, <1>6, <4>3
        <5> QED BY <1>2, <2>2, <2>3, <3>1, <5>1, TempAssumption
      <4>4. \A x \in scenes' \ unnamed' :
              IF x.of = Temp THEN \E q \in SoundProcs : HasTemp(sound'[q]) /\ sound'[q].scene = x.id
              ELSE \/ x.id \in file'.specs[x.of].notes \/ x.of \notin owed'
                   \/ \E q \in AutoProcs : auto'[q].pc \in {"save", "write"}
                                          /\ x.id \in auto'[q].copy[x.of].notes
        BY <1>1, <1>3, <4>1, <4>2, <4>3 DEF Owned
      <4> QED BY <3>2, <4>4 DEF Tracked, Owned, Pending
    <3> QED BY <3>3, <3>4
  <2> QED BY <2>3, <2>4, <2>5, <2>6, <2>7, OvertakenFrame DEF Books
<1> QED BY <1>5, <1>6

LEMMA UnsceneKeeps ==
    ASSUME HubInv, UNCHANGED soundVars, NEW p \in AutoProcs, NEW o \in Outcomes, DeleteSceneByName(p, o)
    PROVE  Books'
<1>1. /\ UNCHANGED <<file, owed, sound>> /\ Do(p, AutoIdle)
      /\ auto[p].pc = "unscene" /\ DeleteScene(auto[p].target, o)
  BY DEF DeleteSceneByName, soundVars
<1>2. auto[p].target \in Nat /\ auto[p].target <= made
  BY InvTypes DEF HubInv, Suited, AutoRecords
<1>3. /\ mishaps \subseteq mishaps' /\ removed \subseteq removed' /\ scenes' \subseteq scenes
      /\ unnamed' = unnamed /\ \A x \in scenes \ scenes' : x.id \in removed'
  BY <1>1, <1>2, DeleteTypes DEF HubInv
<1>4. AutoIdle.pc = "idle" /\ ~AutoIdle.overtaken
  BY DEF AutoIdle
<1>5. \A x \in scenes : x \in scenes' \/ x.id \in removed'
  BY <1>3
<1> QED BY <1>1, <1>3, <1>4, <1>5, IdleKeeps

LEMMA KillAutoKeeps ==
    ASSUME HubInv, UNCHANGED soundVars, NEW p \in AutoProcs, KillAuto(p) \/ SaveFails(p)
    PROVE  Books'
<1>1. /\ UNCHANGED <<file, owed, sound, scenes, removed, unnamed>> /\ Do(p, AutoIdle)
      /\ mishaps \subseteq mishaps' /\ Torn'
  BY DEF KillAuto, SaveFails, hub, soundVars, Mishap, Torn
<1>2. AutoIdle.pc = "idle" /\ ~AutoIdle.overtaken
  BY DEF AutoIdle
<1> QED BY <1>1, <1>2, IdleKeeps

LEMMA TruncateKeeps ==
    ASSUME HubInv, UNCHANGED soundVars, NEW p \in AutoProcs, TruncateAutos(p)
    PROVE  Books'
<1>1. /\ UNCHANGED <<owed, sound, scenes, removed, unnamed>> /\ file'.specs = file.specs /\ ~file'.ok
      /\ auto[p].pc = "save" /\ mishaps \subseteq mishaps'
      /\ auto[p].stale => "overlapped" \in mishaps'
      /\ ~auto[p].stale => mishaps' = mishaps
  BY InvTypes DEF TruncateAutos, hub, soundVars
<1>2. \A q \in AutoProcs : auto[q] \in AutoRecords
  BY InvTypes
<1>3. \A q \in AutoProcs :
         /\ auto'[q].op = auto[q].op /\ auto'[q].spec = auto[q].spec /\ auto'[q].copy = auto[q].copy
         /\ auto'[q].overtaken = auto[q].overtaken
         /\ auto'[q].pc = IF q = p THEN "write" ELSE auto[q].pc
         /\ q = p => auto'[q].stale = auto[q].stale
         /\ q # p => (auto'[q].stale <=> auto[q].stale \/ HasCopy(q))
  BY <1>2 DEF TruncateAutos, AutoRecords
<1>4. OvertakenWrite'
  BY <1>1, <1>3 DEF HubInv, OvertakenWrite
<1>5. BackedAll'
  <2>1. \A s \in Specs : Backed(s, file'.specs[s], scenes', removed', unnamed')
    BY <1>1 DEF HubInv, BackedAll
  <2>2. \A q \in AutoProcs : auto'[q].pc \in {"post", "save", "write"} =>
           \A s \in Specs : Backed(s, auto'[q].copy[s], scenes', removed', unnamed')
                             \/ (auto'[q].pc = "post" /\ s = auto'[q].spec)
    BY <1>1, <1>3 DEF HubInv, BackedAll, HasCopy
  <2> QED BY <2>1, <2>2 DEF BackedAll, HasCopy
<1>6. Tracked'
  <2>1. \A x \in scenes' : x.of # Temp => Form[x.of] = "scene"
    BY <1>1 DEF HubInv, Tracked
  <2>2. ASSUME mishaps' = {}, NEW x \in scenes' \ unnamed'
        PROVE  IF x.of = Temp THEN \E q \in SoundProcs : HasTemp(sound'[q]) /\ sound'[q].scene = x.id
               ELSE \/ x.id \in file'.specs[x.of].notes \/ x.of \notin owed'
                    \/ \E q \in AutoProcs : auto'[q].pc \in {"save", "write"}
                                           /\ x.id \in auto'[q].copy[x.of].notes
    <3>1. IF x.of = Temp THEN Owned(x)
          ELSE x.id \in file.specs[x.of].notes \/ x.of \notin owed \/ Pending(x)
      BY <1>1, <2>2 DEF HubInv, Tracked
    <3>2. Pending(x) => \E q \in AutoProcs : auto'[q].pc \in {"save", "write"}
                                           /\ x.id \in auto'[q].copy[x.of].notes
      BY <1>3 DEF Pending
    <3> QED BY <1>1, <3>1, <3>2 DEF Owned
  <2> QED BY <2>1, <2>2 DEF Tracked, Owned, Pending
<1>7. Kept'
  <2> SUFFICES ASSUME "overlapped" \notin mishaps'
               PROVE  /\ owed' = Present(file'.specs)
                      /\ \A q \in AutoProcs :
                            auto'[q].pc \in {"post", "save", "write"} /\ ~auto'[q].stale
                            => Agrees(auto'[q], file'.specs)
                      /\ \A q \in AutoProcs : auto'[q].pc = "write" =>
                            /\ ~file'.ok /\ ~auto'[q].stale /\ ~auto'[q].overtaken
                            /\ \A u \in AutoProcs \ {q} :
                                  auto'[u].pc \in {"post", "save", "write"} => auto'[u].stale
                      /\ ~file'.ok => (\E q \in AutoProcs : auto'[q].pc = "write") \/ Torn'
    BY DEF Kept, HasCopy, Writing, Present
  <2>1. /\ owed = Present(file.specs) /\ ~auto[p].stale
        /\ \A q \in AutoProcs : HasCopy(q) /\ ~auto[q].stale => Agrees(auto[q], file.specs)
        /\ \A q \in AutoProcs : auto[q].pc = "write" =>
              \A u \in AutoProcs \ {q} : HasCopy(u) => auto[u].stale
    BY <1>1 DEF HubInv, Kept
  <2>2. HasCopy(p)
    BY <1>1 DEF HasCopy
  <2>3. \A q \in AutoProcs : q # p => auto[q].pc # "write"
    BY <2>1, <2>2
  <2>4. ~auto[p].overtaken
    BY <1>1 DEF HubInv, OvertakenWrite
  <2>5. \A q \in AutoProcs : q # p /\ auto'[q].pc \in {"post", "save", "write"} => auto'[q].stale
    BY <1>3 DEF HasCopy
  <2>6. ~auto'[p].stale /\ ~auto'[p].overtaken /\ auto'[p].pc = "write"
    BY <1>3, <2>1, <2>4
  <2>7. Agrees(auto'[p], file'.specs)
    BY <1>1, <1>3, <2>1, <2>2 DEF Agrees
  <2>8. \A q \in AutoProcs : q # p => auto'[q].pc # "write"
    BY <1>3, <2>3
  <2>9. owed' = Present(file'.specs)
    BY <1>1, <2>1 DEF Present
  <2> QED BY <1>1, <2>5, <2>6, <2>7, <2>8, <2>9
<1> QED BY <1>4, <1>5, <1>6, <1>7 DEF Books

LEMMA WriteKeeps ==
    ASSUME HubInv, UNCHANGED soundVars, NEW p \in AutoProcs, NEW garbled \in BOOLEAN,
           WriteAutos(p, garbled)
    PROVE  Books'
<1> DEFINE r == auto[p]
<1>1. /\ UNCHANGED <<sound, scenes, removed, unnamed, mishaps>>
      /\ file'.specs = r.copy /\ (garbled => r.overtaken) /\ (file'.ok <=> ~garbled)
      /\ r.pc = "write" /\ r \in AutoRecords
      /\ r.op = "add" => owed' = owed \cup {r.spec}
      /\ r.op = "delete" => owed' = owed \ {r.spec}
      /\ r.op = "apply" => owed' = owed
  BY InvTypes DEF WriteAutos, hub, bounds, soundVars
<1>2. \A q \in AutoProcs : auto[q] \in AutoRecords
  BY InvTypes
<1>3. /\ r.op \in {"add", "delete", "apply"} /\ r.spec \in Specs /\ r.copy \in Stores
      /\ r.op = "add" => Form[r.spec] # "scene"
  BY <1>1 DEF HubInv, Suited, AutoRecords
<1>4. /\ \A q \in AutoProcs \ {p} :
            /\ auto'[q].op = auto[q].op /\ auto'[q].spec = auto[q].spec
            /\ auto'[q].copy = auto[q].copy /\ auto'[q].pc = auto[q].pc
            /\ auto'[q].stale = auto[q].stale
            /\ auto'[q].overtaken => auto[q].overtaken \/ auto[q].pc = "write"
      /\ auto'[p].pc = "idle" /\ ~auto'[p].overtaken
  BY <1>2 DEF WriteAutos, AutoRecords, AutoIdle
<1>5. OvertakenWrite'
  BY <1>4 DEF HubInv, OvertakenWrite
<1>6. BackedAll'
  <2>1. \A s \in Specs : Backed(s, r.copy[s], scenes, removed, unnamed)
    BY <1>1 DEF HubInv, BackedAll, HasCopy
  <2>2. \A s \in Specs : Backed(s, file'.specs[s], scenes', removed', unnamed')
    BY <1>1, <2>1
  <2>3. \A q \in AutoProcs : auto'[q].pc \in {"post", "save", "write"} =>
           \A s \in Specs : Backed(s, auto'[q].copy[s], scenes', removed', unnamed')
                             \/ (auto'[q].pc = "post" /\ s = auto'[q].spec)
    BY <1>1, <1>4 DEF HubInv, BackedAll, HasCopy
  <2> QED BY <2>2, <2>3 DEF BackedAll, HasCopy
<1>7. ASSUME "overlapped" \notin mishaps
      PROVE  /\ owed = Present(file.specs) /\ Agrees(r, file.specs) /\ ~r.overtaken
             /\ \A q \in AutoProcs \ {p} : HasCopy(q) => auto[q].stale
  <2>1. /\ owed = Present(file.specs) /\ ~r.overtaken /\ ~r.stale
        /\ \A q \in AutoProcs \ {p} : HasCopy(q) => auto[q].stale
    BY <1>1, <1>7 DEF HubInv, Kept
  <2>2. Agrees(r, file.specs)
    BY <1>1, <1>7, <2>1 DEF HubInv, Kept, HasCopy
  <2> QED BY <2>1, <2>2
<1> HIDE DEF r
<1>8. Kept'
  <2> SUFFICES ASSUME "overlapped" \notin mishaps'
               PROVE  /\ owed' = Present(file'.specs)
                      /\ \A q \in AutoProcs :
                            auto'[q].pc \in {"post", "save", "write"} => auto'[q].stale
                      /\ \A q \in AutoProcs : auto'[q].pc # "write"
                      /\ file'.ok
    BY DEF Kept, HasCopy, Writing, Present
  <2>1. "overlapped" \notin mishaps
    BY <1>1
  <2>2. \A q \in AutoProcs : auto'[q].pc \in {"post", "save", "write"} => auto'[q].stale
    BY <1>4, <1>7, <2>1 DEF HasCopy
  <2>3. \A q \in AutoProcs \ {p} : auto[q].pc # "write"
    BY <1>1, <2>1 DEF HubInv, Kept, HasCopy, r
  <2>4. owed' = Present(file'.specs)
    BY <1>1, <1>3, <1>7, <2>1 DEF Agrees, Present
  <2> QED BY <1>1, <1>4, <1>7, <2>1, <2>2, <2>3, <2>4
<1>9. Tracked'
  <2>1. \A x \in scenes' : x.of # Temp => Form[x.of] = "scene"
    BY <1>1 DEF HubInv, Tracked
  <2>2. ASSUME mishaps' = {}, NEW x \in scenes' \ unnamed'
        PROVE  IF x.of = Temp THEN \E q \in SoundProcs : HasTemp(sound'[q]) /\ sound'[q].scene = x.id
               ELSE \/ x.id \in file'.specs[x.of].notes \/ x.of \notin owed'
                    \/ \E q \in AutoProcs : auto'[q].pc \in {"save", "write"}
                                           /\ x.id \in auto'[q].copy[x.of].notes
    <3>1. IF x.of = Temp THEN Owned(x)
          ELSE x.id \in file.specs[x.of].notes \/ x.of \notin owed \/ Pending(x)
      BY <1>1, <2>2 DEF HubInv, Tracked
    <3>2. CASE x.of = Temp
      BY <1>1, <3>1, <3>2 DEF Owned
    <3>3. CASE x.of # Temp
      <4>1. x.of \in Specs /\ Form[x.of] = "scene"
        BY <1>1, <2>1, <3>3 DEF HubInv, ScenesOK
      <4>2. CASE x.id \in file.specs[x.of].notes
        <5>1. Agrees(r, file.specs)
          BY <1>1, <1>7, <2>2
        <5>2. CASE x.of # r.spec
          BY <1>1, <4>1, <4>2, <5>1, <5>2, <3>3 DEF Agrees
        <5>3. CASE x.of = r.spec
          BY <1>1, <1>3, <4>1, <4>2, <5>1, <5>3, <3>3 DEF Agrees
        <5> QED BY <5>2, <5>3
      <4>3. CASE x.of \notin owed
        BY <1>1, <1>3, <3>3, <4>1, <4>3
      <4>4. CASE Pending(x)
        <5>1. PICK q \in AutoProcs : auto[q].pc \in {"save", "write"} /\ x.id \in auto[q].copy[x.of].notes
          BY <4>4 DEF Pending
        <5>2. CASE q = p
          BY <1>1, <3>3, <5>1, <5>2 DEF r
        <5>3. CASE q # p
          BY <1>4, <3>3, <5>1, <5>3
        <5> QED BY <5>2, <5>3
      <4> QED BY <3>1, <3>3, <4>2, <4>3, <4>4
    <3> QED BY <3>2, <3>3
  <2> QED BY <2>1, <2>2 DEF Tracked, Owned, Pending
<1> QED BY <1>5, <1>6, <1>8, <1>9 DEF Books

-----------------------------------------------------------------------------
(* A command that plays leaves autos.json alone, and accounts for the      *)
(* scene it makes.                                                         *)

\* A scene that was made or let go without a mishap is accounted for.
LEMMA SoundNoted ==
    ASSUME HubInv, SoundNext
    PROVE  /\ mishaps \subseteq mishaps'
           /\ removed \subseteq removed' /\ \A x \in scenes : x \in scenes' \/ x.id \in removed'
           /\ \A x \in scenes' : x \in scenes \/ x.of = Temp
           /\ unnamed \subseteq unnamed'
           /\ mishaps' = {} => \A x \in scenes' \ unnamed' : (x \in scenes => Owned(x)) => Owned(x)'
<1> DEFINE Goal == /\ mishaps \subseteq mishaps'
                   /\ removed \subseteq removed'
                   /\ \A x \in scenes : x \in scenes' \/ x.id \in removed'
                   /\ \A x \in scenes' : x \in scenes \/ x.of = Temp
                   /\ unnamed \subseteq unnamed'
                   /\ mishaps' = {} => \A x \in scenes' \ unnamed' :
                        (x \in scenes => Owned(x))
                        => \E q \in SoundProcs : HasTemp(sound'[q]) /\ sound'[q].scene = x.id
<1> SUFFICES Goal
  BY DEF Owned
<1>1. PICK p \in SoundProcs :
        \/ \E job \in SoundJobs[p] : BeginSound(p, job)
        \/ PlayStep(p)
        \/ LeaveSound(p) \/ KillSound(p)
  BY DEF SoundNext
<1>2. /\ sound[p] \in SoundRecords /\ (sound[p].scene <= made) /\ sound \in [SoundProcs -> SoundRecords]
      /\ BoundsOK /\ ScenesOK
  BY DEF HubInv, SoundSane, Sane, Housed
<1>3. ASSUME NEW n, Now(p, n)
      PROVE  sound'[p] = n /\ \A q \in SoundProcs \ {p} : sound'[q] = sound[q]
  BY <1>2, <1>3 DEF Now
<1>4. ASSUME NEW n, Now(p, n), UNCHANGED hub, mishaps \subseteq mishaps',
             \/ ~HasTemp(sound[p]) \/ mishaps' # {}
             \/ HasTemp(n) /\ n.scene = sound[p].scene
      PROVE  Goal
  <2>1. \A x \in scenes : mishaps' = {} /\ Owned(x)
           => \E q \in SoundProcs : HasTemp(sound'[q]) /\ sound'[q].scene = x.id
    BY <1>3, <1>4 DEF Owned
  <2> QED BY <1>4, <2>1 DEF hub
<1> HIDE DEF Goal
<1>5. ASSUME NEW job \in SoundJobs[p], BeginSound(p, job) PROVE Goal
  <2>1. PICK n : Now(p, n)
    BY <1>5 DEF BeginSound
  <2>2. UNCHANGED hub /\ mishaps' = mishaps /\ ~HasTemp(sound[p])
    BY <1>5 DEF BeginSound, StartCommand, HasTemp
  <2> QED BY <1>4, <2>1, <2>2
<1>6. CASE LookInCache(p) \/ PlayedAll(p)
  <2>1. PICK n : Now(p, n)
    BY <1>6 DEF LookInCache, PlayedAll
  <2>2. UNCHANGED hub /\ mishaps' = mishaps /\ ~HasTemp(sound[p])
    BY <1>6 DEF LookInCache, PlayedAll, bounds, HasTemp
  <2> QED BY <1>4, <2>1, <2>2
<1>7. ASSUME NEW found \in Searches, Snapshot(p, found) \/ Fresh(p, found) \/ Search(p, found) PROVE Goal
  <2>1. PICK n : Now(p, n)
    BY <1>7 DEF Snapshot, Fresh, Search
  <2>2. UNCHANGED hub /\ mishaps' = mishaps /\ ~HasTemp(sound[p])
    BY <1>7 DEF Snapshot, Fresh, Search, bounds, HasTemp
  <2> QED BY <1>4, <2>1, <2>2
<1>8. ASSUME NEW o \in Outcomes, PlayNext(p, o) PROVE Goal
  <2>1. PICK n : Now(p, n)
    BY <1>8 DEF PlayNext
  <2>2. UNCHANGED hub /\ mishaps \subseteq mishaps' /\ ~HasTemp(sound[p])
    BY <1>8 DEF PlayNext, bounds, Mishap, HasTemp
  <2> QED BY <1>4, <2>1, <2>2
<1>9. ASSUME NEW o \in PostOutcomes, PostTemp(p, o) PROVE Goal
  <2> DEFINE n == IF o = "ok" THEN [sound[p] EXCEPT !.pc = "trigger", !.scene = made + 1]
                  ELSE Failed(sound[p])
  <2>1. CreateScene(Temp, o) /\ Now(p, n) /\ ~HasTemp(sound[p])
    BY <1>9 DEF PostTemp, HasTemp
  <2>2. o = "ok" => HasTemp(n) /\ n.scene = made + 1
    BY <1>2 DEF SoundRecords, HasTemp
  <2> HIDE DEF n
  <2>3. /\ mishaps \subseteq mishaps' /\ (o = "lost" => "lost" \in mishaps') /\ removed' = removed
        /\ scenes \subseteq scenes'
        /\ \A x \in scenes' : x \in scenes \/ (o # "refused" /\ x = [id |-> made + 1, of |-> Temp])
        /\ unnamed \subseteq unnamed' /\ (o = "blank" => [id |-> made + 1, of |-> Temp] \in unnamed')
    BY <1>2, <2>1, CreateTypes
  <2>4. ASSUME mishaps' = {}, NEW x \in scenes' \ unnamed', x \in scenes => Owned(x)
        PROVE  \E q \in SoundProcs : HasTemp(sound'[q]) /\ sound'[q].scene = x.id
    <3>1. CASE x \in scenes
      BY <1>3, <2>1, <2>4, <3>1 DEF Owned
    <3>2. CASE x \notin scenes
      BY <1>3, <2>1, <2>2, <2>3, <2>4, <3>2 DEF PostOutcomes, Outcomes
    <3> QED BY <3>1, <3>2
  <2>5. \A x \in scenes' : x \in scenes \/ x.of = Temp
    BY <2>3
  <2> QED BY <2>3, <2>4, <2>5 DEF Goal
<1>14. ASSUME NEW plays \in BOOLEAN, CastPending(p, plays) PROVE Goal
  <2>1. PICK n : Now(p, n)
    BY <1>14 DEF CastPending
  <2>2. UNCHANGED hub /\ mishaps \subseteq mishaps' /\ ~HasTemp(sound[p])
    BY <1>14 DEF CastPending, Mishap, HasTemp
  <2> QED BY <1>4, <2>1, <2>2
<1>10. ASSUME NEW o \in Outcomes, Trigger(p, o) PROVE Goal
  <2> DEFINE h == IF o = "refused" THEN sound[p] ELSE Hear(sound[p], sound[p].hubs \cap live)
             n == AfterTrigger(h, o)
  <2>1. UNCHANGED hub /\ (UNCHANGED bounds \/ Answered(o)) /\ Now(p, n)
    BY <1>10 DEF Trigger, TriggerScene
  <2>2. mishaps \subseteq mishaps'
    BY <1>2, <2>1, AnswerTypes DEF bounds, PostOutcomes
  <2>3. HasTemp(n) /\ n.scene = sound[p].scene
    <3>1. n.scene = h.scene /\ h.scene = sound[p].scene
      BY <1>2 DEF SoundRecords, Hear, AfterTrigger
    <3>2. n.pc = "delete"
      BY <1>2 DEF SoundRecords, Hear, AfterTrigger
    <3> QED BY <3>1, <3>2 DEF HasTemp
  <2> HIDE DEF n
  <2> QED BY <1>4, <2>1, <2>2, <2>3
<1>11. ASSUME NEW o \in Outcomes, DeleteTemp(p, o) PROVE Goal
  <2>1. PICK n : Now(p, n)
    BY <1>11 DEF DeleteTemp
  <2>2. DeleteScene(sound[p].scene, o) /\ sound[p].scene \in Nat
    BY <1>2, <1>11 DEF DeleteTemp, SoundRecords
  <2>3. /\ mishaps \subseteq mishaps' /\ (o = "refused" => "undeleted" \in mishaps')
        /\ removed \subseteq removed' /\ scenes' \subseteq scenes
        /\ \A x \in scenes \ scenes' : x.id \in removed'
        /\ o # "refused" => \A x \in scenes' : x.id # sound[p].scene
        /\ unnamed' = unnamed
    BY <1>2, <2>2, DeleteTypes
  <2>4. ASSUME mishaps' = {}, NEW x \in scenes' \ unnamed', x \in scenes => Owned(x)
        PROVE  \E q \in SoundProcs : HasTemp(sound'[q]) /\ sound'[q].scene = x.id
    BY <1>3, <2>1, <2>3, <2>4 DEF Owned
  <2>5. \A x \in scenes' : x \in scenes \/ x.of = Temp
    BY <2>3
  <2>6. \A x \in scenes : x \in scenes' \/ x.id \in removed'
    BY <2>3
  <2> QED BY <2>3, <2>4, <2>5, <2>6 DEF Goal
<1>12. CASE LeaveSound(p) \/ KillSound(p)
  <2>1. PICK n : Now(p, n)
    BY <1>12 DEF LeaveSound, KillSound
  <2>2. UNCHANGED hub /\ mishaps \subseteq mishaps' /\ (~HasTemp(sound[p]) \/ mishaps' # {})
    BY <1>12 DEF LeaveSound, KillSound, Mishap
  <2> QED BY <1>4, <2>1, <2>2
<1>13. CASE PlayStep(p)
  BY <1>6, <1>7, <1>8, <1>9, <1>10, <1>11, <1>13, <1>14 DEF PlayStep
<1> QED BY <1>1, <1>5, <1>12, <1>13

-----------------------------------------------------------------------------
(* The invariant and what follows from it.                                 *)

LEMMA InvInit == Init => HubInv
<1> SUFFICES ASSUME Init PROVE HubInv
  OBVIOUS
<1>1. BoundsOK /\ ScenesOK /\ made = 0 /\ scenes = {} /\ mishaps = {} /\ 0 \in Nat
  BY DEF Init, HubInit, BoundsOK, ScenesOK
<1>2. /\ \A p \in AutoProcs : auto[p] = AutoIdle
      /\ AutoIdle.pc = "idle" /\ AutoIdle.op = "list" /\ ~AutoIdle.overtaken
  BY DEF Init, AutosInit, AutoIdle
<1>3. PICK old \in SUBSET {s \in Specs : Form[s] = "scene"} :
        /\ owed = old
        /\ file = [ok |-> TRUE,
                   specs |-> [s \in Specs |->
                      IF s \in old THEN [Absent EXCEPT !.status = "pending_review"] ELSE Absent]]
  BY DEF Init, AutosInit
<1>4. /\ file.ok /\ file \in [ok : BOOLEAN, specs : Stores]
      /\ \A s \in Specs : file.specs[s].status = IF s \in owed THEN "pending_review" ELSE "absent"
  BY <1>3 DEF Stores, Statuses, Absent
<1>5. AutosTypeOK
  <2>1. auto \in [AutoProcs -> AutoRecords]
    BY AutoIdleType DEF Init, AutosInit
  <2> QED BY <1>3, <1>4, <2>1 DEF AutosTypeOK
<1>6. \A p \in AutoProcs : Suited(auto[p], made)
  BY <1>1, <1>2, AutoIdleType DEF Suited
<1>7. SoundSane
  <2>1. live \subseteq Speakers /\ known \subseteq Speakers
    BY HousesAssumption DEF Init, SoundInit
  <2>2. sound = [p \in SoundProcs |-> SoundIdle]
    BY DEF Init, SoundInit
  <2>3. Sane(SoundIdle, made, live)
    <3> DEFINE r == [SoundIdle EXCEPT !.by = "sound", !.who = "cli", !.parts = <<>>]
               n == [r EXCEPT !.pc = "idle"]
    <3>1. <<>> \in Queries
      BY DEF Queries
    <3>2. Sane(n, made, live)
      BY <1>1, <3>1, IdleSane DEF Early
    <3>3. n = SoundIdle
      <4>1. /\ SoundIdle \in SoundRecords /\ SoundIdle.by = "sound" /\ SoundIdle.who = "cli"
            /\ SoundIdle.parts = <<>> /\ SoundIdle.pc = "idle"
        BY <3>1 DEF SoundIdle, SoundRecords, Queries
      <4> QED BY <4>1 DEF SoundRecords
    <3> QED BY <3>2, <3>3
  <2>4. SoundIdle \in SoundRecords
    BY <2>3 DEF Sane
  <2> QED BY <2>1, <2>2, <2>3, <2>4 DEF SoundSane
<1>8. Kept
  <2>1. owed = Present(file.specs)
    BY <1>3, <1>4 DEF Present
  <2> QED BY <1>2, <1>4, <2>1 DEF Kept, HasCopy
<1>9. OvertakenWrite
  BY <1>2 DEF OvertakenWrite
<1>10. BackedAll
  BY <1>2, <1>4 DEF BackedAll, Backed, HasCopy
<1>11. Tracked
  BY <1>1 DEF Tracked
<1> QED BY <1>1, <1>5, <1>6, <1>7, <1>8, <1>9, <1>10, <1>11 DEF HubInv

LEMMA InvNext == HubInv /\ [Next]_vars => HubInv'
<1> SUFFICES ASSUME HubInv, [Next]_vars PROVE HubInv'
  OBVIOUS
<1>1. TypeOK /\ Given /\ made \in Nat
  BY InvTypes
<1>2. ASSUME AutosNext, UNCHANGED soundVars PROVE HubInv'
  <2>1. PICK p \in AutoProcs : AutoStep(p)
    BY <1>2 DEF AutosNext
  <2>2. /\ AutosTypeOK' /\ BoundsOK' /\ ScenesOK'
        /\ made <= made' /\ \A q \in AutoProcs : Suited(auto'[q], made')
    BY <1>1, <2>1, AutoTypes
  <2>3. SoundSane'
    <3>1. made' \in Nat
      BY <2>2 DEF ScenesOK
    <3> QED BY <1>1, <1>2, <2>2, <3>1, SoundStays DEF HubInv
  <2>4. Books'
    BY <1>2, <2>1, BeginAutoKeeps, LoadKeeps, ApplyKeeps, UnsceneKeeps, TruncateKeeps,
       WriteKeeps, KillAutoKeeps DEF AutoStep
  <2> QED BY <2>2, <2>3, <2>4 DEF HubInv, Books
<1>3. ASSUME SoundNext, UNCHANGED autosVars PROVE HubInv'
  <2>1. SoundSane' /\ BoundsOK' /\ ScenesOK' /\ made' \in Nat /\ made <= made'
    BY <1>3, SoundKeeps DEF HubInv
  <2>2. file' = file /\ auto' = auto /\ owed' = owed
    BY <1>3 DEF autosVars
  <2>3. AutosTypeOK' /\ OvertakenWrite'
    BY <2>2 DEF HubInv, AutosTypeOK, OvertakenWrite
  <2>4. \A q \in AutoProcs : Suited(auto'[q], made')
    <3>1. \A q \in AutoProcs : auto[q].target \in Nat /\ Suited(auto[q], made)
      BY InvTypes DEF HubInv, AutoRecords
    <3> QED BY <1>1, <2>1, <2>2, <3>1 DEF Suited
  <2>5. /\ mishaps \subseteq mishaps'
        /\ removed \subseteq removed' /\ \A x \in scenes : x \in scenes' \/ x.id \in removed'
        /\ \A x \in scenes' : x \in scenes \/ x.of = Temp
        /\ unnamed \subseteq unnamed'
        /\ mishaps' = {} => \A x \in scenes' \ unnamed' : (x \in scenes => Owned(x)) => Owned(x)'
    BY <1>3, SoundNoted
  <2>6. Kept'
    BY <2>2, <2>5 DEF HubInv, Kept, HasCopy, Writing, Torn
  <2>7. BackedAll'
    <3>1. \A s \in Specs : Backed(s, file.specs[s], scenes', removed', unnamed')
      BY <2>5, BackedGrows DEF HubInv, BackedAll
    <3>2. \A q \in AutoProcs : HasCopy(q) =>
             \A s \in Specs : Backed(s, auto[q].copy[s], scenes', removed', unnamed')
                               \/ (auto[q].pc = "post" /\ s = auto[q].spec)
      BY <2>5, BackedGrows DEF HubInv, BackedAll
    <3> QED BY <2>2, <3>1, <3>2 DEF BackedAll, HasCopy
  <2>8. Tracked'
    <3>1. \A x \in scenes' : x.of # Temp => x \in scenes /\ Form[x.of] = "scene"
      BY <2>5 DEF HubInv, Tracked
    <3>2. ASSUME mishaps' = {}, NEW x \in scenes' \ unnamed'
          PROVE  IF x.of = Temp THEN Owned(x)'
                 ELSE \/ x.id \in file'.specs[x.of].notes \/ x.of \notin owed'
                      \/ \E q \in AutoProcs : auto'[q].pc \in {"save", "write"}
                                             /\ x.id \in auto'[q].copy[x.of].notes
      <4>1. x \in scenes => IF x.of = Temp THEN Owned(x)
                            ELSE x.id \in file.specs[x.of].notes \/ x.of \notin owed \/ Pending(x)
        BY <2>5, <3>2 DEF HubInv, Tracked
      <4>2. CASE x.of = Temp
        BY <2>5, <3>2, <4>1, <4>2
      <4>3. CASE x.of # Temp
        BY <2>2, <3>1, <3>2, <4>1, <4>3 DEF Pending
      <4> QED BY <4>2, <4>3
    <3> QED BY <3>1, <3>2 DEF Tracked, Pending, Owned
  <2> QED BY <2>1, <2>3, <2>4, <2>6, <2>7, <2>8 DEF HubInv
<1>4. CASE UNCHANGED vars
  <2>1. UNCHANGED <<scenes, made, removed, unnamed, started, troubles, mishaps, file, auto, owed, live, known, sound>>
    BY <1>4 DEF vars, hub, bounds, autosVars, soundVars
  <2>2. BoundsOK' /\ ScenesOK' /\ AutosTypeOK' /\ OvertakenWrite'
    BY <2>1 DEF HubInv, BoundsOK, ScenesOK, AutosTypeOK, OvertakenWrite
  <2>3. (\A p \in AutoProcs : Suited(auto[p], made))' /\ SoundSane'
    BY <2>1 DEF HubInv, SoundSane
  <2>4. Kept' /\ BackedAll'
    BY <2>1 DEF HubInv, Kept, BackedAll, HasCopy, Writing, Torn
  <2>5. Tracked'
    BY <2>1 DEF HubInv, Tracked, Owned, Pending
  <2> QED BY <2>2, <2>3, <2>4, <2>5 DEF HubInv
<1> QED BY <1>2, <1>3, <1>4 DEF Next

THEOREM InvCorrect == Spec => []HubInv
BY InvInit, InvNext, PTL DEF Spec

\* The types of both parts, and no two scenes with one id (TypeOK).
THEOREM TypeCorrect == Spec => []TypeOK
<1>1. HubInv => TypeOK
  BY InvTypes
<1> QED BY <1>1, InvCorrect, PTL

\* Unless two commands overlapped, autos.json holds what the commands have
\* reported, and only a kill or a failing write leaves one that no command can
\* parse (SpecsKept).
THEOREM SpecsAreKept == Spec => []SpecsKept
<1>1. HubInv => SpecsKept
  BY DEF HubInv, Kept, SpecsKept, Writing, Torn
<1> QED BY <1>1, InvCorrect, PTL

\* A specification stored as applied through a scene has one that was made for
\* it, noted with it or one whose id the hub did not tell (AppliedHasScene).
THEOREM AppliedScenesExist == Spec => []AppliedHasScene
<1>1. HubInv => AppliedHasScene
  BY DEF HubInv, BackedAll, Backed, AppliedHasScene
<1> QED BY <1>1, InvCorrect, PTL

\* Without a mishap, the scenes left when all commands have ended are those of
\* automations and those whose id was never told (StraySceneNeedsCause).
THEOREM NoStrayScene == Spec => []StraySceneNeedsCause
<1>1. HubInv => StraySceneNeedsCause
  <2> SUFFICES ASSUME HubInv, AtRest, mishaps = {}, NEW x \in scenes \ unnamed
               PROVE  x.of # Temp /\ (x.id \in file.specs[x.of].notes \/ x.of \notin owed)
    BY DEF StraySceneNeedsCause
  <2>1. ~Owned(x) /\ ~Pending(x)
    BY DEF AtRest, Owned, Pending, HasTemp
  <2> QED BY <2>1 DEF HubInv, Tracked
<1> QED BY <1>1, InvCorrect, PTL

\* A command sounds twice on a speaker only after playing from the cache
\* failed, and never three times (RepeatNeedsCachedFailure).
THEOREM NoRepeat == Spec => []RepeatNeedsCachedFailure
<1>1. HubInv => RepeatNeedsCachedFailure
  <2> SUFFICES ASSUME HubInv, NEW p \in SoundProcs, NEW s \in Speakers
               PROVE  sound[p].heard[s] <= IF sound[p].again THEN 2 ELSE 1
    BY DEF RepeatNeedsCachedFailure
  <2>1. sound[p].heard[s] \in Nat
    BY DEF HubInv, SoundSane, SoundRecords
  <2>2. sound[p].heard[s] + (IF Due(sound[p], s) THEN 1 ELSE 0) <= IF sound[p].again THEN 2 ELSE 1
    BY DEF HubInv, SoundSane, Sane, Counted
  <2> QED BY <2>1, <2>2
<1> QED BY <1>1, InvCorrect, PTL

\* What was played on without being blind was named by each of its words alone
\* (AmbiguousPlaysOnlyBlind).
THEOREM NoAmbiguity == Spec => []AmbiguousPlaysOnlyBlind
<1>1. HubInv => AmbiguousPlaysOnlyBlind
  BY DEF HubInv, SoundSane, Sane, Clear, Resolves, AmbiguousPlaysOnlyBlind
<1> QED BY <1>1, InvCorrect, PTL

\* A command that waited and reports success has sounded on each of its
\* speakers there are, but for cast speakers still loading when PlayFile
\* returned (SuccessSounded).
THEOREM SuccessIsHeard == Spec => []SuccessSounded
<1>1. HubInv => SuccessSounded
  BY DEF HubInv, SoundSane, Sane, Told, Succeeds, Unsure, SuccessSounded
<1> QED BY <1>1, InvCorrect, PTL
=============================================================================
