------------------------------- MODULE AskCache -------------------------------
(***************************************************************************)
(* `hubhq ask` and the disk cache of generated scripts it reads and fills  *)
(* (src/internal/cli/cli.go, ask; src/internal/llm/cache.go).              *)
(*                                                                         *)
(* Every ask is a process of its own: it loads llm-cache.json at most      *)
(* once, keeps that copy over the whole call of the language model, and    *)
(* writes the copy back as one truncate and one write.  Only the SCRIPT of *)
(* a plan is cached; the plan's confirmation flags and its action list are *)
(* not.                                                                    *)
(***************************************************************************)
EXTENDS Integers, FiniteSets, FiniteSetsExt

CONSTANTS
    Asks,        \* processes
    Prompts,     \* questions; the home context and the model are fixed
    Structured,  \* the prompts that ask for a table or a list
    Plans,       \* what the language model may answer
    Ttl,         \* CacheTTLSeconds, in clock units
    MaxEntries,  \* CacheMaxEntries
    MaxTime,     \* bound: the clock stops here
    MaxCrashes   \* bound: processes killed

ASSUME AsksAssumption ==
    IsFiniteSet(Asks) /\ Prompts # {} /\ Structured \subseteq Prompts
ASSUME LimitsAssumption ==
    /\ Ttl \in Nat \ {0}
    /\ MaxEntries \in Nat \ {0}
    /\ MaxTime \in Nat
    /\ MaxCrashes \in Nat

\* A script: does requiresStrictAskExecution hold of its text, how many
\* operations it performs, and (history) did the model flag its plan.
Scripts == [strict : BOOLEAN, ops : Nat, flagged : BOOLEAN]
NoScript == [strict |-> FALSE, ops |-> 0, flagged |-> FALSE]

\* A plan: the script if any, the two flags of the answer in one, the number
\* of actions listed beside the script, is the response a table or a list.
PlanRecords == [script : Scripts, scripted : BOOLEAN, flagged : BOOLEAN,
                actions : Nat, table : BOOLEAN]

ASSUME PlansAssumption ==
    /\ Plans \subseteq PlanRecords
    /\ \A p \in Plans : p.scripted => p.script.flagged = p.flagged

\* The prompt of the stricter second request is another prompt.
Keys == [prompt : Prompts, retry : BOOLEAN]

VARIABLES
    disk,     \* llm-cache.json
    now,
    crashes,
    mishap,   \* history: what may have damaged the file since it was new
    ask       \* the processes

vars == <<disk, now, crashes, mishap, ask>>

Empty == [state |-> "ok", entries |-> {}]

NoPlan == [script |-> NoScript, scripted |-> FALSE, flagged |-> FALSE,
           actions |-> 0, table |-> FALSE]

NewAsk(key) ==
    [pc |-> "lookup", key |-> key, loaded |-> FALSE, mem |-> {},
     plan |-> NoPlan, cached |-> FALSE, done |-> 0, next |-> 0, failed |-> 0]

Unborn(q) == [NewAsk([prompt |-> q, retry |-> FALSE]) EXCEPT !.pc = "idle"]

Init ==
    /\ disk = Empty
    /\ now = 0
    /\ crashes = 0
    /\ mishap = {}
    /\ ask \in [Asks -> {Unborn(CHOOSE q \in Prompts : TRUE)}]

At(p, pc) == ask[p].pc = pc
Becomes(p, a) == ask' = [ask EXCEPT ![p] = a]
End(p, outcome) == Becomes(p, [ask[p] EXCEPT !.pc = outcome])

-----------------------------------------------------------------------------
(* The cache: diskCache.get and put over a copy of the file.               *)

\* pruneExpiredLocked
Prune(entries) == {e \in entries : now - e.at <= Ttl}

Holds(entries, key) == \E e \in entries : e.key = key

\* Mutant: the new entry is appended to what is there.
Append(entries, key, script) ==
    Prune(entries) \cup {[key |-> key, script |-> script, at |-> now]}

\* put: prune, replace the entry of the key ...
Replace(entries, key, script) ==
    {e \in Prune(entries) : e.key # key}
        \cup {[key |-> key, script |-> script, at |-> now]}

\* ... and, sorted by age, drop the oldest; entries of one instant in any order.
Trim(entries) ==
    IF Cardinality(entries) <= MaxEntries THEN {entries}
    ELSE {kept \in kSubset(MaxEntries, entries) :
             \A k \in kept, d \in entries \ kept : k.at >= d.at}

-----------------------------------------------------------------------------
(* GenerateAskScript.                                                      *)

Begin(p, q) ==
    /\ At(p, "idle")
    /\ Becomes(p, NewAsk([prompt |-> q, retry |-> FALSE]))
    /\ UNCHANGED <<disk, now, crashes, mishap>>

\* The copy the process looks into: loaded now, or by its first request.
Copy(p) == Prune(IF ask[p].loaded THEN ask[p].mem ELSE disk.entries)

Readable(p) == ask[p].loaded \/ disk.state = "ok"

\* What a hit returns: mode execute and the script, no flags, no actions.
FromCache(script) == [NoPlan EXCEPT !.script = script, !.scripted = TRUE]

Hit(p) ==
    /\ At(p, "lookup")
    /\ Readable(p)
    /\ \E e \in Copy(p) :
          /\ e.key = ask[p].key
          /\ Becomes(p, [ask[p] EXCEPT !.pc = "decide", !.plan = FromCache(e.script),
                                       !.cached = TRUE, !.mem = {}])
    /\ UNCHANGED <<disk, now, crashes, mishap>>

Miss(p) ==
    /\ At(p, "lookup")
    /\ Readable(p)
    /\ ~Holds(Copy(p), ask[p].key)
    /\ Becomes(p, [ask[p] EXCEPT !.pc = "model", !.loaded = TRUE, !.mem = Copy(p)])
    /\ UNCHANGED <<disk, now, crashes, mishap>>

\* "parse llm cache": the ask ends, whatever was asked.
LookupFails(p) ==
    /\ At(p, "lookup")
    /\ ~Readable(p)
    /\ End(p, "error")
    /\ UNCHANGED <<disk, now, crashes, mishap>>

\* The model answers, possibly after one repair request.
ModelAnswers(p, plan) ==
    /\ At(p, "model")
    /\ Becomes(p, [ask[p] EXCEPT !.pc = IF plan.scripted THEN "put" ELSE "decide",
                                 !.plan = plan])
    /\ UNCHANGED <<disk, now, crashes, mishap>>

ModelFails(p) ==
    /\ At(p, "model")
    /\ End(p, "error")
    /\ UNCHANGED <<disk, now, crashes, mishap>>

\* Mutant: the file is opened without O_TRUNC.
Untouched == disk

Truncated == [state |-> "empty", entries |-> {}]

\* put up to os.WriteFile's open with O_TRUNC.
PutBegins(p) ==
    /\ At(p, "put")
    /\ \E mem \in Trim(Replace(ask[p].mem, ask[p].key, ask[p].plan.script)) :
          Becomes(p, [ask[p] EXCEPT !.pc = "write", !.mem = mem])
    /\ disk' = Truncated
    /\ mishap' = mishap \cup {"overlap" : q \in {r \in Asks : At(r, "write")}}
    /\ UNCHANGED <<now, crashes>>

\* The bytes are written at the start of the file: over whatever another
\* process wrote since the truncation, whose tail stays if it is longer.
PutEnds(p) ==
    /\ At(p, "write")
    /\ \/ disk' = [state |-> "ok", entries |-> ask[p].mem]
       \/ /\ disk.state # "empty"
          /\ disk' = [state |-> "corrupt", entries |-> {}]
    /\ End(p, "decide")
    /\ UNCHANGED <<now, crashes, mishap>>

\* The file cannot be opened: the answer is lost with it.
PutFails(p) ==
    /\ At(p, "put")
    /\ End(p, "error")
    /\ UNCHANGED <<disk, now, crashes, mishap>>

-----------------------------------------------------------------------------
(* ask, once it has a plan.                                                *)

Plan(p) == ask[p].plan

\* A structured question without a usable answer is asked once more, under
\* another key, through the same cache object.
WantsRetry(p) ==
    /\ ask[p].key.prompt \in Structured
    /\ ~ask[p].key.retry
    /\ ~Plan(p).table
    /\ ~Plan(p).scripted

AsksAgain(p) ==
    /\ At(p, "decide")
    /\ WantsRetry(p)
    /\ Becomes(p, [ask[p] EXCEPT !.pc = "lookup", !.key.retry = TRUE])
    /\ UNCHANGED <<disk, now, crashes, mishap>>

\* Mutant: destructive plans are executed like the others.
NothingBlocked(p) == FALSE

Blocked(p) == Plan(p).flagged

Blocks(p) ==
    /\ At(p, "decide")
    /\ ~WantsRetry(p)
    /\ Blocked(p)
    /\ End(p, "blocked")
    /\ UNCHANGED <<disk, now, crashes, mishap>>

\* Without a script executeAskScript succeeds at once and nothing is done;
\* a structured question may still end in an error for lack of output.
AnswersOnly(p) ==
    /\ At(p, "decide")
    /\ ~WantsRetry(p)
    /\ ~Blocked(p)
    /\ ~Plan(p).scripted
    /\ \/ End(p, "success")
       \/ /\ ask[p].key.prompt \in Structured
          /\ Plan(p).actions = 0
          /\ End(p, "error")
    /\ UNCHANGED <<disk, now, crashes, mishap>>

Executes(p) ==
    /\ At(p, "decide")
    /\ ~WantsRetry(p)
    /\ ~Blocked(p)
    /\ Plan(p).scripted
    /\ End(p, "script")
    /\ UNCHANGED <<disk, now, crashes, mishap>>

MoreOps(p) == ask[p].done < Plan(p).script.ops

ScriptOp(p) ==
    /\ At(p, "script")
    /\ MoreOps(p)
    /\ Becomes(p, [ask[p] EXCEPT !.done = @ + 1])
    /\ UNCHANGED <<disk, now, crashes, mishap>>

ScriptSucceeds(p) ==
    /\ At(p, "script")
    /\ ask[p].done = Plan(p).script.ops
    /\ End(p, "success")
    /\ UNCHANGED <<disk, now, crashes, mishap>>

\* Mutant: every failed script is followed by the action list.
NeverStrict(p) == FALSE

\* requiresStrictAskExecution: conditional or live scripts.
Strict(p) == Plan(p).script.strict

\* The script fails after any of its operations.
ScriptFails(p) ==
    /\ At(p, "script")
    /\ End(p, IF Strict(p) THEN "error" ELSE "actions")
    /\ UNCHANGED <<disk, now, crashes, mishap>>

\* executePlannedActions: every action is tried, failures are counted.
Action(p) ==
    /\ At(p, "actions")
    /\ ask[p].next < Plan(p).actions
    /\ \E failed \in {0, 1} :
          Becomes(p, [ask[p] EXCEPT !.next = @ + 1, !.failed = @ + failed])
    /\ UNCHANGED <<disk, now, crashes, mishap>>

\* A delete, an unknown type or a missing value ends the list.
ActionRefused(p) ==
    /\ At(p, "actions")
    /\ ask[p].next < Plan(p).actions
    /\ End(p, "error")
    /\ UNCHANGED <<disk, now, crashes, mishap>>

\* Mutant: failures are reported in the summary only.
AnyActionWill(p) == FALSE

AllActionsFailed(p) == ask[p].failed = Plan(p).actions

\* No actions at all return the empty summary, before failures are counted.
ActionsEnd(p) ==
    /\ At(p, "actions")
    /\ ask[p].next = Plan(p).actions
    /\ End(p, IF Plan(p).actions > 0 /\ AllActionsFailed(p) THEN "error" ELSE "success")
    /\ UNCHANGED <<disk, now, crashes, mishap>>

-----------------------------------------------------------------------------
Finished(p) == ask[p].pc \in {"success", "blocked", "error"}

\* The process exits.
Exit(p) ==
    /\ Finished(p)
    /\ Becomes(p, Unborn(CHOOSE q \in Prompts : TRUE))
    /\ UNCHANGED <<disk, now, crashes, mishap>>

Crash(p) ==
    /\ ~At(p, "idle") /\ ~Finished(p)
    /\ crashes < MaxCrashes
    /\ crashes' = crashes + 1
    /\ mishap' = IF At(p, "write") THEN mishap \cup {"crash"} ELSE mishap
    /\ Becomes(p, Unborn(CHOOSE q \in Prompts : TRUE))
    /\ UNCHANGED <<disk, now>>

\* A new build of the program removes the caches when it loads its
\* configuration (invalidateCachesOnRebuild).  A write in progress goes to
\* the unlinked file.
Rebuild ==
    /\ disk' = Empty
    /\ mishap' = {}
    /\ ask' = [p \in Asks |-> IF At(p, "write") THEN [ask[p] EXCEPT !.pc = "decide"]
                              ELSE ask[p]]
    /\ UNCHANGED <<now, crashes>>

Tick ==
    /\ now < MaxTime
    /\ now' = now + 1
    /\ UNCHANGED <<disk, crashes, mishap, ask>>

Generate(p) ==
    \/ Hit(p) \/ Miss(p) \/ LookupFails(p)
    \/ \E plan \in Plans : ModelAnswers(p, plan)
    \/ ModelFails(p)
    \/ PutBegins(p) \/ PutEnds(p) \/ PutFails(p)

Conclude(p) ==
    \/ AsksAgain(p) \/ Blocks(p) \/ AnswersOnly(p) \/ Executes(p)
    \/ ScriptOp(p) \/ ScriptSucceeds(p) \/ ScriptFails(p)
    \/ Action(p) \/ ActionRefused(p) \/ ActionsEnd(p)

Next ==
    \/ \E p \in Asks :
          \/ \E q \in Prompts : Begin(p, q)
          \/ Generate(p)
          \/ Conclude(p)
          \/ Exit(p)
          \/ Crash(p)
    \/ Rebuild
    \/ Tick

Spec == Init /\ [][Next]_vars

-----------------------------------------------------------------------------
(* Properties.                                                             *)

Outcomes == {"success", "blocked", "error"}

Stages == Outcomes \cup {"idle", "lookup", "model", "put", "write", "decide",
                         "script", "actions"}

Entries == [key : Keys, script : Scripts, at : Nat]

DiskRecords == [state : {"ok", "empty", "corrupt"}, entries : SUBSET Entries]

AskRecords == [pc : Stages, key : Keys, loaded : BOOLEAN, mem : SUBSET Entries,
               plan : PlanRecords, cached : BOOLEAN,
               done : Nat, next : Nat, failed : Nat]

\* Every process is at a step of ask, and every cached entry, on disk or in
\* the copy of a process, has a key, a script and a time.
TypeOK ==
    /\ disk \in DiskRecords
    /\ now \in Nat
    /\ crashes \in Nat
    /\ mishap \subseteq {"overlap", "crash"}
    /\ ask \in [Asks -> AskRecords]

\* A file that cannot be parsed, which fails every ask until the next build,
\* is being written right now, or a process was killed inside a write, or
\* two writes overlapped: one process alone never damages it.
DamageNeedsMishap ==
    \/ disk.state = "ok"
    \/ \E p \in Asks : At(p, "write")
    \/ mishap # {}

Executing(p) == At(p, "script") \/ At(p, "actions")

\* README, Notes: destructive plans are blocked.  It holds of every plan
\* that comes straight from the model: ...
FlaggedRunsOnlyFromCache ==
    \A p \in Asks : Executing(p) /\ Plan(p).script.flagged => ask[p].cached

\* ... and not of the program, which caches the script before it blocks the
\* plan and serves it without the flags the next time.
DestructiveBlocked ==
    \A p \in Asks : Executing(p) => ~Plan(p).script.flagged

\* A conditional or live script is never followed by the plan's actions, so
\* none of its operations is performed twice by one ask.
ConditionalNeverRepeats ==
    \A p \in Asks : Plan(p).script.strict => ask[p].next = 0

\* When the script failed and then every action failed, the user is told.
FailureReported ==
    \A p \in Asks : At(p, "success") /\ ask[p].next > 0 => ask[p].failed < ask[p].next
=============================================================================
