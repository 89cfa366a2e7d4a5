------------------------------- MODULE ScriptRuns -------------------------------
(***************************************************************************)
(* Executions of generated scripts (src/internal/script/javascript.go) and *)
(* the state file they share (runtimeStateStore in                         *)
(* src/internal/cli/cli.go).                                               *)
(*                                                                         *)
(* Each execution is a host goroutine and a node process joined by two     *)
(* bounded pipes.  The script emits operations without waiting for them,   *)
(* and requests whose answers come back on its standard input; it reads    *)
(* answers only while it awaits.  The host handles one line after another  *)
(* and writes an answer before it reads the next line.  A script may run   *)
(* another one: the host then executes it inside the request.              *)
(*                                                                         *)
(* A script is its sequence of calls.  Standard output of a node process   *)
(* on a pipe is synchronous: a full pipe blocks the script.                *)
(***************************************************************************)
EXTENDS Integers, Sequences, FiniteSets

CONSTANTS
    Execs,     \* slots for executions; a script stores its slot as a value
    Timed,     \* those whose context has a deadline (`auto run`, not `ask`)
    Programs,  \* the scripts each slot may run
    OutCap,    \* lines that fit in the pipe to the host
    InCap,     \* answers that fit in the pipe to the script
    Window,    \* the seconds of guard.debounce, in clock units
    MaxTime,   \* bound: the clock stops here
    MaxKills   \* bound: host processes killed

Calls == {"log", "device", "set", "delete", "guard",
          "read", "write", "run", "await", "huge", "throw"}

ASSUME ExecsAssumption ==
    Execs \subseteq Nat \ {0} /\ IsFiniteSet(Execs) /\ Timed \subseteq Execs
ASSUME ProgramsAssumption == \A e \in Execs : Programs[e] \subseteq Seq(Calls)
ASSUME LimitsAssumption ==
    /\ {OutCap, InCap, Window} \subseteq Nat \ {0}
    /\ {MaxTime, MaxKills} \subseteq Nat

VARIABLES
    disk,     \* script-state.json
    newest,   \* history: what the state operations performed so far amount to
    mishap,   \* history: what may have lost a key or a pass
    now,
    kills,
    expired,  \* the executions whose own context is past its deadline
    x         \* the executions

vars == <<disk, newest, mishap, now, kills, expired, x>>

\* The keys of the model: the debounce stamp and one plain value; 0 is absent.
StateKeys == {"stamp", "mode"}
Blank == [k \in StateKeys |-> 0]

Unused ==
    [host |-> "idle", node |-> "none", root |-> 0, caller |-> 0,
     calls |-> <<>>, out |-> <<>>, inp |-> <<>>, pending |-> 0,
     at |-> 0, copy |-> Blank, null |-> FALSE,
     op |-> "set", mem |-> Blank, stale |-> FALSE, reply |-> "ok",
     sent |-> 0, done |-> 0,
     passed |-> FALSE, saved |-> FALSE, blind |-> {}]

Init ==
    /\ disk = [state |-> "ok", map |-> Blank]
    /\ newest = Blank
    /\ mishap = {}
    /\ now = 1
    /\ kills = 0
    /\ expired = {}
    /\ x = [e \in Execs |-> Unused]

Becomes(e, r) == x' = [x EXCEPT ![e] = r]

HostAt(e, step) == x[e].host = step
NodeAt(e, step) == x[e].node = step
Over == {"ok", "failed", "killed"}
Running(e) == x[e].host \notin Over \cup {"idle"}
NodeGone(e) == x[e].node \in {"exit0", "exit1", "dead"}

\* The context of an execution is its caller's.
Cancelled(e) == x[e].root \in expired

-----------------------------------------------------------------------------
(* The state store: load and save of runtimeStateStore.                    *)

\* An empty file is an empty state; a garbled one is an error.
Readable == disk.state # "garbled"
Loaded == IF disk.state = "ok" THEN disk.map ELSE Blank
Misread == IF disk.state = "empty" THEN {"misread"} ELSE {}

-----------------------------------------------------------------------------
(* Execute: snapshots, start of node, the loop over its output.            *)

\* The snapshot of the state goes into the script's text; when the file
\* cannot be parsed the error is dropped and the script gets null.
Started(e, caller, program) ==
    [Unused EXCEPT
        !.host = "scan", !.node = "js",
        !.caller = caller,
        !.root = IF caller = 0 THEN e ELSE x[caller].root,
        !.calls = program,
        !.at = now,
        !.copy = IF Readable THEN Loaded ELSE Blank,
        !.null = ~Readable,
        !.blind = {a \in Execs : ~x[a].saved}]

\* An automation's event or schedule, or an ask.
Start(e, program) ==
    /\ HostAt(e, "idle")
    /\ Becomes(e, Started(e, 0, program))
    /\ mishap' = mishap \cup Misread
    /\ UNCHANGED <<disk, newest, now, kills, expired>>

Line(e) == Head(x[e].out)
Taken(e) == [x[e] EXCEPT !.out = Tail(@)]
NextLine(e, line) == HostAt(e, "scan") /\ x[e].out # <<>> /\ Line(e) = line

\* Log lines, text for stdout and stderr, and the result change no state.
ScanLine(e) ==
    /\ NextLine(e, "log") \/ NextLine(e, "result")
    /\ Becomes(e, Taken(e))
    /\ UNCHANGED <<disk, newest, mishap, now, kills, expired>>

\* The scanner's buffer is too small for the line.
ScanFails(e) ==
    /\ NextLine(e, "huge")
    /\ Becomes(e, [Taken(e) EXCEPT !.host = "wait"])
    /\ UNCHANGED <<disk, newest, mishap, now, kills, expired>>

\* Mutant: the error of an operation is logged and the loop goes on.
OpErrorIgnored(e) == [Taken(e) EXCEPT !.host = "scan"]

\* A failed operation closes the script's input and waits for its end.
OpError(e) == [Taken(e) EXCEPT !.host = "wait"]

\* An operation on a device, a scene or a speaker, which carries the context.
DeviceOp(e) ==
    /\ NextLine(e, "device")
    /\ \/ /\ ~Cancelled(e)
          /\ Becomes(e, [Taken(e) EXCEPT !.done = @ + 1])
       \/ Becomes(e, OpError(e))
    /\ UNCHANGED <<disk, newest, mishap, now, kills, expired>>

StateOps == {"set", "delete", "stamp"}

\* Set and Delete load the file ...
StateOp(e) ==
    /\ \E op \in StateOps :
          /\ NextLine(e, op)
          /\ Becomes(e, IF Readable
                        THEN [Taken(e) EXCEPT !.host = "open", !.op = op,
                                              !.mem = Loaded, !.stale = FALSE]
                        ELSE OpError(e))
    /\ mishap' = mishap \cup Misread
    /\ UNCHANGED <<disk, newest, now, kills, expired>>

Applied(e, map) ==
    CASE x[e].op = "set" -> [map EXCEPT !["mode"] = e]
      [] x[e].op = "delete" -> [map EXCEPT !["mode"] = 0]
      [] x[e].op = "stamp" -> [map EXCEPT !["stamp"] = x[e].at]

\* ... truncate it ...
OpenState(e) ==
    /\ HostAt(e, "open")
    /\ disk' = [disk EXCEPT !.state = "empty", !.map = Blank]
    /\ Becomes(e, [x[e] EXCEPT !.host = "save"])
    /\ UNCHANGED <<newest, mishap, now, kills, expired>>

\* Mutant: the script's own copy is saved, not what the file held.
SavedCopy(e) == Applied(e, x[e].copy)

SavedMap(e) == Applied(e, x[e].mem)

\* History: the save loses another's, or takes the stamp back to an earlier
\* start.
Mishaps(e) ==
    (IF x[e].stale THEN {"stale"} ELSE {})
        \cup (IF x[e].op = "stamp" /\ x[e].at < newest["stamp"] THEN {"late"} ELSE {})

\* ... and write it whole; on top of another's bytes when that one wrote
\* since the truncation, in which case the longer text shows at the end.
SaveState(e) ==
    /\ HostAt(e, "save")
    /\ \/ disk' = [state |-> "ok", map |-> SavedMap(e)]
       \/ /\ disk.state # "empty"
          /\ disk' = [state |-> "garbled", map |-> Blank]
    /\ newest' = Applied(e, newest)
    /\ mishap' = mishap \cup Mishaps(e)
    /\ x' = [a \in Execs |->
                IF a = e
                THEN [x[e] EXCEPT !.host = "scan", !.mem = Blank, !.done = @ + 1,
                                  !.saved = @ \/ x[e].op = "stamp"]
                ELSE [x[a] EXCEPT !.stale = @ \/ x[a].host \in {"open", "save"}]]
    /\ UNCHANGED <<now, kills, expired>>

-----------------------------------------------------------------------------
(* Requests.                                                               *)

\* Mutant: an error of the service is returned without a response.
ReplyUnlessError(e, reply) ==
    [Taken(e) EXCEPT !.host = IF reply = "ok" THEN "reply" ELSE "scan", !.reply = reply]

\* An error becomes the error field of the response.
Reply(e, reply) == [Taken(e) EXCEPT !.host = "reply", !.reply = reply]

\* Live devices, files, web and tools; each of them may fail.
Request(e) ==
    /\ NextLine(e, "read")
    /\ \E reply \in {"ok", "error"} : Becomes(e, Reply(e, reply))
    /\ UNCHANGED <<disk, newest, mishap, now, kills, expired>>

\* api.access.writeText, writeJson and delete arrive as requests, and the
\* host knows them as operations only.
WriteRequest(e) ==
    /\ NextLine(e, "write")
    /\ Becomes(e, Reply(e, "error"))
    /\ UNCHANGED <<disk, newest, mishap, now, kills, expired>>

\* RunScript: no such script, or an execution with the caller's services.
RunScript(e) ==
    /\ NextLine(e, "run")
    /\ \/ /\ Becomes(e, Reply(e, "error"))
          /\ UNCHANGED mishap
       \/ \E c \in Execs : \E program \in Programs[c] :
             /\ HostAt(c, "idle")
             /\ x' = [x EXCEPT ![e] = [Taken(e) EXCEPT !.host = "called"],
                               ![c] = Started(c, e, program)]
             /\ mishap' = mishap \cup Misread
    /\ UNCHANGED <<disk, newest, now, kills, expired>>

\* The called script's error is the answer's.
Answered(e, c) ==
    [x[e] EXCEPT !.host = "reply",
                 !.reply = IF HostAt(c, "ok") THEN "ok" ELSE "error"]

ScriptReturns(e) ==
    /\ HostAt(e, "called")
    /\ \E c \in Execs :
          /\ x[c].caller = e /\ x[c].host \in Over
          /\ x' = [x EXCEPT ![e] = Answered(e, c), ![c] = [@ EXCEPT !.caller = 0]]
    /\ UNCHANGED <<disk, newest, mishap, now, kills, expired>>

\* writeProtocolMessage blocks while the pipe is full; a script that is gone
\* is no error.
WriteReply(e) ==
    /\ HostAt(e, "reply")
    /\ \/ /\ NodeGone(e)
          /\ Becomes(e, [x[e] EXCEPT !.host = "scan"])
       \/ /\ Len(x[e].inp) < InCap
          /\ Becomes(e, [x[e] EXCEPT !.host = "scan", !.inp = Append(@, x[e].reply)])
    /\ UNCHANGED <<disk, newest, mishap, now, kills, expired>>

\* What is left of an execution.
Ended(e, outcome) ==
    [x[e] EXCEPT !.host = outcome, !.node = "none", !.calls = <<>>,
                 !.out = <<>>, !.inp = <<>>, !.pending = 0, !.copy = Blank,
                 !.mem = Blank, !.op = "set", !.reply = "ok"]

\* The output has ended, or the host gave up: the exit code of node decides.
Wait(e) ==
    /\ NodeGone(e)
    /\ HostAt(e, "wait") \/ (HostAt(e, "scan") /\ x[e].out = <<>>)
    /\ Becomes(e, Ended(e, IF HostAt(e, "scan") /\ NodeAt(e, "exit0")
                           THEN "ok" ELSE "failed"))
    /\ UNCHANGED <<disk, newest, mishap, now, kills, expired>>

Host(e) ==
    \/ ScanLine(e) \/ ScanFails(e) \/ DeviceOp(e)
    \/ StateOp(e) \/ OpenState(e) \/ SaveState(e)
    \/ Request(e) \/ WriteRequest(e) \/ RunScript(e) \/ ScriptReturns(e)
    \/ WriteReply(e) \/ Wait(e)

-----------------------------------------------------------------------------
(* The script, inside the wrapper of buildNodeWrapper.                     *)

NextCall(e, call) == NodeAt(e, "js") /\ x[e].calls # <<>> /\ Head(x[e].calls) = call
Called(e) == [x[e] EXCEPT !.calls = Tail(@)]

\* emit
Room(e) == Len(x[e].out) < OutCap
Emits(r, line) == [r EXCEPT !.out = Append(@, line)]
EmitsOp(r, line) == [Emits(r, line) EXCEPT !.sent = @ + 1]

Log(e) ==
    /\ NextCall(e, "log") /\ Room(e)
    /\ Becomes(e, Emits(Called(e), "log"))
    /\ UNCHANGED <<disk, newest, mishap, now, kills, expired>>

\* The call of a device, a scene or a speaker says "ok" at once.
CallDevice(e) ==
    /\ NextCall(e, "device") /\ Room(e)
    /\ Becomes(e, EmitsOp(Called(e), "device"))
    /\ UNCHANGED <<disk, newest, mishap, now, kills, expired>>

\* api.state.set and delete change the copy, then tell the host.
CallState(e) ==
    /\ ~x[e].null
    /\ Room(e)
    /\ \E call \in {"set", "delete"} :
          /\ NextCall(e, call)
          /\ Becomes(e, [EmitsOp(Called(e), call) EXCEPT
                            !.copy["mode"] = IF call = "set" THEN e ELSE 0])
    /\ UNCHANGED <<disk, newest, mishap, now, kills, expired>>

\* Mutant: seconds and milliseconds confused.
WithinMillis(e) == x[e].copy["stamp"] # 0 /\ x[e].at - x[e].copy["stamp"] < 0

Within(e) == x[e].copy["stamp"] # 0 /\ x[e].at - x[e].copy["stamp"] < Window

\* api.guard.debounce or throttle; a script that is refused returns.
Guard(e) ==
    /\ NextCall(e, "guard")
    /\ ~x[e].null
    /\ \/ /\ Within(e)
          /\ Becomes(e, [x[e] EXCEPT !.calls = <<>>])
       \/ /\ ~Within(e) /\ Room(e)
          /\ Becomes(e, [EmitsOp(Called(e), "stamp") EXCEPT
                            !.copy["stamp"] = x[e].at, !.passed = TRUE])
    /\ UNCHANGED <<disk, newest, mishap, now, kills, expired>>

\* A request not awaited yet.
CallRequest(e) ==
    /\ Room(e)
    /\ \E call \in {"read", "write", "run"} :
          /\ NextCall(e, call)
          /\ Becomes(e, [Emits(Called(e), call) EXCEPT !.pending = @ + 1])
    /\ UNCHANGED <<disk, newest, mishap, now, kills, expired>>

\* The event loop runs, and with it the reading of answers, until all
\* pending requests are settled.
Await(e) ==
    /\ NextCall(e, "await")
    /\ Becomes(e, [Called(e) EXCEPT
                      !.node = IF x[e].pending = 0 THEN "js" ELSE "await"])
    /\ UNCHANGED <<disk, newest, mishap, now, kills, expired>>

\* rl.on("line"): an error rejects, which the script may catch.
Answer(e) ==
    /\ NodeAt(e, "await")
    /\ x[e].inp # <<>>
    /\ \E caught \in IF Head(x[e].inp) = "ok" THEN {TRUE} ELSE BOOLEAN :
          Becomes(e, [x[e] EXCEPT !.inp = Tail(@), !.pending = @ - 1,
                                  !.node = IF ~caught THEN "exit1"
                                           ELSE IF x[e].pending = 1 THEN "js"
                                           ELSE "await"])
    /\ UNCHANGED <<disk, newest, mishap, now, kills, expired>>

\* The host has closed the script's input: nothing is left to wait for.
InputEnds(e) ==
    /\ NodeAt(e, "await") /\ x[e].inp = <<>> /\ HostAt(e, "wait")
    /\ Becomes(e, [x[e] EXCEPT !.node = "exit0"])
    /\ UNCHANGED <<disk, newest, mishap, now, kills, expired>>

\* A line longer than the pipe: written in part, and the rest blocks.
CallHuge(e) ==
    /\ NextCall(e, "huge") /\ Room(e)
    /\ Becomes(e, [Emits(Called(e), "huge") EXCEPT !.node = "pouring"])
    /\ UNCHANGED <<disk, newest, mishap, now, kills, expired>>

\* An exception, or a state that could not be read (null).
Throw(e) ==
    /\ \/ NextCall(e, "throw")
       \/ x[e].null /\ \E call \in {"set", "delete", "guard"} : NextCall(e, call)
    /\ Becomes(e, [x[e] EXCEPT !.node = "exit1"])
    /\ UNCHANGED <<disk, newest, mishap, now, kills, expired>>

\* The entry point returns: its result is emitted and node ends.
Finish(e) ==
    /\ NodeAt(e, "js") /\ x[e].calls = <<>> /\ Room(e)
    /\ Becomes(e, [Emits(x[e], "result") EXCEPT !.node = "exit0"])
    /\ UNCHANGED <<disk, newest, mishap, now, kills, expired>>

\* Mutant: exec.Command instead of exec.CommandContext.
NeverKilled(e) == FALSE

\* exec.CommandContext kills node when the context is done.
NodeKilled(e) == Cancelled(e) /\ ~NodeGone(e)

NodeDies(e) ==
    /\ Running(e)
    /\ NodeKilled(e)
    /\ Becomes(e, [x[e] EXCEPT !.node = "dead"])
    /\ UNCHANGED <<disk, newest, mishap, now, kills, expired>>

Node(e) ==
    \/ Log(e) \/ CallDevice(e) \/ CallState(e) \/ Guard(e) \/ CallRequest(e)
    \/ Await(e) \/ Answer(e) \/ InputEnds(e) \/ CallHuge(e)
    \/ Throw(e) \/ Finish(e) \/ NodeDies(e)

-----------------------------------------------------------------------------
\* context.WithTimeout in executeAutomationScript.
Expire(e) ==
    /\ e \in Timed /\ Running(e) /\ x[e].root = e /\ e \notin expired
    /\ expired' = expired \cup {e}
    /\ UNCHANGED <<disk, newest, mishap, now, kills, x>>

\* The host process is killed or replaces itself; its scripts lose both pipes.
Kill(e) ==
    /\ kills < MaxKills
    /\ Running(e) /\ x[e].root = e
    /\ kills' = kills + 1
    /\ x' = [a \in Execs |->
                IF Running(a) /\ x[a].root = e
                THEN Ended(a, "killed") ELSE x[a]]
    /\ UNCHANGED <<disk, newest, mishap, now, expired>>

Tick ==
    /\ now < MaxTime
    /\ now' = now + 1
    /\ UNCHANGED <<disk, newest, mishap, kills, expired, x>>

Next ==
    \/ \E e \in Execs :
          \/ \E program \in Programs[e] : Start(e, program)
          \/ Host(e) \/ Node(e) \/ Expire(e) \/ Kill(e)
    \/ Tick

Spec == Init /\ [][Next]_vars

\* Goroutines and processes that can go on do, hub calls return, and a
\* deadline comes.
FairSpec ==
    /\ Spec
    /\ \A e \in Execs : WF_vars(Host(e)) /\ WF_vars(Node(e)) /\ WF_vars(Expire(e))

-----------------------------------------------------------------------------
(* Properties.                                                             *)

Nodes == {"none", "js", "await", "pouring", "exit0", "exit1", "dead"}
Hosts == Over \cup {"idle", "scan", "open", "save", "reply", "called", "wait"}

Lines == (Calls \ {"guard", "await", "throw"}) \cup {"stamp", "result"}
Maps == [StateKeys -> Nat]

ExecRecords ==
    [host : Hosts, node : Nodes, root : Execs \cup {0}, caller : Execs \cup {0},
     calls : Seq(Calls), out : Seq(Lines), inp : Seq({"ok", "error"}), pending : Int,
     at : Nat, copy : Maps, null : BOOLEAN,
     op : StateOps, mem : Maps, stale : BOOLEAN, reply : {"ok", "error"},
     sent : Nat, done : Nat,
     passed : BOOLEAN, saved : BOOLEAN, blind : SUBSET Execs]

\* The file holds a state, and every execution is at a step of its host and
\* at a step of its script, with lines and answers of the protocol between.
TypeOK ==
    /\ disk \in [state : {"ok", "empty", "garbled"}, map : Maps]
    /\ newest \in Maps
    /\ mishap \subseteq {"stale", "misread", "late"}
    /\ now \in Nat \ {0}
    /\ kills \in Nat
    /\ expired \subseteq Execs
    /\ x \in [Execs -> ExecRecords]

\* An execution that reports success has performed every operation its
\* script was told "ok" about when it made the call.
SuccessMeansAllDone ==
    \A e \in Execs : HostAt(e, "ok") => x[e].done = x[e].sent

NodeBlocked(e) ==
    \/ NodeAt(e, "pouring")
    \/ NodeAt(e, "await") /\ x[e].inp = <<>> /\ ~HostAt(e, "wait")
    \/ NodeAt(e, "js") /\ ~Room(e)

HostBlocked(e) ==
    /\ ~NodeGone(e)
    /\ \/ HostAt(e, "scan") /\ x[e].out = <<>>
       \/ HostAt(e, "reply") /\ Len(x[e].inp) = InCap
       \/ HostAt(e, "wait")

\* Script and host wait for each other only over a full pipe: an answer is
\* never missing, whatever the services return.
DeadlockNeedsFullPipe ==
    \A e \in Execs :
        NodeBlocked(e) /\ HostBlocked(e) => NodeAt(e, "pouring") \/ ~Room(e)

\* A key in the state file has the value of the last operation that was
\* performed on it, unless a script saved what it had loaded before another's
\* save, or somebody took the file for empty while it was being written (or
\* after its writer was killed).
KeysKept ==
    disk.state = "ok" =>
        disk.map = newest \/ mishap \cap {"stale", "misread"} # {}

\* Two scripts pass the same guard within its window only if neither had
\* saved its pass when the other one took its copy of the state, or a pass
\* was lost: with a key, or under the late save of an earlier pass.
GuardFailsOnlyBlind ==
    \A a, b \in Execs :
        /\ a # b /\ x[a].passed /\ x[b].passed
        /\ x[a].at - x[b].at \in 0 .. Window - 1
        => (a \in x[b].blind /\ b \in x[a].blind) \/ mishap # {}

\* An execution with a deadline ends, full pipes or not, and so does every
\* execution it calls.
ExecutionsEnd ==
    \A e \in Execs : (Running(e) /\ x[e].root \in Timed) ~> ~Running(e)
=============================================================================
