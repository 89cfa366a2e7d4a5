----------------------------- MODULE DukaNative -----------------------------
(***************************************************************************)
(* DukaOne ventilation units under the native backend                      *)
(* (src/internal/dukaone/native/client.go, src/internal/dukaone/dukaone.go *)
(* and the commands of src/internal/cli/cli.go that reach them).           *)
(*                                                                         *)
(* The program talks UDP from local port 4000, which one socket of the     *)
(* machine can hold: every reading of a unit, every setting and every      *)
(* search opens it and closes it again.  A unit answers to that port, not  *)
(* to a request: an answer says which unit it is from and nothing about    *)
(* what was asked.  Packets are lost and delayed.  The units and the       *)
(* network are external.                                                   *)
(***************************************************************************)
EXTENDS Integers, Functions

CONSTANTS
    Procs,        \* processes (or goroutines) of one machine
    Devices,      \* device ids
    Addresses,    \* addresses of the local network
    Attr,         \* the attributes in play, some of WriteOrder
    Jobs,         \* the commands each process runs
    Homes,        \* the units, where they are and where they are configured to be
    Deadline,     \* ticks a read or a search waits
    RetryAfter,   \* ticks before a status is asked again
    MaxCommands,  \* bound: commands run
    MaxLost       \* bound: packets lost or not sent, and processes killed

Free == "free"
Broadcast == "255.255.255.255"
NotThere == "absent"

Values == {0, 1}
Unknown == -1       \* an attribute not given, or not answered
Bad == -2           \* a value the command line accepts and the backend does not

\* buildWritePackets: the attributes in the order they are written.
WriteOrder == <<"mode", "speed", "manualSpeed", "resetFilter", "isOn">>
Sooner(a, b) ==
    \E i, j \in DOMAIN WriteOrder : i < j /\ WriteOrder[i] = a /\ WriteOrder[j] = b

Kinds == {"list", "refresh", "set", "devset", "discover", "add"}
JobRecords == [kind : Kinds, dev : Devices, attrs : [Attr -> Values \cup {Unknown, Bad}]]
Hosts == Addresses \cup {Broadcast}

ASSUME ProcsAssumption == Free \notin Procs
ASSUME DevicesAssumption == Devices # {}
ASSUME AttrAssumption == Attr \subseteq Range(WriteOrder)
ASSUME JobsAssumption == Jobs \in [Procs -> SUBSET JobRecords]
ASSUME HomesAssumption ==
    Homes \subseteq [regs : [Devices -> [Attr -> Values]],
                    addr : {f \in [Devices -> Addresses] : IsInjective(f)},
                    config : [Devices -> Hosts \cup {NotThere}]]
ASSUME TimesAssumption == Deadline \in Nat /\ RetryAfter \in Nat
ASSUME BoundsAssumption == MaxCommands \in Nat /\ MaxLost \in Nat

VARIABLES
    regs,      \* the units' registers
    addr,      \* the units' addresses
    config,    \* dukaone.devices: the host configured for a unit
    cache,     \* the units of the cached inventory
    requests,  \* packets on their way to a unit
    answers,   \* packets on their way to port 4000
    port,      \* who holds the port
    run,       \* what each process is doing
    want,      \* history: the value last asked of each register
    spoilt,    \* history: registers whose packet was lost, overtaken or never sent
    ran,       \* commands run
    lost       \* packets lost or not sent, and processes killed

world == <<regs, addr>>
history == <<want, spoilt>>
bounds == <<ran, lost>>
vars == <<world, config, cache, requests, answers, port, run, history, bounds>>

-----------------------------------------------------------------------------
(* What a unit answers and what a reader makes of it.                      *)

Nothing == [a \in Attr |-> Unknown]

\* decodeResponse: a unit that is off has speed off, whatever it says.
Decoded(vals) ==
    [a \in Attr |-> IF a = "speed" /\ "isOn" \in Attr /\ vals["isOn"] = 0 THEN 0 ELSE vals[a]]

\* The values a unit has, read that way.
View(r) == Decoded(r)

HasLiveStatus(vals) == \E a \in Attr : vals[a] # Unknown

\* mergeState
Merged(old, new) == [a \in Attr |-> IF new[a] = Unknown THEN old[a] ELSE new[a]]

\* Mutant: an answer of any unit is taken.
AnyUnit(a, d) == TRUE

\* ReadState takes an answer by the id in it.
IsFrom(a, d) == a.dev = d

Request(p, n, d, kind, attr, val) ==
    [by |-> p, n |-> n, dev |-> d, kind |-> kind, attr |-> attr, val |-> val]

Answer(r, vals, at) ==
    [by |-> r.by, n |-> r.n, dev |-> r.dev, kind |-> r.kind, vals |-> vals, at |-> at]

Idle == [pc |-> "idle", job |-> "list", dev |-> CHOOSE d \in Devices : TRUE, todo |-> {},
         items |-> {}, missing |-> {}, vals |-> Nothing, firmware |-> FALSE, waited |-> 0,
         tries |-> 0, retryAt |-> 0, packets |-> {}, attrs |-> Nothing,
         found |-> [d \in Devices |-> NotThere],
         excused |-> {}, leftover |-> FALSE,
         held |-> [a \in Attr |-> {}]]

Configured == {d \in Devices : config[d] # NotThere}

Init ==
    /\ \E home \in Homes : regs = home.regs /\ addr = home.addr /\ config = home.config
    /\ cache = Configured
    /\ requests = {}
    /\ answers = {}
    /\ port = Free
    /\ run = [p \in Procs |-> Idle]
    /\ want = regs
    /\ spoilt = {}
    /\ ran = 0
    /\ lost = 0

-----------------------------------------------------------------------------
(* Sending and ending.                                                     *)

\* The packets of a unicast to where the unit is, or of a broadcast.  What is
\* sent elsewhere reaches nobody, or a unit that ignores it.
Reaches(host, d) == host = Broadcast \/ host = addr[d]

Sent(p, n, d, kind) ==
    IF Reaches(config[d], d) THEN {Request(p, n, d, kind, "", 0)} ELSE {}

InFlight(d) == {m \in requests \cup answers : m.dev = d}

Become(p, new) == run' = [run EXCEPT ![p] = new]

Finish(p) == Become(p, Idle)

Trouble ==
    /\ lost < MaxLost
    /\ lost' = lost + 1
    /\ UNCHANGED ran

\* The units that List reads, one after the other.
ReadAll(r) == [r EXCEPT !.pc = IF Configured = {} THEN "listed" ELSE "open",
                        !.todo = Configured]

\* The one it is at.
Current(r) == CHOOSE d \in r.todo : TRUE

\* Mutant: the list ends with its first unit.
FirstUnitOnly(r) ==
    [r EXCEPT !.pc = "listed", !.todo = {}, !.vals = Nothing, !.firmware = FALSE,
              !.waited = 0, !.tries = 0, !.retryAt = 0,
              !.leftover = FALSE, !.held = [a \in Attr |-> {}]]

\* List goes on to the next unit.
NextUnit(r) == [r EXCEPT !.pc = IF r.todo = {Current(r)} THEN "listed" ELSE "open",
                         !.todo = @ \ {Current(r)}, !.vals = Nothing, !.firmware = FALSE,
                         !.waited = 0, !.tries = 0, !.retryAt = 0,
                         !.leftover = FALSE, !.held = [a \in Attr |-> {}]]

Begin(p, job) ==
    /\ run[p].pc = "idle"
    /\ ran < MaxCommands
    /\ ran' = ran + 1
    /\ LET r == [Idle EXCEPT !.job = job.kind, !.dev = job.dev, !.attrs = job.attrs]
       IN Become(p, CASE job.kind \in {"list", "refresh", "devset"} -> ReadAll(r)
                      [] job.kind = "set" -> [r EXCEPT !.pc = "set"]
                      [] job.kind \in {"discover", "add"} -> [r EXCEPT !.pc = "search"])
    /\ UNCHANGED <<world, config, cache, requests, answers, port, history, lost>>

-----------------------------------------------------------------------------
(* ReadState, as List calls it.                                            *)

OpenRead(p) ==
    /\ run[p].pc = "open"
    /\ port = Free
    /\ LET d == Current(run[p])
       IN /\ port' = p
          /\ requests' = requests \cup Sent(p, 0, d, "firmware")
          /\ Become(p, [run[p] EXCEPT
                !.pc = "ask",
                !.held = [a \in Attr |-> {View(regs[d])[a]}],
                !.leftover = InFlight(d) # {},
                !.excused = IF Reaches(config[d], d) THEN @ ELSE @ \cup {d}])
    /\ UNCHANGED <<world, config, cache, answers, history, bounds>>

\* ReadState returns an error: List leaves the unit out.
LeaveOut(p) ==
    LET d == Current(run[p])
    IN Become(p, [NextUnit(run[p]) EXCEPT !.missing = @ \cup {d}, !.excused = @ \cup {d}])

\* Another socket has the port.
OpenReadFails(p) ==
    /\ run[p].pc = "open"
    /\ port # Free
    /\ LeaveOut(p)
    /\ UNCHANGED <<world, config, cache, requests, answers, port, history, bounds>>

AskStatus(p) ==
    /\ run[p].pc = "ask"
    /\ LET d == Current(run[p])
       IN /\ requests' = requests \cup Sent(p, 1, d, "status")
          /\ Become(p, [run[p] EXCEPT
                !.pc = "read", !.tries = 1, !.retryAt = RetryAfter,
                !.excused = IF Reaches(config[d], d) THEN @ ELSE @ \cup {d}])
    /\ UNCHANGED <<world, config, cache, answers, port, history, bounds>>

\* A packet of the unit adds to what is known of it.
Heard(p, a) ==
    IF IsFrom(a, Current(run[p])) /\ a.kind # "search"
    THEN [run[p] EXCEPT !.vals = Merged(@, a.vals),
                        !.firmware = @ \/ a.kind = "firmware"]
    ELSE run[p]

AsksAgain(r) == ~HasLiveStatus(r.vals) /\ r.waited > r.retryAt

\* A packet wakes the reader, and unless it brings the status the reader asks
\* again if it is time to.  Nothing but a packet wakes it before the deadline.
Receive(p, a) ==
    /\ run[p].pc = "read"
    /\ ~HasLiveStatus(run[p].vals)
    /\ answers' = answers \ {a}
    /\ LET d == Current(run[p])
           r == Heard(p, a)
       IN IF AsksAgain(r)
          THEN /\ Become(p, [r EXCEPT !.tries = @ + 1, !.retryAt = r.waited + RetryAfter])
               /\ requests' = requests \cup Sent(p, r.tries + 1, d, "status")
          ELSE Become(p, r) /\ UNCHANGED requests
    /\ UNCHANGED <<world, config, cache, port, history, bounds>>

Tick(p) ==
    /\ run[p].pc \in {"read", "collect"}
    /\ run[p].waited < Deadline
    /\ Become(p, [run[p] EXCEPT !.waited = @ + 1])
    /\ UNCHANGED <<world, config, cache, requests, answers, port, history, bounds>>

\* Mutant: a timeout is always waited out again.
NeverOver(r) == FALSE

Over(r) == r.waited = Deadline

\* conn.Close, deferred in all three exchanges.
Close(p) == port' = Free

\* WriteToUDP fails: what was heard so far is given up with the unit.
ReadUnsent(p) ==
    /\ Trouble
    /\ \/ run[p].pc = "open" /\ port = Free /\ UNCHANGED <<port, answers>>
       \/ run[p].pc = "ask" /\ Close(p) /\ UNCHANGED answers
       \/ /\ run[p].pc = "read"
          /\ ~HasLiveStatus(run[p].vals)
          /\ \E a \in answers : AsksAgain(Heard(p, a)) /\ answers' = answers \ {a}
          /\ Close(p)
    /\ LeaveOut(p)
    /\ UNCHANGED <<world, config, cache, requests, history>>

\* What ReadState returns at its end: the status, or the firmware alone.
Responded(r) == HasLiveStatus(r.vals) \/ r.firmware

EndRead(p) ==
    /\ run[p].pc = "read"
    /\ HasLiveStatus(run[p].vals) \/ Over(run[p])
    /\ Close(p)
    /\ LET d == Current(run[p])
           r == NextUnit(run[p])
       IN Become(p, IF Responded(run[p]) THEN [r EXCEPT !.items = @ \cup {d}]
                    ELSE [r EXCEPT !.missing = @ \cup {d},
                                   !.excused = IF InFlight(d) = {} THEN @ ELSE @ \cup {d}])
    /\ UNCHANGED <<world, config, cache, requests, answers, history, bounds>>

\* List fails when every unit did.
ListFailed(r) == r.items = {} /\ r.missing # {}

\* fetchUnifiedHome and refreshInventoryCache: with the units, or not at all.
Listed(p) ==
    /\ run[p].pc = "listed"
    /\ LET r == run[p]
           goOn == r.job = "devset" /\ ~ListFailed(r) /\ r.dev \in r.items
       IN /\ cache' = IF r.job = "refresh" /\ ~ListFailed(r) THEN r.items ELSE cache
          /\ IF goOn THEN Become(p, [r EXCEPT !.pc = "set"]) ELSE Finish(p)
    /\ UNCHANGED <<world, config, requests, answers, port, history, bounds>>

-----------------------------------------------------------------------------
(* SetAttributes.                                                          *)

Written(attrs) == {a \in Attr : attrs[a] # Unknown /\ (a = "resetFilter" => attrs[a] # 0)}

\* Mutant: the first attribute only.
OnePacket(attrs) ==
    LET all == Written(attrs)
    IN IF \E a \in Attr : attrs[a] = Bad THEN {} ELSE {a \in all : \A b \in all \ {a} : Sooner(a, b)}

\* buildWritePackets: nothing at all when one value is unsupported.
Packets(attrs) ==
    IF \E a \in Attr : attrs[a] = Bad THEN {} ELSE Written(attrs)

OpenSet(p) ==
    /\ run[p].pc = "set"
    /\ run[p].dev \in Configured
    /\ port = Free
    /\ Packets(run[p].attrs) # {}
    /\ port' = p
    /\ Become(p, [run[p] EXCEPT !.pc = "write", !.packets = Packets(run[p].attrs)])
    /\ want' = [want EXCEPT ![run[p].dev] =
                    [a \in Attr |-> IF a \in Written(run[p].attrs)
                                    THEN run[p].attrs[a] ELSE @[a]]]
    /\ UNCHANGED <<world, config, cache, requests, answers, spoilt, bounds>>

\* Not configured, the port taken, nothing to write or an unsupported value.
OpenSetFails(p) ==
    /\ run[p].pc = "set"
    /\ run[p].dev \in Configured => port # Free \/ Packets(run[p].attrs) = {}
    /\ Finish(p)
    /\ UNCHANGED <<world, config, cache, requests, answers, port, history, bounds>>

\* The settings of one register that are under way.
Writes(d, a) == {m \in requests : m.dev = d /\ m.kind = "write" /\ m.attr = a}

Write(p) ==
    /\ run[p].pc = "write"
    /\ \E a \in run[p].packets :
          /\ \A b \in run[p].packets \ {a} : Sooner(a, b)
          /\ LET d == run[p].dev
                 val == run[p].attrs[a]
                 reaches == Reaches(config[d], d)
             IN /\ requests' = IF reaches THEN requests \cup {Request(p, 0, d, "write", a, val)}
                               ELSE requests
                /\ spoilt' = IF reaches /\ Writes(d, a) = {} THEN spoilt \ {<<d, a>>}
                             ELSE spoilt \cup {<<d, a>>}
                /\ Become(p, [run[p] EXCEPT
                      !.packets = @ \ {a},
                      !.pc = IF run[p].packets = {a} THEN "reread" ELSE "write"])
    /\ UNCHANGED <<world, config, cache, answers, port, want, bounds>>

\* The registers whose packets p has not sent yet.
Unsent(p) == {<<run[p].dev, a>> : a \in run[p].packets}

\* WriteToUDP fails: the rest is not sent either.
WriteUnsent(p) ==
    /\ run[p].pc = "write"
    /\ Trouble
    /\ spoilt' = spoilt \cup Unsent(p)
    /\ Finish(p)
    /\ Close(p)
    /\ UNCHANGED <<world, config, cache, requests, answers, want>>

\* SetAttributes reads the unit before its own socket is closed: the listen
\* of ReadState finds the port taken, and the command fails.
Reread(p) ==
    /\ run[p].pc = "reread"
    /\ port # Free
    /\ Finish(p)
    /\ Close(p)
    /\ UNCHANGED <<world, config, cache, requests, answers, history, bounds>>

-----------------------------------------------------------------------------
(* Discover and `dukaone add`.                                             *)

Search(p) ==
    /\ run[p].pc = "search"
    /\ port = Free
    /\ port' = p
    /\ requests' = requests \cup {Request(p, 0, d, "search", "", 0) : d \in Devices}
    /\ Become(p, [run[p] EXCEPT !.pc = "collect"])
    /\ UNCHANGED <<world, config, cache, answers, history, bounds>>

SearchFails(p) ==
    /\ run[p].pc = "search"
    /\ port # Free
    /\ Finish(p)
    /\ UNCHANGED <<world, config, cache, requests, answers, port, history, bounds>>

SearchUnsent(p) ==
    /\ run[p].pc = "search"
    /\ port = Free
    /\ Trouble
    /\ Finish(p)
    /\ UNCHANGED <<world, config, cache, requests, answers, port, history>>

Collect(p, a) ==
    /\ run[p].pc = "collect"
    /\ answers' = answers \ {a}
    /\ Become(p, IF a.kind = "search" THEN [run[p] EXCEPT !.found[a.dev] = a.at] ELSE run[p])
    /\ UNCHANGED <<world, config, cache, requests, port, history, bounds>>

\* `dukaone add`: the units found that are not configured yet.
Added(found) == [d \in Devices |-> IF config[d] = NotThere THEN found[d] ELSE config[d]]

\* A list that has begun knows nothing of units added since.
Unknowing(p, new) ==
    [q \in Procs |-> IF q = p THEN Idle
                     ELSE IF run[q].pc = "idle" THEN run[q]
                     ELSE [run[q] EXCEPT !.excused = @ \cup new]]

\* The search is over.  Each unit found is read under the same open socket,
\* which fails, so that the list holds addresses only.
Collected(p) ==
    /\ run[p].pc = "collect"
    /\ Over(run[p])
    /\ Close(p)
    /\ IF run[p].job = "add"
       THEN /\ config' = Added(run[p].found)
            /\ run' = Unknowing(p, {d \in Configured' : config[d] = NotThere})
       ELSE Become(p, ReadAll([Idle EXCEPT !.job = "discover"])) /\ UNCHANGED config
    /\ UNCHANGED <<world, cache, requests, answers, history, bounds>>

\* The process is killed, between two packets of a setting perhaps; its socket
\* goes with it.
Kill(p) ==
    /\ run[p].pc # "idle"
    /\ Trouble
    /\ spoilt' = spoilt \cup (IF run[p].pc = "write" THEN Unsent(p) ELSE {})
    /\ port' = IF port = p THEN Free ELSE port
    /\ Finish(p)
    /\ UNCHANGED <<world, config, cache, requests, answers, want>>

-----------------------------------------------------------------------------
(* The units and the network (external).                                   *)

\* Who reads d at this moment, if anybody, sees its values change.
Seen(d, view) ==
    [p \in Procs |->
        IF run[p].pc \in {"ask", "read"} /\ Current(run[p]) = d
        THEN [run[p] EXCEPT !.held = [a \in Attr |-> @[a] \cup {view[a]}]]
        ELSE run[p]]

\* A unit reads all, writes one register and repeats it, or tells its id.  A
\* filter reset is not answered.
Serve(m) ==
    /\ LET d == m.dev
           now == IF m.kind = "write" /\ m.attr # "resetFilter"
                  THEN [regs[d] EXCEPT ![m.attr] = m.val] ELSE regs[d]
           said == CASE m.kind = "status" -> Decoded(now)
                     [] m.kind = "write" -> Decoded([Nothing EXCEPT ![m.attr] = m.val])
                     [] m.kind \in {"firmware", "search"} -> Nothing
       IN /\ regs' = [regs EXCEPT ![d] = now]
          /\ run' = Seen(d, View(now))
          /\ answers' = IF m.kind = "write" /\ m.attr = "resetFilter" THEN answers
                        ELSE answers \cup {Answer(m, said, addr[d])}
    /\ requests' = requests \ {m}
    /\ UNCHANGED <<addr, config, cache, port, history, bounds>>

\* A packet lost while a reader waits for the unit excuses the reader.
Excuse(d) ==
    [p \in Procs |->
        IF run[p].pc \in {"ask", "read"} /\ Current(run[p]) = d
        THEN [run[p] EXCEPT !.excused = @ \cup {d}] ELSE run[p]]

LoseRequest(m) ==
    /\ Trouble
    /\ requests' = requests \ {m}
    /\ run' = Excuse(m.dev)
    /\ spoilt' = IF m.kind = "write" THEN spoilt \cup {<<m.dev, m.attr>>} ELSE spoilt
    /\ UNCHANGED <<world, config, cache, answers, port, want>>

LoseAnswer(a) ==
    /\ Trouble
    /\ \E p \in Procs : port = p /\ run[p].pc \in {"ask", "read", "collect"}
    /\ answers' = answers \ {a}
    /\ run' = Excuse(a.dev)
    /\ UNCHANGED <<world, config, cache, requests, port, history>>

\* An answer that finds no socket, or one nobody reads from.
Drop(a) ==
    /\ \A p \in Procs : port = p => run[p].pc \in {"write", "reread"}
    /\ answers' = answers \ {a}
    /\ UNCHANGED <<world, config, cache, requests, port, run, history, bounds>>

-----------------------------------------------------------------------------

Step(p) ==
    \/ OpenRead(p) \/ OpenReadFails(p) \/ AskStatus(p) \/ EndRead(p) \/ Listed(p)
    \/ Tick(p)
    \/ \E a \in answers : Receive(p, a) \/ Collect(p, a)
    \/ OpenSet(p) \/ OpenSetFails(p) \/ Write(p) \/ Reread(p)
    \/ Search(p) \/ SearchFails(p) \/ Collected(p)

\* What stops a process on its way.
Fail(p) == ReadUnsent(p) \/ WriteUnsent(p) \/ SearchUnsent(p) \/ Kill(p)

Network ==
    \/ \E m \in requests : Serve(m) \/ LoseRequest(m)
    \/ \E a \in answers : LoseAnswer(a) \/ Drop(a)

Next ==
    \/ \E p \in Procs : Step(p) \/ Fail(p) \/ \E job \in Jobs[p] : Begin(p, job)
    \/ Network

Spec == Init /\ [][Next]_vars

\* The processes run and their time passes; packets owe nobody anything.
FairSpec == Spec /\ \A p \in Procs : WF_vars(Step(p))

-----------------------------------------------------------------------------
(* Properties.                                                             *)

Reading(p) == run[p].pc \in {"ask", "read"}

RunRecords ==
    [pc : {"idle", "open", "ask", "read", "listed", "set", "write", "reread", "search", "collect"},
     job : Kinds, dev : Devices, todo : SUBSET Devices, items : SUBSET Devices,
     missing : SUBSET Devices, vals : [Attr -> Values \cup {Unknown}], firmware : BOOLEAN,
     waited : 0 .. Deadline, tries : 0 .. Deadline + 1, retryAt : Nat, packets : SUBSET Attr,
     attrs : [Attr -> Values \cup {Unknown, Bad}], found : [Devices -> Addresses \cup {NotThere}],
     excused : SUBSET Devices, leftover : BOOLEAN, held : [Attr -> SUBSET Values]]

RequestRecords ==
    [by : Procs, n : Nat, dev : Devices, kind : {"firmware", "status", "search"}, attr : {""}, val : {0}]
    \cup [by : Procs, n : Nat, dev : Devices, kind : {"write"}, attr : Attr, val : Values]

AnswerRecords ==
    [by : Procs, n : Nat, dev : Devices, kind : {"firmware", "status", "search", "write"},
     vals : [Attr -> Values \cup {Unknown}], at : Addresses]

\* The shape of the state: who uses the network holds the port, and the port
\* is held by nobody else, on every way out of the three exchanges.
TypeOK ==
    /\ regs \in [Devices -> [Attr -> Values]] /\ want \in [Devices -> [Attr -> Values]]
    /\ addr \in [Devices -> Addresses]
    /\ config \in [Devices -> Hosts \cup {NotThere}]
    /\ cache \subseteq Devices
    /\ requests \subseteq RequestRecords
    /\ answers \subseteq AnswerRecords
    /\ run \in [Procs -> RunRecords]
    /\ port \in Procs \cup {Free}
    /\ \A p \in Procs : (port = p) <=> run[p].pc \in {"ask", "read", "write", "reread", "collect"}

\* A reading of a unit shows values the unit had while it was read
\* (native/client.go, ReadState), unless a packet of that unit was under way
\* before the read began: the answer to a setting, or to a read that gave up.
ReadingIsCurrent ==
    \A p \in Procs : \A a \in Attr :
        Reading(p) /\ ~run[p].leftover /\ run[p].vals[a] # Unknown
        => run[p].vals[a] \in run[p].held[a]

ListenFails(p) ==
    OpenReadFails(p) \/ OpenSetFails(p) \/ SearchFails(p) \/ Reread(p)

\* A command that fails to listen does so because another process has the
\* port (dukaone.go, SetAttributes under the native backend).
PortBusyNeedsOther == [][\A p \in Procs : ListenFails(p) => port # p]_vars

\* When no setting is under way, each register has the value that was last
\* asked of it (client.go, SetAttributes), although every command that set it
\* reported a failure, unless its packet was lost, sent where the unit is not,
\* sent while an older one was still under way, or never sent: SetAttributes
\* ends at the first packet it cannot send, or is killed before it has sent all.
LastSettingWins ==
    \A d \in Devices, a \in Attr \ {"resetFilter"} :
        /\ <<d, a>> \notin spoilt
        /\ Writes(d, a) = {}
        /\ \A p \in Procs : run[p].pc = "write" => run[p].dev # d
        => regs[d][a] = want[d][a]

\* A unit leaves the cached inventory (cli.go, refreshInventoryCache over
\* dukaone.List) only when the refresh has an excuse: a packet of that unit
\* lost, not sent or too late, its address no longer the configured one, the port taken,
\* or the unit added since the refresh began.
CacheDropsForCause ==
    [][\A d \in cache \ cache' :
          \E p \in Procs : run[p].pc = "listed" /\ d \in run[p].excused]_vars

\* Whoever takes the port gives it back, without any packet having to arrive
\* (client.go, the deadlines of ReadState and Discover).
PortIsFreed == \A p \in Procs : port = p ~> port # p
=============================================================================
