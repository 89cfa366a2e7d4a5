-------------------------- MODULE DukaNativeProofs --------------------------
(***************************************************************************)
(* For every set of units, commands and packets: what a reading shows,     *)
(* which setting a unit ends up with, and why a unit leaves the inventory. *)
(***************************************************************************)
EXTENDS DukaNative, TLAPS

-----------------------------------------------------------------------------
(* The invariant.                                                          *)

\* A reader is at a unit, knows nothing of it before, and asks again at most
\* once a tick.
Reader(r) ==
    /\ r.pc \in {"open", "ask", "read"} => r.todo # {}
    /\ r.pc = "listed" => r.todo = {}
    /\ r.pc # "read" => r.vals = Nothing /\ ~r.firmware /\ r.tries = 0 /\ r.retryAt = 0
    /\ r.pc = "read" => /\ r.tries + RetryAfter <= r.retryAt + 1
                        /\ r.retryAt <= r.waited + RetryAfter

\* What is known or answered of the unit it is at was so while it read.
Within(vals, held) == \A a \in Attr : vals[a] = Unknown \/ vals[a] \in held[a]

Timely(r, reqs, ans, rg) ==
    r.pc \in {"ask", "read"} /\ ~r.leftover =>
        /\ Within(r.vals, r.held)
        /\ \A a \in ans : a.dev = Current(r) => Within(a.vals, r.held)
        /\ \A m \in reqs : m.dev = Current(r) => m.kind # "write"
        /\ Within(View(rg[Current(r)]), r.held)

\* Who writes was asked for exactly this.
Asked(r, wanted) ==
    r.pc = "write" => /\ r.packets # {}
                      /\ \A a \in r.packets : r.attrs[a] = wanted[r.dev][a]

\* Every configured unit is to be read, was read, or is excused.
Accounted(r, known) ==
    r.pc \in {"open", "ask", "read", "listed"} =>
        /\ r.todo \cup r.items \subseteq known
        /\ known \subseteq r.todo \cup r.items \cup r.excused

\* Until it has an answer, or an excuse, one is under way to a reader.
Awaited(r, reqs, ans) ==
    r.pc \in {"ask", "read"} /\ Current(r) \notin r.excused =>
        \/ Responded(r)
        \/ \E m \in reqs \cup ans : m.dev = Current(r) /\ m.kind = "firmware"

Sound(r, reqs, ans, rg, wanted, known) ==
    /\ Reader(r)
    /\ Timely(r, reqs, ans, rg)
    /\ Asked(r, wanted)
    /\ Accounted(r, known)
    /\ Awaited(r, reqs, ans)

AllSound == \A p \in Procs : Sound(run[p], requests, answers, regs, want, Configured)

\* A packet that is still to be written.
Due(rn, d, a) == \E p \in Procs : rn[p].pc = "write" /\ rn[p].dev = d /\ a \in rn[p].packets

\* A register has the value last asked of it, or a packet brings it.
Settled(rg, wanted, reqs, d, a) ==
    /\ \A m \in reqs : m.dev = d /\ m.kind = "write" /\ m.attr = a => m.val = wanted[d][a]
    /\ (\A m \in reqs : ~(m.dev = d /\ m.kind = "write" /\ m.attr = a))
       => rg[d][a] = wanted[d][a]

Settling ==
    \A d \in Devices, a \in Attr \ {"resetFilter"} :
        <<d, a>> \notin spoilt /\ ~Due(run, d, a) => Settled(regs, want, requests, d, a)

DukaInv == TypeOK /\ AllSound /\ Settling /\ cache \subseteq Configured

-----------------------------------------------------------------------------
(* What the operators yield.                                               *)

Using == {"ask", "read", "write", "reread", "collect"}

\* CurrentIn: a list that has units left is at one of them.
LEMMA CurrentIn ==
    ASSUME NEW r, r.todo # {}
    PROVE  Current(r) \in r.todo
  BY DEF Current

\* CurrentSame: which one depends on nothing but the units left.
LEMMA CurrentSame ==
    ASSUME NEW r, NEW s, r.todo = s.todo
    PROVE  Current(r) = Current(s)
  BY DEF Current

\* DecodedType: decoding yields values where values were said.
LEMMA DecodedType ==
    ASSUME NEW S, 0 \in S, NEW v \in [Attr -> S]
    PROVE  Decoded(v) \in [Attr -> S]
  BY DEF Decoded

\* IdleType: a process between two commands knows nothing.
LEMMA IdleType ==
    /\ Idle \in RunRecords
    /\ Idle.pc = "idle" /\ Idle.vals = Nothing /\ Idle.firmware = FALSE
    /\ Idle.tries = 0 /\ Idle.retryAt = 0
  <1>1. (CHOOSE d \in Devices : TRUE) \in Devices
    BY DevicesAssumption
  <1>2. Nothing \in [Attr -> Values \cup {Unknown}]
    BY DEF Nothing
  <1>3. Nothing \in [Attr -> Values \cup {Unknown, Bad}]
    BY DEF Nothing
  <1>4. [a \in Attr |-> {}] \in [Attr -> SUBSET Values]
    OBVIOUS
  <1>5. [d \in Devices |-> NotThere] \in [Devices -> Addresses \cup {NotThere}]
    OBVIOUS
  <1>6. Deadline \in Nat
    BY TimesAssumption
  <1> DEFINE n == Nothing  e == [a \in Attr |-> {}]  f == [d \in Devices |-> NotThere]
             c == CHOOSE d \in Devices : TRUE
  <1>7. /\ n \in [Attr -> Values \cup {Unknown}] /\ n \in [Attr -> Values \cup {Unknown, Bad}]
        /\ e \in [Attr -> SUBSET Values] /\ f \in [Devices -> Addresses \cup {NotThere}]
        /\ c \in Devices
    BY <1>1, <1>2, <1>3, <1>4, <1>5
  <1>8. Idle = [pc |-> "idle", job |-> "list", dev |-> c, todo |-> {},
         items |-> {}, missing |-> {}, vals |-> n, firmware |-> FALSE, waited |-> 0,
         tries |-> 0, retryAt |-> 0, packets |-> {}, attrs |-> n,
         found |-> f, excused |-> {}, leftover |-> FALSE, held |-> e]
    BY DEF Idle
  <1>9. n = Nothing
    OBVIOUS
  <1> HIDE DEF n, e, f, c
  <1> QED
    BY <1>6, <1>7, <1>8, <1>9 DEF RunRecords, Kinds

\* Unaffected: who neither reads nor writes a unit does not notice what
\* happens to the packets and the registers.
LEMMA Unaffected ==
    ASSUME NEW r, NEW rq, NEW an, NEW rg, NEW wn, NEW known,
           NEW rq2, NEW an2, NEW rg2, NEW wn2,
           Sound(r, rq, an, rg, wn, known),
           r.pc \notin {"ask", "read", "write"}
    PROVE  Sound(r, rq2, an2, rg2, wn2, known)
  BY DEF Sound, Timely, Asked, Awaited

\* OneUser: nobody uses the network but the holder of the port.
LEMMA OneUser ==
    ASSUME TypeOK, NEW p \in Procs, NEW q \in Procs, p # q, port \in {p, Free}
    PROVE  run[q].pc \notin Using
  BY ProcsAssumption DEF TypeOK, Using

\* Shapes: the types of everything but the processes and the port.
Shapes ==
    /\ regs \in [Devices -> [Attr -> Values]] /\ want \in [Devices -> [Attr -> Values]]
    /\ addr \in [Devices -> Addresses]
    /\ config \in [Devices -> Hosts \cup {NotThere}]
    /\ cache \subseteq Devices
    /\ requests \subseteq RequestRecords
    /\ answers \subseteq AnswerRecords

\* PortStep: a step of the one process that uses the network.
LEMMA PortStep ==
    ASSUME DukaInv, NEW p \in Procs, NEW new \in RunRecords, Become(p, new),
           port \in {p, Free}, port' \in {p, Free}, (port' = p) <=> new.pc \in Using,
           Shapes', UNCHANGED config,
           Sound(new, requests', answers', regs', want', Configured)
    PROVE  TypeOK' /\ AllSound'
  <1>1. run' = [run EXCEPT ![p] = new] /\ run \in [Procs -> RunRecords]
    BY DEF Become, DukaInv, TypeOK
  <1>2. run' \in [Procs -> RunRecords] /\ run'[p] = new
    BY <1>1
  <1>3. ASSUME NEW q \in Procs, q # p
        PROVE  run'[q] = run[q] /\ run[q].pc \notin Using
    BY <1>1, <1>3, OneUser DEF DukaInv
  <1>4. Configured' = Configured
    BY DEF Configured
  <1>5. TypeOK'
    <2>1. port' \in Procs \cup {Free}
      OBVIOUS
    <2>2. ASSUME NEW q \in Procs
          PROVE  (port' = q) <=> run'[q].pc \in Using
      <3>1. CASE q = p
        BY <3>1, <1>2
      <3>2. CASE q # p
        BY <3>2, <1>3, ProcsAssumption
      <3> QED
        BY <3>1, <3>2
    <2> QED
      BY <1>2, <2>1, <2>2 DEF TypeOK, Shapes, Using
  <1>6. ASSUME NEW q \in Procs
        PROVE  Sound(run'[q], requests', answers', regs', want', Configured')
    <2>1. CASE q = p
      BY <2>1, <1>2, <1>4
    <2>2. CASE q # p
      <3>1. Sound(run[q], requests, answers, regs, want, Configured)
        BY DEF DukaInv, AllSound
      <3>2. run[q].pc \notin {"ask", "read", "write"}
        BY <1>3, <2>2 DEF Using
      <3>3. Sound(run[q], requests', answers', regs', want', Configured)
        BY <3>1, <3>2, Unaffected
      <3> QED
        BY <3>3, <1>3, <1>4, <2>2
    <2> QED
      BY <2>1, <2>2
  <1> QED
    BY <1>5, <1>6 DEF AllSound

\* QuietStep: a step that nobody else can notice.
LEMMA QuietStep ==
    ASSUME DukaInv, NEW p \in Procs, NEW new \in RunRecords, Become(p, new),
           UNCHANGED <<regs, addr, config, requests, answers, port, want>>,
           cache' \subseteq Devices,
           new.pc \in Using <=> run[p].pc \in Using,
           Sound(new, requests, answers, regs, want, Configured)
    PROVE  TypeOK' /\ AllSound'
  <1>1. run' = [run EXCEPT ![p] = new] /\ run \in [Procs -> RunRecords]
    BY DEF Become, DukaInv, TypeOK
  <1>2. run' \in [Procs -> RunRecords] /\ run'[p] = new
    BY <1>1
  <1>3. ASSUME NEW q \in Procs, q # p
        PROVE  run'[q] = run[q]
    BY <1>1, <1>3
  <1>4. Configured' = Configured
    BY DEF Configured
  <1>5. ASSUME NEW q \in Procs
        PROVE  (port' = q) <=> run'[q].pc \in Using
    BY <1>2, <1>3 DEF DukaInv, TypeOK, Using
  <1>6. TypeOK'
    BY <1>2, <1>5 DEF DukaInv, TypeOK, Using
  <1>7. ASSUME NEW q \in Procs
        PROVE  Sound(run'[q], requests', answers', regs', want', Configured')
    <2>1. CASE q = p
      BY <2>1, <1>2, <1>4
    <2>2. CASE q # p
      BY <2>2, <1>3, <1>4 DEF DukaInv, AllSound
    <2> QED
      BY <2>1, <2>2
  <1> QED
    BY <1>6, <1>7 DEF AllSound

\* SettlingKept: nothing is asked, written or served.
LEMMA SettlingKept ==
    ASSUME Settling, NEW p \in Procs, NEW new, run \in [Procs -> RunRecords], Become(p, new),
           run[p].pc # "write", new.pc # "write", UNCHANGED <<regs, want, spoilt>>,
           \A m \in requests : m.kind = "write" => m \in requests',
           \A m \in requests' : m.kind = "write" => m \in requests
    PROVE  Settling'
  <1>1. ASSUME NEW q \in Procs
        PROVE  \/ run'[q] = run[q]
               \/ run'[q].pc # "write" /\ run[q].pc # "write"
    BY DEF Become
  <1>2. ASSUME NEW d, NEW a
        PROVE  Due(run, d, a) => Due(run', d, a)
    BY <1>1 DEF Due
  <1>3. SUFFICES ASSUME NEW d \in Devices, NEW a \in Attr \ {"resetFilter"},
                        <<d, a>> \notin spoilt', ~Due(run', d, a)
                 PROVE  Settled(regs', want', requests', d, a)
    BY DEF Settling
  <1>4. Settled(regs, want, requests, d, a)
    BY <1>2, <1>3 DEF Settling
  <1> QED
    BY <1>4 DEF Settled

-----------------------------------------------------------------------------
(* The list of the units.                                                  *)

\* ReadAllSound: a list begins with every configured unit still to be read.
LEMMA ReadAllSound ==
    ASSUME NEW r \in RunRecords, Configured \subseteq Devices,
           r.items = {}, r.vals = Nothing, ~r.firmware, r.tries = 0, r.retryAt = 0,
           NEW rq, NEW an, NEW rg, NEW wn
    PROVE  /\ ReadAll(r) \in RunRecords
           /\ ReadAll(r).pc \in {"open", "listed"}
           /\ Sound(ReadAll(r), rq, an, rg, wn, Configured)
  <1> DEFINE pc == IF Configured = {} THEN "listed" ELSE "open"
             n == [r EXCEPT !.pc = pc, !.todo = Configured]
  <1>1. n = ReadAll(r)
    BY DEF ReadAll
  <1>2. /\ pc \in {"open", "listed"}
        /\ pc = "listed" => Configured = {}
        /\ pc = "open" => Configured # {}
    OBVIOUS
  <1> HIDE DEF pc
  <1>3. /\ n \in RunRecords /\ n.pc = pc /\ n.todo = Configured
        /\ n.items = {} /\ n.vals = Nothing /\ ~n.firmware /\ n.tries = 0 /\ n.retryAt = 0
    BY <1>2 DEF RunRecords
  <1> HIDE DEF n
  <1>4. Reader(n) /\ Accounted(n, Configured)
    BY <1>2, <1>3 DEF Reader, Accounted
  <1> QED
    BY <1>1, <1>2, <1>3, <1>4 DEF Sound, Timely, Asked, Awaited

\* NextUnitFields: going on to the next unit forgets the answers of this one.
LEMMA NextUnitFields ==
    ASSUME NEW r \in RunRecords, r.todo # {}
    PROVE  /\ NextUnit(r) \in RunRecords
           /\ NextUnit(r).pc \in {"open", "listed"}
           /\ NextUnit(r).pc = "listed" <=> NextUnit(r).todo = {}
           /\ NextUnit(r).todo = r.todo \ {Current(r)}
           /\ NextUnit(r).items = r.items /\ NextUnit(r).excused = r.excused
           /\ NextUnit(r).missing = r.missing
           /\ NextUnit(r).vals = Nothing /\ ~NextUnit(r).firmware
           /\ NextUnit(r).tries = 0 /\ NextUnit(r).retryAt = 0
  <1> DEFINE pc == IF r.todo = {Current(r)} THEN "listed" ELSE "open"
             e == [a \in Attr |-> {}]
             left == r.todo \ {Current(r)}
             n == [r EXCEPT !.pc = pc, !.todo = left, !.vals = Nothing, !.firmware = FALSE,
                            !.waited = 0, !.tries = 0, !.retryAt = 0,
                            !.leftover = FALSE, !.held = e]
  <1>1. n = NextUnit(r)
    BY DEF NextUnit
  <1>2. /\ pc \in {"open", "listed"}
        /\ pc = "listed" <=> left = {}
    BY CurrentIn
  <1>3. left \subseteq Devices
    BY DEF RunRecords
  <1>4. e \in [Attr -> SUBSET Values] /\ Nothing \in [Attr -> Values \cup {Unknown}]
    BY DEF Nothing
  <1>5. Deadline \in Nat
    BY TimesAssumption
  <1> HIDE DEF pc, e, left
  <1>6. n \in RunRecords
    <2> DEFINE half == [r EXCEPT !.pc = pc, !.todo = left, !.vals = Nothing, !.firmware = FALSE]
    <2>1. half \in RunRecords
      BY <1>2, <1>3, <1>4 DEF RunRecords
    <2>2. n = [half EXCEPT !.waited = 0, !.tries = 0, !.retryAt = 0, !.leftover = FALSE,
                           !.held = e]
      OBVIOUS
    <2> HIDE DEF half, n
    <2>3. 0 \in 0 .. Deadline /\ 0 \in 0 .. Deadline + 1 /\ 0 \in Nat
      BY <1>5
    <2> QED
      BY <2>1, <2>2, <2>3, <1>4 DEF RunRecords
  <1>7. /\ n.pc = pc /\ n.todo = left
        /\ n.items = r.items /\ n.excused = r.excused /\ n.missing = r.missing
        /\ n.vals = Nothing /\ ~n.firmware /\ n.tries = 0 /\ n.retryAt = 0
    BY DEF RunRecords
  <1> HIDE DEF n
  <1> QED
    BY <1>1, <1>2, <1>6, <1>7 DEF left

\* Begin: a command begins with a list, a setting or a search.
LEMMA BeginKeeps ==
    ASSUME DukaInv, NEW p \in Procs, NEW job \in Jobs[p], Begin(p, job)
    PROVE  DukaInv'
  <1>1. job \in JobRecords
    BY JobsAssumption
  <1> DEFINE r == [Idle EXCEPT !.job = job.kind, !.dev = job.dev, !.attrs = job.attrs]
             set == [r EXCEPT !.pc = "set"]
             search == [r EXCEPT !.pc = "search"]
             new == CASE job.kind \in {"list", "refresh", "devset"} -> ReadAll(r)
                      [] job.kind = "set" -> set
                      [] job.kind \in {"discover", "add"} -> search
  <1>2. /\ r \in RunRecords /\ r.items = {} /\ r.vals = Nothing
        /\ ~r.firmware /\ r.tries = 0 /\ r.retryAt = 0
    <2>1. Idle.items = {}
      BY DEF Idle
    <2> QED
      BY <1>1, <2>1, IdleType DEF RunRecords, JobRecords
  <1>3. Become(p, new) /\ run[p].pc = "idle"
    BY DEF Begin
  <1> HIDE DEF r
  <1>4. Configured \subseteq Devices
    BY DEF Configured
  <1>5. /\ ReadAll(r) \in RunRecords /\ ReadAll(r).pc \in {"open", "listed"}
        /\ Sound(ReadAll(r), requests, answers, regs, want, Configured)
    BY <1>2, <1>4, ReadAllSound
  <1>6. /\ set \in RunRecords /\ set.pc = "set"
        /\ set.vals = Nothing /\ ~set.firmware /\ set.tries = 0 /\ set.retryAt = 0
    BY <1>2 DEF RunRecords
  <1>7. /\ search \in RunRecords /\ search.pc = "search"
        /\ search.vals = Nothing /\ ~search.firmware /\ search.tries = 0 /\ search.retryAt = 0
    BY <1>2 DEF RunRecords
  <1> HIDE DEF set, search
  <1>8. Sound(set, requests, answers, regs, want, Configured)
    BY <1>6 DEF Sound, Reader, Timely, Asked, Accounted, Awaited
  <1>9. Sound(search, requests, answers, regs, want, Configured)
    BY <1>7 DEF Sound, Reader, Timely, Asked, Accounted, Awaited
  <1>10. /\ new \in RunRecords /\ new.pc \in {"open", "listed", "set", "search"}
         /\ Sound(new, requests, answers, regs, want, Configured)
    <2>1. CASE job.kind \in {"list", "refresh", "devset"}
      <3>1. new = ReadAll(r)
        BY <2>1
      <3> HIDE DEF new
      <3> QED
        BY <3>1, <1>5
    <2>2. CASE job.kind = "set"
      <3>1. new = set
        BY <2>2
      <3> HIDE DEF new
      <3> QED
        BY <3>1, <1>6, <1>8
    <2>3. CASE job.kind \in {"discover", "add"}
      <3>1. new = search
        BY <2>3
      <3> HIDE DEF new
      <3> QED
        BY <3>1, <1>7, <1>9
    <2> QED
      BY <1>1, <2>1, <2>2, <2>3 DEF JobRecords, Kinds
  <1> HIDE DEF new
  <1>11. UNCHANGED <<regs, addr, config, cache, requests, answers, port, want, spoilt>>
    BY DEF Begin, world, history
  <1>12. TypeOK' /\ AllSound'
    BY <1>3, <1>10, <1>11, QuietStep DEF Using, DukaInv, TypeOK
  <1>13. Settling'
    BY <1>3, <1>10, <1>11, SettlingKept DEF DukaInv, TypeOK
  <1> QED
    BY <1>11, <1>12, <1>13 DEF DukaInv, Configured

\* LeftOut: a unit whose reading fails is missing and excused, and the list
\* goes on.
LEMMA LeftOut ==
    ASSUME DukaInv, NEW p \in Procs, LeaveOut(p), run[p].pc \in {"open", "ask", "read"}
    PROVE  \E new \in RunRecords :
              /\ Become(p, new)
              /\ new.pc \in {"open", "listed"}
              /\ \A rq, an, rg, wn : Sound(new, rq, an, rg, wn, Configured)
  <1> DEFINE r == run[p]
             d == Current(r)
             s == NextUnit(r)
             miss == s.missing \cup {d}
             exc == s.excused \cup {d}
             new == [s EXCEPT !.missing = miss, !.excused = exc]
  <1>1. Become(p, new) /\ r.pc \in {"open", "ask", "read"}
    BY DEF LeaveOut
  <1>2. r \in RunRecords /\ r.todo # {} /\ Accounted(r, Configured)
    BY <1>1 DEF DukaInv, AllSound, Sound, Reader, TypeOK
  <1>3. d \in r.todo /\ d \in Devices
    BY <1>2, CurrentIn DEF RunRecords
  <1>4. /\ s \in RunRecords /\ s.pc \in {"open", "listed"} /\ (s.pc = "listed" <=> s.todo = {})
        /\ s.todo = r.todo \ {d} /\ s.items = r.items /\ s.excused = r.excused
        /\ s.vals = Nothing /\ ~s.firmware /\ s.tries = 0 /\ s.retryAt = 0
    BY <1>2, NextUnitFields
  <1> HIDE DEF r, s, d
  <1>5. miss \subseteq Devices /\ exc \subseteq Devices
    BY <1>3, <1>4 DEF RunRecords
  <1> HIDE DEF miss, exc
  <1>6. /\ new \in RunRecords /\ new.pc = s.pc /\ new.todo = s.todo /\ new.items = s.items
        /\ new.excused = exc /\ new.vals = Nothing /\ ~new.firmware
        /\ new.tries = 0 /\ new.retryAt = 0
    BY <1>4, <1>5 DEF RunRecords
  <1> HIDE DEF new
  <1>7. Reader(new)
    BY <1>4, <1>6 DEF Reader
  <1>8. Accounted(new, Configured)
    BY <1>1, <1>2, <1>3, <1>4, <1>6 DEF Accounted, exc
  <1>9. \A rq, an, rg, wn : Sound(new, rq, an, rg, wn, Configured)
    BY <1>4, <1>6, <1>7, <1>8 DEF Sound, Timely, Asked, Awaited
  <1> QED
    BY <1>1, <1>4, <1>6, <1>9

\* OpenReadFails: the port is another's.
LEMMA OpenReadFailsKeeps ==
    ASSUME DukaInv, NEW p \in Procs, OpenReadFails(p)
    PROVE  DukaInv'
  <1>1. /\ LeaveOut(p) /\ run[p].pc = "open"
        /\ UNCHANGED <<regs, addr, config, cache, requests, answers, port, want, spoilt>>
    BY DEF OpenReadFails, world, history
  <1>2. PICK new \in RunRecords :
           /\ Become(p, new)
           /\ new.pc \in {"open", "listed"}
           /\ \A rq, an, rg, wn : Sound(new, rq, an, rg, wn, Configured)
    BY <1>1, LeftOut
  <1>3. TypeOK' /\ AllSound'
    BY <1>1, <1>2, QuietStep DEF Using, DukaInv, TypeOK
  <1>4. Settling'
    BY <1>1, <1>2, SettlingKept DEF DukaInv, TypeOK
  <1> QED
    BY <1>1, <1>3, <1>4 DEF DukaInv, Configured

\* ReadUnsent: the socket that could not send is closed.
LEMMA ReadUnsentKeeps ==
    ASSUME DukaInv, NEW p \in Procs, ReadUnsent(p)
    PROVE  DukaInv'
  <1>1. /\ LeaveOut(p) /\ run[p].pc \in {"open", "ask", "read"}
        /\ run[p].pc = "open" => port = Free /\ port' = Free
        /\ run[p].pc # "open" => port' = Free
        /\ answers' \subseteq answers
        /\ UNCHANGED <<regs, addr, config, cache, requests, want, spoilt>>
    BY DEF ReadUnsent, Close, world, history
  <1>2. PICK new \in RunRecords :
           /\ Become(p, new)
           /\ new.pc \in {"open", "listed"}
           /\ \A rq, an, rg, wn : Sound(new, rq, an, rg, wn, Configured)
    BY <1>1, LeftOut
  <1>3. port \in {p, Free} /\ port' = Free /\ Shapes'
    BY <1>1 DEF Shapes, DukaInv, TypeOK
  <1>4. port' # p /\ new.pc \notin Using
    BY <1>2, <1>3, ProcsAssumption DEF Using
  <1>5. TypeOK' /\ AllSound'
    BY <1>1, <1>2, <1>3, <1>4, PortStep
  <1>6. Settling'
    BY <1>1, <1>2, SettlingKept DEF DukaInv, TypeOK
  <1> QED
    BY <1>1, <1>5, <1>6 DEF DukaInv, Configured

-----------------------------------------------------------------------------
(* The reading of a unit.                                                  *)

\* SentFields: what is sent is a packet of this kind to this unit, if any.
LEMMA SentFields ==
    ASSUME NEW p \in Procs, NEW n \in Nat, NEW d \in Devices, NEW kind \in {"firmware", "status"}
    PROVE  /\ Sent(p, n, d, kind) \subseteq RequestRecords
           /\ \A m \in Sent(p, n, d, kind) : m.dev = d /\ m.kind = kind
           /\ Reaches(config[d], d) => \E m \in Sent(p, n, d, kind) : TRUE
  <1> DEFINE m == Request(p, n, d, kind, "", 0)
  <1>1. m \in RequestRecords /\ m.dev = d /\ m.kind = kind
    BY DEF Request, RequestRecords
  <1>2. Sent(p, n, d, kind) = IF Reaches(config[d], d) THEN {m} ELSE {}
    BY DEF Sent
  <1> HIDE DEF m
  <1> QED
    BY <1>1, <1>2

\* ViewType: a unit shows values.
LEMMA ViewType ==
    ASSUME NEW v \in [Attr -> Values]
    PROVE  View(v) \in [Attr -> Values]
  BY DecodedType DEF View, Values

\* OpenRead: the reader sees the values of now, and has asked for the firmware.
LEMMA OpenReadKeeps ==
    ASSUME DukaInv, NEW p \in Procs, OpenRead(p)
    PROVE  DukaInv'
  <1> DEFINE r == run[p]
             d == Current(r)
             h == [a \in Attr |-> {View(regs[d])[a]}]
             lo == InFlight(d) # {}
             exc == IF Reaches(config[d], d) THEN r.excused ELSE r.excused \cup {d}
             new == [r EXCEPT !.pc = "ask", !.held = h, !.leftover = lo, !.excused = exc]
             sent == Sent(p, 0, d, "firmware")
  <1>1. /\ Become(p, new) /\ r.pc = "open" /\ port = Free /\ port' = p
        /\ requests' = requests \cup sent
        /\ UNCHANGED <<regs, addr, config, cache, answers, want, spoilt>>
    BY DEF OpenRead, world, history
  <1>2. /\ r \in RunRecords /\ r.todo # {} /\ Accounted(r, Configured)
        /\ r.vals = Nothing /\ ~r.firmware /\ r.tries = 0 /\ r.retryAt = 0
    BY <1>1 DEF DukaInv, AllSound, Sound, Reader, TypeOK
  <1>3. d \in r.todo /\ d \in Devices
    BY <1>2, CurrentIn DEF RunRecords
  <1>4. /\ sent \subseteq RequestRecords
        /\ \A m \in sent : m.dev = d /\ m.kind = "firmware"
        /\ Reaches(config[d], d) => \E m \in sent : TRUE
    BY <1>3, SentFields
  <1>5. regs[d] \in [Attr -> Values]
    BY <1>3 DEF DukaInv, TypeOK
  <1>6. View(regs[d]) \in [Attr -> Values]
    BY <1>5, ViewType
  <1>7. h \in [Attr -> SUBSET Values] /\ \A a \in Attr : View(regs[d])[a] \in h[a]
    BY <1>6
  <1>8. lo \in BOOLEAN /\ exc \subseteq Devices /\ r.excused \subseteq exc
    BY <1>2, <1>3 DEF RunRecords
  <1>9. Reaches(config[d], d) \/ d \in exc
    OBVIOUS
  <1>10. ~lo => \A m \in requests \cup answers : m.dev # d
    BY DEF InFlight
  <1>11. run[p] = r
    OBVIOUS
  <1> HIDE DEF r, h, lo, exc, sent
  <1>12. /\ new \in RunRecords /\ new.pc = "ask" /\ new.todo = r.todo /\ new.items = r.items
         /\ new.vals = Nothing /\ ~new.firmware /\ new.tries = 0 /\ new.retryAt = 0
         /\ new.held = h /\ new.leftover = lo /\ new.excused = exc
    BY <1>2, <1>7, <1>8 DEF RunRecords
  <1>13. Current(new) = d
    BY <1>12, CurrentSame
  <1> HIDE DEF new, d
  <1>14. Reader(new)
    BY <1>2, <1>12 DEF Reader
  <1>15. Timely(new, requests', answers', regs')
    BY <1>1, <1>4, <1>7, <1>10, <1>12, <1>13 DEF Timely, Within, Nothing
  <1>16. Accounted(new, Configured)
    BY <1>1, <1>2, <1>8, <1>12 DEF Accounted
  <1>17. Awaited(new, requests', answers')
    BY <1>1, <1>4, <1>9, <1>12, <1>13 DEF Awaited
  <1>18. Sound(new, requests', answers', regs', want', Configured)
    BY <1>12, <1>14, <1>15, <1>16, <1>17 DEF Sound, Asked
  <1>19. Shapes'
    BY <1>1, <1>4 DEF Shapes, DukaInv, TypeOK
  <1>20. TypeOK' /\ AllSound'
    BY <1>1, <1>12, <1>18, <1>19, PortStep DEF Using
  <1>21. run[p].pc # "write" /\ new.pc # "write"
    BY <1>1, <1>11, <1>12
  <1>22. /\ \A m \in requests : m.kind = "write" => m \in requests'
         /\ \A m \in requests' : m.kind = "write" => m \in requests
    BY <1>1, <1>4
  <1>23. Settling'
    BY <1>1, <1>21, <1>22, SettlingKept DEF DukaInv, TypeOK
  <1> QED
    BY <1>1, <1>20, <1>23 DEF DukaInv, Configured

\* AskStatus: the status is asked for while the reader sees the unit.
LEMMA AskStatusKeeps ==
    ASSUME DukaInv, NEW p \in Procs, AskStatus(p)
    PROVE  DukaInv'
  <1> DEFINE r == run[p]
             d == Current(r)
             exc == IF Reaches(config[d], d) THEN r.excused ELSE r.excused \cup {d}
             new == [r EXCEPT !.pc = "read", !.tries = 1, !.retryAt = RetryAfter, !.excused = exc]
             sent == Sent(p, 1, d, "status")
  <1>1. /\ Become(p, new) /\ r.pc = "ask"
        /\ requests' = requests \cup sent
        /\ UNCHANGED <<regs, addr, config, cache, answers, port, want, spoilt>>
    BY DEF AskStatus, world, history
  <1>2. /\ r \in RunRecords /\ r.todo # {} /\ Accounted(r, Configured)
        /\ Timely(r, requests, answers, regs) /\ Awaited(r, requests, answers)
        /\ r.vals = Nothing /\ ~r.firmware /\ port = p
    BY <1>1 DEF DukaInv, AllSound, Sound, Reader, TypeOK
  <1>3. d \in r.todo /\ d \in Devices
    BY <1>2, CurrentIn DEF RunRecords
  <1>4. /\ sent \subseteq RequestRecords
        /\ \A m \in sent : m.dev = d /\ m.kind = "status"
    BY <1>3, SentFields
  <1>5. exc \subseteq Devices /\ r.excused \subseteq exc
    BY <1>2, <1>3 DEF RunRecords
  <1>6. run[p] = r /\ d = Current(r)
    OBVIOUS
  <1>7. Deadline \in Nat /\ RetryAfter \in Nat
    BY TimesAssumption
  <1> HIDE DEF r, d, exc, sent
  <1>21. 1 \in 0 .. Deadline + 1 /\ r.waited \in Nat
    BY <1>2, <1>7 DEF RunRecords
  <1>22. new \in RunRecords
    BY <1>2, <1>5, <1>7, <1>21 DEF RunRecords
  <1>8. /\ new \in RunRecords /\ new.pc = "read" /\ new.todo = r.todo /\ new.items = r.items
        /\ new.vals = r.vals /\ new.firmware = r.firmware /\ new.tries = 1
        /\ new.retryAt = RetryAfter /\ new.waited = r.waited /\ new.waited \in Nat
        /\ new.held = r.held /\ new.leftover = r.leftover /\ new.excused = exc
    BY <1>2, <1>21, <1>22 DEF RunRecords
  <1> HIDE DEF new
  <1>9. Current(new) = d
    BY <1>6, <1>8, CurrentSame
  <1>10. Reader(new)
    BY <1>2, <1>7, <1>8 DEF Reader
  <1>11. Timely(new, requests', answers', regs')
    BY <1>1, <1>2, <1>4, <1>6, <1>8, <1>9 DEF Timely
  <1>12. Accounted(new, Configured)
    BY <1>1, <1>2, <1>5, <1>8 DEF Accounted
  <1>13. Responded(new) = Responded(r)
    BY <1>8 DEF Responded
  <1>14. Awaited(new, requests', answers')
    BY <1>1, <1>2, <1>5, <1>6, <1>8, <1>9, <1>13 DEF Awaited
  <1>15. Sound(new, requests', answers', regs', want', Configured)
    BY <1>8, <1>10, <1>11, <1>12, <1>14 DEF Sound, Asked
  <1>16. Shapes'
    BY <1>1, <1>4 DEF Shapes, DukaInv, TypeOK
  <1>17. TypeOK' /\ AllSound'
    BY <1>1, <1>2, <1>8, <1>15, <1>16, PortStep DEF Using
  <1>18. run[p].pc # "write" /\ new.pc # "write"
    BY <1>1, <1>6, <1>8
  <1>19. /\ \A m \in requests : m.kind = "write" => m \in requests'
         /\ \A m \in requests' : m.kind = "write" => m \in requests
    BY <1>1, <1>4
  <1>20. Settling'
    BY <1>1, <1>18, <1>19, SettlingKept DEF DukaInv, TypeOK
  <1> QED
    BY <1>1, <1>17, <1>20 DEF DukaInv, Configured

\* Receive: what is taken from a packet the unit showed while it was read.
LEMMA ReceiveKeeps ==
    ASSUME DukaInv, NEW p \in Procs, NEW a \in answers, Receive(p, a)
    PROVE  DukaInv'
  <1> DEFINE r == run[p]
             d == Current(r)
             taken == IsFrom(a, d) /\ a.kind # "search"
             vals == IF taken THEN Merged(r.vals, a.vals) ELSE r.vals
             fw == IF taken THEN r.firmware \/ a.kind = "firmware" ELSE r.firmware
             s == IF taken THEN [r EXCEPT !.vals = Merged(@, a.vals),
                                          !.firmware = @ \/ a.kind = "firmware"]
                  ELSE r
             again == ~HasLiveStatus(s.vals) /\ s.waited > s.retryAt
             more == [s EXCEPT !.tries = @ + 1, !.retryAt = s.waited + RetryAfter]
  <1>1. /\ r.pc = "read"
        /\ answers' = answers \ {a}
        /\ again => Become(p, more) /\ requests' = requests \cup Sent(p, s.tries + 1, d, "status")
        /\ ~again => Become(p, s) /\ requests' = requests
        /\ UNCHANGED <<regs, addr, config, cache, port, want, spoilt>>
    BY DEF Receive, Heard, AsksAgain, world, history
  <1>2. /\ r \in RunRecords /\ r.todo # {} /\ Accounted(r, Configured) /\ Reader(r)
        /\ Timely(r, requests, answers, regs) /\ Awaited(r, requests, answers) /\ port = p
    BY <1>1 DEF DukaInv, AllSound, Sound, Reader, TypeOK
  <1>3. d \in r.todo /\ d \in Devices
    BY <1>2, CurrentIn DEF RunRecords
  <1>4. /\ a.vals \in [Attr -> Values \cup {Unknown}]
        /\ a.kind \in {"firmware", "status", "search", "write"}
    BY DEF DukaInv, TypeOK, AnswerRecords
  <1>5. vals \in [Attr -> Values \cup {Unknown}] /\ fw \in BOOLEAN
    <2>1. Merged(r.vals, a.vals) \in [Attr -> Values \cup {Unknown}]
      BY <1>2, <1>4 DEF Merged, RunRecords
    <2> QED
      BY <1>2, <2>1 DEF RunRecords
  <1>6. s = [r EXCEPT !.vals = vals, !.firmware = fw]
    BY <1>2 DEF RunRecords
  <1>7. Within(r.vals, r.held) /\ Within(a.vals, r.held) => Within(vals, r.held)
    BY DEF Within, Merged
  <1>8. taken => a.dev = d
    BY DEF IsFrom
  <1>9. a.dev = d /\ a.kind = "firmware" => fw
    BY DEF IsFrom
  <1>10. r.firmware => fw
    OBVIOUS
  <1>11. HasLiveStatus(r.vals) => HasLiveStatus(vals)
    BY DEF HasLiveStatus, Merged
  <1>12. ~taken => vals = r.vals
    OBVIOUS
  <1>13. run[p] = r /\ d = Current(r)
    OBVIOUS
  <1> HIDE DEF r, d, taken, vals, fw, s
  <1>14. /\ s \in RunRecords /\ s.pc = "read" /\ s.todo = r.todo /\ s.items = r.items
         /\ s.vals = vals /\ s.firmware = fw /\ s.tries = r.tries /\ s.retryAt = r.retryAt
         /\ s.waited = r.waited /\ s.held = r.held /\ s.leftover = r.leftover
         /\ s.excused = r.excused
    BY <1>1, <1>2, <1>5, <1>6 DEF RunRecords
  <1>15. /\ Deadline \in Nat /\ RetryAfter \in Nat
         /\ s.tries \in Nat /\ s.retryAt \in Nat /\ s.waited \in Nat /\ s.waited <= Deadline
    BY <1>14, TimesAssumption DEF RunRecords
  <1>16. s.tries + RetryAfter <= s.retryAt + 1 /\ s.retryAt <= s.waited + RetryAfter
    BY <1>1, <1>2, <1>14 DEF Reader
  <1>17. \E new \in RunRecords, extra \in SUBSET RequestRecords :
            /\ Become(p, new) /\ requests' = requests \cup extra
            /\ \A m \in extra : m.dev = d /\ m.kind = "status"
            /\ new.pc = "read" /\ new.todo = r.todo /\ new.items = r.items
            /\ new.vals = vals /\ new.firmware = fw /\ new.held = r.held
            /\ new.leftover = r.leftover /\ new.excused = r.excused
            /\ new.tries + RetryAfter <= new.retryAt + 1
            /\ new.retryAt <= new.waited + RetryAfter
    <2>1. CASE ~again
      <3>1. Become(p, s) /\ requests' = requests \cup {}
        BY <1>1, <2>1
      <3>2. s \in RunRecords
        BY <1>14
      <3> WITNESS s \in RunRecords, {} \in SUBSET RequestRecords
      <3> QED
        BY <1>14, <1>16, <3>1
    <2>2. CASE again
      <3>1. Become(p, more) /\ requests' = requests \cup Sent(p, s.tries + 1, d, "status")
        BY <1>1, <2>2
      <3>2. s.waited > s.retryAt
        BY <2>2
      <3> HIDE DEF again
      <3> DEFINE t == s.tries + 1  w == s.waited + RetryAfter
      <3>3. t \in 0 .. Deadline + 1 /\ t \in Nat /\ w \in Nat
        BY <1>15, <1>16, <3>2
      <3>4. t + RetryAfter <= w + 1 /\ w <= s.waited + RetryAfter
        BY <1>15, <1>16, <3>2
      <3>5. /\ Sent(p, t, d, "status") \in SUBSET RequestRecords
            /\ \A m \in Sent(p, t, d, "status") : m.dev = d /\ m.kind = "status"
        <4> HIDE DEF t
        <4> QED
          BY <1>3, <3>3, SentFields
      <3>6. more = [s EXCEPT !.tries = t, !.retryAt = w]
        BY <1>14 DEF RunRecords
      <3>7. Become(p, more) /\ requests' = requests \cup Sent(p, t, d, "status")
        BY <3>1
      <3> HIDE DEF t, w, more
      <3>8. more \in RunRecords
        BY <1>14, <3>3, <3>6 DEF RunRecords
      <3>9. /\ more.pc = "read" /\ more.todo = r.todo /\ more.items = r.items
            /\ more.vals = vals /\ more.firmware = fw /\ more.held = r.held
            /\ more.leftover = r.leftover /\ more.excused = r.excused
            /\ more.tries = t /\ more.retryAt = w /\ more.waited = s.waited
        BY <1>14, <3>6 DEF RunRecords
      <3> QED
        BY <3>4, <3>5, <3>7, <3>8, <3>9
    <2> QED
      BY <2>1, <2>2
  <1>18. PICK new \in RunRecords, extra \in SUBSET RequestRecords :
            /\ Become(p, new) /\ requests' = requests \cup extra
            /\ \A m \in extra : m.dev = d /\ m.kind = "status"
            /\ new.pc = "read" /\ new.todo = r.todo /\ new.items = r.items
            /\ new.vals = vals /\ new.firmware = fw /\ new.held = r.held
            /\ new.leftover = r.leftover /\ new.excused = r.excused
            /\ new.tries + RetryAfter <= new.retryAt + 1
            /\ new.retryAt <= new.waited + RetryAfter
    BY <1>17
  <1>19. Current(new) = d
    BY <1>13, <1>18, CurrentSame
  <1>20. Reader(new)
    BY <1>2, <1>18 DEF Reader
  <1>21. Timely(new, requests', answers', regs')
    <2>1. SUFFICES ASSUME ~r.leftover
                   PROVE  /\ Within(vals, r.held)
                          /\ \A b \in answers' : b.dev = d => Within(b.vals, r.held)
                          /\ \A m \in requests' : m.dev = d => m.kind # "write"
                          /\ Within(View(regs'[d]), r.held)
      BY <1>18, <1>19 DEF Timely
    <2>2. /\ Within(r.vals, r.held)
          /\ \A b \in answers : b.dev = d => Within(b.vals, r.held)
          /\ \A m \in requests : m.dev = d => m.kind # "write"
          /\ Within(View(regs[d]), r.held)
      BY <1>1, <1>2, <1>13, <2>1 DEF Timely
    <2>3. Within(vals, r.held)
      BY <1>7, <1>8, <1>12, <2>2
    <2> QED
      BY <1>1, <1>18, <2>2, <2>3
  <1>22. Accounted(new, Configured)
    BY <1>1, <1>2, <1>18 DEF Accounted
  <1>23. Responded(r) => Responded(new)
    BY <1>10, <1>11, <1>18 DEF Responded
  <1>24. Awaited(new, requests', answers')
    <2>1. SUFFICES ASSUME d \notin r.excused, ~Responded(new)
                   PROVE  \E m \in requests' \cup answers' : m.dev = d /\ m.kind = "firmware"
      BY <1>18, <1>19 DEF Awaited
    <2>2. \E m \in requests \cup answers : m.dev = d /\ m.kind = "firmware"
      BY <1>1, <1>2, <1>13, <1>23, <2>1 DEF Awaited
    <2>3. ~(a.dev = d /\ a.kind = "firmware")
      BY <1>9, <1>18, <2>1 DEF Responded
    <2> QED
      BY <1>1, <1>18, <2>2, <2>3
  <1>25. Sound(new, requests', answers', regs', want', Configured)
    BY <1>18, <1>20, <1>21, <1>22, <1>24 DEF Sound, Asked
  <1>26. Shapes'
    BY <1>1, <1>18 DEF Shapes, DukaInv, TypeOK
  <1>27. TypeOK' /\ AllSound'
    BY <1>1, <1>2, <1>18, <1>25, <1>26, PortStep DEF Using
  <1>28. run[p].pc # "write" /\ new.pc # "write"
    BY <1>1, <1>13, <1>18
  <1>29. /\ \A m \in requests : m.kind = "write" => m \in requests'
         /\ \A m \in requests' : m.kind = "write" => m \in requests
    BY <1>18
  <1>30. Settling'
    BY <1>1, <1>18, <1>28, <1>29, SettlingKept DEF DukaInv, TypeOK
  <1> QED
    BY <1>1, <1>27, <1>30 DEF DukaInv, Configured

\* Tick: time passes for one process.
LEMMA TickKeeps ==
    ASSUME DukaInv, NEW p \in Procs, Tick(p)
    PROVE  DukaInv'
  <1> DEFINE r == run[p]
             w == r.waited + 1
             new == [r EXCEPT !.waited = w]
  <1>1. /\ Become(p, new) /\ r.pc \in {"read", "collect"} /\ r.waited < Deadline
        /\ UNCHANGED <<regs, addr, config, cache, requests, answers, port, want, spoilt>>
    BY DEF Tick, world, history
  <1>2. r \in RunRecords /\ Sound(r, requests, answers, regs, want, Configured) /\ run[p] = r
    BY DEF DukaInv, AllSound, TypeOK
  <1>3. /\ Deadline \in Nat /\ RetryAfter \in Nat /\ r.waited \in Nat /\ r.retryAt \in Nat
        /\ w \in 0 .. Deadline /\ w = r.waited + 1
    BY <1>1, <1>2, TimesAssumption DEF RunRecords
  <1> HIDE DEF r, w
  <1>4. new \in RunRecords
    BY <1>2, <1>3 DEF RunRecords
  <1>5. /\ new.pc = r.pc /\ new.todo = r.todo /\ new.items = r.items
        /\ new.vals = r.vals /\ new.firmware = r.firmware /\ new.tries = r.tries
        /\ new.retryAt = r.retryAt /\ new.waited = w /\ new.held = r.held
        /\ new.leftover = r.leftover /\ new.excused = r.excused /\ new.dev = r.dev
        /\ new.packets = r.packets /\ new.attrs = r.attrs
    BY <1>2 DEF RunRecords
  <1> HIDE DEF new
  <1>6. Current(new) = Current(r)
    BY <1>5, CurrentSame
  <1>7. Reader(new)
    BY <1>2, <1>3, <1>5 DEF Sound, Reader
  <1>8. Responded(new) = Responded(r)
    BY <1>5 DEF Responded
  <1>9. /\ Timely(new, requests, answers, regs) /\ Asked(new, want)
        /\ Accounted(new, Configured) /\ Awaited(new, requests, answers)
    BY <1>2, <1>5, <1>6, <1>8 DEF Sound, Timely, Asked, Accounted, Awaited
  <1>10. TypeOK' /\ AllSound'
    BY <1>1, <1>2, <1>4, <1>5, <1>7, <1>9, QuietStep DEF Using, DukaInv, TypeOK, Sound
  <1>11. Settling'
    BY <1>1, <1>2, <1>5, SettlingKept DEF DukaInv, TypeOK
  <1> QED
    BY <1>1, <1>10, <1>11 DEF DukaInv, Configured

\* EndRead: the unit has answered, is excused, or had something under way.
LEMMA EndReadKeeps ==
    ASSUME DukaInv, NEW p \in Procs, EndRead(p)
    PROVE  DukaInv'
  <1> DEFINE r == run[p]
             d == Current(r)
             s == NextUnit(r)
             exc == IF InFlight(d) = {} THEN s.excused ELSE s.excused \cup {d}
             items == s.items \cup {d}
             miss == s.missing \cup {d}
             found == [s EXCEPT !.items = items]
             missed == [s EXCEPT !.missing = miss, !.excused = exc]
             new == IF Responded(r) THEN found ELSE missed
  <1>1. /\ r.pc = "read" /\ port' = Free
        /\ UNCHANGED <<regs, addr, config, cache, requests, answers, want, spoilt>>
    BY DEF EndRead, Close, world, history
  <1>2. Become(p, IF Responded(r) THEN [s EXCEPT !.items = @ \cup {d}]
                  ELSE [s EXCEPT !.missing = @ \cup {d},
                                 !.excused = IF InFlight(d) = {} THEN @ ELSE @ \cup {d}])
    BY DEF EndRead
  <1>3. Become(p, new)
    BY <1>2
  <1>4. /\ r \in RunRecords /\ r.todo # {} /\ Accounted(r, Configured)
        /\ Awaited(r, requests, answers) /\ port = p
    BY <1>1 DEF DukaInv, AllSound, Sound, Reader, TypeOK
  <1>5. d \in r.todo /\ d \in Devices
    BY <1>4, CurrentIn DEF RunRecords
  <1>6. /\ s \in RunRecords /\ s.pc \in {"open", "listed"} /\ (s.pc = "listed" <=> s.todo = {})
        /\ s.todo = r.todo \ {d} /\ s.items = r.items /\ s.excused = r.excused
        /\ s.vals = Nothing /\ ~s.firmware /\ s.tries = 0 /\ s.retryAt = 0
    BY <1>4, NextUnitFields
  <1>7. ~Responded(r) => d \in exc
    <2>1. ASSUME ~Responded(r), d \notin r.excused
          PROVE  InFlight(d) # {}
      <3>1. PICK m \in requests \cup answers : m.dev = d /\ m.kind = "firmware"
        BY <1>1, <1>4, <2>1 DEF Awaited
      <3> QED
        BY <3>1 DEF InFlight
    <2> QED
      BY <1>6, <2>1
  <1>8. run[p] = r
    OBVIOUS
  <1> HIDE DEF r, d, s
  <1>9. exc \subseteq Devices /\ s.excused \subseteq exc /\ items \subseteq Devices
        /\ miss \subseteq Devices
    BY <1>5, <1>6 DEF RunRecords
  <1>10. items = s.items \cup {d}
    OBVIOUS
  <1> HIDE DEF items, miss, exc
  <1>11. /\ found \in RunRecords /\ found.pc = s.pc /\ found.todo = s.todo
         /\ found.items = items /\ found.excused = s.excused
         /\ found.vals = Nothing /\ ~found.firmware /\ found.tries = 0 /\ found.retryAt = 0
    BY <1>6, <1>9 DEF RunRecords
  <1>12. /\ missed \in RunRecords /\ missed.pc = s.pc /\ missed.todo = s.todo
         /\ missed.items = s.items /\ missed.excused = exc
         /\ missed.vals = Nothing /\ ~missed.firmware /\ missed.tries = 0 /\ missed.retryAt = 0
    BY <1>6, <1>9 DEF RunRecords
  <1> HIDE DEF found, missed
  <1>13. /\ new \in RunRecords /\ new.pc = s.pc /\ new.todo = s.todo
         /\ new.vals = Nothing /\ ~new.firmware /\ new.tries = 0 /\ new.retryAt = 0
         /\ s.items \subseteq new.items /\ new.items \subseteq s.items \cup {d}
         /\ s.excused \subseteq new.excused
         /\ d \in new.items \cup new.excused
    BY <1>7, <1>9, <1>10, <1>11, <1>12
  <1> HIDE DEF new
  <1>14. Reader(new)
    BY <1>6, <1>13 DEF Reader
  <1>15. Accounted(new, Configured)
    BY <1>1, <1>4, <1>5, <1>6, <1>13 DEF Accounted
  <1>16. Sound(new, requests', answers', regs', want', Configured)
    BY <1>6, <1>13, <1>14, <1>15 DEF Sound, Timely, Asked, Awaited
  <1>17. Shapes'
    BY <1>1 DEF Shapes, DukaInv, TypeOK
  <1>18. port' # p
    BY <1>1, ProcsAssumption
  <1>19. TypeOK' /\ AllSound'
    BY <1>1, <1>3, <1>4, <1>6, <1>13, <1>16, <1>17, <1>18, PortStep DEF Using
  <1>20. Settling'
    BY <1>1, <1>3, <1>6, <1>8, <1>13, SettlingKept DEF DukaInv, TypeOK
  <1> QED
    BY <1>1, <1>19, <1>20 DEF DukaInv, Configured

\* IdleSound: a process between two commands owes nothing.
LEMMA IdleSound ==
    ASSUME NEW rq, NEW an, NEW rg, NEW wn, NEW known
    PROVE  Sound(Idle, rq, an, rg, wn, known)
  <1> DEFINE n == Idle
  <1>1. /\ n.pc = "idle" /\ n.vals = Nothing /\ n.firmware = FALSE
        /\ n.tries = 0 /\ n.retryAt = 0
    BY IdleType
  <1> HIDE DEF n
  <1>2. Sound(n, rq, an, rg, wn, known)
    BY <1>1 DEF Sound, Reader, Timely, Asked, Accounted, Awaited
  <1> QED
    BY <1>2 DEF n

\* ListedItems: what a list ends with are configured units, all but the excused.
LEMMA ListedItems ==
    ASSUME DukaInv, NEW p \in Procs, run[p].pc = "listed"
    PROVE  run[p].items \subseteq Configured /\ Configured \subseteq run[p].items \cup run[p].excused
  BY DEF DukaInv, AllSound, Sound, Reader, Accounted

\* Listed: the inventory is kept or becomes the units that were read.
LEMMA ListedKeeps ==
    ASSUME DukaInv, NEW p \in Procs, Listed(p)
    PROVE  DukaInv'
  <1> DEFINE r == run[p]
             goOn == r.job = "devset" /\ ~ListFailed(r) /\ r.dev \in r.items
             set == [r EXCEPT !.pc = "set"]
             new == IF goOn THEN set ELSE Idle
  <1>1. /\ r.pc = "listed" /\ Become(p, new) /\ cache' \in {cache, r.items}
        /\ UNCHANGED <<regs, addr, config, requests, answers, port, want, spoilt>>
    BY DEF Listed, Finish, world, history
  <1>2. r \in RunRecords /\ Reader(r) /\ run[p] = r
    BY DEF DukaInv, AllSound, Sound, TypeOK
  <1>3. r.items \subseteq Configured /\ Configured \subseteq Devices
    BY <1>1, <1>2, ListedItems DEF Configured
  <1> HIDE DEF r, goOn
  <1>4. /\ set \in RunRecords /\ set.pc = "set" /\ set.vals = r.vals
        /\ set.firmware = r.firmware /\ set.tries = r.tries /\ set.retryAt = r.retryAt
    BY <1>2 DEF RunRecords
  <1> HIDE DEF set
  <1>5. Sound(set, requests, answers, regs, want, Configured)
    BY <1>1, <1>2, <1>4 DEF Sound, Reader, Timely, Asked, Accounted, Awaited
  <1>6. /\ new \in RunRecords /\ new.pc \in {"set", "idle"}
        /\ Sound(new, requests, answers, regs, want, Configured)
    BY <1>4, <1>5, IdleSound, IdleType
  <1> HIDE DEF new
  <1>7. cache' \subseteq Configured
    BY <1>1, <1>3 DEF DukaInv
  <1>8. TypeOK' /\ AllSound'
    BY <1>1, <1>2, <1>3, <1>6, <1>7, QuietStep DEF Using, DukaInv, TypeOK
  <1>9. Settling'
    BY <1>1, <1>2, <1>6, SettlingKept DEF DukaInv, TypeOK
  <1> QED
    BY <1>1, <1>7, <1>8, <1>9 DEF DukaInv, Configured

\* FinishKeeps: a command ends whose process does not use the network, and
\* has changed nothing.
LEMMA FinishKeeps ==
    ASSUME DukaInv, NEW p \in Procs, Finish(p), run[p].pc \in {"set", "search"},
           UNCHANGED <<regs, addr, config, cache, requests, answers, port, want, spoilt>>
    PROVE  DukaInv'
  <1>1. Become(p, Idle) /\ Idle \in RunRecords /\ Idle.pc = "idle"
    BY IdleType DEF Finish
  <1>2. Sound(Idle, requests, answers, regs, want, Configured)
    BY IdleSound
  <1>3. TypeOK' /\ AllSound'
    BY <1>1, <1>2, QuietStep DEF Using, DukaInv, TypeOK
  <1>4. Settling'
    BY <1>1, SettlingKept DEF DukaInv, TypeOK
  <1> QED
    BY <1>3, <1>4 DEF DukaInv, Configured

-----------------------------------------------------------------------------
(* The setting of a unit.                                                  *)

\* OpenSet: every register asked for waits for its packet.
LEMMA OpenSetKeeps ==
    ASSUME DukaInv, NEW p \in Procs, OpenSet(p)
    PROVE  DukaInv'
  <1> DEFINE r == run[p]
             d == r.dev
             pk == Packets(r.attrs)
             new == [r EXCEPT !.pc = "write", !.packets = pk]
             row == [a \in Attr |-> IF a \in Written(r.attrs) THEN r.attrs[a] ELSE want[d][a]]
  <1>1. /\ r.pc = "set" /\ port = Free /\ port' = p /\ pk # {} /\ Become(p, new)
        /\ UNCHANGED <<regs, addr, config, cache, requests, answers, spoilt>>
    BY DEF OpenSet, world
  <1>2. /\ r \in RunRecords /\ Reader(r) /\ run[p] = r /\ run \in [Procs -> RunRecords]
        /\ want \in [Devices -> [Attr -> Values]]
    BY DEF DukaInv, AllSound, Sound, TypeOK
  <1>3. d \in Devices /\ r.attrs \in [Attr -> Values \cup {Unknown, Bad}]
    BY <1>2 DEF RunRecords
  <1>4. pk = Written(r.attrs) /\ \A a \in pk : a \in Attr /\ r.attrs[a] \in Values
    BY <1>1, <1>3 DEF Packets, Written
  <1>5. row \in [Attr -> Values]
    BY <1>2, <1>3, <1>4
  <1>6. /\ \A a \in pk : row[a] = r.attrs[a]
        /\ \A a \in Attr \ pk : row[a] = want[d][a]
    BY <1>4
  <1>7. want' = [want EXCEPT ![d] = row]
    BY <1>2, <1>3 DEF OpenSet
  <1>8. r.dev = d
    OBVIOUS
  <1> HIDE DEF r, d, pk, row
  <1>9. want' \in [Devices -> [Attr -> Values]] /\ want'[d] = row
        /\ \A e \in Devices \ {d} : want'[e] = want[e]
    BY <1>2, <1>3, <1>5, <1>7
  <1>10. /\ new \in RunRecords /\ new.pc = "write" /\ new.packets = pk /\ new.dev = d
         /\ new.attrs = r.attrs /\ new.vals = r.vals /\ new.firmware = r.firmware
         /\ new.tries = r.tries /\ new.retryAt = r.retryAt
    BY <1>2, <1>4, <1>8 DEF RunRecords
  <1> HIDE DEF new
  <1>11. Reader(new)
    BY <1>1, <1>2, <1>10 DEF Reader
  <1>12. Asked(new, want')
    BY <1>1, <1>6, <1>9, <1>10 DEF Asked
  <1>13. Sound(new, requests', answers', regs', want', Configured)
    BY <1>10, <1>11, <1>12 DEF Sound, Timely, Accounted, Awaited
  <1>14. Shapes'
    BY <1>1, <1>9 DEF Shapes, DukaInv, TypeOK
  <1>15. TypeOK' /\ AllSound'
    BY <1>1, <1>10, <1>13, <1>14, PortStep DEF Using
  <1>16. Settling'
    <2>1. SUFFICES ASSUME NEW e \in Devices, NEW a \in Attr \ {"resetFilter"},
                          <<e, a>> \notin spoilt', ~Due(run', e, a)
                   PROVE  Settled(regs', want', requests', e, a)
      BY DEF Settling
    <2>2. run'[p] = new /\ \A q \in Procs \ {p} : run'[q] = run[q]
      BY <1>1, <1>2 DEF Become
    <2>3. ~Due(run, e, a)
      BY <1>1, <1>2, <2>1, <2>2 DEF Due
    <2>4. ~(e = d /\ a \in pk)
      BY <1>10, <2>1, <2>2 DEF Due
    <2>5. want'[e][a] = want[e][a]
      <3>1. CASE e = d
        BY <3>1, <2>4, <1>6, <1>9
      <3>2. CASE e # d
        BY <3>2, <1>9
      <3> QED
        BY <3>1, <3>2
    <2>6. Settled(regs, want, requests, e, a)
      BY <1>1, <2>1, <2>3 DEF DukaInv, Settling
    <2> QED
      BY <1>1, <2>5, <2>6 DEF Settled
  <1> QED
    BY <1>1, <1>15, <1>16 DEF DukaInv, Configured

\* Write: a packet alone on its way brings what was asked of the register.
LEMMA WriteKeeps ==
    ASSUME DukaInv, NEW p \in Procs, Write(p)
    PROVE  DukaInv'
  <1> DEFINE r == run[p]
             d == r.dev
             reaches == Reaches(config[d], d)
  <1>1. PICK a \in r.packets :
           /\ requests' = IF reaches
                          THEN requests \cup {Request(p, 0, d, "write", a, r.attrs[a])}
                          ELSE requests
           /\ spoilt' = IF reaches /\ Writes(d, a) = {} THEN spoilt \ {<<d, a>>}
                        ELSE spoilt \cup {<<d, a>>}
           /\ Become(p, [r EXCEPT !.packets = @ \ {a},
                                  !.pc = IF r.packets = {a} THEN "reread" ELSE "write"])
    BY DEF Write
  <1> DEFINE m == Request(p, 0, d, "write", a, r.attrs[a])
             left == r.packets \ {a}
             pc == IF r.packets = {a} THEN "reread" ELSE "write"
             new == [r EXCEPT !.packets = left, !.pc = pc]
  <1>2. /\ r.pc = "write"
        /\ UNCHANGED <<regs, addr, config, cache, answers, port, want>>
    BY DEF Write, world
  <1>3. /\ r \in RunRecords /\ Reader(r) /\ Asked(r, want) /\ run[p] = r
        /\ run \in [Procs -> RunRecords] /\ want \in [Devices -> [Attr -> Values]] /\ port = p
    BY <1>2 DEF DukaInv, AllSound, Sound, TypeOK
  <1>4. d \in Devices /\ a \in Attr /\ r.packets \subseteq Attr
    BY <1>3 DEF RunRecords
  <1>5. r.attrs[a] = want[d][a] /\ want[d][a] \in Values
    BY <1>2, <1>3, <1>4 DEF Asked
  <1>6. /\ m.kind = "write" /\ m.dev = d /\ m.attr = a /\ m.val = want[d][a]
        /\ m \in RequestRecords
    BY <1>4, <1>5 DEF Request, RequestRecords
  <1>7. Become(p, new)
    BY <1>1, <1>3 DEF RunRecords
  <1>8. (left # {} \/ pc = "reread") /\ pc \in {"write", "reread"} /\ left = r.packets \ {a}
        /\ (pc = "reread" => left = {})
    OBVIOUS
  <1>9. /\ requests' = IF reaches THEN requests \cup {m} ELSE requests
        /\ spoilt' = IF reaches /\ Writes(d, a) = {} THEN spoilt \ {<<d, a>>}
                     ELSE spoilt \cup {<<d, a>>}
    BY <1>1
  <1>10. r.dev = d
    OBVIOUS
  <1> HIDE DEF r, d, reaches, m, left, pc
  <1>11. left \subseteq Attr
    BY <1>4, <1>8
  <1>12. /\ new \in RunRecords /\ new.pc = pc /\ new.packets = left /\ new.dev = d
         /\ new.attrs = r.attrs /\ new.vals = r.vals /\ new.firmware = r.firmware
         /\ new.tries = r.tries /\ new.retryAt = r.retryAt
    BY <1>3, <1>8, <1>10, <1>11 DEF RunRecords
  <1> HIDE DEF new
  <1>13. Reader(new)
    BY <1>2, <1>3, <1>8, <1>12 DEF Reader
  <1>14. Asked(new, want')
    BY <1>2, <1>3, <1>8, <1>10, <1>12 DEF Asked
  <1>15. Sound(new, requests', answers', regs', want', Configured)
    BY <1>8, <1>12, <1>13, <1>14 DEF Sound, Timely, Accounted, Awaited
  <1>16. Shapes'
    BY <1>2, <1>6, <1>9 DEF Shapes, DukaInv, TypeOK
  <1>17. TypeOK' /\ AllSound'
    BY <1>2, <1>3, <1>7, <1>8, <1>12, <1>15, <1>16, PortStep DEF Using
  <1>18. Settling'
    <2>1. SUFFICES ASSUME NEW e \in Devices, NEW b \in Attr \ {"resetFilter"},
                          <<e, b>> \notin spoilt', ~Due(run', e, b)
                   PROVE  Settled(regs', want', requests', e, b)
      BY DEF Settling
    <2>2. run'[p] = new /\ \A q \in Procs \ {p} : run'[q] = run[q]
      BY <1>3, <1>7 DEF Become
    <2>3. \A q \in Procs \ {p} : run[q].pc # "write"
      BY <1>3, OneUser DEF DukaInv, Using
    <2>4. CASE e = d /\ b = a
      <3>1. reaches /\ Writes(d, a) = {}
        BY <1>9, <2>1, <2>4
      <3>2. \A k \in requests : ~(k.dev = d /\ k.kind = "write" /\ k.attr = a)
        BY <3>1 DEF Writes
      <3>3. requests' = requests \cup {m}
        BY <1>9, <3>1
      <3> QED
        BY <1>2, <1>6, <2>4, <3>2, <3>3 DEF Settled
    <2>5. CASE ~(e = d /\ b = a)
      <3>1. <<e, b>> \notin spoilt
        BY <1>9, <2>1, <2>5
      <3>2. ~Due(run, e, b)
        <4>1. ASSUME Due(run, e, b) PROVE FALSE
          <5>1. r.dev = e /\ b \in r.packets
            BY <1>3, <2>3, <4>1 DEF Due
          <5>2. b \in left /\ new.pc = "write"
            BY <1>8, <1>10, <1>12, <2>5, <5>1
          <5> QED
            BY <1>10, <1>12, <2>1, <2>2, <5>1, <5>2 DEF Due
        <4> QED
          BY <4>1
      <3>3. Settled(regs, want, requests, e, b)
        BY <2>1, <3>1, <3>2 DEF DukaInv, Settling
      <3>4. ~(m.dev = e /\ m.kind = "write" /\ m.attr = b)
        BY <1>6, <2>5
      <3>5. requests' \in {requests, requests \cup {m}}
        BY <1>9
      <3> QED
        BY <1>2, <3>3, <3>4, <3>5 DEF Settled
    <2> QED
      BY <2>4, <2>5
  <1> QED
    BY <1>2, <1>17, <1>18 DEF DukaInv, Configured

\* Reread: the command fails and gives the port back.
LEMMA RereadKeeps ==
    ASSUME DukaInv, NEW p \in Procs, Reread(p)
    PROVE  DukaInv'
  <1>1. /\ run[p].pc = "reread" /\ Become(p, Idle) /\ port' = Free
        /\ UNCHANGED <<regs, addr, config, cache, requests, answers, want, spoilt>>
    BY DEF Reread, Finish, Close, world, history
  <1>2. port = p /\ Shapes'
    BY <1>1 DEF Shapes, DukaInv, TypeOK
  <1>3. Idle \in RunRecords /\ Idle.pc = "idle"
    BY IdleType
  <1>4. Sound(Idle, requests', answers', regs', want', Configured)
    BY IdleSound
  <1>5. port' # p
    BY <1>1, ProcsAssumption
  <1>6. TypeOK' /\ AllSound'
    BY <1>1, <1>2, <1>3, <1>4, <1>5, PortStep DEF Using
  <1>7. Settling'
    BY <1>1, <1>3, SettlingKept DEF DukaInv, TypeOK
  <1> QED
    BY <1>1, <1>6, <1>7 DEF DukaInv, Configured

\* GivenUp: a process that ends leaves no register unsaid: those it had still
\* to write are spoilt.
LEMMA GivenUp ==
    ASSUME DukaInv, NEW p \in Procs, Become(p, Idle),
           spoilt' = spoilt \cup (IF run[p].pc = "write" THEN Unsent(p) ELSE {}),
           UNCHANGED <<regs, requests, want>>
    PROVE  Settling'
  <1>1. SUFFICES ASSUME NEW d \in Devices, NEW a \in Attr \ {"resetFilter"},
                        <<d, a>> \notin spoilt', ~Due(run', d, a)
                 PROVE  Settled(regs', want', requests', d, a)
    BY DEF Settling
  <1>2. ~Due(run, d, a)
    <2>1. SUFFICES ASSUME NEW q \in Procs, run[q].pc = "write", run[q].dev = d,
                          a \in run[q].packets
                   PROVE  FALSE
      BY DEF Due
    <2>2. CASE q = p
      <3>1. <<d, a>> \in Unsent(p)
        BY <2>1, <2>2 DEF Unsent
      <3> QED
        BY <1>1, <2>1, <2>2, <3>1
    <2>3. CASE q # p
      <3>1. run'[q] = run[q]
        BY <2>3 DEF Become, DukaInv, TypeOK
      <3> QED
        BY <1>1, <2>1, <3>1 DEF Due
    <2> QED
      BY <2>2, <2>3
  <1>3. Settled(regs, want, requests, d, a)
    BY <1>1, <1>2 DEF DukaInv, Settling
  <1> QED
    BY <1>3 DEF Settled

\* WriteUnsent: the packets that follow the one that failed are not sent.
LEMMA WriteUnsentKeeps ==
    ASSUME DukaInv, NEW p \in Procs, WriteUnsent(p)
    PROVE  DukaInv'
  <1>1. /\ run[p].pc = "write" /\ Become(p, Idle) /\ port' = Free
        /\ spoilt' = spoilt \cup Unsent(p)
        /\ UNCHANGED <<regs, addr, config, cache, requests, answers, want>>
    BY DEF WriteUnsent, Finish, Close, world
  <1>2. port = p /\ Shapes'
    BY <1>1 DEF Shapes, DukaInv, TypeOK
  <1>3. Idle \in RunRecords /\ Idle.pc \notin Using
    BY IdleType DEF Using
  <1>4. Sound(Idle, requests', answers', regs', want', Configured)
    BY IdleSound
  <1>5. port' # p
    BY <1>1, ProcsAssumption
  <1>6. TypeOK' /\ AllSound'
    BY <1>1, <1>2, <1>3, <1>4, <1>5, PortStep
  <1>7. Settling'
    BY <1>1, GivenUp
  <1> QED
    BY <1>1, <1>6, <1>7 DEF DukaInv, Configured

\* Kill: whatever it was doing, the process leaves the port and the units.
LEMMA KillKeeps ==
    ASSUME DukaInv, NEW p \in Procs, Kill(p)
    PROVE  DukaInv'
  <1>1. /\ Become(p, Idle) /\ port' = IF port = p THEN Free ELSE port
        /\ spoilt' = spoilt \cup (IF run[p].pc = "write" THEN Unsent(p) ELSE {})
        /\ UNCHANGED <<regs, addr, config, cache, requests, answers, want>>
    BY DEF Kill, Finish, world
  <1>2. Idle \in RunRecords /\ Idle.pc \notin Using
    BY IdleType DEF Using
  <1>3. \A rq, an, rg, wn : Sound(Idle, rq, an, rg, wn, Configured)
    BY IdleSound
  <1>4. TypeOK' /\ AllSound'
    <2>1. CASE port = p
      <3>1. port' = Free /\ port' # p /\ Shapes'
        BY <1>1, <2>1, ProcsAssumption DEF Shapes, DukaInv, TypeOK
      <3> QED
        BY <1>1, <1>2, <1>3, <2>1, <3>1, PortStep
    <2>2. CASE port # p
      <3>1. run[p].pc \notin Using /\ port' = port /\ cache' \subseteq Devices
        BY <1>1, <2>2 DEF DukaInv, TypeOK, Using
      <3> QED
        BY <1>1, <1>2, <1>3, <3>1, QuietStep
    <2> QED
      BY <2>1, <2>2
  <1>5. Settling'
    BY <1>1, GivenUp
  <1> QED
    BY <1>1, <1>4, <1>5 DEF DukaInv, Configured

-----------------------------------------------------------------------------
(* The search.                                                             *)

\* Search: every unit is asked who it is, and none is written.
LEMMA SearchKeeps ==
    ASSUME DukaInv, NEW p \in Procs, Search(p)
    PROVE  DukaInv'
  <1> DEFINE r == run[p]
             new == [r EXCEPT !.pc = "collect"]
             sent == {Request(p, 0, d, "search", "", 0) : d \in Devices}
  <1>1. /\ r.pc = "search" /\ port = Free /\ port' = p /\ Become(p, new)
        /\ requests' = requests \cup sent
        /\ UNCHANGED <<regs, addr, config, cache, answers, want, spoilt>>
    BY DEF Search, world, history
  <1>2. r \in RunRecords /\ Reader(r) /\ run[p] = r
    BY DEF DukaInv, AllSound, Sound, TypeOK
  <1>3. sent \subseteq RequestRecords /\ \A m \in sent : m.kind = "search"
    <2>1. ASSUME NEW d \in Devices
          PROVE  /\ Request(p, 0, d, "search", "", 0) \in RequestRecords
                 /\ Request(p, 0, d, "search", "", 0).kind = "search"
      BY DEF Request, RequestRecords
    <2> QED
      BY <2>1
  <1> HIDE DEF r, sent
  <1>4. /\ new \in RunRecords /\ new.pc = "collect" /\ new.vals = r.vals
        /\ new.firmware = r.firmware /\ new.tries = r.tries /\ new.retryAt = r.retryAt
    BY <1>2 DEF RunRecords
  <1> HIDE DEF new
  <1>5. Sound(new, requests', answers', regs', want', Configured)
    BY <1>1, <1>2, <1>4 DEF Sound, Reader, Timely, Asked, Accounted, Awaited
  <1>6. Shapes'
    BY <1>1, <1>3 DEF Shapes, DukaInv, TypeOK
  <1>7. TypeOK' /\ AllSound'
    BY <1>1, <1>4, <1>5, <1>6, PortStep DEF Using
  <1>8. run[p].pc # "write" /\ new.pc # "write"
    BY <1>1, <1>2, <1>4
  <1>9. /\ \A m \in requests : m.kind = "write" => m \in requests'
        /\ \A m \in requests' : m.kind = "write" => m \in requests
    BY <1>1, <1>3
  <1>10. Settling'
    BY <1>1, <1>8, <1>9, SettlingKept DEF DukaInv, TypeOK
  <1> QED
    BY <1>1, <1>7, <1>10 DEF DukaInv, Configured

\* Collect: the searcher alone takes packets.
LEMMA CollectKeeps ==
    ASSUME DukaInv, NEW p \in Procs, NEW a \in answers, Collect(p, a)
    PROVE  DukaInv'
  <1> DEFINE r == run[p]
             f == [r.found EXCEPT ![a.dev] = a.at]
             more == [r EXCEPT !.found = f]
             new == IF a.kind = "search" THEN more ELSE r
  <1>1. /\ r.pc = "collect" /\ answers' = answers \ {a}
        /\ UNCHANGED <<regs, addr, config, cache, requests, port, want, spoilt>>
    BY DEF Collect, world, history
  <1>2. /\ r \in RunRecords /\ Reader(r) /\ run[p] = r /\ port = p
    BY <1>1 DEF DukaInv, AllSound, Sound, TypeOK
  <1>3. Become(p, new)
    BY <1>2 DEF Collect, RunRecords
  <1>4. f \in [Devices -> Addresses \cup {NotThere}]
    BY <1>2 DEF DukaInv, TypeOK, AnswerRecords, RunRecords
  <1> HIDE DEF r, f
  <1>5. /\ more \in RunRecords /\ more.pc = r.pc /\ more.vals = r.vals
        /\ more.firmware = r.firmware /\ more.tries = r.tries /\ more.retryAt = r.retryAt
    BY <1>2, <1>4 DEF RunRecords
  <1> HIDE DEF more
  <1>6. /\ new \in RunRecords /\ new.pc = r.pc /\ new.vals = r.vals
        /\ new.firmware = r.firmware /\ new.tries = r.tries /\ new.retryAt = r.retryAt
    BY <1>2, <1>5
  <1> HIDE DEF new
  <1>7. Sound(new, requests', answers', regs', want', Configured)
    BY <1>1, <1>2, <1>6 DEF Sound, Reader, Timely, Asked, Accounted, Awaited
  <1>8. Shapes'
    BY <1>1 DEF Shapes, DukaInv, TypeOK
  <1>9. TypeOK' /\ AllSound'
    BY <1>1, <1>2, <1>3, <1>6, <1>7, <1>8, PortStep DEF Using
  <1>10. Settling'
    BY <1>1, <1>2, <1>3, <1>6, SettlingKept DEF DukaInv, TypeOK
  <1> QED
    BY <1>1, <1>9, <1>10 DEF DukaInv, Configured

\* Collected: the units added excuse whoever had begun a list before.
LEMMA CollectedKeeps ==
    ASSUME DukaInv, NEW p \in Procs, Collected(p)
    PROVE  DukaInv'
  <1> DEFINE r == run[p]
             base == [Idle EXCEPT !.job = "discover"]
  <1>1. /\ r.pc = "collect" /\ port' = Free
        /\ UNCHANGED <<regs, addr, cache, requests, answers, want, spoilt>>
    BY DEF Collected, Close, world, history
  <1>2. /\ r \in RunRecords /\ run[p] = r /\ port = p /\ run \in [Procs -> RunRecords]
        /\ config \in [Devices -> Hosts \cup {NotThere}] /\ cache \subseteq Configured
    BY <1>1 DEF DukaInv, TypeOK
  <1>3. port' # p
    BY <1>1, ProcsAssumption
  <1>4. CASE r.job # "add"
    <2>1. Become(p, ReadAll(base)) /\ UNCHANGED config
      BY <1>4 DEF Collected
    <2>2. /\ base \in RunRecords /\ base.items = {} /\ base.vals = Nothing
          /\ ~base.firmware /\ base.tries = 0 /\ base.retryAt = 0
      <3>1. Idle.items = {} /\ "discover" \in Kinds
        BY DEF Idle, Kinds
      <3> QED
        BY <3>1, IdleType DEF RunRecords
    <2> HIDE DEF base
    <2>3. Configured \subseteq Devices
      BY DEF Configured
    <2> DEFINE new == ReadAll(base)
    <2>4. /\ new \in RunRecords /\ new.pc \in {"open", "listed"}
          /\ Sound(new, requests', answers', regs', want', Configured)
      BY <2>2, <2>3, ReadAllSound
    <2>5. Become(p, new)
      BY <2>1
    <2> HIDE DEF new
    <2>6. Shapes'
      BY <1>1, <2>1 DEF Shapes, DukaInv, TypeOK
    <2>7. TypeOK' /\ AllSound'
      BY <1>1, <1>2, <1>3, <2>1, <2>4, <2>5, <2>6, PortStep DEF Using
    <2>8. Settling'
      BY <1>1, <1>2, <2>1, <2>4, <2>5, SettlingKept DEF DukaInv, TypeOK
    <2> QED
      BY <1>1, <1>2, <2>1, <2>7, <2>8 DEF DukaInv, Configured
  <1>5. CASE r.job = "add"
    <2> DEFINE fresh == {d \in Configured' : config[d] = NotThere}
               known == Configured'
    <2>1. config' = Added(r.found) /\ run' = Unknowing(p, fresh)
      BY <1>5 DEF Collected
    <2>2. config' \in [Devices -> Hosts \cup {NotThere}]
      BY <1>2, <2>1 DEF Added, RunRecords, Hosts
    <2>3. Configured \subseteq known /\ known \subseteq Configured \cup fresh
      BY <1>2, <2>1 DEF Configured, Added
    <2>4. fresh \subseteq Devices
      BY DEF Configured
    <2>5. Shapes'
      BY <1>1, <2>2 DEF Shapes, DukaInv, TypeOK
    <2>6. Configured' = known
      OBVIOUS
    <2> HIDE DEF fresh, known
    <2>7. ASSUME NEW q \in Procs
          PROVE  /\ run'[q] \in RunRecords
                 /\ (port' = q) <=> (run'[q].pc \in Using)
                 /\ Sound(run'[q], requests', answers', regs', want', known)
                 /\ run'[q].pc # "write" /\ run[q].pc # "write"
      <3>1. CASE q = p
        <4>1. run'[q] = Idle
          BY <2>1, <3>1 DEF Unknowing
        <4>2. Idle \in RunRecords /\ Idle.pc = "idle"
          BY IdleType
        <4>3. Sound(Idle, requests', answers', regs', want', known)
          BY IdleSound
        <4> QED
          BY <1>1, <1>2, <1>3, <3>1, <4>1, <4>2, <4>3 DEF Using
      <3>2. CASE q # p
        <4>1. run[q].pc \notin Using
          BY <1>2, <3>2, OneUser DEF DukaInv
        <4>2. Sound(run[q], requests, answers, regs, want, Configured) /\ run[q] \in RunRecords
          BY <1>2 DEF DukaInv, AllSound
        <4>3. port' # q
          BY <1>1, ProcsAssumption
        <4>4. CASE run[q].pc = "idle"
          <5>1. run'[q] = run[q]
            BY <2>1, <3>2, <4>4 DEF Unknowing
          <5>2. Sound(run[q], requests', answers', regs', want', known)
            BY <4>2, <4>4 DEF Sound, Timely, Asked, Accounted, Awaited
          <5> QED
            BY <4>1, <4>2, <4>3, <4>4, <5>1, <5>2 DEF Using
        <4>5. CASE run[q].pc # "idle"
          <5> DEFINE s == run[q]
                     exc == s.excused \cup fresh
                     new == [s EXCEPT !.excused = exc]
          <5>1. run'[q] = new
            BY <2>1, <3>2, <4>2, <4>5 DEF Unknowing, RunRecords
          <5>2. /\ s \in RunRecords /\ s.pc \notin Using
                /\ Sound(s, requests, answers, regs, want, Configured)
            BY <4>1, <4>2
          <5>3. s = run[q]
            OBVIOUS
          <5> HIDE DEF s
          <5>4. exc \subseteq Devices /\ exc = s.excused \cup fresh
            BY <2>4, <5>2 DEF RunRecords
          <5> HIDE DEF exc
          <5>5. /\ new \in RunRecords /\ new.pc = s.pc /\ new.todo = s.todo /\ new.items = s.items
                /\ new.vals = s.vals /\ new.firmware = s.firmware /\ new.tries = s.tries
                /\ new.retryAt = s.retryAt /\ new.waited = s.waited /\ new.excused = exc
            BY <5>2, <5>4 DEF RunRecords
          <5> HIDE DEF new
          <5>6. Reader(new)
            BY <5>2, <5>5 DEF Sound, Reader
          <5>7. Accounted(new, known)
            BY <2>3, <5>2, <5>4, <5>5 DEF Sound, Accounted
          <5>8. Sound(new, requests', answers', regs', want', known)
            BY <5>2, <5>5, <5>6, <5>7 DEF Sound, Timely, Asked, Awaited, Using
          <5> QED
            BY <4>3, <5>1, <5>2, <5>3, <5>5, <5>8 DEF Using
        <4> QED
          BY <4>4, <4>5
      <3> QED
        BY <3>1, <3>2
    <2>8. run' \in [Procs -> RunRecords]
      <3>1. DOMAIN run' = Procs /\ run' = [q \in Procs |-> run'[q]]
        BY <2>1 DEF Unknowing
      <3> QED
        BY <2>7, <3>1
    <2>9. port' \in Procs \cup {Free}
      BY <1>1
    <2>10. TypeOK'
      BY <2>5, <2>7, <2>8, <2>9 DEF TypeOK, Shapes, Using
    <2>11. AllSound'
      BY <2>6, <2>7 DEF AllSound
    <2>12. Settling'
      <3>1. SUFFICES ASSUME NEW e \in Devices, NEW b \in Attr \ {"resetFilter"},
                            <<e, b>> \notin spoilt', ~Due(run', e, b)
                     PROVE  Settled(regs', want', requests', e, b)
        BY DEF Settling
      <3>2. ~Due(run, e, b)
        BY <2>7 DEF Due
      <3> QED
        BY <1>1, <3>1, <3>2 DEF DukaInv, Settling
    <2> QED
      BY <1>1, <1>2, <2>3, <2>6, <2>10, <2>11, <2>12 DEF DukaInv
  <1> QED
    BY <1>4, <1>5

-----------------------------------------------------------------------------
(* The units and the network.                                              *)

\* At: whoever is at a unit.
At(r, d) == r.pc \in {"ask", "read"} /\ Current(r) = d

\* SettlingStays: no process comes nearer to writing or further from it.
LEMMA SettlingStays ==
    ASSUME Settling, \A q \in Procs : run'[q].pc = run[q].pc /\ run'[q].dev = run[q].dev
                                     /\ run'[q].packets = run[q].packets
    PROVE  \A e, b : Due(run', e, b) <=> Due(run, e, b)
  BY DEF Due

\* Serve: a reader sees what its unit becomes, and is told no more than that.
LEMMA ServeKeeps ==
    ASSUME DukaInv, NEW m \in requests, Serve(m)
    PROVE  DukaInv'
  <1> DEFINE d == m.dev
             reset == m.kind = "write" /\ m.attr = "resetFilter"
             now == IF m.kind = "write" /\ m.attr # "resetFilter"
                    THEN [regs[d] EXCEPT ![m.attr] = m.val] ELSE regs[d]
             said == CASE m.kind = "status" -> Decoded(now)
                       [] m.kind = "write" -> Decoded([Nothing EXCEPT ![m.attr] = m.val])
                       [] m.kind \in {"firmware", "search"} -> Nothing
             ans == Answer(m, said, addr[d])
  <1>1. /\ regs' = [regs EXCEPT ![d] = now]
        /\ run' = Seen(d, View(now))
        /\ answers' = IF reset THEN answers ELSE answers \cup {ans}
        /\ requests' = requests \ {m}
        /\ UNCHANGED <<addr, config, cache, port, want, spoilt>>
    BY DEF Serve, history
  <1>2. /\ regs \in [Devices -> [Attr -> Values]] /\ run \in [Procs -> RunRecords]
        /\ addr \in [Devices -> Addresses] /\ m \in RequestRecords
    BY DEF DukaInv, TypeOK
  <1>3. /\ d \in Devices /\ m.by \in Procs /\ m.n \in Nat
        /\ m.kind \in {"firmware", "status", "search", "write"}
        /\ m.kind = "write" => m.attr \in Attr /\ m.val \in Values
    BY <1>2 DEF RequestRecords
  <1>4. regs[d] \in [Attr -> Values] /\ addr[d] \in Addresses
    BY <1>2, <1>3
  <1>5. now \in [Attr -> Values]
    BY <1>3, <1>4
  <1>6. said \in [Attr -> Values \cup {Unknown}]
    <2> DEFINE one == [Nothing EXCEPT ![m.attr] = m.val]
    <2>1. Nothing \in [Attr -> Values \cup {Unknown}]
      BY DEF Nothing
    <2>2. m.kind = "write" => one \in [Attr -> Values \cup {Unknown}]
      BY <1>3, <2>1
    <2>3. now \in [Attr -> Values \cup {Unknown}] /\ 0 \in Values \cup {Unknown}
      BY <1>5 DEF Values
    <2>4. Decoded(now) \in [Attr -> Values \cup {Unknown}]
      BY <2>3, DecodedType
    <2>5. m.kind = "write" => Decoded(one) \in [Attr -> Values \cup {Unknown}]
      BY <2>2, <2>3, DecodedType
    <2> HIDE DEF one
    <2>6. said = CASE m.kind = "status" -> Decoded(now)
                   [] m.kind = "write" -> Decoded(one)
                   [] m.kind \in {"firmware", "search"} -> Nothing
      BY DEF one
    <2> HIDE DEF said, now
    <2> QED
      BY <1>3, <2>1, <2>4, <2>5, <2>6
  <1>7. /\ ans \in AnswerRecords /\ ans.dev = d /\ ans.kind = m.kind /\ ans.vals = said
    <2> HIDE DEF said
    <2> QED
      BY <1>3, <1>4, <1>6 DEF Answer, AnswerRecords
  <1>8. /\ m.kind # "write" => now = regs[d] /\ ~reset /\ said \in {View(regs[d]), Nothing}
    BY <1>3 DEF View
  <1>9. m.kind = "firmware" => ~reset
    BY <1>3
  <1>10. View(now) \in [Attr -> Values]
    BY <1>5, ViewType
  <1>11. /\ regs'[d] = now /\ regs' \in [Devices -> [Attr -> Values]]
         /\ \A e \in Devices \ {d} : regs'[e] = regs[e]
    <2> HIDE DEF now
    <2> QED
      BY <1>1, <1>2, <1>3, <1>5
  <1>12. m.kind = "write" /\ m.attr # "resetFilter" =>
            now[m.attr] = m.val /\ \A b \in Attr \ {m.attr} : now[b] = regs[d][b]
    BY <1>3, <1>4
  <1>13. m.kind = "write" /\ m.attr = "resetFilter" => now = regs[d]
    OBVIOUS
  <1>14. m.dev = d
    OBVIOUS
  <1> HIDE DEF d, reset, now, said, ans
  <1>15. ASSUME NEW q \in Procs
         PROVE  /\ run'[q] \in RunRecords /\ run'[q].pc = run[q].pc
                /\ run'[q].dev = run[q].dev /\ run'[q].packets = run[q].packets
                /\ Sound(run'[q], requests', answers', regs', want', Configured)
    <2> DEFINE r == run[q]
               h == [a \in Attr |-> r.held[a] \cup {View(now)[a]}]
               new == [r EXCEPT !.held = h]
    <2>1. r \in RunRecords /\ Sound(r, requests, answers, regs, want, Configured)
      BY <1>2 DEF DukaInv, AllSound
    <2>2. run'[q] = IF At(r, d) THEN new ELSE r
      BY <1>1, <2>1 DEF Seen, At, RunRecords
    <2>3. r = run[q]
      OBVIOUS
    <2> HIDE DEF r
    <2>4. CASE At(r, d)
      <3>1. r.held \in [Attr -> SUBSET Values]
        BY <2>1 DEF RunRecords
      <3>2. h \in [Attr -> SUBSET Values]
        BY <1>10, <3>1
      <3>3. \A a \in Attr : r.held[a] \subseteq h[a] /\ View(now)[a] \in h[a]
        OBVIOUS
      <3> HIDE DEF h
      <3>4. /\ new \in RunRecords /\ new.pc = r.pc /\ new.dev = r.dev /\ new.packets = r.packets
            /\ new.todo = r.todo /\ new.items = r.items /\ new.excused = r.excused
            /\ new.vals = r.vals /\ new.firmware = r.firmware /\ new.tries = r.tries
            /\ new.retryAt = r.retryAt /\ new.waited = r.waited /\ new.held = h
            /\ new.leftover = r.leftover
        BY <2>1, <3>2 DEF RunRecords
      <3> HIDE DEF new
      <3>5. Current(new) = Current(r) /\ Current(r) = d /\ r.pc \in {"ask", "read"}
        BY <2>4, <3>4, CurrentSame DEF At
      <3>6. Reader(new)
        BY <2>1, <3>4 DEF Sound, Reader
      <3>7. Timely(new, requests', answers', regs')
        <4>1. SUFFICES ASSUME ~r.leftover
                       PROVE  /\ Within(r.vals, h)
                              /\ \A a \in answers' : a.dev = d => Within(a.vals, h)
                              /\ \A k \in requests' : k.dev = d => k.kind # "write"
                              /\ Within(View(now), h)
          BY <1>11, <3>4, <3>5 DEF Timely
        <4>2. /\ Within(r.vals, r.held)
              /\ \A a \in answers : a.dev = d => Within(a.vals, r.held)
              /\ \A k \in requests : k.dev = d => k.kind # "write"
          BY <2>1, <3>5, <4>1 DEF Sound, Timely
        <4>3. m.kind # "write"
          BY <1>14, <4>2
        <4>4. Within(View(now), h)
          BY <3>3 DEF Within
        <4>5. Within(said, h)
          BY <1>8, <4>3, <4>4 DEF Within, Nothing
        <4>6. Within(r.vals, h) /\ \A a \in answers : a.dev = d => Within(a.vals, h)
          BY <3>3, <4>2 DEF Within
        <4> QED
          BY <1>1, <1>7, <4>2, <4>4, <4>5, <4>6
      <3>8. Accounted(new, Configured)
        BY <2>1, <3>4 DEF Sound, Accounted
      <3>9. Responded(new) = Responded(r)
        BY <3>4 DEF Responded
      <3>10. Awaited(new, requests', answers')
        <4>1. SUFFICES ASSUME d \notin r.excused, ~Responded(r)
                       PROVE  \E k \in requests' \cup answers' : k.dev = d /\ k.kind = "firmware"
          BY <3>4, <3>5, <3>9 DEF Awaited
        <4>2. PICK k \in requests \cup answers : k.dev = d /\ k.kind = "firmware"
          BY <2>1, <3>5, <4>1 DEF Sound, Awaited
        <4>3. CASE k = m
          BY <1>1, <1>7, <1>9, <4>2, <4>3
        <4>4. CASE k # m
          BY <1>1, <4>2, <4>4
        <4> QED
          BY <4>3, <4>4
      <3>11. Sound(new, requests', answers', regs', want', Configured)
        BY <3>4, <3>5, <3>6, <3>7, <3>8, <3>10 DEF Sound, Asked
      <3> QED
        BY <2>2, <2>3, <2>4, <3>4, <3>11
    <2>5. CASE ~At(r, d)
      <3>1. run'[q] = r
        BY <2>2, <2>5
      <3>2. r.pc \in {"ask", "read"} => Current(r) # d /\ Current(r) \in Devices
        <4>1. r.pc \in {"ask", "read"} => r.todo # {}
          BY <2>1 DEF Sound, Reader
        <4>2. r.todo \subseteq Devices
          BY <2>1 DEF RunRecords
        <4> QED
          BY <2>5, <4>1, <4>2, CurrentIn DEF At
      <3>3. Timely(r, requests', answers', regs')
        BY <1>1, <1>7, <1>11, <2>1, <3>2 DEF Sound, Timely
      <3>4. Awaited(r, requests', answers')
        BY <1>1, <1>14, <2>1, <3>2 DEF Sound, Awaited
      <3>5. Sound(r, requests', answers', regs', want', Configured)
        BY <1>1, <2>1, <3>3, <3>4 DEF Sound
      <3> QED
        BY <2>1, <2>3, <3>1, <3>5
    <2> QED
      BY <2>4, <2>5
  <1>16. run' \in [Procs -> RunRecords]
    <2>1. run' = [q \in Procs |-> run'[q]]
      BY <1>1 DEF Seen
    <2> QED
      BY <1>15, <2>1
  <1>17. Configured' = Configured
    BY <1>1 DEF Configured
  <1>18. TypeOK'
    BY <1>1, <1>7, <1>11, <1>15, <1>16 DEF DukaInv, TypeOK
  <1>19. AllSound'
    BY <1>15, <1>17 DEF AllSound
  <1>20. Settling'
    <2>1. SUFFICES ASSUME NEW e \in Devices, NEW b \in Attr \ {"resetFilter"},
                          <<e, b>> \notin spoilt', ~Due(run', e, b)
                   PROVE  Settled(regs', want', requests', e, b)
      BY DEF Settling
    <2>2. ~Due(run, e, b)
      BY <1>15, <2>1, SettlingStays DEF DukaInv
    <2>3. Settled(regs, want, requests, e, b)
      BY <1>1, <2>1, <2>2 DEF DukaInv, Settling
    <2>4. CASE m.dev = e /\ m.kind = "write" /\ m.attr = b
      <3>1. m.val = want[e][b]
        BY <2>3, <2>4 DEF Settled
      <3>2. regs'[e][b] = want[e][b]
        BY <1>11, <1>12, <1>14, <2>4, <3>1
      <3> QED
        BY <1>1, <2>3, <3>2 DEF Settled
    <2>5. CASE ~(m.dev = e /\ m.kind = "write" /\ m.attr = b)
      <3>1. regs'[e][b] = regs[e][b]
        <4>1. CASE e # d
          BY <1>11, <4>1
        <4>2. CASE e = d /\ m.kind # "write"
          BY <1>8, <1>11, <4>2
        <4>3. CASE e = d /\ m.kind = "write" /\ m.attr = "resetFilter"
          BY <1>11, <1>13, <4>3
        <4>4. CASE e = d /\ m.kind = "write" /\ m.attr # "resetFilter"
          BY <1>11, <1>12, <1>14, <2>5, <4>4
        <4> QED
          BY <4>1, <4>2, <4>3, <4>4
      <3> QED
        BY <1>1, <2>3, <2>5, <3>1 DEF Settled
    <2> QED
      BY <2>4, <2>5
  <1> QED
    BY <1>1, <1>17, <1>18, <1>19, <1>20 DEF DukaInv

\* ExcuseKeeps: packets of one unit are gone, and its readers are excused.
LEMMA ExcuseKeeps ==
    ASSUME DukaInv, NEW d, run' = Excuse(d),
           requests' \subseteq requests, answers' \subseteq answers,
           \A k \in requests : k \notin requests' => k.dev = d,
           \A k \in answers : k \notin answers' => k.dev = d,
           UNCHANGED <<regs, addr, config, cache, port, want>>
    PROVE  /\ TypeOK' /\ AllSound'
           /\ \A q \in Procs : /\ run'[q].pc = run[q].pc /\ run'[q].dev = run[q].dev
                               /\ run'[q].packets = run[q].packets
  <1>1. run \in [Procs -> RunRecords]
    BY DEF DukaInv, TypeOK
  <1>2. ASSUME NEW q \in Procs
        PROVE  /\ run'[q] \in RunRecords /\ run'[q].pc = run[q].pc
               /\ run'[q].dev = run[q].dev /\ run'[q].packets = run[q].packets
               /\ Sound(run'[q], requests', answers', regs', want', Configured)
    <2> DEFINE r == run[q]
               exc == r.excused \cup {d}
               new == [r EXCEPT !.excused = exc]
    <2>1. r \in RunRecords /\ Sound(r, requests, answers, regs, want, Configured)
      BY <1>1 DEF DukaInv, AllSound
    <2>2. run'[q] = IF At(r, d) THEN new ELSE r
      BY <2>1 DEF Excuse, At, RunRecords
    <2>3. r = run[q]
      OBVIOUS
    <2> HIDE DEF r
    <2>4. CASE At(r, d)
      <3>1. d \in Devices
        <4>1. r.todo # {} /\ Current(r) = d /\ r.todo \subseteq Devices
          BY <2>1, <2>4 DEF At, Sound, Reader, RunRecords
        <4> QED
          BY <4>1, CurrentIn
      <3>2. exc \subseteq Devices /\ d \in exc /\ r.excused \subseteq exc
        BY <2>1, <3>1 DEF RunRecords
      <3> HIDE DEF exc
      <3>3. /\ new \in RunRecords /\ new.pc = r.pc /\ new.dev = r.dev /\ new.packets = r.packets
            /\ new.todo = r.todo /\ new.items = r.items /\ new.excused = exc
            /\ new.vals = r.vals /\ new.firmware = r.firmware /\ new.tries = r.tries
            /\ new.retryAt = r.retryAt /\ new.waited = r.waited /\ new.held = r.held
            /\ new.leftover = r.leftover
        BY <2>1, <3>2 DEF RunRecords
      <3> HIDE DEF new
      <3>4. Current(new) = Current(r) /\ Current(r) = d /\ r.pc \in {"ask", "read"}
        BY <2>4, <3>3, CurrentSame DEF At
      <3>5. Reader(new)
        BY <2>1, <3>3 DEF Sound, Reader
      <3>6. Timely(new, requests', answers', regs')
        BY <2>1, <3>3, <3>4 DEF Sound, Timely
      <3>7. Accounted(new, Configured)
        BY <2>1, <3>2, <3>3 DEF Sound, Accounted
      <3>8. Awaited(new, requests', answers')
        BY <3>2, <3>3, <3>4 DEF Awaited
      <3>9. Sound(new, requests', answers', regs', want', Configured)
        BY <3>3, <3>4, <3>5, <3>6, <3>7, <3>8 DEF Sound, Asked
      <3> QED
        BY <2>2, <2>3, <2>4, <3>3, <3>9
    <2>5. CASE ~At(r, d)
      <3>1. run'[q] = r
        BY <2>2, <2>5
      <3>2. Timely(r, requests', answers', regs')
        BY <2>1 DEF Sound, Timely
      <3>3. Awaited(r, requests', answers')
        BY <2>1, <2>5 DEF Sound, Awaited, At
      <3>4. Sound(r, requests', answers', regs', want', Configured)
        BY <2>1, <3>2, <3>3 DEF Sound
      <3> QED
        BY <2>1, <2>3, <3>1, <3>4
    <2> QED
      BY <2>4, <2>5
  <1>3. run' \in [Procs -> RunRecords]
    <2>1. run' = [q \in Procs |-> run'[q]]
      BY DEF Excuse
    <2> QED
      BY <1>2, <2>1
  <1>4. Configured' = Configured
    BY DEF Configured
  <1>5. TypeOK'
    BY <1>2, <1>3 DEF DukaInv, TypeOK
  <1>6. AllSound'
    BY <1>2, <1>4 DEF AllSound
  <1> QED
    BY <1>2, <1>5, <1>6

\* LoseRequest: a setting that is lost may leave its register as it was.
LEMMA LoseRequestKeeps ==
    ASSUME DukaInv, NEW m \in requests, LoseRequest(m)
    PROVE  DukaInv'
  <1>1. /\ requests' = requests \ {m} /\ run' = Excuse(m.dev)
        /\ spoilt' = IF m.kind = "write" THEN spoilt \cup {<<m.dev, m.attr>>} ELSE spoilt
        /\ UNCHANGED <<regs, addr, config, cache, answers, port, want>>
    BY DEF LoseRequest, Trouble, world
  <1>2. /\ TypeOK' /\ AllSound'
        /\ \A q \in Procs : /\ run'[q].pc = run[q].pc /\ run'[q].dev = run[q].dev
                            /\ run'[q].packets = run[q].packets
    BY <1>1, ExcuseKeeps
  <1>3. Settling'
    <2>1. SUFFICES ASSUME NEW e \in Devices, NEW b \in Attr \ {"resetFilter"},
                          <<e, b>> \notin spoilt', ~Due(run', e, b)
                   PROVE  Settled(regs', want', requests', e, b)
      BY DEF Settling
    <2>2. ~Due(run, e, b)
      BY <1>2, <2>1, SettlingStays DEF DukaInv
    <2>3. Settled(regs, want, requests, e, b)
      BY <1>1, <2>1, <2>2 DEF DukaInv, Settling
    <2>4. ~(m.dev = e /\ m.kind = "write" /\ m.attr = b)
      BY <1>1, <2>1
    <2> QED
      BY <1>1, <2>3, <2>4 DEF Settled
  <1> QED
    BY <1>1, <1>2, <1>3 DEF DukaInv, Configured

\* LoseAnswer: a reader that waits for it is excused.
LEMMA LoseAnswerKeeps ==
    ASSUME DukaInv, NEW a \in answers, LoseAnswer(a)
    PROVE  DukaInv'
  <1>1. /\ answers' = answers \ {a} /\ run' = Excuse(a.dev)
        /\ UNCHANGED <<regs, addr, config, cache, requests, port, want, spoilt>>
    BY DEF LoseAnswer, Trouble, world, history
  <1>2. /\ TypeOK' /\ AllSound'
        /\ \A q \in Procs : /\ run'[q].pc = run[q].pc /\ run'[q].dev = run[q].dev
                            /\ run'[q].packets = run[q].packets
    BY <1>1, ExcuseKeeps
  <1>3. Settling'
    <2>1. SUFFICES ASSUME NEW e \in Devices, NEW b \in Attr \ {"resetFilter"},
                          <<e, b>> \notin spoilt', ~Due(run', e, b)
                   PROVE  Settled(regs', want', requests', e, b)
      BY DEF Settling
    <2>2. ~Due(run, e, b)
      BY <1>2, <2>1, SettlingStays DEF DukaInv
    <2> QED
      BY <1>1, <2>1, <2>2 DEF DukaInv, Settling
  <1> QED
    BY <1>1, <1>2, <1>3 DEF DukaInv, Configured

\* Drop: nobody reads while an answer is dropped.
LEMMA DropKeeps ==
    ASSUME DukaInv, NEW a \in answers, Drop(a)
    PROVE  DukaInv'
  <1>1. /\ \A p \in Procs : port = p => run[p].pc \in {"write", "reread"}
        /\ answers' = answers \ {a}
        /\ UNCHANGED <<regs, addr, config, cache, requests, port, run, want, spoilt>>
    BY DEF Drop, world, history
  <1>2. Configured' = Configured
    BY <1>1 DEF Configured
  <1>3. ASSUME NEW q \in Procs
        PROVE  Sound(run'[q], requests', answers', regs', want', Configured')
    <2>1. run[q].pc \notin {"ask", "read"}
      BY <1>1 DEF DukaInv, TypeOK
    <2> QED
      BY <1>1, <1>2, <2>1 DEF DukaInv, AllSound, Sound, Timely, Awaited
  <1>4. TypeOK'
    BY <1>1 DEF DukaInv, TypeOK
  <1>5. Settling'
    BY <1>1 DEF DukaInv, Settling
  <1> QED
    BY <1>1, <1>2, <1>3, <1>4, <1>5 DEF DukaInv, AllSound

-----------------------------------------------------------------------------
(* The theorems.                                                           *)

\* InitSound: nothing runs, and every register is as it was left.
LEMMA InitSound == Init => DukaInv
  <1>1. SUFFICES ASSUME Init PROVE DukaInv
    OBVIOUS
  <1>2. PICK home \in Homes : regs = home.regs /\ addr = home.addr /\ config = home.config
    BY <1>1 DEF Init
  <1>3. /\ regs \in [Devices -> [Attr -> Values]] /\ addr \in [Devices -> Addresses]
        /\ config \in [Devices -> Hosts \cup {NotThere}]
    BY <1>2, HomesAssumption
  <1>4. /\ cache = Configured /\ requests = {} /\ answers = {} /\ port = Free
        /\ run = [p \in Procs |-> Idle] /\ want = regs
    BY <1>1 DEF Init
  <1>5. Idle \in RunRecords /\ Idle.pc = "idle"
    BY IdleType
  <1>6. ASSUME NEW p \in Procs
        PROVE  run[p] = Idle /\ (port = p <=> run[p].pc \in Using)
    BY <1>4, <1>5, ProcsAssumption DEF Using
  <1>7. run \in [Procs -> RunRecords]
    BY <1>4, <1>5
  <1>8. cache \subseteq Devices
    BY <1>4 DEF Configured
  <1>9. TypeOK
    BY <1>3, <1>4, <1>6, <1>7, <1>8 DEF TypeOK, Using
  <1>10. AllSound
    BY <1>6, IdleSound DEF AllSound
  <1>11. Settling
    BY <1>4 DEF Settling, Settled
  <1> QED
    BY <1>4, <1>9, <1>10, <1>11 DEF DukaInv

\* NextSound: every step of a process and of the network keeps the invariant.
LEMMA NextSound == DukaInv /\ [Next]_vars => DukaInv'
  <1>1. SUFFICES ASSUME DukaInv, [Next]_vars PROVE DukaInv'
    OBVIOUS
  <1>2. ASSUME NEW p \in Procs, NEW job \in Jobs[p], Begin(p, job) PROVE DukaInv'
    BY <1>1, <1>2, BeginKeeps
  <1>3. ASSUME NEW p \in Procs, OpenRead(p) PROVE DukaInv'
    BY <1>1, <1>3, OpenReadKeeps
  <1>4. ASSUME NEW p \in Procs, OpenReadFails(p) PROVE DukaInv'
    BY <1>1, <1>4, OpenReadFailsKeeps
  <1>5. ASSUME NEW p \in Procs, AskStatus(p) PROVE DukaInv'
    BY <1>1, <1>5, AskStatusKeeps
  <1>6. ASSUME NEW p \in Procs, EndRead(p) PROVE DukaInv'
    BY <1>1, <1>6, EndReadKeeps
  <1>7. ASSUME NEW p \in Procs, Listed(p) PROVE DukaInv'
    BY <1>1, <1>7, ListedKeeps
  <1>8. ASSUME NEW p \in Procs, Tick(p) PROVE DukaInv'
    BY <1>1, <1>8, TickKeeps
  <1>9. ASSUME NEW p \in Procs, NEW a \in answers, Receive(p, a) PROVE DukaInv'
    BY <1>1, <1>9, ReceiveKeeps
  <1>10. ASSUME NEW p \in Procs, NEW a \in answers, Collect(p, a) PROVE DukaInv'
    BY <1>1, <1>10, CollectKeeps
  <1>11. ASSUME NEW p \in Procs, OpenSet(p) PROVE DukaInv'
    BY <1>1, <1>11, OpenSetKeeps
  <1>12. ASSUME NEW p \in Procs, OpenSetFails(p) PROVE DukaInv'
    <2>1. /\ Finish(p) /\ run[p].pc = "set"
          /\ UNCHANGED <<regs, addr, config, cache, requests, answers, port, want, spoilt>>
      BY <1>12 DEF OpenSetFails, world, history
    <2> QED
      BY <1>1, <2>1, FinishKeeps
  <1>13. ASSUME NEW p \in Procs, Write(p) PROVE DukaInv'
    BY <1>1, <1>13, WriteKeeps
  <1>14. ASSUME NEW p \in Procs, Reread(p) PROVE DukaInv'
    BY <1>1, <1>14, RereadKeeps
  <1>15. ASSUME NEW p \in Procs, Search(p) PROVE DukaInv'
    BY <1>1, <1>15, SearchKeeps
  <1>16. ASSUME NEW p \in Procs, SearchFails(p) PROVE DukaInv'
    <2>1. /\ Finish(p) /\ run[p].pc = "search"
          /\ UNCHANGED <<regs, addr, config, cache, requests, answers, port, want, spoilt>>
      BY <1>16 DEF SearchFails, world, history
    <2> QED
      BY <1>1, <2>1, FinishKeeps
  <1>17. ASSUME NEW p \in Procs, Collected(p) PROVE DukaInv'
    BY <1>1, <1>17, CollectedKeeps
  <1>18. ASSUME NEW m \in requests, Serve(m) PROVE DukaInv'
    BY <1>1, <1>18, ServeKeeps
  <1>19. ASSUME NEW m \in requests, LoseRequest(m) PROVE DukaInv'
    BY <1>1, <1>19, LoseRequestKeeps
  <1>20. ASSUME NEW a \in answers, LoseAnswer(a) PROVE DukaInv'
    BY <1>1, <1>20, LoseAnswerKeeps
  <1>21. ASSUME NEW a \in answers, Drop(a) PROVE DukaInv'
    BY <1>1, <1>21, DropKeeps
  <1>22. CASE UNCHANGED vars
    <2>1. UNCHANGED <<regs, addr, config, cache, requests, answers, port, run, want, spoilt>>
      BY <1>22 DEF vars, world, history
    <2> QED
      BY <1>1, <2>1 DEF DukaInv, TypeOK, AllSound, Settling, Configured
  <1>23. CASE Next
    <2>1. ASSUME NEW p \in Procs, Step(p) PROVE DukaInv'
      BY <1>3, <1>4, <1>5, <1>6, <1>7, <1>8, <1>9, <1>10, <1>11, <1>12, <1>13, <1>14, <1>15,
         <1>16, <1>17, <2>1 DEF Step
    <2>2. ASSUME Network PROVE DukaInv'
      BY <1>18, <1>19, <1>20, <1>21, <2>2 DEF Network
    <2>3. ASSUME NEW p \in Procs, Fail(p) PROVE DukaInv'
      <3>1. CASE ReadUnsent(p)
        BY <1>1, <3>1, ReadUnsentKeeps
      <3>2. CASE WriteUnsent(p)
        BY <1>1, <3>2, WriteUnsentKeeps
      <3>3. CASE SearchUnsent(p)
        <4>1. /\ Finish(p) /\ run[p].pc = "search"
              /\ UNCHANGED <<regs, addr, config, cache, requests, answers, port, want, spoilt>>
          BY <3>3 DEF SearchUnsent, world, history
        <4> QED
          BY <1>1, <4>1, FinishKeeps
      <3>4. CASE Kill(p)
        BY <1>1, <3>4, KillKeeps
      <3> QED
        BY <2>3, <3>1, <3>2, <3>3, <3>4 DEF Fail
    <2> QED
      BY <1>2, <1>23, <2>1, <2>2, <2>3 DEF Next
  <1> QED
    BY <1>1, <1>22, <1>23

\* The invariant holds for every set of processes, units and packets.
THEOREM InvCorrect == Spec => []DukaInv
  BY InitSound, NextSound, PTL DEF Spec

\* Who uses the network holds the port, and nobody else, at every step of
\* ReadState, SetAttributes and Discover.
THEOREM TypeCorrect == Spec => []TypeOK
  <1>1. DukaInv => TypeOK
    BY DEF DukaInv
  <1> QED
    BY <1>1, InvCorrect, PTL

\* ReadState shows values the unit had while it was read, however packets of
\* this and of other units are lost, delayed and mixed up, unless one of the
\* unit was under way before.
THEOREM ReadingsAreCurrent == Spec => []ReadingIsCurrent
  <1>1. DukaInv => ReadingIsCurrent
    BY DEF DukaInv, AllSound, Sound, Timely, Within, ReadingIsCurrent, Reading
  <1> QED
    BY <1>1, InvCorrect, PTL

\* SetAttributes leaves a unit with the setting asked last, although it
\* reports a failure, once no packet of the setting is under way, unless one
\* was lost, overtaken, sent elsewhere or, a send having failed or the process
\* been killed, never sent.
THEOREM SettingsWin == Spec => []LastSettingWins
  <1>1. DukaInv => LastSettingWins
    <2>1. SUFFICES ASSUME DukaInv, NEW d \in Devices, NEW a \in Attr \ {"resetFilter"},
                          <<d, a>> \notin spoilt, Writes(d, a) = {},
                          \A p \in Procs : run[p].pc = "write" => run[p].dev # d
                   PROVE  regs[d][a] = want[d][a]
      BY DEF LastSettingWins
    <2>2. Settled(regs, want, requests, d, a)
      BY <2>1 DEF DukaInv, Settling, Due
    <2> QED
      BY <2>1, <2>2 DEF Settled, Writes
  <1> QED
    BY <1>1, InvCorrect, PTL

\* A refresh of the inventory drops a unit only with an excuse: every other
\* configured unit has answered when the list ends.
THEOREM DropsHaveCause == Spec => CacheDropsForCause
  <1>1. DukaInv /\ [Next]_vars
        => [\A d \in cache \ cache' :
               \E p \in Procs : run[p].pc = "listed" /\ d \in run[p].excused]_vars
    <2>1. SUFFICES ASSUME DukaInv, Next, NEW d \in cache \ cache'
                   PROVE  \E p \in Procs : run[p].pc = "listed" /\ d \in run[p].excused
      OBVIOUS
    <2>2. \E p \in Procs : Listed(p)
      <3>1. cache' # cache
        BY <2>1
      <3>2. ASSUME NEW p \in Procs, Step(p), ~Listed(p) PROVE cache' = cache
        <4>1. OpenRead(p) \/ OpenReadFails(p) \/ AskStatus(p) \/ EndRead(p) \/ Tick(p)
              => cache' = cache
          BY DEF OpenRead, OpenReadFails, AskStatus, EndRead, Tick
        <4>2. OpenSet(p) \/ OpenSetFails(p) \/ Write(p) \/ Reread(p) => cache' = cache
          BY DEF OpenSet, OpenSetFails, Write, Reread
        <4>3. Search(p) \/ SearchFails(p) \/ Collected(p) => cache' = cache
          BY DEF Search, SearchFails, Collected
        <4>4. \A a \in answers : Receive(p, a) \/ Collect(p, a) => cache' = cache
          BY DEF Receive, Collect
        <4> QED
          BY <3>2, <4>1, <4>2, <4>3, <4>4 DEF Step
      <3>3. \A p \in Procs : \A job \in Jobs[p] : Begin(p, job) => cache' = cache
        BY DEF Begin
      <3>4. Network => cache' = cache
        BY DEF Network, Serve, LoseRequest, LoseAnswer, Drop
      <3>5. \A p \in Procs : Fail(p) => cache' = cache
        BY DEF Fail, ReadUnsent, WriteUnsent, SearchUnsent, Kill
      <3> QED
        BY <2>1, <3>1, <3>2, <3>3, <3>4, <3>5 DEF Next
    <2>3. PICK p \in Procs : Listed(p)
      BY <2>2
    <2>4. run[p].pc = "listed" /\ cache' \in {cache, run[p].items}
      BY <2>3 DEF Listed
    <2>5. d \in Configured /\ d \notin run[p].items
      BY <2>1, <2>4 DEF DukaInv
    <2> QED
      BY <2>1, <2>4, <2>5, ListedItems
  <1> QED
    BY <1>1, InvCorrect, PTL DEF Spec, CacheDropsForCause

=============================================================================
