--------------------------- MODULE ScriptRunsProofs ---------------------------
(***************************************************************************)
(* For every set of executions, every set of scripts and every capacity of *)
(* the pipes: what a success means, when script and host wait for each     *)
(* other, what becomes of a key of the state file, and when a guard fails. *)
(***************************************************************************)
EXTENDS ScriptRuns, SequenceTheorems, FiniteSetTheorems, FunctionTheorems, TLAPS

-----------------------------------------------------------------------------
(* Counting the lines of a kind in a pipe.                                 *)

Places(S, s) == {i \in 1 .. Len(s) : s[i] \in S}
Among(S, s) == Cardinality(Places(S, s))

LEMMA PlacesFinite ==
    ASSUME NEW T, NEW s \in Seq(T), NEW S
    PROVE  IsFiniteSet(Places(S, s)) /\ Among(S, s) \in Nat
<1>1. Len(s) \in Nat
  BY LenProperties
<1>2. IsFiniteSet(1 .. Len(s))
  BY <1>1, FS_Interval
<1>3. IsFiniteSet(Places(S, s))
  BY <1>2, FS_Subset DEF Places
<1> QED BY <1>3, FS_CardinalityType DEF Among

LEMMA AmongNothing == \A S : Among(S, <<>>) = 0
<1>1. \A S : Places(S, <<>>) = {}
  BY DEF Places
<1> QED BY <1>1, FS_EmptySet DEF Among

LEMMA AmongAppend ==
    ASSUME NEW T, NEW s \in Seq(T), NEW t \in T, NEW S
    PROVE  Among(S, Append(s, t)) = Among(S, s) + (IF t \in S THEN 1 ELSE 0)
<1>1. /\ Len(s) \in Nat
      /\ Len(Append(s, t)) = Len(s) + 1
      /\ \A i \in 1 .. Len(s) : Append(s, t)[i] = s[i]
      /\ Append(s, t)[Len(s) + 1] = t
  BY AppendProperties, LenProperties
<1>2. IsFiniteSet(Places(S, s)) /\ Among(S, s) \in Nat
  BY PlacesFinite
<1>3. CASE t \in S
  <2>1. Places(S, Append(s, t)) = Places(S, s) \cup {Len(s) + 1}
    BY <1>1, <1>3 DEF Places
  <2>2. Len(s) + 1 \notin Places(S, s)
    BY <1>1 DEF Places
  <2>3. Cardinality(Places(S, s) \cup {Len(s) + 1}) = Cardinality(Places(S, s)) + 1
    BY <1>2, <2>2, FS_AddElement
  <2> QED BY <1>3, <2>1, <2>3 DEF Among
<1>4. CASE t \notin S
  <2>1. Places(S, Append(s, t)) = Places(S, s)
    BY <1>1, <1>4 DEF Places
  <2> QED BY <1>2, <1>4, <2>1 DEF Among
<1> QED BY <1>3, <1>4

LEMMA AmongTail ==
    ASSUME NEW T, NEW s \in Seq(T), s # <<>>, NEW S
    PROVE  Among(S, s) = Among(S, Tail(s)) + (IF Head(s) \in S THEN 1 ELSE 0)
<1>1. /\ Len(s) \in Nat \ {0}
      /\ Tail(s) \in Seq(T)
      /\ Len(Tail(s)) = Len(s) - 1
      /\ \A i \in 1 .. Len(Tail(s)) : Tail(s)[i] = s[i + 1]
      /\ Head(s) = s[1]
  BY HeadTailProperties, EmptySeq, LenProperties
<1> DEFINE rest == Places(S, s) \ {1}
           shift == [i \in Places(S, Tail(s)) |-> i + 1]
<1>2. IsFiniteSet(Places(S, s)) /\ IsFiniteSet(Places(S, Tail(s)))
  BY <1>1, PlacesFinite
<1>3. Among(S, s) \in Nat /\ Among(S, Tail(s)) \in Nat
  BY <1>1, PlacesFinite
<1>4. shift \in Bijection(Places(S, Tail(s)), rest)
  <2>1. shift \in [Places(S, Tail(s)) -> rest]
    BY <1>1 DEF Places
  <2>2. \A i, j \in Places(S, Tail(s)) : shift[i] = shift[j] => i = j
    BY <1>1 DEF Places
  <2>3. ASSUME NEW k \in rest
        PROVE  \E i \in Places(S, Tail(s)) : shift[i] = k
    <3>1. k - 1 \in Places(S, Tail(s)) /\ shift[k - 1] = k
      BY <1>1 DEF Places
    <3> QED BY <3>1
  <2> QED BY <2>1, <2>2, <2>3 DEF Bijection, Injection, Surjection, IsInjective
<1>5. Cardinality(rest) = Among(S, Tail(s))
  BY <1>2, <1>4, FS_Bijection DEF ExistsBijection, Among
<1>6. Cardinality(rest) = IF 1 \in Places(S, s) THEN Among(S, s) - 1 ELSE Among(S, s)
  BY <1>2, FS_RemoveElement DEF Among
<1>7. 1 \in Places(S, s) <=> Head(s) \in S
  BY <1>1 DEF Places
<1> QED BY <1>3, <1>5, <1>6, <1>7

-----------------------------------------------------------------------------
(* Types.                                                                  *)

LEMMA Names ==
    /\ \A h \in {"idle", "scan", "open", "save", "reply", "called", "wait",
                  "ok", "failed", "killed"} : h \in Hosts
    /\ \A n \in {"none", "js", "await", "pouring", "exit0", "exit1", "dead"} : n \in Nodes
    /\ \A l \in {"log", "device", "set", "delete", "read", "write", "run", "huge",
                  "stamp", "result"} : l \in Lines
BY DEF Hosts, Over, Nodes, Lines, Calls

LEMMA MapTypes ==
    /\ Blank \in Maps
    /\ \A map \in Maps : /\ \A v \in Nat : [map EXCEPT !["mode"] = v] \in Maps
                        /\ \A v \in Nat : [map EXCEPT !["stamp"] = v] \in Maps
                        /\ map["stamp"] \in Nat
    /\ Execs \subseteq Nat
BY ExecsAssumption DEF Blank, Maps, StateKeys

LEMMA UnusedType == Unused \in ExecRecords
<1>1. <<>> \in Seq(Calls) /\ <<>> \in Seq(Lines) /\ <<>> \in Seq({"ok", "error"})
  BY EmptySeq
<1> QED BY <1>1, Names, MapTypes DEF Unused, ExecRecords, StateOps

LEMMA StartedType ==
    ASSUME TypeOK, NEW e \in Execs, NEW caller \in Execs \cup {0},
           NEW program \in Programs[e]
    PROVE  Started(e, caller, program) \in ExecRecords
<1> DEFINE root == IF caller = 0 THEN e ELSE x[caller].root
           copy == IF Readable THEN Loaded ELSE Blank
           null == ~Readable
           blind == {a \in Execs : ~x[a].saved}
<1>1. program \in Seq(Calls)
  BY ProgramsAssumption
<1>2. root \in Execs \cup {0}
  BY DEF TypeOK, ExecRecords
<1>3. copy \in Maps
  BY MapTypes DEF TypeOK, Loaded
<1>4. now \in Nat /\ blind \in SUBSET Execs /\ null \in BOOLEAN
  BY DEF TypeOK, Readable
<1>5. Started(e, caller, program) =
         [Unused EXCEPT !.host = "scan", !.node = "js", !.caller = caller,
                        !.root = root, !.calls = program, !.at = now, !.copy = copy,
                        !.null = null, !.blind = blind]
  BY DEF Started
<1> HIDE DEF root, copy, null, blind
<1>6. "scan" \in Hosts /\ "js" \in Nodes
  BY Names
<1>7. [Unused EXCEPT !.host = "scan", !.node = "js", !.caller = caller,
                     !.root = root, !.calls = program, !.at = now, !.copy = copy,
                     !.null = null, !.blind = blind] \in ExecRecords
  BY <1>1, <1>2, <1>3, <1>4, <1>6, UnusedType DEF ExecRecords
<1> QED BY <1>5, <1>7

\* A line is taken from the output, a call from the program; a line is put
\* into the output.
LEMMA LineTypes ==
    ASSUME NEW r \in ExecRecords
    PROVE  /\ r.out # <<>> => /\ Head(r.out) \in Lines
                              /\ [r EXCEPT !.out = Tail(@)] \in ExecRecords
           /\ r.calls # <<>> => [r EXCEPT !.calls = Tail(@)] \in ExecRecords
           /\ \A line \in Lines : Emits(r, line) \in ExecRecords
           /\ \A line \in Lines : EmitsOp(r, line) \in ExecRecords
<1>1. r.out \in Seq(Lines) /\ r.calls \in Seq(Calls) /\ r.sent \in Nat
  BY DEF ExecRecords
<1>2. ASSUME r.out # <<>>
      PROVE  Head(r.out) \in Lines /\ [r EXCEPT !.out = Tail(@)] \in ExecRecords
  <2>1. Head(r.out) \in Lines /\ Tail(r.out) \in Seq(Lines)
    BY <1>1, <1>2, HeadTailProperties
  <2> QED BY <2>1 DEF ExecRecords
<1>3. ASSUME r.calls # <<>> PROVE [r EXCEPT !.calls = Tail(@)] \in ExecRecords
  <2>1. Tail(r.calls) \in Seq(Calls)
    BY <1>1, <1>3, HeadTailProperties
  <2> QED BY <2>1 DEF ExecRecords
<1>4. ASSUME NEW line \in Lines
      PROVE  Emits(r, line) \in ExecRecords /\ EmitsOp(r, line) \in ExecRecords
  <2>1. Append(r.out, line) \in Seq(Lines)
    BY <1>1, AppendProperties
  <2>2. Emits(r, line) \in ExecRecords
    BY <2>1 DEF Emits, ExecRecords
  <2>3. Emits(r, line).sent + 1 \in Nat
    BY <2>2 DEF ExecRecords
  <2>4. EmitsOp(r, line) \in ExecRecords
    BY <2>2, <2>3 DEF EmitsOp, ExecRecords
  <2> QED BY <2>2, <2>4
<1> QED BY <1>2, <1>3, <1>4

LEMMA BecomesTypes ==
    ASSUME TypeOK, NEW e \in Execs, NEW r \in ExecRecords, Becomes(e, r)
    PROVE  x' \in [Execs -> ExecRecords]
BY DEF TypeOK, Becomes

LEMMA EndedType ==
    ASSUME TypeOK, NEW e \in Execs, NEW outcome \in Over
    PROVE  Ended(e, outcome) \in ExecRecords
<1>1. x[e] \in ExecRecords /\ outcome \in Hosts /\ "none" \in Nodes
  BY Names DEF TypeOK, Over
<1>2. <<>> \in Seq(Calls) /\ <<>> \in Seq(Lines) /\ <<>> \in Seq({"ok", "error"})
  BY EmptySeq
<1> DEFINE r1 == [x[e] EXCEPT !.host = outcome, !.node = "none", !.calls = <<>>,
                              !.out = <<>>]
           r2 == [r1 EXCEPT !.inp = <<>>, !.pending = 0]
           r3 == [r2 EXCEPT !.copy = Blank, !.mem = Blank, !.op = "set", !.reply = "ok"]
<1>3. r1 \in ExecRecords
  BY <1>1, <1>2 DEF ExecRecords
<1>4. Ended(e, outcome) = r3
  BY DEF Ended
<1> HIDE DEF r1
<1>5. r2 \in ExecRecords
  <2>1. ASSUME NEW r \in ExecRecords, NEW inp \in Seq({"ok", "error"}), NEW n \in Int
        PROVE  [r EXCEPT !.inp = inp, !.pending = n] \in ExecRecords
    BY DEF ExecRecords
  <2>2. 0 \in Int
    OBVIOUS
  <2> QED BY <1>2, <1>3, <2>1, <2>2, Zenon
<1> HIDE DEF r2
<1>6. r3 \in ExecRecords
  BY <1>5, MapTypes DEF ExecRecords, StateOps
<1> QED BY <1>4, <1>6

LEMMA HostTypes ==
    ASSUME TypeOK, NEW e \in Execs, Host(e)
    PROVE  TypeOK'
<1> DEFINE r == x[e]
           t == Taken(e)
<1>1. r \in ExecRecords
  BY DEF TypeOK
<1>2. r.out # <<>> => Line(e) \in Lines /\ t \in ExecRecords
  BY <1>1, LineTypes DEF Line, Taken
<1>3. \A h \in Hosts : /\ [r EXCEPT !.host = h] \in ExecRecords
                       /\ t \in ExecRecords => [t EXCEPT !.host = h] \in ExecRecords
  BY <1>1 DEF ExecRecords
<1>4. ASSUME NEW reply \in {"ok", "error"}, r.out # <<>>
      PROVE  Reply(e, reply) \in ExecRecords
  BY <1>2, <1>4, Names DEF Reply, ExecRecords
<1>5. r.out # <<>> => OpError(e) \in ExecRecords
  BY <1>2, <1>3, Names DEF OpError
<1> HIDE DEF t
<1>6. CASE ScanLine(e)
  BY <1>2, <1>6, BecomesTypes DEF ScanLine, NextLine, TypeOK, t
<1>7. CASE ScanFails(e)
  BY <1>2, <1>3, <1>7, Names, BecomesTypes DEF ScanFails, NextLine, TypeOK, t
<1>8. CASE DeviceOp(e)
  <2>1. r.out # <<>>
    BY <1>8 DEF DeviceOp, NextLine
  <2>2. t.done + 1 \in Nat
    BY <1>2, <2>1 DEF ExecRecords
  <2>3. [t EXCEPT !.done = t.done + 1] \in ExecRecords
    BY <1>2, <2>1, <2>2 DEF ExecRecords
  <2> QED BY <1>5, <1>8, <2>1, <2>3, BecomesTypes DEF DeviceOp, TypeOK, t
<1>9. CASE StateOp(e)
  <2>1. PICK op \in StateOps :
           /\ NextLine(e, op)
           /\ Becomes(e, IF Readable
                         THEN [t EXCEPT !.host = "open", !.op = op,
                                        !.mem = Loaded, !.stale = FALSE]
                         ELSE OpError(e))
    BY <1>9 DEF StateOp, t
  <2>2. r.out # <<>>
    BY <2>1 DEF NextLine
  <2>3. Loaded \in Maps
    BY MapTypes DEF TypeOK, Loaded
  <2>4. [t EXCEPT !.host = "open", !.op = op, !.mem = Loaded, !.stale = FALSE]
           \in ExecRecords
    BY <1>2, <2>2, <2>3, Names DEF ExecRecords
  <2>5. x' \in [Execs -> ExecRecords]
    BY <1>5, <2>1, <2>2, <2>4, BecomesTypes
  <2>6. mishap' \subseteq {"stale", "misread", "late"}
    BY <1>9 DEF StateOp, Misread, TypeOK
  <2> QED BY <1>9, <2>5, <2>6 DEF StateOp, TypeOK
<1>10. CASE OpenState(e)
  <2>1. x' \in [Execs -> ExecRecords]
    BY <1>3, <1>10, Names, BecomesTypes DEF OpenState
  <2>2. disk' \in [state : {"ok", "empty", "garbled"}, map : Maps]
    BY <1>10, MapTypes DEF OpenState, TypeOK
  <2> QED BY <1>10, <2>1, <2>2 DEF OpenState, TypeOK
<1>11. CASE SaveState(e)
  <2>1. \A map \in Maps : Applied(e, map) \in Maps
    BY <1>1, MapTypes DEF Applied, ExecRecords, StateOps
  <2>2. newest' \in Maps /\ SavedMap(e) \in Maps
    BY <1>1, <1>11, <2>1 DEF SaveState, SavedMap, ExecRecords, TypeOK
  <2>3. disk' \in [state : {"ok", "empty", "garbled"}, map : Maps]
    BY <1>11, <2>2, MapTypes DEF SaveState
  <2>4. mishap' \subseteq {"stale", "misread", "late"}
    BY <1>11 DEF SaveState, Mishaps, TypeOK
  <2>5. ASSUME NEW a \in Execs, a # e
        PROVE  x'[a] \in ExecRecords
    <3>1. ASSUME NEW s \in ExecRecords, NEW b \in BOOLEAN
          PROVE  [s EXCEPT !.stale = b] \in ExecRecords
      BY DEF ExecRecords
    <3>2. (x[a].stale \/ x[a].host \in {"open", "save"}) \in BOOLEAN
      OBVIOUS
    <3> QED BY <1>11, <2>5, <3>1, <3>2 DEF SaveState, TypeOK
  <2>6. x'[e] \in ExecRecords
    <3>1. ASSUME NEW n \in Nat, NEW b \in BOOLEAN
          PROVE  [r EXCEPT !.host = "scan", !.mem = Blank, !.done = n, !.saved = b]
                    \in ExecRecords
      BY <1>1, Names, MapTypes DEF ExecRecords
    <3>2. r.done + 1 \in Nat /\ (r.saved \/ r.op = "stamp") \in BOOLEAN
      BY <1>1 DEF ExecRecords
    <3> QED BY <1>11, <3>1, <3>2 DEF SaveState
  <2>7. x' \in [Execs -> ExecRecords]
    BY <1>11, <2>5, <2>6 DEF SaveState
  <2> QED BY <1>11, <2>2, <2>3, <2>4, <2>7 DEF SaveState, TypeOK
<1>12. CASE Request(e) \/ WriteRequest(e)
  <2>1. UNCHANGED <<disk, newest, mishap, now, kills, expired>>
    BY <1>12 DEF Request, WriteRequest
  <2>2. \E reply \in {"ok", "error"} : r.out # <<>> /\ Becomes(e, Reply(e, reply))
    BY <1>12 DEF Request, WriteRequest, NextLine
  <2> QED BY <1>4, <2>1, <2>2, BecomesTypes DEF TypeOK
<1>13. CASE RunScript(e)
  <2>1. r.out # <<>>
    BY <1>13 DEF RunScript, NextLine
  <2>2. CASE Becomes(e, Reply(e, "error")) /\ UNCHANGED mishap
    BY <1>4, <1>13, <2>1, <2>2, BecomesTypes DEF RunScript, TypeOK
  <2>3. ASSUME NEW c \in Execs, NEW program \in Programs[c],
               x' = [x EXCEPT ![e] = [Taken(e) EXCEPT !.host = "called"],
                              ![c] = Started(c, e, program)],
               mishap' = mishap \cup Misread
        PROVE  TypeOK'
    <3>1. [Taken(e) EXCEPT !.host = "called"] \in ExecRecords
      BY <1>2, <1>3, <2>1, Names DEF t
    <3>2. Started(c, e, program) \in ExecRecords
      BY StartedType
    <3>3. x' \in [Execs -> ExecRecords]
      BY <2>3, <3>1, <3>2 DEF TypeOK
    <3> QED BY <1>13, <2>3, <3>3 DEF RunScript, Misread, TypeOK
  <2> QED BY <1>13, <2>2, <2>3 DEF RunScript
<1>14. CASE ScriptReturns(e)
  <2>1. PICK c \in Execs :
           x' = [x EXCEPT ![e] = Answered(e, c), ![c] = [@ EXCEPT !.caller = 0]]
    BY <1>14 DEF ScriptReturns
  <2>2. Answered(e, c) \in ExecRecords
    BY <1>1, Names DEF Answered, ExecRecords
  <2>3. \A s \in ExecRecords : [s EXCEPT !.caller = 0] \in ExecRecords
    BY DEF ExecRecords
  <2>4. x' \in [Execs -> ExecRecords]
    BY <2>1, <2>2, <2>3 DEF TypeOK
  <2> QED BY <1>14, <2>4 DEF ScriptReturns, TypeOK
<1>15. CASE WriteReply(e)
  <2>1. Append(r.inp, r.reply) \in Seq({"ok", "error"})
    BY <1>1, AppendProperties DEF ExecRecords
  <2>2. [r EXCEPT !.host = "scan", !.inp = Append(@, r.reply)] \in ExecRecords
    BY <1>1, <2>1, Names DEF ExecRecords
  <2> QED BY <1>3, <1>15, <2>2, Names, BecomesTypes DEF WriteReply, TypeOK
<1>16. CASE Wait(e)
  <2>1. \E outcome \in Over : Becomes(e, Ended(e, outcome))
    BY <1>16 DEF Wait, Over
  <2> QED BY <1>16, <2>1, EndedType, BecomesTypes DEF Wait, TypeOK
<1> QED BY <1>6, <1>7, <1>8, <1>9, <1>10, <1>11, <1>12, <1>13, <1>14, <1>15, <1>16
        DEF Host

LEMMA NodeTypes ==
    ASSUME TypeOK, NEW e \in Execs, Node(e)
    PROVE  TypeOK'
<1> DEFINE r == x[e]
           c == Called(e)
<1>1. r \in ExecRecords
  BY DEF TypeOK
<1>2. r.calls # <<>> => c \in ExecRecords
  BY <1>1, LineTypes DEF Called
<1>3. UNCHANGED <<disk, newest, mishap, now, kills, expired>>
  BY DEF Node, Log, CallDevice, CallState, Guard, CallRequest, Await, Answer,
         InputEnds, CallHuge, Throw, Finish, NodeDies
<1>4. ASSUME NEW q \in ExecRecords, Becomes(e, q) PROVE TypeOK'
  BY <1>3, <1>4, BecomesTypes DEF TypeOK
<1>5. \A q \in ExecRecords, n \in Nodes : [q EXCEPT !.node = n] \in ExecRecords
  BY DEF ExecRecords
<1> HIDE DEF c
<1>6. CASE Log(e) \/ CallDevice(e)
  BY <1>2, <1>4, <1>6, LineTypes, Names DEF Log, CallDevice, NextCall, c
<1>7. CASE CallState(e)
  <2>1. PICK call \in {"set", "delete"} :
           /\ NextCall(e, call)
           /\ Becomes(e, [EmitsOp(c, call) EXCEPT
                            !.copy["mode"] = IF call = "set" THEN e ELSE 0])
    BY <1>7 DEF CallState, c
  <2>2. EmitsOp(c, call) \in ExecRecords
    BY <1>2, <2>1, LineTypes, Names DEF NextCall
  <2>3. \A q \in ExecRecords, v \in Nat : [q EXCEPT !.copy["mode"] = v] \in ExecRecords
    BY MapTypes DEF ExecRecords
  <2>4. (IF call = "set" THEN e ELSE 0) \in Nat
    BY MapTypes
  <2> QED BY <1>4, <2>1, <2>2, <2>3, <2>4
<1>8. CASE Guard(e)
  <2>1. EmitsOp(c, "stamp") \in ExecRecords
    BY <1>2, <1>8, LineTypes, Names DEF Guard, NextCall
  <2>2. ASSUME NEW q \in ExecRecords, NEW v \in Nat
        PROVE  [q EXCEPT !.copy["stamp"] = v, !.passed = TRUE] \in ExecRecords
    BY MapTypes DEF ExecRecords
  <2>3. r.at \in Nat /\ [r EXCEPT !.calls = <<>>] \in ExecRecords
    BY <1>1, EmptySeq DEF ExecRecords
  <2> QED BY <1>4, <1>8, <2>1, <2>2, <2>3 DEF Guard, c
<1>9. CASE CallRequest(e)
  <2>1. PICK call \in {"read", "write", "run"} :
           NextCall(e, call) /\ Becomes(e, [Emits(c, call) EXCEPT !.pending = @ + 1])
    BY <1>9 DEF CallRequest, c
  <2>2. Emits(c, call) \in ExecRecords
    BY <1>2, <2>1, LineTypes, Names DEF NextCall
  <2>3. ASSUME NEW q \in ExecRecords
        PROVE  [q EXCEPT !.pending = @ + 1] \in ExecRecords
    <3>1. q.pending + 1 \in Int
      BY DEF ExecRecords
    <3> QED BY <3>1 DEF ExecRecords
  <2> QED BY <1>4, <2>1, <2>2, <2>3
<1>10. CASE Await(e)
  BY <1>2, <1>4, <1>5, <1>10, Names DEF Await, NextCall, c
<1>11. CASE Answer(e)
  <2>1. Tail(r.inp) \in Seq({"ok", "error"}) /\ r.pending - 1 \in Int
    BY <1>1, <1>11, HeadTailProperties DEF Answer, ExecRecords
  <2>2. ASSUME NEW n \in Nodes
        PROVE  [r EXCEPT !.inp = Tail(@), !.pending = @ - 1, !.node = n] \in ExecRecords
    BY <1>1, <2>1 DEF ExecRecords
  <2>3. \E n \in Nodes :
           Becomes(e, [r EXCEPT !.inp = Tail(@), !.pending = @ - 1, !.node = n])
    BY <1>11, Names DEF Answer
  <2> QED BY <1>4, <2>2, <2>3
<1>12. CASE CallHuge(e)
  BY <1>2, <1>4, <1>5, <1>12, LineTypes, Names DEF CallHuge, NextCall, c
<1>13. CASE InputEnds(e) \/ Throw(e) \/ NodeDies(e)
  BY <1>1, <1>4, <1>5, <1>13, Names DEF InputEnds, Throw, NodeDies
<1>14. CASE Finish(e)
  BY <1>1, <1>4, <1>5, <1>14, LineTypes, Names DEF Finish
<1> QED BY <1>6, <1>7, <1>8, <1>9, <1>10, <1>11, <1>12, <1>13, <1>14 DEF Node

\* Whatever scripts are run, every execution keeps its shape.
THEOREM TypeCorrect == Spec => []TypeOK
<1>1. Init => TypeOK
  BY UnusedType, MapTypes DEF Init, TypeOK
<1>2. TypeOK /\ [Next]_vars => TypeOK'
  <2> SUFFICES ASSUME TypeOK, [Next]_vars
               PROVE  TypeOK'
    OBVIOUS
  <2>1. ASSUME NEW e \in Execs, NEW program \in Programs[e], Start(e, program)
        PROVE  TypeOK'
    <3>1. Started(e, 0, program) \in ExecRecords
      BY StartedType
    <3>2. x' \in [Execs -> ExecRecords]
      BY <2>1, <3>1, BecomesTypes DEF Start
    <3> QED BY <2>1, <3>2 DEF Start, Misread, TypeOK
  <2>2. ASSUME NEW e \in Execs, Expire(e)
        PROVE  TypeOK'
    BY <2>2 DEF Expire, TypeOK
  <2>3. ASSUME NEW e \in Execs, Kill(e)
        PROVE  TypeOK'
    <3>1. \A a \in Execs : Ended(a, "killed") \in ExecRecords
      BY EndedType DEF Over
    <3>2. x' \in [Execs -> ExecRecords]
      BY <2>3, <3>1 DEF Kill, TypeOK
    <3> QED BY <2>3, <3>2 DEF Kill, TypeOK
  <2>4. CASE Tick
    BY <2>4 DEF Tick, TypeOK
  <2>5. CASE UNCHANGED vars
    BY <2>5 DEF vars, TypeOK
  <2> QED BY <2>1, <2>2, <2>3, <2>4, <2>5, HostTypes, NodeTypes DEF Next
<1> QED BY <1>1, <1>2, PTL DEF Spec

-----------------------------------------------------------------------------
(* What is under way.  An operation the script was told "ok" about is      *)
(* performed, or in the hand of the host, or still a line of the output,   *)
(* as long as the host has not given up; a request the script waits for is *)
(* a line of the output, or with the host, or an answer on its way back.   *)

Ops == StateOps \cup {"device"}
Requests == {"read", "write", "run"}

OpsCounted(r) ==
    r.host \notin {"wait", "failed", "killed"} =>
        r.sent = r.done + Among(Ops, r.out) + (IF r.host \in {"open", "save"} THEN 1 ELSE 0)

RequestsCounted(r) ==
    r.node \in {"js", "await", "pouring"} =>
        r.pending = Among(Requests, r.out) + Len(r.inp)
                        + (IF r.host \in {"reply", "called"} THEN 1 ELSE 0)

AwaitsAnswer(r) == r.node = "await" => r.pending > 0

\* An execution has a script as long as it runs, and has read all of its
\* output when it succeeds.
Settled(r) ==
    /\ r.host = "ok" => r.out = <<>>
    /\ r.node = "none" <=> r.host \in {"idle", "ok", "failed", "killed"}

Balanced(r) ==
    /\ OpsCounted(r)
    /\ RequestsCounted(r)
    /\ AwaitsAnswer(r)
    /\ Settled(r)

AllBalanced == \A e \in Execs : Balanced(x[e])

LEMMA RecordCounts ==
    ASSUME NEW r \in ExecRecords
    PROVE  /\ Among(Ops, r.out) \in Nat
           /\ Among(Requests, r.out) \in Nat
           /\ Len(r.inp) \in Nat
           /\ r.sent \in Nat /\ r.done \in Nat /\ r.pending \in Int
<1>1. r.out \in Seq(Lines) /\ r.inp \in Seq({"ok", "error"})
  BY DEF ExecRecords
<1>2. Among(Ops, r.out) \in Nat /\ Among(Requests, r.out) \in Nat
  BY <1>1, PlacesFinite
<1>3. Len(r.inp) \in Nat
  BY <1>1, LenProperties
<1> QED BY <1>2, <1>3 DEF ExecRecords

LEMMA BecomesBalanced ==
    ASSUME TypeOK, AllBalanced, NEW e \in Execs, NEW r, Balanced(r), Becomes(e, r)
    PROVE  AllBalanced'
BY DEF TypeOK, AllBalanced, Becomes

LEMMA FreshBalanced ==
    /\ Balanced(Unused)
    /\ \A e \in Execs, caller \in Execs \cup {0} : \A program \in Programs[e] :
          Balanced(Started(e, caller, program))
<1>1. Among(Ops, <<>>) = 0 /\ Among(Requests, <<>>) = 0 /\ Len(<<>>) = 0
  BY AmongNothing
<1> QED BY <1>1 DEF Started, Unused, Balanced, OpsCounted, RequestsCounted, AwaitsAnswer,
                   Settled

\* The output ended and the host was content, or it does not matter.
LEMMA EndedBalanced ==
    ASSUME TypeOK, AllBalanced, NEW e \in Execs, NEW outcome \in Over,
           outcome = "ok" => HostAt(e, "scan") /\ x[e].out = <<>>
    PROVE  Balanced(Ended(e, outcome))
<1>1. x[e] \in ExecRecords /\ Balanced(x[e])
  BY DEF TypeOK, AllBalanced
<1>2. Among(Ops, <<>>) = 0
  BY AmongNothing
<1>3. /\ Ended(e, outcome).host = outcome /\ Ended(e, outcome).node = "none"
      /\ Ended(e, outcome).out = <<>>
      /\ Ended(e, outcome).sent = x[e].sent /\ Ended(e, outcome).done = x[e].done
  BY <1>1 DEF Ended, ExecRecords
<1> QED BY <1>1, <1>2, <1>3, RecordCounts
        DEF Balanced, OpsCounted, RequestsCounted, AwaitsAnswer, Settled, HostAt, Over

\* The host takes the next line, which is an operation, a request or neither.
LEMMA TakenCounts ==
    ASSUME NEW r \in ExecRecords, r.out # <<>>
    PROVE  LET t == [r EXCEPT !.out = Tail(@)] IN
           /\ Among(Ops, r.out) = Among(Ops, t.out) + (IF Head(r.out) \in Ops THEN 1 ELSE 0)
           /\ Among(Requests, r.out) =
                 Among(Requests, t.out) + (IF Head(r.out) \in Requests THEN 1 ELSE 0)
           /\ t \in ExecRecords
           /\ t.host = r.host /\ t.node = r.node /\ t.inp = r.inp
           /\ t.pending = r.pending /\ t.sent = r.sent /\ t.done = r.done
<1>1. r.out \in Seq(Lines) /\ [r EXCEPT !.out = Tail(@)].out = Tail(r.out)
  BY DEF ExecRecords
<1>2. [r EXCEPT !.out = Tail(@)] \in ExecRecords
  BY LineTypes
<1> QED BY <1>1, <1>2, AmongTail DEF ExecRecords

\* The script puts a line into the output.
LEMMA EmitsCounts ==
    ASSUME NEW r \in ExecRecords, NEW line \in Lines
    PROVE  /\ Among(Ops, Emits(r, line).out) =
                 Among(Ops, r.out) + (IF line \in Ops THEN 1 ELSE 0)
           /\ Among(Requests, Emits(r, line).out) =
                 Among(Requests, r.out) + (IF line \in Requests THEN 1 ELSE 0)
           /\ Emits(r, line) \in ExecRecords
           /\ Emits(r, line).host = r.host /\ Emits(r, line).node = r.node
           /\ Emits(r, line).inp = r.inp /\ Emits(r, line).pending = r.pending
           /\ Emits(r, line).sent = r.sent /\ Emits(r, line).done = r.done
           /\ LET o == EmitsOp(r, line) IN
              /\ o \in ExecRecords
              /\ o.host = r.host /\ o.node = r.node
              /\ o.out = Emits(r, line).out /\ o.inp = r.inp
              /\ o.pending = r.pending /\ o.sent = r.sent + 1 /\ o.done = r.done
<1>1. r.out \in Seq(Lines) /\ Emits(r, line).out = Append(r.out, line)
  BY DEF ExecRecords, Emits
<1>2. Emits(r, line) \in ExecRecords
  BY LineTypes
<1>3. /\ Among(Ops, Append(r.out, line)) = Among(Ops, r.out) + (IF line \in Ops THEN 1 ELSE 0)
      /\ Among(Requests, Append(r.out, line)) =
            Among(Requests, r.out) + (IF line \in Requests THEN 1 ELSE 0)
  BY <1>1, AmongAppend
<1>4. /\ Emits(r, line).host = r.host /\ Emits(r, line).node = r.node
      /\ Emits(r, line).inp = r.inp /\ Emits(r, line).pending = r.pending
      /\ Emits(r, line).sent = r.sent /\ Emits(r, line).done = r.done
  BY DEF ExecRecords, Emits
<1>5. EmitsOp(r, line) \in ExecRecords
  BY LineTypes
<1>6. EmitsOp(r, line) = [Emits(r, line) EXCEPT !.sent = r.sent + 1]
  BY <1>4 DEF EmitsOp
<1>7. LET o == EmitsOp(r, line) IN
      /\ o.host = r.host /\ o.node = r.node
      /\ o.out = Emits(r, line).out /\ o.inp = r.inp
      /\ o.pending = r.pending /\ o.sent = r.sent + 1 /\ o.done = r.done
  <2> DEFINE p == Emits(r, line)
  <2>1. /\ p \in ExecRecords
        /\ p.host = r.host /\ p.node = r.node /\ p.inp = r.inp
        /\ p.pending = r.pending /\ p.done = r.done
        /\ EmitsOp(r, line) = [p EXCEPT !.sent = r.sent + 1]
    BY <1>2, <1>4, <1>6
  <2> HIDE DEF p
  <2>2. LET o == EmitsOp(r, line) IN
        /\ o.host = p.host /\ o.node = p.node /\ o.out = p.out /\ o.inp = p.inp
        /\ o.pending = p.pending /\ o.sent = r.sent + 1 /\ o.done = p.done
    BY <2>1 DEF ExecRecords
  <2> QED BY <2>1, <2>2 DEF p
<1> QED BY <1>1, <1>2, <1>3, <1>4, <1>5, <1>7

\* An operation is performed, or in the hand of the host, or given up.
LEMMA OpTaken ==
    ASSUME NEW r \in ExecRecords, Balanced(r), r.host = "scan", r.out # <<>>,
           Head(r.out) \in Ops, NEW q,
           q.node = r.node, q.out = Tail(r.out), q.inp = r.inp,
           q.pending = r.pending, q.sent = r.sent,
           \/ q.host = "wait"
           \/ q.host = "open" /\ q.done = r.done
           \/ q.host = "scan" /\ q.done = r.done + 1
    PROVE  Balanced(q)
<1>1. r.out \in Seq(Lines) /\ Tail(r.out) \in Seq(Lines)
  BY HeadTailProperties DEF ExecRecords
<1>2. Head(r.out) \notin Requests
  BY DEF Ops, Requests, StateOps
<1>3. Among(Ops, r.out) = Among(Ops, q.out) + 1
  BY <1>1, AmongTail
<1>4. Among(Requests, r.out) = Among(Requests, q.out) + 0
  BY <1>1, <1>2, AmongTail
<1>5. /\ r.sent \in Nat /\ r.done \in Nat
      /\ Among(Ops, q.out) \in Nat /\ Among(Requests, q.out) \in Nat
  BY <1>1, PlacesFinite DEF ExecRecords
<1>6. r.sent = r.done + Among(Ops, r.out)
  BY <1>3, <1>5 DEF Balanced, OpsCounted
<1>7. OpsCounted(q)
  BY <1>3, <1>5, <1>6 DEF OpsCounted
<1>8. RequestsCounted(q)
  BY <1>4, <1>5 DEF Balanced, RequestsCounted
<1> QED BY <1>7, <1>8 DEF Balanced, AwaitsAnswer, Settled

\* A request is with the host: its answer, or the script that it runs.
LEMMA RequestTaken ==
    ASSUME NEW r \in ExecRecords, Balanced(r), r.host = "scan", r.out # <<>>,
           Head(r.out) \in Requests, NEW q,
           q.node = r.node, q.out = Tail(r.out), q.inp = r.inp,
           q.pending = r.pending, q.sent = r.sent, q.done = r.done,
           q.host \in {"reply", "called"}
    PROVE  Balanced(q)
<1>1. r.out \in Seq(Lines) /\ Tail(r.out) \in Seq(Lines)
  BY HeadTailProperties DEF ExecRecords
<1>2. Head(r.out) \notin Ops
  BY DEF Ops, Requests, StateOps
<1>3. Among(Ops, r.out) = Among(Ops, q.out) + 0
  BY <1>1, <1>2, AmongTail
<1>4. Among(Requests, r.out) = Among(Requests, q.out) + 1
  BY <1>1, AmongTail
<1>5. /\ r.sent \in Nat /\ r.done \in Nat /\ Len(r.inp) \in Nat
      /\ Among(Ops, q.out) \in Nat /\ Among(Requests, q.out) \in Nat
  BY <1>1, PlacesFinite, RecordCounts DEF ExecRecords
<1>6. OpsCounted(q)
  BY <1>3, <1>5 DEF Balanced, OpsCounted
<1>7. RequestsCounted(q)
  BY <1>4, <1>5 DEF Balanced, RequestsCounted
<1> QED BY <1>6, <1>7 DEF Balanced, AwaitsAnswer, Settled

LEMMA HostBalanced ==
    ASSUME TypeOK, AllBalanced, NEW e \in Execs, Host(e)
    PROVE  AllBalanced'
<1> DEFINE r == x[e]
           t == Taken(e)
<1>1. r \in ExecRecords /\ Balanced(r)
  BY DEF TypeOK, AllBalanced
<1>2. ASSUME r.out # <<>>
      PROVE  /\ Among(Ops, r.out) = Among(Ops, t.out) + (IF Line(e) \in Ops THEN 1 ELSE 0)
             /\ Among(Requests, r.out) =
                   Among(Requests, t.out) + (IF Line(e) \in Requests THEN 1 ELSE 0)
             /\ t \in ExecRecords
             /\ t.host = r.host /\ t.node = r.node /\ t.inp = r.inp
             /\ t.pending = r.pending /\ t.sent = r.sent /\ t.done = r.done
  BY <1>1, <1>2, TakenCounts DEF Line, Taken
<1>3. /\ Among(Ops, r.out) \in Nat /\ Among(Requests, r.out) \in Nat /\ Len(r.inp) \in Nat
      /\ r.sent \in Nat /\ r.done \in Nat /\ r.pending \in Int
  BY <1>1, RecordCounts
<1>4. ASSUME r.out # <<>>
      PROVE  Among(Ops, t.out) \in Nat /\ Among(Requests, t.out) \in Nat
  BY <1>2, <1>4, RecordCounts
<1>5. t.out = Tail(r.out)
  BY <1>1 DEF Taken, ExecRecords
<1> HIDE DEF t
<1>o. ASSUME HostAt(e, "scan"), r.out # <<>>, Line(e) \in Ops, NEW q,
             q.node = t.node, q.out = t.out, q.inp = t.inp,
             q.pending = t.pending, q.sent = t.sent,
             \/ q.host = "wait"
             \/ q.host = "open" /\ q.done = t.done
             \/ q.host = "scan" /\ q.done = t.done + 1,
             Becomes(e, q)
      PROVE  AllBalanced'
  <2>1. Balanced(q)
    BY <1>1, <1>2, <1>5, <1>o, OpTaken DEF HostAt, Line
  <2> QED BY <1>o, <2>1, BecomesBalanced
<1>r. ASSUME HostAt(e, "scan"), r.out # <<>>, Line(e) \in Requests, NEW q,
             q.node = t.node, q.out = t.out, q.inp = t.inp,
             q.pending = t.pending, q.sent = t.sent, q.done = t.done,
             q.host \in {"reply", "called"}
      PROVE  Balanced(q)
  BY <1>1, <1>2, <1>5, <1>r, RequestTaken DEF HostAt, Line
<1>6. ASSUME HostAt(e, "scan"), r.out # <<>>, Line(e) \in Requests, NEW reply
      PROVE  Balanced(Reply(e, reply)) /\ Balanced([t EXCEPT !.host = "called"])
  <2>1. Balanced([t EXCEPT !.host = "reply", !.reply = reply])
    BY <1>r, <1>2, <1>6 DEF ExecRecords
  <2>2. Balanced([t EXCEPT !.host = "called"])
    BY <1>r, <1>2, <1>6 DEF ExecRecords
  <2> QED BY <2>1, <2>2 DEF Reply, t
<1> USE DEF Balanced, OpsCounted, RequestsCounted, AwaitsAnswer, Settled
<1>7. CASE ScanLine(e)
  <2>1. Balanced(t)
    BY <1>1, <1>2, <1>3, <1>4, <1>7 DEF ScanLine, NextLine, HostAt, Ops, Requests, StateOps
  <2> QED BY <1>7, <2>1, BecomesBalanced DEF ScanLine, t
<1>8. CASE ScanFails(e)
  <2>1. Balanced([t EXCEPT !.host = "wait"])
    BY <1>1, <1>2, <1>3, <1>4, <1>8
       DEF ScanFails, NextLine, HostAt, ExecRecords, Ops, Requests, StateOps
  <2> QED BY <1>8, <2>1, BecomesBalanced DEF ScanFails, t
<1>9. CASE DeviceOp(e)
  <2>1. HostAt(e, "scan") /\ r.out # <<>> /\ Line(e) \in Ops
    BY <1>9 DEF DeviceOp, NextLine, Ops
  <2>2. CASE Becomes(e, [t EXCEPT !.host = "wait"])
    BY <1>o, <1>2, <2>1, <2>2 DEF ExecRecords
  <2>3. CASE Becomes(e, [t EXCEPT !.done = @ + 1])
    <3> DEFINE q == [t EXCEPT !.done = @ + 1]
    <3>1. /\ q.host = "scan" /\ q.node = t.node /\ q.out = t.out /\ q.inp = t.inp
          /\ q.pending = t.pending /\ q.sent = t.sent /\ q.done = t.done + 1
      BY <1>2, <2>1 DEF ExecRecords, HostAt
    <3> QED BY <1>o, <2>1, <2>3, <3>1
  <2> QED BY <1>9, <2>2, <2>3 DEF DeviceOp, OpError, t
<1>10. CASE StateOp(e)
  <2>1. PICK op \in StateOps :
           /\ NextLine(e, op)
           /\ Becomes(e, IF Readable
                         THEN [t EXCEPT !.host = "open", !.op = op,
                                        !.mem = Loaded, !.stale = FALSE]
                         ELSE [t EXCEPT !.host = "wait"])
    BY <1>10 DEF StateOp, OpError, t
  <2>2. HostAt(e, "scan") /\ r.out # <<>> /\ Line(e) \in Ops
    BY <2>1 DEF NextLine, Ops
  <2>3. CASE Becomes(e, [t EXCEPT !.host = "wait"])
    BY <1>o, <1>2, <2>2, <2>3 DEF ExecRecords
  <2>4. CASE Becomes(e, [t EXCEPT !.host = "open", !.op = op, !.mem = Loaded, !.stale = FALSE])
    <3> DEFINE q == [t EXCEPT !.host = "open", !.op = op, !.mem = Loaded, !.stale = FALSE]
    <3>1. /\ q.host = "open" /\ q.node = t.node /\ q.out = t.out /\ q.inp = t.inp
          /\ q.pending = t.pending /\ q.sent = t.sent /\ q.done = t.done
      BY <1>2, <2>2 DEF ExecRecords
    <3> QED BY <1>o, <2>2, <2>4, <3>1
  <2> QED BY <2>1, <2>3, <2>4
<1>11. CASE OpenState(e)
  <2>1. Balanced([r EXCEPT !.host = "save"])
    BY <1>1, <1>11 DEF OpenState, HostAt, ExecRecords
  <2> QED BY <1>11, <2>1, BecomesBalanced DEF OpenState
<1>12. CASE SaveState(e)
  <2>1. ASSUME NEW a \in Execs, a # e
        PROVE  Balanced(x'[a])
    <3>1. x[a] \in ExecRecords /\ Balanced(x[a])
      BY DEF TypeOK, AllBalanced
    <3>2. \A b : Balanced([x[a] EXCEPT !.stale = b])
      BY <3>1 DEF ExecRecords
    <3>3. \E b : x'[a] = [x[a] EXCEPT !.stale = b]
      BY <1>12, <2>1 DEF SaveState
    <3> HIDE DEF Balanced
    <3> QED BY <3>2, <3>3
  <2>2. Balanced(x'[e])
    <3>1. x'[e] = [r EXCEPT !.host = "scan", !.mem = Blank, !.done = @ + 1,
                            !.saved = @ \/ r.op = "stamp"]
      BY <1>12 DEF SaveState
    <3>2. /\ x'[e].host = "scan" /\ x'[e].done = r.done + 1 /\ x'[e].sent = r.sent
          /\ x'[e].out = r.out /\ x'[e].inp = r.inp /\ x'[e].node = r.node
          /\ x'[e].pending = r.pending
      BY <1>1, <3>1 DEF ExecRecords
    <3>3. r.host = "save"
      BY <1>12 DEF SaveState, HostAt
    <3> QED BY <1>1, <1>3, <3>2, <3>3
  <2> QED BY <2>1, <2>2 DEF AllBalanced
<1>13. CASE Request(e) \/ WriteRequest(e)
  <2>1. HostAt(e, "scan") /\ r.out # <<>> /\ Line(e) \in Requests
    BY <1>13 DEF Request, WriteRequest, NextLine, Requests
  <2> QED BY <1>6, <1>13, <2>1, BecomesBalanced DEF Request, WriteRequest
<1>14. CASE RunScript(e)
  <2>1. HostAt(e, "scan") /\ r.out # <<>> /\ Line(e) \in Requests
    BY <1>14 DEF RunScript, NextLine, Requests
  <2>2. CASE Becomes(e, Reply(e, "error"))
    BY <1>6, <2>1, <2>2, BecomesBalanced
  <2>3. ASSUME NEW c \in Execs, HostAt(c, "idle"), NEW program \in Programs[c],
               x' = [x EXCEPT ![e] = [t EXCEPT !.host = "called"],
                              ![c] = Started(c, e, program)]
        PROVE  AllBalanced'
    <3>1. Balanced([t EXCEPT !.host = "called"])
      BY <1>6, <2>1
    <3>2. Balanced(Started(c, e, program))
      BY FreshBalanced
    <3> QED BY <2>3, <3>1, <3>2 DEF AllBalanced, TypeOK
  <2> QED BY <1>14, <2>2, <2>3 DEF RunScript, t
<1>15. CASE ScriptReturns(e)
  <2>1. PICK c \in Execs :
           x' = [x EXCEPT ![e] = Answered(e, c), ![c] = [@ EXCEPT !.caller = 0]]
    BY <1>15 DEF ScriptReturns
  <2>2. r.host = "called"
    BY <1>15 DEF ScriptReturns, HostAt
  <2>3. Balanced(Answered(e, c)) /\ Answered(e, c) \in ExecRecords
    BY <1>1, <2>2, Names DEF Answered, ExecRecords
  <2>4. ASSUME NEW s \in ExecRecords, Balanced(s)
        PROVE  Balanced([s EXCEPT !.caller = 0])
    BY <2>4 DEF ExecRecords
  <2>5. \A a \in Execs : x[a] \in ExecRecords /\ Balanced(x[a])
    BY DEF TypeOK, AllBalanced
  <2> HIDE DEF Balanced
  <2> QED BY <2>1, <2>3, <2>4, <2>5 DEF AllBalanced, TypeOK
<1>16. CASE WriteReply(e)
  <2>1. r.host = "reply"
    BY <1>16 DEF WriteReply, HostAt
  <2>2. CASE NodeGone(e) /\ Becomes(e, [r EXCEPT !.host = "scan"])
    <3>1. Balanced([r EXCEPT !.host = "scan"])
      BY <1>1, <2>1, <2>2 DEF NodeGone, ExecRecords
    <3> QED BY <2>2, <3>1, BecomesBalanced
  <2>3. CASE Becomes(e, [r EXCEPT !.host = "scan", !.inp = Append(@, r.reply)])
    <3>1. Len(Append(r.inp, r.reply)) = Len(r.inp) + 1
      BY <1>1, AppendProperties DEF ExecRecords
    <3>2. Balanced([r EXCEPT !.host = "scan", !.inp = Append(@, r.reply)])
      BY <1>1, <1>3, <2>1, <3>1 DEF ExecRecords
    <3> QED BY <2>3, <3>2, BecomesBalanced
  <2> QED BY <1>16, <2>2, <2>3 DEF WriteReply
<1>17. CASE Wait(e)
  <2> DEFINE o == IF HostAt(e, "scan") /\ NodeAt(e, "exit0") THEN "ok" ELSE "failed"
  <2>1. o \in Over /\ (o = "ok" => HostAt(e, "scan") /\ r.out = <<>>)
    BY <1>17 DEF Wait, Over, HostAt
  <2>2. Balanced(Ended(e, o))
    BY <2>1, EndedBalanced
  <2> QED BY <1>17, <2>2, BecomesBalanced DEF Wait
<1> QED BY <1>7, <1>8, <1>9, <1>10, <1>11, <1>12, <1>13, <1>14, <1>15, <1>16, <1>17
        DEF Host

\* The script emits a line that is neither an operation nor a request.
LEMMA PlainEmitted ==
    ASSUME NEW r \in ExecRecords, Balanced(r),
           NEW line \in Lines \ (Ops \cup Requests), NEW q,
           q.host = r.host, q.out = Emits(r, line).out, q.inp = r.inp,
           q.pending = r.pending, q.sent = r.sent, q.done = r.done,
           r.node = "js", q.node \in {"js", "pouring", "exit0"}
    PROVE  Balanced(q)
<1>1. Among(Ops, q.out) = Among(Ops, r.out) + 0
  BY EmitsCounts
<1>2. Among(Requests, q.out) = Among(Requests, r.out) + 0
  BY EmitsCounts
<1>3. Among(Ops, q.out) = Among(Ops, r.out) /\ Among(Requests, q.out) = Among(Requests, r.out)
  BY <1>1, <1>2, RecordCounts
<1> QED BY <1>3 DEF Balanced, OpsCounted, RequestsCounted, AwaitsAnswer, Settled

\* The script tells the host to perform an operation.
LEMMA OpEmitted ==
    ASSUME NEW r \in ExecRecords, Balanced(r), NEW line \in Ops, NEW q,
           q.host = r.host, q.out = Emits(r, line).out, q.inp = r.inp,
           q.pending = r.pending, q.sent = r.sent + 1, q.done = r.done,
           r.node = "js", q.node = "js"
    PROVE  Balanced(q)
<1>1. line \in Lines /\ line \notin Requests
  BY Names DEF Ops, Requests, StateOps
<1>2. Among(Ops, q.out) = Among(Ops, r.out) + 1
  BY <1>1, EmitsCounts
<1>3. Among(Requests, q.out) = Among(Requests, r.out) + 0
  BY <1>1, EmitsCounts
<1>4. /\ r.sent \in Nat /\ r.done \in Nat /\ Len(r.inp) \in Nat
      /\ Among(Ops, r.out) \in Nat /\ Among(Requests, r.out) \in Nat
  BY RecordCounts
<1>5. OpsCounted(q)
  BY <1>2, <1>4 DEF Balanced, OpsCounted
<1>6. Among(Requests, q.out) = Among(Requests, r.out)
  BY <1>3, <1>4
<1>7. RequestsCounted(q)
  BY <1>6 DEF Balanced, RequestsCounted
<1> QED BY <1>5, <1>7 DEF Balanced, AwaitsAnswer, Settled

\* The script asks the host for something.
LEMMA RequestEmitted ==
    ASSUME NEW r \in ExecRecords, Balanced(r), NEW line \in Requests, NEW q,
           q.host = r.host, q.out = Emits(r, line).out, q.inp = r.inp,
           q.pending = r.pending + 1, q.sent = r.sent, q.done = r.done,
           r.node = "js", q.node = "js"
    PROVE  Balanced(q)
<1>1. line \in Lines /\ line \notin Ops
  BY Names DEF Ops, Requests, StateOps
<1>2. Among(Ops, q.out) = Among(Ops, r.out) + 0
  BY <1>1, EmitsCounts
<1>3. Among(Requests, q.out) = Among(Requests, r.out) + 1
  BY <1>1, EmitsCounts
<1>4. /\ r.sent \in Nat /\ r.done \in Nat /\ Len(r.inp) \in Nat /\ r.pending \in Int
      /\ Among(Ops, r.out) \in Nat /\ Among(Requests, r.out) \in Nat
  BY RecordCounts
<1>5. OpsCounted(q)
  BY <1>2, <1>4 DEF Balanced, OpsCounted
<1>6. r.pending = Among(Requests, r.out) + Len(r.inp)
                    + (IF r.host \in {"reply", "called"} THEN 1 ELSE 0)
  BY DEF Balanced, RequestsCounted
<1>7. q.pending = Among(Requests, q.out) + Len(q.inp)
                    + (IF q.host \in {"reply", "called"} THEN 1 ELSE 0)
  BY <1>3, <1>4, <1>6
<1>8. RequestsCounted(q)
  BY <1>7 DEF RequestsCounted
<1> QED BY <1>5, <1>8 DEF Balanced, AwaitsAnswer, Settled

\* What remains of the calls is no matter.
LEMMA CalledCounts ==
    ASSUME NEW e \in Execs, NEW call, TypeOK, NextCall(e, call)
    PROVE  LET r == x[e]  c == Called(e) IN
           /\ c \in ExecRecords /\ r.node = "js"
           /\ c.host = r.host /\ c.node = r.node /\ c.out = r.out /\ c.inp = r.inp
           /\ c.pending = r.pending /\ c.sent = r.sent /\ c.done = r.done
           /\ Balanced(r) => Balanced(c)
<1>1. x[e] \in ExecRecords
  BY DEF TypeOK
<1>2. Called(e) \in ExecRecords
  BY <1>1, LineTypes DEF NextCall, Called
<1>3. /\ Called(e).host = x[e].host /\ Called(e).node = x[e].node
      /\ Called(e).out = x[e].out /\ Called(e).inp = x[e].inp
      /\ Called(e).pending = x[e].pending /\ Called(e).sent = x[e].sent
      /\ Called(e).done = x[e].done
  BY <1>1 DEF Called, ExecRecords
<1> QED BY <1>2, <1>3 DEF NextCall, NodeAt, Balanced, OpsCounted, RequestsCounted,
                          AwaitsAnswer, Settled

LEMMA NodeBalanced ==
    ASSUME TypeOK, AllBalanced, NEW e \in Execs, Node(e)
    PROVE  AllBalanced'
<1> DEFINE r == x[e]
           c == Called(e)
<1>1. r \in ExecRecords /\ Balanced(r)
  BY DEF TypeOK, AllBalanced
<1>3. ASSUME NEW call, NextCall(e, call)
      PROVE  /\ c \in ExecRecords /\ Balanced(c)
             /\ c.node = "js"
             /\ c.host = r.host /\ c.inp = r.inp /\ c.out = r.out
             /\ c.pending = r.pending /\ c.sent = r.sent /\ c.done = r.done
  BY <1>1, <1>3, CalledCounts
<1> HIDE DEF c
<1>4. CASE Log(e)
  <2>1. NextCall(e, "log") /\ Becomes(e, Emits(c, "log"))
    BY <1>4 DEF Log, c
  <2>2. "log" \in Lines \ (Ops \cup Requests)
    BY Names DEF Ops, Requests, StateOps
  <2>3. Balanced(Emits(c, "log"))
    BY <1>3, <2>1, <2>2, PlainEmitted, EmitsCounts
  <2> QED BY <2>1, <2>3, BecomesBalanced
<1>5. CASE CallDevice(e)
  <2>1. NextCall(e, "device") /\ Becomes(e, EmitsOp(c, "device"))
    BY <1>5 DEF CallDevice, c
  <2>2. "device" \in Lines /\ "device" \in Ops
    BY Names DEF Ops
  <2> DEFINE q == EmitsOp(c, "device")
  <2>3. /\ q.host = c.host /\ q.out = Emits(c, "device").out /\ q.inp = c.inp
        /\ q.pending = c.pending /\ q.sent = c.sent + 1 /\ q.done = c.done
        /\ q.node = c.node
    BY <1>3, <2>1, <2>2, EmitsCounts
  <2> HIDE DEF q
  <2>4. Balanced(q)
    BY <1>3, <2>1, <2>2, <2>3, OpEmitted
  <2> QED BY <2>1, <2>4, BecomesBalanced DEF q
<1>6. CASE CallState(e)
  <2>1. PICK call \in {"set", "delete"} :
           /\ NextCall(e, call)
           /\ Becomes(e, [EmitsOp(c, call) EXCEPT
                            !.copy["mode"] = IF call = "set" THEN e ELSE 0])
    BY <1>6 DEF CallState, c
  <2>2. call \in Lines /\ call \in Ops
    BY Names DEF Ops, StateOps
  <2> DEFINE o == EmitsOp(c, call)
  <2>o. /\ o \in ExecRecords
        /\ o.host = c.host /\ o.out = Emits(c, call).out /\ o.inp = c.inp
        /\ o.pending = c.pending /\ o.sent = c.sent + 1 /\ o.done = c.done
        /\ o.node = c.node
    BY <1>3, <2>1, <2>2, EmitsCounts
  <2> HIDE DEF o
  <2> DEFINE q == [o EXCEPT !.copy["mode"] = IF call = "set" THEN e ELSE 0]
  <2>3. /\ q.host = c.host /\ q.out = Emits(c, call).out /\ q.inp = c.inp
        /\ q.pending = c.pending /\ q.sent = c.sent + 1 /\ q.done = c.done
        /\ q.node = c.node
    BY <2>o DEF ExecRecords
  <2> HIDE DEF q
  <2>4. Balanced(q)
    BY <1>3, <2>1, <2>2, <2>3, OpEmitted
  <2> QED BY <2>1, <2>4, BecomesBalanced DEF o, q
<1>7. CASE Guard(e)
  <2>1. NextCall(e, "guard")
    BY <1>7 DEF Guard
  <2>2. CASE Becomes(e, [r EXCEPT !.calls = <<>>])
    <3>1. Balanced([r EXCEPT !.calls = <<>>])
      BY <1>1 DEF ExecRecords, Balanced, OpsCounted, RequestsCounted, AwaitsAnswer, Settled
    <3> QED BY <2>2, <3>1, BecomesBalanced
  <2> DEFINE o == EmitsOp(c, "stamp")
             q == [o EXCEPT !.copy["stamp"] = r.at, !.passed = TRUE]
  <2>3. CASE Becomes(e, q)
    <3>1. "stamp" \in Lines /\ "stamp" \in Ops
      BY Names DEF Ops, StateOps
    <3>o. /\ o \in ExecRecords
          /\ o.host = c.host /\ o.out = Emits(c, "stamp").out /\ o.inp = c.inp
          /\ o.pending = c.pending /\ o.sent = c.sent + 1 /\ o.done = c.done
          /\ o.node = c.node
      BY <1>3, <2>1, <3>1, EmitsCounts
    <3> HIDE DEF o
    <3>2. /\ q.host = c.host /\ q.out = Emits(c, "stamp").out /\ q.inp = c.inp
          /\ q.pending = c.pending /\ q.sent = c.sent + 1 /\ q.done = c.done
          /\ q.node = c.node
      BY <3>o DEF ExecRecords
    <3> HIDE DEF q
    <3>3. Balanced(q)
      BY <1>3, <2>1, <3>1, <3>2, OpEmitted
    <3> QED BY <2>3, <3>3, BecomesBalanced DEF o, q
  <2> QED BY <1>7, <2>2, <2>3 DEF Guard, c
<1>8. CASE CallRequest(e)
  <2>1. PICK call \in {"read", "write", "run"} :
           NextCall(e, call) /\ Becomes(e, [Emits(c, call) EXCEPT !.pending = @ + 1])
    BY <1>8 DEF CallRequest, c
  <2>2. call \in Lines /\ call \in Requests
    BY Names DEF Requests
  <2> DEFINE q == [Emits(c, call) EXCEPT !.pending = @ + 1]
  <2>3. /\ q.host = c.host /\ q.out = Emits(c, call).out /\ q.inp = c.inp
        /\ q.pending = c.pending + 1 /\ q.sent = c.sent /\ q.done = c.done
        /\ q.node = c.node
    BY <1>3, <2>1, <2>2, EmitsCounts DEF ExecRecords
  <2>4. Balanced(q)
    BY <1>3, <2>1, <2>2, <2>3, RequestEmitted
  <2> QED BY <2>1, <2>4, BecomesBalanced
<1>9. CASE Await(e)
  <2>1. NextCall(e, "await")
        /\ Becomes(e, [c EXCEPT !.node = IF r.pending = 0 THEN "js" ELSE "await"])
    BY <1>9 DEF Await, c
  <2>2. /\ Among(Requests, c.out) \in Nat /\ Len(c.inp) \in Nat
        /\ c.pending \in Int /\ c.pending = r.pending
    BY <1>3, <2>1, RecordCounts
  <2>3. c.pending >= 0
    BY <1>3, <2>1, <2>2 DEF Balanced, RequestsCounted
  <2> DEFINE q == [c EXCEPT !.node = IF r.pending = 0 THEN "js" ELSE "await"]
  <2>4. /\ q.host = c.host /\ q.out = c.out /\ q.inp = c.inp
        /\ q.pending = c.pending /\ q.sent = c.sent /\ q.done = c.done
        /\ q.node = IF r.pending = 0 THEN "js" ELSE "await"
    BY <1>3, <2>1 DEF ExecRecords
  <2> HIDE DEF q
  <2>5. Balanced(q)
    BY <1>3, <2>1, <2>2, <2>3, <2>4 DEF Balanced, OpsCounted, RequestsCounted,
                                        AwaitsAnswer, Settled
  <2> QED BY <2>1, <2>5, BecomesBalanced DEF q
<1>10. CASE Answer(e)
  <2>1. /\ r.node = "await" /\ r.inp # <<>>
        /\ Len(r.inp) \in Nat /\ Len(Tail(r.inp)) = Len(r.inp) - 1
    BY <1>1, <1>10, HeadTailProperties, LenProperties DEF Answer, NodeAt, ExecRecords
  <2>2. /\ Among(Requests, r.out) \in Nat /\ r.pending \in Int
        /\ Len(Tail(r.inp)) \in Nat
    BY <1>1, <2>1, RecordCounts, EmptySeq DEF ExecRecords
  <2>3. PICK n \in {"exit1", "js", "await"} :
           /\ n = "await" => r.pending # 1
           /\ Becomes(e, [r EXCEPT !.inp = Tail(@), !.pending = @ - 1, !.node = n])
    BY <1>10 DEF Answer
  <2> DEFINE q == [r EXCEPT !.inp = Tail(@), !.pending = @ - 1, !.node = n]
  <2>4. /\ q.host = r.host /\ q.out = r.out /\ q.inp = Tail(r.inp)
        /\ q.pending = r.pending - 1 /\ q.sent = r.sent /\ q.done = r.done
        /\ q.node = n
    BY <1>1 DEF ExecRecords
  <2> HIDE DEF q
  <2>5. RequestsCounted(q) /\ AwaitsAnswer(q)
    BY <1>1, <2>1, <2>2, <2>3, <2>4 DEF Balanced, RequestsCounted, AwaitsAnswer
  <2>6. Balanced(q)
    BY <1>1, <2>1, <2>3, <2>4, <2>5 DEF Balanced, OpsCounted, Settled
  <2> QED BY <2>3, <2>6, BecomesBalanced DEF q
<1>11. CASE InputEnds(e) \/ Throw(e) \/ NodeDies(e)
  <2>1. ASSUME NEW n \in {"exit0", "exit1", "dead"}, r.node # "none"
        PROVE  Balanced([r EXCEPT !.node = n])
    BY <1>1, <2>1
       DEF ExecRecords, Balanced, OpsCounted, RequestsCounted, AwaitsAnswer, Settled
  <2>2. r.node # "none"
    BY <1>1, <1>11
       DEF InputEnds, Throw, NodeDies, NextCall, NodeAt, Running, Over, Balanced, Settled
  <2>3. \E n \in {"exit0", "exit1", "dead"} : Becomes(e, [r EXCEPT !.node = n])
    BY <1>11 DEF InputEnds, Throw, NodeDies
  <2> QED BY <2>1, <2>2, <2>3, BecomesBalanced
<1>12. CASE CallHuge(e)
  <2>1. NextCall(e, "huge") /\ Becomes(e, [Emits(c, "huge") EXCEPT !.node = "pouring"])
    BY <1>12 DEF CallHuge, c
  <2>2. "huge" \in Lines \ (Ops \cup Requests)
    BY Names DEF Ops, Requests, StateOps
  <2>3. Balanced([Emits(c, "huge") EXCEPT !.node = "pouring"])
    <3> DEFINE q == [Emits(c, "huge") EXCEPT !.node = "pouring"]
    <3>1. /\ q.host = c.host /\ q.out = Emits(c, "huge").out
          /\ q.inp = c.inp /\ q.pending = c.pending
          /\ q.sent = c.sent /\ q.done = c.done /\ q.node = "pouring"
      BY <1>3, <2>1, <2>2, EmitsCounts DEF ExecRecords
    <3> HIDE DEF q
    <3>2. Balanced(q)
      BY <1>3, <2>1, <2>2, <3>1, PlainEmitted
    <3> QED BY <3>2 DEF q
  <2> QED BY <2>1, <2>3, BecomesBalanced
<1>13. CASE Finish(e)
  <2>1. r.node = "js" /\ Becomes(e, [Emits(r, "result") EXCEPT !.node = "exit0"])
    BY <1>13 DEF Finish, NodeAt
  <2>2. "result" \in Lines \ (Ops \cup Requests)
    BY Names DEF Ops, Requests, StateOps
  <2>3. Balanced([Emits(r, "result") EXCEPT !.node = "exit0"])
    <3> DEFINE p == Emits(r, "result")
               q == [p EXCEPT !.node = "exit0"]
    <3>1. /\ p \in ExecRecords
          /\ p.host = r.host /\ p.inp = r.inp /\ p.pending = r.pending
          /\ p.sent = r.sent /\ p.done = r.done
      BY <1>1, <2>2, EmitsCounts
    <3> HIDE DEF p
    <3>2. /\ q.host = r.host /\ q.out = p.out
          /\ q.inp = r.inp /\ q.pending = r.pending
          /\ q.sent = r.sent /\ q.done = r.done /\ q.node = "exit0"
      BY <3>1 DEF ExecRecords
    <3> HIDE DEF q
    <3>3. Balanced(q)
      BY <1>1, <2>1, <2>2, <3>2, PlainEmitted DEF p
    <3> QED BY <3>3 DEF p, q
  <2> QED BY <2>1, <2>3, BecomesBalanced
<1> QED BY <1>4, <1>5, <1>6, <1>7, <1>8, <1>9, <1>10, <1>11, <1>12, <1>13 DEF Node

\* Every operation and every request is accounted for, at every step.
THEOREM NothingMislaid == Spec => []AllBalanced
<1>1. Init => AllBalanced
  BY FreshBalanced DEF Init, AllBalanced
<1>2. TypeOK /\ AllBalanced /\ [Next]_vars => AllBalanced'
  <2> SUFFICES ASSUME TypeOK, AllBalanced, [Next]_vars
               PROVE  AllBalanced'
    OBVIOUS
  <2>1. ASSUME NEW e \in Execs, NEW program \in Programs[e], Start(e, program)
        PROVE  AllBalanced'
    <3>1. Balanced(Started(e, 0, program))
      BY FreshBalanced
    <3> QED BY <2>1, <3>1, BecomesBalanced DEF Start
  <2>2. ASSUME NEW e \in Execs, Expire(e)
        PROVE  AllBalanced'
    BY <2>2 DEF Expire, AllBalanced
  <2>3. ASSUME NEW e \in Execs, Kill(e)
        PROVE  AllBalanced'
    <3>1. \A a \in Execs : Balanced(Ended(a, "killed"))
      BY EndedBalanced DEF Over
    <3>2. \A a \in Execs : x'[a] = Ended(a, "killed") \/ x'[a] = x[a]
      BY <2>3 DEF Kill
    <3> QED BY <3>1, <3>2 DEF AllBalanced
  <2>4. CASE Tick
    BY <2>4 DEF Tick, AllBalanced
  <2>5. CASE UNCHANGED vars
    BY <2>5 DEF vars, AllBalanced
  <2> QED BY <2>1, <2>2, <2>3, <2>4, <2>5, HostBalanced, NodeBalanced DEF Next
<1> QED BY <1>1, <1>2, TypeCorrect, PTL DEF Spec

\* A success leaves no operation behind: the script was told "ok" for each of
\* them before it was performed, and the run reports an error unless it was.
THEOREM SuccessIsWhole == Spec => []SuccessMeansAllDone
<1>1. TypeOK /\ AllBalanced => SuccessMeansAllDone
  <2> SUFFICES ASSUME TypeOK, AllBalanced, NEW e \in Execs, x[e].host = "ok"
               PROVE  x[e].done = x[e].sent
    BY DEF SuccessMeansAllDone, HostAt
  <2>1. x[e] \in ExecRecords /\ Balanced(x[e])
    BY DEF TypeOK, AllBalanced
  <2>2. Among(Ops, x[e].out) = 0
    BY <2>1, AmongNothing DEF Balanced, Settled
  <2> QED BY <2>1, <2>2, RecordCounts DEF Balanced, OpsCounted
<1> QED BY <1>1, TypeCorrect, NothingMislaid, PTL

\* No answer is ever missing: script and host wait for each other only when a
\* pipe is full, however many requests are under way and whatever fails.
THEOREM DeadlockIsFullPipe == Spec => []DeadlockNeedsFullPipe
<1>1. TypeOK /\ AllBalanced => DeadlockNeedsFullPipe
  <2> SUFFICES ASSUME TypeOK, AllBalanced, NEW e \in Execs,
                      NodeAt(e, "await"), x[e].inp = <<>>, ~HostAt(e, "wait"),
                      HostBlocked(e)
               PROVE  FALSE
    BY DEF DeadlockNeedsFullPipe, NodeBlocked
  <2>1. x[e] \in ExecRecords /\ Balanced(x[e])
    BY DEF TypeOK, AllBalanced
  <2>2. Len(x[e].inp) = 0 /\ Among(Requests, <<>>) = 0
    BY AmongNothing
  <2>3. InCap # 0
    BY LimitsAssumption
  <2>4. HostAt(e, "scan") /\ x[e].out = <<>>
    BY <2>2, <2>3 DEF HostBlocked
  <2> QED BY <2>1, <2>2, <2>4
          DEF NodeAt, HostAt, Balanced, RequestsCounted, AwaitsAnswer
<1> QED BY <1>1, TypeCorrect, NothingMislaid, PTL

-----------------------------------------------------------------------------
(* The state file, and the guards that read it.                            *)

\* What an execution did, saw and holds of the state is the same after a step.
SameStory(r, q) ==
    /\ q.host = "idle" <=> r.host = "idle"
    /\ q.at = r.at /\ q.passed = r.passed /\ q.blind = r.blind
    /\ q.host \notin Over =>
          r.host \notin Over /\ q.null = r.null /\ q.copy["stamp"] = r.copy["stamp"]

SameHold(r, q) ==
    q.host \in {"open", "save"} =>
        r.host \in {"open", "save"} /\ q.mem = r.mem /\ q.stale = r.stale

\* An execution begins; the guard of one lets it pass.
Begins(c) ==
    /\ HostAt(c, "idle")
    /\ \E caller : \E program : x'[c] = Started(c, caller, program)
    /\ mishap' = mishap \cup Misread

Passes(e) ==
    /\ ~NodeAt(e, "none") /\ ~x[e].null /\ ~Within(e)
    /\ x'[e].at = x[e].at /\ x'[e].blind = x[e].blind /\ x'[e].saved = x[e].saved
    /\ x'[e].host = x[e].host /\ x'[e].null = x[e].null
    /\ x'[e].copy["stamp"] = x[e].at

\* The others see nothing of it.
Others(e) ==
    \A a \in Execs \ {e} : SameStory(x[a], x'[a]) /\ x'[a].saved = x[a].saved

Quiet ==
    \A a \in Execs : SameStory(x[a], x'[a]) /\ x'[a].saved = x[a].saved

LEMMA SameStories ==
    ASSUME NEW r \in ExecRecords
    PROVE  /\ SameStory(r, r) /\ SameHold(r, r)
           /\ \A n : LET q == [r EXCEPT !.node = n] IN
                 SameStory(r, q) /\ SameHold(r, q) /\ q.saved = r.saved
           /\ \A n, p, i : LET q == [r EXCEPT !.inp = i, !.pending = p, !.node = n] IN
                 SameStory(r, q) /\ SameHold(r, q) /\ q.saved = r.saved
           /\ LET q == [r EXCEPT !.caller = 0] IN
                 SameStory(r, q) /\ SameHold(r, q) /\ q.saved = r.saved
BY DEF SameStory, SameHold, ExecRecords

LEMMA EndedStory ==
    ASSUME TypeOK, NEW e \in Execs, NEW outcome \in Over, ~HostAt(e, "idle")
    PROVE  LET q == Ended(e, outcome) IN
           SameStory(x[e], q) /\ SameHold(x[e], q) /\ q.saved = x[e].saved
<1>1. x[e] \in ExecRecords
  BY DEF TypeOK
<1>2. LET q == Ended(e, outcome) IN
      /\ q.host = outcome /\ q.at = x[e].at /\ q.passed = x[e].passed
      /\ q.blind = x[e].blind /\ q.saved = x[e].saved
  BY <1>1 DEF Ended, ExecRecords
<1> QED BY <1>2 DEF SameStory, SameHold, HostAt, Over

\* A step of a host saves the state, takes it up, begins an execution, or
\* changes nothing that the state file or a guard could tell.
LEMMA HostStory ==
    ASSUME TypeOK, NEW e \in Execs, Host(e)
    PROVE  \/ SaveState(e)
           \/ /\ \/ Quiet
                 \/ \E c \in Execs : Begins(c) /\ Others(c)
              /\ UNCHANGED <<newest, now>>
              /\ mishap \subseteq mishap'
<1> DEFINE r == x[e]
           t == Taken(e)
<1>1. \A a \in Execs : x[a] \in ExecRecords
  BY DEF TypeOK
<1>2. \A a \in Execs : SameStory(x[a], x[a]) /\ SameHold(x[a], x[a])
  BY <1>1, SameStories
<1>3. ASSUME NEW q, Becomes(e, q), SameStory(r, q), q.saved = r.saved
      PROVE  Quiet
  BY <1>2, <1>3 DEF Becomes, Quiet, TypeOK
<1>4. ASSUME r.out # <<>>
      PROVE  /\ t \in ExecRecords /\ SameStory(r, t)
             /\ t.saved = r.saved /\ t.host = r.host
             /\ t.at = r.at /\ t.passed = r.passed /\ t.blind = r.blind
             /\ t.null = r.null /\ t.copy = r.copy
  <2>1. t \in ExecRecords
    BY <1>1, <1>4, LineTypes DEF Taken
  <2> QED BY <1>1, <2>1 DEF Taken, SameStory, ExecRecords
<1> HIDE DEF t
<1>5. ASSUME r.host = "scan", r.out # <<>>, NEW h \in Hosts \ {"idle"}
      PROVE  LET q == [t EXCEPT !.host = h] IN SameStory(r, q) /\ q.saved = r.saved
  BY <1>4, <1>5 DEF SameStory, ExecRecords, Over
<1>6. ASSUME r.host = "scan", r.out # <<>>, NEW reply
      PROVE  LET q == [t EXCEPT !.host = "reply", !.reply = reply] IN
             SameStory(r, q) /\ q.saved = r.saved
  BY <1>4, <1>6 DEF SameStory, ExecRecords, Over
<1>7. CASE ScanLine(e)
  BY <1>3, <1>4, <1>7 DEF ScanLine, NextLine, t
<1>8. CASE ScanFails(e)
  <2>1. "wait" \in Hosts \ {"idle"}
    BY Names
  <2> QED BY <1>3, <1>5, <1>8, <2>1 DEF ScanFails, NextLine, HostAt, t
<1>9. CASE DeviceOp(e)
  <2>1. r.host = "scan" /\ r.out # <<>> /\ "wait" \in Hosts \ {"idle"}
    BY <1>9, Names DEF DeviceOp, NextLine, HostAt
  <2>2. CASE Becomes(e, [t EXCEPT !.host = "wait"])
    BY <1>3, <1>5, <1>9, <2>1, <2>2 DEF DeviceOp
  <2>3. CASE Becomes(e, [t EXCEPT !.done = @ + 1])
    <3>1. LET q == [t EXCEPT !.done = @ + 1] IN SameStory(r, q) /\ q.saved = r.saved
      BY <1>4, <2>1 DEF SameStory, ExecRecords, Over
    <3> QED BY <1>3, <1>9, <2>3, <3>1 DEF DeviceOp
  <2> QED BY <1>9, <2>2, <2>3 DEF DeviceOp, OpError, t
<1>10. CASE StateOp(e)
  <2>1. PICK op \in StateOps :
           /\ NextLine(e, op)
           /\ Becomes(e, IF Readable
                         THEN [t EXCEPT !.host = "open", !.op = op,
                                        !.mem = Loaded, !.stale = FALSE]
                         ELSE [t EXCEPT !.host = "wait"])
    BY <1>10 DEF StateOp, OpError, t
  <2>2. r.host = "scan" /\ r.out # <<>> /\ "wait" \in Hosts \ {"idle"}
    BY <2>1, Names DEF NextLine, HostAt
  <2>3. LET q == [t EXCEPT !.host = "open", !.op = op, !.mem = Loaded, !.stale = FALSE]
        IN SameStory(r, q) /\ q.saved = r.saved
    BY <1>4, <2>2 DEF SameStory, ExecRecords, Over
  <2>4. Quiet
    BY <1>3, <1>5, <2>1, <2>2, <2>3
  <2> QED BY <1>10, <2>4 DEF StateOp
<1>11. CASE OpenState(e)
  <2>1. LET q == [r EXCEPT !.host = "save"] IN SameStory(r, q) /\ q.saved = r.saved
    BY <1>1, <1>11 DEF OpenState, HostAt, SameStory, ExecRecords, Over
  <2> QED BY <1>3, <1>11, <2>1 DEF OpenState
<1>12. CASE Request(e) \/ WriteRequest(e)
  <2>1. r.host = "scan" /\ r.out # <<>>
    BY <1>12 DEF Request, WriteRequest, NextLine, HostAt
  <2>2. \E reply : Becomes(e, [t EXCEPT !.host = "reply", !.reply = reply])
    BY <1>12 DEF Request, WriteRequest, Reply, t
  <2>3. Quiet
    BY <1>3, <1>6, <2>1, <2>2
  <2> QED BY <1>12, <2>3 DEF Request, WriteRequest
<1>13. CASE RunScript(e)
  <2>1. r.host = "scan" /\ r.out # <<>> /\ "called" \in Hosts \ {"idle"}
    BY <1>13, Names DEF RunScript, NextLine, HostAt
  <2>2. CASE Becomes(e, Reply(e, "error")) /\ UNCHANGED mishap
    BY <1>3, <1>6, <1>13, <2>1, <2>2 DEF RunScript, Reply, t
  <2>3. ASSUME NEW c \in Execs, HostAt(c, "idle"), NEW program \in Programs[c],
               x' = [x EXCEPT ![e] = [t EXCEPT !.host = "called"],
                              ![c] = Started(c, e, program)],
               mishap' = mishap \cup Misread
        PROVE  \E k \in Execs : Begins(k) /\ Others(k)
    <3>1. x'[c] = Started(c, e, program) /\ c # e
      BY <2>1, <2>3 DEF HostAt, TypeOK
    <3>2. Begins(c)
      BY <2>3, <3>1 DEF Begins
    <3>3. SameStory(r, [t EXCEPT !.host = "called"])
          /\ [t EXCEPT !.host = "called"].saved = r.saved
      BY <1>5, <2>1
    <3>4. \A a \in Execs \ {c} :
             x'[a] = IF a = e THEN [t EXCEPT !.host = "called"] ELSE x[a]
      BY <2>3 DEF TypeOK
    <3>5. Others(c)
      BY <1>2, <3>3, <3>4 DEF Others
    <3> QED BY <3>2, <3>5
  <2> QED BY <1>13, <2>2, <2>3 DEF RunScript, t
<1>14. CASE ScriptReturns(e)
  <2>1. PICK c \in Execs :
           x' = [x EXCEPT ![e] = Answered(e, c), ![c] = [@ EXCEPT !.caller = 0]]
    BY <1>14 DEF ScriptReturns
  <2>2. r.host = "called"
    BY <1>14 DEF ScriptReturns, HostAt
  <2> DEFINE q == Answered(e, c)
  <2>3. q \in ExecRecords /\ SameStory(r, q) /\ q.saved = r.saved
    <3>1. PICK z \in {"ok", "error"} : q = [r EXCEPT !.host = "reply", !.reply = z]
      BY DEF Answered
    <3>2. ASSUME NEW s \in ExecRecords, s.host = "called"
          PROVE  LET p == [s EXCEPT !.host = "reply", !.reply = z] IN
                 p \in ExecRecords /\ SameStory(s, p) /\ p.saved = s.saved
      BY <3>2, Names DEF SameStory, ExecRecords, Over
    <3> HIDE DEF q
    <3> QED BY <1>1, <2>2, <3>1, <3>2
  <2> HIDE DEF q
  <2>4. ASSUME NEW s \in ExecRecords, NEW z \in ExecRecords, SameStory(z, s),
               s.saved = z.saved
        PROVE  SameStory(z, [s EXCEPT !.caller = 0])
               /\ [s EXCEPT !.caller = 0].saved = z.saved
    BY <2>4 DEF SameStory, ExecRecords
  <2>5. ASSUME NEW a \in Execs
        PROVE  SameStory(x[a], x'[a]) /\ x'[a].saved = x[a].saved
    <3>1. PICK s \in ExecRecords :
             /\ SameStory(x[a], s) /\ s.saved = x[a].saved
             /\ x'[a] = s \/ x'[a] = [s EXCEPT !.caller = 0]
      <4>1. CASE a = e
        BY <2>1, <2>3, <4>1 DEF q, TypeOK
      <4>2. CASE a # e
        BY <1>1, <1>2, <2>1, <4>2 DEF TypeOK
      <4> QED BY <4>1, <4>2
    <3> QED BY <1>1, <2>4, <3>1
  <2> QED BY <1>14, <2>5 DEF ScriptReturns, Quiet
<1>15. CASE WriteReply(e)
  <2>1. r.host = "reply"
    BY <1>15 DEF WriteReply, HostAt
  <2>2. LET q == [r EXCEPT !.host = "scan"] IN SameStory(r, q) /\ q.saved = r.saved
    BY <1>1, <2>1 DEF SameStory, ExecRecords, Over
  <2>3. \A i : LET q == [r EXCEPT !.host = "scan", !.inp = i] IN
               SameStory(r, q) /\ q.saved = r.saved
    BY <1>1, <2>1 DEF SameStory, ExecRecords, Over
  <2> QED BY <1>3, <1>15, <2>2, <2>3 DEF WriteReply
<1>16. CASE Wait(e)
  <2>1. PICK outcome \in Over : Becomes(e, Ended(e, outcome))
    BY <1>16 DEF Wait, Over
  <2>2. ~HostAt(e, "idle")
    BY <1>16 DEF Wait, HostAt
  <2> QED BY <1>3, <1>16, <2>1, <2>2, EndedStory DEF Wait
<1> QED BY <1>7, <1>8, <1>9, <1>10, <1>11, <1>12, <1>13, <1>14, <1>15, <1>16 DEF Host

\* A step of a script changes the stamp in its copy of the state only when a
\* guard lets it pass.
LEMMA NodeStory ==
    ASSUME TypeOK, AllBalanced, NEW e \in Execs, Node(e)
    PROVE  /\ Quiet \/ (Passes(e) /\ Others(e))
           /\ \A a \in Execs : SameHold(x[a], x'[a])
           /\ UNCHANGED <<disk, newest, mishap, now>>
<1> DEFINE r == x[e]
           c == Called(e)
<1>1. \A a \in Execs : x[a] \in ExecRecords
  BY DEF TypeOK
<1>2. \A a \in Execs : SameStory(x[a], x[a]) /\ SameHold(x[a], x[a])
  BY <1>1, SameStories
<1> DEFINE Like(q) == SameStory(r, q) /\ SameHold(r, q) /\ q.saved = r.saved
<1>3. ASSUME NEW q, Becomes(e, q), Like(q)
      PROVE  Quiet /\ \A a \in Execs : SameHold(x[a], x'[a])
  BY <1>2, <1>3 DEF Becomes, Quiet, TypeOK
<1>4. ASSUME NEW call, NextCall(e, call)
      PROVE  /\ c \in ExecRecords /\ Like(c) /\ c.host = r.host /\ c.mem = r.mem
             /\ c.stale = r.stale /\ c.at = r.at /\ c.passed = r.passed
             /\ c.blind = r.blind /\ c.null = r.null /\ c.copy = r.copy
  <2>1. c \in ExecRecords
    BY <1>1, <1>4, LineTypes DEF NextCall, Called
  <2> QED BY <1>1, <2>1 DEF Called, SameStory, SameHold, ExecRecords
<1>5. ASSUME NEW s \in ExecRecords, Like(s), NEW line \in Lines
      PROVE  LET q == Emits(s, line) IN q \in ExecRecords /\ Like(q)
  BY <1>5, EmitsCounts DEF Emits, SameStory, SameHold, ExecRecords
<1>6. ASSUME NEW s \in ExecRecords, Like(s)
      PROVE  /\ \A n : Like([s EXCEPT !.node = n])
             /\ \A n : Like([s EXCEPT !.pending = n])
             /\ \A n : Like([s EXCEPT !.sent = n])
             /\ \A v : Like([s EXCEPT !.copy["mode"] = v])
             /\ \A v : Like([s EXCEPT !.calls = v])
  BY <1>6 DEF SameStory, SameHold, ExecRecords, Maps, StateKeys
<1> HIDE DEF c, Like
<1>7. ASSUME NEW s \in ExecRecords, Like(s), NEW line \in Lines
      PROVE  LET q == EmitsOp(s, line) IN q \in ExecRecords /\ Like(q)
  <2>1. EmitsOp(s, line) \in ExecRecords
    BY <1>7, EmitsCounts
  <2>2. EmitsOp(s, line) = [Emits(s, line) EXCEPT !.sent = Emits(s, line).sent + 1]
    BY DEF EmitsOp
  <2>3. \A n : Like([Emits(s, line) EXCEPT !.sent = n])
    BY <1>5, <1>6, <1>7
  <2> QED BY <2>1, <2>2, <2>3
<1>8. r \in ExecRecords /\ Like(r)
  BY <1>1, <1>2 DEF Like
<1>u. UNCHANGED <<disk, newest, mishap, now>>
  BY DEF Node, Log, CallDevice, CallState, Guard, CallRequest, Await, Answer,
         InputEnds, CallHuge, Throw, Finish, NodeDies
<1>9. CASE Log(e)
  BY <1>3, <1>4, <1>5, <1>9, <1>u, Names DEF Log, c
<1>10. CASE CallDevice(e)
  BY <1>3, <1>4, <1>7, <1>10, <1>u, Names DEF CallDevice, c
<1>11. CASE CallState(e)
  <2>1. PICK call \in {"set", "delete"} :
           /\ NextCall(e, call)
           /\ Becomes(e, [EmitsOp(c, call) EXCEPT
                            !.copy["mode"] = IF call = "set" THEN e ELSE 0])
    BY <1>11 DEF CallState, c
  <2>2. EmitsOp(c, call) \in ExecRecords /\ Like(EmitsOp(c, call))
    BY <1>4, <1>7, <2>1, Names
  <2> QED BY <1>3, <1>6, <1>u, <2>1, <2>2
<1>12. CASE Guard(e)
  <2>1. CASE Becomes(e, [r EXCEPT !.calls = <<>>])
    BY <1>3, <1>6, <1>8, <1>u, <2>1
  <2> DEFINE o == EmitsOp(c, "stamp")
             q == [o EXCEPT !.copy["stamp"] = r.at, !.passed = TRUE]
  <2>2. CASE ~Within(e) /\ Becomes(e, q)
    <3>1. NextCall(e, "guard") /\ ~r.null
      BY <1>12 DEF Guard
    <3>2. o \in ExecRecords /\ o.at = r.at /\ o.blind = r.blind /\ o.saved = r.saved
          /\ o.host = r.host /\ o.null = r.null /\ o.mem = r.mem /\ o.stale = r.stale
      <4>1. c \in ExecRecords /\ c.saved = r.saved
        BY <1>4, <3>1 DEF Like
      <4>2. o \in ExecRecords
        BY <4>1, EmitsCounts, Names
      <4>3. o.at = c.at /\ o.blind = c.blind /\ o.saved = c.saved
            /\ o.host = c.host /\ o.null = c.null /\ o.mem = c.mem /\ o.stale = c.stale
        BY <4>1 DEF EmitsOp, Emits, ExecRecords
      <4> QED BY <1>4, <3>1, <4>1, <4>2, <4>3
    <3> HIDE DEF o
    <3>3. q.at = r.at /\ q.blind = r.blind /\ q.saved = r.saved
          /\ q.host = r.host /\ q.null = r.null /\ q.mem = r.mem /\ q.stale = r.stale
          /\ q.copy["stamp"] = r.at
      BY <3>2 DEF ExecRecords, Maps, StateKeys
    <3> HIDE DEF q
    <3>4. x'[e] = q /\ \A a \in Execs \ {e} : x'[a] = x[a]
      BY <2>2 DEF Becomes, TypeOK
    <3>5. Passes(e)
      BY <2>2, <3>1, <3>3, <3>4 DEF Passes, NextCall, NodeAt
    <3>6. Others(e)
      BY <1>2, <3>4 DEF Others
    <3>7. \A a \in Execs : SameHold(x[a], x'[a])
      BY <1>2, <3>3, <3>4 DEF SameHold
    <3> QED BY <1>u, <3>5, <3>6, <3>7
  <2> QED BY <1>12, <2>1, <2>2 DEF Guard, c
<1>13. CASE CallRequest(e)
  <2>1. PICK call \in {"read", "write", "run"} :
           NextCall(e, call) /\ Becomes(e, [Emits(c, call) EXCEPT !.pending = @ + 1])
    BY <1>13 DEF CallRequest, c
  <2>2. Emits(c, call) \in ExecRecords /\ Like(Emits(c, call))
    BY <1>4, <1>5, <2>1, Names
  <2> QED BY <1>3, <1>6, <1>u, <2>1, <2>2
<1>14. CASE Await(e)
  BY <1>3, <1>4, <1>6, <1>14, <1>u DEF Await, c
<1>15. CASE Answer(e)
  <2>1. \E n, p, i : Becomes(e, [r EXCEPT !.inp = i, !.pending = p, !.node = n])
    BY <1>15 DEF Answer
  <2>2. \A n, p, i : Like([r EXCEPT !.inp = i, !.pending = p, !.node = n])
    BY <1>1, SameStories DEF Like
  <2> QED BY <1>3, <1>u, <2>1, <2>2
<1>16. CASE InputEnds(e) \/ Throw(e) \/ NodeDies(e)
  <2>1. \E n : Becomes(e, [r EXCEPT !.node = n])
    BY <1>16 DEF InputEnds, Throw, NodeDies
  <2> QED BY <1>3, <1>6, <1>8, <1>u, <2>1
<1>17. CASE CallHuge(e)
  <2>1. NextCall(e, "huge") /\ Becomes(e, [Emits(c, "huge") EXCEPT !.node = "pouring"])
    BY <1>17 DEF CallHuge, c
  <2>2. Emits(c, "huge") \in ExecRecords /\ Like(Emits(c, "huge"))
    BY <1>4, <1>5, <2>1, Names
  <2> QED BY <1>3, <1>6, <1>u, <2>1, <2>2
<1>18. CASE Finish(e)
  <2>1. Becomes(e, [Emits(r, "result") EXCEPT !.node = "exit0"])
    BY <1>18 DEF Finish
  <2>2. Emits(r, "result") \in ExecRecords /\ Like(Emits(r, "result"))
    BY <1>5, <1>8, Names
  <2> QED BY <1>3, <1>6, <1>u, <2>1, <2>2
<1> QED BY <1>9, <1>10, <1>11, <1>12, <1>13, <1>14, <1>15, <1>16, <1>17, <1>18 DEF Node

\* As long as no save was lost and no half-written file was read, the file
\* holds the state, and so does the hand of every host about to save it.
Lost == mishap \cap {"stale", "misread"} # {}

StateFollows ==
    Lost \/ /\ disk.state = "ok" => disk.map = newest
            /\ \A e \in Execs :
                  x[e].host \in {"open", "save"} /\ ~x[e].stale => x[e].mem = newest

LEMMA HoldsFollow ==
    ASSUME TypeOK, StateFollows, UNCHANGED <<disk, newest>>, mishap \subseteq mishap',
           \A a \in Execs : SameHold(x[a], x'[a])
    PROVE  StateFollows'
<1>1. Lost => Lost'
  BY DEF Lost
<1> QED BY <1>1 DEF StateFollows, SameHold

LEMMA BecomesHolds ==
    ASSUME TypeOK, NEW e \in Execs, NEW q, Becomes(e, q), SameHold(x[e], q)
    PROVE  \A a \in Execs : SameHold(x[a], x'[a])
BY SameStories DEF TypeOK, Becomes

LEMMA HostFollows ==
    ASSUME TypeOK, StateFollows, NEW e \in Execs, Host(e)
    PROVE  StateFollows'
<1> DEFINE r == x[e]
           t == Taken(e)
<1>1. \A a \in Execs : x[a] \in ExecRecords /\ SameHold(x[a], x[a])
  BY SameStories DEF TypeOK
<1>2. ASSUME NEW q, Becomes(e, q), q.host \notin {"open", "save"},
             UNCHANGED <<disk, newest, mishap>>
      PROVE  StateFollows'
  <2>1. SameHold(r, q)
    BY <1>2 DEF SameHold
  <2> QED BY <1>2, <2>1, BecomesHolds, HoldsFollow
<1>3. r.out # <<>> => t \in ExecRecords /\ t.host = r.host
  <2>1. r.out # <<>> => t \in ExecRecords
    BY <1>1, LineTypes DEF Taken
  <2> QED BY <1>1, <2>1 DEF Taken, ExecRecords
<1> HIDE DEF t
<1>4. CASE ScanLine(e)
  BY <1>2, <1>3, <1>4 DEF ScanLine, NextLine, HostAt, t
<1>5. CASE ScanFails(e)
  <2>1. r.out # <<>> /\ Becomes(e, [t EXCEPT !.host = "wait"])
    BY <1>5 DEF ScanFails, NextLine, t
  <2>2. [t EXCEPT !.host = "wait"].host = "wait"
    BY <1>3, <2>1 DEF ExecRecords
  <2> QED BY <1>2, <1>5, <2>1, <2>2 DEF ScanFails
<1>6. CASE DeviceOp(e)
  <2>1. r.out # <<>> /\ r.host = "scan"
    BY <1>6 DEF DeviceOp, NextLine, HostAt
  <2>2. [t EXCEPT !.host = "wait"].host = "wait" /\ [t EXCEPT !.done = @ + 1].host = "scan"
    BY <1>3, <2>1 DEF ExecRecords
  <2>3. \/ Becomes(e, [t EXCEPT !.host = "wait"])
        \/ Becomes(e, [t EXCEPT !.done = @ + 1])
    BY <1>6 DEF DeviceOp, OpError, t
  <2> QED BY <1>2, <1>6, <2>2, <2>3 DEF DeviceOp
<1>7. CASE StateOp(e)
  <2>1. PICK op \in StateOps :
           /\ NextLine(e, op)
           /\ Becomes(e, IF Readable
                         THEN [t EXCEPT !.host = "open", !.op = op,
                                        !.mem = Loaded, !.stale = FALSE]
                         ELSE [t EXCEPT !.host = "wait"])
    BY <1>7 DEF StateOp, OpError, t
  <2>2. t \in ExecRecords
    BY <1>3, <2>1 DEF NextLine
  <2>3. UNCHANGED <<disk, newest>> /\ mishap' = mishap \cup Misread
    BY <1>7 DEF StateOp
  <2>4. CASE ~Readable
    <3>1. Becomes(e, [t EXCEPT !.host = "wait"]) /\ [t EXCEPT !.host = "wait"].host = "wait"
      BY <2>1, <2>2, <2>4 DEF ExecRecords
    <3>2. UNCHANGED mishap
      BY <2>3, <2>4 DEF Misread, Readable
    <3> QED BY <1>2, <2>3, <3>1, <3>2
  <2>5. CASE Readable
    <3> DEFINE q == [t EXCEPT !.host = "open", !.op = op, !.mem = Loaded, !.stale = FALSE]
    <3>1. q.mem = Loaded
      BY <2>2 DEF ExecRecords
    <3>2. Becomes(e, q)
      BY <2>1, <2>5
    <3> HIDE DEF q
    <3>3. x'[e] = q /\ \A a \in Execs \ {e} : x'[a] = x[a]
      BY <3>2 DEF Becomes, TypeOK
    <3>4. CASE disk.state = "empty"
      BY <2>3, <3>4 DEF StateFollows, Lost, Misread
    <3>5. CASE disk.state = "ok"
      <4>1. Lost => Lost'
        BY <2>3 DEF Lost
      <4>2. ~Lost => q.mem = newest
        BY <3>1, <3>5 DEF Loaded, StateFollows
      <4> QED BY <2>3, <3>3, <4>1, <4>2 DEF StateFollows
    <3> QED BY <2>5, <3>4, <3>5 DEF Readable, TypeOK
  <2> QED BY <2>4, <2>5
<1>8. CASE OpenState(e)
  <2> DEFINE q == [r EXCEPT !.host = "save"]
  <2>1. q.mem = r.mem /\ q.stale = r.stale /\ r.host = "open"
    BY <1>1, <1>8 DEF OpenState, HostAt, ExecRecords
  <2>2. disk'.state = "empty" /\ UNCHANGED <<newest, mishap>>
    BY <1>8 DEF OpenState, TypeOK
  <2>3. Becomes(e, q)
    BY <1>8 DEF OpenState
  <2> HIDE DEF q
  <2>4. x'[e] = q /\ \A a \in Execs \ {e} : x'[a] = x[a]
    BY <2>3 DEF Becomes, TypeOK
  <2> QED BY <2>1, <2>2, <2>4 DEF StateFollows, Lost
<1>9. CASE SaveState(e)
  <2>1. r.host = "save"
    BY <1>9 DEF SaveState, HostAt
  <2>2. mishap' = mishap \cup Mishaps(e)
    BY <1>9 DEF SaveState
  <2>3. CASE r.stale
    BY <2>2, <2>3 DEF StateFollows, Lost, Mishaps
  <2>4. CASE Lost
    BY <2>2, <2>4 DEF StateFollows, Lost
  <2>5. CASE ~r.stale /\ ~Lost
    <3>1. r.mem = newest
      BY <2>1, <2>5 DEF StateFollows
    <3>2. newest' = SavedMap(e)
      BY <1>9, <3>1 DEF SaveState, SavedMap
    <3>3. disk'.state = "ok" => disk'.map = newest'
      BY <1>9, <3>2 DEF SaveState
    <3>4. x'[e].host = "scan"
      <4>1. x'[e] = [r EXCEPT !.host = "scan", !.mem = Blank, !.done = @ + 1,
                              !.saved = @ \/ r.op = "stamp"]
        BY <1>9 DEF SaveState
      <4> QED BY <1>1, <4>1 DEF ExecRecords
    <3>5. ASSUME NEW a \in Execs \ {e}
          PROVE  x'[a].host \in {"open", "save"} => x'[a].stale
      <4>1. x'[a] = [x[a] EXCEPT !.stale = x[a].stale \/ x[a].host \in {"open", "save"}]
        BY <1>9 DEF SaveState
      <4> QED BY <1>1, <4>1 DEF ExecRecords
    <3> QED BY <3>3, <3>4, <3>5 DEF StateFollows
  <2> QED BY <2>3, <2>4, <2>5
<1>10. CASE Request(e) \/ WriteRequest(e)
  <2>1. r.out # <<>>
    BY <1>10 DEF Request, WriteRequest, NextLine
  <2>2. PICK reply : Becomes(e, [t EXCEPT !.host = "reply", !.reply = reply])
    BY <1>10 DEF Request, WriteRequest, Reply, t
  <2>3. [t EXCEPT !.host = "reply", !.reply = reply].host = "reply"
    BY <1>3, <2>1 DEF ExecRecords
  <2> QED BY <1>2, <1>10, <2>2, <2>3 DEF Request, WriteRequest
<1>11. CASE RunScript(e)
  <2>1. r.out # <<>>
    BY <1>11 DEF RunScript, NextLine
  <2>2. CASE Becomes(e, Reply(e, "error")) /\ UNCHANGED mishap
    <3>1. Reply(e, "error").host = "reply"
      BY <1>3, <2>1 DEF Reply, ExecRecords, t
    <3> QED BY <1>2, <1>11, <2>2, <3>1 DEF RunScript
  <2>3. ASSUME NEW c \in Execs, NEW program \in Programs[c],
               x' = [x EXCEPT ![e] = [t EXCEPT !.host = "called"],
                              ![c] = Started(c, e, program)],
               mishap' = mishap \cup Misread
        PROVE  StateFollows'
    <3>1. [t EXCEPT !.host = "called"].host = "called"
      BY <1>3, <2>1 DEF ExecRecords
    <3>2. Started(c, e, program).host = "scan"
      BY DEF Started, Unused
    <3>3. \A a \in Execs : \/ x'[a] = x[a]
                           \/ x'[a].host \notin {"open", "save"}
      BY <2>3, <3>1, <3>2 DEF TypeOK
    <3>4. \A a \in Execs : SameHold(x[a], x'[a])
      BY <1>1, <3>3 DEF SameHold
    <3> QED BY <1>11, <2>3, <3>4, HoldsFollow DEF RunScript
  <2> QED BY <1>11, <2>2, <2>3 DEF RunScript, t
<1>12. CASE ScriptReturns(e)
  <2>1. PICK c \in Execs :
           x' = [x EXCEPT ![e] = Answered(e, c), ![c] = [@ EXCEPT !.caller = 0]]
    BY <1>12 DEF ScriptReturns
  <2>2. Answered(e, c).host = "reply" /\ [Answered(e, c) EXCEPT !.caller = 0].host = "reply"
    BY <1>1 DEF Answered, ExecRecords
  <2>3. ASSUME NEW a \in Execs
        PROVE  SameHold(x[a], x'[a])
    <3>1. \/ x'[a] = x[a]
          \/ x'[a] = [x[a] EXCEPT !.caller = 0]
          \/ x'[a].host = "reply"
      BY <2>1, <2>2 DEF TypeOK
    <3>2. SameHold(x[a], [x[a] EXCEPT !.caller = 0])
      BY <1>1, SameStories
    <3>3. x'[a].host = "reply" => SameHold(x[a], x'[a])
      BY DEF SameHold
    <3> QED BY <1>1, <3>1, <3>2, <3>3
  <2> QED BY <1>12, <2>3, HoldsFollow DEF ScriptReturns
<1>13. CASE WriteReply(e)
  <2>1. \A i : /\ [r EXCEPT !.host = "scan"].host = "scan"
               /\ [r EXCEPT !.host = "scan", !.inp = i].host = "scan"
    BY <1>1 DEF ExecRecords
  <2> QED BY <1>2, <1>13, <2>1 DEF WriteReply
<1>14. CASE Wait(e)
  <2>1. PICK outcome \in Over : Becomes(e, Ended(e, outcome))
    BY <1>14 DEF Wait, Over
  <2>2. Ended(e, outcome).host = outcome
    BY <1>1 DEF Ended, ExecRecords
  <2> QED BY <1>2, <1>14, <2>1, <2>2 DEF Wait, Over
<1> QED BY <1>4, <1>5, <1>6, <1>7, <1>8, <1>9, <1>10, <1>11, <1>12, <1>13, <1>14 DEF Host

LEMMA StateIsFollowed == Spec => []StateFollows
<1>1. Init => StateFollows
  BY DEF Init, StateFollows, Unused
<1>2. TypeOK /\ AllBalanced /\ StateFollows /\ [Next]_vars => StateFollows'
  <2> SUFFICES ASSUME TypeOK, AllBalanced, StateFollows, [Next]_vars
               PROVE  StateFollows'
    OBVIOUS
  <2>0. \A a \in Execs : x[a] \in ExecRecords /\ SameHold(x[a], x[a])
    BY SameStories DEF TypeOK
  <2>1. ASSUME NEW e \in Execs, NEW program \in Programs[e], Start(e, program)
        PROVE  StateFollows'
    <3>1. SameHold(x[e], Started(e, 0, program))
      BY DEF Started, Unused, SameHold
    <3>2. Becomes(e, Started(e, 0, program))
      BY <2>1 DEF Start
    <3>3. \A a \in Execs : SameHold(x[a], x'[a])
      BY <3>1, <3>2, BecomesHolds
    <3> QED BY <2>1, <3>3, HoldsFollow DEF Start
  <2>2. ASSUME NEW e \in Execs, Node(e)
        PROVE  StateFollows'
    BY <2>2, NodeStory, HoldsFollow
  <2>3. ASSUME NEW e \in Execs, Expire(e)
        PROVE  StateFollows'
    BY <2>0, <2>3, HoldsFollow DEF Expire
  <2>4. ASSUME NEW e \in Execs, Kill(e)
        PROVE  StateFollows'
    <3>1. \A a \in Execs : Running(a) => SameHold(x[a], Ended(a, "killed"))
      BY EndedStory DEF Over, Running, HostAt
    <3>2. \A a \in Execs : SameHold(x[a], x'[a])
      BY <2>0, <2>4, <3>1 DEF Kill
    <3> QED BY <2>4, <3>2, HoldsFollow DEF Kill
  <2>5. CASE Tick
    BY <2>0, <2>5, HoldsFollow DEF Tick
  <2>6. CASE UNCHANGED vars
    BY <2>0, <2>6, HoldsFollow DEF vars
  <2> QED BY <2>1, <2>2, <2>3, <2>4, <2>5, <2>6, HostFollows DEF Next
<1> QED BY <1>1, <1>2, TypeCorrect, NothingMislaid, PTL DEF Spec

\* A key of the state file has the value of the last operation performed on
\* it, unless somebody loaded a half-written file or saved over another's save.
THEOREM KeysAreKept == Spec => []KeysKept
<1>1. StateFollows => KeysKept
  BY DEF StateFollows, KeysKept, Lost
<1> QED BY <1>1, StateIsFollowed, PTL

LEMMA SaveStory ==
    ASSUME TypeOK, NEW e \in Execs, SaveState(e)
    PROVE  /\ \A a \in Execs : SameStory(x[a], x'[a])
           /\ Others(e)
           /\ x'[e].saved <=> (x[e].saved \/ x[e].op = "stamp")
<1>1. \A a \in Execs : x[a] \in ExecRecords
  BY DEF TypeOK
<1>2. x'[e] = [x[e] EXCEPT !.host = "scan", !.mem = Blank, !.done = @ + 1,
                           !.saved = @ \/ x[e].op = "stamp"]
  BY DEF SaveState
<1>3. x[e].host = "save"
  BY DEF SaveState, HostAt
<1>4. SameStory(x[e], x'[e]) /\ (x'[e].saved <=> (x[e].saved \/ x[e].op = "stamp"))
  BY <1>1, <1>2, <1>3 DEF SameStory, ExecRecords, Over
<1>5. ASSUME NEW a \in Execs \ {e}
      PROVE  SameStory(x[a], x'[a]) /\ x'[a].saved = x[a].saved
  <2>1. PICK b : x'[a] = [x[a] EXCEPT !.stale = b]
    BY DEF SaveState
  <2> QED BY <1>1, <2>1 DEF SameStory, ExecRecords
<1> QED BY <1>4, <1>5 DEF Others

\* Every step saves the state, begins an execution, lets a guard pass, or
\* changes nothing that concerns the guards.
LEMMA StepStory ==
    ASSUME TypeOK, AllBalanced, [Next]_vars
    PROVE  \/ \E e \in Execs : SaveState(e)
           \/ /\ mishap \subseteq mishap' /\ newest' = newest
              /\ \/ Quiet /\ now' \in {now, now + 1}
                 \/ \E c \in Execs : Begins(c) /\ Others(c) /\ now' = now
                 \/ \E e \in Execs : Passes(e) /\ Running(e) /\ Others(e) /\ now' = now
<1>0. \A a \in Execs : x[a] \in ExecRecords /\ SameStory(x[a], x[a])
  BY SameStories DEF TypeOK
<1>1. ASSUME NEW e \in Execs, NEW program \in Programs[e], Start(e, program)
      PROVE  /\ Begins(e) /\ Others(e) /\ now' = now
             /\ mishap \subseteq mishap' /\ newest' = newest
  <2>1. x'[e] = Started(e, 0, program) /\ \A a \in Execs \ {e} : x'[a] = x[a]
    BY <1>1 DEF Start, Becomes, TypeOK
  <2> QED BY <1>0, <1>1, <2>1 DEF Start, Begins, Others
<1>2. ASSUME NEW e \in Execs, Passes(e)
      PROVE  Running(e)
  BY <1>2 DEF Passes, NodeAt, Running, Over, AllBalanced, Balanced, Settled
<1>3. ASSUME UNCHANGED x PROVE Quiet
  BY <1>0, <1>3 DEF Quiet
<1>4. ASSUME NEW e \in Execs, Kill(e)
      PROVE  Quiet
  <2>1. \A a \in Execs : Running(a) => /\ SameStory(x[a], Ended(a, "killed"))
                                      /\ Ended(a, "killed").saved = x[a].saved
    BY EndedStory DEF Over, Running, HostAt
  <2>2. \A a \in Execs : \/ x'[a] = x[a]
                         \/ Running(a) /\ x'[a] = Ended(a, "killed")
    BY <1>4 DEF Kill
  <2> QED BY <1>0, <2>1, <2>2 DEF Quiet
<1>5. CASE Tick
  BY <1>3, <1>5 DEF Tick
<1>6. CASE UNCHANGED vars
  BY <1>3, <1>6 DEF vars
<1>7. ASSUME NEW e \in Execs, Node(e)
      PROVE  /\ mishap \subseteq mishap' /\ newest' = newest /\ now' = now
             /\ Quiet \/ (Passes(e) /\ Running(e) /\ Others(e))
  <2>1. /\ Quiet \/ (Passes(e) /\ Others(e))
        /\ mishap' = mishap /\ newest' = newest /\ now' = now
    BY <1>7, NodeStory
  <2>2. Passes(e) => Running(e)
    BY <1>2
  <2> QED BY <2>1, <2>2
<1>8. ASSUME NEW e \in Execs, Host(e)
      PROVE  \/ SaveState(e)
             \/ /\ mishap \subseteq mishap' /\ newest' = newest /\ now' = now
                /\ Quiet \/ \E c \in Execs : Begins(c) /\ Others(c)
  BY <1>8, HostStory
<1>9. ASSUME NEW e \in Execs, Kill(e) \/ Expire(e)
      PROVE  mishap \subseteq mishap' /\ newest' = newest /\ now' = now /\ Quiet
  BY <1>3, <1>4, <1>9 DEF Kill, Expire
<1>10. CASE \E e \in Execs : Node(e)
  BY <1>7, <1>10
<1>11. CASE \E e \in Execs : Host(e)
  BY <1>8, <1>11
<1> QED BY <1>1, <1>5, <1>6, <1>9, <1>10, <1>11 DEF Next

\* Executions, once begun, know when, and of whom they could not know.
Starts ==
    /\ \A e \in Execs : HostAt(e, "idle") => ~x[e].saved /\ ~x[e].passed
    /\ \A e \in Execs : ~HostAt(e, "idle") => x[e].at \in 1 .. now
    /\ \A e, a \in Execs :
          ~HostAt(e, "idle") /\ a \notin x[e].blind => x[a].saved /\ x[a].at =< x[e].at

\* The newest stamp is the last one, so is the one in a copy that was taken
\* after it, and a guard that passes has it behind its window.
NewestStamp == \A a \in Execs : x[a].saved => x[a].at =< newest["stamp"]

CopySees ==
    \A e, a \in Execs :
        Running(e) /\ ~x[e].null /\ a \notin x[e].blind => x[a].at =< x[e].copy["stamp"]

PassesApart ==
    \A e, a \in Execs :
        x[e].passed /\ a \notin x[e].blind => x[a].at + Window =< x[e].at

Guarded == Starts /\ (mishap # {} \/ (NewestStamp /\ CopySees /\ PassesApart))

LEMMA Ats ==
    ASSUME TypeOK
    PROVE  /\ \A a \in Execs : x[a].at \in Nat /\ x[a].copy["stamp"] \in Nat
           /\ \A a \in Execs : x[a].blind \subseteq Execs
           /\ newest["stamp"] \in Nat /\ now \in Nat \ {0} /\ Window \in Nat \ {0}
<1>1. \A r \in ExecRecords : r.at \in Nat /\ r.copy["stamp"] \in Nat /\ r.blind \subseteq Execs
  BY DEF ExecRecords, Maps, StateKeys
<1>2. newest["stamp"] \in Nat /\ now \in Nat \ {0}
  BY DEF TypeOK, Maps, StateKeys
<1>3. Window \in Nat \ {0}
  BY LimitsAssumption
<1> QED BY <1>1, <1>2, <1>3 DEF TypeOK

LEMMA StartsKept ==
    ASSUME TypeOK, AllBalanced, Starts, [Next]_vars
    PROVE  Starts'
<1>0. now \in Nat /\ \A a \in Execs : x[a].at \in Nat
  BY Ats
<1>1. CASE Quiet /\ now' \in {now, now + 1}
  BY <1>0, <1>1 DEF Quiet, SameStory, Starts, HostAt
<1>2. ASSUME NEW c \in Execs, Begins(c), Others(c), now' = now
      PROVE  Starts'
  <2>1. /\ x'[c].host = "scan" /\ ~x'[c].saved /\ ~x'[c].passed /\ x'[c].at = now
        /\ x'[c].blind = {a \in Execs : ~x[a].saved}
    BY <1>2 DEF Begins, Started, Unused
  <2>2. HostAt(c, "idle") /\ ~x[c].saved /\ now \in 1 .. now
    BY <1>2, Ats DEF Begins, Starts
  <2>3. \A a \in Execs \ {c} :
           /\ HostAt(a, "idle") <=> HostAt(a, "idle")'
           /\ x'[a].at = x[a].at /\ x'[a].passed = x[a].passed
           /\ x'[a].blind = x[a].blind /\ x'[a].saved = x[a].saved
    BY <1>2 DEF Others, SameStory, HostAt
  <2>4. \A a \in Execs : x[a].saved => x[a].at =< now /\ a # c
    BY <1>0, <2>2 DEF Starts
  <2>5. ASSUME NEW e \in Execs, NEW a \in Execs, ~HostAt(e, "idle")', a \notin x'[e].blind
        PROVE  x'[a].saved /\ x'[a].at =< x'[e].at
    <3>1. CASE e = c
      BY <2>1, <2>3, <2>4, <2>5, <3>1
    <3>2. CASE e # c
      BY <2>2, <2>3, <2>5, <3>2 DEF Starts
    <3> QED BY <3>1, <3>2
  <2> QED BY <1>2, <2>1, <2>2, <2>3, <2>5 DEF Starts, HostAt
<1>3. ASSUME NEW e \in Execs, Passes(e), Running(e), Others(e), now' = now
      PROVE  Starts'
  <2>1. ~HostAt(e, "idle") /\ x'[e].host = x[e].host /\ x'[e].at = x[e].at
        /\ x'[e].blind = x[e].blind /\ x'[e].saved = x[e].saved
    BY <1>3 DEF Passes, Running, HostAt
  <2>2. \A a \in Execs :
           /\ HostAt(a, "idle") <=> HostAt(a, "idle")'
           /\ x'[a].at = x[a].at /\ x'[a].blind = x[a].blind /\ x'[a].saved = x[a].saved
           /\ a # e => x'[a].passed = x[a].passed
    BY <1>3, <2>1 DEF Others, SameStory, HostAt
  <2> QED BY <1>3, <2>1, <2>2 DEF Starts
<1>4. ASSUME NEW e \in Execs, SaveState(e)
      PROVE  Starts'
  <2>1. ~HostAt(e, "idle") /\ now' = now
    BY <1>4 DEF SaveState, HostAt
  <2>2. \A a \in Execs :
           /\ HostAt(a, "idle") <=> HostAt(a, "idle")'
           /\ x'[a].at = x[a].at /\ x'[a].blind = x[a].blind
           /\ x'[a].passed = x[a].passed
    BY <1>4, SaveStory DEF SameStory, HostAt
  <2>3. \A a \in Execs : /\ x[a].saved => x'[a].saved
                         /\ x'[a].saved => x[a].saved \/ a = e
    BY <1>4, SaveStory DEF Others
  <2> QED BY <2>1, <2>2, <2>3 DEF Starts
<1> QED BY <1>1, <1>2, <1>3, <1>4, StepStory

LEMMA GuardedKept ==
    ASSUME TypeOK, AllBalanced, StateFollows, Guarded, [Next]_vars
    PROVE  Guarded'
<1> DEFINE Rest == NewestStamp /\ CopySees /\ PassesApart
<1>1. SUFFICES ASSUME Starts, mishap' = {}
               PROVE  mishap = {} /\ Rest => Rest'
  <2>1. mishap \subseteq mishap'
    BY StepStory DEF SaveState
  <2>2. Starts /\ Starts'
    BY StartsKept DEF Guarded
  <2> QED BY <1>1, <2>1, <2>2 DEF Guarded
<1>2. SUFFICES ASSUME mishap = {}, Rest
               PROVE  Rest'
  OBVIOUS
<1>0. /\ \A a \in Execs : x[a].at \in Nat /\ x[a].copy["stamp"] \in Nat
      /\ newest["stamp"] \in Nat /\ now \in Nat \ {0} /\ Window \in Nat \ {0}
  BY Ats
<1>3. CASE Quiet /\ newest' = newest
  BY <1>2, <1>3 DEF Quiet, SameStory, NewestStamp, CopySees, PassesApart, Running
<1>4. ASSUME NEW c \in Execs, Begins(c), Others(c), newest' = newest
      PROVE  Rest'
  <2>1. /\ ~x'[c].saved /\ ~x'[c].passed /\ x'[c].null = ~Readable
        /\ x'[c].copy = IF Readable THEN Loaded ELSE Blank
        /\ x'[c].blind = {a \in Execs : ~x[a].saved}
    BY <1>4 DEF Begins, Started, Unused
  <2>2. ~x[c].saved
    BY <1>1, <1>4 DEF Begins, Starts
  <2>3. \A a \in Execs \ {c} :
           /\ x'[a].at = x[a].at /\ x'[a].passed = x[a].passed
           /\ x'[a].blind = x[a].blind /\ x'[a].saved = x[a].saved
           /\ Running(a)' => Running(a) /\ x'[a].null = x[a].null
                               /\ x'[a].copy["stamp"] = x[a].copy["stamp"]
           /\ x[a].passed \/ Running(a) => ~HostAt(a, "idle")
    BY <1>1, <1>4 DEF Others, SameStory, HostAt, Running, Starts
  <2>4. \A a \in Execs \ {c} :
           ~HostAt(a, "idle") => c \in x[a].blind
    BY <1>1, <2>2 DEF Starts
  <2>5. Readable => Loaded["stamp"] = newest["stamp"]
    <3>1. Misread = {}
      BY <1>1, <1>4 DEF Begins
    <3> QED BY <1>2, <3>1 DEF Readable, Loaded, Misread, StateFollows, Lost, TypeOK
  <2>6. NewestStamp'
    BY <1>2, <1>4, <2>1, <2>3 DEF NewestStamp
  <2>7. CopySees'
    <3> SUFFICES ASSUME NEW e \in Execs, NEW a \in Execs,
                        Running(e)', ~x'[e].null, a \notin x'[e].blind
                 PROVE  x'[a].at =< x'[e].copy["stamp"]
      BY DEF CopySees
    <3>1. CASE e = c
      <4>1. x[a].saved /\ a # c
        BY <2>1, <2>2, <3>1
      <4>2. x[a].at =< newest["stamp"]
        BY <1>2, <4>1 DEF NewestStamp
      <4> QED BY <2>1, <2>3, <2>5, <3>1, <4>1, <4>2
    <3>2. CASE e # c
      BY <1>2, <2>3, <2>4, <3>2 DEF CopySees
    <3> QED BY <3>1, <3>2
  <2>8. PassesApart'
    <3> SUFFICES ASSUME NEW e \in Execs, NEW a \in Execs,
                        x'[e].passed, a \notin x'[e].blind
                 PROVE  x'[a].at + Window =< x'[e].at
      BY DEF PassesApart
    <3>1. e # c
      BY <2>1
    <3> QED BY <1>2, <2>3, <2>4, <3>1 DEF PassesApart
  <2> QED BY <2>6, <2>7, <2>8
<1>5. ASSUME NEW e \in Execs, Passes(e), Running(e), Others(e), newest' = newest
      PROVE  Rest'
  <2>1. /\ ~x[e].null /\ x'[e].at = x[e].at /\ x'[e].blind = x[e].blind
        /\ x'[e].saved = x[e].saved /\ x'[e].copy["stamp"] = x[e].at
        /\ ~HostAt(e, "idle")
    BY <1>5 DEF Passes, Running, HostAt
  <2>2. \A a \in Execs :
           /\ x'[a].at = x[a].at /\ x'[a].blind = x[a].blind /\ x'[a].saved = x[a].saved
           /\ a # e => /\ x'[a].passed = x[a].passed
                       /\ Running(a)' => Running(a) /\ x'[a].null = x[a].null
                               /\ x'[a].copy["stamp"] = x[a].copy["stamp"]
    BY <1>5, <2>1 DEF Others, SameStory, Running
  <2>3. ASSUME NEW a \in Execs, a \notin x[e].blind
        PROVE  x[a].at =< x[e].at /\ x[a].at + Window =< x[e].at
    <3>1. x[a].saved /\ x[a].at =< x[e].at /\ x[a].at > 0
      BY <1>0, <1>1, <2>1, <2>3 DEF Starts
    <3>2. x[a].at =< x[e].copy["stamp"]
      BY <1>2, <1>5, <2>1, <2>3 DEF CopySees
    <3>3. x[e].copy["stamp"] # 0
      BY <1>0, <3>1, <3>2
    <3>4. ~(x[e].at - x[e].copy["stamp"] < Window)
      BY <1>5, <3>3 DEF Passes, Within
    <3> QED BY <1>0, <3>1, <3>2, <3>4
  <2>4. NewestStamp'
    BY <1>2, <1>5, <2>2 DEF NewestStamp
  <2>5. CopySees'
    BY <1>2, <2>1, <2>2, <2>3 DEF CopySees
  <2>6. PassesApart'
    BY <1>2, <2>2, <2>3 DEF PassesApart
  <2> QED BY <2>4, <2>5, <2>6
<1>6. ASSUME NEW e \in Execs, SaveState(e)
      PROVE  Rest'
  <2>1. \A a \in Execs :
           /\ x'[a].at = x[a].at /\ x'[a].blind = x[a].blind
           /\ x'[a].passed = x[a].passed
           /\ Running(a)' => Running(a) /\ x'[a].null = x[a].null
                               /\ x'[a].copy["stamp"] = x[a].copy["stamp"]
           /\ x'[a].saved <=> x[a].saved \/ (a = e /\ x[e].op = "stamp")
    BY <1>6, SaveStory DEF SameStory, Running, Others
  <2>2. mishap' = mishap \cup Mishaps(e) /\ newest' = Applied(e, newest)
    BY <1>6 DEF SaveState
  <2>3. newest["stamp"] =< newest'["stamp"]
        /\ (x[e].op = "stamp" => newest'["stamp"] = x[e].at)
    <3>1. newest \in Maps /\ x[e].op \in StateOps
      BY DEF TypeOK, ExecRecords
    <3>2. CASE x[e].op = "stamp"
      <4>1. ~(x[e].at < newest["stamp"])
        BY <1>1, <2>2, <3>2 DEF Mishaps
      <4>2. newest'["stamp"] = x[e].at
        BY <2>2, <3>1, <3>2 DEF Applied, Maps, StateKeys
      <4> QED BY <1>0, <4>1, <4>2
    <3>3. CASE x[e].op \in {"set", "delete"}
      <4>1. newest'["stamp"] = newest["stamp"]
        BY <2>2, <3>1, <3>3 DEF Applied, Maps, StateKeys
      <4> QED BY <1>0, <3>3, <4>1
    <3> QED BY <3>1, <3>2, <3>3 DEF StateOps
  <2>4. NewestStamp'
    <3> SUFFICES ASSUME NEW a \in Execs, x'[a].saved
                 PROVE  x'[a].at =< newest'["stamp"]
      BY DEF NewestStamp
    <3>1. newest'["stamp"] \in Nat
      <4>1. TypeOK'
        BY <1>6, HostTypes DEF Host
      <4> QED BY <4>1 DEF TypeOK, Maps, StateKeys
    <3>2. CASE x[a].saved
      BY <1>0, <1>2, <2>1, <2>3, <3>1, <3>2 DEF NewestStamp
    <3>3. CASE a = e /\ x[e].op = "stamp"
      BY <1>0, <2>1, <2>3, <3>3
    <3> QED BY <2>1, <3>2, <3>3
  <2>5. CopySees' /\ PassesApart'
    BY <1>2, <2>1 DEF CopySees, PassesApart
  <2> QED BY <2>4, <2>5
<1> QED BY <1>3, <1>4, <1>5, <1>6, StepStory

\* Two scripts pass one guard within its window only if neither could know of
\* the other when it took its copy of the state, or after a mishap that is
\* named: a lost key, a half-written file, or a pass saved late.
THEOREM GuardsHold == Spec => []GuardFailsOnlyBlind
<1>1. Init => Guarded
  BY DEF Init, Unused, Guarded, Starts, NewestStamp, CopySees, PassesApart, HostAt,
         Running, Over
<1>2. TypeOK /\ AllBalanced /\ StateFollows /\ Guarded /\ [Next]_vars => Guarded'
  BY GuardedKept
<1>3. TypeOK /\ Guarded => GuardFailsOnlyBlind
  <2> SUFFICES ASSUME TypeOK, Guarded, mishap = {}, NEW a \in Execs, NEW b \in Execs,
                      x[a].passed, x[b].passed, x[a].at - x[b].at \in 0 .. Window - 1
               PROVE  a \in x[b].blind /\ b \in x[a].blind
    BY DEF GuardFailsOnlyBlind
  <2>1. /\ a \notin x[b].blind => x[a].at + Window =< x[b].at
        /\ b \notin x[a].blind => x[b].at + Window =< x[a].at
    BY DEF Guarded, PassesApart
  <2>2. x[a].at \in Nat /\ x[b].at \in Nat /\ Window \in Nat \ {0}
    BY Ats
  <2> QED BY <2>1, <2>2
<1> QED BY <1>1, <1>2, <1>3, TypeCorrect, NothingMislaid, StateIsFollowed, PTL DEF Spec
=============================================================================
