---------------------------- MODULE DukaNativeMC ----------------------------
(* Two units: one with a configured address or reached by broadcast, one   *)
(* with an old address or still to be found.  `dukaone discover` searches  *)
(* as `dukaone add` does and then reads as a refresh does; it is not run.  *)
EXTENDS DukaNative, TLC

CONSTANTS p1, p2, d1, d2, a1, a2, a3

Given(s, o) == "speed" :> s @@ "isOn" :> o

Job(kind, d, s, o) == [kind |-> kind, dev |-> d, attrs |-> Given(s, o)]

Two ==
    p1 :> { Job("refresh", d1, Unknown, Unknown),
            Job("add", d1, Unknown, Unknown),
            Job("set", d1, 1, 1) }
    @@
    p2 :> { Job("devset", d1, Unknown, 0),
            Job("set", d1, 1, Unknown),
            Job("set", d1, Bad, 1) }

\* One command on an idle machine, and nothing goes wrong.
OneSetting == p1 :> {Job("set", d1, 1, 1)}

\* d1 has an address or is reached by broadcast, d2 is configured with an
\* old address or not at all.
Places ==
    [ regs : {d1 :> Given(0, 0) @@ d2 :> Given(1, 1)},
      addr : {d1 :> a1 @@ d2 :> a2},
      config : {d1 :> a1 @@ d2 :> a3, d1 :> Broadcast @@ d2 :> NotThere} ]
=============================================================================
