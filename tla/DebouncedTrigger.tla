--------------------------- MODULE DebouncedTrigger ---------------------------
(***************************************************************************)
(* What the automation runner promises about event-triggered scripts,      *)
(* stated without generations, mutexes and maps: an automation runs at     *)
(* most once at a time, and two starts are at least Debounce apart unless  *)
(* the process was replaced in between.                                    *)
(***************************************************************************)
EXTENDS Integers

CONSTANTS Specs, Debounce

VARIABLES now, running, lastStart

vars == <<now, running, lastStart>>

Never == -Debounce

Init ==
    /\ now = 0
    /\ running = {}
    /\ lastStart = [s \in Specs |-> Never]

Pass ==
    /\ now' = now + 1
    /\ UNCHANGED <<running, lastStart>>

Start(s) ==
    /\ s \notin running
    /\ now - lastStart[s] >= Debounce
    /\ running' = running \cup {s}
    /\ lastStart' = [lastStart EXCEPT ![s] = now]
    /\ UNCHANGED now

Finish(s) ==
    /\ s \in running
    /\ running' = running \ {s}
    /\ UNCHANGED <<now, lastStart>>

\* The process exits or is replaced: its runs and its memory are gone.
Forget ==
    /\ running' = {}
    /\ lastStart' = [s \in Specs |-> Never]
    /\ UNCHANGED now

Next ==
    \/ Pass
    \/ \E s \in Specs : Start(s) \/ Finish(s)
    \/ Forget

Spec == Init /\ [][Next]_vars
=============================================================================
