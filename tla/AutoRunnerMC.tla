----------------------------- MODULE AutoRunnerMC -----------------------------
(* Two automations share one dispatcher; one goroutine slot more than      *)
(* AtMostOneRun allows, so that a second run of an automation has room.    *)
EXTENDS AutoRunner, FiniteSets

Slots == 1 .. Cardinality(Specs) + 1
=============================================================================
