---------------------------- MODULE AutoSchedulerMC ----------------------------
(* Two automations due at 00:01 UTC: the older one waits for the newer.    *)
EXTENDS AutoScheduler

At(minute) == [zone |-> 0, change |-> 0, zoneAfter |-> 0,
               sun |-> NoSun, at |-> minute, shift |-> 0]

SameMinute == [s \in {1, 2} |-> At(1)]
=============================================================================
