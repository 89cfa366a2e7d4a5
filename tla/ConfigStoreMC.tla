---------------------------- MODULE ConfigStoreMC ----------------------------
(* One process runs every command, a second one two that set and pair.     *)
(* Hubs are interchangeable: no property tells them apart.                 *)
EXTENDS ConfigStore, TLC

CONSTANTS p1, p2

TwoProcs == {p1, p2}

AllAndTwo ==
    p1 :> {"set", "pair", "refresh", "speaker", "device", "ask"} @@ p2 :> {"set", "pair"}

Symmetry == Permutations(Hubs)
=============================================================================
