----------------------------- MODULE HubScenes -----------------------------
(***************************************************************************)
(* The scenes of the hub, seen from the commands that make and delete them *)
(* (src/internal/client/client.go, Post and Delete).  The hub is external: *)
(* a request is carried out and answered, refused, or carried out with the *)
(* answer lost, which the caller cannot tell from a refusal.  The answer   *)
(* to the creation of a scene may have no id: decodeResponse takes an      *)
(* empty body for an answer.                                               *)
(***************************************************************************)
EXTENDS Naturals

CONSTANTS
    MaxCommands,  \* bound: commands started
    MaxTrouble    \* bound: requests refused, lost or answered without an id,
                  \* failing saves and processes killed

ASSUME HubBoundsAssumption == MaxCommands \in Nat /\ MaxTrouble \in Nat

VARIABLES
    scenes,    \* the scenes on the hub: their ids and what made them
    made,      \* scenes made so far
    removed,   \* history: ids of the scenes deleted by request
    unnamed,   \* history: the scenes whose id was never told to their maker
    started,   \* commands started
    troubles,  \* what has gone wrong so far, see MaxTrouble
    mishaps    \* history: the kinds of mishap that excuse a stray scene or a torn file

hub == <<scenes, made, removed, unnamed>>
bounds == <<started, troubles, mishaps>>

SceneIds == Nat \ {0}
Outcomes == {"ok", "refused", "lost"}
PostOutcomes == Outcomes \cup {"blank"}

HubInit ==
    /\ scenes = {}
    /\ made = 0
    /\ removed = {}
    /\ unnamed = {}
    /\ started = 0
    /\ troubles = 0
    /\ mishaps = {}

StartCommand ==
    /\ started < MaxCommands
    /\ started' = started + 1
    /\ UNCHANGED <<troubles, mishaps>>

Mishap(kinds) ==
    /\ troubles < MaxTrouble
    /\ troubles' = troubles + 1
    /\ mishaps' = mishaps \cup kinds
    /\ UNCHANGED started

\* What the outcome of a request counts for.
Answered(o) == IF o = "ok" THEN UNCHANGED bounds ELSE Mishap({"lost"} \cap {o})

CreateScene(of, o) ==
    /\ LET scene == [id |-> made + 1, of |-> of]
       IN IF o = "refused" THEN UNCHANGED <<scenes, made, unnamed>>
          ELSE /\ made' = made + 1
               /\ scenes' = scenes \cup {scene}
               /\ unnamed' = IF o = "blank" THEN unnamed \cup {scene} ELSE unnamed
    /\ UNCHANGED removed
    /\ Answered(o)

\* The hub refuses to trigger a scene it does not have.
TriggerScene(id, o) ==
    /\ UNCHANGED hub
    /\ IF \E x \in scenes : x.id = id THEN Answered(o) ELSE o = "refused" /\ UNCHANGED bounds

DeleteScene(id, o) ==
    /\ scenes' = IF o = "refused" THEN scenes ELSE {x \in scenes : x.id # id}
    /\ removed' = IF o = "refused" THEN removed ELSE removed \cup {id}
    /\ UNCHANGED <<made, unnamed>>
    /\ IF o = "refused" THEN Mishap({"undeleted"}) ELSE Answered(o)
=============================================================================
