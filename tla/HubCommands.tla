---------------------------- MODULE HubCommands ----------------------------
(***************************************************************************)
(* The commands that make scenes on one hub, side by side: AutosFile makes *)
(* the scenes of automations and SpeakerSound the temporary ones of hub    *)
(* speakers (src/internal/cli/cli.go).                                     *)
(***************************************************************************)
EXTENDS AutosFile, SpeakerSound

\* The scene of a sound is told from those of the specifications.
ASSUME TempAssumption == Temp \notin Specs

vars == <<hub, bounds, autosVars, soundVars>>

Init == HubInit /\ AutosInit /\ SoundInit

Next ==
    \/ AutosNext /\ UNCHANGED soundVars
    \/ SoundNext /\ UNCHANGED autosVars

Spec == Init /\ [][Next]_vars

-----------------------------------------------------------------------------
(* Properties: besides those of the two parts, one of both.                *)

\* The parts have their types, and no two scenes ever have one id.
TypeOK ==
    /\ AutosTypeOK /\ SoundTypeOK
    /\ made \in Nat
    /\ started \in Nat
    /\ troubles \in Nat
    /\ mishaps \subseteq {"lost", "undeleted", "killed", "left", "overlapped", "unsaved"}
    /\ scenes \subseteq [id : SceneIds, of : Specs \cup {Temp}]
    /\ \A x \in scenes : x.id <= made /\ x.id \notin removed
    /\ removed \subseteq 0 .. made
    /\ unnamed \subseteq [id : 1 .. made, of : Specs \cup {Temp}]

AtRest ==
    /\ \A p \in AutoProcs : auto[p].pc = "idle"
    /\ \A p \in SoundProcs : sound[p].pc \in {"idle", "ended"}

\* When all commands have ended, every scene they made is noted with its
\* automation, or left by one deleted since, unless its maker was not told its
\* id, or an answer was lost, a process killed or ended inside, a deletion
\* refused, autos.json not saved, or two saves overlapped (cli.go, autoApply
\* and playHubSpeakerSound).
StraySceneNeedsCause ==
    AtRest /\ mishaps = {} =>
        \A x \in scenes \ unnamed :
            /\ x.of # Temp
            /\ \/ x.id \in file.specs[x.of].notes
               \/ x.of \notin owed
=============================================================================
