----------------------------- MODULE AutosFile -----------------------------
(***************************************************************************)
(* autos.json (src/internal/autos/store.go) and the commands that read and *)
(* write it: auto add, apply, delete, list (src/internal/cli/cli.go).      *)
(*                                                                         *)
(* Every command loads the whole file, changes its copy and writes it back *)
(* in place, truncating first.  `auto apply` of a specification without a  *)
(* script creates a scene on the hub before it saves; `scenes delete` is   *)
(* here because it takes such scenes away again.                           *)
(***************************************************************************)
EXTENDS HubScenes, FiniteSets

CONSTANTS
    AutoProcs,  \* processes that run the commands
    Form,       \* what each specification is made of
    AutoJobs    \* the commands each process runs

Specs == DOMAIN Form
Forms == {"active",   \* a script that activates itself when added
          "script",          \* a script that waits for `auto apply`
          "scene",           \* device actions, as an earlier release stored them
          "nothing"}         \* neither: what today's planner yields without a script

ASSUME FormAssumption == Form \in [Specs -> Forms] /\ Specs # {}
ASSUME AutoJobsAssumption ==
    AutoJobs \in [AutoProcs -> SUBSET [op : {"add", "apply", "delete", "list", "unscene"},
                                      spec : Specs]]

VARIABLES
    file,   \* autos.json: does it parse, and the specifications in it
    auto,   \* what each process is doing
    owed    \* history: specifications added and not deleted, as the commands reported

autosVars == <<file, auto, owed>>

Absent == [status |-> "absent", notes |-> {}]
Statuses == {"absent", "pending_review", "applied", "apply_blocked"}
Stores == [Specs -> [status : Statuses, notes : SUBSET SceneIds]]

AutoIdle == [pc |-> "idle", op |-> "list", spec |-> CHOOSE s \in Specs : TRUE,
             copy |-> [s \in Specs |-> Absent], stale |-> FALSE, overtaken |-> FALSE,
             target |-> 0]

\* Specifications of an earlier release may be there.
AutosInit ==
    /\ \E old \in SUBSET {s \in Specs : Form[s] = "scene"} :
          /\ file = [ok |-> TRUE,
                     specs |-> [s \in Specs |->
                        IF s \in old THEN [Absent EXCEPT !.status = "pending_review"] ELSE Absent]]
          /\ owed = old
    /\ auto = [p \in AutoProcs |-> AutoIdle]

Do(p, new) == auto' = [auto EXCEPT ![p] = new]

-----------------------------------------------------------------------------
(* Commands up to the save.                                                *)

\* Ids are random: no specification is added twice.
BeginAuto(p, job) ==
    /\ auto[p].pc = "idle"
    /\ StartCommand
    /\ job.op = "add" => /\ Form[job.spec] # "scene"
                         /\ job.spec \notin owed
                         /\ \A q \in AutoProcs :
                               auto[q].pc # "idle" /\ auto[q].op = "add" => auto[q].spec # job.spec
    /\ IF job.op = "unscene"
       THEN \E x \in scenes : Do(p, [AutoIdle EXCEPT !.pc = "unscene", !.op = "unscene",
                                                     !.target = x.id])
       ELSE Do(p, [AutoIdle EXCEPT !.pc = "load", !.op = job.op, !.spec = job.spec])
    /\ UNCHANGED <<hub, file, owed>>

\* What a command makes of the specification it is about.
Marked(old, op, s) ==
    CASE op = "delete" -> Absent
      [] op = "add" -> [Absent EXCEPT !.status = IF Form[s] = "active" THEN "applied"
                                                 ELSE "pending_review"]
      [] op = "apply" -> [old EXCEPT !.status = IF Form[s] = "nothing" THEN "apply_blocked"
                                                ELSE "applied"]

\* Mutant: a file that does not parse is taken for an empty one.
ForgivingLoad(f) == [ok |-> TRUE, specs |-> IF f.ok THEN f.specs ELSE [s \in Specs |-> Absent]]

\* Load: an error unless the file parses; a missing file is an empty one.
Loaded(f) == f

\* Load, Find, and the change of the copy, up to the first effect on the outside.
LoadAutos(p) ==
    /\ auto[p].pc = "load"
    /\ LET r == auto[p]
           f == Loaded(file)
           found == r.op = "add" \/ f.specs[r.spec].status # "absent"
           goesOn == f.ok /\ r.op # "list" /\ found
           viaScene == r.op = "apply" /\ Form[r.spec] = "scene"
           changed == [f.specs EXCEPT ![r.spec] = Marked(@, r.op, r.spec)]
       IN Do(p, IF goesOn
                THEN [r EXCEPT !.pc = IF viaScene THEN "post" ELSE "save",
                               !.copy = changed]
                ELSE AutoIdle)
    /\ UNCHANGED <<hub, bounds, file, owed>>

Noted(copy, s, id) == [copy EXCEPT ![s].notes = @ \cup {id}]

\* Mutant: the specification is saved as applied whatever the hub said.
AlwaysApplied(o) == "save"

\* Only an answered POST is followed by the save, with or without an id in it.
AfterPost(o) == IF o \in {"ok", "blank"} THEN "save" ELSE "idle"

\* The id is noted if the answer has one.
ApplyScene(p, o) ==
    /\ auto[p].pc = "post"
    /\ CreateScene(auto[p].spec, o)
    /\ LET r == auto[p]
       IN Do(p, IF AfterPost(o) = "save"
                THEN [r EXCEPT !.pc = "save",
                               !.copy = IF o = "ok" THEN Noted(@, r.spec, made + 1) ELSE @]
                ELSE AutoIdle)
    /\ UNCHANGED <<file, owed>>

DeleteSceneByName(p, o) ==
    /\ auto[p].pc = "unscene"
    /\ DeleteScene(auto[p].target, o)
    /\ Do(p, AutoIdle)
    /\ UNCHANGED <<file, owed>>

-----------------------------------------------------------------------------
(* Save: truncate, write.                                                  *)

HasCopy(q) == auto[q].pc \in {"post", "save", "write"}

\* Everybody else's copy is out of date from here on.
TruncateAutos(p) ==
    /\ auto[p].pc = "save"
    /\ file' = [file EXCEPT !.ok = FALSE]
    /\ auto' = [q \in AutoProcs |->
                  IF q = p THEN [auto[p] EXCEPT !.pc = "write"]
                  ELSE IF HasCopy(q) THEN [auto[q] EXCEPT !.stale = TRUE] ELSE auto[q]]
    /\ mishaps' = IF auto[p].stale THEN mishaps \cup {"overlapped"} ELSE mishaps
    /\ UNCHANGED <<hub, started, troubles, owed>>

Present(specs) == {s \in Specs : specs[s].status # "absent"}

\* The text goes over what another writer has written since: the end of a
\* longer text stays behind it.
WriteAutos(p, garbled) ==
    /\ auto[p].pc = "write"
    /\ garbled => auto[p].overtaken /\ auto[p].copy # file.specs
    /\ file' = [ok |-> ~garbled, specs |-> auto[p].copy]
    /\ auto' = [q \in AutoProcs |->
                  IF q = p THEN AutoIdle
                  ELSE IF auto[q].pc = "write" THEN [auto[q] EXCEPT !.overtaken = TRUE]
                  ELSE auto[q]]
    /\ owed' = CASE auto[p].op = "add" -> owed \cup {auto[p].spec}
                 [] auto[p].op = "delete" -> owed \ {auto[p].spec}
                 [] OTHER -> owed
    /\ UNCHANGED <<hub, bounds>>

KillAuto(p) ==
    /\ auto[p].pc \in {"post", "save", "write"}
    /\ Mishap({"killed"})
    /\ Do(p, AutoIdle)
    /\ UNCHANGED <<hub, file, owed>>

\* autos.Save fails before it truncates the file, or after.
SaveFails(p) ==
    /\ auto[p].pc \in {"save", "write"}
    /\ Mishap({"unsaved"})
    /\ Do(p, AutoIdle)
    /\ UNCHANGED <<hub, file, owed>>

AutoStep(p) ==
    \/ \E job \in AutoJobs[p] : BeginAuto(p, job)
    \/ LoadAutos(p)
    \/ \E o \in PostOutcomes : ApplyScene(p, o)
    \/ \E o \in Outcomes : DeleteSceneByName(p, o)
    \/ TruncateAutos(p)
    \/ \E garbled \in BOOLEAN : WriteAutos(p, garbled)
    \/ KillAuto(p) \/ SaveFails(p)

AutosNext == \E p \in AutoProcs : AutoStep(p)

-----------------------------------------------------------------------------
(* Properties.                                                             *)

AutoRecords ==
    [pc : {"idle", "load", "post", "save", "write", "unscene"},
     op : {"add", "apply", "delete", "list", "unscene"}, spec : Specs, copy : Stores,
     stale : BOOLEAN, overtaken : BOOLEAN, target : Nat]

\* The file holds a list of specifications, and so does every copy.
AutosTypeOK ==
    /\ file \in [ok : BOOLEAN, specs : Stores]
    /\ owed \subseteq Specs
    /\ auto \in [AutoProcs -> AutoRecords]

Writing == \E p \in AutoProcs : auto[p].pc = "write"

\* Unless two commands overlapped, the file holds between two writes what the
\* commands have reported, and only a kill or a failing write leaves one that no
\* command can parse (cli.go, autoAdd, autoApply and autoDelete over store.go,
\* Load and Save): a command that meets such a file does not start from an
\* empty one.
SpecsKept ==
    ~Writing /\ "overlapped" \notin mishaps
    => IF file.ok THEN owed = Present(file.specs)
       ELSE mishaps \cap {"killed", "unsaved"} # {}

\* A specification stored as applied through a scene has one that was made for
\* it, on the hub still or deleted by request (cli.go, autoApply): a scene that
\* is noted with it or one whose id the hub did not tell.
AppliedHasScene ==
    \A s \in Specs :
        Form[s] = "scene" /\ file.specs[s].status = "applied"
        => \/ \E id \in file.specs[s].notes :
                 id \in removed \/ [id |-> id, of |-> s] \in scenes
           \/ \E x \in unnamed : x.of = s /\ (x.id \in removed \/ x \in scenes)
=============================================================================
