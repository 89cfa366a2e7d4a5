---------------------------- MODULE SpeakerSound ----------------------------
(***************************************************************************)
(* Sounds and media on speakers (src/internal/cli/cli.go, speakerSound,    *)
(* speakerPlay and the speaker service of scripts).                        *)
(*                                                                         *)
(* Speakers are found by a search that may miss some of them, and the last *)
(* list found is cached without addresses: only the local and the hub's    *)
(* speakers can be played on from the cache.  `speaker play` of a built-in *)
(* sound tries the cache and then, when anything at all failed, a search.  *)
(* Hub speakers come last, through a temporary scene that is created,      *)
(* triggered and deleted.  An automation's script does not wait for the    *)
(* sound it starts.  Speakers and the search are external.                 *)
(***************************************************************************)
EXTENDS HubScenes, FiniteSets, Sequences, Functions

CONSTANTS
    SoundProcs,  \* processes that play
    Kind,        \* the speakers: local, cast, airplay or hub
    ByName,      \* the speakers in the order of their names
    Names,       \* the words of a query: the speakers that have or contain it
    Houses,      \* the sets of speakers there may be
    SoundJobs    \* the commands each process runs

Speakers == DOMAIN Kind
All == "speaker-all"
Temp == "temporary"

OfKind(kinds) == {s \in Speakers : Kind[s] \in kinds}

ASSUME KindAssumption ==
    /\ Kind \in [Speakers -> {"local", "cast", "airplay", "hub"}]
    /\ Cardinality(OfKind({"local"})) = 1
ASSUME ByNameAssumption == ByName \in Bijection(1 .. Cardinality(Speakers), Speakers)
ASSUME HousesAssumption == Houses \subseteq SUBSET Speakers
ASSUME NamesAssumption ==
    \A w \in DOMAIN Names :
        w # All /\ Names[w].exact \subseteq Names[w].partial /\ Names[w].partial \subseteq Speakers
ASSUME SoundJobsAssumption ==
    \A p \in SoundProcs : \A job \in SoundJobs[p] :
        /\ job.by \in {"sound", "media", "id", "name"}
        /\ job.who \in IF job.by \in {"sound", "media"} THEN {"cli"} ELSE {"ask", "run", "test"}
        /\ job.parts \in Seq(DOMAIN Names \cup {All})
        /\ job.parts = <<>> => job.by = "sound"

VARIABLES
    live,    \* the speakers there are
    known,   \* the cached list
    sound    \* what each process is doing

soundVars == <<live, known, sound>>

SoundIdle == [pc |-> "idle", by |-> "sound", who |-> "cli", parts |-> <<>>,
              fromCache |-> FALSE, queue |-> {}, hubs |-> {}, scene |-> 0, erred |-> FALSE,
              nilErr |-> FALSE, said |-> "nothing", targets |-> {},
              heard |-> [s \in Speakers |-> 0], unsure |-> {}, again |-> FALSE, blind |-> FALSE]

\* Any list may be cached: the speakers of another day.
SoundInit ==
    /\ live \in Houses
    /\ known \in SUBSET Speakers
    /\ sound = [p \in SoundProcs |-> SoundIdle]

Now(p, new) == sound' = [sound EXCEPT ![p] = new]

-----------------------------------------------------------------------------
(* resolveSpeakerTargets.                                                  *)

\* A word: one exact match, or else one partial match.
Matches(entries, by, w) ==
    LET exact == entries \cap Names[w].exact
    IN IF exact # {} \/ by = "id" THEN exact ELSE entries \cap Names[w].partial

\* Mutant: the first of several matches will do.
AnyMatch(entries, by, parts) ==
    parts # <<>> /\ \A i \in DOMAIN parts :
        IF parts[i] = All THEN entries # {} ELSE Matches(entries, by, parts[i]) # {}

\* Every word must name one speaker.
Resolves(entries, by, parts) ==
    parts # <<>> /\ \A i \in DOMAIN parts :
        IF parts[i] = All THEN entries # {} ELSE Cardinality(Matches(entries, by, parts[i])) = 1

Chosen(entries, by, w) == IF w = All THEN entries ELSE Matches(entries, by, w)

\* The speakers in the place of the word that chose them.
Targets(place, chosen) == {[place |-> place, spk |-> s] : s \in chosen}

\* Mutant: a speaker named twice is played on twice.
NotDeduped(targets) == targets

\* dedupeSpeakerTargets: the first place of each.
Deduped(targets) == {t \in targets : \A u \in targets : u.spk = t.spk => t.place <= u.place}

Resolved(entries, by, parts) ==
    Deduped(UNION {Targets(i, Chosen(entries, by, parts[i])) : i \in DOMAIN parts})

\* A cached cast or AirPlay speaker has no address.
NeedsRefresh(targets) == \E t \in targets : Kind[t.spk] \in {"cast", "airplay"}

\* In the order of the words, and of the names where one word means all.
Before(t, u) ==
    \/ t.place < u.place
    \/ t.place = u.place /\ \E i, j \in DOMAIN ByName :
                                i < j /\ ByName[i] = t.spk /\ ByName[j] = u.spk

-----------------------------------------------------------------------------
(* From the command to its targets.                                        *)

Async(r) == r.who \in {"run", "test"}

\* runSpeakerSoundTargets and runSpeakerPlayTargets begin: an asynchronous
\* caller has its answer.
Playing(r, targets) ==
    [r EXCEPT !.pc = "play", !.queue = targets, !.targets = {t.spk : t \in targets},
              !.hubs = {}, !.erred = FALSE, !.said = IF Async(r) THEN "ok" ELSE @]

Ended(r, said) ==
    [r EXCEPT !.pc = "ended", !.queue = {}, !.hubs = {}, !.scene = 0, !.erred = FALSE,
              !.said = IF Async(r) /\ @ = "ok" THEN @ ELSE said]

\* One command per process.
BeginSound(p, job) ==
    /\ sound[p].pc = "idle"
    /\ StartCommand
    /\ LET r == [SoundIdle EXCEPT !.by = job.by, !.who = job.who, !.parts = job.parts]
       IN Now(p, CASE job.by = "sound" /\ job.parts = <<>> ->
                        Playing(r, Targets(0, OfKind({"local"})))
                   [] job.by = "sound" /\ job.parts # <<>> -> [r EXCEPT !.pc = "cache"]
                   [] job.by = "media" -> [r EXCEPT !.pc = "search"]
                   [] job.by \in {"id", "name"} -> [r EXCEPT !.pc = "snapshot"])
    /\ UNCHANGED <<live, known, hub>>

\* listAllSpeakers: the local speaker, the hub's if the hub answers, and of
\* the network's those that do.
Searches ==
    {found \in SUBSET live :
        /\ live \cap OfKind({"local"}) \subseteq found
        /\ found \cap OfKind({"hub"}) \in {{}, live \cap OfKind({"hub"})}}

LookInCache(p) ==
    /\ sound[p].pc = "cache"
    /\ LET r == [sound[p] EXCEPT !.blind = @ \/ known # live]
           targets == Resolved(known, r.by, r.parts)
           hit == Resolves(known, r.by, r.parts) /\ ~NeedsRefresh(targets)
       IN Now(p, IF hit THEN [Playing(r, targets) EXCEPT !.fromCache = TRUE]
                 ELSE [sound[p] EXCEPT !.pc = "search"])
    /\ UNCHANGED <<live, known, hub, bounds>>

\* snapshotTargets: what the ask has from the cache, or else a search; an
\* automation has nothing.
Snapshot(p, found) ==
    /\ sound[p].pc = "snapshot"
    /\ LET cached == sound[p].who = "ask" /\ known # {}
           entries == IF cached THEN known ELSE found
           r == [sound[p] EXCEPT !.blind = @ \/ entries # live]
           targets == Resolved(entries, r.by, r.parts)
           resolves == Resolves(entries, r.by, r.parts)
           stale == cached /\ resolves /\ NeedsRefresh(targets)
       IN Now(p, IF entries = {} THEN Ended(r, "error")
                 ELSE IF resolves /\ ~stale THEN Playing(r, targets)
                 ELSE [r EXCEPT !.pc = "fresh", !.nilErr = stale /\ r.by = "name"])
    /\ UNCHANGED <<live, known, hub, bounds>>

\* PlaySoundByName returns the error of the first resolution: there is none
\* when the name was found and only its address was missing.
Fresh(p, found) ==
    /\ sound[p].pc = "fresh"
    /\ LET r == [sound[p] EXCEPT !.blind = @ \/ found # live]
       IN Now(p, IF Resolves(found, r.by, r.parts) THEN Playing(r, Resolved(found, r.by, r.parts))
                 ELSE Ended(r, IF r.nilErr THEN "ok" ELSE "error"))
    /\ UNCHANGED <<live, known, hub, bounds>>

\* A search, persistSpeakerCache and the resolution, twice at most.
Search(p, found) ==
    /\ sound[p].pc \in {"search", "again"}
    /\ known' = IF found = {} THEN known ELSE found
    /\ LET r == [sound[p] EXCEPT !.blind = @ \/ found # live]
       IN Now(p, IF found = {} THEN Ended(r, "error")
                 ELSE IF Resolves(found, r.by, r.parts)
                      THEN Playing(r, Resolved(found, r.by, r.parts))
                 ELSE IF r.pc = "search" THEN [r EXCEPT !.pc = "again"]
                 ELSE Ended(r, "error"))
    /\ UNCHANGED <<live, hub, bounds>>

-----------------------------------------------------------------------------
(* Playing.                                                                *)

\* A failure in playing from the cache is an occasion to search.
Failed(r) ==
    IF r.fromCache
    THEN [r EXCEPT !.pc = "search", !.fromCache = FALSE, !.erred = FALSE, !.hubs = {},
                   !.scene = 0, !.queue = {}, !.again = TRUE]
    ELSE Ended(r, "error")

Hear(r, spk) == [r EXCEPT !.heard = [s \in Speakers |-> @[s] + IF s \in spk THEN 1 ELSE 0]]

\* runSpeakerPlayTargets: no hub speaker plays media.
Unplayable(r, s) == r.by = "media" /\ Kind[s] = "hub"

\* The next speaker: local, cast and AirPlay speakers play until done or
\* failed, before or after they were heard; a hub speaker waits.
PlayNext(p, o) ==
    /\ sound[p].pc = "play"
    /\ \E t \in sound[p].queue :
          /\ \A u \in sound[p].queue \ {t} : Before(t, u)
          /\ LET s == t.spk
                 r == [sound[p] EXCEPT !.queue = @ \ {t}]
             IN IF Kind[s] = "hub"
                THEN /\ o = "ok" /\ UNCHANGED bounds
                     /\ Now(p, IF Unplayable(r, s) THEN Failed(r)
                               ELSE [r EXCEPT !.hubs = @ \cup {s}])
                ELSE IF s \notin live
                THEN o = "refused" /\ UNCHANGED bounds /\ Now(p, Failed(r))
                ELSE /\ IF o = "ok" THEN UNCHANGED bounds ELSE Mishap({})
                     /\ Now(p, CASE o = "ok" -> Hear(r, {s})
                                 [] o = "refused" -> Failed(r)
                                 [] o = "lost" -> Failed(Hear(r, {s})))
    /\ UNCHANGED <<live, known, hub>>

\* cast.PlayFile returns without an error when Load has not ended after six
\* seconds: the speaker may play by then or never will.
CastPending(p, plays) ==
    /\ sound[p].pc = "play"
    /\ Mishap({})
    /\ \E t \in sound[p].queue :
          /\ \A u \in sound[p].queue \ {t} : Before(t, u)
          /\ Kind[t.spk] = "cast" /\ t.spk \in live
          /\ LET r == [sound[p] EXCEPT !.queue = @ \ {t}, !.unsure = @ \cup {t.spk}]
             IN Now(p, IF plays THEN Hear(r, {t.spk}) ELSE r)
    /\ UNCHANGED <<live, known, hub>>

PlayedAll(p) ==
    /\ sound[p].pc = "play" /\ sound[p].queue = {}
    /\ Now(p, IF sound[p].hubs = {} THEN Ended(sound[p], "ok")
              ELSE [sound[p] EXCEPT !.pc = "post"])
    /\ UNCHANGED <<live, known, hub, bounds>>

\* A scene without an id is an error; what was created is not deleted.
PostTemp(p, o) ==
    /\ sound[p].pc = "post"
    /\ CreateScene(Temp, o)
    /\ Now(p, IF o = "ok" THEN [sound[p] EXCEPT !.pc = "trigger", !.scene = made + 1]
              ELSE Failed(sound[p]))
    /\ UNCHANGED <<live, known>>

\* Mutant: only a scene that was triggered is deleted.
DeleteIfTriggered(r, o) == IF o = "ok" THEN [r EXCEPT !.pc = "delete"] ELSE Failed(r)

\* Mutant: the answer to the trigger is ignored as the deletion's is.
ErrorIgnored(r, o) == [r EXCEPT !.pc = "delete"]

\* The deletion is deferred and follows whatever the hub answers.
AfterTrigger(r, o) == [r EXCEPT !.pc = "delete", !.erred = o # "ok"]

Trigger(p, o) ==
    /\ sound[p].pc = "trigger"
    /\ TriggerScene(sound[p].scene, o)
    /\ LET r == sound[p]
       IN Now(p, AfterTrigger(IF o = "refused" THEN r ELSE Hear(r, r.hubs \cap live), o))
    /\ UNCHANGED <<live, known>>

\* An error of the deletion is ignored.
DeleteTemp(p, o) ==
    /\ sound[p].pc = "delete"
    /\ DeleteScene(sound[p].scene, o)
    /\ Now(p, IF sound[p].erred THEN Failed(sound[p]) ELSE Ended(sound[p], "ok"))
    /\ UNCHANGED <<live, known>>

HasTemp(r) == r.pc \in {"trigger", "delete"}

\* `auto test` ends with its script, and the sound with it.
LeaveSound(p) ==
    /\ sound[p].pc \in {"play", "post", "trigger", "delete"}
    /\ sound[p].who = "test"
    /\ mishaps' = IF HasTemp(sound[p]) THEN mishaps \cup {"left"} ELSE mishaps
    /\ Now(p, Ended(sound[p], "ok"))
    /\ UNCHANGED <<live, known, hub, started, troubles>>

KillSound(p) ==
    /\ sound[p].pc \in {"post", "trigger", "delete"}
    /\ Mishap({"killed"})
    /\ Now(p, Ended(sound[p], "killed"))
    /\ UNCHANGED <<live, known, hub>>

PlayStep(p) ==
    \/ LookInCache(p) \/ PlayedAll(p)
    \/ \E found \in Searches : Snapshot(p, found) \/ Fresh(p, found) \/ Search(p, found)
    \/ \E o \in Outcomes : PlayNext(p, o) \/ Trigger(p, o) \/ DeleteTemp(p, o)
    \/ \E plays \in BOOLEAN : CastPending(p, plays)
    \/ \E o \in PostOutcomes : PostTemp(p, o)

SoundNext ==
    \E p \in SoundProcs :
        \/ \E job \in SoundJobs[p] : BeginSound(p, job)
        \/ PlayStep(p)
        \/ LeaveSound(p) \/ KillSound(p)

-----------------------------------------------------------------------------
(* Properties.                                                             *)

SoundRecords ==
    [pc : {"idle", "cache", "snapshot", "search", "again", "fresh",
           "play", "post", "trigger", "delete", "ended"},
     by : {"sound", "media", "id", "name"}, who : {"cli", "ask", "run", "test"},
     parts : Seq(DOMAIN Names \cup {All}), fromCache : BOOLEAN,
     queue : SUBSET [place : Nat, spk : Speakers], hubs : SUBSET Speakers, scene : Nat,
     erred : BOOLEAN, nilErr : BOOLEAN, said : {"nothing", "ok", "error", "killed"},
     targets : SUBSET Speakers, heard : [Speakers -> Nat],
     unsure : SUBSET Speakers, again : BOOLEAN, blind : BOOLEAN]

\* A scene of its own is what a process has between the creation and the
\* deletion, and nothing else.
SoundTypeOK ==
    /\ live \subseteq Speakers /\ known \subseteq Speakers
    /\ sound \in [SoundProcs -> SoundRecords]
    /\ \A p \in SoundProcs : HasTemp(sound[p]) <=> sound[p].scene # 0

\* One command sounds once on a speaker, and a second time only after playing
\* from the cache failed, never a third time (cli.go, speakerSound and
\* dedupeSpeakerTargets).
RepeatNeedsCachedFailure ==
    \A p \in SoundProcs : \A s \in Speakers :
        sound[p].heard[s] <= IF sound[p].again THEN 2 ELSE 1

\* A query that names no speaker or several is played on none, unless the list
\* it was resolved in was not the true one: the cache stale or a search that
\* missed a speaker (cli.go, resolveSpeakerTargets).
AmbiguousPlaysOnlyBlind ==
    \A p \in SoundProcs :
        LET r == sound[p]
        IN r.parts # <<>> /\ (\E s \in Speakers : r.heard[s] > 0) /\ ~r.blind
           => \A i \in DOMAIN r.parts :
                 r.parts[i] = All \/ Cardinality(Matches(live, r.by, r.parts[i])) = 1

\* A command that reports success has sounded on each of its speakers there
\* are (cli.go, runSpeakerSoundTargets and playHubSpeakerSound), except on a
\* cast speaker whose Load was still pending when PlayFile returned, unless it
\* did not wait for the sound, or a script named a speaker whose address was not
\* found, which PlaySoundByName passes over in silence.
SuccessSounded ==
    \A p \in SoundProcs :
        LET r == sound[p]
        IN r.said = "ok" /\ ~Async(r)
           => \/ /\ r.targets # {}
                 /\ \A s \in r.targets \cap live :
                       r.heard[s] > 0 \/ (Kind[s] = "cast" /\ s \in r.unsure)
              \/ r.targets = {} /\ r.nilErr
=============================================================================
