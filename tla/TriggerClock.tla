----------------------------- MODULE TriggerClock -----------------------------
(***************************************************************************)
(* Time passes at one site, and the runner asks autoTimeMatches in every   *)
(* minute: the dates and run keys at which its two automations, one of     *)
(* each kind, are due.                                                     *)
(***************************************************************************)
EXTENDS TimeTriggers

CONSTANTS
    Sites,   \* the sites looked at
    First,   \* the first and the last instant
    Last

ASSUME SitesAssumption == Sites \subseteq Site
ASSUME SpanAssumption == First \in Int /\ Last \in Int /\ First < Last

VARIABLES
    site,
    t,
    timeRuns,  \* <<date, run key>> of each minute in which "time" was due
    sunRuns    \* the same for "sun_event"

clockVars == <<site, t, timeRuns, sunRuns>>

\* What one minute adds: lastRuns remembers the key, so a key counts once.
TimeRun(s, m) ==
    IF TimeDue(s, m) THEN {<<DateOf(Wall(s, m)), TimeKey(s, m)>>} ELSE {}
SunRun(s, m) ==
    IF SunDue(s, m) THEN {<<DateOf(Wall(s, m)), SunKey(s, m)>>} ELSE {}

ClockInit ==
    /\ site \in Sites
    /\ t = First
    /\ timeRuns = TimeRun(site, First)
    /\ sunRuns = SunRun(site, First)

NextMinute ==
    /\ t < Last
    /\ t' = t + 1
    /\ timeRuns' = timeRuns \cup TimeRun(site, t')
    /\ sunRuns' = sunRuns \cup SunRun(site, t')
    /\ UNCHANGED site

\* The bound of the clock, not a stop of the program.
ClockIsUp ==
    /\ t = Last
    /\ UNCHANGED clockVars

ClockNext == NextMinute \/ ClockIsUp

ClockSpec == ClockInit /\ [][ClockNext]_clockVars

-----------------------------------------------------------------------------
\* The dates that have begun and ended between First and t.
WholeDates == DateOf(Wall(site, First)) + 1 .. DateOf(Wall(site, t)) - 1

\* The wall clock jumps over trigger.at on date d (spring).
Swallowed(d) ==
    /\ site.zone < site.zoneAfter
    /\ LET w == d * Day + site.at
       IN site.change + site.zone =< w /\ w < site.change + site.zoneAfter

\* A "time" automation is due on every whole date, the day the wall clock
\* jumps over its minute excepted.
TimeEveryDate ==
    \A d \in WholeDates : ~Swallowed(d) => \E run \in timeRuns : run[1] = d

\* All the minutes of a date in which an automation is due carry one key:
\* the hour that autumn repeats does not run anything twice.
OneKeyPerDate ==
    \A runs \in {timeRuns, sunRuns} : \A r, q \in runs : r[1] = q[1] => r[2] = q[2]

\* A "sun_event" automation is due on every whole date on which the sun has
\* that event: "turn on porch light at sunset".
SunEveryDate ==
    site.sun # NoSun => \A d \in WholeDates : \E run \in sunRuns : run[1] = d
=============================================================================
