----------------------------- MODULE TimeTriggers -----------------------------
(***************************************************************************)
(* When a "time" or "sun_event" automation is due, as autoTimeMatches of   *)
(* src/internal/cli/cli.go decides it.                                     *)
(*                                                                         *)
(* An instant is a number of minutes UTC, counted from some midnight.  A   *)
(* wall-clock reading is the number of minutes the local calendar shows,   *)
(* so that a reading stands for the year, day, hour and minute the code    *)
(* compares and prints ("2006-01-02T15:04", which has no zone in it).      *)
(*                                                                         *)
(* The astronomy of sunEventTime is abstracted to its result, the minute   *)
(* of the UTC day that normalizeHours leaves: site.sun.                    *)
(***************************************************************************)
EXTENDS Integers

Day == 1440

\* The sun neither rises nor sets on these dates at this latitude.
NoSun == -1

(***************************************************************************)
(* A site and its automation: the zone offset before and after one change  *)
(* of daylight saving time, the minute of the UTC day of the sun event,    *)
(* trigger.at as a minute of the day, trigger.offset in minutes.           *)
(***************************************************************************)
Site == [zone : Int, change : Int, zoneAfter : Int,
         sun : (0 .. Day) \cup {NoSun}, at : 0 .. Day - 1, shift : -(Day - 1) .. Day - 1]

Offset(site, t) == IF t < site.change THEN site.zone ELSE site.zoneAfter

\* t.In(location), to the minute.
Wall(site, t) == t + Offset(site, t)

DateOf(w) == w \div Day
MinuteOf(w) == w % Day

-----------------------------------------------------------------------------
(* "time": the hour and the minute of the wall clock are those of at.      *)

\* Mutant: off by one.
MinuteLate(site, t) == MinuteOf(Wall(site, t)) = site.at + 1

TimeDue(site, t) == MinuteOf(Wall(site, t)) = site.at

\* Mutant: the key is the instant, not the wall-clock reading.
InstantKey(site, t) == t

TimeKey(site, t) == Wall(site, t)

-----------------------------------------------------------------------------
(* "sun_event": sunEventTime puts the minute of the UTC day on the date    *)
(* the LOCAL calendar shows, taken as a UTC date; the reading of that      *)
(* instant, shifted, must be the present reading.                          *)

\* Mutant: days of the year counted from zero.
SunEventTomorrow(site, t) == (DateOf(Wall(site, t)) + 1) * Day + site.sun

SunEventTime(site, t) == DateOf(Wall(site, t)) * Day + site.sun

SunReading(site, t) == Wall(site, SunEventTime(site, t) + site.shift)

SunDue(site, t) ==
    /\ site.sun # NoSun
    /\ SunReading(site, t) = Wall(site, t)

SunKey(site, t) == SunReading(site, t)
=============================================================================
