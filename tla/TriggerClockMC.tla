---------------------------- MODULE TriggerClockMC ----------------------------
(* Four days, minute by minute, at sites with real offsets.                *)
EXTENDS TriggerClock

NoChange == 10 * Day

Copenhagen == [zone |-> 120, change |-> NoChange, zoneAfter |-> 120,
               sun |-> 1130, at |-> 0, shift |-> -30]
\* Daylight saving time ends and begins at 01:00 UTC of the second day.
CopenhagenAutumn == [zone |-> 120, change |-> Day + 60, zoneAfter |-> 60,
                     sun |-> 950, at |-> 150, shift |-> 0]
CopenhagenSpring == [zone |-> 60, change |-> Day + 60, zoneAfter |-> 120,
                     sun |-> 1050, at |-> 150, shift |-> 45]
BostonWinter == [zone |-> -300, change |-> NoChange, zoneAfter |-> -300,
                 sun |-> 1275, at |-> 1439, shift |-> 0]
SvalbardNight == [zone |-> 60, change |-> NoChange, zoneAfter |-> 60,
                  sun |-> NoSun, at |-> 720, shift |-> 0]
\* Midsummer sunset at 20:25 local time is 00:25 UTC of the next day.
BostonSummer == [zone |-> -240, change |-> NoChange, zoneAfter |-> -240,
                 sun |-> 25, at |-> 720, shift |-> 0]

EasySites == {Copenhagen, CopenhagenAutumn, CopenhagenSpring, BostonWinter, SvalbardNight}
WesternSites == {BostonSummer}
LastMinute == 4 * Day
=============================================================================
