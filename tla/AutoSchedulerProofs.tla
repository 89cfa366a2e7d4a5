-------------------------- MODULE AutoSchedulerProofs --------------------------
(***************************************************************************)
(* For every set of time automations, every length of scripts and minutes  *)
(* and every number of generations: no due minute is overslept, and no run *)
(* key succeeds twice within a generation.  For every z and minute of   *)
(* the day: the days on which the triggers themselves are due.             *)
(***************************************************************************)
EXTENDS AutoScheduler, TriggerClock, FiniteSetTheorems, TLAPS

-----------------------------------------------------------------------------
(* The invariant.                                                          *)

DueAt(s, m) == TimeDue(Trigger[s], m)
KeyAt(s, m) == TimeKey(Trigger[s], m)

\* The ticks a pass may take, if every script takes its whole time.
Longest == Cardinality(Specs) * Timeout

Active(r) == r.pc \in {"walk", "script", "ended"}

\* The ticks a pass may have taken so far.
Spent(r) ==
    (Cardinality(Specs) - Cardinality(r.todo)) * Timeout + IF r.pc = "walk" THEN 0 ELSE r.took

\* What a pass has left behind was attempted if it was due.
Walked(r, tried) ==
    Active(r) =>
        /\ \A s \in Specs \ r.todo : DueAt(s, r.minute) => <<s, KeyAt(s, r.minute)>> \in tried
        /\ r.pc # "walk" => /\ r.spec \in r.todo
                            /\ DueAt(r.spec, r.minute)
                            /\ <<r.spec, KeyAt(r.spec, r.minute)>> \in tried

\* A pass is not older than the scripts it has run account for.
Paced(r, u) ==
    Active(r) => /\ r.minute * MinuteTicks <= u
                 /\ u < (r.minute + 1) * MinuteTicks + Spent(r)

\* The generations so far have a scheduler, and the present one's goes on.
Generations ==
    /\ \A g \in Gens : sched[g].pc = "unborn" <=> g > gen
    /\ sched[gen].pc # "gone"

Passes == \A g \in Gens : Walked(sched[g], attempts) /\ Paced(sched[g], now)

\* A run key that is remembered was attempted, in a minute when it was due.
Remembered ==
    \A s \in Specs : \A k \in lastRuns[s] :
        /\ lastRuns[s] = {k}
        /\ <<s, k>> \in attempts
        /\ \E m \in 0 .. Minute : DueAt(s, m) /\ k = KeyAt(s, m)

SchedInv == TypeOK /\ Generations /\ Passes /\ Remembered

\* A pass of minute m was begun: it is under way, or all that was due has been
\* attempted.
Begun(m) ==
    \/ \E g \in Gens : Active(sched[g]) /\ sched[g].minute = m
    \/ \A s \in Specs : DueAt(s, m) => <<s, KeyAt(s, m)>> \in attempts

\* A minute without a pass is younger than the longest pass of an earlier
\* minute and the failing reads together.
Late(r, u, fails) ==
    /\ r.pc = "wait" /\ ~r.tick => u < Minute * MinuteTicks + Longest + fails
    /\ r.pc = "wait" /\ r.tick => u <= Minute * MinuteTicks + Longest + fails
    /\ r.pc = "pass" => u <= Minute * MinuteTicks + Longest + fails

Awake ==
    /\ \A m \in 0 .. Minute - 1 : Begun(m)
    /\ Begun(Minute) \/ Late(sched[gen], now, torn)

-----------------------------------------------------------------------------
(* Arithmetic and cardinality.                                             *)

\* DivBounds: a tick lies in its minute.
LEMMA DivBounds ==
    ASSUME NEW u \in Nat, NEW n \in Nat \ {0}
    PROVE  /\ u \div n \in Nat
           /\ (u \div n) * n <= u
           /\ u < ((u \div n) + 1) * n
  OBVIOUS

\* DivIs: and in no other.
LEMMA DivIs ==
    ASSUME NEW u \in Nat, NEW n \in Nat \ {0}, NEW m \in Nat, m * n <= u, u < (m + 1) * n
    PROVE  u \div n = m
  OBVIOUS

\* MulSucc: one factor more.
LEMMA MulSucc ==
    ASSUME NEW x \in Int, NEW n \in Int
    PROVE  (x + 1) * n = x * n + n
  OBVIOUS

\* MulMono: products keep the order.
LEMMA MulMono ==
    ASSUME NEW x \in Int, NEW y \in Int, NEW n \in Nat, x <= y
    PROVE  x * n <= y * n
  OBVIOUS

\* Later: a bound may be raised.
LEMMA Later ==
    ASSUME NEW x \in Int, NEW y \in Int, NEW n \in Nat
    PROVE  /\ x < y => x < y + n /\ x <= y + n
           /\ x <= y => x <= y + n
  OBVIOUS

\* Less: what is left of the automations has a size.
LEMMA Less ==
    ASSUME NEW T \in SUBSET Specs
    PROVE  /\ Cardinality(T) \in Nat /\ Cardinality(Specs) \in Nat
           /\ Cardinality(T) <= Cardinality(Specs)
           /\ \A s \in T : Cardinality(T \ {s}) = Cardinality(T) - 1 /\ Cardinality(T) >= 1
  <1>1. IsFiniteSet(Specs)
    BY SpecsAssumption
  <1>2. IsFiniteSet(T) /\ Cardinality(T) <= Cardinality(Specs)
    BY <1>1, FS_Subset
  <1>3. Cardinality(T) \in Nat /\ Cardinality(Specs) \in Nat
    BY <1>1, <1>2, FS_CardinalityType
  <1>4. ASSUME NEW s \in T
        PROVE  Cardinality(T \ {s}) = Cardinality(T) - 1 /\ Cardinality(T) >= 1
    <2>1. Cardinality(T \ {s}) = Cardinality(T) - 1 /\ IsFiniteSet(T \ {s})
      BY <1>2, FS_RemoveElement
    <2>2. Cardinality(T \ {s}) \in Nat
      BY <2>1, FS_CardinalityType
    <2> QED
      BY <1>3, <2>1, <2>2
  <1> QED
    BY <1>2, <1>3, <1>4

\* Times: the constants that count ticks.
LEMMA Times ==
    /\ MinuteTicks \in Nat \ {0} /\ MaxGen \in Nat \ {0}
    /\ Timeout \in Nat /\ MaxTime \in Nat /\ MaxTorn \in Nat
    /\ Longest \in Nat
  <1>1. /\ MinuteTicks \in Nat \ {0} /\ MaxGen \in Nat \ {0}
        /\ Timeout \in Nat /\ MaxTime \in Nat /\ MaxTorn \in Nat
    BY TimesAssumption
  <1>2. Cardinality(Specs) \in Nat
    BY Less
  <1> QED
    BY <1>1, <1>2 DEF Longest

\* SpentType: a pass takes no longer than the longest one.
LEMMA SpentType ==
    ASSUME NEW r \in SchedRecords, NEW tried, Walked(r, tried), Active(r)
    PROVE  Spent(r) \in Nat /\ Spent(r) <= Longest
  <1> DEFINE n == Cardinality(Specs)  k == Cardinality(r.todo)
  <1>1. n \in Nat /\ k \in Nat /\ k <= n /\ (r.pc # "walk" => k >= 1)
    BY Less DEF SchedRecords, Walked
  <1>2. r.took \in Nat /\ r.took <= Timeout /\ Timeout \in Nat
    BY Times DEF SchedRecords
  <1>3. Spent(r) = (n - k) * Timeout + IF r.pc = "walk" THEN 0 ELSE r.took
    BY DEF Spent
  <1>4. Longest = n * Timeout
    BY DEF Longest
  <1> HIDE DEF n, k
  <1>5. CASE r.pc = "walk"
    <2>1. (n - k) * Timeout <= n * Timeout /\ 0 * Timeout <= (n - k) * Timeout
      BY <1>1, <1>2, MulMono
    <2> QED
      BY <1>1, <1>2, <1>3, <1>4, <1>5, <2>1
  <1>6. CASE r.pc # "walk"
    <2>1. ((n - k) + 1) * Timeout <= n * Timeout /\ 0 * Timeout <= (n - k) * Timeout
      BY <1>1, <1>2, <1>6, MulMono
    <2>2. ((n - k) + 1) * Timeout = (n - k) * Timeout + Timeout
      BY <1>1, <1>2, MulSucc
    <2> QED
      BY <1>1, <1>2, <1>3, <1>4, <1>6, <2>1, <2>2
  <1> QED
    BY <1>5, <1>6

\* NewTypes: a goroutine before its first step.
LEMMA NewTypes ==
    /\ Started \in SchedRecords /\ Started.pc = "pass" /\ Started.tick = FALSE
    /\ Unborn \in SchedRecords /\ Unborn.pc = "unborn"
  <1>1. 0 \in 0 .. Timeout
    BY Times
  <1>2. Started \in SchedRecords /\ Started.pc = "pass" /\ Started.tick = FALSE
    BY <1>1 DEF Started, SchedRecords
  <1> DEFINE r == Started
  <1>3. Unborn = [r EXCEPT !.pc = "unborn"]
    BY DEF Unborn
  <1>4. r \in SchedRecords
    BY <1>2
  <1> HIDE DEF r
  <1>5. Unborn \in SchedRecords /\ Unborn.pc = "unborn"
    BY <1>3, <1>4 DEF SchedRecords
  <1> QED
    BY <1>2, <1>5

\* KeyType: a run key is a reading of the wall clock.
LEMMA KeyType ==
    ASSUME NEW s \in Specs, NEW m \in Int
    PROVE  KeyAt(s, m) \in Int
  <1>1. Trigger[s] \in Site
    BY TriggerAssumption
  <1> QED
    BY <1>1 DEF KeyAt, TimeKey, Wall, Offset, Site

-----------------------------------------------------------------------------
(* The invariant is kept.                                                  *)

\* PassStep: a step of one scheduler.
LEMMA PassStep ==
    ASSUME SchedInv, NEW g \in Gens, NEW new \in SchedRecords,
           sched' = [sched EXCEPT ![g] = new], UNCHANGED <<now, gen>>,
           torn' \in 0 .. MaxTorn, attempts \subseteq attempts',
           attempts' \subseteq Specs \X Int, ok' \subseteq Gens \X Specs \X Int,
           lastRuns' \in [Specs -> SUBSET Int], Remembered',
           sched[g].pc # "unborn", new.pc # "unborn", new.pc = "gone" => g # gen,
           Walked(new, attempts'), Paced(new, now)
    PROVE  SchedInv'
  <1>1. sched \in [Gens -> SchedRecords]
    BY DEF SchedInv, TypeOK
  <1>2. sched' \in [Gens -> SchedRecords] /\ sched'[g] = new
        /\ \A h \in Gens \ {g} : sched'[h] = sched[h]
    BY <1>1
  <1>3. TypeOK'
    BY <1>2 DEF SchedInv, TypeOK
  <1>4. Generations'
    BY <1>2 DEF SchedInv, Generations, TypeOK
  <1>5. ASSUME NEW h \in Gens
        PROVE  Walked(sched'[h], attempts') /\ Paced(sched'[h], now')
    <2>1. CASE h = g
      BY <1>2, <2>1
    <2>2. CASE h # g
      BY <1>2, <2>2 DEF SchedInv, Passes, Walked
    <2> QED
      BY <2>1, <2>2
  <1> QED
    BY <1>3, <1>4, <1>5 DEF SchedInv, Passes

\* Unforgotten: without a success nothing is remembered anew.
LEMMA Unforgotten ==
    ASSUME SchedInv, UNCHANGED <<now, lastRuns>>, attempts \subseteq attempts'
    PROVE  Remembered'
  BY DEF SchedInv, Remembered, Minute

\* Present: what the scheduler that steps is like.
LEMMA Present ==
    ASSUME SchedInv, NEW g \in Gens
    PROVE  /\ sched[g] \in SchedRecords
           /\ Walked(sched[g], attempts) /\ Paced(sched[g], now)
           /\ now \in Nat /\ Minute \in Nat
           /\ Minute * MinuteTicks <= now /\ now < (Minute + 1) * MinuteTicks
           /\ sched \in [Gens -> SchedRecords] /\ gen \in Gens
  <1>1. now \in Nat /\ MinuteTicks \in Nat \ {0}
    BY Times DEF SchedInv, TypeOK
  <1>2. /\ Minute \in Nat /\ Minute * MinuteTicks <= now /\ now < (Minute + 1) * MinuteTicks
    BY <1>1, DivBounds DEF Minute
  <1> QED
    BY <1>1, <1>2 DEF SchedInv, TypeOK, Passes

\* LoadAutos: a pass begins with all automations, in the present minute.
LEMMA LoadAutosKeeps ==
    ASSUME SchedInv, NEW g \in Gens, LoadAutos(g)
    PROVE  SchedInv'
  <1> DEFINE r == sched[g]
             m == Minute
             new == [r EXCEPT !.pc = "walk", !.todo = Specs, !.minute = m]
  <1>1. /\ r \in SchedRecords /\ m \in Nat /\ now \in Nat
        /\ m * MinuteTicks <= now /\ now < (m + 1) * MinuteTicks
        /\ sched \in [Gens -> SchedRecords]
    BY Present
  <1>2. /\ r.pc = "pass" /\ sched' = [sched EXCEPT ![g] = new]
        /\ UNCHANGED <<now, gen, torn, lastRuns, attempts, ok>>
    BY <1>1 DEF LoadAutos, SchedRecords
  <1>3. sched[g] = r
    OBVIOUS
  <1> HIDE DEF r, m
  <1>4. new \in SchedRecords /\ new.pc = "walk" /\ new.todo = Specs /\ new.minute = m
    BY <1>1 DEF SchedRecords
  <1> HIDE DEF new
  <1>5. Walked(new, attempts')
    BY <1>4 DEF Walked
  <1>6. Spent(new) = 0
    <2>1. Cardinality(Specs) \in Nat /\ Timeout \in Nat
      BY Less, Times
    <2> QED
      BY <1>4, <2>1 DEF Spent
  <1>7. Paced(new, now)
    <2>1. (m + 1) * MinuteTicks \in Int
      BY <1>1, Times
    <2> QED
      BY <1>1, <1>4, <1>6, <2>1 DEF Paced
  <1>8. Remembered'
    BY <1>2, Unforgotten
  <1> QED
    BY <1>2, <1>3, <1>4, <1>5, <1>7, <1>8, PassStep DEF SchedInv, TypeOK

\* IdleStep: whoever is not in a pass has nothing to account for.
LEMMA IdleStep ==
    ASSUME SchedInv, NEW g \in Gens, NEW new \in SchedRecords, ~Active(new),
           sched' = [sched EXCEPT ![g] = new], UNCHANGED <<now, gen, lastRuns, attempts, ok>>,
           torn' \in 0 .. MaxTorn, sched[g].pc # "unborn", new.pc # "unborn",
           new.pc = "gone" => g # gen
    PROVE  SchedInv'
  <1>1. Walked(new, attempts') /\ Paced(new, now)
    BY DEF Walked, Paced
  <1>2. Remembered'
    BY Unforgotten
  <1> QED
    BY <1>1, <1>2, PassStep DEF SchedInv, TypeOK

\* LoadFails, PassEnds, Wake and Stop leave or begin no pass.
LEMMA IdleSteps ==
    ASSUME SchedInv, NEW g \in Gens, LoadFails(g) \/ PassEnds(g) \/ Wake(g) \/ Stop(g)
    PROVE  SchedInv'
  <1> DEFINE r == sched[g]
             wait == [r EXCEPT !.pc = "wait"]
             wake == [r EXCEPT !.pc = "pass", !.tick = FALSE]
             gone == [Unborn EXCEPT !.pc = "gone"]
  <1>1. r \in SchedRecords /\ sched \in [Gens -> SchedRecords]
    BY Present
  <1>2. torn \in 0 .. MaxTorn /\ MaxTorn \in Nat
    BY Times DEF SchedInv, TypeOK
  <1>3. wait \in SchedRecords /\ wait.pc = "wait"
    BY <1>1 DEF SchedRecords
  <1>4. wake \in SchedRecords /\ wake.pc = "pass"
    BY <1>1 DEF SchedRecords
  <1>5. gone \in SchedRecords /\ gone.pc = "gone"
    <2>1. Unborn \in SchedRecords
      BY NewTypes
    <2> QED
      BY <2>1 DEF SchedRecords
  <1>6. CASE LoadFails(g)
    <2>1. /\ sched' = [sched EXCEPT ![g] = wait] /\ sched[g].pc = "pass"
          /\ torn' \in 0 .. MaxTorn /\ UNCHANGED <<now, gen, lastRuns, attempts, ok>>
      BY <1>1, <1>2, <1>6 DEF LoadFails
    <2> HIDE DEF wait
    <2> QED
      BY <1>3, <2>1, IdleStep DEF Active
  <1>7. CASE PassEnds(g)
    <2>1. /\ sched' = [sched EXCEPT ![g] = wait] /\ sched[g].pc = "walk"
          /\ UNCHANGED <<now, gen, torn, lastRuns, attempts, ok>>
      BY <1>1, <1>7 DEF PassEnds
    <2> HIDE DEF wait
    <2> QED
      BY <1>2, <1>3, <2>1, IdleStep DEF Active
  <1>8. CASE Wake(g)
    <2>1. /\ sched' = [sched EXCEPT ![g] = wake] /\ sched[g].pc = "wait"
          /\ UNCHANGED <<now, gen, torn, lastRuns, attempts, ok>>
      BY <1>1, <1>8 DEF Wake
    <2> HIDE DEF wake
    <2> QED
      BY <1>2, <1>4, <2>1, IdleStep DEF Active
  <1>9. CASE Stop(g)
    <2>1. /\ sched' = [sched EXCEPT ![g] = gone] /\ sched[g].pc = "wait" /\ g < gen
          /\ UNCHANGED <<now, gen, torn, lastRuns, attempts, ok>>
      BY <1>9 DEF Stop, Cancelled
    <2>2. g # gen
      BY <2>1 DEF SchedInv, TypeOK, Gens
    <2> HIDE DEF gone
    <2> QED
      BY <1>2, <1>5, <2>1, <2>2, IdleStep DEF Active
  <1> QED
    BY <1>6, <1>7, <1>8, <1>9

\* OneLess: with one automation less to do, a script's time is accounted for.
LEMMA OneLess ==
    ASSUME NEW r \in SchedRecords, NEW s \in r.todo, NEW new \in SchedRecords,
           NEW tried, Walked(r, tried), Active(r), new.pc = "walk", new.todo = r.todo \ {s}
    PROVE  Spent(r) \in Nat /\ Spent(new) \in Nat /\ Spent(r) <= Spent(new)
  <1> DEFINE n == Cardinality(Specs)  k == Cardinality(r.todo)  j == Cardinality(new.todo)
  <1>1. n \in Nat /\ k \in Nat /\ k <= n /\ k >= 1 /\ j = k - 1
    BY Less DEF SchedRecords
  <1>2. r.took \in Nat /\ r.took <= Timeout /\ Timeout \in Nat
    BY Times DEF SchedRecords
  <1>3. /\ Spent(r) = (n - k) * Timeout + IF r.pc = "walk" THEN 0 ELSE r.took
        /\ Spent(new) = (n - j) * Timeout + 0
    BY DEF Spent
  <1>4. Spent(r) \in Nat
    BY SpentType
  <1> HIDE DEF n, k, j
  <1>5. (n - k) + 1 = n - j /\ (n - k) \in Int
    BY <1>1
  <1>6. (n - j) * Timeout = (n - k) * Timeout + Timeout
    <2> DEFINE x == n - k  y == n - j
    <2>1. x \in Int /\ y = x + 1
      BY <1>5
    <2> HIDE DEF x, y
    <2>2. y * Timeout = x * Timeout + Timeout
      BY <1>2, <2>1, MulSucc
    <2> QED
      BY <2>2 DEF x, y
  <1>7. (n - k) * Timeout \in Int
    BY <1>1, <1>2
  <1> QED
    BY <1>2, <1>3, <1>4, <1>6, <1>7

\* DoneWith: a pass goes on to the next automation.
LEMMA DoneWith ==
    ASSUME SchedInv, NEW g \in Gens, NEW s \in sched[g].todo, Active(sched[g]),
           sched' = [sched EXCEPT ![g].pc = "walk", ![g].todo = @ \ {s}],
           UNCHANGED <<now, gen, torn, attempts, ok>>,
           lastRuns' \in [Specs -> SUBSET Int], Remembered',
           DueAt(s, sched[g].minute) => <<s, KeyAt(s, sched[g].minute)>> \in attempts
    PROVE  SchedInv'
  <1> DEFINE r == sched[g]
             left == r.todo \ {s}
             new == [r EXCEPT !.pc = "walk", !.todo = left]
  <1>1. /\ r \in SchedRecords /\ Walked(r, attempts) /\ Paced(r, now) /\ now \in Nat
        /\ sched \in [Gens -> SchedRecords]
    BY Present
  <1>2. sched' = [sched EXCEPT ![g] = new]
    BY <1>1 DEF SchedRecords
  <1>3. sched[g] = r /\ s \in r.todo /\ left = r.todo \ {s}
    OBVIOUS
  <1> HIDE DEF r, left
  <1>4. left \subseteq Specs
    BY <1>1, <1>3 DEF SchedRecords
  <1>5. new \in SchedRecords /\ new.pc = "walk" /\ new.todo = left /\ new.minute = r.minute
    BY <1>1, <1>4 DEF SchedRecords
  <1> HIDE DEF new
  <1>6. Walked(new, attempts')
    BY <1>1, <1>3, <1>5 DEF Walked
  <1>7. Paced(new, now)
    <2>1. Spent(r) \in Nat /\ Spent(new) \in Nat /\ Spent(r) <= Spent(new)
      BY <1>1, <1>3, <1>5, OneLess
    <2>2. (r.minute + 1) * MinuteTicks \in Int
      BY <1>1, Times DEF SchedRecords
    <2> QED
      BY <1>1, <1>3, <1>5, <2>1, <2>2 DEF Paced
  <1> QED
    BY <1>2, <1>3, <1>5, <1>6, <1>7, PassStep DEF SchedInv, TypeOK, Active

\* PassMinute: a pass began in the present minute or before, and not more
\* than the longest pass ago.
LEMMA PassMinute ==
    ASSUME SchedInv, NEW g \in Gens, Active(sched[g])
    PROVE  /\ sched[g].minute \in Nat /\ sched[g].minute <= Minute
           /\ now < (sched[g].minute + 1) * MinuteTicks + Longest
  <1> DEFINE m == sched[g].minute
  <1>1. /\ sched[g] \in SchedRecords /\ Walked(sched[g], attempts) /\ Paced(sched[g], now)
        /\ now \in Nat /\ Minute \in Nat /\ now < (Minute + 1) * MinuteTicks
    BY Present
  <1>2. m \in Nat /\ m * MinuteTicks <= now /\ now < (m + 1) * MinuteTicks + Spent(sched[g])
    BY <1>1 DEF SchedRecords, Paced
  <1>3. Spent(sched[g]) \in Nat /\ Spent(sched[g]) <= Longest
    BY <1>1, SpentType
  <1> HIDE DEF m
  <1>4. MinuteTicks \in Nat /\ Longest \in Nat
    BY Times
  <1>5. m <= Minute
    <2>1. SUFFICES ASSUME Minute + 1 <= m PROVE FALSE
      BY <1>1, <1>2
    <2>2. (Minute + 1) * MinuteTicks <= m * MinuteTicks
      BY <1>1, <1>2, <1>4, <2>1, MulMono
    <2>3. (Minute + 1) * MinuteTicks \in Int /\ m * MinuteTicks \in Int
      BY <1>1, <1>2, <1>4
    <2> QED
      BY <1>1, <1>2, <2>2, <2>3
  <1>6. (m + 1) * MinuteTicks \in Int
    BY <1>2, <1>4
  <1>7. now < (m + 1) * MinuteTicks + Longest
    BY <1>1, <1>2, <1>3, <1>4, <1>6
  <1> QED
    BY <1>2, <1>5, <1>7 DEF m

\* SkipSpec: what is skipped is not due, or succeeded and hence was attempted.
LEMMA SkipSpecKeeps ==
    ASSUME SchedInv, NEW g \in Gens, NEW s \in Specs, SkipSpec(g, s)
    PROVE  SchedInv'
  <1> DEFINE r == sched[g]
             left == r.todo \ {s}
  <1>1. /\ r \in SchedRecords /\ sched \in [Gens -> SchedRecords]
    BY Present
  <1>2. /\ r.pc = "walk" /\ s \in r.todo
        /\ sched' = [sched EXCEPT ![g] = [r EXCEPT !.todo = left]]
        /\ UNCHANGED <<now, gen, torn, lastRuns, attempts, ok>>
        /\ ~DueAt(s, r.minute) \/ lastRuns[s] = {KeyAt(s, r.minute)}
    BY <1>1 DEF SkipSpec, NextSpec, Due, DueAt, Key, KeyAt
  <1>3. [r EXCEPT !.todo = left] = [r EXCEPT !.pc = "walk", !.todo = left]
    <2> HIDE DEF r, left
    <2> QED
      BY <1>1, <1>2 DEF SchedRecords
  <1>4. sched' = [sched EXCEPT ![g].pc = "walk", ![g].todo = @ \ {s}]
    BY <1>1, <1>2, <1>3 DEF SchedRecords
  <1>5. DueAt(s, r.minute) => <<s, KeyAt(s, r.minute)>> \in attempts
    BY <1>2 DEF SchedInv, Remembered
  <1>6. Remembered'
    BY <1>2, Unforgotten
  <1> QED
    BY <1>2, <1>4, <1>5, <1>6, DoneWith DEF SchedInv, TypeOK, Active

\* RunScript: what is started is attempted.
LEMMA RunScriptKeeps ==
    ASSUME SchedInv, NEW g \in Gens, NEW s \in Specs, RunScript(g, s)
    PROVE  SchedInv'
  <1> DEFINE r == sched[g]
             new == [r EXCEPT !.pc = "script", !.spec = s, !.took = 0]
  <1>1. /\ r \in SchedRecords /\ sched \in [Gens -> SchedRecords]
        /\ Walked(r, attempts) /\ Paced(r, now) /\ now \in Nat
    BY Present
  <1>2. /\ r.pc = "walk" /\ s \in r.todo /\ DueAt(s, r.minute)
        /\ sched' = [sched EXCEPT ![g] = new]
        /\ attempts' = attempts \cup {<<s, KeyAt(s, r.minute)>>}
        /\ UNCHANGED <<now, gen, torn, lastRuns, ok>>
    BY <1>1 DEF RunScript, NextSpec, Due, DueAt, Key, KeyAt
  <1>3. sched[g] = r
    OBVIOUS
  <1> HIDE DEF r
  <1>4. 0 \in 0 .. Timeout
    BY Times
  <1>5. /\ new \in SchedRecords /\ new.pc = "script" /\ new.todo = r.todo
        /\ new.minute = r.minute /\ new.spec = s /\ new.took = 0
    BY <1>1, <1>4 DEF SchedRecords
  <1> HIDE DEF new
  <1>6. Walked(new, attempts')
    BY <1>1, <1>2, <1>5 DEF Walked, Active
  <1>7. Spent(new) = Spent(r)
    BY <1>2, <1>5 DEF Spent
  <1>8. Paced(new, now)
    BY <1>1, <1>2, <1>5, <1>7 DEF Paced, Active
  <1>9. KeyAt(s, r.minute) \in Int
    BY <1>1, KeyType DEF SchedRecords
  <1>10. attempts' \subseteq Specs \X Int /\ attempts \subseteq attempts'
    BY <1>2, <1>9 DEF SchedInv, TypeOK
  <1>11. Remembered'
    BY <1>2, <1>10, Unforgotten
  <1> QED
    BY <1>2, <1>3, <1>5, <1>6, <1>8, <1>10, <1>11, PassStep DEF SchedInv, TypeOK

\* ScriptSucceeds: the pass does not yet go on.
LEMMA ScriptSucceedsKeeps ==
    ASSUME SchedInv, NEW g \in Gens, ScriptSucceeds(g)
    PROVE  SchedInv'
  <1> DEFINE r == sched[g]
             new == [r EXCEPT !.pc = "ended"]
  <1>1. /\ r \in SchedRecords /\ sched \in [Gens -> SchedRecords]
        /\ Walked(r, attempts) /\ Paced(r, now) /\ now \in Nat
    BY Present
  <1>2. /\ r.pc = "script" /\ sched' = [sched EXCEPT ![g] = new]
        /\ ok' = ok \cup {<<g, r.spec, KeyAt(r.spec, r.minute)>>}
        /\ UNCHANGED <<now, gen, torn, lastRuns, attempts>>
    BY <1>1 DEF ScriptSucceeds, Key, KeyAt
  <1>3. sched[g] = r
    OBVIOUS
  <1> HIDE DEF r
  <1>4. r.spec \in Specs
    BY <1>1, <1>2 DEF Walked, Active, SchedRecords
  <1>5. /\ new \in SchedRecords /\ new.pc = "ended" /\ new.todo = r.todo
        /\ new.minute = r.minute /\ new.spec = r.spec /\ new.took = r.took
    BY <1>1 DEF SchedRecords
  <1> HIDE DEF new
  <1>6. Walked(new, attempts')
    BY <1>1, <1>2, <1>5 DEF Walked, Active
  <1>7. Spent(new) = Spent(r)
    BY <1>2, <1>5 DEF Spent
  <1>8. Paced(new, now)
    BY <1>1, <1>2, <1>5, <1>7 DEF Paced, Active
  <1>9. KeyAt(r.spec, r.minute) \in Int
    BY <1>1, <1>4, KeyType DEF SchedRecords
  <1>10. ok' \subseteq Gens \X Specs \X Int
    BY <1>2, <1>4, <1>9 DEF SchedInv, TypeOK
  <1>11. Remembered'
    BY <1>2, Unforgotten
  <1> QED
    BY <1>2, <1>3, <1>5, <1>6, <1>8, <1>10, <1>11, PassStep DEF SchedInv, TypeOK

\* ScriptFails: a failed attempt is an attempt.
LEMMA ScriptFailsKeeps ==
    ASSUME SchedInv, NEW g \in Gens, ScriptFails(g)
    PROVE  SchedInv'
  <1>1. /\ sched[g].pc = "script" /\ UNCHANGED <<now, gen, torn, lastRuns, attempts, ok>>
        /\ sched' = [sched EXCEPT ![g].pc = "walk", ![g].todo = @ \ {sched[g].spec}]
    BY DEF ScriptFails
  <1>2. /\ Active(sched[g]) /\ sched[g].spec \in sched[g].todo
        /\ <<sched[g].spec, KeyAt(sched[g].spec, sched[g].minute)>> \in attempts
    BY <1>1, Present DEF Walked, Active
  <1>3. Remembered'
    BY <1>1, Unforgotten
  <1> QED
    BY <1>1, <1>2, <1>3, DoneWith DEF SchedInv, TypeOK

\* Record: the key that is remembered is the attempted one.
LEMMA RecordKeeps ==
    ASSUME SchedInv, NEW g \in Gens, Record(g)
    PROVE  SchedInv'
  <1> DEFINE s == sched[g].spec
             k == KeyAt(s, sched[g].minute)
  <1>1. /\ sched[g].pc = "ended" /\ UNCHANGED <<now, gen, torn, attempts, ok>>
        /\ sched' = [sched EXCEPT ![g].pc = "walk", ![g].todo = @ \ {sched[g].spec}]
        /\ lastRuns' = [lastRuns EXCEPT ![s] = {k}]
    BY DEF Record, RememberRun, Key, KeyAt
  <1>2. /\ Active(sched[g]) /\ s \in sched[g].todo /\ s \in Specs
        /\ <<s, k>> \in attempts /\ DueAt(s, sched[g].minute)
    BY <1>1, Present DEF Walked, Active, SchedRecords
  <1>3. sched[g].minute \in 0 .. Minute /\ k \in Int
    BY <1>2, PassMinute, Present, KeyType
  <1>4. lastRuns \in [Specs -> SUBSET Int]
    BY DEF SchedInv, TypeOK
  <1>5. lastRuns' \in [Specs -> SUBSET Int]
    BY <1>1, <1>3, <1>4
  <1>6. Remembered'
    <2>1. SUFFICES ASSUME NEW x \in Specs, NEW j \in lastRuns'[x]
                   PROVE  /\ lastRuns'[x] = {j}
                          /\ <<x, j>> \in attempts
                          /\ \E m \in 0 .. Minute : DueAt(x, m) /\ j = KeyAt(x, m)
      BY <1>1 DEF Remembered, Minute
    <2>2. CASE x = s
      <3>1. j = k /\ lastRuns'[x] = {k}
        BY <1>1, <1>2, <1>4, <2>1, <2>2
      <3> QED
        BY <1>2, <1>3, <2>2, <3>1
    <2>3. CASE x # s
      BY <1>1, <1>4, <2>1, <2>3 DEF SchedInv, Remembered
    <2> QED
      BY <2>2, <2>3
  <1> QED
    BY <1>1, <1>2, <1>5, <1>6, DoneWith DEF SchedInv, TypeOK

\* MinuteGrows: the next tick is in the same minute or begins the next one.
LEMMA MinuteGrows ==
    ASSUME SchedInv, now' = now + 1
    PROVE  /\ Minute \in Nat /\ Minute' \in Nat
           /\ \/ Minute' = Minute
              \/ Minute' = Minute + 1 /\ now' = Minute' * MinuteTicks
  <1> DEFINE m == Minute
  <1>1. /\ now \in Nat /\ m \in Nat
        /\ m * MinuteTicks <= now /\ now < (m + 1) * MinuteTicks
    <2>1. Gens # {}
      BY DEF SchedInv, TypeOK
    <2> QED
      BY <2>1, Present
  <1>2. MinuteTicks \in Nat \ {0} /\ now + 1 \in Nat
    BY <1>1, Times
  <1>3. Minute' = (now + 1) \div MinuteTicks
    BY DEF Minute
  <1> HIDE DEF m
  <1>4. (m + 1) * MinuteTicks = m * MinuteTicks + MinuteTicks /\ m * MinuteTicks \in Int
    BY <1>1, <1>2, MulSucc
  <1>5. ((m + 1) + 1) * MinuteTicks = (m + 1) * MinuteTicks + MinuteTicks
    BY <1>1, <1>2, MulSucc
  <1>6. CASE now + 1 < (m + 1) * MinuteTicks
    <2>1. m * MinuteTicks <= now + 1
      BY <1>1, <1>4
    <2>2. (now + 1) \div MinuteTicks = m
      BY <1>1, <1>2, <1>6, <2>1, DivIs
    <2> QED
      BY <1>1, <1>3, <2>2 DEF m
  <1>7. CASE now + 1 >= (m + 1) * MinuteTicks
    <2>1. now + 1 = (m + 1) * MinuteTicks
      BY <1>1, <1>2, <1>4, <1>7
    <2>2. (m + 1) * MinuteTicks <= now + 1 /\ now + 1 < ((m + 1) + 1) * MinuteTicks /\ m + 1 \in Nat
      BY <1>1, <1>2, <1>4, <1>5, <2>1
    <2>3. (now + 1) \div MinuteTicks = m + 1
      BY <1>2, <2>2, DivIs
    <2> QED
      BY <1>1, <1>3, <2>1, <2>3 DEF m
  <1> QED
    BY <1>1, <1>2, <1>4, <1>6, <1>7

\* TickOf: what a tick does to one scheduler.
LEMMA TickOf ==
    ASSUME SchedInv, Tick, NEW g \in Gens
    PROVE  /\ sched'[g] \in SchedRecords
           /\ sched'[g].pc = sched[g].pc /\ sched'[g].minute = sched[g].minute
           /\ sched'[g].spec = sched[g].spec
           /\ sched[g].pc \in {"wait", "script"} => sched'[g].tick
           /\ Walked(sched'[g], attempts) /\ Paced(sched'[g], now + 1)
  <1> DEFINE r == sched[g]
             u == r.tick \/ r.pc \in {"wait", "script"}
             k == IF r.pc = "script" THEN r.took + 1 ELSE r.took
             new == [r EXCEPT !.tick = u, !.took = k]
  <1>1. /\ r \in SchedRecords /\ Walked(r, attempts) /\ Paced(r, now) /\ now \in Nat
    BY Present
  <1>2. AtRest(g) /\ sched'[g] = new
    BY <1>1 DEF Tick, TickerFires, SchedRecords
  <1>3. Active(r) => r.pc = "script" /\ r.took < Timeout
    BY <1>2 DEF AtRest, Active
  <1> HIDE DEF r
  <1>4. u \in BOOLEAN /\ (r.pc \in {"wait", "script"} => u)
    BY <1>1 DEF SchedRecords
  <1>5. k \in 0 .. Timeout
    BY <1>1, <1>3, Times DEF SchedRecords, Active
  <1>6. r.pc = "script" => k = r.took + 1
    OBVIOUS
  <1> HIDE DEF u, k
  <1>7. /\ new \in SchedRecords /\ new.pc = r.pc /\ new.todo = r.todo /\ new.minute = r.minute
        /\ new.spec = r.spec /\ new.took = k /\ new.tick = u
    BY <1>1, <1>4, <1>5 DEF SchedRecords
  <1> HIDE DEF new
  <1>8. Walked(new, attempts)
    BY <1>1, <1>7 DEF Walked, Active
  <1>9. Paced(new, now + 1)
    <2>1. SUFFICES ASSUME Active(new)
                   PROVE  /\ new.minute * MinuteTicks <= now + 1
                          /\ now + 1 < (new.minute + 1) * MinuteTicks + Spent(new)
      BY DEF Paced
    <2>2. Active(r) /\ r.pc = "script"
      BY <1>3, <1>7, <2>1 DEF Active
    <2>3. Spent(r) \in Nat
      BY <1>1, <2>2, SpentType
    <2>4. Spent(new) = Spent(r) + 1
      <3> DEFINE p == (Cardinality(Specs) - Cardinality(r.todo)) * Timeout
      <3>1. Cardinality(Specs) \in Nat /\ Cardinality(r.todo) \in Nat /\ Timeout \in Nat
        BY <1>1, Less, Times DEF SchedRecords
      <3>2. p \in Int
        BY <3>1
      <3>3. Spent(r) = p + r.took /\ Spent(new) = p + k /\ k = r.took + 1
        BY <1>6, <1>7, <2>2 DEF Spent
      <3>4. r.took \in Int
        BY <1>1, Times DEF SchedRecords
      <3> HIDE DEF p
      <3> QED
        BY <3>2, <3>3, <3>4
    <2>5. r.minute \in Nat /\ r.minute * MinuteTicks \in Int /\ (r.minute + 1) * MinuteTicks \in Int
      BY <1>1, Times DEF SchedRecords
    <2>6. r.minute * MinuteTicks <= now /\ now < (r.minute + 1) * MinuteTicks + Spent(r)
      BY <1>1, <2>2 DEF Paced
    <2> QED
      BY <1>1, <1>7, <2>3, <2>4, <2>5, <2>6
  <1> QED
    BY <1>2, <1>4, <1>7, <1>8, <1>9 DEF r

\* Tick: whoever lets the clock go on has its script's time still to spend.
LEMMA TickKeeps ==
    ASSUME SchedInv, Tick
    PROVE  SchedInv'
  <1>1. /\ now' = now + 1 /\ now < MaxTime /\ UNCHANGED <<gen, torn, lastRuns, attempts, ok>>
        /\ now \in 0 .. MaxTime /\ MaxTime \in Nat
    BY Times DEF Tick, SchedInv, TypeOK
  <1>2. now' \in 0 .. MaxTime
    BY <1>1
  <1>3. sched' \in [Gens -> SchedRecords]
    <2>1. \A g \in Gens : sched'[g] \in SchedRecords
      BY TickOf
    <2>2. DOMAIN sched' = Gens /\ sched' = [g \in Gens |-> sched'[g]]
      BY DEF Tick
    <2> QED
      BY <2>1, <2>2
  <1>4. TypeOK'
    BY <1>1, <1>2, <1>3 DEF SchedInv, TypeOK
  <1>5. Generations'
    BY <1>1, TickOf DEF SchedInv, Generations, TypeOK
  <1>6. Passes'
    BY <1>1, TickOf DEF Passes
  <1>7. Remembered'
    <2>1. 0 .. Minute \subseteq 0 .. Minute'
      BY <1>1, MinuteGrows
    <2> HIDE DEF Minute
    <2> QED
      BY <1>1, <2>1 DEF SchedInv, Remembered
  <1> QED
    BY <1>4, <1>5, <1>6, <1>7 DEF SchedInv

\* Reload: the new generation has a scheduler, with a pass to make.
LEMMA ReloadKeeps ==
    ASSUME SchedInv, Reload
    PROVE  /\ SchedInv' /\ sched'[gen'] = Started /\ gen' = gen + 1
           /\ \A g \in Gens : g # gen' => sched'[g] = sched[g]
  <1>1. /\ gen \in Gens /\ gen + 1 \in Gens /\ gen' = gen + 1
        /\ UNCHANGED <<now, torn, lastRuns, attempts, ok>>
        /\ sched \in [Gens -> SchedRecords] /\ sched' = [sched EXCEPT ![gen + 1] = Started]
    BY Times DEF Reload, SchedInv, TypeOK, Gens
  <1>2. Started \in SchedRecords /\ Started.pc = "pass"
    BY NewTypes
  <1>3. /\ sched' \in [Gens -> SchedRecords] /\ sched'[gen + 1] = Started
        /\ \A g \in Gens : g # gen + 1 => sched'[g] = sched[g]
    BY <1>1, <1>2
  <1>4. TypeOK'
    BY <1>1, <1>3 DEF SchedInv, TypeOK
  <1>5. Generations'
    BY <1>1, <1>2, <1>3 DEF SchedInv, Generations, Gens
  <1>6. ASSUME NEW g \in Gens
        PROVE  Walked(sched'[g], attempts') /\ Paced(sched'[g], now')
    <2>1. CASE g = gen + 1
      BY <1>2, <1>3, <2>1 DEF Walked, Paced, Active
    <2>2. CASE g # gen + 1
      BY <1>1, <1>3, <2>2 DEF SchedInv, Passes
    <2> QED
      BY <2>1, <2>2
  <1>7. Remembered'
    BY <1>1, Unforgotten
  <1> QED
    BY <1>1, <1>3, <1>4, <1>5, <1>6, <1>7 DEF SchedInv, Passes

\* SchedulerKeeps: all steps of a scheduler.
LEMMA SchedulerKeeps ==
    ASSUME SchedInv, NEW g \in Gens, Scheduler(g)
    PROVE  SchedInv'
  BY LoadAutosKeeps, IdleSteps, SkipSpecKeeps, RunScriptKeeps, ScriptSucceedsKeeps,
     ScriptFailsKeeps, RecordKeeps DEF Scheduler

\* NextKeeps: every step.
LEMMA NextKeeps ==
    ASSUME SchedInv, [Next]_vars
    PROVE  SchedInv'
  <1>1. CASE UNCHANGED vars
    BY <1>1 DEF vars, SchedInv, TypeOK, Generations, Passes, Remembered, Walked, Paced, Minute
  <1> QED
    BY <1>1, TickKeeps, ReloadKeeps, SchedulerKeeps DEF Next, TimeIsUp

\* InitHolds: the first pass is to be made.
LEMMA InitHolds == Init => SchedInv
  <1>1. SUFFICES ASSUME Init PROVE SchedInv
    OBVIOUS
  <1>2. /\ MaxGen \in Nat \ {0} /\ MaxTime \in Nat /\ MaxTorn \in Nat /\ 1 \in Gens
    BY Times DEF Gens
  <1>3. /\ Started \in SchedRecords /\ Started.pc = "pass"
        /\ Unborn \in SchedRecords /\ Unborn.pc = "unborn"
    BY NewTypes
  <1>4. /\ sched \in [Gens -> SchedRecords]
        /\ \A g \in Gens : sched[g] = IF g = 1 THEN Started ELSE Unborn
    BY <1>1, <1>3 DEF Init
  <1>5. lastRuns \in [Specs -> SUBSET Int] /\ \A s \in Specs : lastRuns[s] = {}
    BY <1>1 DEF Init, NoKey
  <1>6. TypeOK
    BY <1>1, <1>2, <1>4, <1>5 DEF Init, TypeOK
  <1>7. Generations
    BY <1>1, <1>2, <1>3, <1>4 DEF Init, Generations, Gens
  <1>8. Passes
    BY <1>3, <1>4 DEF Passes, Walked, Paced, Active
  <1>9. Remembered
    BY <1>5 DEF Remembered
  <1> QED
    BY <1>6, <1>7, <1>8, <1>9 DEF SchedInv

\* InvCorrect: the invariant holds in every state that can be reached.
THEOREM InvCorrect == Spec => []SchedInv
  <1>1. Init => SchedInv
    BY InitHolds
  <1>2. SchedInv /\ [Next]_vars => SchedInv'
    BY NextKeeps
  <1> QED
    BY <1>1, <1>2, PTL DEF Spec

\* TypeCorrect: the variables always have the shapes of the Go values.
THEOREM TypeCorrect == Spec => []TypeOK
  <1>1. SchedInv => TypeOK
    BY DEF SchedInv
  <1> QED
    BY <1>1, InvCorrect, PTL

-----------------------------------------------------------------------------
(* No minute is overslept.                                                 *)

\* A pass and the failing reads together fit into a minute.
Fits == Longest + MaxTorn < MinuteTicks

\* OneMoves: the steps of one scheduler leave the others alone.
LEMMA OneMoves ==
    ASSUME SchedInv, NEW g \in Gens, Scheduler(g)
    PROVE  /\ \A h \in Gens : h # g => sched'[h] = sched[h]
           /\ now' = now /\ gen' = gen /\ attempts \subseteq attempts'
           /\ torn' = torn \/ LoadFails(g)
  BY Present DEF Scheduler, LoadAutos, LoadFails, SkipSpec, RunScript, ScriptSucceeds, ScriptFails,
                 Record, PassEnds, Wake, Stop

\* OneStep: a scheduler in a pass goes on with it, unless it is through.
LEMMA OneStep ==
    ASSUME SchedInv, NEW g \in Gens, Scheduler(g), Active(sched[g])
    PROVE  \/ Active(sched'[g]) /\ sched'[g].minute = sched[g].minute
           \/ PassEnds(g)
  <1>1. /\ sched \in [Gens -> SchedRecords] /\ sched[g] \in SchedRecords
    BY Present
  <1>2. ~LoadAutos(g) /\ ~LoadFails(g) /\ ~Wake(g) /\ ~Stop(g)
    BY DEF Active, LoadAutos, LoadFails, Wake, Stop
  <1>3. ASSUME NEW s \in Specs, SkipSpec(g, s)
        PROVE  Active(sched'[g]) /\ sched'[g].minute = sched[g].minute
    BY <1>1, <1>3 DEF Active, SkipSpec, SchedRecords
  <1>4. ASSUME NEW s \in Specs, RunScript(g, s)
        PROVE  Active(sched'[g]) /\ sched'[g].minute = sched[g].minute
    BY <1>1, <1>4 DEF Active, RunScript, SchedRecords
  <1>5. ASSUME ScriptSucceeds(g)
        PROVE  Active(sched'[g]) /\ sched'[g].minute = sched[g].minute
    BY <1>1, <1>5 DEF Active, ScriptSucceeds, SchedRecords
  <1>6. ASSUME ScriptFails(g) \/ Record(g)
        PROVE  Active(sched'[g]) /\ sched'[g].minute = sched[g].minute
    BY <1>1, <1>6 DEF Active, ScriptFails, Record, SchedRecords
  <1> QED
    BY <1>2, <1>3, <1>4, <1>5, <1>6 DEF Scheduler

\* StaysBegun: a minute that had its pass is not forgotten.
LEMMA StaysBegun ==
    ASSUME SchedInv, [Next]_vars, NEW m, Begun(m)
    PROVE  Begun(m)'
  <1>1. attempts \subseteq attempts'
    BY OneMoves DEF Next, Tick, Reload, TimeIsUp, vars
  <1>2. CASE \A s \in Specs : DueAt(s, m) => <<s, KeyAt(s, m)>> \in attempts
    BY <1>1, <1>2 DEF Begun
  <1>3. ASSUME NEW g \in Gens, Active(sched[g]), sched[g].minute = m
        PROVE  Begun(m)'
    <2>1. CASE sched'[g].pc = sched[g].pc /\ sched'[g].minute = sched[g].minute
      BY <1>3, <2>1 DEF Begun, Active
    <2>2. CASE Tick
      BY <2>1, <2>2, TickOf
    <2>3. CASE Reload
      <3>1. sched[g].pc # "unborn" /\ gen \in Gens
        BY <1>3 DEF SchedInv, TypeOK, Active
      <3>2. g # gen'
        BY <2>3, <3>1 DEF SchedInv, Generations, Reload, Gens
      <3> QED
        BY <2>1, <2>3, <3>2, ReloadKeeps
    <2>4. ASSUME NEW h \in Gens, Scheduler(h)
          PROVE  Begun(m)'
      <3>1. CASE h # g
        BY <2>1, <2>4, <3>1, OneMoves
      <3>2. CASE h = g /\ PassEnds(g)
        <4>1. sched[g].todo = {} /\ Walked(sched[g], attempts)
          BY <3>2, Present DEF PassEnds
        <4> QED
          BY <1>2, <1>3, <4>1 DEF Walked
      <3>3. CASE h = g /\ ~PassEnds(g)
        BY <1>3, <2>4, <3>3, OneStep DEF Begun
      <3> QED
        BY <3>1, <3>2, <3>3
    <2>5. CASE TimeIsUp \/ UNCHANGED vars
      BY <2>1, <2>5 DEF TimeIsUp, vars
    <2> QED
      BY <2>2, <2>3, <2>4, <2>5 DEF Next
  <1> QED
    BY <1>2, <1>3 DEF Begun

\* Behind: a pass of an earlier minute is not longer ago than it may take.
LEMMA Behind ==
    ASSUME SchedInv, NEW g \in Gens, Active(sched[g]), ~Begun(Minute)
    PROVE  now < Minute * MinuteTicks + Longest
  <1> DEFINE m == sched[g].minute
             n == Minute
  <1>1. m \in Nat /\ m <= n /\ now < (m + 1) * MinuteTicks + Longest
    BY PassMinute
  <1>2. n \in Nat /\ now \in Nat
    BY Present
  <1>3. m # n
    BY DEF Begun
  <1> HIDE DEF m, n
  <1>4. m + 1 <= n
    BY <1>1, <1>2, <1>3
  <1>5. (m + 1) * MinuteTicks <= n * MinuteTicks
    BY <1>1, <1>2, <1>4, Times, MulMono
  <1>6. (m + 1) * MinuteTicks \in Int /\ n * MinuteTicks \in Int /\ Longest \in Int
    BY <1>1, <1>2, Times
  <1>7. now < n * MinuteTicks + Longest
    BY <1>1, <1>2, <1>5, <1>6
  <1> QED
    BY <1>7 DEF n

\* Bounds: the terms of Late are numbers.
LEMMA Bounds ==
    ASSUME SchedInv
    PROVE  /\ now \in Int /\ Minute \in Int /\ Minute * MinuteTicks \in Int /\ Longest \in Nat
           /\ torn \in Nat /\ torn <= MaxTorn /\ MaxTorn \in Nat /\ MinuteTicks \in Nat \ {0}
  <1>1. now \in Nat /\ Minute \in Nat
    BY Present DEF SchedInv, TypeOK
  <1> HIDE DEF Minute
  <1>2. Minute * MinuteTicks \in Int
    BY <1>1, Times
  <1>3. torn \in Nat /\ torn <= MaxTorn
    BY Times DEF SchedInv, TypeOK
  <1> QED
    BY <1>1, <1>2, <1>3, Times

\* WakeStep: the present scheduler is as late as its last pass and the reads that failed.
LEMMA WakeStep ==
    ASSUME SchedInv, Awake, NEW g \in Gens, Scheduler(g)
    PROVE  Awake'
  <1>1. /\ now' = now /\ gen' = gen /\ Minute' = Minute /\ gen \in Gens
        /\ \A h \in Gens : h # g => sched'[h] = sched[h]
        /\ torn' = torn \/ LoadFails(g)
    BY OneMoves DEF SchedInv, TypeOK, Minute
  <1>2. ASSUME NEW m, Begun(m)
        PROVE  Begun(m)'
    BY <1>2, StaysBegun DEF Next
  <1> HIDE DEF Minute
  <1>3. \A m \in 0 .. Minute' - 1 : Begun(m)'
    BY <1>1, <1>2 DEF Awake
  <1>4. ~Begun(Minute)' => ~Begun(Minute)
    BY <1>1, <1>2
  <1>5. ASSUME ~Begun(Minute)', ~Begun(Minute)
        PROVE  Late(sched[gen], now, torn)'
    <2> DEFINE r == sched[gen]
               end == Minute * MinuteTicks + Longest
    <2>1. Late(r, now, torn) /\ r \in SchedRecords
      BY <1>5, Present, <1>1 DEF Awake
    <2>2. now \in Int /\ end \in Int /\ torn \in Nat
      BY Bounds
    <2>3. Active(r) => now < end
      BY <1>1, <1>5, Behind
    <2>4. sched \in [Gens -> SchedRecords]
      BY Present
    <2>5. torn' \in Nat /\ torn <= torn'
      BY <1>1, <2>2 DEF LoadFails
    <2>6. Late(r, now, torn) <=>
            /\ r.pc = "wait" /\ ~r.tick => now < end + torn
            /\ r.pc = "wait" /\ r.tick => now <= end + torn
            /\ r.pc = "pass" => now <= end + torn
      BY DEF Late
    <2>7. Late(sched[gen], now, torn)' <=>
            /\ sched'[gen].pc = "wait" /\ ~sched'[gen].tick => now < end + torn'
            /\ sched'[gen].pc = "wait" /\ sched'[gen].tick => now <= end + torn'
            /\ sched'[gen].pc = "pass" => now <= end + torn'
      BY <1>1 DEF Late
    <2>8. CASE g # gen
      <3>1. sched'[gen] = r
        BY <1>1, <2>8
      <3> HIDE DEF end, r
      <3> QED
        BY <2>1, <2>2, <2>5, <2>6, <2>7, <3>1
    <2>9. CASE g = gen /\ Active(r)
      <3>1. CASE Active(sched'[gen])
        BY <2>7, <3>1 DEF Active
      <3>2. CASE PassEnds(gen)
        <4>1. sched'[gen].pc = "wait"
          BY <1>1, <2>1, <2>4, <3>2 DEF PassEnds, SchedRecords
        <4>2. now < end /\ now \in Int /\ end \in Int /\ torn' \in Nat
          BY <2>2, <2>3, <2>5, <2>9
        <4> HIDE DEF end
        <4>3. now < end + torn' /\ now <= end + torn'
          BY <4>2, Later
        <4>4. sched'[gen].pc # "pass"
          BY <4>1
        <4> QED
          BY <2>7, <4>3, <4>4
      <3> QED
        BY <2>9, <3>1, <3>2, OneStep
    <2>10. CASE LoadAutos(gen) /\ g = gen
      <3>1. Active(sched'[gen]) /\ sched'[gen].minute = Minute
        BY <1>1, <2>1, <2>4, <2>10 DEF LoadAutos, Active, SchedRecords
      <3>2. Begun(Minute)'
        BY <1>1, <3>1 DEF Begun
      <3> QED
        BY <1>5, <3>2
    <2>11. CASE LoadFails(gen) /\ g = gen
      <3>1. sched'[gen].pc = "wait" /\ r.pc = "pass" /\ torn' = torn + 1 /\ end \in Int
        BY <1>1, <2>1, <2>2, <2>4, <2>11 DEF LoadFails, SchedRecords
      <3> HIDE DEF end, r
      <3>2. now <= end + torn
        BY <2>1, <2>6, <3>1
      <3>3. now < end + torn' /\ now <= end + torn'
        BY <2>2, <3>1, <3>2
      <3>4. sched'[gen].pc # "pass"
        BY <3>1
      <3> QED
        BY <2>7, <3>2, <3>3, <3>4
    <2>12. CASE Wake(gen) /\ g = gen
      <3>1. sched'[gen].pc = "pass" /\ r.pc = "wait" /\ r.tick /\ torn' = torn
        BY <1>1, <2>1, <2>4, <2>12 DEF Wake, SchedRecords
      <3> HIDE DEF end, r
      <3>2. now <= end + torn
        BY <2>1, <2>6, <3>1
      <3>3. now <= end + torn'
        BY <3>1, <3>2
      <3>4. sched'[gen].pc # "wait"
        BY <3>1
      <3> QED
        BY <2>7, <3>3, <3>4
    <2>13. ~Stop(gen)
      BY <1>1 DEF Stop, Cancelled, Gens
    <2>14. CASE g = gen /\ ~Active(r)
      <3>1. LoadAutos(gen) \/ LoadFails(gen) \/ Wake(gen) \/ Stop(gen)
        BY <2>14 DEF Scheduler, SkipSpec, RunScript, ScriptSucceeds, ScriptFails, Record,
                     PassEnds, Active
      <3> QED
        BY <2>10, <2>11, <2>12, <2>13, <2>14, <3>1
    <2> QED
      BY <2>8, <2>9, <2>14
  <1> QED
    BY <1>1, <1>3, <1>4, <1>5 DEF Awake

\* WakeTick: when a minute ends, its pass was begun.
LEMMA WakeTick ==
    ASSUME SchedInv, Awake, Fits, Tick
    PROVE  Awake'
  <1> DEFINE m == Minute
             mt == m * MinuteTicks
  <1>1. /\ now \in Int /\ m \in Int /\ mt \in Int /\ Longest \in Nat
        /\ torn \in Nat /\ torn <= MaxTorn /\ MaxTorn \in Nat /\ MinuteTicks \in Nat \ {0}
    BY Bounds
  <1>2. now' = now + 1 /\ torn' = torn /\ gen' = gen /\ gen \in Gens /\ AtRest(gen)
    BY DEF Tick, SchedInv, TypeOK
  <1>3. \A n : Begun(n) => Begun(n)'
    BY StaysBegun DEF Next
  <1>4. /\ \A n \in 0 .. m - 1 : Begun(n)
        /\ Begun(m) \/ Late(sched[gen], now, torn)
    BY DEF Awake
  <1>5. /\ sched[gen].pc \notin {"unborn", "gone"} /\ sched[gen].pc # "pass" /\ ~Cancelled(gen)
        /\ sched[gen].pc = "wait" => ~sched[gen].tick
        /\ Active(sched[gen]) => sched[gen].pc = "script"
    BY <1>2 DEF SchedInv, Generations, Gens, AtRest, Active, Cancelled
  <1>6. /\ sched'[gen].pc = sched[gen].pc
        /\ sched[gen].pc = "wait" => sched'[gen].tick
    BY <1>2, TickOf
  <1>7. ~Begun(m) => now < mt + Longest + torn
    <2>1. SUFFICES ASSUME ~Begun(m) PROVE now < mt + Longest + torn
      OBVIOUS
    <2>2. CASE sched[gen].pc = "wait"
      BY <1>4, <1>5, <2>1, <2>2 DEF Late
    <2>3. CASE Active(sched[gen])
      <3>1. now < mt + Longest
        BY <1>2, <2>1, <2>3, Behind
      <3> HIDE DEF mt
      <3> QED
        BY <1>1, <3>1
    <2>4. sched[gen] \in SchedRecords
      BY <1>2, Present
    <2> QED
      BY <1>5, <2>2, <2>3, <2>4 DEF SchedRecords, Active
  <1>8. CASE Minute' = Minute
    <2>1. \A n \in 0 .. Minute' - 1 : Begun(n)'
      BY <1>3, <1>4, <1>8
    <2>2. CASE Begun(m)
      BY <1>3, <1>8, <2>1, <2>2 DEF Awake
    <2>3. CASE ~Begun(m)
      <3>1. now' <= mt + Longest + torn
        <4> HIDE DEF mt
        <4> QED
          BY <1>1, <1>2, <1>7, <2>3
      <3>2. Late(sched[gen], now, torn)'
        BY <1>2, <1>5, <1>6, <1>8, <3>1 DEF Late
      <3> QED
        BY <2>1, <3>2 DEF Awake
    <2> QED
      BY <2>2, <2>3
  <1>9. CASE Minute' = Minute + 1 /\ now' = Minute' * MinuteTicks
    <2>1. Begun(m)
      <3>1. now + 1 = mt + MinuteTicks
        <4> HIDE DEF m, mt
        <4>1. (m + 1) * MinuteTicks = m * MinuteTicks + MinuteTicks
          BY <1>1, MulSucc
        <4> QED
          BY <1>2, <1>9, <4>1 DEF mt, m
      <3> HIDE DEF mt
      <3>2. ~(now < mt + Longest + torn)
        BY <1>1, <3>1 DEF Fits
      <3> QED
        BY <1>7, <3>2
    <2>2. \A n \in 0 .. Minute' - 1 : Begun(n)'
      <3> HIDE DEF m
      <3>1. \A n \in 0 .. m : Begun(n)'
        BY <1>1, <1>3, <1>4, <2>1
      <3>2. Minute' - 1 = m
        BY <1>1, <1>9 DEF m
      <3> QED
        BY <3>1, <3>2
    <2>3. Late(sched[gen], now, torn)'
      <3> DEFINE e == Minute' * MinuteTicks
      <3>1. now' = e /\ now' \in Int
        BY <1>1, <1>2, <1>9
      <3> HIDE DEF e
      <3>2. now' <= e + Longest + torn'
        BY <1>1, <1>2, <3>1
      <3> USE DEF e
      <3> QED
        BY <1>2, <1>5, <1>6, <3>2 DEF Late
    <2> QED
      BY <2>2, <2>3 DEF Awake
  <1> QED
    BY <1>2, <1>8, <1>9, MinuteGrows

\* WakeReload: the next generation takes over where the last one was.
LEMMA WakeReload ==
    ASSUME SchedInv, Awake, Reload
    PROVE  Awake'
  <1> DEFINE end == Minute * MinuteTicks + Longest
  <1>1. /\ now' = now /\ torn' = torn /\ Minute' = Minute /\ gen \in Gens
        /\ sched'[gen'] = Started
    BY ReloadKeeps DEF Reload, Minute, SchedInv, TypeOK
  <1>2. \A n : Begun(n) => Begun(n)'
    BY StaysBegun DEF Next
  <1>3. \A n \in 0 .. Minute' - 1 : Begun(n)'
    BY <1>1, <1>2 DEF Awake
  <1>4. ASSUME ~Begun(Minute)
        PROVE  Late(sched[gen], now, torn)'
    <2>1. /\ Late(sched[gen], now, torn) /\ sched[gen] \in SchedRecords
          /\ sched[gen].pc \notin {"unborn", "gone"}
      BY <1>1, <1>4, Present DEF Awake, SchedInv, Generations, Gens
    <2>2. now \in Int /\ end \in Int /\ torn \in Nat
      BY Bounds
    <2>3. Active(sched[gen]) => now < end
      BY <1>1, <1>4, Behind
    <2>4. now <= end + torn
      <3>1. CASE Active(sched[gen])
        <4> HIDE DEF end
        <4> QED
          BY <2>2, <2>3, <3>1
      <3>2. CASE sched[gen].pc = "wait" /\ ~sched[gen].tick
        <4>1. now < end + torn
          BY <2>1, <3>2 DEF Late
        <4> HIDE DEF end
        <4> QED
          BY <2>2, <4>1
      <3>3. CASE sched[gen].pc = "wait" /\ sched[gen].tick
        BY <2>1, <3>3 DEF Late
      <3>4. CASE sched[gen].pc = "pass"
        BY <2>1, <3>4 DEF Late
      <3> QED
        BY <2>1, <3>1, <3>2, <3>3, <3>4 DEF SchedRecords, Active
    <2>5. Started.pc = "pass"
      BY NewTypes
    <2> QED
      BY <1>1, <2>4, <2>5 DEF Late
  <1> QED
    BY <1>1, <1>2, <1>3, <1>4 DEF Awake

\* WakeInit: the runner starts in a minute that has just begun.
LEMMA WakeInit == Init => Awake
  <1>1. SUFFICES ASSUME Init PROVE Awake
    OBVIOUS
  <1>2. now = 0 /\ torn = 0 /\ gen = 1 /\ 1 \in Gens /\ MinuteTicks \in Nat \ {0} /\ Longest \in Nat
    BY <1>1, Times DEF Init, Gens
  <1>3. Minute = 0
    BY <1>2 DEF Minute
  <1>4. sched[gen] = Started
    BY <1>1, <1>2 DEF Init
  <1>5. Started.pc = "pass"
    BY NewTypes
  <1>6. now <= Minute * MinuteTicks + Longest + torn
    BY <1>2, <1>3
  <1>7. Late(sched[gen], now, torn)
    BY <1>4, <1>5, <1>6 DEF Late
  <1> HIDE DEF Minute
  <1>8. 0 .. Minute - 1 = {}
    BY <1>3
  <1> QED
    BY <1>7, <1>8 DEF Awake

\* WakeNext: every step.
LEMMA WakeNext ==
    ASSUME SchedInv, Awake, Fits, [Next]_vars
    PROVE  Awake'
  <1>1. CASE UNCHANGED vars
    BY <1>1 DEF vars, Awake, Begun, Late, Minute
  <1> QED
    BY <1>1, WakeTick, WakeReload, WakeStep DEF Next, TimeIsUp

\* AttemptedInTime: a minute that had its pass, and whose pass must be over.
LEMMA AttemptedInTime ==
    ASSUME SchedInv, Fits => Awake
    PROVE  DueIsAttempted
  <1>1. SUFFICES ASSUME Fits, NEW s \in Specs, NEW m \in 0 .. Minute, DueAt(s, m),
                        now >= (m + 1) * MinuteTicks + Longest
                 PROVE  <<s, KeyAt(s, m)>> \in attempts
    BY DEF DueIsAttempted, Fits, Longest, DueAt, KeyAt
  <1> DEFINE n == Minute
  <1>2. n \in Nat /\ now \in Nat /\ now < (n + 1) * MinuteTicks /\ MinuteTicks \in Nat /\ Longest \in Nat
    <2>1. Gens # {}
      BY DEF SchedInv, TypeOK
    <2> QED
      BY <2>1, Present, Times
  <1>3. m \in Nat /\ m <= n /\ (m + 1) * MinuteTicks \in Int
    BY <1>2
  <1>4. m # n
    <2> HIDE DEF n
    <2> QED
      BY <1>1, <1>2, <1>3
  <1>5. Begun(m)
    BY <1>1, <1>2, <1>3, <1>4 DEF Awake
  <1>6. ~\E g \in Gens : Active(sched[g]) /\ sched[g].minute = m
    <2>1. SUFFICES ASSUME NEW g \in Gens, Active(sched[g]), sched[g].minute = m PROVE FALSE
      OBVIOUS
    <2>2. now < (m + 1) * MinuteTicks + Longest
      BY <2>1, PassMinute
    <2> QED
      BY <1>1, <1>2, <1>3, <2>2
  <1> QED
    BY <1>1, <1>5, <1>6 DEF Begun

\* NothingOverslept: an automation due in a minute is attempted in it or in the
\* pass that began in it, for every number of automations and generations.
THEOREM NothingOverslept == Spec => []DueIsAttempted
  <1> DEFINE I == SchedInv /\ (Fits => Awake)
  <1>1. Init => I
    BY InitHolds, WakeInit
  <1>2. I /\ [Next]_vars => I'
    <2>1. SUFFICES ASSUME I, [Next]_vars PROVE I'
      OBVIOUS
    <2>2. Fits' <=> Fits
      BY DEF Fits, Longest
    <2> QED
      BY <2>1, <2>2, NextKeeps, WakeNext
  <1>3. I => DueIsAttempted
    BY AttemptedInTime
  <1> QED
    BY <1>1, <1>2, <1>3, PTL DEF Spec

-----------------------------------------------------------------------------
(* No run key succeeds twice within a generation.                          *)

\* The minutes a pass may lag behind the clock.
Span == (Longest \div MinuteTicks) + 1

\* A pass and a change of the clock together take less than a day.
Daily ==
    \A s \in Specs : LET d == Trigger[s].zoneAfter - Trigger[s].zone
                     IN -(Day - Span) < d /\ d < Day - Span

\* A script under way has not succeeded yet.
Fresh(g) ==
    sched[g].pc = "script" =>
        <<g, sched[g].spec, KeyAt(sched[g].spec, sched[g].minute)>> \notin ok

\* A success is about to be remembered, or it was: by this key or a later one.
Noted(g, s, k) ==
    \/ sched[g].pc = "ended" /\ sched[g].spec = s /\ KeyAt(s, sched[g].minute) = k
    \/ \E j \in lastRuns[s] : k <= j

Once ==
    /\ \A g \in Gens : Fresh(g)
    /\ \A e \in ok : Noted(e[1], e[2], e[3])

\* SameTime: readings of one time of day are whole days apart.
LEMMA SameTime ==
    ASSUME NEW a \in Int, NEW b \in Int, a % 1440 = b % 1440
    PROVE  /\ b - a > -1440 => a <= b
           /\ b - a > -1440 /\ b - a < 1440 => a = b
  OBVIOUS

\* KeysAdvance: keys of due minutes keep the order of time, and those of less
\* than a day are the same.
LEMMA KeysAdvance ==
    ASSUME Daily, NEW s \in Specs, NEW m \in Nat, NEW n \in Nat, DueAt(s, m), DueAt(s, n),
           Span \in Nat, n <= m + Span
    PROVE  KeyAt(s, n) <= KeyAt(s, m)
  <1> DEFINE z == Trigger[s]
             d == z.zoneAfter - z.zone
             a == KeyAt(s, m)
             b == KeyAt(s, n)
  <1>1. z.zone \in Int /\ z.zoneAfter \in Int /\ z.change \in Int
    <2>1. z \in Site
      BY TriggerAssumption
    <2> HIDE DEF z
    <2> QED
      BY <2>1 DEF Site
  <1>2. d \in Int /\ -(1440 - Span) < d /\ d < 1440 - Span
    BY <1>1 DEF Daily, Day
  <1>3. a \in Int /\ b \in Int
    BY KeyType
  <1>4. a % 1440 = b % 1440
    BY DEF DueAt, TimeDue, KeyAt, TimeKey, MinuteOf, Day
  <1>5. /\ a = m + IF m < z.change THEN z.zone ELSE z.zoneAfter
        /\ b = n + IF n < z.change THEN z.zone ELSE z.zoneAfter
    BY DEF KeyAt, TimeKey, Wall, Offset
  <1>6. d = z.zoneAfter - z.zone
    OBVIOUS
  <1> HIDE DEF z, d, a, b
  <1>7. CASE n <= m
    <2>1. a - b > -1440
      BY <1>1, <1>2, <1>3, <1>5, <1>6, <1>7
    <2> QED
      BY <1>3, <1>4, <2>1, SameTime DEF a, b
  <1>8. CASE m < n
    <2>1. b - a > -1440 /\ b - a < 1440
      BY <1>1, <1>2, <1>3, <1>5, <1>6, <1>8
    <2>2. a = b
      BY <1>3, <1>4, <2>1, SameTime
    <2> QED
      BY <1>3, <2>2 DEF a, b
  <1> QED
    BY <1>7, <1>8

\* Lag: no pass lags behind the clock by more than the longest pass.
LEMMA Lag ==
    ASSUME SchedInv, NEW g \in Gens, Active(sched[g])
    PROVE  Span \in Nat /\ Minute <= sched[g].minute + Span
  <1> DEFINE q == Longest \div MinuteTicks
             m == sched[g].minute
             n == Minute
             mt == MinuteTicks
  <1>1. mt \in Nat \ {0} /\ Longest \in Nat
    BY Times
  <1>2. q \in Nat /\ Longest < (q + 1) * mt
    BY <1>1, DivBounds
  <1>3. m \in Nat /\ m <= n /\ now < (m + 1) * mt + Longest
    BY PassMinute
  <1>4. n \in Nat /\ now \in Nat /\ n * mt <= now
    BY Present
  <1>5. Span = q + 1
    BY DEF Span
  <1> HIDE DEF q, m, n, mt
  <1>6. (m + 1) * mt + (q + 1) * mt = ((m + 1) + (q + 1)) * mt
    BY <1>1, <1>2, <1>3
  <1>7. (m + 1) * mt \in Int /\ (q + 1) * mt \in Int /\ n * mt \in Int
    BY <1>1, <1>2, <1>3, <1>4
  <1>8. n * mt < ((m + 1) + (q + 1)) * mt
    BY <1>1, <1>2, <1>3, <1>4, <1>6, <1>7
  <1>9. n < (m + 1) + (q + 1)
    <2>1. SUFFICES ASSUME (m + 1) + (q + 1) <= n PROVE FALSE
      BY <1>2, <1>3, <1>4
    <2>2. ((m + 1) + (q + 1)) * mt <= n * mt
      BY <1>1, <1>2, <1>3, <1>4, <2>1, MulMono
    <2> QED
      BY <1>6, <1>7, <1>8, <2>2
  <1>10. n <= m + (q + 1)
    BY <1>2, <1>3, <1>4, <1>9
  <1> QED
    BY <1>2, <1>5, <1>10 DEF m, n

\* NotNewer: whatever is remembered, the present pass's key is as late.
LEMMA NotNewer ==
    ASSUME SchedInv, Daily, NEW g \in Gens, Active(sched[g]), NEW s \in Specs,
           DueAt(s, sched[g].minute), NEW j \in lastRuns[s]
    PROVE  j \in Int /\ j <= KeyAt(s, sched[g].minute)
  <1>1. PICK n \in 0 .. Minute : DueAt(s, n) /\ j = KeyAt(s, n)
    BY DEF SchedInv, Remembered
  <1>2. /\ Span \in Nat /\ sched[g].minute \in Nat /\ Minute \in Nat
        /\ Minute <= sched[g].minute + Span
    BY Lag, Present, PassMinute
  <1> HIDE DEF Minute
  <1>3. n \in Nat /\ n <= sched[g].minute + Span
    BY <1>2
  <1>4. j \in Int
    BY <1>1, <1>3, KeyType
  <1> QED
    BY <1>1, <1>2, <1>3, <1>4, KeysAdvance

\* A scheduler that neither begins a script nor has its success remembered.
Idles(r, new) ==
    /\ new.pc = "script" => r.pc = "script" /\ new.spec = r.spec /\ new.minute = r.minute
    /\ r.pc = "ended" => new.pc = "ended" /\ new.spec = r.spec /\ new.minute = r.minute

\* OnceFrame: such steps change nothing.
LEMMA OnceFrame ==
    ASSUME SchedInv, Once, UNCHANGED <<lastRuns, ok>>,
           \A g \in Gens : Idles(sched[g], sched'[g])
    PROVE  Once'
  <1>1. ASSUME NEW g \in Gens
        PROVE  Fresh(g)'
    BY DEF Once, Fresh, Idles
  <1>2. ASSUME NEW e \in ok'
        PROVE  Noted(e[1], e[2], e[3])'
    <2>1. e \in ok /\ e[1] \in Gens
      BY DEF SchedInv, TypeOK
    <2>2. Noted(e[1], e[2], e[3]) /\ Idles(sched[e[1]], sched'[e[1]])
      BY <2>1 DEF Once
    <2> QED
      BY <2>2 DEF Noted, Idles
  <1> QED
    BY <1>1, <1>2 DEF Once

\* IdlesOne: the same for the steps of one scheduler.
LEMMA IdlesOne ==
    ASSUME SchedInv, Once, UNCHANGED <<lastRuns, ok>>, NEW g \in Gens,
           Scheduler(g), sched[g].pc # "ended", sched'[g].pc # "script"
    PROVE  Once'
  <1>1. \A h \in Gens : Idles(sched[h], sched'[h])
    BY OneMoves DEF Idles
  <1> QED
    BY <1>1, OnceFrame

\* OnceRun: what is started is due and not the remembered key, hence later
\* than it, and what succeeded is not later than what is remembered.
LEMMA OnceRun ==
    ASSUME SchedInv, Once, Daily, NEW g \in Gens, NEW s \in Specs, RunScript(g, s)
    PROVE  Once'
  <1> DEFINE k == KeyAt(s, sched[g].minute)
  <1>1. sched \in [Gens -> SchedRecords] /\ sched[g] \in SchedRecords
    BY Present
  <1>2. /\ sched[g].pc = "walk" /\ DueAt(s, sched[g].minute) /\ lastRuns[s] # {k}
        /\ UNCHANGED <<lastRuns, ok>>
    BY DEF RunScript, Due, DueAt, Key, KeyAt
  <1>3. /\ sched'[g].pc = "script" /\ sched'[g].spec = s /\ sched'[g].minute = sched[g].minute
        /\ \A h \in Gens : h # g => sched'[h] = sched[h]
    BY <1>1 DEF RunScript, SchedRecords
  <1>4. <<g, s, k>> \notin ok
    <2>1. SUFFICES ASSUME <<g, s, k>> \in ok PROVE FALSE
      OBVIOUS
    <2>2. Noted(g, s, k)
      BY <2>1 DEF Once
    <2>3. PICK j \in lastRuns[s] : k <= j
      BY <1>2, <2>2 DEF Noted
    <2>4. j \in Int /\ j <= k
      BY <1>2, <2>3, NotNewer DEF Active
    <2>5. lastRuns[s] = {j}
      BY <2>3 DEF SchedInv, Remembered
    <2>6. k \in Int
      BY <1>1, KeyType DEF SchedRecords
    <2> HIDE DEF k
    <2>7. j = k
      BY <2>3, <2>4, <2>6
    <2> QED
      BY <1>2, <2>5, <2>7 DEF k
  <1>5. ASSUME NEW h \in Gens
        PROVE  Fresh(h)'
    <2>1. CASE h = g
      BY <1>2, <1>3, <1>4, <2>1 DEF Fresh
    <2>2. CASE h # g
      BY <1>2, <1>3, <2>2 DEF Once, Fresh
    <2> QED
      BY <2>1, <2>2
  <1>6. ASSUME NEW e \in ok'
        PROVE  Noted(e[1], e[2], e[3])'
    <2>1. e \in ok /\ e[1] \in Gens
      BY <1>2 DEF SchedInv, TypeOK
    <2>2. Noted(e[1], e[2], e[3])
      BY <2>1 DEF Once
    <2> QED
      BY <1>2, <1>3, <2>1, <2>2 DEF Noted
  <1> QED
    BY <1>5, <1>6 DEF Once

\* OnceSuccess: a success is about to be remembered.
LEMMA OnceSuccess ==
    ASSUME SchedInv, Once, NEW g \in Gens, ScriptSucceeds(g)
    PROVE  Once'
  <1> DEFINE s == sched[g].spec
             k == KeyAt(s, sched[g].minute)
  <1>1. sched \in [Gens -> SchedRecords] /\ sched[g] \in SchedRecords
    BY Present
  <1>2. sched[g].pc = "script" /\ ok' = ok \cup {<<g, s, k>>} /\ lastRuns' = lastRuns
    BY DEF ScriptSucceeds, Key, KeyAt
  <1>3. /\ sched'[g].pc = "ended" /\ sched'[g].spec = s /\ sched'[g].minute = sched[g].minute
        /\ \A h \in Gens : h # g => sched'[h] = sched[h]
    BY <1>1 DEF ScriptSucceeds, SchedRecords
  <1>4. ASSUME NEW h \in Gens
        PROVE  Fresh(h)'
    BY <1>2, <1>3 DEF Once, Fresh
  <1>5. ASSUME NEW e \in ok'
        PROVE  Noted(e[1], e[2], e[3])'
    <2>1. CASE e = <<g, s, k>>
      <3>1. e[1] = g /\ e[2] = s /\ e[3] = k
        BY <2>1
      <3> QED
        BY <1>3, <3>1 DEF Noted
    <2>2. CASE e \in ok
      <3>1. Noted(e[1], e[2], e[3]) /\ e[1] \in Gens
        BY <2>2 DEF Once, SchedInv, TypeOK
      <3> QED
        BY <1>2, <1>3, <3>1 DEF Noted
    <2> QED
      BY <1>2, <2>1, <2>2
  <1> QED
    BY <1>4, <1>5 DEF Once

\* OnceRecord: what a late scheduler remembers is not older than what it overwrites.
LEMMA OnceRecord ==
    ASSUME SchedInv, Once, Daily, NEW g \in Gens, Record(g)
    PROVE  Once'
  <1> DEFINE s == sched[g].spec
             k == KeyAt(s, sched[g].minute)
  <1>1. /\ sched \in [Gens -> SchedRecords] /\ sched[g] \in SchedRecords
        /\ Walked(sched[g], attempts)
    BY Present
  <1>2. sched[g].pc = "ended" /\ ok' = ok /\ lastRuns' = [lastRuns EXCEPT ![s] = {k}]
    BY DEF Record, RememberRun, Key, KeyAt
  <1>3. sched'[g].pc = "walk" /\ \A h \in Gens : h # g => sched'[h] = sched[h]
    BY <1>1 DEF Record, SchedRecords
  <1>4. s \in Specs /\ DueAt(s, sched[g].minute)
    BY <1>1, <1>2 DEF Walked, Active, SchedRecords
  <1>5. k \in Int
    BY <1>1, <1>4, KeyType DEF SchedRecords
  <1>6. lastRuns \in [Specs -> SUBSET Int] /\ ok \subseteq Gens \X Specs \X Int
    BY DEF SchedInv, TypeOK
  <1>7. \A j \in lastRuns[s] : j \in Int /\ j <= k
    BY <1>2, <1>4, NotNewer DEF Active
  <1> HIDE DEF k
  <1>8. ASSUME NEW h \in Gens
        PROVE  Fresh(h)'
    BY <1>2, <1>3 DEF Once, Fresh
  <1>9. ASSUME NEW e \in ok'
        PROVE  Noted(e[1], e[2], e[3])'
    <2>1. e \in ok /\ e[1] \in Gens /\ e[2] \in Specs /\ e[3] \in Int
      BY <1>2, <1>6
    <2>2. Noted(e[1], e[2], e[3])
      BY <2>1 DEF Once
    <2>3. lastRuns'[s] = {k} /\ \A x \in Specs : x # s => lastRuns'[x] = lastRuns[x]
      BY <1>2, <1>4, <1>6
    <2>4. CASE \E j \in lastRuns[e[2]] : e[3] <= j
      <3>1. PICK j \in lastRuns[e[2]] : e[3] <= j
        BY <2>4
      <3>2. CASE e[2] = s
        <4>1. j \in Int /\ j <= k
          BY <1>7, <3>1, <3>2
        <4>2. e[3] <= k
          BY <1>5, <2>1, <3>1, <4>1
        <4> QED
          BY <2>3, <3>2, <4>2 DEF Noted
      <3>3. CASE e[2] # s
        BY <2>1, <2>3, <3>1, <3>3 DEF Noted
      <3> QED
        BY <3>2, <3>3
    <2>5. CASE /\ sched[e[1]].pc = "ended" /\ sched[e[1]].spec = e[2]
               /\ KeyAt(e[2], sched[e[1]].minute) = e[3]
      <3>1. CASE e[1] = g
        <4>1. e[2] = s /\ e[3] = k
          BY <2>5, <3>1 DEF k
        <4>2. e[3] <= k
          BY <1>5, <4>1
        <4> QED
          BY <2>3, <4>1, <4>2 DEF Noted
      <3>2. CASE e[1] # g
        BY <1>3, <2>1, <2>5, <3>2 DEF Noted
      <3> QED
        BY <3>1, <3>2
    <2> QED
      BY <2>2, <2>4, <2>5 DEF Noted
  <1> QED
    BY <1>8, <1>9 DEF Once

\* OnceNext: every step.
LEMMA OnceNext ==
    ASSUME SchedInv, Once, Daily, [Next]_vars
    PROVE  Once'
  <1>1. sched \in [Gens -> SchedRecords]
    BY DEF SchedInv, TypeOK
  <1>2. CASE Tick
    <2>1. \A g \in Gens : Idles(sched[g], sched'[g])
      BY <1>2, TickOf DEF Idles
    <2> QED
      BY <1>2, <2>1, OnceFrame DEF Tick
  <1>3. CASE Reload
    <2>1. sched[gen'].pc = "unborn" /\ Started.pc = "pass"
      <3>1. gen' = gen + 1 /\ gen' \in Gens /\ gen' > gen
        BY <1>3, Times DEF Reload, SchedInv, TypeOK, Gens
      <3> QED
        BY <3>1, NewTypes DEF SchedInv, Generations
    <2>2. \A g \in Gens : Idles(sched[g], sched'[g])
      BY <1>3, <2>1, ReloadKeeps DEF Idles
    <2> QED
      BY <1>3, <2>2, OnceFrame DEF Reload
  <1>4. CASE TimeIsUp \/ UNCHANGED vars
    <2>1. UNCHANGED <<lastRuns, ok>> /\ sched' = sched
      BY <1>4 DEF TimeIsUp, vars
    <2>2. \A g \in Gens : Idles(sched[g], sched'[g])
      BY <2>1 DEF Idles
    <2> QED
      BY <2>1, <2>2, OnceFrame
  <1>5. ASSUME NEW g \in Gens, Scheduler(g)
        PROVE  Once'
    <2>1. CASE LoadAutos(g) \/ LoadFails(g) \/ PassEnds(g)
      BY <1>1, <1>5, <2>1, IdlesOne DEF LoadAutos, LoadFails, PassEnds, SchedRecords
    <2>2. CASE Wake(g) \/ ScriptFails(g)
      BY <1>1, <1>5, <2>2, IdlesOne DEF Wake, ScriptFails, SchedRecords
    <2>3. CASE Stop(g)
      <3>1. Unborn \in SchedRecords
        BY NewTypes
      <3>2. sched'[g].pc = "gone"
        BY <1>1, <2>3, <3>1 DEF Stop, SchedRecords
      <3> QED
        BY <1>5, <2>3, <3>2, IdlesOne DEF Stop
    <2>4. ASSUME NEW s \in Specs, SkipSpec(g, s)
          PROVE  Once'
      BY <1>1, <1>5, <2>4, IdlesOne DEF SkipSpec, SchedRecords
    <2>5. ASSUME NEW s \in Specs, RunScript(g, s)
          PROVE  Once'
      BY <2>5, OnceRun
    <2> QED
      BY <1>5, <2>1, <2>2, <2>3, <2>4, <2>5, OnceSuccess, OnceRecord DEF Scheduler
  <1> QED
    BY <1>2, <1>3, <1>4, <1>5 DEF Next

\* OnceInit: nothing has succeeded.
LEMMA OnceInit == Init => Once
  <1>1. SUFFICES ASSUME Init PROVE Once
    OBVIOUS
  <1>2. ok = {}
    BY <1>1 DEF Init
  <1> QED
    BY <1>2 DEF Once, Fresh

\* SucceedsOnce: where a pass and a change of the clock together take less than
\* a day, no run key of an automation succeeds twice within a generation, even
\* if schedulers of earlier generations still overwrite what is remembered.
THEOREM SucceedsOnce == Daily => (Spec => OncePerGeneration)
  <1>1. SUFFICES ASSUME Daily PROVE Spec => OncePerGeneration
    OBVIOUS
  <1>2. Init => SchedInv /\ Once
    BY InitHolds, OnceInit
  <1>3. SchedInv /\ Once /\ [Next]_vars => (SchedInv /\ Once)'
    BY <1>1, NextKeeps, OnceNext
  <1>4. SchedInv /\ Once =>
          [\A g \in Gens :
              sched[g].pc = "script" /\ sched'[g].pc = "ended"
                 => <<g, sched[g].spec, Key(g, sched[g].spec)>> \notin ok]_vars
    BY DEF Once, Fresh, Key, KeyAt
  <1> QED
    BY <1>2, <1>3, <1>4, PTL DEF Spec, OncePerGeneration

-----------------------------------------------------------------------------
(* The triggers alone: the minutes of TriggerClock.                        *)

\* Every minute so far has been asked, and a date determines its keys.
ClockInv ==
    /\ site \in Sites /\ t \in First .. Last
    /\ \A m \in First .. t : /\ TimeRun(site, m) \subseteq timeRuns
                                 /\ SunRun(site, m) \subseteq sunRuns
    /\ \A r \in timeRuns : r[2] = r[1] * 1440 + site.at
    /\ \A r \in sunRuns : r[2] = Wall(site, r[1] * 1440 + site.sun + site.shift)

\* SiteType: what the triggers know of a site.
LEMMA SiteType ==
    ASSUME NEW z \in Site
    PROVE  /\ z.zone \in Int /\ z.zoneAfter \in Int /\ z.change \in Int
           /\ z.at \in 0 .. 1439 /\ z.at \in Int /\ z.sun \in Int /\ z.shift \in Int
  <1>1. z.zone \in Int /\ z.zoneAfter \in Int /\ z.change \in Int /\ z.at \in 0 .. 1439
    BY DEF Site, Day
  <1>2. z.sun \in Int
    <2>1. (0 .. Day) \cup {NoSun} \subseteq Int
      BY DEF Day, NoSun
    <2> QED
      BY <2>1 DEF Site
  <1>3. z.shift \in Int
    <2>1. -(Day - 1) .. Day - 1 \subseteq Int
      BY DEF Day
    <2> QED
      BY <2>1 DEF Site
  <1>4. z.at \in Int
    <2>1. 0 .. Day - 1 \subseteq Int
      BY DEF Day
    <2> QED
      BY <2>1 DEF Site
  <1> QED
    BY <1>1, <1>2, <1>3, <1>4

\* OnDate: a reading is a date and a minute of the day.
LEMMA OnDate ==
    ASSUME NEW w \in Int
    PROVE  /\ w \div 1440 \in Int /\ w % 1440 \in 0 .. 1439
           /\ w % 1440 = w - (w \div 1440) * 1440
  <1>1. w \div 1440 \in Int /\ w % 1440 \in 0 .. 1439
    OBVIOUS
  <1>2. w % 1440 = w - (w \div 1440) * 1440
    OBVIOUS
  <1> QED
    BY <1>1, <1>2

\* DateIs: and of no other date, at no other minute.
LEMMA DateIs ==
    ASSUME NEW w \in Int, NEW d \in Int, NEW a \in Int, 0 <= a, a <= 1439, w = d * 1440 + a
    PROVE  w \div 1440 = d /\ w % 1440 = a
  <1>1. w \div 1440 = d
    OBVIOUS
  <1>2. w % 1440 = a
    OBVIOUS
  <1> QED
    BY <1>1, <1>2

\* WallType: the wall clock before and after its change.
LEMMA WallType ==
    ASSUME NEW z \in Site, NEW m \in Int
    PROVE  /\ Wall(z, m) \in Int
           /\ m < z.change => Wall(z, m) = m + z.zone
           /\ m >= z.change => Wall(z, m) = m + z.zoneAfter
  BY SiteType DEF Wall, Offset

\* Reading: what the wall clock shows at some instant and what lies between its
\* readings at two others, it shows between those.
LEMMA Reading ==
    ASSUME NEW z \in Site, NEW f \in Int, NEW u \in Int, f <= u, NEW e \in Int,
           Wall(z, f) < Wall(z, e), Wall(z, e) < Wall(z, u)
    PROVE  \E m \in f .. u : Wall(z, m) = Wall(z, e)
  <1>1. z.zone \in Int /\ z.zoneAfter \in Int /\ z.change \in Int
    BY SiteType
  <1>2. CASE f <= e /\ e <= u
    BY <1>2
  <1>3. CASE e < f
    <2> DEFINE m == Wall(z, e) - z.zoneAfter
    <2>1. f >= z.change /\ u >= z.change /\ Wall(z, e) \in Int
      BY <1>1, <1>3, WallType
    <2>2. f + z.zoneAfter < Wall(z, e) /\ Wall(z, e) < u + z.zoneAfter
      BY <2>1, WallType
    <2>3. m \in Int /\ f < m /\ m < u /\ m >= z.change /\ m + z.zoneAfter = Wall(z, e)
      BY <1>1, <2>1, <2>2
    <2> HIDE DEF m
    <2>4. Wall(z, m) = Wall(z, e) /\ m \in f .. u
      BY <2>3, WallType
    <2> QED
      BY <2>4
  <1>4. CASE u < e
    <2> DEFINE m == Wall(z, e) - z.zone
    <2>1. f < z.change /\ u < z.change /\ Wall(z, e) \in Int
      BY <1>1, <1>4, WallType
    <2>2. f + z.zone < Wall(z, e) /\ Wall(z, e) < u + z.zone
      BY <2>1, WallType
    <2>3. m \in Int /\ f < m /\ m < u /\ m < z.change /\ m + z.zone = Wall(z, e)
      BY <1>1, <2>1, <2>2
    <2> HIDE DEF m
    <2>4. Wall(z, m) = Wall(z, e) /\ m \in f .. u
      BY <2>3, WallType
    <2> QED
      BY <2>4
  <1> QED
    BY <1>2, <1>3, <1>4

\* Shown: the wall clock shows every reading but those its change jumps over.
LEMMA Shown ==
    ASSUME NEW z \in Site, NEW w \in Int,
           ~(z.zone < z.zoneAfter /\ z.change + z.zone <= w /\ w < z.change + z.zoneAfter)
    PROVE  \E e \in Int : Wall(z, e) = w
  <1>1. z.zone \in Int /\ z.zoneAfter \in Int /\ z.change \in Int
    BY SiteType
  <1>2. CASE w - z.zone < z.change
    <2>1. w - z.zone \in Int /\ (w - z.zone) + z.zone = w
      BY <1>1
    <2>2. Wall(z, w - z.zone) = w
      BY <1>2, <2>1, WallType
    <2> QED
      BY <2>1, <2>2
  <1>3. CASE w - z.zoneAfter >= z.change
    <2>1. w - z.zoneAfter \in Int /\ (w - z.zoneAfter) + z.zoneAfter = w
      BY <1>1
    <2>2. Wall(z, w - z.zoneAfter) = w
      BY <1>3, <2>1, WallType
    <2> QED
      BY <2>1, <2>2
  <1> QED
    BY <1>1, <1>2, <1>3

\* ReadingOfDate: the readings of a whole date lie between the first and the last.
LEMMA ReadingOfDate ==
    ASSUME ClockInv, NEW d \in WholeDates, NEW e \in Int,
           Wall(site, e) \div 1440 = d
    PROVE  \E m \in First .. t : Wall(site, m) = Wall(site, e)
  <1> DEFINE a == Wall(site, First)
             b == Wall(site, t)
             w == Wall(site, e)
  <1>1. site \in Site /\ First \in Int /\ t \in Int /\ First <= t
    BY SitesAssumption, SpanAssumption DEF ClockInv
  <1>2. a \in Int /\ b \in Int /\ w \in Int
    BY <1>1, WallType
  <1>3. d \in (a \div 1440) + 1 .. (b \div 1440) - 1
    BY DEF WholeDates, DateOf, Day
  <1>4. w \div 1440 = d
    OBVIOUS
  <1>5. a < w /\ w < b
    <2> HIDE DEF a, b, w
    <2> QED
      BY <1>2, <1>3, <1>4
  <1> QED
    BY <1>1, <1>5, Reading

\* RunKeys: the key of a run follows from its date.
LEMMA RunKeys ==
    ASSUME NEW z \in Site, NEW m \in Int
    PROVE  /\ \A r \in TimeRun(z, m) : r[2] = r[1] * 1440 + z.at
           /\ \A r \in SunRun(z, m) : r[2] = Wall(z, r[1] * 1440 + z.sun + z.shift)
  <1> DEFINE w == Wall(z, m)
  <1>1. w \in Int
    BY WallType
  <1>2. w % 1440 = w - (w \div 1440) * 1440 /\ w \div 1440 \in Int
    BY <1>1, OnDate
  <1>3. ASSUME NEW r \in TimeRun(z, m)
        PROVE  r[2] = r[1] * 1440 + z.at
    <2>1. r = <<w \div 1440, w>> /\ w % 1440 = z.at
      BY DEF TimeRun, TimeDue, TimeKey, DateOf, MinuteOf, Day
    <2>2. r[1] = w \div 1440 /\ r[2] = w
      BY <2>1
    <2>3. z.at \in Int
      BY SiteType
    <2> HIDE DEF w
    <2> QED
      BY <1>1, <1>2, <2>1, <2>2, <2>3
  <1>4. ASSUME NEW r \in SunRun(z, m)
        PROVE  r[2] = Wall(z, r[1] * 1440 + z.sun + z.shift)
    BY DEF SunRun, SunKey, SunReading, SunEventTime, DateOf, Day
  <1> QED
    BY <1>3, <1>4

\* ClockStep: one more minute has been asked.
LEMMA ClockStep ==
    ASSUME ClockInv, [ClockNext]_clockVars
    PROVE  ClockInv'
  <1>1. First \in Int /\ Last \in Int /\ t \in First .. Last
    BY SitesAssumption, SpanAssumption DEF ClockInv
  <1>2. CASE UNCHANGED <<site, t, timeRuns, sunRuns>>
    BY <1>2 DEF ClockInv
  <1>3. CASE NextMinute
    <2>1. /\ site' = site /\ t' = t + 1 /\ t < Last
          /\ timeRuns' = timeRuns \cup TimeRun(site, t')
          /\ sunRuns' = sunRuns \cup SunRun(site, t')
      BY <1>3 DEF NextMinute
    <2>2. t' \in First .. Last /\ t' \in Int
      BY <1>1, <2>1
    <2>3. site \in Sites /\ site \in Site
      BY SitesAssumption, SpanAssumption DEF ClockInv
    <2>4. ASSUME NEW m \in First .. t'
          PROVE  TimeRun(site, m) \subseteq timeRuns' /\ SunRun(site, m) \subseteq sunRuns'
      <3>1. m \in First .. t \/ m = t'
        BY <1>1, <2>1
      <3> QED
        BY <2>1, <3>1 DEF ClockInv
    <2>5. \A r \in timeRuns' : r[2] = r[1] * 1440 + site.at
      BY <2>1, <2>2, <2>3, RunKeys DEF ClockInv
    <2>6. \A r \in sunRuns' : r[2] = Wall(site, r[1] * 1440 + site.sun + site.shift)
      BY <2>1, <2>2, <2>3, RunKeys DEF ClockInv
    <2> QED
      BY <2>1, <2>2, <2>3, <2>4, <2>5, <2>6 DEF ClockInv
  <1> QED
    BY <1>2, <1>3 DEF ClockNext, ClockIsUp, clockVars

\* ClockStart: the first minute is asked as well.
LEMMA ClockStart ==
    ASSUME ClockInit
    PROVE  ClockInv
  <1>1. /\ site \in Sites /\ site \in Site /\ t = First /\ First \in Int
        /\ timeRuns = TimeRun(site, First) /\ sunRuns = SunRun(site, First)
    BY SitesAssumption, SpanAssumption DEF ClockInit
  <1>2. t \in First .. Last /\ First .. t = {First}
    BY <1>1, SpanAssumption
  <1>3. /\ \A r \in timeRuns : r[2] = r[1] * 1440 + site.at
        /\ \A r \in sunRuns : r[2] = Wall(site, r[1] * 1440 + site.sun + site.shift)
    BY <1>1, RunKeys
  <1> QED
    BY <1>1, <1>2, <1>3 DEF ClockInv

\* ClockCorrect: the invariant of the triggers.
LEMMA ClockCorrect == ClockSpec => []ClockInv
  <1>1. ClockInit => ClockInv
    BY ClockStart
  <1>2. ClockInv /\ [ClockNext]_clockVars => ClockInv'
    BY ClockStep
  <1> QED
    BY <1>1, <1>2, PTL DEF ClockSpec

\* TimeOfDay: the reading trigger.at of a whole date was shown, and asked for.
LEMMA TimeOfDay ==
    ASSUME ClockInv
    PROVE  TimeEveryDate
  <1>1. SUFFICES ASSUME NEW d \in WholeDates, ~Swallowed(d)
                 PROVE  \E run \in timeRuns : run[1] = d
    BY DEF TimeEveryDate
  <1> DEFINE w == d * 1440 + site.at
  <1>2. site \in Site
    BY SitesAssumption, SpanAssumption DEF ClockInv
  <1>3. d \in Int /\ site.at \in 0 .. 1439
    BY <1>2, SiteType DEF WholeDates
  <1>4. w \in Int /\ w \div 1440 = d /\ w % 1440 = site.at
    <2> DEFINE a == site.at
    <2>1. w = d * 1440 + a /\ a \in 0 .. 1439
      BY <1>3
    <2> HIDE DEF a, w
    <2>4. a \in Int /\ 0 <= a /\ a <= 1439
      BY <2>1
    <2>2. w \in Int
      BY <1>3, <2>1, <2>4
    <2>3. w \div 1440 = d /\ w % 1440 = a
      BY <1>3, <2>1, <2>2, <2>4, DateIs
    <2> QED
      BY <2>2, <2>3 DEF a
  <1>5. ~(site.zone < site.zoneAfter /\ site.change + site.zone <= w
          /\ w < site.change + site.zoneAfter)
    BY <1>1 DEF Swallowed, Day
  <1> HIDE DEF w
  <1>6. PICK e \in Int : Wall(site, e) = w
    BY <1>2, <1>4, <1>5, Shown
  <1>7. PICK m \in First .. t : Wall(site, m) = w
    BY <1>1, <1>4, <1>6, ReadingOfDate
  <1>8. <<d, w>> \in TimeRun(site, m)
    BY <1>4, <1>7 DEF TimeRun, TimeDue, TimeKey, DateOf, MinuteOf,
                      Day
  <1>9. <<d, w>> \in timeRuns
    BY <1>8 DEF ClockInv
  <1> QED
    BY <1>9

\* DueEveryDate: a "time" automation is due on every whole date, at every site
\* and time of day, the day the wall clock jumps over its minute excepted.
THEOREM DueEveryDate == ClockSpec => []TimeEveryDate
  <1>1. ClockInv => TimeEveryDate
    BY TimeOfDay
  <1> QED
    BY <1>1, ClockCorrect, PTL

\* OneRunPerDate: the key is a function of the date, for both kinds, so the
\* hour that autumn repeats runs nothing twice.
THEOREM OneRunPerDate == ClockSpec => []OneKeyPerDate
  <1>1. ClockInv => OneKeyPerDate
    BY DEF ClockInv, OneKeyPerDate
  <1> QED
    BY <1>1, ClockCorrect, PTL

\* The shifted event of a day falls on the local date whose sun it is.
EventsStay ==
    \A s \in Sites : s.sun # NoSun =>
        \A zone \in {s.zone, s.zoneAfter} : s.sun + s.shift + zone \in 0 .. 1439

\* SunOfDay: the instant of the event shows the reading computed from its date.
LEMMA SunOfDay ==
    ASSUME EventsStay, ClockInv
    PROVE  SunEveryDate
  <1>1. SUFFICES ASSUME site.sun # NoSun, NEW d \in WholeDates
                 PROVE  \E run \in sunRuns : run[1] = d
    BY DEF SunEveryDate
  <1> DEFINE e == d * 1440 + site.sun + site.shift
             w == Wall(site, e)
  <1>2. site \in Site /\ site \in Sites
    BY SitesAssumption, SpanAssumption DEF ClockInv
  <1>3. /\ d \in Int /\ site.sun \in Int /\ site.shift \in Int
        /\ site.zone \in Int /\ site.zoneAfter \in Int /\ site.change \in Int
    BY <1>2, SiteType DEF WholeDates
  <1>4. e \in Int
    BY <1>3
  <1>5. PICK o \in {site.zone, site.zoneAfter} : w = e + o
    BY <1>2, <1>3, <1>4, WallType
  <1>6. site.sun + site.shift + o \in 0 .. 1439
    BY <1>1, <1>2 DEF EventsStay
  <1>7. w \div 1440 = d
    <2> DEFINE a == site.sun + site.shift + o
    <2>1. a \in 0 .. 1439
      BY <1>6
    <2>2. o \in Int
      BY <1>3
    <2>3. e + o = d * 1440 + a
      BY <1>3, <2>2
    <2>4. w = d * 1440 + a
      BY <1>5, <2>3
    <2> HIDE DEF a, w
    <2>5. a \in Int /\ 0 <= a /\ a <= 1439
      BY <2>1
    <2>6. w \in Int
      BY <1>3, <2>4, <2>5
    <2> QED
      BY <1>3, <2>4, <2>5, <2>6, DateIs
  <1>8. PICK m \in First .. t : Wall(site, m) = w
    BY <1>1, <1>4, <1>7, ReadingOfDate
  <1>9. <<d, w>> \in SunRun(site, m)
    BY <1>1, <1>7, <1>8 DEF SunRun, SunDue, SunKey, SunReading,
                            SunEventTime, DateOf, Day
  <1>10. <<d, w>> \in sunRuns
    BY <1>9 DEF ClockInv
  <1> QED
    BY <1>10

\* SunIsDue: a "sun_event" automation is due on every whole date with such an
\* event, where the event falls on the local date it is computed for.
THEOREM SunIsDue == EventsStay => (ClockSpec => []SunEveryDate)
  <1>1. SUFFICES ASSUME EventsStay PROVE ClockSpec => []SunEveryDate
    OBVIOUS
  <1>2. ClockInv => SunEveryDate
    BY <1>1, SunOfDay
  <1> QED
    BY <1>1, <1>2, ClockCorrect, PTL

=============================================================================
