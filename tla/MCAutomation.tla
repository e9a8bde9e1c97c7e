---------------------------- MODULE MCAutomation ----------------------------
(* Instances of Automation for TLC, with the daily slots of a small zone.  *)
EXTENDS Automation, AutomationSchedule, TLC

CONSTANTS Period    \* instants in a day

Reading(instant, day) == [date |-> instant \div day, time |-> instant % day]

\* A clock that never jumps: a daily slot every Period instants.
MCZone == [u \in 0..(MaxTime + 2 * Period) |-> Reading(u, Period)]
MCNextDaily == [t \in Times |-> NextDailyDueAfter(MCZone, 0, t)]

\* Clocks of three times a day that are put forward or back at most twice, by
\* less than a day, by a day, or by more.
MCClock(first, by, second, by2) ==
    [u \in 0..11 |-> Reading(
        u + (IF u >= first THEN by ELSE 0) + (IF u >= second THEN by2 ELSE 0), 3)]
MCZones ==
    {zone \in {MCClock(first, by, second, by2) :
        first \in 4..5, second \in 7..8, by, by2 \in {-4, -3, -1, 0, 1, 3, 4}} : IsZone(zone)}

\* The search finds the first slot, and finds none only if there is none.
ASSUME MCSearchIsRight ==
    \A zone \in MCZones, time \in 0..2, after \in {0, 3, 4, 5, 7, 8, 9} :
        LET due == NextDailyDueAfter(zone, time, after) IN
        IF due = NoDailySlot
        THEN \A u \in DailySlots(zone, time) : u <= after
        ELSE IsFirstSlotAfter(zone, time, after, due)

Once(t) == [kind |-> "once", runAt |-> t, maxRuns |-> 1]
Daily(n) == [kind |-> "daily", runAt |-> 0, maxRuns |-> n]

MCContents == {Once(2), Daily(2)}
MCOnceOnly == {Once(1)}

MCSymmetry == Permutations(Requests) \cup Permutations(Workers)

=============================================================================
