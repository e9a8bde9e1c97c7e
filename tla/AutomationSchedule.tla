-------------------------- MODULE AutomationSchedule --------------------------
(***************************************************************************)
(* When a daily reminder is next due.                                      *)
(*                                                                         *)
(* A time zone is what its clock on the wall shows at each instant: a date *)
(* (a day number) and a time of day.  A clock put forward skips times of a *)
(* date, one put back shows them twice.  The search takes one local date   *)
(* after the other; on each it looks for the first instant that shows the  *)
(* time asked for, and a date without one is skipped.                      *)
(*                                                                         *)
(* Automation takes the result as its constant NextDaily.                  *)
(***************************************************************************)
EXTENDS Integers

CONSTANT DailySearchDays    \* _DAILY_SEARCH_DAYS

ASSUME DailySearchAssumption == DailySearchDays \in Nat

NoDailySlot == -1       \* automation_schedule_no_future_daily_slot

-----------------------------------------------------------------------------

\* datetime.combine(day, time), fold 0, and the round trip: the instant at
\* which the clock of zone first shows date and time.
ValidLocalCandidate(zone, date, time, u) ==
    /\ zone[u] = [date |-> date, time |-> time]
    /\ \A v \in DOMAIN zone : v < u => zone[v] # zone[u]

\* The candidate of the date that many days after the local date of "after".
FoundAtOffset(zone, time, after, offset, u) ==
    /\ ValidLocalCandidate(zone, zone[after].date + offset, time, u)
    /\ u > after

\* u is found, and on no earlier date is anything.
IsNextDaily(zone, time, after, u) ==
    \E offset \in 0..(DailySearchDays - 1) :
        /\ FoundAtOffset(zone, time, after, offset, u)
        /\ \A earlier \in 0..(offset - 1), v \in DOMAIN zone :
              ~FoundAtOffset(zone, time, after, earlier, v)

NextDailyDueAfter(zone, time, after) ==
    IF \E u \in DOMAIN zone : IsNextDaily(zone, time, after, u)
    THEN CHOOSE u \in DOMAIN zone : IsNextDaily(zone, time, after, u)
    ELSE NoDailySlot

-----------------------------------------------------------------------------
(* What it should be.                                                      *)

\* A slot: an instant that shows the time, on a date that has not shown it.
DailySlots(zone, time) ==
    {u \in DOMAIN zone :
        /\ zone[u].time = time
        /\ \A v \in DOMAIN zone : v < u => zone[v] # zone[u]}

ShowsLater(a, b) == a.date > b.date \/ (a.date = b.date /\ a.time > b.time)

\* A clock shows dates and times, and is put back only to what it has shown.
IsZone(zone) ==
    /\ DOMAIN zone \subseteq Int
    /\ \A u \in DOMAIN zone : zone[u] \in [date : Int, time : Nat]
    /\ \A u, v \in DOMAIN zone :
          u < v /\ ShowsLater(zone[u], zone[v])
              => \E w \in DOMAIN zone : w <= u /\ zone[w] = zone[v]

\* due is the first slot after an instant.
IsFirstSlotAfter(zone, time, after, due) ==
    /\ due \in DailySlots(zone, time) /\ due > after
    /\ \A u \in DailySlots(zone, time) : u > after => due <= u

=============================================================================
