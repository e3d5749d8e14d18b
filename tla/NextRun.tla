------------------------------- MODULE NextRun --------------------------------
(***************************************************************************)
(* next_run_after (core/automation.py): the instant a daily or a weekly    *)
(* trigger runs next, in the local time of a zone whose offset changes     *)
(* once.  Instants are numbers; a wall time is the number of units since   *)
(* local midnight of day 0, a Monday, and a day has Day units.             *)
(*                                                                         *)
(* A wall clock that is set back shows some wall times twice, and one that *)
(* is set forward leaves some out.  Python's datetime.combine takes the    *)
(* first of two and moves one that is left out (PEP 495, fold = 0), and    *)
(* compares two datetimes of one zone by their wall times alone.  A "once" *)
(* trigger has no next run and is left out.                                *)
(***************************************************************************)
EXTENDS Integers, FiniteSetsExt

CONSTANTS
    Day,      \* units in a day
    Zones,    \* the zones, [change, before, after]: an instant and two offsets
    Horizon   \* bound: the last instant that is looked at

ASSUME ZoneAssumption ==
    /\ Day \in Nat \ {0} /\ Horizon \in Nat
    /\ \A z \in Zones : z.change \in Nat /\ z.before \in Nat /\ z.after \in Nat

VARIABLES
    zone,       \* the trigger's timezone
    kind,       \* "daily" or "weekly"
    localTime,  \* local_time
    weekday,    \* weekday of a weekly trigger, 0 for Monday
    now,        \* the instant after which the next run is asked for
    chained     \* now is itself a run: claim_due passes scheduled_for

vars == <<zone, kind, localTime, weekday, now, chained>>

\* astimezone(timezone), as a wall time
Wall(z, u) == u + (IF u < z.change THEN z.before ELSE z.after)

\* astimezone(UTC) of a wall time with fold = 0
Instant(z, w) ==
    IF w < z.change + Max({z.before, z.after}) THEN w - z.before ELSE w - z.after

\* From the local date to the date of the candidate.
DaysAhead(date) == IF kind = "weekly" THEN (weekday - date) % 7 ELSE 0

LateCandidate(wall) ==  \* mutant of Candidate: < for <=
    LET date  == (wall \div Day) + DaysAhead(wall \div Day)
        first == date * Day + localTime
    IN  IF first < wall
        THEN first + (IF kind = "weekly" THEN 7 ELSE 1) * Day
        ELSE first

\* The candidate, as a wall time.
Candidate(wall) ==
    LET date  == (wall \div Day) + DaysAhead(wall \div Day)
        first == date * Day + localTime
    IN  IF first <= wall
        THEN first + (IF kind = "weekly" THEN 7 ELSE 1) * Day
        ELSE first

NextRunAfter(after) == Instant(zone, Candidate(Wall(zone, after)))

-------------------------------------------------------------------------------

(* create_automation, update_automation and claim_due of a missed run ask  *)
(* from any instant.                                                       *)
Init ==
    /\ zone \in Zones
    /\ kind \in {"daily", "weekly"}
    /\ localTime \in 0..(Day - 1)
    /\ weekday \in IF kind = "weekly" THEN 0..6 ELSE {0}
    /\ now \in 0..Horizon
    /\ chained = FALSE

(* claim_due of a run in time asks from the run itself. *)
ClaimInTime ==
    /\ now <= Horizon
    /\ now' = NextRunAfter(now)
    /\ chained' = TRUE
    /\ UNCHANGED <<zone, kind, localTime, weekday>>

Next == ClaimInTime

Spec == Init /\ [][Next]_vars

-------------------------------------------------------------------------------

TypeOK ==
    /\ zone \in Zones
    /\ kind \in {"daily", "weekly"}
    /\ localTime \in 0..(Day - 1)
    /\ weekday \in 0..6
    /\ now \in 0..(Horizon + 9 * Day)
    /\ chained \in BOOLEAN

\* All the runs of the trigger that matter from u on.
Runs(u) ==
    {Instant(zone, date * Day + localTime) :
        date \in {d \in (u \div Day)..((u \div Day) + 9) :
                     kind = "weekly" => d % 7 = weekday}}

\* The reference: the earliest run that is later than u.
FirstAfter(u) == Min({r \in Runs(u) : r > u})

\* u is at least a change of the offset away from the one of the zone.
FarFromChange(u) ==
    LET shift == IF zone.before > zone.after THEN zone.before - zone.after
                                             ELSE zone.after - zone.before
    IN  u < zone.change - shift \/ u >= zone.change + shift

(* A trigger that is claimed in time runs at every date and time of its    *)
(* schedule, once and in order, through every change of the clock          *)
(* (next_run_after of scheduled_for).                                      *)
NoRunIsLost == chained => NextRunAfter(now) = FirstAfter(now)

(* Away from a change of the clock the next run is the first one after the *)
(* instant asked from, the instant itself excluded.                        *)
FirstIsNext == FarFromChange(now) => NextRunAfter(now) = FirstAfter(now)

(* next_run_after is the next instant of the schedule, asked from a run or *)
(* away from a change of the clock.                                        *)
NextRunIsRight == TypeOK /\ NoRunIsLost /\ FirstIsNext

===============================================================================
