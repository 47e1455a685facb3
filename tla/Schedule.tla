------------------------------ MODULE Schedule ------------------------------
(***************************************************************************)
(* A job of lib/scheduler.js.  When it starts, and each time it runs, the  *)
(* time until it runs next is computed from the calendar and given to      *)
(* setTimeout, which takes what is negative or too wide for at once; a     *)
(* time of zero is given to nobody.                                        *)
(* A day has a few ticks, a week and the months a few days.                *)
(***************************************************************************)
EXTENDS Integers

CONSTANTS
    Ticks,    \* ticks of a day
    Week,     \* days of a week
    Long,     \* days of every other month, from the first
    Short,    \* days of the other months
    Width,    \* the longest delay a timer takes
    MaxDays   \* bound on the days of a run

VARIABLES
    job,   \* when it is to run
    now,   \* ticks since the first day
    due,   \* the tick its timer fires in
    runs   \* ticks it ran in

vars == <<job, now, due, runs>>

Unscheduled == -2
NoTimer == -1

Jobs ==
    [every : {"day"}, day : {0}, at : 0..Ticks - 1]
    \union [every : {"weekday"}, day : 0..Week - 1, at : 0..Ticks - 1]
    \union [every : {"month"}, day : 1..Long, at : 0..Ticks - 1]
    \union [every : {"gap", "count"}, day : {0}, at : 1..Ticks]

(* The calendar *)

Moment(d, tick) == d * Ticks + tick
Day(t) == t \div Ticks
Tick(t) == t % Ticks
Weekday(t) == Day(t) % Week
FirstDay(m) == (m \div 2) * (Long + Short) + (m % 2) * Long
Month(t) == CHOOSE m \in 0..MaxDays : FirstDay(m) <= Day(t) /\ Day(t) < FirstDay(m + 1)
DayOfMonth(t) == Day(t) - FirstDay(Month(t)) + 1

-----------------------------------------------------------------------------
(* getTimeUntilRun() *)

\* the day is this one when its weekday is, even if the time has passed
NextWeekday(t) ==
    Moment(Day(t) + ((job.day + Week - Weekday(t)) % Week), job.at)

\* a day the month does not have spills over into the next
NextMonthday(t) ==
    IF DayOfMonth(t) = job.day /\ Tick(t) < job.at THEN Moment(Day(t), job.at)
    ELSE Moment(FirstDay(Month(t) + (IF DayOfMonth(t) < job.day THEN 0 ELSE 1)) + job.day - 1, job.at)

\* A mutant of NextDay: a job whose time is now is due now.
NextDayNow(t) == Moment(IF Tick(t) <= job.at THEN Day(t) ELSE Day(t) + 1, job.at)

NextDay(t) == Moment(IF Tick(t) < job.at THEN Day(t) ELSE Day(t) + 1, job.at)

Later(t) ==
    CASE job.every = "day" -> NextDay(t)
      [] job.every = "weekday" -> NextWeekday(t)
      [] job.every = "month" -> NextMonthday(t)
      [] job.every = "gap" -> ((t \div job.at) + 1) * job.at
      [] job.every = "count" -> t + job.at

\* start(): a job is for the middle of its tick; in that tick the moment is to come, or is
\* this one, and then no timer is set, or has passed
Start(t) ==
    \/ due' = IF Later(t) < t \/ Later(t) - t > Width THEN t ELSE Later(t)
    \/ Later(t) = t /\ due' = NoTimer

-----------------------------------------------------------------------------
Init ==
    /\ job \in Jobs
    /\ now \in 0..Moment(Week, 0)
    /\ due = Unscheduled
    /\ runs = {}

\* schedule(), then start()
Schedule == due = Unscheduled /\ Start(now) /\ UNCHANGED <<job, now, runs>>

\* applyFtc(): the next run is scheduled, then the job runs
Run ==
    /\ due >= 0 /\ due <= now
    /\ Start(now)
    /\ runs' = runs \union {now}
    /\ UNCHANGED <<job, now>>

\* time passes a timer which is due only after it fired; one which fires again and again at
\* once lets time pass in between
Pass ==
    /\ due # Unscheduled /\ (due \notin 0..now \/ now \in runs)
    /\ now < Moment(MaxDays, 0)
    /\ now' = now + 1
    /\ due' = IF due \in 0..now THEN now + 1 ELSE due
    /\ UNCHANGED <<job, runs>>

\* remove(): the timer is cleared, and the id may be scheduled again
Remove == due >= NoTimer /\ due' = Unscheduled /\ runs' = {} /\ UNCHANGED <<job, now>>

Next == Schedule \/ Run \/ Pass \/ Remove

Spec == Init /\ [][Next]_vars

TypeOK ==
    /\ job \in Jobs
    /\ now \in 0..Moment(MaxDays, 0)
    /\ due \in Unscheduled..Moment(MaxDays + Week + Long + Short, 0)
    /\ runs \subseteq 0..now

-----------------------------------------------------------------------------
(* Properties *)

\* what a job asks for
Fits(t) ==
    /\ job.every \in {"day", "weekday", "month"} => Tick(t) = job.at
    /\ job.every = "weekday" => Weekday(t) = job.day
    /\ job.every = "month" => DayOfMonth(t) = job.day
    /\ job.every = "gap" => t % job.at = 0

\* A job runs when it asked to and at no other time, but for two kinds: a weekly one may run
\* on and on until its day is over; and a monthly one while its moment is further than a timer
\* takes, and when a month does not have its day (scheduler.js:20, 83, 98).
RunsOnTime ==
    \A t \in runs :
        \/ Fits(t)
        \/ job.every = "weekday" /\ \E u \in {t, t - 1} : u >= 0 /\ Weekday(u) = job.day /\ Tick(u) >= job.at
        \/ job.every = "month" /\ (job.day > Short \/ NextMonthday(t) - t >= Width)

\* No job misses a moment it asked for after its first run, however its timers were cut short, but
\* a weekly one, which may be left without a timer by running just in time (scheduler.js:21, 83).
NoneMissed ==
    \A t \in 0..(now - 1) :
        Fits(t) /\ (\E r \in runs : r <= t) =>
            \/ t \in runs
            \/ job.every = "count"
            \/ job.every = "weekday" /\ due = NoTimer
=============================================================================
