--------------------------- MODULE ScheduleTiming ---------------------------
(***************************************************************************)
(* When a volume export schedule runs                                      *)
(* (backend/internal/volumeexport/schedule_timing.go).  Time is counted in *)
(* units from the start of a week; a minute is Minute units, the grace     *)
(* period and the scheduler's interval are a minute each.  A plan is the   *)
(* set of times of a week at which the schedule runs, in units.            *)
(***************************************************************************)
EXTENDS Integers, FiniteSets, FiniteSetsExt

CONSTANTS Minute,       \* units in a minute
          DayLength,    \* units in a day
          WeekDays      \* days in a week (7 in the code)

ASSUME TimingAssumption ==
  /\ Minute \in Nat \ {0} /\ DayLength \in Nat \ {0} /\ WeekDays \in Nat \ {0}
  /\ DayLength % Minute = 0

ScheduleRunGrace == Minute
Week == WeekDays * DayLength
Never == -1     \* next_run_at is empty
Invalid == -2   \* computeNextRun returns an error

DayStart(t) == t - (t % DayLength)

SlotStillRunnable(slot, now) == now <= slot + ScheduleRunGrace

ScheduleDue(next, now) ==
  /\ next # Never
  /\ now \div Minute >= next \div Minute
  /\ SlotStillRunnable(next, now)

\* Not in the code: the slot that has just run is a candidate again.
RunnableAlways(slot, now, afterRun) == SlotStillRunnable(slot, now)

Runnable(slot, now, afterRun) ==
  IF afterRun THEN slot > now ELSE SlotStillRunnable(slot, now)

\* The slots of two weeks, counted from the beginning of today.
Candidates(plan, now, afterRun) ==
  {t \in DayStart(now) .. DayStart(now) + 2 * Week - 1 :
     t % Week \in plan /\ Runnable(t, now, afterRun)}

\* computeNextRun; an enabled plan without times is rejected by ValidateScheduleInput.
NextRun(enabled, plan, now, afterRun) ==
  IF ~enabled THEN Never
  ELSE IF Candidates(plan, now, afterRun) = {} THEN Invalid
  ELSE Min(Candidates(plan, now, afterRun))

=============================================================================
