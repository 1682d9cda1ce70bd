------------------------------- MODULE Streaks -------------------------------
(***************************************************************************)
(* The streak record of one user and the activity rows it is computed      *)
(* from.  A request reads the record, reads the activity days, computes,   *)
(* and saves the record, in separate statements and without a lock: the    *)
(* transaction that recordActivity accepts is never passed to it.  A save  *)
(* reads the row again, and then writes the columns in which it differs.   *)
(* Days are day indexes; the timezone offset is the default, zero.         *)
(***************************************************************************)
EXTENDS Naturals, FiniteSetsExt, SequencesExt, Functions

CONSTANTS
    StreakRequests,     \* requests that are served at the same time
    MaxDay,             \* bound on the days that pass
    ResetAfterDays,     \* of the configuration
    DaysInactive        \* argument of cleanupInactiveStreaks

NoDay == 0

ASSUME StreakAssumption ==
    MaxDay \in Nat \ {0} /\ ResetAfterDays \in Nat \ {0} /\ DaysInactive \in Nat

Days == 1 .. MaxDay

VARIABLES
    today,
    activities,     \* days with activity rows
    streak,         \* the row of the user, or NoStreak
    worker,         \* what every request does next, and what it has read
    computedFrom,   \* history: days and clock of the recalculation the row
                    \* was last saved by, if it is the last writer
    tornStreak      \* history: the row was written while a save stood
                    \* between its comparison and its write

streakVars == <<today, activities, streak, worker, computedFrom, tornStreak>>

NoStreak == [current |-> 0, longest |-> 0, last |-> NoDay, start |-> NoDay, total |-> 0,
             active |-> FALSE, exists |-> FALSE]
NoWork == [step |-> "idle", row |-> NoStreak, days |-> {}, since |-> NoDay, columns |-> {}]
Unknown == [day |-> NoDay, days |-> {}]

StreaksInit ==
    /\ today = 1 /\ activities = {}
    /\ streak = NoStreak
    /\ worker = [r \in StreakRequests |-> NoWork]
    /\ computedFrom = Unknown /\ tornStreak = FALSE

-----------------------------------------------------------------------------
(* StreakCalculationService. *)

(* The day indexes in descending order: one sequence. *)
Descending(set) ==
    {days \in [1 .. Cardinality(set) -> set] :
        Range(days) = set /\ \A i, j \in DOMAIN days : i < j => days[i] > days[j]}

(* How many consecutive days there are up to each place of the sequence. *)
RunsUpTo(days) ==
    LET run[i \in DOMAIN days] ==
            IF i > 1 /\ days[i - 1] = days[i] + 1 THEN run[i - 1] + 1 ELSE 1
    IN  run

(* The days before the first gap. *)
FirstRun(days) == Max({i \in DOMAIN days : RunsUpTo(days)[i] = i})

(* A slip: a streak that ended yesterday counts as broken. *)
CurrentStreakOfToday(days, now) == IF days[1] = now THEN FirstRun(days) ELSE 0

(* Consecutive days that end today, or yesterday. *)
CurrentStreak(days, now) == IF days[1] \in {now, now - 1} THEN FirstRun(days) ELSE 0

LongestStreak(days) == Max({0} \cup Range(RunsUpTo(days)))

Calculate(days, now) ==
    LET broken  == DOMAIN days = {} \/ now - days[1] > ResetAfterDays
        current == IF broken THEN 0 ELSE CurrentStreak(days, now)
    IN  [current |-> current,
         longest |-> Max({LongestStreak(days), current}),
         start |-> IF current > 0 THEN days[current] ELSE NoDay]

-----------------------------------------------------------------------------
(* recordActivity makes the record if there is none, inserts the activity, *)
(* and recalculates.  Both inserts ignore a row that exists.               *)
RecordActivity(r, day) ==
    /\ worker[r].step = "idle" /\ day <= today
    /\ streak' = IF streak.exists THEN streak
                 ELSE [NoStreak EXCEPT !.active = TRUE, !.exists = TRUE]
    /\ worker' = [worker EXCEPT ![r] = [NoWork EXCEPT !.step = "insert", !.days = {day}]]
    /\ UNCHANGED <<today, activities, computedFrom, tornStreak>>

InsertActivity(r) ==
    /\ worker[r].step = "insert"
    /\ activities' = activities \cup worker[r].days
    /\ worker' = [worker EXCEPT ![r] = [NoWork EXCEPT !.step = "read"]]
    /\ UNCHANGED <<today, streak, computedFrom, tornStreak>>

(* The request dies between two statements. *)
RecalculationDies(r) ==
    /\ worker[r].step # "idle"
    /\ worker' = [worker EXCEPT ![r] = NoWork]
    /\ UNCHANGED <<today, activities, streak, computedFrom, tornStreak>>

(* getStreakStats makes the record too; recalculateStreak needs one. *)
GetStreakStats(r) ==
    /\ worker[r].step = "idle"
    /\ streak' = IF streak.exists THEN streak ELSE [NoStreak EXCEPT !.exists = TRUE]
    /\ worker' = [worker EXCEPT ![r] = [NoWork EXCEPT !.step = "read"]]
    /\ UNCHANGED <<today, activities, computedFrom, tornStreak>>

(* Of the row it reads, a recalculation uses only the longest streak. *)
ReadStreak(r) ==
    /\ worker[r].step = "read"
    /\ worker' = [worker EXCEPT ![r] = [NoWork EXCEPT !.step = "activities",
                                          !.row = [NoStreak EXCEPT !.longest = streak.longest]]]
    /\ UNCHANGED <<today, activities, streak, computedFrom, tornStreak>>

ReadActivities(r) ==
    /\ worker[r].step = "activities"
    /\ worker' = [worker EXCEPT ![r] = [worker[r] EXCEPT !.step = "save", !.days = activities,
                                                        !.since = today]]
    /\ UNCHANGED <<today, activities, streak, computedFrom, tornStreak>>

(* save: the row is compared with the copy, and then written. *)
CompareStreak(r, row, days, since) ==
    worker' = [worker EXCEPT ![r] = [step |-> "write", row |-> row, days |-> days, since |-> since,
                                     columns |-> {c \in DOMAIN row : row[c] # streak[c]}]]

Saving == {r \in StreakRequests : worker[r].step = "write"}

Written(r) ==
    [c \in DOMAIN streak |-> IF c \in worker[r].columns THEN worker[r].row[c] ELSE streak[c]]

WriteStreak(r) ==
    /\ worker[r].step = "write"
    /\ streak' = Written(r)
    /\ computedFrom' = [day |-> worker[r].since, days |-> worker[r].days]
    /\ tornStreak' = (tornStreak \/ Saving # {r})
    /\ worker' = [worker EXCEPT ![r] = NoWork]
    /\ UNCHANGED <<today, activities>>

(* The clock is read after the activities and before the row is saved. *)
SaveRecalculated(r) ==
    /\ worker[r].step = "save"
    /\ \E now \in worker[r].since .. today, days \in Descending(worker[r].days) :
          LET calc == Calculate(days, now) IN
          CompareStreak(r, [current |-> calc.current,
                            longest |-> Max({worker[r].row.longest, calc.longest}),
                            last |-> IF DOMAIN days = {} THEN NoDay ELSE days[1],
                            start |-> calc.start, total |-> Cardinality(worker[r].days),
                            active |-> calc.current > 0, exists |-> TRUE], worker[r].days, now)
    /\ UNCHANGED <<today, activities, streak, computedFrom, tornStreak>>

(* resetStreak *)
BeginReset(r) ==
    /\ worker[r].step = "idle" /\ streak.exists
    /\ worker' = [worker EXCEPT ![r] = [NoWork EXCEPT !.step = "reset", !.row = streak]]
    /\ UNCHANGED <<today, activities, streak, computedFrom, tornStreak>>

SaveReset(r) ==
    /\ worker[r].step = "reset"
    /\ CompareStreak(r, [worker[r].row EXCEPT !.current = 0, !.active = FALSE, !.start = NoDay],
                     Unknown.days, Unknown.day)
    /\ UNCHANGED <<today, activities, streak, computedFrom, tornStreak>>

(* One statement for all records that are active and old. *)
CleanupInactiveStreaks ==
    /\ streak.exists /\ streak.active
    /\ streak.last # NoDay /\ streak.last + DaysInactive < today
    /\ streak' = [streak EXCEPT !.current = 0, !.active = FALSE]
    /\ computedFrom' = Unknown
    /\ tornStreak' = (tornStreak \/ Saving # {})
    /\ UNCHANGED <<today, activities, worker>>

DayPasses ==
    /\ today < MaxDay /\ today' = today + 1
    /\ UNCHANGED <<activities, streak, worker, computedFrom, tornStreak>>

-----------------------------------------------------------------------------

StreaksNext ==
    \/ \E r \in StreakRequests :
          \/ \E day \in Days : RecordActivity(r, day)
          \/ InsertActivity(r) \/ RecalculationDies(r) \/ GetStreakStats(r)
          \/ ReadStreak(r) \/ ReadActivities(r) \/ SaveRecalculated(r)
          \/ BeginReset(r) \/ SaveReset(r) \/ WriteStreak(r)
    \/ CleanupInactiveStreaks \/ DayPasses

StreaksSpec == StreaksInit /\ [][StreaksNext]_streakVars

-----------------------------------------------------------------------------
(* Properties. *)

StreakRow == [current : 0 .. MaxDay, longest : 0 .. MaxDay, last : 0 .. MaxDay,
              start : 0 .. MaxDay, total : 0 .. MaxDay, active : BOOLEAN, exists : BOOLEAN]

StreaksTypeOK ==
    /\ today \in Days /\ activities \subseteq Days
    /\ streak \in StreakRow
    /\ \A r \in StreakRequests :
          /\ worker[r].step \in {"idle", "insert", "read", "activities", "save", "reset", "write"}
          /\ worker[r].row \in StreakRow
          /\ worker[r].days \subseteq Days /\ worker[r].since \in 0 .. MaxDay
          /\ worker[r].columns \subseteq DOMAIN NoStreak
    /\ tornStreak \in BOOLEAN
    /\ computedFrom \in [day : 0 .. MaxDay, days : SUBSET Days]

(* The lengths of the runs of consecutive days in a set that end at day e. *)
RunsTo(set, e) == {n \in 1 .. MaxDay : n <= e /\ (e - n + 1) .. e \subseteq set}
RunsIn(set)    == {0} \cup UNION {RunsTo(set, e) : e \in set}

(* However recalculations, resets and the nightly cleanup overlap, the     *)
(* record never claims a run or a number of days that the activities do    *)
(* not show.  As long as no two saves have interleaved statement by        *)
(* statement, the record a recalculation saves is the streak of the days   *)
(* it read: the longest run that ends today or yesterday, its first day,   *)
(* and, when no activity was added since, the longest run ever.            *)
StreakIsBacked ==
    /\ streak.current \in RunsIn(activities) /\ streak.longest \in RunsIn(activities)
    /\ streak.total <= Cardinality(activities)
    /\ ~tornStreak => streak.current <= streak.longest
    /\ ~tornStreak /\ computedFrom # Unknown =>
          LET days == computedFrom.days
              live == RunsTo(days, computedFrom.day) \cup RunsTo(days, computedFrom.day - 1)
          IN  /\ streak.current = Max({0} \cup live)
              /\ streak.start = IF live = {} THEN NoDay
                                ELSE IF computedFrom.day \in days
                                     THEN computedFrom.day + 1 - streak.current
                                     ELSE computedFrom.day - streak.current
              /\ days = activities => streak.longest = Max(RunsIn(activities))
=============================================================================
