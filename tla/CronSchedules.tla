--------------------------- MODULE CronSchedules ---------------------------
(***************************************************************************)
(* The schedules of cron/cron.go: Daily, Weekly, Cron and the five fields  *)
(* of ParseCronStrict, and what Next answers for a task in the table.  An  *)
(* item is a record of its parsed parts, a field a set of items (their     *)
(* order never matters), a time the number of half minutes since a Sunday. *)
(***************************************************************************)
EXTENDS Integers, FiniteSets, FiniteSetsExt

CONSTANTS
    Expressions,  \* the field records that are parsed (bound)
    Minutes,      \* minutes in an hour
    Hours,        \* hours in a day
    MaxAsked,     \* latest time at which a task is added (bound)
    Never         \* the zero time, none of those that are counted

VARIABLES
    sched,  \* the schedule of the task, [kind |-> "none"] before there is one
    asked,  \* the time Next was asked for
    next    \* NextRun: a time, or Never

vars == <<sched, asked, next>>

-----------------------------------------------------------------------------
(* The calendar (bounded): years of 7 and 8 days take turns, of two months *)
(* each; the second month ends with a leap day in every other year.        *)
DayLength == Minutes * Hours
Cycle     == 15                                        \* days of two years
YearLength == 8                                        \* of the longer year
DayOf(m)  == (m \div DayLength) % Cycle
MinuteOf(m)  == m % Minutes
HourOf(m)    == (m \div Minutes) % Hours
WeekdayOf(m) == (m \div DayLength) % 7
MonthStart(d) == CHOOSE s \in {0, 3, 7, 10} : s <= d /\ \A r \in {0, 3, 7, 10} : r <= d => r <= s
DayOfMonth(m) == DayOf(m) - MonthStart(DayOf(m)) + 1
MonthOf(m)    == IF MonthStart(DayOf(m)) \in {0, 7} THEN 1 ELSE 2

Fields == {"minute", "hour", "day", "month", "weekday"}
Low  == [f \in Fields |-> IF f \in {"day", "month"} THEN 1 ELSE 0]
High == [f \in Fields |-> CASE f = "minute" -> Minutes - 1 [] f = "hour" -> Hours - 1
                            [] f = "day" -> 5 [] f = "month" -> 2 [] f = "weekday" -> 6]
ValueAt(f, m) == CASE f = "minute" -> MinuteOf(m) [] f = "hour" -> HourOf(m)
                   [] f = "day" -> DayOfMonth(m) [] f = "month" -> MonthOf(m)
                   [] f = "weekday" -> WeekdayOf(m)

-----------------------------------------------------------------------------
(* Items: "any" is the asterisk, "one" a value, "range" a-b, "bad" what is *)
(* no number; step is 0 where there is none.                               *)
Item(shape, a, b, step) == [shape |-> shape, a |-> a, b |-> b, step |-> step]

Items == [shape : {"any", "one", "range", "bad"}, a : Int, b : Int, step : Int]
ScheduleAssumption ==
    /\ Minutes \in Nat \ {0} /\ Hours \in Nat \ {0} /\ MaxAsked \in Nat /\ Never \notin Int
    /\ \A e \in Expressions : DOMAIN e = Fields /\ \A f \in Fields : e[f] \subseteq Items

Norm(f, v) == IF f = "weekday" /\ v = 7 THEN 0 ELSE v
InField(f, v) == v \in Low[f] .. High[f]

RangeAccepted(f, i) ==
    /\ ~ (Norm(f, i.a) = Norm(f, i.b) /\ i.a # i.b)        \* 0-7 says two things
    /\ InField(f, Norm(f, i.a)) /\ InField(f, Norm(f, i.b))

ItemAccepted(f, i) ==
    /\ i.step >= 0
    /\ CASE i.shape = "any"   -> TRUE
         [] i.shape = "range" -> RangeAccepted(f, i)
         [] i.shape = "one"   -> i.step = 0 /\ InField(f, Norm(f, i.a))
         [] i.shape = "bad"   -> FALSE

ParseCronStrict(e) == \A f \in Fields : e[f] # {} /\ \A i \in e[f] : ItemAccepted(f, i)

(* What matches: the values of one item, as matchCronItem tests them.      *)
PlainRange(f, lo, hi, v) == v >= lo /\ v <= hi    \* mutant: 6-1 does not wrap
InRange(f, lo, hi, v) ==
    IF f = "weekday" /\ lo > hi THEN v >= lo \/ v <= hi ELSE v >= lo /\ v <= hi

StepFromZero(lo, hi, step, v) == v >= lo /\ v <= hi /\ v % step = 0   \* mutant
OnStep(lo, hi, step, v) == v >= lo /\ v <= hi /\ (v - lo) % step = 0

MatchItem(f, i, v) ==
    LET lo == IF i.shape = "any" THEN Low[f]  ELSE Norm(f, i.a)
        hi == IF i.shape = "any" THEN High[f] ELSE Norm(f, i.b)
    IN  IF i.step > 0 THEN OnStep(lo, hi, i.step, v)
        ELSE \/ i.shape = "any"
             \/ i.shape = "range" /\ InRange(f, lo, hi, v)
             \/ i.shape = "one" /\ v = lo

MatchField(f, field, v) == \E i \in field : MatchItem(f, i, v)
Match(e, m) == \A f \in Fields : MatchField(f, e[f], ValueAt(f, m))

-----------------------------------------------------------------------------
(* Next of each schedule, for a time t in half minutes.                    *)
FirstOf(S) == IF S = {} THEN Never ELSE 2 * Min(S)
ThisMinute(t) == t \div 2

MonthAhead == 4 * DayLength \* mutant: the search ends after a month
SearchedAhead == YearLength * DayLength

FullNext(e, t) ==           \* one year, minute by minute, from the next minute on
    LET from == ThisMinute(t) + 1
    IN  FirstOf({m \in from .. from + SearchedAhead - 1 : Match(e, m)})

DailyFrom(t, h, m) == (ThisMinute(t) \div DayLength) * DayLength + h * Minutes + m
DailyNext(h, m, t) ==
    LET today == 2 * DailyFrom(t, h, m)
    IN  IF today <= t THEN today + 2 * DayLength ELSE today

SkipsToday(at, t) == at <= t \/ at - t < 2 * DayLength   \* mutant: today is never soon enough
Passed(at, t) == at <= t
WeeklyNext(d, h, m, t) ==
    LET until == (d - WeekdayOf(ThisMinute(t)) + 7) % 7
        at    == 2 * (DailyFrom(t, h, m) + until * DayLength)
    IN  IF Passed(at, t) THEN at + 14 * DayLength ELSE at

SimpleNext(ms, hs, t) ==    \* Cron: the seconds of t stay
    LET hits == {n \in 1 .. DayLength : /\ MinuteOf(ThisMinute(t) + n) \in ms
                                        /\ HourOf(ThisMinute(t) + n) \in hs}
    IN  IF hits = {} THEN Never ELSE t + 2 * Min(hits)

NextOf(s, t) ==
    CASE s.kind = "full"   -> FullNext(s.fields, t)
      [] s.kind = "daily"  -> DailyNext(s.hour, s.minute, t)
      [] s.kind = "weekly" -> WeeklyNext(s.day, s.hour, s.minute, t)
      [] s.kind = "simple" -> SimpleNext(s.minutes, s.hours, t)

-----------------------------------------------------------------------------
NoSched == [kind |-> "none"]
Init == sched = NoSched /\ asked = 0 /\ next = Never

Unscheduled == sched = NoSched /\ UNCHANGED <<asked, next>>
MinuteSet == 0 .. Minutes - 1
HourSet   == 0 .. Hours - 1

(* A refused expression gives an error and no schedule.                    *)
ParseCron ==
    /\ Unscheduled
    /\ \E e \in Expressions : ParseCronStrict(e) /\ sched' = [kind |-> "full", fields |-> e]

Daily ==
    /\ Unscheduled
    /\ \E h \in HourSet, m \in MinuteSet : sched' = [kind |-> "daily", hour |-> h, minute |-> m]

Weekly ==
    /\ Unscheduled
    /\ \E d \in 0 .. 6, h \in HourSet, m \in MinuteSet :
          sched' = [kind |-> "weekly", day |-> d, hour |-> h, minute |-> m]

Cron ==         \* nothing is refused: a value out of range matches nothing
    /\ Unscheduled
    /\ \E ms \in {MinuteSet, {0, 2}, {Minutes}}, hs \in {HourSet, {1}} :
          sched' = [kind |-> "simple", minutes |-> ms, hours |-> hs]

(* AddTask or EnableTask asks with the clock, checkAndRun with NextRun.    *)
Schedule(t) ==
    /\ sched # NoSched
    /\ asked' = t /\ next' = NextOf(sched, t) /\ UNCHANGED sched

AddTask == \E t \in 0 .. MaxAsked : next = Never /\ asked = 0 /\ Schedule(t)
Advance == next # Never /\ next <= MaxAsked /\ Schedule(next)

Next == ParseCron \/ Daily \/ Weekly \/ Cron \/ AddTask \/ Advance

Spec == Init /\ [][Next]_vars

-----------------------------------------------------------------------------
(* What an item says by the syntax the source documents, cron.go:514-515:  *)
(* from its first value in steps, and in the weekday field a range from a  *)
(* later day to an earlier one goes on over Sunday, in the same steps.  A  *)
(* reversed range of another field names nothing.                          *)
Every(lo, top, by) == {lo + k * by : k \in 0 .. top} \cap (lo .. top)
OverSunday(f, i) == /\ f = "weekday" /\ i.shape = "range"
                    /\ Norm(f, i.a) > Norm(f, i.b)
Says(f, i) ==
    LET lo == IF i.shape = "any" THEN Low[f] ELSE Norm(f, i.a)
        hi == CASE i.shape = "any" -> High[f] [] i.shape = "range" -> Norm(f, i.b)
                [] i.shape = "one" -> lo
        by == Max({i.step, 1})
    IN  IF OverSunday(f, i) THEN {d % 7 : d \in Every(lo, hi + 7, by)} ELSE Every(lo, hi, by)

SaysNow(s, m) ==
    CASE s.kind = "full"   -> \A f \in Fields : \E i \in s.fields[f] : ValueAt(f, m) \in Says(f, i)
      [] s.kind = "daily"  -> MinuteOf(m) = s.minute /\ HourOf(m) = s.hour
      [] s.kind = "weekly" -> /\ MinuteOf(m) = s.minute /\ HourOf(m) = s.hour
                              /\ WeekdayOf(m) = s.day
      [] s.kind = "simple" -> MinuteOf(m) \in s.minutes /\ HourOf(m) \in s.hours

Asked == sched # NoSched /\ ~ (asked = 0 /\ next = Never)

(* The one part of that syntax the code does not keep: matchCronItem tests *)
(* a range with a step without the wrap (545-551), so '6-1/2' is accepted  *)
(* by ParseCronStrict and names days that it never matches.                *)
StepsOverSunday(s) ==
    /\ s.kind = "full"
    /\ \E i \in s.fields["weekday"] : i.step > 0 /\ OverSunday("weekday", i)

(* NextRun is later than the time it was asked for and a minute that the   *)
(* schedule names, and no minute the schedule names lies between: what     *)
(* Next of the four schedules promises, C12d for the weekday of today.  A  *)
(* range of weekdays that steps over Sunday is passed over.                *)
NextIsTheEarliest ==
    Asked /\ next # Never =>
        /\ next > asked /\ SaysNow(sched, ThisMinute(next))
        /\ \/ StepsOverSunday(sched)
           \/ \A m \in ThisMinute(asked) + 1 .. ThisMinute(next) - 1 : ~ SaysNow(sched, m)

(* A task loses its NextRun for good when Next answers the zero time: only *)
(* when it names no minute of the year ahead (Cron: of the day ahead), or  *)
(* names some by a range that steps over Sunday.  A leap day may still be  *)
(* named later.                                                            *)
LostOnlyIfNothingIsNamed ==
    Asked /\ next = Never /\ ~ StepsOverSunday(sched) =>
        \A m \in 1 .. (IF sched.kind = "full" THEN YearLength ELSE 1) * DayLength :
            ~ SaysNow(sched, ThisMinute(asked) + m)

=============================================================================
