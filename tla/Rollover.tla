------------------------------ MODULE Rollover ------------------------------
(***************************************************************************)
(* The daily rollover of internal/period/rollover.go: around the           *)
(* configured time of day lies a window of one hour to each side in which  *)
(* the inverter is expected to reset its daily counters.                   *)
(*                                                                         *)
(* Instants are minutes of local time, counted from an arbitrary midnight; *)
(* a day key "2006-01-02" is the number of its date, so that the order of  *)
(* the strings is the order of the numbers.  Every date has 24 hours: the  *)
(* two daylight saving dates of a year are not modelled.                   *)
(***************************************************************************)
EXTENDS Integers

CONSTANT RollTime   \* the configured rollover.time, in minutes after midnight

DayMinutes == 1440

\* WindowHalfWidth
HalfWidth == 60

\* noonHour: from 12:00 on a rollover time closes today, before it yesterday.
Noon == 720

\* ParseRollover accepts exactly the times 00:00 .. 23:59.
ASSUME RollTimeAssumption == RollTime \in 0 .. DayMinutes - 1

-----------------------------------------------------------------------------

\* The calendar date an instant falls on.
Date(t) == t \div DayMinutes

\* The day that starts in the window anchored on date d.
Opening(d) == IF RollTime >= Noon THEN d + 1 ELSE d

\* The window whose anchor falls on date d.
windowOn(d) ==
    LET anchor == DayMinutes * d + RollTime
    IN  [start    |-> anchor - HalfWidth,
         end      |-> anchor + HalfWidth,
         closing  |-> Opening(d) - 1,
         opening  |-> Opening(d),
         midnight |-> DayMinutes * Opening(d)]

\* Inclusive start, exclusive end.
Contains(w, t) == w.start <= t /\ t < w.end

\* WindowAt reports whether some window contains the instant, and which one.
InWindow(t) == \E off \in {-1, 0, 1} : Contains(windowOn(Date(t) + off), t)

WindowAt(t) ==
    IF Contains(windowOn(Date(t) - 1), t) THEN windowOn(Date(t) - 1)
    ELSE IF Contains(windowOn(Date(t)), t) THEN windowOn(Date(t))
    ELSE windowOn(Date(t) + 1)

\* The most recent window that has ended; its opening day is the day every
\* daily key must have reached (the target of a forced close).
LastEnded(t) ==
    IF windowOn(Date(t) + 1).end <= t THEN windowOn(Date(t) + 1)
    ELSE IF windowOn(Date(t)).end <= t THEN windowOn(Date(t))
    ELSE IF windowOn(Date(t) - 1).end <= t THEN windowOn(Date(t) - 1)
    ELSE windowOn(Date(t) - 2)

Expected(t) == LastEnded(t).opening

\* The furthest day a key may have reached: inside a window the one it opens.
Limit(t) == IF InWindow(t) THEN WindowAt(t).opening ELSE Expected(t)

=============================================================================
