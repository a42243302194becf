----------------------------- MODULE MCMetering -----------------------------
(***************************************************************************)
(* A small instance of Metering: two counters over one whole rollover.     *)
(***************************************************************************)
EXTENDS Metering, TLC

At(day, hour, minute) == DayMinutes * day + 60 * hour + minute

MCRollTime == 1439

\* Before the window, both halves of it, and after it.
MCInstants == {At(3, 12, 0), At(3, 23, 30), At(4, 0, 30), At(4, 12, 0)}
MCBoot == {At(3, 12, 0)}
MCDays == 1 .. 6

\* 1 is a reset from 20; growth from 1 to 20 hides one.
MCValues == {0, 1, 20}
MCStatuses == {"s0"}
MCLegacy == {NoVal}

Symmetry == Permutations(Keys)
=============================================================================
