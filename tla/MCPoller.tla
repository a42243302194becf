------------------------------ MODULE MCPoller ------------------------------
(***************************************************************************)
(* Small instances of Poller.  Days are numbered from an arbitrary date; a *)
(* rollover time of 23:59 gives windows from 22:59 to 00:59.               *)
(***************************************************************************)
EXTENDS Poller, TLC

At(day, hour, minute) == DayMinutes * day + 60 * hour + minute

MCRollTime == 1439

\* The other side of midnight: windows from 23:30 to 01:30, anchored on the
\* opening day.
MCRollTimeAfter == 30

\* Two keys: noon, both halves of the window over midnight, and the second
\* half of the next window, where a key still on the first day is forced on.
MCInstants == {At(3, 12, 0), At(3, 23, 30), At(4, 0, 30), At(5, 0, 30)}
MCBoot == {At(3, 12, 0)}

\* One key: also the noon between the windows, and a first start anywhere.
MCInstants1 == MCInstants \cup {At(4, 12, 0)}

MCDays == 1 .. 5

\* 0 is a reset from 20 and from 5; 5 is a dip below 20.
MCValues == {0, 20}
MCValues1 == {0, 5, 20}

MCStatuses == {"s0"}

MCLegacy == {NoVal}
MCLegacy1 == {NoVal, 5}
MCLegacy20 == {NoVal, 20}

Symmetry == Permutations(Keys)
SymmetryStatus == Permutations(Statuses)
=============================================================================
