----------------------------- MODULE MCBackfill -----------------------------
(***************************************************************************)
(* A small instance of Backfill: a month is a day and a year is two.  The  *)
(* server first starts on the first or the second day of a year, with a    *)
(* register that may be new.                                               *)
(***************************************************************************)
EXTENDS Backfill

CONSTANTS k1

MCOne == {k1}
MCDays == 3 .. 6
MCBoot == {5, 6}
MCUnit == {1}
MCLegacy == {1}
MCPeriod == {3}
=============================================================================
