---------------------------- MODULE MCAggregator ----------------------------
(***************************************************************************)
(* Small instances of Aggregator, with a calendar small enough that the    *)
(* year after the cutover closes.                                          *)
(***************************************************************************)
EXTENDS Aggregator

CONSTANTS k1, k2

MCOne == {k1}
MCTwo == {k1, k2}
MCDays == 3 .. 7
MCShort == 3 .. 5
MCLate == {k2}
MCBoot == {5}
MCUnit == {1}
MCLegacy == {NoVal, 1}
MCNone == {NoVal}
MCPeriod == {3}

=============================================================================
