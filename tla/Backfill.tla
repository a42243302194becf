------------------------------ MODULE Backfill ------------------------------
(***************************************************************************)
(* The maintenance job "solis backfill" (internal/maintenance, the         *)
(* transaction of internal/storage/backfill.go) over the tables of module  *)
(* Aggregator: it rewrites months and years from the daily rows, frozen or *)
(* not, and refreshes the baseline of the totals.                          *)
(*                                                                         *)
(* The job holds the exclusive lock on the database, so the server does    *)
(* not run: it is one step, between two runs.  It takes a verified backup  *)
(* first (module Upgrade) and commits once; a job that is refused or fails *)
(* changes nothing.                                                        *)
(***************************************************************************)
EXTENDS Aggregator

CONSTANT MaxYears     \* bound: the closed years a job may ask for

ASSUME BackfillAssumption == MaxYears \in Nat

\* The first day the baseline counts from (history variable).
VARIABLE countedFrom

backfillVars == <<vars, countedFrom>>

BackfillInit == Init /\ countedFrom = YearFirst(YearOf(cutover))

-----------------------------------------------------------------------------
\* FirstDailyDay, over all rows of daily_values.
FirstDailyDay ==
    LET stored == {d \in Days : \E k \in Keys : rows[k][d] # NoVal} \cup DOMAIN netRow
    IN  IF stored = {} THEN NoDay ELSE Min(stored)

\* incomplete: a period that starts before the oldest daily row is skipped.
incomplete(from, force) == ~force /\ (FirstDailyDay = NoDay \/ from < FirstDailyDay)

\* The months and years the job rewrites.
TouchedYears(n) == {y \in Years : YearOf(today) - n <= y /\ y <= YearOf(today)}

MonthJobs(n, force) ==
    {m \in Months : /\ YearOf(MonthFirst(m)) \in TouchedYears(n) /\ m <= MonthOf(today)
                    /\ ~incomplete(MonthFirst(m), force)}

YearJobs(n, force) == {y \in TouchedYears(n) : ~incomplete(YearFirst(y), force)}

\* (mutant) The baseline starts with the daily rows, not with the cutover.
baselineFromRows(force) == 1

\* baselineFrom; day 1 is before all rows.
baselineFrom(force) == IF force THEN 1 ELSE YearFirst(YearOf(cutover))

\* A year since the cutover has been folded, or force: there is a baseline to sum.
HasBaseline(force) == force \/ baselineYear >= YearOf(cutover)

\* (mutant) The job does not look at what retention has deleted.
checkPurgedNever(n, force) == TRUE

\* checkPurged: the job sums no day that retention may have deleted.
checkPurged(n, force) ==
    \/ purgedBefore = NoDay
    \/ /\ YearFirst(YearOf(today) - n) >= purgedBefore
       /\ n > 0 /\ HasBaseline(force) => baselineFrom(force) >= purgedBefore

\* period: the rows of a level with those of jobs replaced by sums of daily rows.
RecomputedMonths(jobs) ==
    [k \in Keys |-> [m \in Months |->
        IF m \in jobs THEN sumDaily(k, MonthFirst(m), minDay(MonthLast(m), today))
                      ELSE monthRow[k][m]]]

RecomputedYears(jobs) ==
    [k \in Keys |-> [y \in Years |->
        IF y \in jobs THEN sumDaily(k, YearFirst(y), minDay(YearLast(y), today))
                      ELSE yearRow[k][y]]]

\* clearOffset: a recomputed period is the pure daily sum.
Cleared(offsets, jobs) ==
    [k \in Keys |-> [p \in DOMAIN offsets[k] |-> IF p \in jobs THEN 0 ELSE offsets[k][p]]]

\* RunBackfill, Recompute: n closed years and the current one.
Backfill(n, force) ==
    /\ phase = "idle"
    /\ checkPurged(n, force)
    /\ monthRow' = RecomputedMonths(MonthJobs(n, force))
    /\ yearRow' = RecomputedYears(YearJobs(n, force))
    /\ offset' = [month |-> Cleared(offset.month, MonthJobs(n, force)),
                  year  |-> Cleared(offset.year, YearJobs(n, force))]
    /\ IF n > 0 /\ HasBaseline(force)
       THEN /\ baseline' = [k \in Keys |-> sumDaily(k, baselineFrom(force), YearLast(baselineYear))]
            /\ countedFrom' = IF force THEN 1 ELSE YearFirst(YearOf(cutover))
       ELSE UNCHANGED <<baseline, countedFrom>>
    /\ UNCHANGED <<ledger, frozenNet, frozenMonth, frozenYear, baselineYear, cutover,
                   purgedBefore, netRow, totalRow, run, past>>

BackfillNext ==
    \/ Next /\ UNCHANGED countedFrom
    \/ \E n \in 0 .. MaxYears, force \in BOOLEAN : Backfill(n, force)

BackfillSpec == BackfillInit /\ [][BackfillNext]_backfillVars /\ Fairness

-----------------------------------------------------------------------------
\* Correctness.  FrozenExact and PeriodsFreeze of Aggregator hold with the job as
\* well: it may rewrite a frozen period, but only with the sum of all its days.

\* refreshBaseline: the baseline counts every day of the folded years once, from
\* the year of the cutover, or from the beginning after a forced job, whatever
\* the live aggregator and earlier jobs have folded and retention has deleted.
\* (After a forced job and a cutover on the first of January it may be less: the
\* job may have counted the last day of the old year while it was still open.)
BaselineSound ==
    \A k \in Keys :
        LET counted == SumRows(history[k], countedFrom, YearLast(baselineYear))
        IN  /\ baseline[k] <= counted
            /\ \/ countedFrom = 1 /\ cutover = YearFirst(YearOf(cutover))
               \/ baseline[k] = counted
=============================================================================
