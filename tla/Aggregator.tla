----------------------------- MODULE Aggregator -----------------------------
(***************************************************************************)
(* The aggregator (internal/aggregator, internal/aggregation) and the part *)
(* of internal/storage it writes to, over the ledger of daily rows the     *)
(* poller fills: net days, months, years and totals are recomputed from    *)
(* the rows of open periods, a period whose last day every register has    *)
(* closed is frozen, a frozen year is folded into the baseline of the      *)
(* totals, and retention deletes rows nothing is recomputed from any more. *)
(*                                                                         *)
(* A run reads the watermarks, then the rows of one level after the other, *)
(* and writes everything in one transaction; polls, midnight and cleanup   *)
(* happen between its steps, and it may fail or die at each of them.  All  *)
(* values are those of the daily source key of a computed register (its    *)
(* edge); the net months, years and totals are differences of two values   *)
(* of one transaction and are left out.                                    *)
(***************************************************************************)
EXTENDS DailyLedger, FiniteSetsExt

CONSTANTS Export, Import,     \* the sources of the net daily register
          DaysPerMonth, MonthsPerYear,
          Added,              \* the registers that may be new since the cutover
          Boot,               \* the days the first v3 start may happen on
          Legacy,             \* what rows written before the cutover may hold
          LegacyPeriod,       \* what monthly and yearly rows may hold by then
          Retention,          \* daily_retention, in days
          MaxNetDays          \* 62 in the code

ASSUME AggregatorAssumption ==
    /\ Keys # {} /\ Export \in Keys /\ Import \in Keys /\ Added \subseteq Keys
    /\ DaysPerMonth \in Nat \ {0} /\ MonthsPerYear \in Nat \ {0}
    /\ Legacy \subseteq Values \cup {NoVal}
    /\ LegacyPeriod \subseteq Nat \cup {NoVal}
    /\ Retention \in Nat /\ MaxNetDays \in Nat \ {0}
    /\ \A d, e \in Days : d .. e \subseteq Days
    /\ \A b \in Boot : {b - 2, b} \subseteq Days /\ b - 2 > MonthsPerYear * DaysPerMonth

VARIABLES
    \* The meta table.
    frozenNet, frozenMonth, frozenYear,   \* the last frozen net day, month and year
    baselineYear, baseline,               \* the last folded year, the totals up to it
    offset,                               \* the cutover offsets of months and years
    purgedBefore,                         \* the earliest day cleanup has kept
    \* The computed tables.
    netRow,                               \* the net daily rows, per day that has one
    monthRow, yearRow, totalRow,
    \* The run.
    phase, runDay, closedThrough, write,
    \* Every daily row ever stored, deleted or not, and the net days frozen
    \* without a run computing them (history variables).
    history, skipped

meta   == <<frozenNet, frozenMonth, frozenYear, baselineYear, baseline, cutover, offset,
            purgedBefore>>
tables == <<netRow, monthRow, yearRow, totalRow>>
run    == <<phase, runDay, closedThrough, write>>
past   == <<history, skipped>>
vars   == <<ledger, meta, tables, run, past>>

-----------------------------------------------------------------------------
\* Period keys.  Months and years are numbered so that the order of the keys is
\* the order of the numbers; NoDay is the empty key of every level.

MonthOf(d) == (d - 1) \div DaysPerMonth + 1

YearOf(d) == (MonthOf(d) - 1) \div MonthsPerYear + 1

\* MonthBounds, YearBounds
MonthFirst(m) == (m - 1) * DaysPerMonth + 1
MonthLast(m)  == m * DaysPerMonth
YearFirst(y)  == MonthFirst((y - 1) * MonthsPerYear + 1)
YearLast(y)   == MonthLast(y * MonthsPerYear)

Months == {MonthOf(d) : d \in Days}
Years  == {YearOf(d) : d \in Days}

\* stepBetween
Between(after, through) == IF after = NoDay THEN {through} ELSE after + 1 .. through

minDay(a, b) == IF a < b THEN a ELSE b

\* COALESCE(SUM(value), 0) over the stored rows from .. to of one key.
RowsIn(row, from, to) == [d \in {e \in Days : from <= e /\ e <= to /\ row[e] # NoVal} |-> row[d]]

SumRows(row, from, to) == SumFunction(RowsIn(row, from, to))

sumDaily(k, from, to) == SumRows(rows[k], from, to)

-----------------------------------------------------------------------------
\* EnsureCutover on the first v3 start: everything before the month and year
\* of the last closed day is frozen, and a month or year that stays open
\* continues from the value the inverter had reported for it.

\* Faulty variant of CutoverOffset: a value behind the daily sum counts too.
CutoverOffsetSigned(stored, sum) == stored - sum

CutoverOffset(stored, sum) == IF stored > sum THEN stored - sum ELSE 0

NoWrite == [net |-> <<>>, month |-> <<>>, year |-> <<>>, fold |-> <<>>, total |-> <<>>]

Init ==
    /\ today \in Boot
    /\ cutover = today
    /\ rows \in {[k \in Keys |-> [d \in Days |-> IF d \in cutover - 2 .. cutover THEN old[k][d] ELSE NoVal]] :
                   old \in [Keys -> [cutover - 2 .. cutover -> Legacy]]}
    /\ closedDaily \in {[k \in Keys |-> IF k \in late THEN NoDay ELSE cutover - 2] : late \in SUBSET Added}
    /\ frozenNet = cutover - 2
    /\ frozenMonth = MonthOf(cutover - 2) - 1
    /\ frozenYear = YearOf(cutover - 2) - 1
    /\ baselineYear = YearOf(cutover) - 1
    /\ baseline = [k \in Keys |-> 0]
    /\ \E old \in [Keys -> LegacyPeriod \X LegacyPeriod] :
          /\ monthRow = [k \in Keys |-> [m \in Months |->
                            IF m \in Between(frozenMonth, MonthOf(cutover)) THEN old[k][1] ELSE NoVal]]
          /\ yearRow = [k \in Keys |-> [y \in Years |->
                            IF y \in Between(frozenYear, YearOf(cutover)) THEN old[k][2] ELSE NoVal]]
    /\ offset = [month |-> [k \in Keys |-> [m \in Months |-> CutoverOffset(monthRow[k][m],
                               sumDaily(k, MonthFirst(m), minDay(MonthLast(m), cutover)))]],
                 year  |-> [k \in Keys |-> [y \in Years |-> CutoverOffset(yearRow[k][y],
                               sumDaily(k, YearFirst(y), minDay(YearLast(y), cutover)))]]]
    /\ purgedBefore = NoDay
    /\ netRow = <<>>
    /\ totalRow = [k \in Keys |-> NoVal]
    /\ phase = "idle" /\ runDay = NoDay /\ closedThrough = NoDay /\ write = NoWrite
    /\ history = rows /\ skipped = {}

-----------------------------------------------------------------------------
\* The ledger moves on.  A poll of several keys, or one that writes and closes,
\* is a sequence of these steps: nothing below depends on their atomicity.

Single(k, x, none) == [j \in Keys |-> IF j = k THEN x ELSE none]

StoreRow(k, d, v) ==
    /\ d > closedDaily[k] /\ v > rows[k][d]
    /\ WritePoll(Single(k, d, NoDay), Single(k, v, NoVal), Single(k, NoDay, NoDay))
    /\ history' = [history EXCEPT ![k] = WriteDaily(@, closedDaily[k], d, v)]
    /\ UNCHANGED <<meta, tables, run, skipped>>

StoreClose(k, d) ==
    /\ d > closedDaily[k]
    /\ WritePoll(Single(k, NoDay, NoDay), Single(k, NoVal, NoVal), Single(k, d, NoDay))
    /\ UNCHANGED <<meta, tables, run, past>>

Midnight ==
    /\ DayPasses
    /\ UNCHANGED <<meta, tables, run, past>>

-----------------------------------------------------------------------------
\* One run.

\* Faulty variant of ClosedThrough: the furthest key decides.
ClosedThroughAny == Max({closedDaily[k] : k \in Keys})

\* closedThrough: the minimum over all daily keys, empty while one has none.
ClosedThrough == Min({closedDaily[k] : k \in Keys})

\* Any row of daily_values, which holds the net rows too.
HasDailyData == netRow # <<>> \/ \E k \in Keys, d \in Days : rows[k][d] # NoVal

\* run, execute, CloseState: the clock and the watermarks are read together
\* (a run is bounded by the app timeout; days lie between two closes).  The
\* other watermarks cannot change under a run: only its own write moves them.
BeginRun ==
    /\ phase = "idle"
    /\ HasDailyData
    /\ phase' = "net"
    /\ runDay' = today
    /\ closedThrough' = ClosedThrough
    /\ UNCHANGED <<ledger, meta, tables, write, past>>

\* Faulty variants of Freeze: a day too early, by the calendar, a day too late.
FreezeEarly(last) == closedThrough # NoDay /\ last <= closedThrough + 1
FreezeByCalendar(last) == last < runDay
FreezeLate(last) == closedThrough # NoDay /\ last < closedThrough

\* A job is final once every daily source has closed its last day.
Freeze(last) == closedThrough # NoDay /\ last <= closedThrough

\* dayJobs: at most MaxNetDays days back.
NetJobs == LET floor == runDay - MaxNetDays
           IN  (IF frozenNet < floor THEN floor ELSE frozenNet) + 1 .. runDay

netDays ==
    /\ phase = "net"
    /\ phase' = "months"
    /\ write' = [write EXCEPT !.net = [d \in NetJobs |-> sumDaily(Export, d, d) - sumDaily(Import, d, d)]]
    /\ UNCHANGED <<ledger, meta, tables, runDay, closedThrough, past>>

months ==
    /\ phase = "months"
    /\ phase' = "years"
    /\ write' = [write EXCEPT !.month =
          [m \in Between(frozenMonth, MonthOf(runDay)) |-> [k \in Keys |->
              sumDaily(k, MonthFirst(m), minDay(MonthLast(m), runDay)) + offset.month[k][m]]]]
    /\ UNCHANGED <<ledger, meta, tables, runDay, closedThrough, past>>

\* A frozen year is folded into the baseline, without its offset.
years ==
    /\ phase = "years"
    /\ phase' = "totals"
    /\ LET jobs == Between(frozenYear, YearOf(runDay))
           sum(k, y) == sumDaily(k, YearFirst(y), minDay(YearLast(y), runDay))
       IN  write' = [write EXCEPT
              !.year = [y \in jobs |-> [k \in Keys |-> sum(k, y) + offset.year[k][y]]],
              !.fold = [y \in {y \in jobs : Freeze(YearLast(y)) /\ y > baselineYear} |->
                          [k \in Keys |-> sum(k, y)]]]
    /\ UNCHANGED <<ledger, meta, tables, runDay, closedThrough, past>>

\* The baseline a run continues from, and the last year in it.
Folded(k) == baseline[k] + SumFunction([y \in DOMAIN write.fold |-> write.fold[y][k]])

\* Faulty variant of FoldedYear: the baseline year stays behind its baseline.
FoldedYearStale == baselineYear

FoldedYear == Max({baselineYear} \cup DOMAIN write.fold)

totals ==
    /\ phase = "totals"
    /\ phase' = "write"
    /\ write' = [write EXCEPT !.total =
          [k \in Keys |-> Folded(k) + sumDaily(k, YearFirst(FoldedYear + 1), runDay)]]
    /\ UNCHANGED <<ledger, meta, tables, runDay, closedThrough, past>>

\* A row of a frozen period is rejected, the others replace what is stored.
Upsert(table, new, frozen) ==
    [p \in DOMAIN table |-> IF p > frozen /\ p \in DOMAIN new THEN new[p] ELSE table[p]]

\* applyFreezes: every freeze advances the watermark.
Advance(frozen, final) == Max({frozen} \cup final)

\* WriteComputed: rows, freezes and folds in one transaction.
WriteComputed ==
    /\ phase = "write"
    /\ netRow' = [d \in DOMAIN netRow \cup {d \in DOMAIN write.net : d > frozenNet} |->
                    IF d \in DOMAIN write.net /\ d > frozenNet THEN write.net[d] ELSE netRow[d]]
    /\ monthRow' = [k \in Keys |->
          Upsert(monthRow[k], [m \in DOMAIN write.month |-> write.month[m][k]], frozenMonth)]
    /\ yearRow' = [k \in Keys |->
          Upsert(yearRow[k], [y \in DOMAIN write.year |-> write.year[y][k]], frozenYear)]
    /\ totalRow' = write.total
    /\ frozenNet' = Advance(frozenNet, {d \in DOMAIN write.net : Freeze(d)})
    /\ frozenMonth' = Advance(frozenMonth, {m \in DOMAIN write.month : Freeze(MonthLast(m))})
    /\ frozenYear' = Advance(frozenYear, {y \in DOMAIN write.year : Freeze(YearLast(y))})
    /\ baseline' = [k \in Keys |-> Folded(k)]
    /\ baselineYear' = FoldedYear
    /\ phase' = "idle" /\ runDay' = NoDay /\ closedThrough' = NoDay /\ write' = NoWrite
    /\ skipped' = skipped \cup ((frozenNet + 1 .. frozenNet') \ DOMAIN write.net)
    /\ UNCHANGED <<ledger, cutover, offset, purgedBefore, history>>

\* A query or the transaction fails, the run times out, the aggregator is
\* stopped or the process dies: nothing of the run is stored.
RunFails ==
    /\ phase # "idle"
    /\ phase' = "idle" /\ runDay' = NoDay /\ closedThrough' = NoDay /\ write' = NoWrite
    /\ UNCHANGED <<ledger, meta, tables, past>>

-----------------------------------------------------------------------------
\* Retention.

\* Faulty variant of firstOpenDay: only the net days are considered.
firstOpenNetDay == IF frozenNet = NoDay THEN NoDay ELSE frozenNet + 1

\* firstOpenDay: the earliest day a computed value may still be computed from.
firstOpenDay ==
    IF NoDay \in {frozenNet, frozenMonth, frozenYear, baselineYear} THEN NoDay
    ELSE Min({frozenNet + 1, MonthFirst(frozenMonth + 1),
              YearFirst(frozenYear + 1), YearFirst(baselineYear + 1)})

\* cleanupPeriods with purgePeriods: the half of CleanupAll that touches periods.
\* (The other half, cleanupStatus, is a step of Poller; VACUUM changes no row.)
cleanupPeriods ==
    LET cutoff == minDay(today - Retention, firstOpenDay)
        old == {d \in Days : d < cutoff /\ \E k \in Keys : rows[k][d] # NoVal}
               \cup {d \in DOMAIN netRow : d < cutoff}
    IN  /\ firstOpenDay # NoDay /\ cutoff > purgedBefore
        /\ rows' = [k \in Keys |-> [d \in Days |-> IF d < cutoff THEN NoVal ELSE rows[k][d]]]
        /\ netRow' = [d \in {d \in DOMAIN netRow : d >= cutoff} |-> netRow[d]]
        /\ monthRow' = [k \in Keys |-> [m \in Months |->
                          IF m < MonthOf(cutoff) THEN NoVal ELSE monthRow[k][m]]]
        /\ yearRow' = [k \in Keys |-> [y \in Years |->
                          IF y < YearOf(cutoff) THEN NoVal ELSE yearRow[k][y]]]
        /\ purgedBefore' = IF old # {} THEN cutoff ELSE purgedBefore
        /\ UNCHANGED <<today, closedDaily, frozenNet, frozenMonth, frozenYear, baselineYear,
                       baseline, cutover, offset, totalRow, run, past>>

RunStep == BeginRun \/ netDays \/ months \/ years \/ totals \/ WriteComputed

Next ==
    \/ \E k \in Keys, d \in Days, v \in Values : StoreRow(k, d, v)
    \/ \E k \in Keys, d \in Days : StoreClose(k, d)
    \/ Midnight
    \/ RunStep
    \/ RunFails
    \/ cleanupPeriods

Spec == Init /\ [][Next]_vars

\* The heartbeat starts a run at least every few poll intervals, and no step of
\* it fails every time.
Fairness ==
    /\ WF_vars(BeginRun)
    /\ SF_vars(netDays)
    /\ SF_vars(months)
    /\ SF_vars(years)
    /\ SF_vars(totals)
    /\ SF_vars(WriteComputed)

FairSpec == Spec /\ Fairness

-----------------------------------------------------------------------------
\* Properties

\* The meta and computed tables hold what their columns allow: in particular no
\* cutover offset (putOffset) and no month, year or total is negative.
AggregatorTypeOK ==
    /\ LedgerTypeOK
    /\ frozenNet \in Days /\ frozenMonth \in Nat /\ frozenYear \in Nat /\ baselineYear \in Nat
    /\ baseline \in [Keys -> Nat]
    /\ cutover \in Boot
    /\ offset \in [month : [Keys -> [Months -> Nat]], year : [Keys -> [Years -> Nat]]]
    /\ purgedBefore \in Days \cup {NoDay}
    /\ DOMAIN netRow \subseteq Days /\ \A d \in DOMAIN netRow : netRow[d] \in Int
    /\ monthRow \in [Keys -> [Months -> Nat \cup {NoVal}]]
    /\ yearRow \in [Keys -> [Years -> Nat \cup {NoVal}]]
    /\ totalRow \in [Keys -> Nat \cup {NoVal}]
    /\ phase \in {"idle", "net", "months", "years", "totals", "write"}
    /\ runDay \in Days \cup {NoDay} /\ closedThrough \in Days \cup {NoDay}
    /\ history \in [Keys -> [Days -> Values \cup {NoVal}]]

\* BuildPlan, WriteComputed: a month or year v3 has frozen holds exactly what
\* its days ended with, on top of what the inverter had reported before the
\* cutover, however polls, midnight and cleanup fell between the steps of the
\* run that froze it.  Only retention removes it.
FrozenExact ==
    \A k \in Keys :
        /\ \A m \in MonthOf(cutover - 2) .. frozenMonth :
              IF monthRow[k][m] = NoVal THEN MonthLast(m) < today - Retention
              ELSE monthRow[k][m] = SumRows(history[k], MonthFirst(m), MonthLast(m)) + offset.month[k][m]
        /\ \A y \in YearOf(cutover - 2) .. frozenYear :
              IF yearRow[k][y] = NoVal THEN YearLast(y) < today - Retention
              ELSE yearRow[k][y] = SumRows(history[k], YearFirst(y), YearLast(y)) + offset.year[k][y]

\* netDays: a frozen net day is the difference of the final rows, however often
\* runs failed before.  (A run that finds more than MaxNetDays open days skips
\* the oldest of them, and they are never computed again.)
NetFinal ==
    \A d \in (cutover - 1 .. frozenNet) \ skipped :
        IF d \notin DOMAIN netRow THEN d < today - Retention
        ELSE netRow[d] = SumRows(history[Export], d, d) - SumRows(history[Import], d, d)

\* applyFold, cleanupPeriods: every closed year is folded into the baseline once
\* and completely, over failed and repeated runs, and no total is above what
\* was ever stored.
BaselineExact ==
    \A k \in Keys :
        /\ baseline[k] = SumRows(history[k], YearFirst(YearOf(cutover)), YearLast(baselineYear))
        /\ totalRow[k] <= SumRows(history[k], YearFirst(YearOf(cutover)), today)

\* CleanupAll promises that "computed values therefore never shrink": no run,
\* whatever was deleted before or during it, stores less than an earlier one.
ComputedNeverShrink ==
    [][\A k \in Keys :
          /\ totalRow'[k] >= totalRow[k]
          /\ \A m \in Months : monthRow'[k][m] # NoVal => monthRow'[k][m] >= monthRow[k][m]
          /\ \A y \in Years : yearRow'[k][y] # NoVal => yearRow'[k][y] >= yearRow[k][y]]_vars

\* BuildPlan: "a missed PeriodClosed event only delays (never skips) a freeze":
\* once every register has closed the last day of a month or a year it is
\* frozen, and the year is part of the baseline.  (Without any daily row
\* the aggregator stays idle.)
PeriodsFreeze ==
    /\ \A m \in Months : ClosedThrough >= MonthLast(m) ~> frozenMonth >= m \/ ~HasDailyData
    /\ \A y \in Years : ClosedThrough >= YearLast(y)
                             ~> (frozenYear >= y /\ baselineYear >= y) \/ ~HasDailyData

=============================================================================
