------------------------------- MODULE Poller -------------------------------
(***************************************************************************)
(* The poll loop of internal/poller with the part of internal/storage it   *)
(* writes to: day attribution (attribution.go), the poll cycle (poller.go, *)
(* cycle.go) and WritePoll / Seed (storage/poller_store.go).               *)
(*                                                                         *)
(* Every cycle captures the clock once (start).  What the inverter answers *)
(* is arbitrary here: any value may be read for any key, so glitches, dips *)
(* and resets at any time are included.  Metering restricts it to honest   *)
(* counters.  A failing cycle, a failing transaction and the replacement   *)
(* of the poller by a fresh instance (a supervised restart or a crash of   *)
(* the process) may happen wherever the code allows them, and so may the   *)
(* deletion of old status rows.  Of the daily rows retention deletes only  *)
(* days every key has closed (module Aggregator), which no step here       *)
(* reads or writes again.                                                  *)
(***************************************************************************)
EXTENDS Rollover, PollStore, FiniteSets

CONSTANTS Keys,           \* the daily (non-net) registers
          Added,          \* the registers that may be new since the cutover
          Values,         \* what a daily counter may read, in tenths of a kWh
          Statuses,       \* what the status register may read
          Lasting,        \* the statuses that may last longer than error_retention
          Instants,       \* the instants the clock is observed at
          Boot,           \* the instants the first v3 start may happen at
          Legacy,         \* what a daily row left by v2 may hold
          LegacyStatus,   \* what the last status row left by v2 may hold
          Days,           \* the day keys rows are stored under
          EmittedMemory   \* emittedMemory: 8 in the code

NoStatus == "none"
NoTime == -1     \* no cycle is running

ASSUME PollerAssumption ==
    /\ Added \subseteq Keys
    /\ Values \subseteq Nat
    /\ Legacy \subseteq Values \cup {NoVal}
    /\ NoStatus \notin Statuses /\ Lasting \subseteq Statuses
    /\ LegacyStatus \subseteq Statuses \cup {NoStatus}
    /\ Instants \subseteq Nat
    /\ Boot \subseteq Instants
    /\ Days \subseteq Nat \ {NoDay}
    /\ EmittedMemory \in Nat \ {0}
    /\ \A t \in Instants : {Date(t) - 2, Date(t), Expected(t) - 1, Expected(t), Expected(t) + 1} \subseteq Days

VARIABLES
    now,         \* the clock
    \* The poll cycle.
    pc,          \* where the loop stands
    start,       \* the instant the cycle captured
    online,      \* the cycle has read values (FALSE: Modbus was not connected)
    reading,     \* the values it read
    statusRead,  \* the status it read
    target,      \* the day each value is written under (NoDay: discarded)
    todo,        \* the keys the current loop over a map still has to visit
    \* The poller's memory, lost with the instance.
    seeded, openDay, base, confirmed, lastDaily, pendingCloses, emitted, lastStatus,
    health,
    \* The database.
    rows,        \* daily_values
    closedDaily, \* the closed-day watermarks of the meta table
    statusRow,   \* the latest row of error_data, if there is one
    cutover,     \* v3_cutover_date
    statusStored, \* the latest status stored, deleted since or not (a history variable)
    \* Outputs.
    cache,       \* the poller's domain of the live cache
    published    \* the day of the latest PeriodClosed event

cycle   == <<pc, start, online, reading, statusRead, target, todo>>
memory  == <<seeded, openDay, base, confirmed, lastDaily, pendingCloses, emitted, lastStatus>>
db      == <<rows, closedDaily, statusRow, cutover, statusStored>>
outputs == <<cache, published>>
vars    == <<now, cycle, memory, health, db, outputs>>

-----------------------------------------------------------------------------
\* Helpers

\* A drop below a tenth (ResetThreshold) is a counter reset, not a dip.
isReset(prev, cur) == 10 * cur < prev

\* The loop's state (Poller, DayAttributor), the tables and the outputs have the
\* types the code gives them; "persist" covers attribution and the transaction.
TypeOK ==
    /\ now \in Instants
    /\ pc \in {"idle", "begin", "persist", "publish"}
    /\ start \in Instants \cup {NoTime}
    /\ online \in BOOLEAN
    /\ reading \in [Keys -> Values \cup {NoVal}]
    /\ statusRead \in Statuses \cup {NoStatus}
    /\ target \in [Keys -> Days \cup {NoDay}]
    /\ todo \in SUBSET Keys
    /\ seeded \in BOOLEAN
    /\ openDay \in [Keys -> Days \cup {NoDay}]
    /\ base \in [Keys -> Values \cup {NoVal}]
    /\ confirmed \in Days \cup {NoDay}
    /\ lastDaily \in [Keys -> Values \cup {NoVal}]
    /\ pendingCloses \in [Keys -> Days \cup {NoDay}]
    /\ emitted \in SUBSET Days
    /\ lastStatus \in Statuses \cup {NoStatus}
    /\ health \in {"none", "Healthy", "Recovering"}
    /\ rows \in [Keys -> [Days -> Values \cup {NoVal}]]
    /\ closedDaily \in [Keys -> Days \cup {NoDay}]
    /\ statusRow \in Statuses \cup {NoStatus}
    /\ statusStored \in Statuses \cup {NoStatus}
    /\ cutover \in Nat
    /\ cache \in [Keys -> Values \cup {NoVal}]
    /\ published \in Days \cup {NoDay}

-----------------------------------------------------------------------------
\* A fresh instance (New, NewDayAttributor): nothing is known before the seed.

FreshMemory ==
    /\ seeded = FALSE
    /\ openDay = [k \in Keys |-> NoDay]
    /\ base = [k \in Keys |-> NoVal]
    /\ confirmed = NoDay
    /\ lastDaily = [k \in Keys |-> NoVal]
    /\ pendingCloses = [k \in Keys |-> NoDay]
    /\ emitted = {}
    /\ lastStatus = NoStatus

NoCycle ==
    /\ pc = "idle"
    /\ start = NoTime
    /\ online = FALSE
    /\ reading = [k \in Keys |-> NoVal]
    /\ statusRead = NoStatus
    /\ target = [k \in Keys |-> NoDay]
    /\ todo = {}

\* The same as assignments: New replaces the memory, a returning cycle leaves
\* nothing behind.
ResetMemory ==
    /\ seeded' = FALSE
    /\ openDay' = [k \in Keys |-> NoDay]
    /\ base' = [k \in Keys |-> NoVal]
    /\ confirmed' = NoDay
    /\ lastDaily' = [k \in Keys |-> NoVal]
    /\ pendingCloses' = [k \in Keys |-> NoDay]
    /\ emitted' = {}
    /\ lastStatus' = NoStatus

ResetCycle ==
    /\ pc' = "idle"
    /\ start' = NoTime
    /\ online' = FALSE
    /\ reading' = [k \in Keys |-> NoVal]
    /\ statusRead' = NoStatus
    /\ target' = [k \in Keys |-> NoDay]
    /\ todo' = {}

\* The first start of v3 (EnsureCutover, initDayMarks): cutoverMargin keeps
\* yesterday writable, and a register added to the table later starts without
\* a watermark.  v2 may have left rows of the cutover day and the day before,
\* and a status.
Init ==
    /\ now \in Boot
    /\ NoCycle
    /\ FreshMemory
    /\ health = "none"
    /\ cutover = Date(now)
    /\ closedDaily \in {[k \in Keys |-> IF k \in late THEN NoDay ELSE cutover - 2] :
                          late \in SUBSET Added}
    /\ rows \in {[k \in Keys |-> [d \in Days |->
                    IF d = cutover - 1 THEN old[k][1]
                    ELSE IF d = cutover /\ d <= Limit(now) THEN old[k][2]
                    ELSE NoVal]] : old \in [Keys -> Legacy \X Legacy]}
    /\ statusRow \in LegacyStatus
    /\ statusStored = statusRow
    /\ cache = [k \in Keys |-> NoVal]
    /\ published = NoDay

-----------------------------------------------------------------------------
\* The clock never steps back; it may jump over any number of windows.
Tick ==
    /\ \E t \in Instants : t > now /\ now' = t
    /\ UNCHANGED <<cycle, memory, health, db, outputs>>

\* The loop's timer fires (polls never overlap).
BeginCycle ==
    /\ pc = "idle"
    /\ pc' = "begin"
    /\ start' = now
    /\ UNCHANGED <<now, online, reading, statusRead, target, todo, memory, health, db, outputs>>

EndCycle(h) ==
    /\ ResetCycle
    /\ health' = h
    /\ UNCHANGED now

-----------------------------------------------------------------------------
\* Seeding from the database: the first cycle of an instance.

\* Faulty variant of HasAdvanced: a restart places every key on the expected day.
HasAdvancedNever(k) == FALSE

\* seedKey: inside a window a stored row of the new day, or the watermark,
\* shows that the key has already advanced.
HasAdvanced(k) ==
    /\ InWindow(start)
    /\ \/ rows[k][WindowAt(start).opening] # NoVal
       \/ closedDaily[k] >= Expected(start)

SeedDay(k) == IF HasAdvanced(k) THEN WindowAt(start).opening ELSE Expected(start)

\* Faulty variant of MissedClose: a restart forgets the closes that are due.
MissedCloseIgnored(k) == FALSE

\* The closes missed while no poller ran.
MissedClose(k) == closedDaily[k] # NoDay /\ closedDaily[k] < Expected(start) - 1

Seed ==
    /\ pc = "begin" /\ ~seeded
    /\ seeded' = TRUE
    /\ openDay' = [k \in Keys |-> SeedDay(k)]
    /\ base' = [k \in Keys |-> rows[k][SeedDay(k)]]
    /\ confirmed' = IF \E k \in Keys : HasAdvanced(k) THEN WindowAt(start).opening ELSE confirmed
    /\ pendingCloses' = [k \in Keys |-> IF MissedClose(k)
                                        THEN maxDay(pendingCloses[k], Expected(start) - 1)
                                        ELSE pendingCloses[k]]
    /\ lastStatus' = IF statusRow # NoStatus THEN statusRow ELSE lastStatus
    /\ lastDaily' = [k \in Keys |-> rows[k][SeedDay(k)]]
    /\ UNCHANGED <<now, cycle, emitted, health, db, outputs>>

SeedFails ==
    /\ pc = "begin" /\ ~seeded
    /\ EndCycle("Recovering")
    /\ UNCHANGED <<memory, db, outputs>>

-----------------------------------------------------------------------------
\* Reading.  Both paths that reach the database first force-close the keys
\* that are behind the day they must have reached by now.

\* Faulty variant of Behind: an outage leaves the keys where they are.
BehindNever(k) == FALSE

Behind(k) == openDay[k] # NoDay /\ openDay[k] < Expected(start)

\* Faulty variant of ForceClose: the comparison base survives the forced close.
ForceCloseKeepsBase ==
    /\ openDay' = [k \in Keys |-> IF Behind(k) THEN Expected(start) ELSE openDay[k]]
    /\ base' = base
    /\ pendingCloses' = [k \in Keys |-> IF Behind(k)
                                        THEN maxDay(pendingCloses[k], Expected(start) - 1)
                                        ELSE pendingCloses[k]]

ForceClose ==
    /\ openDay' = [k \in Keys |-> IF Behind(k) THEN Expected(start) ELSE openDay[k]]
    /\ base' = [k \in Keys |-> IF Behind(k) THEN NoVal ELSE base[k]]
    /\ pendingCloses' = [k \in Keys |-> IF Behind(k)
                                        THEN maxDay(pendingCloses[k], Expected(start) - 1)
                                        ELSE pendingCloses[k]]

\* Modbus is not connected: only the due closes are written, if there are any.
Disconnected ==
    /\ pc = "begin" /\ seeded
    /\ ForceClose
    /\ \/ /\ \E k \in Keys : pendingCloses'[k] # NoDay
          /\ pc' = "persist"
          /\ UNCHANGED <<now, start, online, reading, statusRead, target, todo, health>>
       \/ /\ \A k \in Keys : pendingCloses'[k] = NoDay
          /\ EndCycle("Recovering")
    /\ UNCHANGED <<seeded, confirmed, lastDaily, emitted, lastStatus, db, outputs>>

\* Connected, but a block could not be read (a partial poll is discarded).
ReadFails ==
    /\ pc = "begin" /\ seeded
    /\ EndCycle("Recovering")
    /\ UNCHANGED <<memory, db, outputs>>

ReadAll(values, status) ==
    /\ pc = "begin" /\ seeded
    /\ ForceClose
    /\ pc' = "persist"
    /\ online' = TRUE
    /\ reading' = values
    /\ statusRead' = status
    /\ todo' = Keys
    /\ UNCHANGED <<now, start, target, seeded, confirmed, lastDaily, emitted, lastStatus,
                   health, db, outputs>>

-----------------------------------------------------------------------------
\* Attribution of one daily value, key by key in the arbitrary order of a Go
\* map: a key visited after the one that confirms the reset may follow it.

Closes(k) == InWindow(start) /\ openDay[k] = WindowAt(start).closing

ResetConfirmed == confirmed = WindowAt(start).opening

\* With no base, or a base of 0, the counter never decreases.
Blind(k) == Closes(k) /\ base[k] <= 0

\* Faulty variant of BlindRule: nothing is held after midnight.
BlindRuleConfirmed(k) == Blind(k) /\ ResetConfirmed

\* A blind key on the closing day does not use the normal rules once the
\* reset is confirmed, or from the opening day's midnight on.
BlindRule(k) == Blind(k) /\ (ResetConfirmed \/ start >= WindowAt(start).midnight)

\* Faulty variant of Fits: a decrease is accepted like any other value.
FitsAlways(k) == TRUE

Fits(k) == base[k] = NoVal \/ reading[k] >= base[k]

Visit(k) ==
    /\ pc = "persist"
    /\ k \in todo
    /\ todo' = todo \ {k}
    /\ UNCHANGED <<now, pc, start, online, reading, statusRead, seeded, emitted, lastStatus,
                   health, db, outputs>>

\* Faulty variant of WriteUnder: the key is not moved to the day it writes.
WriteUnderStays(k, d) ==
    /\ UNCHANGED openDay
    /\ base' = [base EXCEPT ![k] = reading[k]]
    /\ target' = [target EXCEPT ![k] = d]
    /\ lastDaily' = [lastDaily EXCEPT ![k] = reading[k]]

\* The value is written under day d and becomes the comparison base.
WriteUnder(k, d) ==
    /\ openDay' = [openDay EXCEPT ![k] = d]
    /\ base' = [base EXCEPT ![k] = reading[k]]
    /\ target' = [target EXCEPT ![k] = d]
    /\ lastDaily' = [lastDaily EXCEPT ![k] = reading[k]]

Discard == UNCHANGED <<target, openDay, base, confirmed, lastDaily, pendingCloses>>

\* Faulty variants of CloseClosing: no close, or one of the opening day.
CloseClosingForgotten(k) == UNCHANGED pendingCloses
CloseOpening(k) ==
    pendingCloses' = [pendingCloses EXCEPT ![k] = maxDay(@, WindowAt(start).opening)]

CloseClosing(k) ==
    pendingCloses' = [pendingCloses EXCEPT ![k] = maxDay(@, WindowAt(start).closing)]

\* WriteNewDay of blindReset.
FollowReset(k) ==
    /\ Visit(k)
    /\ Blind(k) /\ ResetConfirmed
    /\ WriteUnder(k, WindowAt(start).opening)
    /\ CloseClosing(k)
    /\ UNCHANGED confirmed

\* Held: what a blind key reads after midnight may belong to either day.
Hold(k) ==
    /\ Visit(k)
    /\ BlindRule(k) /\ ~ResetConfirmed
    /\ Discard

\* WriteCurrent.
Accept(k) ==
    /\ Visit(k)
    /\ ~BlindRule(k) /\ Fits(k)
    /\ WriteUnder(k, openDay[k])
    /\ UNCHANGED <<confirmed, pendingCloses>>

\* Faulty variant of ShowsReset: a reset counts outside the window too.
ShowsResetAnywhere(k) == ResetConfirmed \/ isReset(base[k], reading[k])

ShowsReset(k) == Closes(k) /\ (ResetConfirmed \/ isReset(base[k], reading[k]))

\* WriteNewDay of decreaseInWindow.
ConfirmReset(k) ==
    /\ Visit(k)
    /\ ~BlindRule(k) /\ ~Fits(k) /\ ShowsReset(k)
    /\ confirmed' = WindowAt(start).opening
    /\ WriteUnder(k, WindowAt(start).opening)
    /\ CloseClosing(k)

\* A dip, a second reset in the window or a decrease outside it.
DiscardDecrease(k) ==
    /\ Visit(k)
    /\ ~BlindRule(k) /\ ~Fits(k) /\ ~ShowsReset(k)
    /\ Discard

AttributeKey(k) ==
    FollowReset(k) \/ Hold(k) \/ Accept(k) \/ ConfirmReset(k) \/ DiscardDecrease(k)

-----------------------------------------------------------------------------
\* WritePoll: one transaction.

StatusChanged == online /\ statusRead # lastStatus

Commit ==
    /\ pc = "persist" /\ todo = {}
    /\ rows' = [k \in Keys |-> WriteDaily(rows[k], closedDaily[k], target[k], reading[k])]
    /\ statusRow' = IF StatusChanged THEN statusRead ELSE statusRow
    /\ statusStored' = IF StatusChanged THEN statusRead ELSE statusStored
    /\ lastStatus' = IF StatusChanged THEN statusRead ELSE lastStatus
    /\ closedDaily' = [k \in Keys |-> CloseDay(closedDaily[k], pendingCloses[k])]
    /\ todo' = {k \in Keys : pendingCloses[k] # NoDay}
    /\ pc' = "publish"
    /\ UNCHANGED <<now, start, online, reading, statusRead, target, seeded, openDay, base,
                   confirmed, lastDaily, pendingCloses, emitted, health, cutover, outputs>>

\* Faulty variant of WriteFails: the status counts as stored all the same.
WriteFailsForgetful ==
    /\ pc = "persist" /\ todo = {}
    /\ lastStatus' = IF StatusChanged THEN statusRead ELSE lastStatus
    /\ EndCycle("Recovering")
    /\ UNCHANGED <<seeded, openDay, base, confirmed, lastDaily, pendingCloses, emitted, db, outputs>>

\* Nothing is committed; the closes stay pending, the attribution stands.
WriteFails ==
    /\ pc = "persist" /\ todo = {}
    /\ EndCycle("Recovering")
    /\ UNCHANGED <<memory, db, outputs>>

\* committed: PeriodClosed once per day this instance remembers.
PublishClose(k) ==
    /\ pc = "publish" /\ k \in todo
    /\ todo' = todo \ {k}
    /\ pendingCloses' = [pendingCloses EXCEPT ![k] = NoDay]
    /\ LET day == pendingCloses[k]
       IN  \/ day \in emitted /\ UNCHANGED <<emitted, published>>
           \/ /\ day \notin emitted
              /\ emitted' = {day} \cup IF Cardinality(emitted) >= EmittedMemory THEN {} ELSE emitted
              /\ published' = day
    /\ UNCHANGED <<now, pc, start, online, reading, statusRead, target, seeded, openDay, base,
                   confirmed, lastDaily, lastStatus, health, db, cache>>

\* The cache takes the accepted values (ReplaceDomain): a discarded value
\* leaves the last accepted one.
FinishCycle ==
    /\ pc = "publish" /\ todo = {}
    /\ cache' = IF online THEN lastDaily ELSE cache
    /\ EndCycle(IF online THEN "Healthy" ELSE "Recovering")
    /\ UNCHANGED <<memory, db, published>>

-----------------------------------------------------------------------------
\* The supervisor replaces a stopped poller: Stop waits for the cycle to end.
Restart ==
    /\ pc = "idle"
    /\ ResetMemory
    /\ health' = "none"
    /\ UNCHANGED <<now, cycle, db, outputs>>

\* The process dies anywhere and is started again.
Crash ==
    /\ ResetMemory
    /\ ResetCycle
    /\ health' = "none"
    /\ cache' = [k \in Keys |-> NoVal]
    /\ UNCHANGED <<now, db, published>>

-----------------------------------------------------------------------------
\* Retention deletes the status rows older than error_retention, which may be
\* any positive duration, whatever the poller is doing: also the last row of
\* the register, when the status has not changed for so long.
cleanupStatus ==
    /\ statusRow \in Lasting
    /\ statusRow' = NoStatus
    /\ UNCHANGED <<now, cycle, memory, health, rows, closedDaily, cutover, statusStored, outputs>>

CycleStep ==
    \/ BeginCycle \/ Seed \/ SeedFails \/ Disconnected \/ ReadFails
    \/ \E k \in Keys : AttributeKey(k)
    \/ Commit \/ WriteFails
    \/ \E k \in Keys : PublishClose(k)
    \/ FinishCycle

Next ==
    \/ Tick
    \/ CycleStep
    \/ \E values \in [Keys -> Values], status \in Statuses : ReadAll(values, status)
    \/ Restart
    \/ Crash
    \/ cleanupStatus

Spec == Init /\ [][Next]_vars

-----------------------------------------------------------------------------
\* Properties

\* writeDaily and closeDay (poller_store.go): a closed day is final.  Its
\* watermark never moves back and no later poll, restart or reseed changes
\* the row of a day at or before it.
ClosedDaysFinal ==
    [][\A k \in Keys : /\ closedDaily'[k] >= closedDaily[k]
                       /\ \A d \in Days : d <= closedDaily[k] => rows'[k][d] = rows[k][d]]_vars

\* ForceClose, Attribute and Seed (attribution.go): no row reaches storage
\* for a day its key has already closed, so the rejection in writeDaily
\* never costs the poller a value.
NoLateWrite ==
    pc = "persist" => \A k \in Keys : target[k] = NoDay \/ target[k] > closedDaily[k]

\* decreaseInWindow (attribution.go): one advance per window.  No day is
\* closed, and no key opens the next one, before the rollover window that
\* closes it has begun, whatever the counters do.
NoDayClosedEarly ==
    LET limit == Limit(now)
    IN  \A k \in Keys : closedDaily[k] < limit /\ openDay[k] <= limit

\* pendingCloses (cycle.go) and the missed closes of Seed: once a key is on a
\* new day, the close of the day before is either stored or still pending,
\* over failed transactions and restarts.  (A register without a watermark has
\* nothing to close; the cutover day may have been opened by a v2 row.)
CloseNeverLost ==
    seeded => \A k \in Keys :
        \/ closedDaily[k] = NoDay
        \/ openDay[k] = cutover
        \/ openDay[k] - 1 <= maxDay(closedDaily[k], pendingCloses[k])

\* WritePoll is one transaction: a stored row of a new day implies that the
\* day before it is closed.  seedKey relies on it to recognise, from either,
\* that a key has advanced.
RowImpliesClose ==
    \A k \in Keys, d \in Days :
        rows[k][d] # NoVal /\ d > cutover /\ closedDaily[k] # NoDay => closedDaily[k] >= d - 1

\* committed (cycle.go): PeriodClosed is published only for a day that the
\* database has closed for some key, so that the run it triggers sees it.
EventAfterCommit ==
    published # NoDay => \E k \in Keys : closedDaily[k] >= published

\* pollCycle (poller.go): a poll reports Healthy only when its transaction has
\* stored what it then shows: no close is left pending, and every value it
\* accepted is shown exactly as its row holds it.  (A value it discards leaves
\* the last accepted one on show, which may be that of a failed transaction.)
HealthyMeansStored ==
    [][pc = "publish" /\ pc' = "idle" /\ health' = "Healthy" =>
          \A k \in Keys : /\ pendingCloses'[k] = NoDay
                          /\ target[k] # NoDay => cache'[k] = rows'[k][target[k]]]_vars

\* statusChanges and committed (cycle.go): the poller compares a status with the
\* latest row, or with the latest one stored when retention has deleted it, also
\* after a failed transaction or a restart.  So none is stored twice while its
\* row exists, and after the commit the latest one stored is the one read.
StatusInStep ==
    /\ seeded => \/ lastStatus = statusRow
                 \/ lastStatus = statusStored /\ statusRow = NoStatus
    /\ pc = "publish" /\ online => statusStored = statusRead

\* WritePoll as everything computed from the daily rows sees it: the poller
\* implements the abstract ledger, with the calendar day of the clock.
Ledger == INSTANCE DailyLedger WITH today <- Date(now)

ImplementsLedger == Ledger!LedgerSpec

-----------------------------------------------------------------------------
\* The inductive invariant behind the safety properties.

\* The cycle: its instant lies in the past, and what it is about to write is
\* the comparison base of the key, under the key's open day.
CycleInv ==
    /\ cutover <= Date(now)
    /\ IF pc = "idle"
       THEN start = NoTime
       ELSE start \in Instants /\ start <= now /\ cutover <= Date(start)
    /\ pc \in {"persist", "publish"} => seeded
    /\ \A k \in Keys : target[k] # NoDay => /\ pc \in {"persist", "publish"}
                                            /\ target[k] = openDay[k]
                                            /\ reading[k] = base[k]
    /\ pc = "publish" => \A k \in Keys : /\ pendingCloses[k] <= closedDaily[k]
                                         /\ pendingCloses[k] # NoDay <=> k \in todo

\* Nothing is known before the seed.
MemoryInv ==
    /\ IF seeded
       THEN \A k \in Keys : openDay[k] \in Days
       ELSE lastStatus = NoStatus /\ \A k \in Keys : openDay[k] = NoDay /\ pendingCloses[k] = NoDay
    /\ health = "Healthy" => seeded

\* Closed days lie before the open day, and the open day within the limit.
DaysInv ==
    \A k \in Keys :
        /\ closedDaily[k] < Limit(now) /\ openDay[k] <= Limit(now)
        /\ pc # "idle" => closedDaily[k] < Limit(start) /\ openDay[k] <= Limit(start)
        /\ seeded => closedDaily[k] < openDay[k] /\ pendingCloses[k] < openDay[k]

\* A close of a register without a watermark is the day before its open day.
FirstCloseInv ==
    seeded => \A k \in Keys :
        closedDaily[k] = NoDay /\ pendingCloses[k] # NoDay => openDay[k] - 1 <= pendingCloses[k]

\* No row lies ahead of the open day, and none exceeds the base.
RowsInv ==
    \A k \in Keys :
        /\ base[k] <= lastDaily[k]
        /\ seeded => rows[k][openDay[k]] <= base[k]
        /\ \A d \in Days : rows[k][d] # NoVal => /\ d <= Limit(now)
                                                 /\ pc # "idle" => d <= Limit(start)
                                                 /\ seeded => d <= openDay[k]

\* What the transaction has stored of the values the poll accepted.
AcceptedStored ==
    \A k \in Keys : target[k] # NoDay => /\ lastDaily[k] = reading[k]
                                         /\ pc = "publish" => rows[k][target[k]] = reading[k]

\* The row, if there is one, is the latest one stored; a poll has read a status.
StatusInv ==
    /\ statusRow \in {statusStored, NoStatus}
    /\ online => statusRead # NoStatus

\* All of pollCycle's steps preserve this conjunction, which implies the safety
\* properties above: attribution, storage and events agree after every step.
IndInv ==
    /\ TypeOK
    /\ CycleInv
    /\ MemoryInv
    /\ DaysInv
    /\ FirstCloseInv
    /\ RowsInv
    /\ CloseNeverLost
    /\ RowImpliesClose
    /\ EventAfterCommit
    /\ AcceptedStored
    /\ StatusInv
    /\ StatusInStep

-----------------------------------------------------------------------------
\* Liveness

\* Every step of a cycle that keeps being possible is eventually taken: the
\* timer fires, the database does not fail every time, a poll succeeds or finds
\* Modbus disconnected instead of failing every time, and the process does not
\* die in every cycle before it has stored anything.
Fairness ==
    /\ SF_vars(BeginCycle)
    /\ SF_vars(Seed)
    /\ SF_vars(Disconnected \/ \E values \in [Keys -> Values], status \in Statuses :
                                  ReadAll(values, status))
    /\ SF_vars(\E k \in Keys : AttributeKey(k))
    /\ SF_vars(Commit)
    /\ WF_vars(\E k \in Keys : PublishClose(k))
    /\ WF_vars(FinishCycle)

FairSpec == Spec /\ Fairness

\* ForceClose and closeDisconnected: no outage stalls the watermarks.  Every
\* key that has one keeps catching up with the day before the expected day
\* (the day before the cutover day may stay open until the cutover day closes:
\* a v2 row of the cutover day makes seedKey skip its close).
WatermarksCatchUp ==
    \A k \in Keys : []<>(\/ closedDaily[k] = NoDay
                         \/ Expected(now) = cutover
                         \/ closedDaily[k] >= Expected(now) - 1)

=============================================================================
