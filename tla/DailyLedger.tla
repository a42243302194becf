---------------------------- MODULE DailyLedger -----------------------------
(***************************************************************************)
(* What the poller and its storage promise to everything computed from the *)
(* daily rows: rows of open days only grow, no day is closed before it is  *)
(* today's, a closed day is final.  Poller implements this specification;  *)
(* Aggregator is built on it.                                              *)
(***************************************************************************)
EXTENDS PollStore

CONSTANTS Keys,     \* the daily registers
          Values,   \* what a row may hold
          Days      \* the day keys

ASSUME LedgerAssumption ==
    /\ Values \subseteq Nat
    /\ Days \subseteq Nat \ {NoDay}

VARIABLES today, rows, closedDaily,
          cutover   \* the day of the first start (v3_cutover_date)

ledger == <<today, rows, closedDaily, cutover>>

LedgerTypeOK ==
    /\ today \in Days
    /\ rows \in [Keys -> [Days -> Values \cup {NoVal}]]
    /\ closedDaily \in [Keys -> Days \cup {NoDay}]
    /\ cutover \in Days

\* The calendar day a new ledger starts on; rows of tomorrow do not exist.
LedgerInit ==
    /\ LedgerTypeOK
    /\ \A k \in Keys : /\ closedDaily[k] <= today
                       /\ \A d \in Days : d > today => rows[k][d] = NoVal

DayPasses ==
    /\ today' \in Days /\ today' > today
    /\ UNCHANGED <<rows, closedDaily, cutover>>

\* One poll: per key at most one row, of an open day no later than tomorrow and
\* no earlier than the day before the cutover, and at most one close, of a day no
\* later than today.
WritePoll(day, value, close) ==
    /\ \A k \in Keys : /\ day[k] = NoDay \/ cutover - 1 <= day[k]
                       /\ day[k] <= today + 1 /\ close[k] <= today
    /\ rows' = [k \in Keys |-> WriteDaily(rows[k], closedDaily[k], day[k], value[k])]
    /\ closedDaily' = [k \in Keys |-> CloseDay(closedDaily[k], close[k])]
    /\ UNCHANGED <<today, cutover>>

LedgerNext ==
    \/ DayPasses
    \/ \E day, close \in [Keys -> Days \cup {NoDay}], value \in [Keys -> Values \cup {NoVal}] :
          WritePoll(day, value, close)

LedgerSpec == LedgerInit /\ [][LedgerNext]_ledger

=============================================================================
