----------------------------- MODULE PollStore ------------------------------
(***************************************************************************)
(* What one transaction of WritePoll (internal/storage/poller_store.go)    *)
(* does to the rows and the closed-day watermark of one daily register.    *)
(***************************************************************************)
EXTENDS Integers

NoDay == 0       \* the empty day key, before every day
NoVal == -1      \* no row

maxDay(a, b) == IF a > b THEN a ELSE b

\* writeDaily: a row of a closed day is rejected, while the rest of the poll is
\* committed; the row of an open day only grows.  row maps days to values, day
\* is NoDay when there is nothing to write.
WriteDaily(row, closed, day, value) ==
    IF day > closed /\ value > row[day] THEN [row EXCEPT ![day] = value] ELSE row

\* Faulty variants of CloseDay: the watermark is overwritten, or not stored.
CloseDayUnguarded(closed, day) == day
CloseDayLost(closed, day) == closed

\* closeDay, advance: a watermark never moves back.
CloseDay(closed, day) == maxDay(closed, day)

=============================================================================
