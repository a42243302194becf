---------------------------- MODULE PollerProofs ----------------------------
(***************************************************************************)
(* The rollover windows, for every rollover time, and the safety           *)
(* properties of Poller for every set of registers, values and instants,   *)
(* every rollover time and every crash: IndInv is inductive.  Then the two *)
(* properties of Metering, with MeteringInv next to IndInv: no row credits *)
(* a day with energy the inverter did not count in it, and a Healthy poll  *)
(* outside the windows leaves in the ledger what the inverter shows.       *)
(***************************************************************************)
EXTENDS Metering, TLAPS

-----------------------------------------------------------------------------
\* The rollover windows, for every rollover time.

\* The end of the window anchored on date d.
LOCAL EndOn(d) == DayMinutes * d + RollTime + HalfWidth

\* The calendar date of an instant brackets it.
LEMMA DateBounds ==
    ASSUME NEW t \in Int
    PROVE  /\ Date(t) \in Int
           /\ DayMinutes * Date(t) <= t
           /\ t < DayMinutes * Date(t) + DayMinutes
BY DEF Date, DayMinutes

\* LastEnded looks at four dates; they are enough: what it returns is the
\* only window that has ended and whose successor has not.
LEMMA LastEndedBracket ==
    ASSUME NEW t \in Int
    PROVE  \E d \in Int : /\ LastEnded(t) = windowOn(d)
                          /\ EndOn(d) <= t
                          /\ t < EndOn(d + 1)
<1>1. /\ Date(t) \in Int
      /\ DayMinutes * Date(t) <= t
      /\ t < DayMinutes * Date(t) + DayMinutes
  BY DateBounds
<1>2. \A d \in Int : windowOn(d).end = EndOn(d)
  BY RollTimeAssumption DEF windowOn, EndOn, DayMinutes, HalfWidth
<1>3. EndOn(Date(t) - 2) <= t /\ t < EndOn(Date(t) + 2)
  BY <1>1, RollTimeAssumption DEF EndOn, DayMinutes, HalfWidth
<1>4. CASE EndOn(Date(t) + 1) <= t
  <2> Date(t) + 1 \in Int
    BY <1>1
  <2> WITNESS Date(t) + 1 \in Int
  <2>1. LastEnded(t) = windowOn(Date(t) + 1)
    BY <1>1, <1>2, <1>4 DEF LastEnded
  <2> QED BY <1>1, <1>3, <1>4, <2>1 DEF EndOn, DayMinutes, HalfWidth
<1>5. CASE ~(EndOn(Date(t) + 1) <= t) /\ EndOn(Date(t)) <= t
  <2> Date(t) \in Int
    BY <1>1
  <2> WITNESS Date(t) \in Int
  <2>1. LastEnded(t) = windowOn(Date(t))
    BY <1>1, <1>2, <1>5 DEF LastEnded
  <2> QED BY <1>1, <1>5, <2>1, RollTimeAssumption DEF EndOn, DayMinutes, HalfWidth
<1>6. CASE ~(EndOn(Date(t)) <= t) /\ EndOn(Date(t) - 1) <= t
  <2> Date(t) - 1 \in Int
    BY <1>1
  <2> WITNESS Date(t) - 1 \in Int
  <2>1. ~(EndOn(Date(t) + 1) <= t)
    BY <1>1, <1>6, RollTimeAssumption DEF EndOn, DayMinutes, HalfWidth
  <2>2. LastEnded(t) = windowOn(Date(t) - 1)
    BY <1>1, <1>2, <1>6, <2>1 DEF LastEnded
  <2> QED BY <1>1, <1>6, <2>2, RollTimeAssumption DEF EndOn, DayMinutes, HalfWidth
<1>7. CASE ~(EndOn(Date(t)) <= t) /\ ~(EndOn(Date(t) - 1) <= t)
  <2> Date(t) - 2 \in Int
    BY <1>1
  <2> WITNESS Date(t) - 2 \in Int
  <2>1. ~(EndOn(Date(t) + 1) <= t)
    BY <1>1, <1>7, RollTimeAssumption DEF EndOn, DayMinutes, HalfWidth
  <2>2. LastEnded(t) = windowOn(Date(t) - 2)
    BY <1>1, <1>2, <1>7, <2>1 DEF LastEnded
  <2> QED BY <1>1, <1>3, <1>7, <2>2, RollTimeAssumption DEF EndOn, DayMinutes, HalfWidth
<1> QED BY <1>4, <1>5, <1>6, <1>7

\* The window WindowAt returns contains the instant whenever one does.
LEMMA WindowAtContains ==
    ASSUME NEW t \in Int, InWindow(t)
    PROVE  \E d \in Int : /\ WindowAt(t) = windowOn(d)
                          /\ EndOn(d) - 2 * HalfWidth <= t
                          /\ t < EndOn(d)
<1>1. Date(t) \in Int
  BY DateBounds
<1>2. ASSUME NEW d \in Int
      PROVE  Contains(windowOn(d), t) <=> EndOn(d) - 2 * HalfWidth <= t /\ t < EndOn(d)
  BY RollTimeAssumption DEF Contains, windowOn, EndOn, DayMinutes, HalfWidth
<1>3. \/ Contains(windowOn(Date(t) - 1), t)
      \/ Contains(windowOn(Date(t)), t)
      \/ Contains(windowOn(Date(t) + 1), t)
  <2>1. PICK off \in {-1, 0, 1} : Contains(windowOn(Date(t) + off), t)
    BY DEF InWindow
  <2>2. Date(t) + (-1) = Date(t) - 1 /\ Date(t) + 0 = Date(t)
    BY <1>1
  <2> QED BY <2>1, <2>2
<1>4. \E d \in Int : WindowAt(t) = windowOn(d) /\ Contains(windowOn(d), t)
  BY <1>1, <1>3 DEF WindowAt
<1> QED BY <1>2, <1>4

\* Dates and the days their windows open and close.
LEMMA WindowDays ==
    ASSUME NEW d \in Int
    PROVE  /\ windowOn(d).opening = Opening(d)
           /\ windowOn(d).closing = Opening(d) - 1
           /\ Opening(d) \in Int
           /\ Opening(d + 1) = Opening(d) + 1
BY RollTimeAssumption DEF windowOn, Opening, Noon, DayMinutes

\* An instant in the two hours before a window's end lies in that window as
\* InWindow sees it: the three dates it looks at are enough.
LEMMA InWindowComplete ==
    ASSUME NEW t \in Int, NEW d \in Int,
           EndOn(d) - 2 * HalfWidth <= t, t < EndOn(d)
    PROVE  InWindow(t)
<1>1. /\ Date(t) \in Int
      /\ DayMinutes * Date(t) <= t
      /\ t < DayMinutes * Date(t) + DayMinutes
  BY DateBounds
<1>2. d - Date(t) \in {-1, 0, 1}
  BY <1>1, RollTimeAssumption DEF EndOn, DayMinutes, HalfWidth
<1>3. Contains(windowOn(d), t)
  BY RollTimeAssumption DEF Contains, windowOn, EndOn, DayMinutes, HalfWidth
<1>4. Date(t) + (d - Date(t)) = d
  BY <1>1
<1> QED BY <1>2, <1>3, <1>4 DEF InWindow

\* Where the expected day and the furthest day lie relative to each other and
\* to the calendar: inside a window the expected day is the closing day and
\* the furthest one the opening day after it; neither runs more than a day
\* ahead of the calendar or behind it.
THEOREM RolloverDays ==
    ASSUME NEW t \in Int
    PROVE  /\ Date(t) \in Int /\ Expected(t) \in Int /\ Limit(t) \in Int
           /\ InWindow(t) => /\ WindowAt(t).closing = Expected(t)
                             /\ WindowAt(t).opening = Expected(t) + 1
                             /\ Limit(t) = Expected(t) + 1
                             /\ Date(t) <= Expected(t) + 1
           /\ ~InWindow(t) => Limit(t) = Expected(t)
           /\ Date(t) - 1 <= Expected(t)
           /\ Limit(t) <= Date(t) + 1
<1>1. /\ Date(t) \in Int
      /\ DayMinutes * Date(t) <= t
      /\ t < DayMinutes * Date(t) + DayMinutes
  BY DateBounds
<1>2. PICK d \in Int : LastEnded(t) = windowOn(d) /\ EndOn(d) <= t /\ t < EndOn(d + 1)
  BY LastEndedBracket
<1>3. Expected(t) = Opening(d) /\ Expected(t) \in Int
  BY <1>2, WindowDays DEF Expected
<1>4. Date(t) - 1 <= Expected(t) /\ Expected(t) <= Date(t) + 1
  BY <1>1, <1>2, <1>3, RollTimeAssumption DEF Opening, Noon, EndOn, DayMinutes, HalfWidth
<1>5. ASSUME InWindow(t)
      PROVE  /\ WindowAt(t).closing = Expected(t)
             /\ WindowAt(t).opening = Expected(t) + 1
             /\ Date(t) <= Expected(t) + 1
             /\ Expected(t) <= Date(t)
  <2>1. PICK e \in Int : /\ WindowAt(t) = windowOn(e)
                         /\ EndOn(e) - 2 * HalfWidth <= t
                         /\ t < EndOn(e)
    BY <1>5, WindowAtContains
  <2>2. e = d + 1
    BY <1>2, <2>1, RollTimeAssumption DEF EndOn, DayMinutes, HalfWidth
  <2>3. Opening(e) = Opening(d) + 1
    BY <2>2, WindowDays
  <2>4. Opening(e) <= Date(t) + 1
    BY <1>1, <2>1, RollTimeAssumption DEF Opening, Noon, EndOn, DayMinutes, HalfWidth
  <2> QED BY <1>1, <1>3, <1>4, <2>1, <2>3, <2>4, WindowDays
<1> QED BY <1>1, <1>3, <1>4, <1>5 DEF Limit

\* Neither the calendar day, nor the expected day, nor the furthest day moves
\* back as time passes.
THEOREM RolloverMonotone ==
    ASSUME NEW t \in Int, NEW u \in Int, t <= u
    PROVE  /\ Date(t) <= Date(u)
           /\ Expected(t) <= Expected(u)
           /\ Limit(t) <= Limit(u)
<1>1. Date(t) <= Date(u)
  BY DateBounds DEF DayMinutes
<1>2. PICK d \in Int : LastEnded(t) = windowOn(d) /\ EndOn(d) <= t /\ t < EndOn(d + 1)
  BY LastEndedBracket
<1>3. PICK e \in Int : LastEnded(u) = windowOn(e) /\ EndOn(e) <= u /\ u < EndOn(e + 1)
  BY LastEndedBracket
<1>4. d <= e
  BY <1>2, <1>3, RollTimeAssumption DEF EndOn, DayMinutes, HalfWidth
<1>5. Expected(t) = Opening(d) /\ Expected(u) = Opening(e)
  BY <1>2, <1>3, WindowDays DEF Expected
<1>6. Expected(t) <= Expected(u) /\ (d # e => Expected(t) + 1 <= Expected(u))
  BY <1>4, <1>5, RollTimeAssumption DEF Opening, Noon, DayMinutes
<1>7. InWindow(t) /\ d = e => InWindow(u)
  <2>1. SUFFICES ASSUME InWindow(t), d = e PROVE InWindow(u)
    OBVIOUS
  <2>2. PICK w \in Int : /\ WindowAt(t) = windowOn(w)
                         /\ EndOn(w) - 2 * HalfWidth <= t
                         /\ t < EndOn(w)
    BY <2>1, WindowAtContains
  <2>3. w = d + 1
    BY <1>2, <2>2, RollTimeAssumption DEF EndOn, DayMinutes, HalfWidth
  <2>4. EndOn(w) - 2 * HalfWidth <= u /\ u < EndOn(w)
    BY <1>3, <2>1, <2>2, <2>3, RollTimeAssumption DEF EndOn, DayMinutes, HalfWidth
  <2> QED BY <2>4, InWindowComplete
<1>8. /\ Expected(t) \in Int /\ Expected(u) \in Int
      /\ Limit(t) = IF InWindow(t) THEN Expected(t) + 1 ELSE Expected(t)
      /\ Limit(u) = IF InWindow(u) THEN Expected(u) + 1 ELSE Expected(u)
  BY RolloverDays
<1>9. Limit(t) <= Limit(u)
  <2>1. CASE d = e
    BY <1>6, <1>7, <1>8, <2>1
  <2>2. CASE d # e
    BY <1>6, <1>8, <2>2
  <2> QED BY <2>1, <2>2
<1> QED BY <1>1, <1>6, <1>9

-----------------------------------------------------------------------------
\* The poller.

\* The rollover days of an instant the clock is observed at.
LEMMA InstantDays ==
    ASSUME NEW t \in Instants
    PROVE  /\ t \in Nat
           /\ Date(t) \in Nat
           /\ Expected(t) \in Days /\ Expected(t) - 1 \in Days /\ Limit(t) \in Days
           /\ Expected(t) \in Nat \ {0} /\ Expected(t) - 1 \in Nat \ {0} /\ Limit(t) \in Nat \ {0}
           /\ Expected(t) <= Limit(t)
           /\ InWindow(t) => /\ WindowAt(t).closing = Expected(t)
                             /\ WindowAt(t).opening = Expected(t) + 1
                             /\ Limit(t) = Expected(t) + 1
                             /\ Date(t) <= Expected(t) + 1
           /\ ~InWindow(t) => Limit(t) = Expected(t)
           /\ Date(t) - 1 <= Expected(t)
           /\ Limit(t) <= Date(t) + 1
<1>1. /\ t \in Nat
      /\ {Date(t) - 2, Date(t), Expected(t) - 1, Expected(t), Expected(t) + 1} \subseteq Days
      /\ Days \subseteq Nat \ {0}
  BY PollerAssumption DEF NoDay
<1>2. t \in Int
  BY <1>1
<1> QED BY <1>1, <1>2, RolloverDays

\* Day keys and values are numbers: NoDay and NoVal are below all others.
LEMMA Numbers ==
    /\ \A d \in Days : d \in Nat /\ d > 0
    /\ \A v \in Values \cup {NoVal} : v \in Int /\ v >= NoVal
    /\ \A t \in Instants : t \in Nat
BY PollerAssumption DEF NoDay, NoVal

\* The initial states satisfy the invariant.
LEMMA InitInv == Init => IndInv
<1> SUFFICES ASSUME Init PROVE IndInv
  OBVIOUS
<1> USE DEF NoDay, NoVal, NoTime
<1>1. now \in Instants /\ cutover = Date(now) /\ cutover \in Nat
  BY PollerAssumption, InstantDays DEF Init
<1>2. cutover - 2 \in Days /\ cutover - 2 \in Nat \ {0} /\ cutover - 2 < Limit(now)
  <2>1. cutover - 2 \in Days
    BY <1>1, PollerAssumption
  <2> QED BY <1>1, <2>1, InstantDays, PollerAssumption
<1>3. \A k \in Keys : closedDaily[k] \in {cutover - 2, NoDay}
  BY DEF Init
<1>4. closedDaily \in [Keys -> Days \cup {NoDay}]
  BY <1>2 DEF Init
<1>5. rows \in [Keys -> [Days -> Values \cup {NoVal}]]
  <2>1. PICK old \in [Keys -> Legacy \X Legacy] :
           rows = [k \in Keys |-> [d \in Days |-> IF d = cutover - 1 THEN old[k][1]
                                                ELSE IF d = cutover /\ d <= Limit(now) THEN old[k][2]
                                                ELSE NoVal]]
    BY DEF Init
  <2>2. \A k \in Keys : old[k][1] \in Values \cup {NoVal} /\ old[k][2] \in Values \cup {NoVal}
    BY PollerAssumption
  <2> QED BY <2>1, <2>2
<1>6. \A k \in Keys, d \in Days : rows[k][d] # NoVal => d <= cutover /\ d <= Limit(now)
  BY <1>1, InstantDays DEF Init
<1>7. TypeOK
  BY <1>1, <1>4, <1>5, PollerAssumption DEF TypeOK, Init, NoCycle, FreshMemory
<1>8. CycleInv /\ MemoryInv /\ FirstCloseInv /\ CloseNeverLost
  BY <1>1, InstantDays DEF Init, NoCycle, FreshMemory, CycleInv, MemoryInv, FirstCloseInv, CloseNeverLost
<1>9. DaysInv
  <2>1. pc = "idle" /\ seeded = FALSE /\ \A k \in Keys : openDay[k] = NoDay
    BY DEF Init, NoCycle, FreshMemory
  <2>2. Limit(now) \in Nat \ {0}
    BY <1>1, InstantDays
  <2> QED BY <1>2, <1>3, <2>1, <2>2 DEF DaysInv
<1>10. RowsInv /\ RowImpliesClose
  BY <1>1, <1>6, InstantDays, PollerAssumption DEF Init, NoCycle, FreshMemory, RowsInv, RowImpliesClose
<1>11. EventAfterCommit /\ AcceptedStored /\ StatusInv /\ StatusInStep
  BY DEF Init, NoCycle, FreshMemory, EventAfterCommit, AcceptedStored, StatusInv, StatusInStep
<1> QED BY <1>7, <1>8, <1>9, <1>10, <1>11 DEF IndInv

\* Time passes: what lies within the limit stays within it.
LEMMA TickInv == IndInv /\ Tick => IndInv'
<1> SUFFICES ASSUME IndInv, Tick PROVE IndInv'
  OBVIOUS
<1> USE DEF IndInv, cycle, memory, db, outputs
<1>1. now' \in Instants /\ now \in Instants /\ now < now'
  BY DEF Tick, TypeOK
<1>2. Date(now) <= Date(now') /\ Limit(now) <= Limit(now')
  BY <1>1, InstantDays, RolloverMonotone
<1>3. TypeOK'
  BY <1>1 DEF Tick, TypeOK
<1>4. CycleInv'
  BY <1>1, <1>2, InstantDays, PollerAssumption DEF Tick, CycleInv, TypeOK
<1>5. DaysInv' 
  <2>1. /\ Limit(now) \in Nat /\ Limit(now') \in Nat
        /\ \A k \in Keys : closedDaily[k] \in Nat /\ openDay[k] \in Nat
    BY <1>1, InstantDays, Numbers DEF TypeOK, NoDay
  <2> QED BY <1>2, <2>1 DEF Tick, DaysInv
<1>6. RowsInv'
  BY <1>1, <1>2, InstantDays, PollerAssumption DEF Tick, RowsInv, TypeOK
<1>7. (/\ MemoryInv /\ FirstCloseInv /\ CloseNeverLost /\ RowImpliesClose /\ EventAfterCommit
       /\ AcceptedStored /\ StatusInv /\ StatusInStep)'
  BY DEF Tick, MemoryInv, FirstCloseInv, CloseNeverLost, RowImpliesClose, EventAfterCommit,
         AcceptedStored, StatusInv, StatusInStep
<1> QED BY <1>3, <1>4, <1>5, <1>6, <1>7

\* A cycle starts: it captures the present.
LEMMA BeginCycleInv == IndInv /\ BeginCycle => IndInv'
<1> SUFFICES ASSUME IndInv, BeginCycle PROVE IndInv'
  OBVIOUS
<1> USE DEF IndInv, memory, db, outputs, BeginCycle
<1>1. TypeOK' /\ CycleInv'
  BY PollerAssumption DEF TypeOK, CycleInv
<1>2. DaysInv' /\ RowsInv'
  BY DEF DaysInv, RowsInv
<1>3. (/\ MemoryInv /\ FirstCloseInv /\ CloseNeverLost /\ RowImpliesClose /\ EventAfterCommit
       /\ AcceptedStored /\ StatusInv /\ StatusInStep)'
  BY DEF MemoryInv, FirstCloseInv, CloseNeverLost, RowImpliesClose, EventAfterCommit,
         AcceptedStored, StatusInv, StatusInStep
<1> QED BY <1>1, <1>2, <1>3

\* A cycle that ends without success: only its own state is lost.
LEMMA EndCycleInv ==
    ASSUME IndInv, EndCycle("Recovering"), UNCHANGED <<memory, db, outputs>>
    PROVE  IndInv'
<1> USE DEF IndInv, EndCycle, ResetCycle, memory, db, outputs
<1>1. TypeOK' /\ CycleInv'
  BY DEF TypeOK, CycleInv, NoTime
<1>2. DaysInv' /\ RowsInv'
  BY DEF DaysInv, RowsInv
<1>3. (/\ MemoryInv /\ FirstCloseInv /\ CloseNeverLost /\ RowImpliesClose /\ EventAfterCommit
       /\ AcceptedStored /\ StatusInv /\ StatusInStep)'
  BY DEF MemoryInv, FirstCloseInv, CloseNeverLost, RowImpliesClose, EventAfterCommit,
         AcceptedStored, StatusInv, StatusInStep
<1> QED BY <1>1, <1>2, <1>3

\* The types a key's state has, as numbers.
LEMMA KeyNumbers ==
    ASSUME IndInv, NEW k \in Keys
    PROVE  /\ openDay[k] \in Nat /\ pendingCloses[k] \in Nat /\ closedDaily[k] \in Nat
           /\ target[k] \in Nat
           /\ openDay[k] \in Days \cup {NoDay} /\ pendingCloses[k] \in Days \cup {NoDay}
           /\ base[k] \in Values \cup {NoVal} /\ base[k] \in Int /\ base[k] >= NoVal
           /\ reading[k] \in Values \cup {NoVal} /\ reading[k] \in Int /\ reading[k] >= NoVal
           /\ lastDaily[k] \in Int /\ cutover \in Nat
           /\ \A d \in Days : /\ d \in Nat /\ d > 0
                              /\ rows[k][d] \in Values \cup {NoVal}
                              /\ rows[k][d] \in Int /\ rows[k][d] >= NoVal
BY Numbers DEF IndInv, TypeOK, NoDay

\* What holds of the instant a running cycle captured.
LEMMA StartDays ==
    ASSUME IndInv, pc # "idle"
    PROVE  /\ start \in Instants /\ now \in Instants
           /\ Limit(start) <= Limit(now) /\ Limit(start) \in Nat /\ Limit(now) \in Nat
           /\ cutover <= Date(start)
<1>1. start \in Instants /\ start <= now /\ now \in Instants /\ cutover <= Date(start)
  BY DEF IndInv, CycleInv, TypeOK
<1>2. start \in Int /\ now \in Int
  BY <1>1, Numbers
<1>3. Limit(start) <= Limit(now)
  BY <1>1, <1>2, RolloverMonotone
<1> QED BY <1>1, <1>3, InstantDays

\* Seed: the day a key is placed on from its rows and its watermark.
LEMMA SeedKey ==
    ASSUME IndInv, pc = "begin", ~seeded, NEW k \in Keys
    PROVE  /\ SeedDay(k) \in Days
           /\ closedDaily[k] < SeedDay(k)
           /\ SeedDay(k) <= Limit(start) /\ SeedDay(k) <= Limit(now)
           /\ Expected(start) - 1 < SeedDay(k)
           /\ \A d \in Days : rows[k][d] # NoVal => d <= SeedDay(k)
           /\ \/ closedDaily[k] = NoDay
              \/ SeedDay(k) = cutover
              \/ SeedDay(k) - 1 <= closedDaily[k]
              \/ SeedDay(k) = Expected(start) /\ MissedClose(k)
<1> USE DEF NoDay
<1>1. /\ start \in Instants /\ Limit(start) <= Limit(now)
      /\ Limit(start) \in Nat /\ Limit(now) \in Nat /\ cutover <= Date(start)
  BY StartDays
<1>2. /\ closedDaily[k] \in Nat /\ closedDaily[k] < Limit(start) /\ cutover \in Nat
      /\ \A d \in Days : d \in Nat /\ (rows[k][d] # NoVal => d <= Limit(start))
  BY KeyNumbers DEF IndInv, DaysInv, RowsInv
<1>3. CASE HasAdvanced(k)
  <2>1. /\ InWindow(start)
        /\ rows[k][WindowAt(start).opening] # NoVal \/ closedDaily[k] >= Expected(start)
    BY <1>3 DEF HasAdvanced
  <2>2. /\ SeedDay(k) = Limit(start) /\ Limit(start) = Expected(start) + 1
        /\ SeedDay(k) = WindowAt(start).opening
        /\ Limit(start) \in Days /\ Expected(start) \in Nat
        /\ Date(start) <= Limit(start) /\ Date(start) \in Nat
    BY <1>1, <1>3, <2>1, InstantDays DEF SeedDay
  <2>3. rows[k][SeedDay(k)] # NoVal /\ SeedDay(k) > cutover /\ closedDaily[k] # NoDay
          => closedDaily[k] >= SeedDay(k) - 1
    BY <2>2 DEF IndInv, RowImpliesClose
  <2> QED BY <1>1, <1>2, <2>1, <2>2, <2>3
<1>4. CASE ~HasAdvanced(k)
  <2>1. /\ SeedDay(k) = Expected(start) /\ Expected(start) \in Days /\ Expected(start) \in Nat
        /\ Expected(start) <= Limit(start)
    BY <1>1, <1>4, InstantDays DEF SeedDay
  <2>2. closedDaily[k] < SeedDay(k) /\ \A d \in Days : rows[k][d] # NoVal => d <= SeedDay(k)
    <3>1. CASE InWindow(start)
      <4>1. /\ WindowAt(start).opening = Limit(start) /\ Limit(start) = Expected(start) + 1
            /\ Limit(start) \in Days
        BY <1>1, <3>1, InstantDays
      <4>2. rows[k][Limit(start)] = NoVal /\ ~(closedDaily[k] >= Expected(start))
        BY <1>4, <3>1, <4>1 DEF HasAdvanced
      <4> QED BY <1>2, <2>1, <4>1, <4>2
    <3>2. CASE ~InWindow(start)
      BY <1>1, <1>2, <2>1, <3>2, InstantDays
    <3> QED BY <3>1, <3>2
  <2>3. closedDaily[k] = NoDay \/ SeedDay(k) - 1 <= closedDaily[k] \/ MissedClose(k)
    BY <1>2, <2>1 DEF MissedClose
  <2> QED BY <1>1, <1>2, <2>1, <2>2, <2>3
<1> QED BY <1>3, <1>4

\* Seed: every key is placed on a day its rows and watermark allow.
LEMMA SeedInv == IndInv /\ Seed => IndInv'
<1> SUFFICES ASSUME IndInv, Seed PROVE IndInv'
  OBVIOUS
<1> USE DEF NoDay
<1>1. /\ pc = "begin" /\ ~seeded /\ pc' = "begin" /\ seeded'
      /\ UNCHANGED <<now, cycle, emitted, health, db, outputs>>
      /\ UNCHANGED <<start, online, reading, statusRead, target, todo, rows, closedDaily,
                     statusRow, statusStored, cutover, cache, published>>
  BY DEF Seed, cycle, db, outputs
<1>2. /\ Expected(start) \in Nat /\ Expected(start) - 1 \in Days /\ Expected(start) - 1 > 0
      /\ Limit(start) \in Nat /\ Limit(now) \in Nat
      /\ InWindow(start) => WindowAt(start).opening \in Days
  <2>1. start \in Instants /\ now \in Instants
    BY <1>1, StartDays
  <2> QED BY <2>1, InstantDays
<1>3. ASSUME NEW k \in Keys
      PROVE  /\ openDay'[k] = SeedDay(k) /\ base'[k] = rows[k][SeedDay(k)]
             /\ lastDaily'[k] = rows[k][SeedDay(k)]
             /\ pendingCloses'[k] = IF MissedClose(k) THEN Expected(start) - 1 ELSE NoDay
  <2>1. pendingCloses[k] = NoDay
    BY <1>1 DEF IndInv, MemoryInv
  <2> QED BY <1>2, <2>1 DEF Seed, maxDay
<1>4. TypeOK'
  <2>1. /\ openDay' \in [Keys -> Days \cup {NoDay}] /\ base' \in [Keys -> Values \cup {NoVal}]
        /\ lastDaily' \in [Keys -> Values \cup {NoVal}]
    BY <1>1, SeedKey, KeyNumbers DEF Seed
  <2>2. pendingCloses' \in [Keys -> Days \cup {NoDay}]
    BY <1>2, <1>3 DEF Seed
  <2>3. confirmed' \in Days \cup {NoDay}
    BY <1>2 DEF Seed, HasAdvanced, IndInv, TypeOK
  <2>4. lastStatus' \in Statuses \cup {NoStatus}
    BY DEF Seed, IndInv, TypeOK
  <2> QED BY <1>1, <2>1, <2>2, <2>3, <2>4 DEF IndInv, TypeOK, cycle, memory, db, outputs
<1>5. CycleInv'
  BY <1>1 DEF IndInv, CycleInv
<1>6. MemoryInv'
  BY <1>1, <1>3, SeedKey DEF MemoryInv
<1>7. DaysInv'
  <2> SUFFICES ASSUME NEW k \in Keys
               PROVE  /\ closedDaily[k] < Limit(now) /\ openDay'[k] <= Limit(now)
                      /\ closedDaily[k] < Limit(start) /\ openDay'[k] <= Limit(start)
                      /\ closedDaily[k] < openDay'[k] /\ pendingCloses'[k] < openDay'[k]
    BY <1>1 DEF DaysInv
  <2> QED BY <1>1, <1>2, <1>3, SeedKey, Numbers DEF IndInv, DaysInv
<1>8. FirstCloseInv'
  BY <1>1, <1>3 DEF FirstCloseInv, MissedClose
<1>9. RowsInv'
  <2> SUFFICES ASSUME NEW k \in Keys
               PROVE  /\ base'[k] <= lastDaily'[k] /\ rows[k][openDay'[k]] <= base'[k]
                      /\ \A d \in Days : rows[k][d] # NoVal => d <= openDay'[k]
    BY <1>1 DEF IndInv, RowsInv
  <2> QED BY <1>1, <1>3, SeedKey, KeyNumbers
<1>10. CloseNeverLost'
  <2> SUFFICES ASSUME NEW k \in Keys
               PROVE  \/ closedDaily[k] = NoDay
                      \/ openDay'[k] = cutover
                      \/ openDay'[k] - 1 <= maxDay(closedDaily[k], pendingCloses'[k])
    BY <1>1 DEF CloseNeverLost
  <2>1. closedDaily[k] \in Nat /\ SeedDay(k) \in Nat
    BY <1>1, KeyNumbers, SeedKey
  <2> QED BY <1>1, <1>2, <1>3, <2>1, SeedKey DEF maxDay
<1>11. (RowImpliesClose /\ EventAfterCommit /\ AcceptedStored)'
  BY <1>1 DEF IndInv, CycleInv, RowImpliesClose, EventAfterCommit, AcceptedStored
<1>12. (StatusInv /\ StatusInStep)'
  BY <1>1 DEF Seed, IndInv, MemoryInv, StatusInv, StatusInStep
<1> QED BY <1>4, <1>5, <1>6, <1>7, <1>8, <1>9, <1>10, <1>11, <1>12 DEF IndInv

\* ForceClose: a key that is behind moves to the expected day, for which
\* there is no row yet, and the day before it is closed.
LEMMA ForceCloseKey ==
    ASSUME IndInv, pc = "begin", seeded, ForceClose, NEW k \in Keys
    PROVE  /\ openDay'[k] \in Days /\ pendingCloses'[k] \in Days \cup {NoDay}
           /\ base'[k] \in Values \cup {NoVal}
           /\ openDay'[k] <= Limit(start) /\ openDay'[k] <= Limit(now)
           /\ closedDaily[k] < openDay'[k] /\ pendingCloses'[k] < openDay'[k]
           /\ base'[k] <= lastDaily[k] /\ rows[k][openDay'[k]] <= base'[k]
           /\ \A d \in Days : rows[k][d] # NoVal => d <= openDay'[k]
           /\ \/ closedDaily[k] = NoDay
              \/ openDay'[k] = cutover
              \/ openDay'[k] - 1 <= maxDay(closedDaily[k], pendingCloses'[k])
           /\ closedDaily[k] = NoDay /\ pendingCloses'[k] # NoDay
                => openDay'[k] - 1 <= pendingCloses'[k]
<1> USE DEF NoDay, NoVal, maxDay
<1>1. /\ Expected(start) \in Days /\ Expected(start) - 1 \in Days
      /\ Expected(start) \in Nat /\ Expected(start) - 1 > 0
      /\ Expected(start) <= Limit(start) /\ Limit(start) \in Nat
      /\ Limit(start) <= Limit(now) /\ Limit(now) \in Nat
  <2>1. start \in Instants /\ Limit(start) <= Limit(now) /\ Limit(now) \in Nat
    BY StartDays
  <2> QED BY <2>1, InstantDays
<1>2. /\ openDay[k] \in Days /\ openDay[k] \in Nat /\ closedDaily[k] \in Nat
      /\ pendingCloses[k] \in Nat /\ pendingCloses[k] \in Days \cup {NoDay}
      /\ base[k] \in Values \cup {NoVal} /\ base[k] \in Int /\ base[k] >= NoVal
      /\ lastDaily[k] \in Int
      /\ \A d \in Days : d \in Nat /\ rows[k][d] \in Int
  BY KeyNumbers DEF IndInv, MemoryInv
<1>3. /\ openDay[k] <= Limit(start) /\ closedDaily[k] < openDay[k] /\ pendingCloses[k] < openDay[k]
      /\ base[k] <= lastDaily[k] /\ rows[k][openDay[k]] <= base[k]
      /\ \A d \in Days : rows[k][d] # NoVal => d <= openDay[k]
  BY DEF IndInv, DaysInv, RowsInv
<1>4. /\ \/ closedDaily[k] = NoDay
         \/ openDay[k] = cutover
         \/ openDay[k] - 1 <= maxDay(closedDaily[k], pendingCloses[k])
      /\ closedDaily[k] = NoDay /\ pendingCloses[k] # NoDay => openDay[k] - 1 <= pendingCloses[k]
  BY DEF IndInv, CloseNeverLost, FirstCloseInv
<1>5. CASE Behind(k)
  <2>1. openDay[k] < Expected(start)
    BY <1>5 DEF Behind
  <2>2. /\ openDay'[k] = Expected(start) /\ base'[k] = NoVal
        /\ pendingCloses'[k] = Expected(start) - 1
    BY <1>1, <1>2, <1>3, <1>5, <2>1 DEF ForceClose
  <2>3. rows[k][Expected(start)] = NoVal
    BY <1>1, <1>2, <1>3, <2>1
  <2> QED BY <1>1, <1>2, <1>3, <2>1, <2>2, <2>3
<1>6. CASE ~Behind(k)
  <2>1. openDay'[k] = openDay[k] /\ base'[k] = base[k] /\ pendingCloses'[k] = pendingCloses[k]
    BY <1>6 DEF ForceClose
  <2> QED BY <1>1, <1>2, <1>3, <1>4, <2>1
<1> QED BY <1>5, <1>6

\* The part of the invariant a force-closing step disturbs.
LEMMA ForceCloseInv ==
    ASSUME IndInv, pc = "begin", seeded, ForceClose, seeded',
           UNCHANGED <<now, confirmed, lastDaily, emitted, lastStatus, db, outputs>>,
           pc' \in {"idle", "persist"}, health' = "Healthy" => pc' = "persist"
    PROVE  /\ openDay' \in [Keys -> Days \cup {NoDay}] /\ base' \in [Keys -> Values \cup {NoVal}]
           /\ pendingCloses' \in [Keys -> Days \cup {NoDay}]
           /\ (MemoryInv /\ FirstCloseInv /\ CloseNeverLost /\ RowImpliesClose /\ EventAfterCommit)'
           /\ StatusInStep'
           /\ \A k \in Keys : target[k] = NoDay
<1> USE DEF NoDay, db, outputs
<1>1. openDay' \in [Keys -> Days \cup {NoDay}] /\ base' \in [Keys -> Values \cup {NoVal}]
  BY ForceCloseKey DEF ForceClose
<1>2. pendingCloses' \in [Keys -> Days \cup {NoDay}]
  BY ForceCloseKey DEF ForceClose
<1>3. (MemoryInv /\ FirstCloseInv /\ CloseNeverLost)'
  BY ForceCloseKey DEF MemoryInv, FirstCloseInv, CloseNeverLost
<1>4. (RowImpliesClose /\ EventAfterCommit /\ StatusInStep)'
  BY DEF IndInv, RowImpliesClose, EventAfterCommit, StatusInStep
<1>5. \A k \in Keys : target[k] = NoDay
  BY DEF IndInv, CycleInv
<1> QED BY <1>1, <1>2, <1>3, <1>4, <1>5

\* The disconnected path: forced closes only, nothing is read.
LEMMA DisconnectedInv == IndInv /\ Disconnected => IndInv'
<1> SUFFICES ASSUME IndInv, Disconnected PROVE IndInv'
  OBVIOUS
<1> USE DEF NoDay
<1>1. /\ pc = "begin" /\ seeded /\ seeded' /\ ForceClose
      /\ UNCHANGED <<now, confirmed, lastDaily, emitted, lastStatus, db, outputs>>
  BY DEF Disconnected, EndCycle
<1>2. \/ pc' = "persist" /\ UNCHANGED <<start, online, reading, statusRead, target, todo, health>>
      \/ EndCycle("Recovering")
  BY DEF Disconnected
<1>3. /\ openDay' \in [Keys -> Days \cup {NoDay}] /\ base' \in [Keys -> Values \cup {NoVal}]
      /\ pendingCloses' \in [Keys -> Days \cup {NoDay}]
      /\ (MemoryInv /\ FirstCloseInv /\ CloseNeverLost /\ RowImpliesClose /\ EventAfterCommit)'
      /\ StatusInStep'
      /\ \A k \in Keys : target[k] = NoDay
  BY <1>1, <1>2, ForceCloseInv DEF EndCycle, ResetCycle
<1>4. TypeOK' /\ CycleInv'
  BY <1>1, <1>2, <1>3 DEF IndInv, TypeOK, CycleInv, EndCycle, ResetCycle, db, outputs
<1>5. DaysInv' /\ RowsInv'
  BY <1>1, <1>2, ForceCloseKey DEF IndInv, DaysInv, RowsInv, EndCycle, ResetCycle, db
<1>6. (AcceptedStored /\ StatusInv)'
  BY <1>1, <1>2, <1>3 DEF IndInv, AcceptedStored, StatusInv, EndCycle, ResetCycle, db
<1> QED BY <1>3, <1>4, <1>5, <1>6 DEF IndInv

\* A complete poll: forced closes, then values without a day yet.
LEMMA ReadAllInv ==
    ASSUME IndInv, NEW values \in [Keys -> Values], NEW status \in Statuses, ReadAll(values, status)
    PROVE  IndInv'
<1> USE DEF NoDay
<1>1. /\ pc = "begin" /\ seeded /\ seeded' /\ ForceClose /\ pc' = "persist"
      /\ UNCHANGED <<now, start, target, confirmed, lastDaily, emitted, lastStatus, db, outputs>>
      /\ online' = TRUE /\ reading' = values /\ statusRead' = status /\ todo' = Keys
      /\ UNCHANGED health
  BY DEF ReadAll
<1>2. /\ openDay' \in [Keys -> Days \cup {NoDay}] /\ base' \in [Keys -> Values \cup {NoVal}]
      /\ pendingCloses' \in [Keys -> Days \cup {NoDay}]
      /\ (MemoryInv /\ FirstCloseInv /\ CloseNeverLost /\ RowImpliesClose /\ EventAfterCommit)'
      /\ StatusInStep'
      /\ \A k \in Keys : target[k] = NoDay
  BY <1>1, ForceCloseInv
<1>3. TypeOK'
  BY <1>1, <1>2 DEF IndInv, TypeOK, db, outputs
<1>4. CycleInv'
  BY <1>1, <1>2 DEF IndInv, CycleInv, db
<1>5. DaysInv' /\ RowsInv'
  BY <1>1, ForceCloseKey DEF IndInv, DaysInv, RowsInv, db
<1>6. (AcceptedStored /\ StatusInv)'
  BY <1>1, <1>2, PollerAssumption DEF IndInv, AcceptedStored, StatusInv, db
<1> QED BY <1>2, <1>3, <1>4, <1>5, <1>6 DEF IndInv

\* One key is attributed: the others keep their state.  What the five
\* outcomes have in common.
LEMMA VisitInv ==
    ASSUME IndInv, NEW k \in Keys, Visit(k),
           openDay' \in [Keys -> Days \cup {NoDay}], base' \in [Keys -> Values \cup {NoVal}],
           target' \in [Keys -> Days \cup {NoDay}], lastDaily' \in [Keys -> Values \cup {NoVal}],
           pendingCloses' \in [Keys -> Days \cup {NoDay}], confirmed' \in Days \cup {NoDay},
           \A j \in Keys \ {k} : /\ openDay'[j] = openDay[j] /\ base'[j] = base[j]
                                 /\ target'[j] = target[j] /\ lastDaily'[j] = lastDaily[j]
                                 /\ pendingCloses'[j] = pendingCloses[j],
           openDay'[k] \in Days,
           target'[k] # NoDay => /\ target'[k] = openDay'[k] /\ reading[k] = base'[k]
                                 /\ lastDaily'[k] = reading[k],
           openDay'[k] <= Limit(now), openDay'[k] <= Limit(start),
           closedDaily[k] < openDay'[k], pendingCloses'[k] < openDay'[k],
           base'[k] <= lastDaily'[k], rows[k][openDay'[k]] <= base'[k],
           \A d \in Days : rows[k][d] # NoVal => d <= openDay'[k],
           \/ closedDaily[k] = NoDay
           \/ openDay'[k] = cutover
           \/ openDay'[k] - 1 <= maxDay(closedDaily[k], pendingCloses'[k]),
           closedDaily[k] = NoDay /\ pendingCloses'[k] # NoDay
             => openDay'[k] - 1 <= pendingCloses'[k]
    PROVE  IndInv'
<1> USE DEF db, outputs
<1>1. /\ pc = "persist" /\ pc' = "persist" /\ seeded /\ seeded' /\ todo' \in SUBSET Keys
      /\ UNCHANGED <<now, start, online, reading, statusRead, emitted, lastStatus, health>>
      /\ UNCHANGED <<rows, closedDaily, statusRow, statusStored, cutover, cache, published>>
  BY DEF Visit, IndInv, CycleInv, TypeOK
<1>2. TypeOK'
  BY <1>1 DEF IndInv, TypeOK
<1>3. CycleInv'
  BY <1>1 DEF IndInv, CycleInv
<1>4. MemoryInv' /\ FirstCloseInv' /\ CloseNeverLost'
  BY <1>1 DEF IndInv, MemoryInv, FirstCloseInv, CloseNeverLost
<1>5. DaysInv'
  BY <1>1 DEF IndInv, DaysInv
<1>6. RowsInv'
  BY <1>1 DEF IndInv, RowsInv
<1>7. (RowImpliesClose /\ EventAfterCommit /\ AcceptedStored /\ StatusInv /\ StatusInStep)'
  BY <1>1 DEF IndInv, RowImpliesClose, EventAfterCommit, AcceptedStored, StatusInv, StatusInStep
<1> QED BY <1>2, <1>3, <1>4, <1>5, <1>6, <1>7 DEF IndInv

\* What the invariant says of the key a persisting cycle visits.
LEMMA VisitedKey ==
    ASSUME IndInv, NEW k \in Keys, Visit(k)
    PROVE  /\ pc = "persist" /\ seeded /\ openDay[k] \in Days
           /\ start \in Instants /\ Limit(start) <= Limit(now)
           /\ Limit(start) \in Nat /\ Limit(now) \in Nat
           /\ openDay[k] <= Limit(now) /\ openDay[k] <= Limit(start)
           /\ closedDaily[k] < openDay[k] /\ pendingCloses[k] < openDay[k]
           /\ base[k] <= lastDaily[k] /\ rows[k][openDay[k]] <= base[k]
           /\ \A d \in Days : rows[k][d] # NoVal => d <= openDay[k]
           /\ \/ closedDaily[k] = NoDay
              \/ openDay[k] = cutover
              \/ openDay[k] - 1 <= maxDay(closedDaily[k], pendingCloses[k])
           /\ closedDaily[k] = NoDay /\ pendingCloses[k] # NoDay
                => openDay[k] - 1 <= pendingCloses[k]
           /\ target[k] # NoDay => /\ target[k] = openDay[k] /\ reading[k] = base[k]
                                   /\ lastDaily[k] = reading[k]
<1>1. pc = "persist" /\ seeded
  BY DEF Visit, IndInv, CycleInv
<1>2. start \in Instants /\ Limit(start) <= Limit(now) /\ Limit(start) \in Nat /\ Limit(now) \in Nat
  BY <1>1, StartDays
<1>3. openDay[k] \in Days
  BY <1>1 DEF IndInv, MemoryInv
<1> QED BY <1>1, <1>2, <1>3 DEF IndInv, CycleInv, DaysInv, RowsInv, CloseNeverLost, FirstCloseInv,
                                   AcceptedStored

\* Hold, DiscardDecrease: the key keeps its state.
LEMMA DiscardInv ==
    ASSUME IndInv, NEW k \in Keys, Visit(k), Discard
    PROVE  IndInv'
<1>1. /\ openDay \in [Keys -> Days \cup {NoDay}] /\ base \in [Keys -> Values \cup {NoVal}]
      /\ target \in [Keys -> Days \cup {NoDay}] /\ lastDaily \in [Keys -> Values \cup {NoVal}]
      /\ pendingCloses \in [Keys -> Days \cup {NoDay}] /\ confirmed \in Days \cup {NoDay}
  BY DEF IndInv, TypeOK
<1>2. UNCHANGED <<target, openDay, base, confirmed, lastDaily, pendingCloses>>
  BY DEF Discard
<1> QED BY <1>1, <1>2, VisitInv, VisitedKey

\* Accept: the row of the open day grows with the base.
LEMMA AcceptInv ==
    ASSUME IndInv, NEW k \in Keys, Accept(k)
    PROVE  IndInv'
<1> USE DEF NoVal
<1>1. Visit(k) /\ Fits(k) /\ WriteUnder(k, openDay[k]) /\ UNCHANGED <<confirmed, pendingCloses>>
  BY DEF Accept
<1>2. openDay[k] \in Days
  BY <1>1, VisitedKey
<1>3. /\ reading[k] \in Values \cup {NoVal} /\ reading[k] \in Int /\ reading[k] >= NoVal
      /\ base[k] \in Int /\ rows[k][openDay[k]] \in Int
  BY <1>2, KeyNumbers
<1>4. /\ openDay' \in [Keys -> Days \cup {NoDay}] /\ base' \in [Keys -> Values \cup {NoVal}]
      /\ target' \in [Keys -> Days \cup {NoDay}] /\ lastDaily' \in [Keys -> Values \cup {NoVal}]
      /\ pendingCloses' \in [Keys -> Days \cup {NoDay}] /\ confirmed' \in Days \cup {NoDay}
  BY <1>1, <1>2, <1>3 DEF WriteUnder, IndInv, TypeOK
<1>5. /\ openDay'[k] = openDay[k] /\ base'[k] = reading[k] /\ target'[k] = openDay[k]
      /\ lastDaily'[k] = reading[k] /\ pendingCloses'[k] = pendingCloses[k]
      /\ \A j \in Keys \ {k} : /\ openDay'[j] = openDay[j] /\ base'[j] = base[j]
                               /\ target'[j] = target[j] /\ lastDaily'[j] = lastDaily[j]
                               /\ pendingCloses'[j] = pendingCloses[j]
  BY <1>1 DEF WriteUnder, IndInv, TypeOK
<1>6. rows[k][openDay[k]] <= reading[k]
  <2>1. rows[k][openDay[k]] <= base[k]
    BY <1>1, VisitedKey
  <2> QED BY <1>1, <1>3, <2>1 DEF Fits
<1> QED BY <1>1, <1>3, <1>4, <1>5, <1>6, VisitInv, VisitedKey

\* FollowReset, ConfirmReset: the key advances over the window.  There is no
\* row of the opening day yet, and the closing day is due to be closed.
LEMMA AdvanceInv ==
    ASSUME IndInv, NEW k \in Keys, Visit(k), Closes(k), WriteUnder(k, WindowAt(start).opening),
           CloseClosing(k), confirmed' \in {confirmed, WindowAt(start).opening}
    PROVE  IndInv'
<1> USE DEF NoDay, NoVal, maxDay
<1>1. /\ WindowAt(start).closing = openDay[k] /\ WindowAt(start).opening = openDay[k] + 1
      /\ Limit(start) = openDay[k] + 1 /\ openDay[k] + 1 \in Days /\ openDay[k] \in Days
  <2>1. start \in Instants /\ openDay[k] \in Days
    BY VisitedKey
  <2> QED BY <2>1, InstantDays DEF Closes
<1>2. /\ openDay[k] \in Nat /\ closedDaily[k] \in Nat /\ pendingCloses[k] \in Nat
      /\ reading[k] \in Values \cup {NoVal} /\ reading[k] \in Int /\ reading[k] >= NoVal
      /\ \A d \in Days : d \in Nat
  BY KeyNumbers
<1>3. /\ openDay' \in [Keys -> Days \cup {NoDay}] /\ base' \in [Keys -> Values \cup {NoVal}]
      /\ target' \in [Keys -> Days \cup {NoDay}] /\ lastDaily' \in [Keys -> Values \cup {NoVal}]
      /\ confirmed' \in Days \cup {NoDay}
  BY <1>1, <1>2 DEF WriteUnder, IndInv, TypeOK
<1>4. pendingCloses' \in [Keys -> Days \cup {NoDay}]
  BY <1>1, <1>2 DEF CloseClosing, IndInv, TypeOK
<1>5. pendingCloses[k] < openDay[k] /\ closedDaily[k] < openDay[k]
  BY VisitedKey
<1>6. /\ openDay'[k] = openDay[k] + 1 /\ base'[k] = reading[k] /\ target'[k] = openDay[k] + 1
      /\ lastDaily'[k] = reading[k] /\ pendingCloses'[k] = openDay[k]
      /\ \A j \in Keys \ {k} : /\ openDay'[j] = openDay[j] /\ base'[j] = base[j]
                               /\ target'[j] = target[j] /\ lastDaily'[j] = lastDaily[j]
                               /\ pendingCloses'[j] = pendingCloses[j]
  BY <1>1, <1>2, <1>5 DEF WriteUnder, CloseClosing, IndInv, TypeOK
<1>7. /\ rows[k][openDay[k] + 1] = NoVal
      /\ \A d \in Days : rows[k][d] # NoVal => d <= openDay[k] + 1
  BY <1>1, <1>2, VisitedKey
<1>8. openDay[k] + 1 <= Limit(now) /\ openDay[k] + 1 <= Limit(start)
  BY <1>1, <1>2, VisitedKey
<1> QED BY <1>1, <1>2, <1>3, <1>4, <1>5, <1>6, <1>7, <1>8, VisitInv

\* The five outcomes of attribution together.
LEMMA AttributeKeyInv ==
    ASSUME IndInv, NEW k \in Keys, AttributeKey(k)
    PROVE  IndInv'
<1>1. CASE FollowReset(k)
  <2>1. /\ Visit(k) /\ Closes(k) /\ WriteUnder(k, WindowAt(start).opening)
        /\ CloseClosing(k) /\ confirmed' = confirmed
    BY <1>1 DEF FollowReset, Blind
  <2> QED BY <2>1, AdvanceInv
<1>2. CASE ConfirmReset(k)
  <2>1. /\ Visit(k) /\ Closes(k) /\ WriteUnder(k, WindowAt(start).opening)
        /\ CloseClosing(k) /\ confirmed' = WindowAt(start).opening
    BY <1>2 DEF ConfirmReset, ShowsReset
  <2> QED BY <2>1, AdvanceInv
<1>3. CASE Hold(k) \/ DiscardDecrease(k)
  <2>1. Visit(k) /\ Discard
    BY <1>3 DEF Hold, DiscardDecrease
  <2> QED BY <2>1, DiscardInv
<1>4. CASE Accept(k)
  BY <1>4, AcceptInv
<1> QED BY <1>1, <1>2, <1>3, <1>4 DEF AttributeKey

\* One key's part of the transaction: the row is of the open day, which is not
\* closed, so it is stored; the closes lie before it.
LEMMA CommitKey ==
    ASSUME IndInv, pc = "persist", Commit, NEW k \in Keys
    PROVE  /\ rows'[k] \in [Days -> Values \cup {NoVal}]
           /\ closedDaily'[k] \in Days \cup {NoDay}
           /\ closedDaily'[k] \in Nat
           /\ closedDaily[k] <= closedDaily'[k] /\ pendingCloses[k] <= closedDaily'[k]
           /\ closedDaily'[k] < openDay[k]
           /\ rows'[k][openDay[k]] <= base[k]
           /\ \A d \in Days : rows'[k][d] # NoVal => rows[k][d] # NoVal \/ d = openDay[k]
           /\ \A d \in Days : d # openDay[k] => rows'[k][d] = rows[k][d]
           /\ target[k] # NoDay => rows'[k][target[k]] = reading[k]
           /\ \/ closedDaily'[k] = NoDay
              \/ openDay[k] = cutover
              \/ openDay[k] - 1 <= closedDaily'[k]
<1> USE DEF NoDay, maxDay
<1>1. /\ openDay[k] \in Days /\ openDay[k] \in Nat /\ closedDaily[k] \in Nat
      /\ pendingCloses[k] \in Nat /\ pendingCloses[k] \in Days \cup {NoDay}
      /\ reading[k] \in Values \cup {NoVal} /\ reading[k] \in Int /\ base[k] \in Int
      /\ rows[k][openDay[k]] \in Int
  <2>1. openDay[k] \in Days
    BY DEF IndInv, CycleInv, MemoryInv
  <2> QED BY <2>1, KeyNumbers
<1>2. /\ closedDaily[k] < openDay[k] /\ pendingCloses[k] < openDay[k]
      /\ rows[k][openDay[k]] <= base[k]
      /\ target[k] # NoDay => target[k] = openDay[k] /\ reading[k] = base[k]
      /\ \/ closedDaily[k] = NoDay
         \/ openDay[k] = cutover
         \/ openDay[k] - 1 <= maxDay(closedDaily[k], pendingCloses[k])
      /\ closedDaily[k] = NoDay /\ pendingCloses[k] # NoDay => openDay[k] - 1 <= pendingCloses[k]
  BY DEF IndInv, CycleInv, DaysInv, RowsInv, CloseNeverLost, FirstCloseInv
<1>3. /\ rows[k] \in [Days -> Values \cup {NoVal}] /\ closedDaily[k] \in Days \cup {NoDay}
      /\ rows'[k] = WriteDaily(rows[k], closedDaily[k], target[k], reading[k])
      /\ closedDaily'[k] = maxDay(closedDaily[k], pendingCloses[k])
  BY DEF IndInv, TypeOK, Commit, CloseDay
<1>4. \/ rows'[k] = rows[k]
      \/ rows'[k] = [rows[k] EXCEPT ![openDay[k]] = reading[k]] /\ reading[k] = base[k]
  BY <1>1, <1>2, <1>3 DEF WriteDaily
<1>5. /\ rows'[k] \in [Days -> Values \cup {NoVal}]
      /\ rows'[k][openDay[k]] <= base[k]
      /\ \A d \in Days : d # openDay[k] => rows'[k][d] = rows[k][d]
  BY <1>1, <1>2, <1>3, <1>4
<1>6. /\ closedDaily'[k] \in Days \cup {NoDay} /\ closedDaily'[k] \in Nat
      /\ closedDaily[k] <= closedDaily'[k] /\ pendingCloses[k] <= closedDaily'[k]
      /\ closedDaily'[k] < openDay[k]
  BY <1>1, <1>2, <1>3
<1>7. closedDaily'[k] = NoDay \/ openDay[k] = cutover \/ openDay[k] - 1 <= closedDaily'[k]
  BY <1>1, <1>2, <1>3
<1>8. ASSUME target[k] # NoDay PROVE rows'[k][target[k]] = reading[k]
  BY <1>1, <1>2, <1>3, <1>8 DEF WriteDaily
<1> QED BY <1>5, <1>6, <1>7, <1>8

\* The transaction: rows, status and closes become durable together.
LEMMA CommitInv == IndInv /\ Commit => IndInv'
<1> SUFFICES ASSUME IndInv, Commit PROVE IndInv'
  OBVIOUS
<1> USE DEF NoDay, outputs
<1>1. /\ pc = "persist" /\ pc' = "publish" /\ todo' = {k \in Keys : pendingCloses[k] # NoDay}
      /\ UNCHANGED <<now, start, online, reading, statusRead, target, seeded, openDay, base,
                     confirmed, lastDaily, pendingCloses, emitted, health, cutover, cache, published>>
  BY DEF Commit
<1>2. seeded /\ seeded' /\ \A k \in Keys : openDay[k] \in Days
  BY <1>1 DEF IndInv, CycleInv, MemoryInv
<1>3. Limit(start) \in Nat /\ Limit(now) \in Nat
  BY <1>1, StartDays
<1>4. \A k \in Keys : /\ openDay[k] \in Nat /\ pendingCloses[k] \in Nat /\ closedDaily[k] \in Nat
                      /\ closedDaily'[k] \in Nat /\ cutover \in Nat
                      /\ \A d \in Days : d \in Nat
  BY <1>1, KeyNumbers, CommitKey
<1>5. TypeOK'
  <2>1. rows' \in [Keys -> [Days -> Values \cup {NoVal}]]
    BY <1>1, CommitKey DEF Commit
  <2>2. closedDaily' \in [Keys -> Days \cup {NoDay}]
    BY <1>1, CommitKey DEF Commit
  <2>3. /\ statusRow' \in Statuses \cup {NoStatus} /\ lastStatus' \in Statuses \cup {NoStatus}
        /\ statusStored' \in Statuses \cup {NoStatus}
    BY DEF Commit, IndInv, TypeOK
  <2> QED BY <1>1, <2>1, <2>2, <2>3 DEF IndInv, TypeOK
<1>6. CycleInv'
  BY <1>1, <1>2, CommitKey DEF IndInv, CycleInv
<1>7. MemoryInv'
  BY <1>1, <1>2 DEF IndInv, MemoryInv
<1>8. DaysInv'
  BY <1>1, <1>2, <1>3, <1>4, CommitKey DEF IndInv, DaysInv
<1>9. FirstCloseInv'
  BY <1>1, <1>4, CommitKey DEF FirstCloseInv
<1>10. RowsInv'
  <2> SUFFICES ASSUME NEW k \in Keys
               PROVE  /\ base[k] <= lastDaily[k] /\ rows'[k][openDay[k]] <= base[k]
                      /\ \A d \in Days : rows'[k][d] # NoVal
                           => d <= Limit(now) /\ d <= Limit(start) /\ d <= openDay[k]
    BY <1>1, <1>2 DEF RowsInv
  <2>1. /\ base[k] <= lastDaily[k] /\ openDay[k] <= Limit(now) /\ openDay[k] <= Limit(start)
        /\ \A d \in Days : rows[k][d] # NoVal
             => d <= Limit(now) /\ d <= Limit(start) /\ d <= openDay[k]
    BY <1>1, <1>2 DEF IndInv, RowsInv, DaysInv
  <2> QED BY <1>1, <1>4, <2>1, CommitKey
<1>11. CloseNeverLost'
  BY <1>1, <1>4, CommitKey DEF CloseNeverLost, maxDay
<1>12. RowImpliesClose'
  <2> SUFFICES ASSUME NEW k \in Keys, NEW d \in Days, rows'[k][d] # NoVal, d > cutover,
                      closedDaily'[k] # NoDay
               PROVE  closedDaily'[k] >= d - 1
    BY <1>1 DEF RowImpliesClose
  <2>1. d <= openDay[k]
    BY <1>1, <1>2, <1>4, CommitKey DEF IndInv, RowsInv
  <2> QED BY <1>1, <1>4, <2>1, CommitKey
<1>13. EventAfterCommit'
  <2>1. published # NoDay => published \in Nat
    BY Numbers DEF IndInv, TypeOK
  <2> QED BY <1>1, <1>4, <2>1, CommitKey DEF IndInv, EventAfterCommit
<1>14. AcceptedStored'
  BY <1>1, CommitKey DEF IndInv, AcceptedStored
<1>15. (StatusInv /\ StatusInStep)'
  BY <1>1, <1>2 DEF Commit, StatusChanged, IndInv, StatusInv, StatusInStep
<1> QED BY <1>5, <1>6, <1>7, <1>8, <1>9, <1>10, <1>11, <1>12, <1>13, <1>14, <1>15 DEF IndInv

\* An event per close: the close is stored, so forgetting it loses nothing.
LEMMA PublishCloseInv ==
    ASSUME IndInv, NEW k \in Keys, PublishClose(k)
    PROVE  IndInv'
<1> USE DEF NoDay, db
<1>1. /\ pc = "publish" /\ pc' = "publish" /\ k \in todo /\ todo' = todo \ {k}
      /\ pendingCloses' = [pendingCloses EXCEPT ![k] = NoDay]
      /\ UNCHANGED <<now, start, online, reading, statusRead, target, seeded, openDay, base,
                     confirmed, lastDaily, lastStatus, health, cache>>
      /\ UNCHANGED <<rows, closedDaily, statusRow, statusStored, cutover>>
  BY DEF PublishClose
<1>2. /\ seeded /\ pendingCloses[k] <= closedDaily[k] /\ pendingCloses[k] \in Days
  BY <1>1 DEF IndInv, CycleInv, TypeOK
<1>3. /\ published' \in {published, pendingCloses[k]}
      /\ emitted' \in SUBSET Days
  BY <1>2 DEF PublishClose, IndInv, TypeOK
<1>4. ASSUME NEW j \in Keys
      PROVE  /\ pendingCloses'[j] = IF j = k THEN NoDay ELSE pendingCloses[j]
             /\ pendingCloses[j] \in Nat /\ openDay[j] \in Nat /\ closedDaily[j] \in Nat
             /\ closedDaily[j] < openDay[j] /\ pendingCloses[j] <= closedDaily[j]
  BY <1>1, <1>2, KeyNumbers DEF IndInv, TypeOK, DaysInv, CycleInv
<1>5. TypeOK'
  BY <1>1, <1>2, <1>3 DEF IndInv, TypeOK
<1>6. CycleInv'
  BY <1>1, <1>4 DEF IndInv, CycleInv
<1>7. MemoryInv' /\ DaysInv' /\ FirstCloseInv' /\ RowsInv'
  BY <1>1, <1>2, <1>4 DEF IndInv, MemoryInv, DaysInv, FirstCloseInv, RowsInv
<1>8. CloseNeverLost'
  BY <1>1, <1>2, <1>4 DEF IndInv, CloseNeverLost, maxDay
<1>9. EventAfterCommit'
  BY <1>1, <1>2, <1>3 DEF IndInv, EventAfterCommit
<1>10. (RowImpliesClose /\ AcceptedStored /\ StatusInv /\ StatusInStep)'
  BY <1>1 DEF IndInv, RowImpliesClose, AcceptedStored, StatusInv, StatusInStep
<1> QED BY <1>5, <1>6, <1>7, <1>8, <1>9, <1>10 DEF IndInv

\* The end of a cycle: the cache takes what the transaction has stored.
LEMMA FinishCycleInv == IndInv /\ FinishCycle => IndInv'
<1> SUFFICES ASSUME IndInv, FinishCycle PROVE IndInv'
  OBVIOUS
<1> USE DEF NoDay, db, memory
<1>1. /\ pc = "publish" /\ pc' = "idle" /\ todo = {} /\ start' = NoTime /\ online' = FALSE
      /\ reading' = [k \in Keys |-> NoVal] /\ statusRead' = NoStatus
      /\ target' = [k \in Keys |-> NoDay] /\ todo' = {}
      /\ cache' = IF online THEN lastDaily ELSE cache
      /\ health' = IF online THEN "Healthy" ELSE "Recovering"
      /\ UNCHANGED <<now, seeded, openDay, base, confirmed, lastDaily, pendingCloses, emitted,
                     lastStatus, rows, closedDaily, statusRow, statusStored, cutover, published>>
  BY DEF FinishCycle, EndCycle, ResetCycle
<1>2. seeded /\ \A k \in Keys : openDay[k] \in Days
  BY <1>1 DEF IndInv, CycleInv, MemoryInv
<1>3. TypeOK'
  BY <1>1 DEF IndInv, TypeOK
<1>4. CycleInv' /\ MemoryInv'
  BY <1>1, <1>2 DEF IndInv, CycleInv, MemoryInv
<1>5. DaysInv' /\ FirstCloseInv' /\ RowsInv'
  BY <1>1 DEF IndInv, DaysInv, FirstCloseInv, RowsInv
<1>6. (CloseNeverLost /\ RowImpliesClose /\ EventAfterCommit /\ StatusInStep)'
  BY <1>1 DEF IndInv, CloseNeverLost, RowImpliesClose, EventAfterCommit, StatusInStep
<1>7. (AcceptedStored /\ StatusInv)'
  BY <1>1 DEF IndInv, AcceptedStored, StatusInv
<1> QED BY <1>3, <1>4, <1>5, <1>6, <1>7 DEF IndInv

\* A fresh instance, in the same process or in a new one.
LEMMA NewInstanceInv == IndInv /\ (Restart \/ Crash) => IndInv'
<1> SUFFICES ASSUME IndInv, Restart \/ Crash PROVE IndInv'
  OBVIOUS
<1> USE DEF NoDay, NoVal, db, cycle, outputs
<1>1. /\ pc' = "idle" /\ start' = NoTime /\ ResetMemory /\ health' = "none"
      /\ UNCHANGED <<now, rows, closedDaily, statusRow, statusStored, cutover, published>>
      /\ \A k \in Keys : target'[k] = NoDay
  BY DEF Restart, Crash, ResetCycle, IndInv, CycleInv
<1>2. TypeOK'
  <2>1. /\ online' \in BOOLEAN /\ reading' \in [Keys -> Values \cup {NoVal}]
        /\ statusRead' \in Statuses \cup {NoStatus} /\ target' \in [Keys -> Days \cup {NoDay}]
        /\ todo' \in SUBSET Keys /\ cache' \in [Keys -> Values \cup {NoVal}]
    BY DEF Restart, Crash, ResetCycle, IndInv, TypeOK
  <2> QED BY <1>1, <2>1 DEF IndInv, TypeOK, ResetMemory
<1>3. CycleInv' /\ MemoryInv'
  BY <1>1 DEF IndInv, CycleInv, MemoryInv, ResetMemory
<1>4. Limit(now) \in Nat
  BY InstantDays DEF IndInv, TypeOK
<1>5. DaysInv' /\ RowsInv'
  BY <1>1, <1>4 DEF IndInv, DaysInv, RowsInv, ResetMemory
<1>6. (/\ FirstCloseInv /\ CloseNeverLost /\ RowImpliesClose /\ EventAfterCommit
       /\ AcceptedStored /\ StatusInv /\ StatusInStep)'
  BY <1>1 DEF Restart, Crash, ResetCycle, IndInv, FirstCloseInv, CloseNeverLost,
              RowImpliesClose, EventAfterCommit, AcceptedStored, StatusInv, StatusInStep, ResetMemory
<1> QED BY <1>2, <1>3, <1>5, <1>6 DEF IndInv

\* Retention takes a status row away: the poller, if it knows a status, knows
\* the one of that row.
LEMMA CleanupStatusInv == IndInv /\ cleanupStatus => IndInv'
<1> SUFFICES ASSUME IndInv, cleanupStatus PROVE IndInv'
  OBVIOUS
<1> USE DEF cycle, memory, outputs, cleanupStatus
<1>1. TypeOK'
  BY DEF IndInv, TypeOK
<1>2. (/\ CycleInv /\ MemoryInv /\ DaysInv /\ FirstCloseInv /\ RowsInv /\ CloseNeverLost
       /\ RowImpliesClose /\ EventAfterCommit /\ AcceptedStored)'
  BY DEF IndInv, CycleInv, MemoryInv, DaysInv, FirstCloseInv, RowsInv, CloseNeverLost,
         RowImpliesClose, EventAfterCommit, AcceptedStored
<1>3. (StatusInv /\ StatusInStep)'
  BY PollerAssumption DEF IndInv, StatusInv, StatusInStep
<1> QED BY <1>1, <1>2, <1>3 DEF IndInv

\* Every step of the poll loop and of retention preserves the invariant.
LEMMA PollerStep == IndInv /\ [Next]_vars => IndInv'
<1> SUFFICES ASSUME IndInv, [Next]_vars PROVE IndInv'
  OBVIOUS
<1>1. CASE Tick
  BY <1>1, TickInv
<1>2. CASE BeginCycle
  BY <1>2, BeginCycleInv
<1>3. CASE Seed
  BY <1>3, SeedInv
<1>4. CASE SeedFails \/ ReadFails \/ WriteFails
  BY <1>4, EndCycleInv DEF SeedFails, ReadFails, WriteFails
<1>5. CASE Disconnected
  BY <1>5, DisconnectedInv
<1>6. ASSUME NEW values \in [Keys -> Values], NEW status \in Statuses, ReadAll(values, status)
      PROVE  IndInv'
  BY <1>6, ReadAllInv
<1>7. ASSUME NEW k \in Keys, AttributeKey(k) PROVE IndInv'
  BY <1>7, AttributeKeyInv
<1>8. CASE Commit
  BY <1>8, CommitInv
<1>9. ASSUME NEW k \in Keys, PublishClose(k) PROVE IndInv'
  BY <1>9, PublishCloseInv
<1>10. CASE FinishCycle
  BY <1>10, FinishCycleInv
<1>11. CASE Restart \/ Crash
  BY <1>11, NewInstanceInv
<1>12. CASE cleanupStatus
  BY <1>12, CleanupStatusInv
<1>13. CASE UNCHANGED vars
  BY <1>13 DEF vars, cycle, memory, db, outputs, IndInv, TypeOK, CycleInv, MemoryInv, DaysInv,
               FirstCloseInv, RowsInv, CloseNeverLost, RowImpliesClose, EventAfterCommit,
               AcceptedStored, StatusInv, StatusInStep
<1> QED BY <1>1, <1>2, <1>3, <1>4, <1>5, <1>6, <1>7, <1>8, <1>9, <1>10, <1>11, <1>12, <1>13
        DEF Next, CycleStep

\* The invariant is inductive.
THEOREM PollerIndInv == Spec => []IndInv
<1>1. Init => IndInv
  BY InitInv
<1>2. IndInv /\ [Next]_vars => IndInv'
  BY PollerStep
<1> QED BY <1>1, <1>2, PTL DEF Spec

\* Every variable keeps its type, over failures, restarts and crashes.
THEOREM PollerTypeOK == Spec => []TypeOK
<1>1. IndInv => TypeOK
  BY DEF IndInv
<1> QED BY <1>1, PollerIndInv, PTL

\* writeDaily (poller_store.go) never rejects a value of the poller: the day a
\* value is attributed to is not closed when the transaction runs.
THEOREM PollerNoLateWrite == Spec => []NoLateWrite
<1>1. IndInv => NoLateWrite
  BY DEF IndInv, CycleInv, DaysInv, NoLateWrite
<1> QED BY <1>1, PollerIndInv, PTL

\* decreaseInWindow (attribution.go): no counter, whatever it reads, closes a
\* day before the window that closes it.
THEOREM PollerNoDayClosedEarly == Spec => []NoDayClosedEarly
<1>1. IndInv => NoDayClosedEarly
  BY DEF IndInv, DaysInv, NoDayClosedEarly
<1> QED BY <1>1, PollerIndInv, PTL

\* pendingCloses (cycle.go) and Seed (attribution.go): no close is lost, over
\* failed transactions and restarts.
THEOREM PollerCloses == Spec => []CloseNeverLost
<1>1. IndInv => CloseNeverLost
  BY DEF IndInv
<1> QED BY <1>1, PollerIndInv, PTL

\* WritePoll (poller_store.go) is one transaction: a row of a new day implies the
\* close of the day before, which seedKey relies on after a restart.
THEOREM PollerRowImpliesClose == Spec => []RowImpliesClose
<1>1. IndInv => RowImpliesClose
  BY DEF IndInv
<1> QED BY <1>1, PollerIndInv, PTL

\* committed (cycle.go): PeriodClosed follows the commit that stored the close.
THEOREM PollerEventAfterCommit == Spec => []EventAfterCommit
<1>1. IndInv => EventAfterCommit
  BY DEF IndInv
<1> QED BY <1>1, PollerIndInv, PTL

\* A cycle that ends as Healthy has read values and is through with its events:
\* what it accepted is stored, and the cache takes exactly that.
LEMMA HealthyStep ==
    ASSUME IndInv, [Next]_vars, pc = "publish", pc' = "idle", health' = "Healthy", NEW k \in Keys
    PROVE  /\ pendingCloses'[k] = NoDay
           /\ target[k] # NoDay => cache'[k] = rows'[k][target[k]]
<1>1. FinishCycle
  BY DEF Next, CycleStep, vars, cycle, Tick, BeginCycle, Seed, SeedFails, Disconnected, ReadFails,
         ReadAll, AttributeKey, FollowReset, Hold, Accept, ConfirmReset, DiscardDecrease, Visit,
         Commit, WriteFails, PublishClose, Restart, Crash, cleanupStatus
<1>2. /\ todo = {} /\ UNCHANGED <<pendingCloses, rows>>
      /\ health' = IF online THEN "Healthy" ELSE "Recovering"
      /\ cache' = IF online THEN lastDaily ELSE cache
  BY <1>1 DEF FinishCycle, EndCycle, memory, db
<1>3. pendingCloses[k] = NoDay
  BY <1>2 DEF IndInv, CycleInv
<1>4. target[k] # NoDay => lastDaily[k] = reading[k] /\ rows[k][target[k]] = reading[k]
  BY DEF IndInv, AcceptedStored
<1> QED BY <1>2, <1>3, <1>4

\* pollCycle (poller.go): a poll that reports Healthy leaves no close pending and
\* shows every value it accepted exactly as it has stored it.
THEOREM PollerHealthyMeansStored == Spec => HealthyMeansStored
<1>1. IndInv /\ [Next]_vars
        => [pc = "publish" /\ pc' = "idle" /\ health' = "Healthy" =>
              \A k \in Keys : /\ pendingCloses'[k] = NoDay
                              /\ target[k] # NoDay => cache'[k] = rows'[k][target[k]]]_vars
  BY HealthyStep
<1> QED BY <1>1, PollerIndInv, PTL DEF Spec, HealthyMeansStored

\* statusChanges (cycle.go): the remembered status is that of the latest row or,
\* once retention has deleted it, the latest one stored; after a commit that is
\* the one the poll has read.
THEOREM PollerInStep == Spec => []StatusInStep
<1>1. IndInv => StatusInStep
  BY DEF IndInv
<1> QED BY <1>1, PollerIndInv, PTL

\* Rows and watermarks change in the transaction only, the cutover never.
LEMMA DatabaseSteps ==
    ASSUME [Next]_vars
    PROVE  /\ Commit \/ UNCHANGED <<rows, closedDaily>>
           /\ UNCHANGED cutover
BY DEF Next, CycleStep, vars, cycle, memory, db, outputs, Tick, BeginCycle, Seed, SeedFails,
       Disconnected, ReadFails, ReadAll, AttributeKey, FollowReset, Hold, Accept, ConfirmReset,
       DiscardDecrease, Visit, Commit, WriteFails, PublishClose, FinishCycle, Restart, Crash,
       cleanupStatus

\* A key is only ever placed on the expected day or on the opening day.
LEMMA OpenDaySteps ==
    ASSUME [Next]_vars, NEW k \in Keys, openDay \in [Keys -> Days \cup {NoDay}], seeded'
    PROVE  \/ seeded /\ openDay'[k] = openDay[k]
           \/ /\ pc # "idle"
              /\ \/ openDay'[k] = Expected(start)
                 \/ InWindow(start) /\ openDay'[k] = WindowAt(start).opening
<1>1. CASE Seed
  BY <1>1 DEF Seed, SeedDay, HasAdvanced
<1>2. CASE ForceClose /\ pc = "begin" /\ seeded
  BY <1>2 DEF ForceClose
<1>3. ASSUME NEW j \in Keys, AttributeKey(j)
      PROVE  seeded' = seeded /\ pc # "idle"
             /\ (openDay' = openDay \/ openDay' = [openDay EXCEPT ![j] = openDay[j]]
                 \/ (InWindow(start) /\ openDay' = [openDay EXCEPT ![j] = WindowAt(start).opening]))
  BY <1>3 DEF AttributeKey, FollowReset, Hold, Accept, ConfirmReset, DiscardDecrease, Visit,
              WriteUnder, Discard, Blind, ShowsReset, Closes
<1>4. CASE \E j \in Keys : AttributeKey(j)
  BY <1>3, <1>4
<1>5. CASE seeded' = seeded /\ openDay' = openDay
  BY <1>5
<1>6. \/ Seed \/ (ForceClose /\ pc = "begin" /\ seeded) \/ (\E j \in Keys : AttributeKey(j))
      \/ (seeded' = seeded /\ openDay' = openDay)
  BY DEF Next, CycleStep, vars, cycle, memory, db, outputs, Tick, BeginCycle, SeedFails, EndCycle,
         Disconnected, ReadFails, ReadAll, Commit, WriteFails, PublishClose, FinishCycle,
         Restart, Crash, ResetMemory, cleanupStatus
<1> QED
  BY <1>1, <1>2, <1>4, <1>5, <1>6

\* No key is ever placed on a day before the one before the cutover.
SinceCutover == seeded => \A k \in Keys : cutover - 1 <= openDay[k]

LEMMA SinceCutoverStep == IndInv /\ SinceCutover /\ [Next]_vars => SinceCutover'
<1> SUFFICES ASSUME IndInv, SinceCutover, [Next]_vars, seeded', NEW k \in Keys
             PROVE  cutover - 1 <= openDay'[k]
  BY DatabaseSteps DEF SinceCutover
<1>1. openDay \in [Keys -> Days \cup {NoDay}] /\ cutover \in Nat
  BY DEF IndInv, TypeOK
<1>2. CASE seeded /\ openDay'[k] = openDay[k]
  BY <1>2 DEF SinceCutover
<1>3. CASE /\ pc # "idle"
           /\ \/ openDay'[k] = Expected(start)
              \/ InWindow(start) /\ openDay'[k] = WindowAt(start).opening
  <2>1. start \in Instants /\ start \in Int /\ cutover <= Date(start)
    BY <1>3, Numbers DEF IndInv, CycleInv
  <2>2. /\ Expected(start) \in Nat /\ Date(start) \in Nat /\ Date(start) - 1 <= Expected(start)
    BY <2>1, InstantDays, RolloverDays
  <2>3. InWindow(start) => WindowAt(start).opening = Expected(start) + 1
    BY <2>1, RolloverDays
  <2> QED BY <1>1, <1>3, <2>1, <2>2, <2>3
<1> QED
  BY <1>1, <1>2, <1>3, OpenDaySteps

\* writeDaily, closeDay (poller_store.go): a closed day is final, for every
\* register, every rollover time and every history of failures and restarts.
THEOREM PollerClosedDaysFinal == Spec => ClosedDaysFinal
<1> DEFINE Final == \A k \in Keys : /\ closedDaily'[k] >= closedDaily[k]
                                    /\ \A d \in Days : d <= closedDaily[k] => rows'[k][d] = rows[k][d]
<1>1. IndInv /\ [Next]_vars => Final
  <2> SUFFICES ASSUME IndInv, [Next]_vars, NEW k \in Keys
               PROVE  /\ closedDaily'[k] >= closedDaily[k]
                      /\ \A d \in Days : d <= closedDaily[k] => rows'[k][d] = rows[k][d]
    OBVIOUS
  <2>1. closedDaily[k] \in Nat /\ openDay[k] \in Nat /\ \A d \in Days : d \in Nat
    BY KeyNumbers
  <2>2. CASE Commit
    <3>1. pc = "persist" /\ closedDaily[k] < openDay[k]
      BY <2>2 DEF Commit, IndInv, CycleInv, DaysInv
    <3>2. /\ closedDaily[k] <= closedDaily'[k] /\ closedDaily'[k] \in Nat
          /\ \A d \in Days : d # openDay[k] => rows'[k][d] = rows[k][d]
      BY <2>2, <3>1, CommitKey
    <3> QED BY <2>1, <3>1, <3>2
  <2>3. CASE UNCHANGED <<rows, closedDaily>>
    BY <2>1, <2>3
  <2> QED BY <2>2, <2>3, DatabaseSteps
<1> QED BY <1>1, PollerIndInv, PTL DEF Spec, ClosedDaysFinal

\* The poller implements the abstract ledger everything computed from the
\* daily rows relies on: its transaction is one WritePoll of rows no later
\* than tomorrow and no earlier than the day before the cutover, and of closes
\* no later than today.
THEOREM PollerImplementsLedger == Spec => ImplementsLedger
<1>1. Init => Ledger!LedgerInit
  <2> SUFFICES ASSUME Init PROVE Ledger!LedgerInit
    OBVIOUS
  <2>1. IndInv /\ now \in Instants /\ cutover = Date(now)
    BY InitInv DEF Init, IndInv, TypeOK
  <2>2. Date(now) \in Days /\ Date(now) \in Nat /\ Limit(now) \in Nat /\ Limit(now) <= Date(now) + 1
    BY <2>1, InstantDays, PollerAssumption
  <2>3. Ledger!LedgerTypeOK
    BY <2>1, <2>2 DEF Ledger!LedgerTypeOK, IndInv, TypeOK, Ledger!NoDay, NoDay, Ledger!NoVal, NoVal
  <2>4. ASSUME NEW k \in Keys
        PROVE  closedDaily[k] <= Date(now) /\ \A d \in Days : d > Date(now) => rows[k][d] = NoVal
    <3>1. closedDaily[k] \in Nat /\ closedDaily[k] < Limit(now) /\ \A d \in Days : d \in Nat
      BY <2>1, KeyNumbers DEF IndInv, DaysInv
    <3>2. \A d \in Days : d > cutover => rows[k][d] = NoVal
      BY <2>1, <2>2, <3>1 DEF Init
    <3> QED BY <2>1, <2>2, <3>1, <3>2
  <2> QED BY <2>3, <2>4 DEF Ledger!LedgerInit, Ledger!NoVal, NoVal
<1>2. IndInv /\ SinceCutover /\ IndInv' /\ [Next]_vars => [Ledger!LedgerNext]_(Ledger!ledger)
  <2> SUFFICES ASSUME IndInv, SinceCutover, IndInv', [Next]_vars PROVE [Ledger!LedgerNext]_(Ledger!ledger)
    OBVIOUS
  <2>0. cutover' = cutover
    BY DatabaseSteps
  <2>1. CASE Commit
    <3>1. now' = now /\ pc = "persist" /\ now \in Instants
      BY <2>1 DEF Commit, IndInv, TypeOK
    <3>2. ASSUME NEW k \in Keys
          PROVE  /\ target[k] = NoDay \/ cutover - 1 <= target[k]
                 /\ target[k] <= Date(now) + 1 /\ pendingCloses[k] <= Date(now)
      <4>1. Limit(now) <= Date(now) + 1 /\ Limit(now) \in Nat /\ Date(now) \in Nat
        BY <3>1, InstantDays
      <4>2. /\ openDay[k] <= Limit(now) /\ pendingCloses[k] < openDay[k]
            /\ target[k] = NoDay \/ target[k] = openDay[k]
            /\ cutover - 1 <= openDay[k]
        BY <3>1 DEF IndInv, DaysInv, CycleInv, SinceCutover
      <4>3. openDay[k] \in Nat /\ pendingCloses[k] \in Nat
        BY KeyNumbers
      <4> QED BY <4>1, <4>2, <4>3 DEF NoDay
    <3>3. Ledger!WritePoll(target, reading, pendingCloses)
      BY <2>0, <2>1, <3>1, <3>2 DEF Ledger!WritePoll, Commit, Ledger!NoDay, NoDay, Ledger!WriteDaily, WriteDaily,
                              Ledger!CloseDay, CloseDay, Ledger!maxDay, maxDay
    <3>4. /\ target \in [Keys -> Days \cup {NoDay}] /\ pendingCloses \in [Keys -> Days \cup {NoDay}]
          /\ reading \in [Keys -> Values \cup {NoVal}]
      BY DEF IndInv, TypeOK
    <3> QED BY <3>3, <3>4 DEF Ledger!LedgerNext, Ledger!NoDay, NoDay, Ledger!NoVal, NoVal
  <2>2. CASE UNCHANGED <<rows, closedDaily>>
    <3>1. now' = now \/ Tick
      BY DEF Next, CycleStep, vars, Tick, BeginCycle, Seed, SeedFails, EndCycle, Disconnected,
             ReadFails, ReadAll, AttributeKey, FollowReset, Hold, Accept, ConfirmReset,
             DiscardDecrease, Visit, Commit, WriteFails, PublishClose, FinishCycle, Restart,
             Crash, cleanupStatus
    <3>2. CASE now' = now
      BY <2>0, <2>2, <3>2 DEF Ledger!ledger
    <3>3. CASE Tick
      <4>1. now \in Instants /\ now' \in Instants /\ now < now'
        BY <3>3 DEF Tick, IndInv, TypeOK
      <4>2. now \in Int /\ now' \in Int
        BY <4>1, Numbers
      <4>3. Date(now) <= Date(now') /\ Date(now') \in Days /\ Date(now) \in Nat /\ Date(now') \in Nat
        BY <4>1, <4>2, RolloverMonotone, InstantDays, PollerAssumption
      <4> QED BY <2>0, <2>2, <4>3 DEF Ledger!ledger, Ledger!LedgerNext, Ledger!DayPasses
    <3> QED BY <3>1, <3>2, <3>3
  <2> QED BY <2>1, <2>2, DatabaseSteps
<1>3. Init => SinceCutover
  BY DEF Init, FreshMemory, SinceCutover
<1> QED BY <1>1, <1>2, <1>3, SinceCutoverStep, PollerIndInv, PTL
        DEF Spec, ImplementsLedger, Ledger!LedgerSpec

-----------------------------------------------------------------------------
\* The poller in front of an honest inverter (Metering).

-----------------------------------------------------------------------------
\* The inductive invariant.

\* The inverter counts the expected day or, once it has reset inside a window,
\* the day the window opens; what it then counts hides no reset of the day
\* before.
Inverter ==
    /\ invDay \in Days
    /\ energy \in [Keys -> [Days -> Values]]
    /\ Expected(now) <= invDay /\ invDay <= Limit(now)
    /\ \A k \in Keys, d \in Days : d > invDay => energy[k][d] = 0
    /\ JustReset => /\ now >= WindowAt(now).midnight
                    /\ \A k \in Keys : energy[k][invDay - 1] > 0 => counter(k) <= energy[k][invDay - 1]

\* A key is never a day ahead of the inverter, and no value it compares with
\* is above the inverter's count of its open day.
KeyBehaves(k) ==
    /\ openDay[k] <= invDay
    /\ closedDaily[k] < invDay
    /\ seeded => base[k] <= energy[k][openDay[k]]
    /\ \A d \in Days : rows[k][d] # NoVal => d <= invDay

\* A cycle is short, and a reset is confirmed only after it happened.
Behaved ==
    /\ pc # "idle" => start = now
    /\ confirmed <= invDay
    /\ \A k \in Keys : KeyBehaves(k)
    /\ NoEnergyInvented

\* A cycle reads the counters, and outside the windows it writes each under the
\* day the inverter counts.
CycleReads ==
    /\ pc \in {"idle", "begin"} => ~online /\ todo = {}
    /\ pc \in {"persist", "publish"} /\ online => \A k \in Keys : reading[k] = counter(k)
    /\ pc = "persist" /\ todo # {} => online
    /\ pc = "persist" /\ online => \A k \in Keys : Expected(now) <= openDay[k]
    /\ pc = "persist" /\ online /\ ~InWindow(now) => \A k \in Keys \ todo : target[k] = invDay
    /\ pc = "publish" /\ online /\ ~InWindow(now) => \A k \in Keys : rows[k][invDay] = counter(k)

MeteringInv == Inverter /\ Behaved /\ CycleReads /\ LedgerExact

-----------------------------------------------------------------------------
\* The day the inverter counts, as a number next to the days of the clock.
LEMMA InverterDays ==
    ASSUME IndInv, MeteringInv
    PROVE  /\ now \in Instants /\ now \in Nat /\ now \in Int
           /\ invDay \in Days /\ invDay \in Nat
           /\ Expected(now) \in Days /\ Expected(now) \in Nat
           /\ Expected(now) <= invDay
           /\ ~InWindow(now) => invDay = Expected(now)
           /\ InWindow(now) => /\ WindowAt(now).closing = Expected(now)
                               /\ WindowAt(now).opening = Expected(now) + 1
                               /\ Expected(now) + 1 \in Days
                               /\ invDay \in {Expected(now), Expected(now) + 1}
           /\ JustReset <=> InWindow(now) /\ invDay = Expected(now) + 1
           /\ \A k \in Keys, d \in Days : energy[k][d] \in Values /\ energy[k][d] \in Nat
<1>1. /\ now \in Instants /\ invDay \in Days /\ Expected(now) <= invDay /\ invDay <= Limit(now)
      /\ energy \in [Keys -> [Days -> Values]]
  BY DEF IndInv, TypeOK, MeteringInv, Inverter
<1>2. /\ now \in Nat /\ invDay \in Nat
      /\ Expected(now) \in Days /\ Expected(now) \in Nat /\ Limit(now) \in Days /\ Limit(now) \in Nat
      /\ InWindow(now) => /\ WindowAt(now).closing = Expected(now)
                          /\ WindowAt(now).opening = Expected(now) + 1
                          /\ Limit(now) = Expected(now) + 1
      /\ ~InWindow(now) => Limit(now) = Expected(now)
  BY <1>1, InstantDays, Numbers
<1>3. \A k \in Keys, d \in Days : energy[k][d] \in Values /\ energy[k][d] \in Nat
  BY <1>1, PollerAssumption
<1>4. JustReset <=> InWindow(now) /\ WindowAt(now).opening = invDay
  BY DEF JustReset
<1> QED BY <1>1, <1>2, <1>3, <1>4

\* The poller's share of a step is a step of Poller: it reads values.
LEMMA PollerSteps ==
    ASSUME IndInv, MeteringInv, [MeteringNext]_mvars
    PROVE  [Next]_vars
<1>1. ASSUME NEW status \in Statuses, Poll(status) PROVE Next
  <2>1. [k \in Keys |-> counter(k)] \in [Keys -> Values]
    BY InverterDays DEF counter
  <2>2. ReadAll([k \in Keys |-> counter(k)], status)
    BY <1>1 DEF Poll
  <2> QED BY <2>1, <2>2 DEF Next
<1>2. CASE Pass
  BY <1>2 DEF Pass, Next
<1>3. CASE Cycle
  BY <1>3 DEF Cycle, Next
<1>4. CASE NewInstance
  BY <1>4 DEF NewInstance, Next
<1>5. CASE ResetCounters
  BY <1>5 DEF ResetCounters
<1>6. ASSUME NEW k \in Keys, NEW v \in Values, Produce(k, v) PROVE UNCHANGED vars
  BY <1>6 DEF Produce
<1>7. CASE UNCHANGED mvars
  BY <1>7 DEF mvars
<1> QED BY <1>1, <1>2, <1>3, <1>4, <1>5, <1>6, <1>7 DEF MeteringNext

\* The midnight of a window is the start of the day it opens.
LEMMA Midnight ==
    ASSUME NEW t \in Int
    PROVE  WindowAt(t).midnight = DayMinutes * WindowAt(t).opening
BY DEF WindowAt, windowOn

\* What the inverter has counted and the clock decide Inverter.
LEMMA InverterKept == Inverter /\ UNCHANGED <<now, invDay, energy>> => Inverter'
BY DEF Inverter, JustReset, counter

\* A day without rows before the cutover, counters at 0.
LEMMA MeteringInitInv == MeteringInit => MeteringInv
<1> SUFFICES ASSUME MeteringInit PROVE MeteringInv
  OBVIOUS
<1> USE DEF NoDay, NoVal
<1>1. /\ now \in Instants /\ now \in Nat /\ invDay = Expected(now) /\ synced = FALSE
      /\ energy = [k \in Keys |-> [d \in Days |-> 0]]
      /\ cutover = Date(now)
  BY PollerAssumption DEF MeteringInit, Init
<1>2. /\ Expected(now) \in Days /\ Expected(now) \in Nat \ {0} /\ Expected(now) <= Limit(now)
      /\ Date(now) - 1 <= Expected(now) /\ Date(now) \in Nat
      /\ InWindow(now) => WindowAt(now).opening = Expected(now) + 1
  BY <1>1, InstantDays
<1>3. ~JustReset
  BY <1>1, <1>2 DEF JustReset
<1>4. Inverter
  BY <1>1, <1>2, <1>3, MeteringAssumption DEF Inverter
<1>5. /\ pc = "idle" /\ online = FALSE /\ todo = {} /\ ~seeded /\ confirmed = 0
      /\ \A k \in Keys : openDay[k] = 0
  BY DEF MeteringInit, Init, NoCycle, FreshMemory
<1>6. \A k \in Keys : closedDaily[k] \in {0, cutover - 2}
  BY DEF MeteringInit, Init
<1>7. \A k \in Keys, d \in Days : rows[k][d] = NoVal
  <2>1. PICK old \in [Keys -> Legacy \X Legacy] :
          rows = [k \in Keys |-> [d \in Days |->
                    IF d = cutover - 1 THEN old[k][1]
                    ELSE IF d = cutover /\ d <= Limit(now) THEN old[k][2]
                    ELSE NoVal]]
    BY DEF MeteringInit, Init
  <2>2. \A k \in Keys : old[k][1] = NoVal /\ old[k][2] = NoVal
    BY <2>1, MeteringAssumption
  <2> QED BY <2>1, <2>2
<1>8. Behaved
  BY <1>1, <1>2, <1>5, <1>6, <1>7 DEF Behaved, KeyBehaves, NoEnergyInvented
<1> QED BY <1>1, <1>4, <1>5, <1>8 DEF MeteringInv, CycleReads, LedgerExact

-----------------------------------------------------------------------------
\* The inverter and the clock, between two cycles.

\* Between cycles nothing is read; the ledger is not claimed to be exact.
LEMMA BetweenCycles ==
    ASSUME pc' = "idle", ~online', todo' = {}, ~synced'
    PROVE  CycleReads' /\ LedgerExact'
BY DEF CycleReads, LedgerExact

\* The idle poller stays behind an inverter that counts on.
LEMMA BehavedOn ==
    ASSUME IndInv, MeteringInv, pc = "idle", UNCHANGED vars,
           invDay' \in Nat, invDay <= invDay',
           \A k \in Keys, d \in Days : energy'[k][d] \in Nat /\ energy[k][d] <= energy'[k][d]
    PROVE  Behaved'
<1>1. \A k \in Keys, d \in Days : /\ rows'[k][d] <= energy'[k][d]
                                  /\ rows'[k][d] # NoVal => d <= invDay'
  <2> SUFFICES ASSUME NEW k \in Keys, NEW d \in Days
               PROVE  rows'[k][d] <= energy'[k][d] /\ (rows'[k][d] # NoVal => d <= invDay')
    OBVIOUS
  <2>1. /\ rows'[k][d] = rows[k][d] /\ rows[k][d] \in Int /\ d \in Nat
        /\ rows[k][d] <= energy[k][d] /\ (rows[k][d] # NoVal => d <= invDay)
        /\ energy[k][d] \in Nat /\ energy'[k][d] \in Nat /\ energy[k][d] <= energy'[k][d]
        /\ invDay \in Nat /\ invDay' \in Nat /\ invDay <= invDay'
    BY KeyNumbers, InverterDays DEF MeteringInv, Behaved, KeyBehaves, NoEnergyInvented, vars, db
  <2> QED BY <2>1
<1>2. \A k \in Keys : /\ openDay'[k] <= invDay' /\ closedDaily'[k] < invDay'
                      /\ seeded' => base'[k] <= energy'[k][openDay'[k]]
  <2> SUFFICES ASSUME NEW k \in Keys
               PROVE  /\ openDay'[k] <= invDay' /\ closedDaily'[k] < invDay'
                      /\ seeded' => base'[k] <= energy'[k][openDay'[k]]
    OBVIOUS
  <2>1. /\ openDay'[k] = openDay[k] /\ closedDaily'[k] = closedDaily[k] /\ base'[k] = base[k]
        /\ seeded' = seeded
        /\ openDay[k] \in Nat /\ closedDaily[k] \in Nat /\ base[k] \in Int
        /\ openDay[k] <= invDay /\ closedDaily[k] < invDay
        /\ seeded => openDay[k] \in Days /\ base[k] <= energy[k][openDay[k]]
        /\ invDay \in Nat /\ invDay' \in Nat /\ invDay <= invDay'
    BY KeyNumbers, InverterDays
    DEF IndInv, MemoryInv, MeteringInv, Behaved, KeyBehaves, vars, db, memory
  <2>2. CASE seeded
    <3>1. energy[k][openDay[k]] \in Nat /\ energy'[k][openDay[k]] \in Nat
          /\ energy[k][openDay[k]] <= energy'[k][openDay[k]]
      BY <2>1, <2>2, InverterDays
    <3> QED BY <2>1, <2>2, <3>1
  <2> QED BY <2>1, <2>2
<1>3. confirmed' <= invDay' /\ pc' = "idle"
  <2>1. /\ confirmed' = confirmed /\ confirmed \in Nat /\ confirmed <= invDay
        /\ invDay \in Nat /\ invDay' \in Nat /\ invDay <= invDay'
    BY InverterDays, Numbers DEF IndInv, TypeOK, MeteringInv, Behaved, vars, memory, NoDay
  <2>2. confirmed' <= invDay'
    BY <2>1
  <2> QED BY <2>2 DEF vars, cycle
<1> QED BY <1>1, <1>2, <1>3 DEF Behaved, KeyBehaves, NoEnergyInvented

\* A counter grows within its day; after the reset it does not hide it.
LEMMA ProduceInv ==
    ASSUME IndInv, MeteringInv, NEW k \in Keys, NEW v \in Values, Produce(k, v)
    PROVE  MeteringInv'
<1>1. /\ pc = "idle" /\ v > counter(k) /\ UNCHANGED <<vars, invDay>> /\ synced' = FALSE
      /\ energy' = [energy EXCEPT ![k][invDay] = v]
      /\ JustReset /\ energy[k][invDay - 1] > 0 => v <= energy[k][invDay - 1]
  BY DEF Produce
<1>2. /\ invDay \in Days /\ invDay \in Nat /\ energy \in [Keys -> [Days -> Values]]
      /\ v \in Nat /\ \A j \in Keys, d \in Days : energy[j][d] \in Nat
      /\ \A d \in Days : d \in Nat
      /\ now' = now /\ invDay' = invDay
  BY <1>1, InverterDays, PollerAssumption, Numbers DEF MeteringInv, Inverter, vars
<1>3. /\ energy' \in [Keys -> [Days -> Values]]
      /\ \A j \in Keys, d \in Days :
            energy'[j][d] = IF j = k /\ d = invDay THEN v ELSE energy[j][d]
  BY <1>1, <1>2
<1>4. Behaved'
  <2>1. \A j \in Keys, d \in Days : energy'[j][d] \in Nat /\ energy[j][d] <= energy'[j][d]
    BY <1>1, <1>2, <1>3 DEF counter
  <2> QED BY <1>1, <1>2, <2>1, BehavedOn
<1>5. Inverter'
  <2>1. JustReset' <=> JustReset
    BY <1>2 DEF JustReset
  <2>2. ASSUME JustReset
        PROVE  /\ now' >= WindowAt(now').midnight
               /\ \A j \in Keys : energy'[j][invDay - 1] > 0 => energy'[j][invDay] <= energy'[j][invDay - 1]
    <3>1. invDay - 1 \in Days /\ invDay - 1 # invDay
      BY <1>2, <2>2, InverterDays
    <3>2. /\ now >= WindowAt(now).midnight
          /\ \A j \in Keys : energy[j][invDay - 1] > 0 => energy[j][invDay] <= energy[j][invDay - 1]
      BY <2>2 DEF MeteringInv, Inverter, counter
    <3> QED BY <1>1, <1>2, <1>3, <2>2, <3>1, <3>2
  <2>3. \A j \in Keys, d \in Days : d > invDay => energy'[j][d] = 0
    BY <1>2, <1>3 DEF MeteringInv, Inverter
  <2> QED BY <1>2, <1>3, <2>1, <2>2, <2>3 DEF MeteringInv, Inverter, counter
<1>6. CycleReads' /\ LedgerExact'
  BY <1>1, BetweenCycles DEF vars, cycle, MeteringInv, CycleReads
<1> QED BY <1>4, <1>5, <1>6 DEF MeteringInv

\* All counters are reset together, inside a window and after midnight: the
\* new day is the one the window opens.
LEMMA ResetInv ==
    ASSUME IndInv, MeteringInv, ResetCounters
    PROVE  MeteringInv'
<1>1. /\ pc = "idle" /\ InWindow(now) /\ now >= WindowAt(now).midnight
      /\ WindowAt(now).opening = invDay + 1
      /\ invDay' = invDay + 1 /\ synced' = FALSE /\ UNCHANGED <<vars, energy>>
  BY DEF ResetCounters, ResetWindow
<1>2. /\ invDay \in Nat /\ invDay \in Days /\ invDay = Expected(now) /\ invDay + 1 \in Days
      /\ Limit(now) = invDay + 1 /\ now' = now
      /\ \A k \in Keys, d \in Days : energy[k][d] \in Nat
      /\ \A d \in Days : d \in Nat
  BY <1>1, InverterDays, InstantDays, Numbers DEF vars
<1>3. Behaved'
  <2>1. invDay' \in Nat /\ invDay <= invDay' /\ UNCHANGED vars
    BY <1>1, <1>2
  <2>2. \A k \in Keys, d \in Days : energy'[k][d] \in Nat /\ energy[k][d] <= energy'[k][d]
    BY <1>1, <1>2
  <2> QED BY <1>1, <2>1, <2>2, BehavedOn
<1>4. \A k \in Keys, d \in Days : d > invDay => energy[k][d] = 0
  BY DEF MeteringInv, Inverter
<1>5. Inverter'
  <2>1. ASSUME NEW k \in Keys, NEW d \in Days, d > invDay + 1
        PROVE  energy[k][d] = 0
    <3>1. invDay \in Nat /\ d \in Nat
      BY <1>2
    <3>2. d > invDay
      BY <2>1, <3>1
    <3> QED BY <1>4, <3>2
  <2>2. \A k \in Keys : energy[k][invDay + 1] = 0 /\ energy[k][invDay + 1 - 1] \in Nat
    BY <1>2, <1>4
  <2>3. \A k \in Keys : energy[k][invDay + 1 - 1] > 0 => energy[k][invDay + 1] <= energy[k][invDay + 1 - 1]
    BY <2>2
  <2>4. energy' = energy /\ energy \in [Keys -> [Days -> Values]]
    BY <1>1 DEF MeteringInv, Inverter
  <2> QED BY <1>1, <1>2, <2>1, <2>3, <2>4 DEF Inverter, counter
<1>6. CycleReads' /\ LedgerExact'
  BY <1>1, BetweenCycles DEF vars, cycle, MeteringInv, CycleReads
<1> QED BY <1>3, <1>5, <1>6 DEF MeteringInv

\* Time passes no window in which the inverter has not reset; a window it has
\* reset in is still the same one, as its opening day is.
LEMMA PassInv ==
    ASSUME IndInv, MeteringInv, Pass
    PROVE  MeteringInv'
<1>1. /\ pc = "idle" /\ now' \in Instants /\ now' > now /\ Expected(now') <= invDay
      /\ synced' = FALSE /\ UNCHANGED <<invDay, energy>>
      /\ UNCHANGED <<cycle, memory, health, db, outputs>>
  BY DEF Pass, Tick
<1>2. now \in Int /\ now' \in Int /\ now <= now' /\ invDay \in Nat
  BY <1>1, InverterDays, Numbers
<1>3. /\ Expected(now) <= Expected(now') /\ Limit(now) <= Limit(now')
      /\ Limit(now) \in Nat /\ Limit(now') \in Nat /\ Expected(now) \in Nat /\ Expected(now') \in Nat
      /\ Expected(now) <= invDay /\ invDay <= Limit(now)
      /\ InWindow(now') => WindowAt(now').opening = Expected(now') + 1
      /\ ~InWindow(now) => Limit(now) = Expected(now)
      /\ InWindow(now) => WindowAt(now).opening = Expected(now) + 1
  BY <1>1, <1>2, RolloverMonotone, InstantDays, InverterDays DEF MeteringInv, Inverter
<1>4. ASSUME JustReset'
      PROVE  JustReset /\ WindowAt(now').opening = WindowAt(now).opening
  <2>1. InWindow(now') /\ invDay = Expected(now') + 1 /\ WindowAt(now').opening = invDay
    BY <1>1, <1>3, <1>4 DEF JustReset
  <2>2. Expected(now) < invDay
    BY <1>2, <1>3, <2>1
  <2>3. InWindow(now) /\ invDay = Expected(now) + 1
    BY <1>2, <1>3, <2>2, InverterDays
  <2> QED BY <1>3, <2>1, <2>3 DEF JustReset
<1>5. ASSUME JustReset' PROVE now' >= WindowAt(now').midnight
  <2>1. /\ WindowAt(now).midnight = DayMinutes * WindowAt(now).opening
        /\ WindowAt(now').midnight = DayMinutes * WindowAt(now').opening
    BY <1>2, Midnight
  <2>2. now >= WindowAt(now).midnight /\ WindowAt(now).opening = invDay
    BY <1>4, <1>5 DEF MeteringInv, Inverter, JustReset
  <2> QED BY <1>1, <1>2, <1>4, <1>5, <2>1, <2>2 DEF DayMinutes
<1>6. Inverter'
  <2>1. Expected(now') <= invDay /\ invDay <= Limit(now')
    BY <1>1, <1>2, <1>3
  <2> QED BY <1>1, <1>4, <1>5, <2>1 DEF MeteringInv, Inverter, counter
<1>7. Behaved'
  BY <1>1 DEF MeteringInv, Behaved, KeyBehaves, NoEnergyInvented, cycle, memory, db
<1>8. CycleReads' /\ LedgerExact'
  BY <1>1, BetweenCycles DEF cycle, MeteringInv, CycleReads
<1> QED BY <1>6, <1>7, <1>8 DEF MeteringInv

-----------------------------------------------------------------------------
\* The poll cycle.

\* A step that leaves the rows alone and ends no Healthy cycle keeps the ledger
\* as exact as it was.
LEMMA ExactKept ==
    ASSUME MeteringInv, UNCHANGED <<now, invDay, energy, rows>>, synced' => synced
    PROVE  LedgerExact'
BY DEF MeteringInv, LedgerExact, counter

\* BeginCycle captures the clock.
LEMMA BeginCycleMetering ==
    ASSUME IndInv, MeteringInv, BeginCycle, UNCHANGED <<invDay, energy>>, synced' => synced
    PROVE  MeteringInv'
<1>1. /\ pc = "idle" /\ pc' = "begin" /\ start' = now
      /\ UNCHANGED <<now, online, todo, memory, health, db>>
  BY DEF BeginCycle
<1>2. Inverter' /\ LedgerExact'
  BY <1>1, InverterKept, ExactKept DEF MeteringInv, db
<1>3. Behaved'
  BY <1>1 DEF MeteringInv, Behaved, KeyBehaves, NoEnergyInvented, memory, db
<1>4. CycleReads'
  BY <1>1 DEF MeteringInv, CycleReads
<1> QED BY <1>2, <1>3, <1>4 DEF MeteringInv

\* A cycle that ends without success loses its own state only.
LEMMA EndCycleMetering ==
    ASSUME IndInv, MeteringInv, NEW h, EndCycle(h), UNCHANGED <<memory, db>>,
           UNCHANGED <<invDay, energy>>, synced' => synced
    PROVE  MeteringInv'
<1>1. pc' = "idle" /\ online' = FALSE /\ todo' = {} /\ now' = now
  BY DEF EndCycle, ResetCycle
<1>2. Inverter' /\ LedgerExact'
  BY <1>1, InverterKept, ExactKept DEF MeteringInv, db
<1>3. Behaved'
  BY <1>1 DEF MeteringInv, Behaved, KeyBehaves, NoEnergyInvented, memory, db
<1>4. CycleReads'
  BY <1>1 DEF CycleReads
<1> QED BY <1>2, <1>3, <1>4 DEF MeteringInv

\* Seed: a row of the new day or the watermark of the old one shows that the
\* inverter has reset.
LEMMA SeedMetering ==
    ASSUME IndInv, MeteringInv, Seed, UNCHANGED <<invDay, energy>>, synced' => synced
    PROVE  MeteringInv'
<1>1. /\ pc = "begin" /\ ~seeded /\ start = now
      /\ openDay' = [k \in Keys |-> SeedDay(k)]
      /\ base' = [k \in Keys |-> rows[k][SeedDay(k)]]
      /\ confirmed' = IF \E k \in Keys : HasAdvanced(k) THEN WindowAt(start).opening ELSE confirmed
      /\ UNCHANGED <<now, cycle, db>>
  BY DEF Seed, MeteringInv, Behaved
<1>2. Inverter' /\ LedgerExact'
  BY <1>1, InverterKept, ExactKept DEF MeteringInv, db
<1>3. ASSUME NEW k \in Keys, HasAdvanced(k)
      PROVE  SeedDay(k) <= invDay /\ WindowAt(start).opening <= invDay
  <2>1. /\ InWindow(now)
        /\ rows[k][WindowAt(now).opening] # NoVal \/ closedDaily[k] >= Expected(now)
    BY <1>1, <1>3 DEF HasAdvanced
  <2>2. /\ WindowAt(now).opening = Expected(now) + 1 /\ Expected(now) + 1 \in Days
        /\ Expected(now) \in Nat /\ invDay \in Nat
    BY <2>1, InverterDays
  <2>3. /\ closedDaily[k] < invDay /\ closedDaily[k] \in Nat
        /\ \A d \in Days : rows[k][d] # NoVal => d <= invDay
    BY KeyNumbers DEF MeteringInv, Behaved, KeyBehaves
  <2>4. WindowAt(now).opening <= invDay
    BY <2>1, <2>2, <2>3
  <2> QED BY <1>1, <1>3, <2>4 DEF SeedDay
<1>4. ASSUME NEW k \in Keys PROVE SeedDay(k) <= invDay /\ SeedDay(k) \in Days
  <2>1. SeedDay(k) \in Days
    BY <1>1, SeedKey
  <2>2. ~HasAdvanced(k) => SeedDay(k) <= invDay
    BY <1>1, InverterDays DEF SeedDay
  <2> QED BY <1>3, <2>1, <2>2
<1>5. confirmed' <= invDay
  BY <1>1, <1>3 DEF MeteringInv, Behaved
<1>6. ASSUME NEW k \in Keys PROVE KeyBehaves(k)'
  <2>1. openDay'[k] = SeedDay(k) /\ base'[k] = rows[k][SeedDay(k)]
    BY <1>1
  <2>2. rows[k][SeedDay(k)] <= energy[k][SeedDay(k)]
    BY <1>4 DEF MeteringInv, Behaved, NoEnergyInvented
  <2>3. rows' = rows /\ closedDaily' = closedDaily
    BY <1>1 DEF db
  <2> QED BY <1>4, <2>1, <2>2, <2>3 DEF MeteringInv, Behaved, KeyBehaves
<1>7. Behaved'
  BY <1>1, <1>5, <1>6 DEF MeteringInv, Behaved, NoEnergyInvented, cycle, db
<1>8. CycleReads'
  BY <1>1 DEF MeteringInv, CycleReads, cycle
<1> QED BY <1>2, <1>7, <1>8 DEF MeteringInv

\* ForceClose moves a key to the expected day at most, without a base.
LEMMA ForceCloseMetering ==
    ASSUME IndInv, MeteringInv, pc = "begin", seeded, ForceClose, UNCHANGED <<invDay, energy>>,
           UNCHANGED <<now, seeded, confirmed, db>>, pc' # "idle" => start' = start
    PROVE  Behaved' /\ \A k \in Keys : Expected(now) <= openDay'[k]
<1>1. start = now
  BY DEF MeteringInv, Behaved
<1>2. ASSUME NEW k \in Keys
      PROVE  KeyBehaves(k)' /\ Expected(now) <= openDay'[k]
  <2>1. /\ openDay'[k] = IF Behind(k) THEN Expected(now) ELSE openDay[k]
        /\ base'[k] = IF Behind(k) THEN NoVal ELSE base[k]
        /\ rows' = rows /\ closedDaily' = closedDaily /\ seeded
    BY <1>1 DEF ForceClose, db
  <2>2. /\ openDay[k] \in Days /\ openDay[k] \in Nat
        /\ Expected(now) \in Days /\ Expected(now) \in Nat /\ Expected(now) <= invDay
    BY KeyNumbers, InverterDays DEF IndInv, MemoryInv
  <2>3. energy[k][Expected(now)] \in Nat
    BY <2>2, InverterDays
  <2>4. CASE Behind(k)
    BY <2>1, <2>2, <2>3, <2>4 DEF NoVal, MeteringInv, Behaved, KeyBehaves
  <2>5. CASE ~Behind(k)
    <3>1. openDay[k] # NoDay /\ Expected(now) <= openDay[k]
      BY <1>1, <2>2, <2>5, Numbers DEF Behind, NoDay
    <3> QED BY <2>1, <2>5, <3>1 DEF MeteringInv, Behaved, KeyBehaves
  <2> QED BY <2>4, <2>5
<1>3. (pc # "idle" => start = now)' /\ confirmed' <= invDay'
  BY <1>1 DEF MeteringInv, Behaved
<1>4. NoEnergyInvented'
  BY DEF MeteringInv, Behaved, NoEnergyInvented, db
<1> QED BY <1>2, <1>3, <1>4 DEF Behaved

\* Without Modbus a cycle only closes: it writes no row.
LEMMA DisconnectedMetering ==
    ASSUME IndInv, MeteringInv, Disconnected, UNCHANGED <<invDay, energy>>, synced' => synced
    PROVE  MeteringInv'
<1>1. /\ pc = "begin" /\ seeded /\ ForceClose /\ UNCHANGED <<now, seeded, confirmed, db>>
      /\ \/ pc' = "persist" /\ UNCHANGED <<start, online, todo>>
         \/ pc' = "idle" /\ online' = FALSE /\ todo' = {}
  BY DEF Disconnected, EndCycle, ResetCycle
<1>2. Inverter' /\ LedgerExact'
  BY <1>1, InverterKept, ExactKept DEF MeteringInv, db
<1>3. Behaved'
  BY <1>1, ForceCloseMetering
<1>4. CycleReads'
  BY <1>1 DEF MeteringInv, CycleReads
<1> QED BY <1>2, <1>3, <1>4 DEF MeteringInv

\* A read takes the counters as they are, after the keys caught up.
LEMMA PollMetering ==
    ASSUME IndInv, MeteringInv, NEW status \in Statuses, Poll(status)
    PROVE  MeteringInv'
<1>1. /\ pc = "begin" /\ seeded /\ ForceClose /\ pc' = "persist" /\ start' = start
      /\ reading' = [k \in Keys |-> counter(k)] /\ todo' = Keys
      /\ UNCHANGED <<now, seeded, confirmed, db, invDay, energy, synced>>
  BY DEF Poll, ReadAll, inverter
<1>2. Inverter' /\ LedgerExact'
  BY <1>1, InverterKept, ExactKept DEF MeteringInv, db
<1>3. Behaved' /\ \A k \in Keys : Expected(now) <= openDay'[k]
  BY <1>1, ForceCloseMetering
<1>4. online' = TRUE
  BY DEF Poll, ReadAll
<1>5. CycleReads'
  BY <1>1, <1>3, <1>4 DEF CycleReads, counter
<1> QED BY <1>2, <1>3, <1>5 DEF MeteringInv

\* What attribution knows of the key it visits.
LEMMA VisitedReading ==
    ASSUME IndInv, MeteringInv, NEW k \in Keys, Visit(k)
    PROVE  /\ start = now /\ reading[k] = counter(k) /\ counter(k) = energy[k][invDay]
           /\ openDay[k] \in Nat /\ openDay[k] \in Days
           /\ Expected(now) <= openDay[k] /\ openDay[k] <= invDay
           /\ base[k] \in Int /\ base[k] <= energy[k][openDay[k]]
           /\ energy[k][openDay[k]] \in Nat /\ energy[k][invDay] \in Nat
<1>1. pc = "persist" /\ k \in todo /\ seeded /\ openDay[k] \in Days /\ openDay[k] \in Nat
  BY VisitedKey, KeyNumbers DEF Visit
<1>2. online
  BY <1>1 DEF MeteringInv, CycleReads
<1>3. reading[k] = counter(k) /\ Expected(now) <= openDay[k]
  BY <1>1, <1>2 DEF MeteringInv, CycleReads
<1>4. start = now /\ openDay[k] <= invDay /\ base[k] <= energy[k][openDay[k]]
  BY <1>1 DEF MeteringInv, Behaved, KeyBehaves
<1>5. base[k] \in Int /\ energy[k][openDay[k]] \in Nat /\ energy[k][invDay] \in Nat
  BY <1>1, KeyNumbers, InverterDays
<1> QED BY <1>1, <1>3, <1>4, <1>5 DEF counter

\* The value is written under d, of whose count it is a part; outside the
\* windows d is the inverter's day.
LEMMA WriteUnderMetering ==
    ASSUME IndInv, MeteringInv, NEW k \in Keys, Visit(k), UNCHANGED <<invDay, energy>>,
           synced' => synced, NEW d \in Days, WriteUnder(k, d),
           Expected(now) <= d, d <= invDay, reading[k] <= energy[k][d],
           ~InWindow(now) => d = invDay,
           confirmed' <= invDay
    PROVE  MeteringInv'
<1>1. /\ pc = "persist" /\ k \in todo /\ todo' = todo \ {k}
      /\ UNCHANGED <<now, pc, start, online, reading, seeded, db>>
      /\ openDay' = [openDay EXCEPT ![k] = d] /\ base' = [base EXCEPT ![k] = reading[k]]
      /\ target' = [target EXCEPT ![k] = d]
  BY DEF Visit, WriteUnder
<1>2. /\ openDay \in [Keys -> Days \cup {NoDay}] /\ base \in [Keys -> Values \cup {NoVal}]
      /\ target \in [Keys -> Days \cup {NoDay}]
  BY DEF IndInv, TypeOK
<1>3. \A j \in Keys : /\ openDay'[j] = IF j = k THEN d ELSE openDay[j]
                      /\ base'[j] = IF j = k THEN reading[k] ELSE base[j]
                      /\ target'[j] = IF j = k THEN d ELSE target[j]
  BY <1>1, <1>2
<1>4. Inverter' /\ LedgerExact'
  BY <1>1, InverterKept, ExactKept DEF MeteringInv, db
<1>5. \A j \in Keys : KeyBehaves(j)'
  BY <1>1, <1>3 DEF MeteringInv, Behaved, KeyBehaves, db
<1>6. Behaved'
  BY <1>1, <1>5 DEF MeteringInv, Behaved, NoEnergyInvented, db
<1>7. CycleReads'
  BY <1>1, <1>3 DEF MeteringInv, CycleReads, counter
<1> QED BY <1>4, <1>6, <1>7 DEF MeteringInv

\* A key is discarded only inside a window: outside, no counter decreases.
LEMMA DiscardMetering ==
    ASSUME IndInv, MeteringInv, NEW k \in Keys, Visit(k), UNCHANGED <<invDay, energy>>,
           synced' => synced, Discard, InWindow(now)
    PROVE  MeteringInv'
<1>1. /\ pc = "persist" /\ todo' = todo \ {k}
      /\ UNCHANGED <<now, pc, start, online, reading, seeded, db, target, openDay, base, confirmed>>
  BY DEF Visit, Discard
<1>2. Inverter' /\ LedgerExact'
  BY <1>1, InverterKept, ExactKept DEF MeteringInv, db
<1>3. Behaved'
  BY <1>1 DEF MeteringInv, Behaved, KeyBehaves, NoEnergyInvented, db
<1>4. CycleReads'
  BY <1>1 DEF MeteringInv, CycleReads, counter
<1> QED BY <1>2, <1>3, <1>4 DEF MeteringInv

\* Attribution: after the reset what a key of the closing day reads is held,
\* moved to the new day or, when it is below what the key had counted, taken
\* for growth, which the closing day can bear.
LEMMA AttributeMetering ==
    ASSUME IndInv, MeteringInv, NEW k \in Keys, AttributeKey(k), UNCHANGED <<invDay, energy>>,
           synced' => synced
    PROVE  MeteringInv'
<1>1. Visit(k)
  BY DEF AttributeKey, FollowReset, Hold, Accept, ConfirmReset, DiscardDecrease
<1>2. /\ start = now /\ reading[k] = energy[k][invDay]
      /\ openDay[k] \in Nat /\ openDay[k] \in Days
      /\ Expected(now) <= openDay[k] /\ openDay[k] <= invDay
      /\ base[k] \in Int /\ base[k] <= energy[k][openDay[k]]
      /\ energy[k][openDay[k]] \in Nat /\ energy[k][invDay] \in Nat
  BY <1>1, VisitedReading
<1>3. /\ invDay \in Days /\ invDay \in Nat /\ Expected(now) \in Nat
      /\ ~InWindow(now) => invDay = Expected(now)
      /\ InWindow(now) => /\ WindowAt(now).closing = Expected(now)
                          /\ WindowAt(now).opening = Expected(now) + 1
                          /\ Expected(now) + 1 \in Days
                          /\ invDay \in {Expected(now), Expected(now) + 1}
      /\ JustReset <=> InWindow(now) /\ invDay = Expected(now) + 1
  BY InverterDays
<1>4. confirmed <= invDay
  BY DEF MeteringInv, Behaved
<1>5. ASSUME Closes(k), WriteUnder(k, WindowAt(start).opening), invDay = Expected(now) + 1,
             confirmed' \in {confirmed, WindowAt(start).opening}
      PROVE  MeteringInv'
  <2>1. InWindow(now) /\ WindowAt(start).opening = invDay
    BY <1>2, <1>3, <1>5 DEF Closes
  <2>2. /\ WriteUnder(k, invDay) /\ confirmed' <= invDay /\ Expected(now) <= invDay
        /\ reading[k] <= energy[k][invDay] /\ invDay <= invDay
    BY <1>2, <1>3, <1>4, <1>5, <2>1
  <2> QED BY <1>1, <1>3, <2>2, WriteUnderMetering
<1>6. CASE FollowReset(k)
  <2>1. /\ Closes(k) /\ confirmed = WindowAt(start).opening
        /\ WriteUnder(k, WindowAt(start).opening) /\ confirmed' = confirmed
    BY <1>6 DEF FollowReset, Blind, ResetConfirmed
  <2>2. InWindow(now) /\ confirmed = Expected(now) + 1
    BY <1>2, <1>3, <2>1 DEF Closes
  <2>3. invDay = Expected(now) + 1
    BY <1>3, <1>4, <2>2
  <2> QED BY <1>5, <2>1, <2>3
<1>7. CASE ConfirmReset(k)
  <2>1. /\ Closes(k) /\ base[k] # NoVal /\ ~(reading[k] >= base[k])
        /\ WriteUnder(k, WindowAt(start).opening) /\ confirmed' = WindowAt(start).opening
    BY <1>7 DEF ConfirmReset, ShowsReset, Fits
  <2>2. InWindow(now) /\ openDay[k] = Expected(now)
    BY <1>2, <1>3, <2>1 DEF Closes
  <2>3. openDay[k] # invDay
    BY <1>2, <2>1
  <2>4. invDay = Expected(now) + 1
    BY <1>3, <2>2, <2>3
  <2> QED BY <1>5, <2>1, <2>4
<1>8. CASE Hold(k)
  <2>1. Discard /\ InWindow(now)
    BY <1>2, <1>8 DEF Hold, BlindRule, Blind, Closes
  <2> QED BY <1>1, <2>1, DiscardMetering
<1>9. CASE DiscardDecrease(k)
  <2>1. Discard /\ ~(reading[k] >= base[k])
    BY <1>9 DEF DiscardDecrease, Fits
  <2>2. openDay[k] # invDay
    BY <1>2, <2>1
  <2>3. InWindow(now)
    BY <1>2, <1>3, <2>2
  <2> QED BY <1>1, <2>1, <2>3, DiscardMetering
<1>10. CASE Accept(k)
  <2>1. ~BlindRule(k) /\ Fits(k) /\ WriteUnder(k, openDay[k]) /\ confirmed' = confirmed
    BY <1>10 DEF Accept
  <2>2. ASSUME openDay[k] # invDay PROVE energy[k][invDay] <= energy[k][openDay[k]]
    <3>1. InWindow(now) /\ openDay[k] = Expected(now) /\ invDay = Expected(now) + 1
      BY <1>2, <1>3, <2>2
    <3>2. /\ now >= WindowAt(now).midnight
          /\ energy[k][invDay - 1] > 0 => energy[k][invDay] <= energy[k][invDay - 1]
      BY <1>3, <3>1 DEF MeteringInv, Inverter, counter
    <3>3. Closes(k)
      BY <1>2, <1>3, <3>1 DEF Closes
    <3>4. ~(base[k] <= 0)
      BY <1>2, <2>1, <3>2, <3>3 DEF BlindRule, Blind
    <3>5. invDay - 1 = openDay[k]
      BY <1>2, <1>3, <3>1
    <3> QED BY <1>2, <3>2, <3>4, <3>5
  <2>3. reading[k] <= energy[k][openDay[k]]
    BY <1>2, <2>2
  <2>4. ~InWindow(now) => openDay[k] = invDay
    BY <1>2, <1>3
  <2> QED BY <1>1, <1>2, <1>4, <2>1, <2>3, <2>4, WriteUnderMetering
<1> QED BY <1>6, <1>7, <1>8, <1>9, <1>10 DEF AttributeKey

\* The transaction stores what was attributed, which the inverter has counted.
LEMMA CommitMetering ==
    ASSUME IndInv, MeteringInv, Commit, IndInv', UNCHANGED <<invDay, energy>>, synced' => synced
    PROVE  MeteringInv'
<1>1. /\ pc = "persist" /\ todo = {} /\ pc' = "publish"
      /\ UNCHANGED <<now, start, online, reading, target, seeded, openDay, base, confirmed>>
      /\ \A k \in Keys : rows'[k] = WriteDaily(rows[k], closedDaily[k], target[k], reading[k])
  BY DEF Commit
<1>2. seeded
  BY <1>1 DEF IndInv, CycleInv
<1>3. ASSUME NEW k \in Keys
      PROVE  /\ openDay[k] \in Days /\ openDay[k] \in Nat /\ openDay[k] <= invDay
             /\ closedDaily[k] \in Nat /\ closedDaily[k] < openDay[k]
             /\ closedDaily'[k] \in Nat /\ closedDaily'[k] < openDay[k]
             /\ base[k] <= energy[k][openDay[k]]
             /\ target[k] # NoDay => target[k] = openDay[k] /\ reading[k] = base[k]
             /\ target[k] \in Nat /\ reading[k] \in Int /\ base[k] \in Int
             /\ rows[k] \in [Days -> Values \cup {NoVal}]
             /\ invDay \in Nat
  BY <1>1, <1>2, KeyNumbers, CommitKey, InverterDays
  DEF IndInv, TypeOK, CycleInv, MemoryInv, DaysInv, MeteringInv, Behaved, KeyBehaves
<1>4. ASSUME NEW k \in Keys, NEW d \in Days
      PROVE  /\ rows'[k][d] \in Int /\ rows[k][d] <= rows'[k][d] /\ rows'[k][d] <= energy[k][d]
             /\ rows'[k][d] # NoVal => d <= invDay
             /\ target[k] = d => reading[k] <= rows'[k][d]
  <2>1. /\ rows[k][d] \in Int /\ rows[k][d] <= energy[k][d] /\ (rows[k][d] # NoVal => d <= invDay)
        /\ d \in Nat /\ d # NoDay /\ energy[k][d] \in Nat
    BY KeyNumbers, InverterDays DEF MeteringInv, Behaved, KeyBehaves, NoEnergyInvented, NoDay
  <2>2. CASE target[k] = openDay[k] /\ reading[k] = base[k] /\ reading[k] > rows[k][openDay[k]]
    <3>1. rows'[k] = [rows[k] EXCEPT ![openDay[k]] = reading[k]]
      BY <1>1, <1>3, <2>2 DEF WriteDaily
    <3> QED BY <1>3, <2>1, <2>2, <3>1
  <2>3. CASE target[k] = NoDay
    <3>1. ~(target[k] > closedDaily[k])
      BY <1>3, <2>3 DEF NoDay
    <3>2. rows'[k] = rows[k]
      BY <1>1, <3>1 DEF WriteDaily
    <3> QED BY <2>1, <2>3, <3>2
  <2>4. CASE target[k] = openDay[k] /\ ~(reading[k] > rows[k][openDay[k]])
    <3>1. rows'[k] = rows[k]
      BY <1>1, <2>4 DEF WriteDaily
    <3>2. target[k] = d => reading[k] <= rows[k][d]
      BY <1>3, <2>1, <2>4
    <3> QED BY <2>1, <3>1, <3>2
  <2> QED BY <1>3, <2>2, <2>3, <2>4
<1>5. Inverter'
  BY <1>1, InverterKept DEF MeteringInv
<1>6. ASSUME NEW k \in Keys PROVE KeyBehaves(k)'
  <2>1. closedDaily'[k] < invDay
    BY <1>3
  <2> QED BY <1>1, <1>3, <1>4, <2>1 DEF KeyBehaves
<1>7. Behaved'
  BY <1>1, <1>4, <1>6 DEF MeteringInv, Behaved, NoEnergyInvented
<1>8. ASSUME online, ~InWindow(now), NEW k \in Keys PROVE rows'[k][invDay] = counter(k)
  <2>1. target[k] = invDay /\ reading[k] = counter(k)
    BY <1>1, <1>8 DEF MeteringInv, CycleReads
  <2>2. counter(k) \in Nat /\ counter(k) = energy[k][invDay] /\ invDay \in Days
    BY InverterDays DEF counter
  <2> QED BY <1>4, <2>1, <2>2
<1>9. CycleReads'
  BY <1>1, <1>8 DEF MeteringInv, CycleReads, counter
<1>10. LedgerExact'
  <2> SUFFICES ASSUME synced, ~InWindow(now), NEW k \in Keys PROVE rows'[k][invDay] = counter(k)
    BY <1>1 DEF LedgerExact, counter
  <2>1. rows[k][invDay] = counter(k)
    BY DEF MeteringInv, LedgerExact
  <2>2. counter(k) \in Nat /\ counter(k) = energy[k][invDay] /\ invDay \in Days
    BY InverterDays DEF counter
  <2>3. /\ rows'[k][invDay] \in Int /\ rows[k][invDay] <= rows'[k][invDay]
        /\ rows'[k][invDay] <= energy[k][invDay]
    BY <1>4, <2>2
  <2> QED BY <2>1, <2>2, <2>3
<1> QED BY <1>5, <1>7, <1>9, <1>10 DEF MeteringInv

\* The events change no row.
LEMMA PublishCloseMetering ==
    ASSUME IndInv, MeteringInv, NEW k \in Keys, PublishClose(k), UNCHANGED <<invDay, energy>>,
           synced' => synced
    PROVE  MeteringInv'
<1>1. /\ pc = "publish"
      /\ UNCHANGED <<now, pc, start, online, reading, target, seeded, openDay, base, confirmed, db>>
  BY DEF PublishClose
<1>2. Inverter' /\ LedgerExact'
  BY <1>1, InverterKept, ExactKept DEF MeteringInv, db
<1>3. Behaved'
  BY <1>1 DEF MeteringInv, Behaved, KeyBehaves, NoEnergyInvented, db
<1>4. CycleReads'
  BY <1>1 DEF MeteringInv, CycleReads, counter, db
<1> QED BY <1>2, <1>3, <1>4 DEF MeteringInv

\* The end of a Healthy cycle: the ledger is what the inverter shows.
LEMMA FinishCycleMetering ==
    ASSUME IndInv, MeteringInv, FinishCycle, UNCHANGED <<invDay, energy>>,
           synced' => synced \/ health' = "Healthy"
    PROVE  MeteringInv'
<1>1. /\ pc = "publish" /\ pc' = "idle" /\ online' = FALSE /\ todo' = {}
      /\ health' = (IF online THEN "Healthy" ELSE "Recovering")
      /\ UNCHANGED <<now, memory, db>>
  BY DEF FinishCycle, EndCycle, ResetCycle
<1>2. Inverter'
  BY <1>1, InverterKept DEF MeteringInv
<1>3. Behaved'
  BY <1>1 DEF MeteringInv, Behaved, KeyBehaves, NoEnergyInvented, memory, db
<1>4. CycleReads'
  BY <1>1 DEF CycleReads
<1>5. LedgerExact'
  BY <1>1 DEF MeteringInv, CycleReads, LedgerExact, counter, db
<1> QED BY <1>2, <1>3, <1>4, <1>5 DEF MeteringInv

\* A fresh instance knows nothing that could be ahead of the inverter.
LEMMA NewInstanceMetering ==
    ASSUME IndInv, MeteringInv, NewInstance
    PROVE  MeteringInv'
<1>1. /\ seeded' = FALSE /\ confirmed' = NoDay /\ \A k \in Keys : openDay'[k] = NoDay
      /\ pc' = "idle" /\ online' = FALSE /\ todo' = {} /\ synced' = FALSE
      /\ UNCHANGED <<now, db, invDay, energy>>
  BY DEF NewInstance, Restart, Crash, ResetMemory, ResetCycle, cycle, MeteringInv, CycleReads
<1>2. Inverter'
  BY <1>1, InverterKept DEF MeteringInv
<1>3. Behaved'
  <2>1. invDay \in Nat
    BY InverterDays
  <2> QED BY <1>1, <2>1 DEF MeteringInv, Behaved, KeyBehaves, NoEnergyInvented, db, NoDay
<1>4. CycleReads' /\ LedgerExact'
  BY <1>1, BetweenCycles
<1> QED BY <1>2, <1>3, <1>4 DEF MeteringInv

\* The steps of a cycle: only its Healthy end makes the ledger exact.
LEMMA CycleMetering ==
    ASSUME IndInv, IndInv', MeteringInv, Cycle
    PROVE  MeteringInv'
<1>1. CycleStep /\ UNCHANGED <<invDay, energy>>
  BY DEF Cycle
<1>2. synced' = (synced \/ (health' = "Healthy" /\ pc' = "idle"))
  BY DEF Cycle
<1>3. CASE BeginCycle
  <2>1. synced' => synced
    BY <1>2, <1>3 DEF BeginCycle
  <2> QED BY <1>1, <1>3, <2>1, BeginCycleMetering
<1>4. CASE Seed
  <2>1. synced' => synced
    BY <1>2, <1>4 DEF Seed, cycle
  <2> QED BY <1>1, <1>4, <2>1, SeedMetering
<1>5. CASE SeedFails \/ ReadFails \/ WriteFails
  <2>1. EndCycle("Recovering") /\ UNCHANGED <<memory, db>>
    BY <1>5 DEF SeedFails, ReadFails, WriteFails
  <2>2. synced' => synced
    BY <1>2, <2>1 DEF EndCycle
  <2> QED BY <1>1, <2>1, <2>2, EndCycleMetering
<1>6. CASE Disconnected
  <2>1. synced' => synced
    BY <1>2, <1>6 DEF Disconnected, EndCycle
  <2> QED BY <1>1, <1>6, <2>1, DisconnectedMetering
<1>7. ASSUME NEW k \in Keys, AttributeKey(k) PROVE MeteringInv'
  <2>1. pc' = "persist"
    BY <1>7 DEF AttributeKey, FollowReset, Hold, Accept, ConfirmReset, DiscardDecrease, Visit
  <2>2. synced' => synced
    BY <1>2, <2>1
  <2> QED BY <1>1, <1>7, <2>2, AttributeMetering
<1>8. CASE Commit
  <2>1. synced' => synced
    BY <1>2, <1>8 DEF Commit
  <2> QED BY <1>1, <1>8, <2>1, CommitMetering
<1>9. ASSUME NEW k \in Keys, PublishClose(k) PROVE MeteringInv'
  <2>1. synced' => synced
    BY <1>2, <1>9 DEF PublishClose
  <2> QED BY <1>1, <1>9, <2>1, PublishCloseMetering
<1>10. CASE FinishCycle
  BY <1>1, <1>2, <1>10, FinishCycleMetering
<1> QED BY <1>1, <1>3, <1>4, <1>5, <1>6, <1>7, <1>8, <1>9, <1>10 DEF CycleStep

-----------------------------------------------------------------------------
\* The theorems.

\* The poller in front of an honest inverter: both invariants hold in every
\* behaviour.
THEOREM MeteringInvariant == MeteringSpec => [](IndInv /\ MeteringInv)
<1>1. MeteringInit => IndInv /\ MeteringInv
  BY InitInv, MeteringInitInv DEF MeteringInit
<1>2. IndInv /\ MeteringInv /\ [MeteringNext]_mvars => IndInv' /\ MeteringInv'
  <2> SUFFICES ASSUME IndInv, MeteringInv, [MeteringNext]_mvars
               PROVE  IndInv' /\ MeteringInv'
    OBVIOUS
  <2>1. IndInv'
    BY PollerSteps, PollerStep
  <2>2. ASSUME NEW k \in Keys, NEW v \in Values, Produce(k, v) PROVE MeteringInv'
    BY <2>2, ProduceInv
  <2>3. ASSUME ResetCounters PROVE MeteringInv'
    BY <2>3, ResetInv
  <2>4. ASSUME Pass PROVE MeteringInv'
    BY <2>4, PassInv
  <2>5. ASSUME Cycle PROVE MeteringInv'
    BY <2>1, <2>5, CycleMetering
  <2>6. ASSUME NEW status \in Statuses, Poll(status) PROVE MeteringInv'
    BY <2>6, PollMetering
  <2>7. ASSUME NewInstance PROVE MeteringInv'
    BY <2>7, NewInstanceMetering
  <2>8. ASSUME UNCHANGED mvars PROVE MeteringInv'
    BY <2>8 DEF mvars, vars, cycle, memory, db, outputs, inverter, MeteringInv, Inverter, JustReset,
                counter, Behaved, KeyBehaves, NoEnergyInvented, CycleReads, LedgerExact
  <2>9. MeteringInv'
    BY <2>2, <2>3, <2>4, <2>5, <2>6, <2>7, <2>8 DEF MeteringNext
  <2> QED BY <2>1, <2>9
<1> QED BY <1>1, <1>2, PTL DEF MeteringSpec

\* The poller in front of an honest inverter is the poller of Poller, so all
\* that is proved of Poller holds of it.
THEOREM MeteringIsPoller == MeteringSpec => Spec
<1>1. MeteringInit => Init
  BY DEF MeteringInit
<1>2. IndInv /\ MeteringInv /\ [MeteringNext]_mvars => [Next]_vars
  BY PollerSteps
<1> QED BY <1>1, <1>2, MeteringInvariant, PTL DEF MeteringSpec, Spec

\* blindReset (attribution.go): over outages, failed writes, restarts inside the
\* window and every order of visiting the keys, no row credits a day with more
\* than the inverter counted in it.
THEOREM EnergyNeverInvented == MeteringSpec => []NoEnergyInvented
<1>1. MeteringInv => NoEnergyInvented
  BY DEF MeteringInv, Behaved
<1> QED BY <1>1, MeteringInvariant, PTL

\* Attribute (attribution.go) and WritePoll: outside the windows a Healthy poll
\* leaves in the row of the inverter's day exactly what the inverter shows.
THEOREM HealthyLedgerExact == MeteringSpec => []LedgerExact
<1>1. MeteringInv => LedgerExact
  BY DEF MeteringInv
<1> QED BY <1>1, MeteringInvariant, PTL

=============================================================================
