--------------------------- MODULE AggregatorLoop ---------------------------
(***************************************************************************)
(* When the aggregator runs (internal/aggregator, Start, loop, onEvent,    *)
(* untilHeartbeat, run): at once for a closed day and for the first update *)
(* of the poller in a debounce window, once at the end of the window for   *)
(* later ones, and after a heartbeat without either.  Its events come over *)
(* a subscription of the bus (EventBus), which drops updates when it is    *)
(* full; its own updates come back to it.  What a run does is the subject  *)
(* of module Aggregator.                                                   *)
(*                                                                         *)
(* Time advances in poll intervals.  The loop answers within one, unless   *)
(* it is in a run.                                                         *)
(***************************************************************************)
EXTENDS EventBus, FiniteSetsExt

CONSTANTS Window, Heartbeat,   \* DebounceFactor, HeartbeatFactor
          MaxRun,              \* the longest run, in intervals
          MaxCloses,           \* bound: days that are closed
          MaxPolls             \* bound: polls per interval

Me == "aggregator"
Off == 2 * Heartbeat    \* a timer that is not armed, a run that never was

\* MaxRun < Window holds in the default configuration (app.timeout, which ends
\* a run, is one poll interval there); no validation enforces it.
ASSUME AggregatorLoopAssumption ==
    /\ Subscribers = {Me}
    /\ Window \in Nat \ {0} /\ Heartbeat \in Nat /\ Window < Heartbeat
    /\ MaxRun \in Nat /\ MaxRun < Window /\ MaxCloses \in Nat /\ MaxPolls \in Nat \ {0}

VARIABLES
    hasData,        \* HasDailyData
    sinceRun,       \* the age of lastRun, Off if there was none
    debounce,       \* the time left of the timers
    heartbeat,
    running,        \* how long a run has taken, Off if none is going on
    waiting,        \* the age of the oldest poll no run has begun after, or Off
    dropped,        \* the bus has dropped an update since a run began
    idle,           \* intervals with daily data since a run began
    polls,          \* polls in this interval
    closes, received    \* closed days published and received

loop == <<hasData, sinceRun, debounce, heartbeat, running>>
ghosts == <<waiting, dropped, idle, polls, closes, received>>
vars == <<bus, loop, ghosts>>

Init ==
    /\ BusInit
    /\ hasData \in BOOLEAN
    /\ sinceRun = Off /\ debounce = Off /\ heartbeat = Heartbeat /\ running = Off
    /\ waiting = Off /\ dropped = FALSE /\ idle = 0 /\ polls = 0 /\ closes = 0 /\ received = << >>

-----------------------------------------------------------------------------
\* A poll has replaced the cache's domain, and most polls have stored daily values.
Poll ==
    /\ polls < MaxPolls /\ polls' = polls + 1
    /\ hasData' \in {hasData, TRUE}
    /\ waiting' = IF waiting = Off /\ hasData' THEN 0 ELSE waiting
    /\ Publish(Updated("poller"))
    /\ dropped' = (dropped \/ ~Direct(Me))
    /\ UNCHANGED <<sinceRun, debounce, heartbeat, running, idle, closes, received>>

CloseDay ==
    /\ closes < MaxCloses /\ closes' = closes + 1
    /\ Publish(PeriodClosed(closes'))
    /\ UNCHANGED <<loop, waiting, dropped, idle, polls, received>>

-----------------------------------------------------------------------------
\* (mutant) The heartbeat counts from the last event.
UntilHeartbeatAlways(since) == Heartbeat

\* untilHeartbeat
UntilHeartbeat(since) ==
    IF since = Off \/ since >= Heartbeat THEN Heartbeat ELSE Heartbeat - since

\* (mutant) Every update starts the window anew.
DebounceAgain == Window

\* An update within the window arms the timer for the rest of it, once.
DebounceArmed == IF debounce = Off THEN Window - sinceRun ELSE debounce

\* The loop waits on.
Idle ==
    /\ heartbeat' = UntilHeartbeat(sinceRun)
    /\ UNCHANGED <<running, sinceRun, waiting, dropped, idle>>

\* run: without daily data the loop stays idle; otherwise, or when the query
\* fails, it is busy until the run ends.
Run ==
    \/ /\ running' = 0 /\ sinceRun' = 0 /\ waiting' = Off
       /\ idle' = 0 /\ dropped' = FALSE
       /\ UNCHANGED heartbeat
    \/ ~hasData /\ Idle

\* The debounce window of the last run is over, or there was no run before.
WindowOver == sinceRun = Off \/ sinceRun >= Window

\* onEvent: a closed day, and an update of the poller after the window, run at
\* once; within it an update arms the timer; other domains do nothing.
OnEvent ==
    /\ running = Off
    /\ \E e \in {Updated("poller"), Updated("aggregator")} \cup
                {PeriodClosed(n) : n \in 1 .. MaxCloses} :
          /\ Receive(Me, e)
          /\ \/ e.kind = "closed" /\ Run /\ UNCHANGED debounce
             \/ e = Updated("poller") /\ WindowOver /\ Run /\ UNCHANGED debounce
             \/ e = Updated("poller") /\ ~WindowOver /\ debounce' = DebounceArmed /\ Idle
             \/ e = Updated("aggregator") /\ Idle /\ UNCHANGED debounce
          /\ received' = IF e.kind = "closed" THEN Append(received, e.day) ELSE received
    /\ UNCHANGED <<hasData, polls, closes>>

OnDebounce ==
    /\ running = Off /\ debounce = 0
    /\ debounce' = Off /\ Run
    /\ UNCHANGED <<bus, hasData, polls, closes, received>>

OnHeartbeat ==
    /\ running = Off /\ heartbeat = 0
    /\ Run
    /\ UNCHANGED <<bus, hasData, debounce, polls, closes, received>>

\* A run that succeeds announces its values, one that fails does not.
RunEnds ==
    /\ running # Off /\ running' = Off
    /\ heartbeat' = UntilHeartbeat(sinceRun)
    /\ Publish(Updated("aggregator")) \/ UNCHANGED bus
    /\ UNCHANGED <<hasData, sinceRun, debounce, ghosts>>

\* The time left of a timer that may be off.
Sooner(left) == IF left \in {0, Off} THEN left ELSE left - 1

\* One poll interval passes.  All ages of a run beyond the heartbeat are alike.
Tick ==
    /\ IF running = Off
       THEN ch[Me] = << >> /\ debounce # 0 /\ heartbeat # 0 /\ UNCHANGED running
       ELSE running < MaxRun /\ running' = running + 1
    /\ (pump[Me] = "wait" /\ ~kick[Me]) \/ Len(ch[Me]) = EventBuffer
    /\ sinceRun' = IF sinceRun = Off THEN Off ELSE Min({sinceRun + 1, Heartbeat + 1})
    /\ idle' = IF hasData THEN idle + 1 ELSE idle
    /\ waiting' = IF waiting = Off THEN Off ELSE waiting + 1
    /\ debounce' = Sooner(debounce) /\ heartbeat' = Sooner(heartbeat)
    /\ polls' = 0
    /\ UNCHANGED <<bus, hasData, dropped, closes, received>>

BusStep == Pump(Me) /\ UNCHANGED <<loop, ghosts>>

Next == Poll \/ CloseDay \/ OnEvent \/ OnDebounce \/ OnHeartbeat \/ RunEnds \/ Tick \/ BusStep

Spec == Init /\ [][Next]_vars

-----------------------------------------------------------------------------
\* Correctness.

LoopTypeOK ==
    /\ BusTypeOK
    /\ hasData \in BOOLEAN /\ running \in 0 .. MaxRun \cup {Off}
    /\ sinceRun \in 0 .. Off /\ waiting \in 0 .. Off
    /\ debounce \in 0 .. Window \cup {Off} /\ heartbeat \in 0 .. Heartbeat
    /\ dropped \in BOOLEAN /\ idle \in Nat
    /\ polls \in 0 .. MaxPolls /\ closes \in 0 .. MaxCloses

\* Every closed day reaches the aggregator once and in order ("PeriodClosed is
\* never dropped"), however full the channel is, through the overflow list and
\* the pump: none is lost, overtaken or doubled.  The days received so far are
\* the first ones, and the rest is on its way, in order.
ClosesInOrder ==
    LET q      == InFlight(Me)
        coming == {i \in 1 .. Len(q) : q[i].kind = "closed"}
    IN  /\ received = [n \in 1 .. Len(received) |-> n] /\ Len(received) <= closes
        /\ {q[i].day : i \in coming} = Len(received) + 1 .. closes
        /\ \A i, j \in coming : i < j => q[i].day < q[j].day

\* No polled value waits longer than the debounce window for a run, however many
\* updates follow it and whatever runs fail or are slow: the timer is never
\* postponed.  An update the bus drops is not always covered by one that is
\* queued (the queue may hold other events, or an event the pump has sent but not
\* removed yet); the heartbeat then bounds the wait.
BoundedDelay == waiting # Off => waiting <= IF dropped THEN Heartbeat ELSE Window

\* Once there is data, a run begins at least every HeartbeatFactor intervals,
\* even when no event arrives; events do not postpone it either.
HeartbeatKept == idle <= Heartbeat
=============================================================================
