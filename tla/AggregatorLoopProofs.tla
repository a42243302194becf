------------------------ MODULE AggregatorLoopProofs ------------------------
(***************************************************************************)
(* The invariants of module AggregatorLoop, for every size of the channel, *)
(* every debounce window and heartbeat, every duration of a run below the  *)
(* window and any number of polls and closed days.                         *)
(***************************************************************************)
EXTENDS AggregatorLoop, EventBusProofs

-----------------------------------------------------------------------------
\* The inductive invariant.

\* Everything that is ever published.
Events ==
    {Updated("poller"), Updated("aggregator")} \cup {PeriodClosed(n) : n \in 1 .. MaxCloses}

Queued(e) == \E i \in 1 .. Len(ch[Me]) : ch[Me][i] = e

BusKept == Sound(Events) /\ subs = {Me}

LoopTyped ==
    /\ hasData \in BOOLEAN /\ running \in 0 .. MaxRun \cup {Off}
    /\ sinceRun \in 0 .. Heartbeat + 1 \cup {Off} /\ waiting \in 0 .. Heartbeat \cup {Off}
    /\ debounce \in 0 .. Window \cup {Off} /\ heartbeat \in 0 .. Heartbeat
    /\ dropped \in BOOLEAN /\ idle \in 0 .. Heartbeat
    /\ polls \in 0 .. MaxPolls /\ closes \in 0 .. MaxCloses

\* The last run's age is its duration while it goes on, and bounds the idle time
\* up to the heartbeat.
RunAge ==
    /\ running # Off => sinceRun = running
    /\ sinceRun < Heartbeat => idle <= sinceRun

\* The heartbeat timer runs down as the idle time grows.
Beating ==
    /\ running = Off => idle + heartbeat <= Heartbeat
    /\ ~hasData => idle = 0

\* The aggregator sees its own update before time goes on.
OwnUpdate == Queued(Updated("aggregator")) /\ running = Off => sinceRun <= MaxRun

\* The debounce timer ends with the window of the last run.
Debouncing == debounce # Off => sinceRun # Off /\ debounce + sinceRun <= Window

\* A value that waits is known to the timer, or its update is in the channel and
\* will be received before time goes on.
Waited ==
    waiting # Off => /\ hasData /\ waiting <= idle
                     /\ ~dropped /\ debounce = Off
                           => Queued(Updated("poller")) /\ waiting <= MaxRun

Timing == LoopTyped /\ RunAge /\ Beating /\ OwnUpdate /\ Debouncing /\ Waited

\* The closed days of q are r + 1 .. c, in order.
Order(q, r, c) ==
    /\ \A i \in 1 .. Len(q) : q[i].kind = "closed" => q[i].day \in r + 1 .. c
    /\ \A i, j \in 1 .. Len(q) :
          q[i].kind = "closed" /\ q[j].kind = "closed" /\ i < j => q[i].day < q[j].day
    /\ \A d \in r + 1 .. c : \E i \in 1 .. Len(q) : q[i].kind = "closed" /\ q[i].day = d

Delivery ==
    /\ received \in Seq(Nat) /\ received = [n \in 1 .. Len(received) |-> n]
    /\ Len(received) <= closes
    /\ Order(InFlight(Me), Len(received), closes)

LoopInv == BusKept /\ Timing /\ Delivery

USE AggregatorLoopAssumption, EventBusAssumption DEF Off

-----------------------------------------------------------------------------
\* Facts about events, sequences and timers.

LEMMA EventKinds ==
    /\ Updated("poller") \in Events /\ Updated("aggregator") \in Events
    /\ \A n \in 1 .. MaxCloses : PeriodClosed(n) \in Events
    /\ \A d : Updated(d).kind = "updated"
    /\ \A n : PeriodClosed(n).kind = "closed" /\ PeriodClosed(n).day = n
  BY DEF Events, Updated, PeriodClosed

LEMMA EventShape ==
    ASSUME NEW e \in Events
    PROVE  /\ e.kind = "closed" => e.day \in 1 .. MaxCloses
           /\ e.kind # "updated" <=> e.kind = "closed"
           /\ e.kind = "closed" => e # Updated("poller") /\ e # Updated("aggregator")
  BY DEF Events, Updated, PeriodClosed

LEMMA UpdatesDiffer == Updated("poller") # Updated("aggregator")
  <1>1. Updated("poller").domain = "poller" /\ Updated("aggregator").domain = "aggregator"
    BY DEF Updated
  <1> QED  BY <1>1

LEMMA Chan == ASSUME BusKept PROVE ch[Me] \in Seq(Events) /\ Len(ch[Me]) \in Nat /\ Me \in Subscribers
  <1>1. ch[Me] \in Seq(Events) /\ Me \in Subscribers
    BY DEF BusKept, Sound
  <1> QED  BY <1>1, LenProperties

LEMMA QueuedAppend ==
    ASSUME BusKept, NEW x \in Events, ch'[Me] = Append(ch[Me], x), NEW e
    PROVE  Queued(e)' <=> Queued(e) \/ e = x
  <1>1. ch[Me] \in Seq(Events) /\ Len(ch[Me]) \in Nat
    BY Chan
  <1>2. /\ Len(ch'[Me]) = Len(ch[Me]) + 1 /\ ch'[Me][Len(ch[Me]) + 1] = x
        /\ \A i \in 1 .. Len(ch[Me]) : ch'[Me][i] = ch[Me][i]
    BY <1>1, AppendProperties
  <1>3. ASSUME Queued(e) PROVE Queued(e)'
    BY <1>1, <1>2, <1>3 DEF Queued
  <1>4. ASSUME e = x PROVE Queued(e)'
    BY <1>1, <1>2, <1>4 DEF Queued
  <1>5. ASSUME Queued(e)' PROVE Queued(e) \/ e = x
    <2>1. PICK i \in 1 .. Len(ch'[Me]) : ch'[Me][i] = e
      BY <1>5 DEF Queued
    <2>2. i \in 1 .. Len(ch[Me]) \/ i = Len(ch[Me]) + 1
      BY <1>1, <1>2
    <2> QED  BY <1>2, <2>1, <2>2 DEF Queued
  <1> QED  BY <1>3, <1>4, <1>5

LEMMA QueuedTail ==
    ASSUME BusKept, ch[Me] # << >>, ch'[Me] = Tail(ch[Me]), NEW e
    PROVE  /\ Queued(e)' => Queued(e)
           /\ Queued(e) /\ e # Head(ch[Me]) => Queued(e)'
  <1>1. ch[Me] \in Seq(Events) /\ Len(ch[Me]) \in Nat \ {0} /\ Head(ch[Me]) = ch[Me][1]
    <2>1. ch[Me] \in Seq(Events)
      BY Chan
    <2> QED  BY <2>1, EmptySeq
  <1>2. /\ Len(ch'[Me]) = Len(ch[Me]) - 1
        /\ \A i \in 1 .. Len(ch'[Me]) : ch'[Me][i] = ch[Me][i + 1]
    BY <1>1, HeadTailProperties
  <1>3. ASSUME Queued(e)' PROVE Queued(e)
    <2>1. PICK i \in 1 .. Len(ch'[Me]) : ch'[Me][i] = e
      BY <1>3 DEF Queued
    <2>2. i + 1 \in 1 .. Len(ch[Me]) /\ ch[Me][i + 1] = e
      BY <1>1, <1>2, <2>1
    <2> QED  BY <2>2 DEF Queued
  <1>4. ASSUME Queued(e), e # Head(ch[Me]) PROVE Queued(e)'
    <2>1. PICK i \in 1 .. Len(ch[Me]) : ch[Me][i] = e
      BY <1>4 DEF Queued
    <2>2. i # 1
      BY <1>1, <1>4, <2>1
    <2>3. i - 1 \in 1 .. Len(ch'[Me]) /\ (i - 1) + 1 = i
      BY <1>1, <1>2, <2>2
    <2>4. ch'[Me][i - 1] = e
      BY <1>2, <2>1, <2>3
    <2> QED  BY <2>3, <2>4 DEF Queued
  <1> QED  BY <1>3, <1>4

LEMMA UntilRange ==
    ASSUME LoopTyped
    PROVE  /\ UntilHeartbeat(sinceRun) \in 0 .. Heartbeat
           /\ sinceRun < Heartbeat => UntilHeartbeat(sinceRun) = Heartbeat - sinceRun
  BY DEF LoopTyped, UntilHeartbeat

LEMMA MinPair ==
    ASSUME NEW a \in Nat, NEW b \in Nat
    PROVE  Min({a, b}) = IF a <= b THEN a ELSE b
  <1>1. \E x \in {a, b} : \A y \in {a, b} : x <= y
    OBVIOUS
  <1>2. Min({a, b}) \in {a, b} /\ \A y \in {a, b} : Min({a, b}) <= y
    BY <1>1 DEF Min
  <1> QED  BY <1>2

-----------------------------------------------------------------------------
\* The order of the closed days.

LEMMA OrderAppendDay ==
    ASSUME NEW q \in Seq(Events), NEW r \in Nat, NEW c \in Nat, r <= c, NEW x \in Events,
           x.kind = "closed", x.day = c + 1, Order(q, r, c)
    PROVE  Order(Append(q, x), r, c + 1)
  <1> DEFINE p == Append(q, x)
  <1>1. /\ Len(q) \in Nat /\ Len(p) = Len(q) + 1 /\ p[Len(q) + 1] = x
        /\ \A i \in 1 .. Len(q) : p[i] = q[i]
    BY LenProperties, AppendProperties
  <1> HIDE DEF p
  <1>2. \A i \in 1 .. Len(p) : i \in 1 .. Len(q) \/ i = Len(q) + 1
    BY <1>1
  <1>3. ASSUME NEW i \in 1 .. Len(p), p[i].kind = "closed" PROVE p[i].day \in r + 1 .. c + 1
    <2>1. CASE i \in 1 .. Len(q)
      BY <1>1, <1>3, <2>1 DEF Order
    <2>2. CASE i = Len(q) + 1
      BY <1>1, <2>2
    <2> QED  BY <1>2, <2>1, <2>2
  <1>4. ASSUME NEW i \in 1 .. Len(p), NEW j \in 1 .. Len(p), p[i].kind = "closed",
               p[j].kind = "closed", i < j
        PROVE  p[i].day < p[j].day
    <2>1. i \in 1 .. Len(q)
      BY <1>1, <1>4
    <2>2. CASE j \in 1 .. Len(q)
      BY <1>1, <1>4, <2>1, <2>2 DEF Order
    <2>3. CASE j = Len(q) + 1
      <3>1. q[i].day \in r + 1 .. c
        BY <1>1, <1>4, <2>1 DEF Order
      <3> QED  BY <1>1, <2>1, <2>3, <3>1
    <2> QED  BY <1>2, <2>2, <2>3
  <1>5. ASSUME NEW d \in r + 1 .. c + 1
        PROVE  \E i \in 1 .. Len(p) : p[i].kind = "closed" /\ p[i].day = d
    <2>1. CASE d = c + 1
      BY <1>1, <2>1
    <2>2. CASE d # c + 1
      <3>1. d \in r + 1 .. c
        BY <2>2
      <3>2. PICK i \in 1 .. Len(q) : q[i].kind = "closed" /\ q[i].day = d
        BY <3>1 DEF Order
      <3>3. i \in 1 .. Len(p)
        BY <1>1
      <3> QED  BY <1>1, <3>2, <3>3
    <2> QED  BY <2>1, <2>2
  <1>6. Order(p, r, c + 1)
    BY <1>3, <1>4, <1>5 DEF Order
  <1> QED  BY <1>6 DEF p

LEMMA OrderAppendOther ==
    ASSUME NEW q \in Seq(Events), NEW r \in Nat, NEW c \in Nat, NEW x \in Events,
           x.kind # "closed", Order(q, r, c)
    PROVE  Order(Append(q, x), r, c)
  <1> DEFINE p == Append(q, x)
  <1>1. /\ Len(q) \in Nat /\ Len(p) = Len(q) + 1 /\ p[Len(q) + 1] = x
        /\ \A i \in 1 .. Len(q) : p[i] = q[i]
    BY LenProperties, AppendProperties
  <1> HIDE DEF p
  <1>2. /\ \A i \in 1 .. Len(p) : p[i].kind = "closed" => i \in 1 .. Len(q) /\ p[i] = q[i]
        /\ \A i \in 1 .. Len(q) : i \in 1 .. Len(p) /\ p[i] = q[i]
    BY <1>1
  <1>3. Order(p, r, c)
    BY <1>2 DEF Order
  <1> QED  BY <1>3 DEF p

\* The first event, if it is a day, is the next one.
LEMMA OrderTailDay ==
    ASSUME NEW q \in Seq(Events), NEW r \in Nat, NEW c \in Nat, q # << >>,
           Head(q).kind = "closed", Order(q, r, c)
    PROVE  Head(q).day = r + 1 /\ r + 1 <= c /\ Order(Tail(q), r + 1, c)
  <1> DEFINE p == Tail(q)
  <1>1. Len(q) \in Nat \ {0} /\ Head(q) = q[1]
    BY EmptySeq
  <1>2. Len(p) = Len(q) - 1 /\ \A i \in 1 .. Len(p) : p[i] = q[i + 1]
    BY HeadTailProperties
  <1> HIDE DEF p
  <1>3. q[1].day \in r + 1 .. c /\ 1 \in 1 .. Len(q) /\ q[1].kind = "closed"
    BY <1>1 DEF Order
  <1>4. q[1].day = r + 1 /\ r + 1 <= c
    <2>1. r + 1 \in r + 1 .. c
      BY <1>3
    <2>2. PICK i \in 1 .. Len(q) : q[i].kind = "closed" /\ q[i].day = r + 1
      BY <2>1 DEF Order
    <2>3. 1 < i => q[1].day < q[i].day
      BY <1>3, <2>2 DEF Order
    <2>4. i = 1 \/ 1 < i
      BY <1>1
    <2> QED  BY <1>3, <2>1, <2>2, <2>3, <2>4
  <1>5. \A i \in 1 .. Len(p) : i + 1 \in 1 .. Len(q) /\ 1 < i + 1 /\ p[i] = q[i + 1]
    BY <1>1, <1>2
  <1>6. ASSUME NEW i \in 1 .. Len(p), p[i].kind = "closed" PROVE p[i].day \in (r + 1) + 1 .. c
    <2>1. i + 1 \in 1 .. Len(q) /\ 1 < i + 1 /\ q[i + 1] = p[i]
      BY <1>5
    <2>2. q[i + 1].day \in r + 1 .. c /\ q[1].day < q[i + 1].day
      BY <1>3, <1>6, <2>1 DEF Order
    <2> QED  BY <1>4, <2>1, <2>2
  <1>7. ASSUME NEW i \in 1 .. Len(p), NEW j \in 1 .. Len(p), p[i].kind = "closed",
               p[j].kind = "closed", i < j
        PROVE  p[i].day < p[j].day
    <2>1. /\ i + 1 \in 1 .. Len(q) /\ q[i + 1] = p[i] /\ j + 1 \in 1 .. Len(q) /\ q[j + 1] = p[j]
          /\ i + 1 < j + 1
      BY <1>5, <1>7
    <2> QED  BY <1>7, <2>1 DEF Order
  <1>8. ASSUME NEW d \in (r + 1) + 1 .. c
        PROVE  \E i \in 1 .. Len(p) : p[i].kind = "closed" /\ p[i].day = d
    <2>1. d \in r + 1 .. c /\ d # r + 1
      OBVIOUS
    <2>2. PICK i \in 1 .. Len(q) : q[i].kind = "closed" /\ q[i].day = d
      BY <2>1 DEF Order
    <2>3. i # 1
      BY <1>4, <2>1, <2>2
    <2>4. i - 1 \in 1 .. Len(p) /\ (i - 1) + 1 = i
      BY <1>1, <1>2, <2>3
    <2>5. p[i - 1] = q[i]
      BY <1>2, <2>4
    <2> QED  BY <2>2, <2>4, <2>5
  <1>9. Order(p, r + 1, c)
    BY <1>6, <1>7, <1>8 DEF Order
  <1> QED  BY <1>1, <1>4, <1>9 DEF p

LEMMA OrderTailOther ==
    ASSUME NEW q \in Seq(Events), NEW r \in Nat, NEW c \in Nat, q # << >>,
           Head(q).kind # "closed", Order(q, r, c)
    PROVE  Order(Tail(q), r, c)
  <1> DEFINE p == Tail(q)
  <1>1. Len(q) \in Nat \ {0} /\ Head(q) = q[1]
    BY EmptySeq
  <1>2. Len(p) = Len(q) - 1 /\ \A i \in 1 .. Len(p) : p[i] = q[i + 1]
    BY HeadTailProperties
  <1> HIDE DEF p
  <1>3. \A i \in 1 .. Len(p) : i + 1 \in 1 .. Len(q) /\ p[i] = q[i + 1]
    BY <1>1, <1>2
  <1>4. \A i \in 1 .. Len(q) : q[i].kind = "closed" => i - 1 \in 1 .. Len(p) /\ p[i - 1] = q[i]
    <2>1. \A i \in 1 .. Len(q) : q[i].kind = "closed" => i # 1
      BY <1>1
    <2>2. \A i \in 1 .. Len(q) : i # 1 => i - 1 \in 1 .. Len(p) /\ (i - 1) + 1 = i
      BY <1>1, <1>2
    <2> QED  BY <1>2, <2>1, <2>2
  <1>5. \A i \in 1 .. Len(p) : p[i].kind = "closed" => p[i].day \in r + 1 .. c
    BY <1>3 DEF Order
  <1>6. ASSUME NEW i \in 1 .. Len(p), NEW j \in 1 .. Len(p), p[i].kind = "closed",
               p[j].kind = "closed", i < j
        PROVE  p[i].day < p[j].day
    <2>1. /\ i + 1 \in 1 .. Len(q) /\ q[i + 1] = p[i] /\ j + 1 \in 1 .. Len(q) /\ q[j + 1] = p[j]
          /\ i + 1 < j + 1
      BY <1>3, <1>6
    <2> QED  BY <1>6, <2>1 DEF Order
  <1>7. ASSUME NEW d \in r + 1 .. c
        PROVE  \E i \in 1 .. Len(p) : p[i].kind = "closed" /\ p[i].day = d
    <2>1. PICK i \in 1 .. Len(q) : q[i].kind = "closed" /\ q[i].day = d
      BY DEF Order
    <2>2. i - 1 \in 1 .. Len(p) /\ p[i - 1] = q[i]
      BY <1>4, <2>1
    <2> QED  BY <2>1, <2>2
  <1>8. Order(p, r, c)
    BY <1>5, <1>6, <1>7 DEF Order
  <1> QED  BY <1>8 DEF p

-----------------------------------------------------------------------------
\* Publishing: the bus stays sound, and the closed days stay in order.

LEMMA InFlightEvents == ASSUME BusKept PROVE InFlight(Me) \in Seq(Events)
  BY Chan, InFlightSeq DEF BusKept

LEMMA PublishedUpdate ==
    ASSUME LoopInv, NEW d \in {"poller", "aggregator"}, Publish(Updated(d)),
           UNCHANGED <<received, closes>>
    PROVE  /\ BusKept' /\ Delivery'
           /\ \/ Direct(Me) /\ ch'[Me] = Append(ch[Me], Updated(d))
              \/ ~Direct(Me) /\ ch'[Me] = ch[Me]
  <1>1. Updated(d) \in Events /\ Updated(d).kind = "updated"
    BY EventKinds
  <1>2. Sound(Events) /\ subs = {Me} /\ Me \in Subscribers
    BY DEF LoopInv, BusKept
  <1>3. BusKept'
    <2>1. Sound(Events)'
      BY <1>1, <1>2, PublishSound
    <2> QED  BY <1>2, <2>1 DEF BusKept, Publish
  <1>4. InFlight(Me)' = Append(InFlight(Me), Updated(d)) \/ InFlight(Me)' = InFlight(Me)
    BY <1>1, <1>2, PublishInFlight
  <1>5. Delivery'
    <2>1. /\ InFlight(Me) \in Seq(Events) /\ Len(received) \in Nat /\ closes \in Nat
          /\ Order(InFlight(Me), Len(received), closes)
      <3>1. received \in Seq(Nat) /\ BusKept /\ closes \in Nat
        BY DEF LoopInv, Delivery, Timing, LoopTyped
      <3> QED  BY <3>1, InFlightEvents, LenProperties DEF LoopInv, Delivery
    <2>2. Order(Append(InFlight(Me), Updated(d)), Len(received), closes)
      BY <1>1, <2>1, OrderAppendOther
    <2> QED  BY <1>4, <2>1, <2>2 DEF LoopInv, Delivery
  <1>6. \/ Direct(Me) /\ ch'[Me] = Append(ch[Me], Updated(d))
        \/ ~Direct(Me) /\ ch'[Me] = ch[Me]
    BY <1>2 DEF Publish
  <1> QED  BY <1>3, <1>5, <1>6

LEMMA PublishedDay ==
    ASSUME LoopInv, closes < MaxCloses, closes' = closes + 1, Publish(PeriodClosed(closes')),
           UNCHANGED received
    PROVE  /\ BusKept' /\ Delivery'
           /\ \/ ch'[Me] = ch[Me]
              \/ \E e \in Events : e.kind # "updated" /\ ch'[Me] = Append(ch[Me], e)
  <1> DEFINE e == PeriodClosed(closes')
  <1>c. closes \in Nat /\ closes + 1 \in 1 .. MaxCloses
    BY DEF LoopInv, Timing, LoopTyped
  <1>1. e \in Events /\ e.kind = "closed" /\ e.day = closes + 1
    BY <1>c, EventKinds
  <1>p. Publish(e)
    OBVIOUS
  <1> HIDE DEF e
  <1>2. Sound(Events) /\ subs = {Me} /\ Me \in Subscribers
    BY DEF LoopInv, BusKept
  <1>3. BusKept'
    <2>1. Sound(Events)'
      BY <1>1, <1>2, <1>p, PublishSound
    <2> QED  BY <1>2, <1>p, <2>1 DEF BusKept, Publish
  <1>4. InFlight(Me)' = Append(InFlight(Me), e)
    BY <1>1, <1>2, <1>p, PublishInFlight
  <1>5. Delivery'
    <2>1. /\ InFlight(Me) \in Seq(Events) /\ Len(received) \in Nat /\ Len(received) <= closes
          /\ Order(InFlight(Me), Len(received), closes)
      <3>1. received \in Seq(Nat) /\ BusKept
        BY DEF LoopInv, Delivery
      <3> QED  BY <3>1, InFlightEvents, LenProperties DEF LoopInv, Delivery
    <2>2. Order(Append(InFlight(Me), e), Len(received), closes + 1)
      BY <1>c, <1>1, <2>1, OrderAppendDay
    <2>3. Len(received) <= closes + 1
      BY <1>c, <2>1
    <2> QED  BY <1>4, <2>2, <2>3 DEF LoopInv, Delivery
  <1>6. ch'[Me] = ch[Me] \/ ch'[Me] = Append(ch[Me], e)
    BY <1>2, <1>p DEF Publish
  <1> QED  BY <1>1, <1>3, <1>5, <1>6

-----------------------------------------------------------------------------
\* The timers.

\* run begins, or the loop stays idle for lack of data.
LEMMA RunKeeps ==
    ASSUME Timing, running = Off, Run, debounce' \in {debounce, Off},
           Queued(Updated("aggregator"))' => Queued(Updated("aggregator")),
           UNCHANGED <<hasData, polls, closes>>
    PROVE  Timing'
  <1>1. LoopTyped
    BY DEF Timing
  <1>2. debounce' \in 0 .. Window \cup {Off}
    BY <1>1 DEF LoopTyped
  <1>3. CASE /\ running' = 0 /\ sinceRun' = 0 /\ waiting' = Off
             /\ idle' = 0 /\ dropped' = FALSE /\ UNCHANGED heartbeat
    <2>1. dropped' \in BOOLEAN /\ hasData' \in BOOLEAN
      BY <1>1, <1>3 DEF LoopTyped
    <2>2. LoopTyped'
      BY <1>1, <1>2, <1>3, <2>1 DEF LoopTyped
    <2>3. RunAge' /\ Beating' /\ OwnUpdate' /\ Waited'
      BY <1>3 DEF RunAge, Beating, OwnUpdate, Waited
    <2>4. Debouncing'
      <3>1. sinceRun' # Off /\ (debounce' # Off => debounce' + sinceRun' <= Window)
        <4>1. sinceRun' = 0 /\ Heartbeat \in Nat \ {0}
          BY <1>3
        <4>2. debounce' # Off => debounce' \in 0 .. Window
          BY <1>2
        <4> QED  BY <4>1, <4>2
      <3> QED  BY <3>1 DEF Debouncing
    <2> QED  BY <2>2, <2>3, <2>4 DEF Timing
  <1>4. CASE ~hasData /\ Idle
    <2>1. /\ heartbeat' = UntilHeartbeat(sinceRun) /\ heartbeat' \in 0 .. Heartbeat
          /\ UNCHANGED <<running, sinceRun, waiting, dropped, idle>>
      BY <1>1, <1>4, UntilRange DEF Idle
    <2>2. idle = 0 /\ waiting = Off
      BY <1>4 DEF Timing, Beating, Waited
    <2>3. LoopTyped'
      BY <1>1, <1>2, <2>1, Zenon DEF LoopTyped
    <2>4. RunAge' /\ OwnUpdate' /\ Waited'
      BY <2>1, <2>2 DEF Timing, RunAge, OwnUpdate, Waited
    <2>5. Beating'
      BY <2>1, <2>2 DEF Beating
    <2>6. Debouncing'
      BY <2>1 DEF Timing, Debouncing
    <2> QED  BY <2>3, <2>4, <2>5, <2>6 DEF Timing
  <1> QED  BY <1>3, <1>4 DEF Run

\* The loop waits on, within the heartbeat of the last run.
LEMMA IdleKeeps ==
    ASSUME Timing, running = Off, Idle, sinceRun < Heartbeat,
           \/ debounce' = debounce
           \/ debounce = Off /\ sinceRun < Window /\ debounce' = Window - sinceRun,
           Queued(Updated("aggregator"))' => Queued(Updated("aggregator")),
           debounce' = Off /\ Queued(Updated("poller")) => Queued(Updated("poller"))',
           UNCHANGED <<hasData, polls, closes>>
    PROVE  Timing'
  <1>1. LoopTyped
    BY DEF Timing
  <1>2. /\ heartbeat' = Heartbeat - sinceRun /\ heartbeat' \in 0 .. Heartbeat
        /\ UNCHANGED <<running, sinceRun, waiting, dropped, idle>>
    BY <1>1, UntilRange DEF Idle
  <1>t. sinceRun \in Nat /\ idle \in Nat /\ debounce \in 0 .. Window \cup {Off}
    BY <1>1 DEF LoopTyped
  <1>3. debounce' \in 0 .. Window \cup {Off} /\ (debounce' = Off => debounce = Off)
    BY <1>t
  <1>4. LoopTyped'
    BY <1>1, <1>2, <1>3, Zenon DEF LoopTyped
  <1>5. RunAge' /\ OwnUpdate'
    BY <1>2 DEF Timing, RunAge, OwnUpdate
  <1>6. Beating'
    <2>1. idle <= sinceRun /\ (~hasData => idle = 0)
      BY DEF Timing, RunAge, Beating
    <2> QED  BY <1>2, <1>t, <2>1 DEF Beating
  <1>7. Debouncing'
    BY <1>2, <1>t DEF Timing, Debouncing
  <1>8. Waited'
    BY <1>2, <1>3 DEF Timing, Waited
  <1> QED  BY <1>4, <1>5, <1>6, <1>7, <1>8 DEF Timing

\* A day that enters the channel hides no update and is none.
LEMMA GrownByDay ==
    ASSUME BusKept,
           \/ ch'[Me] = ch[Me]
           \/ \E e \in Events : e.kind # "updated" /\ ch'[Me] = Append(ch[Me], e)
    PROVE  /\ Queued(Updated("poller")) => Queued(Updated("poller"))'
           /\ Queued(Updated("aggregator"))' => Queued(Updated("aggregator"))
  <1>1. CASE ch'[Me] = ch[Me]
    BY <1>1 DEF Queued
  <1>2. ASSUME NEW e \in Events, e.kind # "updated", ch'[Me] = Append(ch[Me], e)
        PROVE  /\ Queued(Updated("poller")) => Queued(Updated("poller"))'
               /\ Queued(Updated("aggregator"))' => Queued(Updated("aggregator"))
    <2>1. e # Updated("aggregator")
      BY <1>2, EventKinds
    <2>2. /\ Queued(Updated("poller"))' <=> Queued(Updated("poller")) \/ Updated("poller") = e
          /\ Queued(Updated("aggregator"))' <=> Queued(Updated("aggregator")) \/ Updated("aggregator") = e
      BY <1>2, QueuedAppend
    <2> QED  BY <2>1, <2>2
  <1> QED  BY <1>1, <1>2

\* Nothing of the loop changes, and the channel only grows.
LEMMA QueueGrows ==
    ASSUME Timing, Queued(Updated("poller")) => Queued(Updated("poller"))',
           Queued(Updated("aggregator"))' => Queued(Updated("aggregator")),
           closes' \in 0 .. MaxCloses, UNCHANGED <<loop, waiting, dropped, idle, polls>>
    PROVE  Timing'
  <1>1. LoopTyped'
    BY Zenon DEF Timing, LoopTyped, loop
  <1>2. RunAge' /\ Beating' /\ OwnUpdate' /\ Debouncing' /\ Waited'
    BY DEF Timing, RunAge, Beating, OwnUpdate, Debouncing, Waited, loop
  <1> QED  BY <1>1, <1>2 DEF Timing

-----------------------------------------------------------------------------
\* One lemma per action.

LEMMA InitLoop == Init => LoopInv
  <1> SUFFICES ASSUME Init PROVE LoopInv
    OBVIOUS
  <1>1. BusKept
    BY BusInitSound DEF Init, BusInit, BusKept
  <1>2. Timing
    <2>1. hasData \in BOOLEAN /\ dropped \in BOOLEAN
      BY DEF Init
    <2>2. LoopTyped
      BY <2>1 DEF Init, LoopTyped
    <2>3. ch[Me] = << >> /\ Len(<< >>) = 0
      BY EmptySeq DEF Init, BusInit
    <2>4. ~Queued(Updated("aggregator"))
      BY <2>3 DEF Queued
    <2>5. RunAge /\ Beating /\ OwnUpdate /\ Debouncing /\ Waited
      BY <2>4 DEF Init, RunAge, Beating, OwnUpdate, Debouncing, Waited
    <2> QED  BY <2>2, <2>5 DEF Timing
  <1>3. Delivery
    <2>1. << >> \in Seq(Nat) /\ Len(<< >>) = 0 /\ << >> = [n \in 1 .. 0 |-> n]
      BY EmptySeq
    <2>2. InFlight(Me) = << >>
      <3>1. ch[Me] = << >> /\ overflow[Me] = << >> /\ pump[Me] = "wait"
        BY DEF Init, BusInit
      <3>2. << >> \o << >> = << >>
        BY <2>1, ConcatEmptySeq
      <3> QED  BY <3>1, <3>2 DEF InFlight
    <2>3. Order(<< >>, 0, 0)
      BY <2>1 DEF Order
    <2>4. received = << >> /\ closes = 0
      BY DEF Init
    <2> QED  BY <2>1, <2>2, <2>3, <2>4 DEF Delivery
  <1> QED  BY <1>1, <1>2, <1>3 DEF LoopInv

LEMMA PollLoop == ASSUME LoopInv, Poll PROVE LoopInv'
  <1>1. /\ polls < MaxPolls /\ polls' = polls + 1 /\ hasData' \in {hasData, TRUE}
        /\ waiting' = IF waiting = Off /\ hasData' THEN 0 ELSE waiting
        /\ Publish(Updated("poller")) /\ dropped' = (dropped \/ ~Direct(Me))
        /\ UNCHANGED <<sinceRun, debounce, heartbeat, running, idle, closes, received>>
    BY DEF Poll
  <1>2. /\ BusKept' /\ Delivery'
        /\ \/ Direct(Me) /\ ch'[Me] = Append(ch[Me], Updated("poller"))
           \/ ~Direct(Me) /\ ch'[Me] = ch[Me]
    BY <1>1, PublishedUpdate
  <1>t. LoopTyped
    BY DEF LoopInv, Timing
  <1>3. /\ Queued(Updated("poller")) => Queued(Updated("poller"))'
        /\ Queued(Updated("aggregator"))' => Queued(Updated("aggregator"))
        /\ Direct(Me) => Queued(Updated("poller"))'
    <2>1. CASE Direct(Me)
      <3>1. ch'[Me] = Append(ch[Me], Updated("poller")) /\ Updated("poller") \in Events /\ BusKept
        BY <1>2, <2>1, EventKinds DEF LoopInv
      <3>2. /\ Queued(Updated("poller"))'
            /\ Queued(Updated("aggregator"))'
                  => Queued(Updated("aggregator")) \/ Updated("aggregator") = Updated("poller")
        BY <3>1, QueuedAppend
      <3> QED  BY <3>2, UpdatesDiffer
    <2>2. CASE ~Direct(Me)
      BY <1>2, <2>2 DEF Queued
    <2> QED  BY <2>1, <2>2
  <1>4. hasData' \in BOOLEAN /\ dropped' \in BOOLEAN /\ (hasData => hasData')
    BY <1>1, <1>t DEF LoopTyped
  <1>5. ~dropped' => ~dropped /\ Direct(Me)
    BY <1>1
  <1>6. LoopTyped'
    <2>1. polls' \in 0 .. MaxPolls /\ waiting' \in 0 .. Heartbeat \cup {Off}
      BY <1>1, <1>t DEF LoopTyped
    <2> QED  BY <1>1, <1>t, <1>4, <2>1, Zenon DEF LoopTyped
  <1>7. RunAge' /\ Beating' /\ OwnUpdate' /\ Debouncing'
    BY <1>1, <1>3, <1>4 DEF LoopInv, Timing, RunAge, Beating, OwnUpdate, Debouncing
  <1>8. Waited'
    <2>1. Waited /\ idle \in Nat
      BY <1>t DEF LoopInv, Timing, LoopTyped
    <2>2. CASE waiting = Off /\ hasData'
      BY <1>1, <1>3, <1>5, <2>1, <2>2 DEF Waited
    <2>3. CASE waiting = Off /\ ~hasData'
      BY <1>1, <2>3 DEF Waited
    <2>4. CASE waiting # Off
      BY <1>1, <1>3, <1>4, <1>5, <2>1, <2>4 DEF Waited
    <2> QED  BY <2>2, <2>3, <2>4
  <1> QED  BY <1>2, <1>6, <1>7, <1>8 DEF LoopInv, Timing

LEMMA CloseDayLoop == ASSUME LoopInv, CloseDay PROVE LoopInv'
  <1>1. /\ closes < MaxCloses /\ closes' = closes + 1 /\ Publish(PeriodClosed(closes'))
        /\ UNCHANGED <<loop, waiting, dropped, idle, polls, received>>
    BY DEF CloseDay
  <1>2. /\ BusKept' /\ Delivery'
        /\ \/ ch'[Me] = ch[Me]
           \/ \E e \in Events : e.kind # "updated" /\ ch'[Me] = Append(ch[Me], e)
    BY <1>1, PublishedDay
  <1>3. /\ Queued(Updated("poller")) => Queued(Updated("poller"))'
        /\ Queued(Updated("aggregator"))' => Queued(Updated("aggregator"))
    BY <1>2, GrownByDay DEF LoopInv
  <1>4. closes' \in 0 .. MaxCloses
    BY <1>1 DEF LoopInv, Timing, LoopTyped
  <1>5. Timing'
    BY <1>1, <1>3, <1>4, QueueGrows DEF LoopInv
  <1> QED  BY <1>2, <1>5 DEF LoopInv

LEMMA BusStepLoop == ASSUME LoopInv, BusStep PROVE LoopInv'
  <1>1. Pump(Me) /\ UNCHANGED <<loop, ghosts>> /\ Sound(Events) /\ subs = {Me} /\ Me \in Subscribers
    BY DEF BusStep, LoopInv, BusKept
  <1>2. /\ Sound(Events)' /\ InFlight(Me)' = InFlight(Me)
        /\ \/ ch'[Me] = ch[Me]
           \/ \E e \in Events : e.kind # "updated" /\ ch'[Me] = Append(ch[Me], e)
    BY <1>1, PumpKeeps
  <1>3. BusKept'
    BY <1>1, <1>2 DEF BusKept, Pump
  <1>4. /\ Queued(Updated("poller")) => Queued(Updated("poller"))'
        /\ Queued(Updated("aggregator"))' => Queued(Updated("aggregator"))
    BY <1>2, GrownByDay DEF LoopInv
  <1>5. closes' \in 0 .. MaxCloses /\ UNCHANGED <<waiting, dropped, idle, polls, received, closes>>
    BY <1>1 DEF LoopInv, Timing, LoopTyped, ghosts
  <1>6. Timing'
    BY <1>1, <1>4, <1>5, QueueGrows DEF LoopInv
  <1>7. Delivery'
    BY <1>2, <1>5 DEF LoopInv, Delivery
  <1> QED  BY <1>3, <1>6, <1>7 DEF LoopInv

LEMMA OnEventLoop == ASSUME LoopInv, OnEvent PROVE LoopInv'
  <1>1. running = Off /\ UNCHANGED <<hasData, polls, closes>>
    BY DEF OnEvent
  <1>2. PICK e \in Events :
          /\ Receive(Me, e)
          /\ \/ e.kind = "closed" /\ Run /\ UNCHANGED debounce
             \/ e = Updated("poller") /\ WindowOver /\ Run /\ UNCHANGED debounce
             \/ e = Updated("poller") /\ ~WindowOver /\ debounce' = DebounceArmed /\ Idle
             \/ e = Updated("aggregator") /\ Idle /\ UNCHANGED debounce
          /\ received' = IF e.kind = "closed" THEN Append(received, e.day) ELSE received
    BY DEF OnEvent, Events
  <1>3. Sound(Events) /\ subs = {Me} /\ Me \in Subscribers /\ BusKept
    BY DEF LoopInv, BusKept
  <1>4. /\ Sound(Events)' /\ ch[Me] # << >> /\ e = Head(ch[Me]) /\ ch'[Me] = Tail(ch[Me])
        /\ InFlight(Me) # << >> /\ e = Head(InFlight(Me)) /\ InFlight(Me)' = Tail(InFlight(Me))
    BY <1>2, <1>3, ReceiveTakes
  <1>5. BusKept'
    BY <1>2, <1>3, <1>4 DEF BusKept, Receive
  <1>6. /\ Queued(Updated("aggregator"))' => Queued(Updated("aggregator"))
        /\ Queued(Updated("poller")) /\ e # Updated("poller") => Queued(Updated("poller"))'
    BY <1>3, <1>4, QueuedTail
  <1>t. LoopTyped /\ Timing
    BY DEF LoopInv, Timing
  <1>7. Timing'
    <2>1. CASE Run /\ UNCHANGED debounce
      BY <1>1, <1>6, <1>t, <2>1, RunKeeps
    <2>2. CASE e = Updated("poller") /\ ~WindowOver /\ debounce' = DebounceArmed /\ Idle
      <3>1. sinceRun < Window /\ sinceRun < Heartbeat /\ sinceRun \in Nat
        BY <1>t, <2>2 DEF WindowOver, LoopTyped
      <3>2. \/ debounce' = debounce /\ debounce # Off
            \/ debounce = Off /\ sinceRun < Window /\ debounce' = Window - sinceRun
        BY <2>2, <3>1 DEF DebounceArmed
      <3>3. debounce' # Off
        BY <3>1, <3>2
      <3> QED  BY <1>1, <1>6, <1>t, <2>2, <3>1, <3>2, <3>3, IdleKeeps
    <2>3. CASE e = Updated("aggregator") /\ Idle /\ UNCHANGED debounce
      <3>1. Queued(Updated("aggregator"))
        <4>1. ch[Me] \in Seq(Events)
          BY <1>3, Chan
        <4>2. Len(ch[Me]) \in Nat \ {0} /\ ch[Me][1] = Head(ch[Me])
          BY <1>4, <4>1, EmptySeq
        <4>3. 1 \in 1 .. Len(ch[Me])
          BY <4>2
        <4> QED  BY <1>4, <2>3, <4>2, <4>3 DEF Queued
      <3>2. sinceRun <= MaxRun
        BY <1>1, <1>t, <3>1 DEF Timing, OwnUpdate
      <3>3. sinceRun < Heartbeat
        BY <1>t, <3>2 DEF LoopTyped
      <3>4. e # Updated("poller")
        BY <2>3, UpdatesDiffer
      <3> QED  BY <1>1, <1>6, <1>t, <2>3, <3>3, <3>4, IdleKeeps
    <2> QED  BY <1>2, <2>1, <2>2, <2>3
  <1>8. Delivery'
    <2>1. /\ InFlight(Me) \in Seq(Events) /\ received \in Seq(Nat) /\ Len(received) \in Nat
          /\ closes \in Nat /\ Order(InFlight(Me), Len(received), closes)
          /\ received = [n \in 1 .. Len(received) |-> n]
      <3>1. received \in Seq(Nat) /\ closes \in Nat
        BY <1>t DEF LoopInv, Delivery, LoopTyped
      <3> QED  BY <1>3, <3>1, InFlightEvents, LenProperties DEF LoopInv, Delivery
    <2>2. CASE e.kind = "closed"
      <3>1. /\ e.day = Len(received) + 1 /\ Len(received) + 1 <= closes
            /\ Order(Tail(InFlight(Me)), Len(received) + 1, closes)
        BY <1>4, <2>1, <2>2, OrderTailDay
      <3>2. received' = Append(received, Len(received) + 1)
        BY <1>2, <2>2, <3>1
      <3>3. /\ received' \in Seq(Nat) /\ Len(received') = Len(received) + 1
            /\ \A n \in 1 .. Len(received) : received'[n] = received[n]
            /\ received'[Len(received) + 1] = Len(received) + 1
        <4>1. Len(received) + 1 \in Nat
          BY <2>1
        <4> QED  BY <2>1, <3>2, <4>1, AppendProperties
      <3>4. received' = [n \in 1 .. Len(received') |-> n]
        <4>1. \A n \in 1 .. Len(received') : received'[n] = n
          <5>1. \A n \in 1 .. Len(received') : n \in 1 .. Len(received) \/ n = Len(received) + 1
            BY <2>1, <3>3
          <5> QED  BY <2>1, <3>3, <5>1
        <4>2. received' \in [1 .. Len(received') -> Nat]
          BY <3>3, LenProperties
        <4> QED  BY <4>1, <4>2
      <3> QED  BY <1>1, <1>4, <3>1, <3>3, <3>4 DEF Delivery
    <2>3. CASE e.kind # "closed"
      <3>1. Order(Tail(InFlight(Me)), Len(received), closes)
        BY <1>4, <2>1, <2>3, OrderTailOther
      <3>2. received' = received
        BY <1>2, <2>3
      <3> QED  BY <1>1, <1>4, <3>1, <3>2 DEF LoopInv, Delivery
    <2> QED  BY <2>2, <2>3
  <1> QED  BY <1>5, <1>7, <1>8 DEF LoopInv

\* A timer fires: the bus is not concerned.
LEMMA TimerLoop == ASSUME LoopInv, OnDebounce \/ OnHeartbeat PROVE LoopInv'
  <1>1. /\ running = Off /\ Run /\ debounce' \in {debounce, Off}
        /\ UNCHANGED <<bus, hasData, polls, closes, received>>
    BY DEF OnDebounce, OnHeartbeat
  <1>2. BusKept' /\ Delivery' /\ (Queued(Updated("aggregator"))' <=> Queued(Updated("aggregator")))
    BY <1>1 DEF LoopInv, BusKept, Sound, Delivery, InFlight, Queued, bus
  <1>3. Timing'
    BY <1>1, <1>2, RunKeeps DEF LoopInv
  <1> QED  BY <1>2, <1>3 DEF LoopInv

LEMMA RunEndsLoop == ASSUME LoopInv, RunEnds PROVE LoopInv'
  <1>1. /\ running # Off /\ running' = Off /\ heartbeat' = UntilHeartbeat(sinceRun)
        /\ UNCHANGED <<hasData, sinceRun, debounce, waiting, dropped, idle, polls, closes, received>>
    BY DEF RunEnds, ghosts
  <1>t. LoopTyped /\ Timing
    BY DEF LoopInv, Timing
  <1>2. /\ BusKept' /\ Delivery'
        /\ Queued(Updated("poller")) => Queued(Updated("poller"))'
    <2>1. CASE UNCHANGED bus
      BY <1>1, <2>1 DEF LoopInv, BusKept, Sound, Delivery, InFlight, Queued, bus
    <2>2. CASE Publish(Updated("aggregator"))
      <3>1. /\ BusKept' /\ Delivery'
            /\ \/ ch'[Me] = Append(ch[Me], Updated("aggregator"))
               \/ ch'[Me] = ch[Me]
        BY <1>1, <2>2, PublishedUpdate
      <3>2. Queued(Updated("poller")) => Queued(Updated("poller"))'
        <4>1. CASE ch'[Me] = ch[Me]
          BY <4>1 DEF Queued
        <4>2. CASE ch'[Me] = Append(ch[Me], Updated("aggregator"))
          BY <4>2, EventKinds, QueuedAppend DEF LoopInv
        <4> QED  BY <3>1, <4>1, <4>2
      <3> QED  BY <3>1, <3>2
    <2> QED  BY <2>1, <2>2 DEF RunEnds
  <1>3. sinceRun = running /\ running \in 0 .. MaxRun /\ idle <= sinceRun
    <2>1. sinceRun = running /\ running \in 0 .. MaxRun
      BY <1>1, <1>t DEF LoopTyped, Timing, RunAge
    <2> QED  BY <1>t, <2>1 DEF Timing, RunAge
  <1>4. heartbeat' = Heartbeat - sinceRun /\ heartbeat' \in 0 .. Heartbeat
    <2>1. sinceRun < Heartbeat
      BY <1>3
    <2> QED  BY <1>1, <1>t, <2>1, UntilRange
  <1>5. LoopTyped'
    <2>1. running' \in 0 .. MaxRun \cup {Off}
      BY <1>1
    <2> QED  BY <1>1, <1>t, <1>4, <2>1, Zenon DEF LoopTyped
  <1>6. RunAge' /\ OwnUpdate' /\ Debouncing' /\ Waited'
    BY <1>1, <1>2, <1>3, <1>t DEF Timing, RunAge, OwnUpdate, Debouncing, Waited
  <1>7. Beating'
    <2>1. idle \in Nat /\ sinceRun \in Nat
      BY <1>t, <1>3 DEF LoopTyped
    <2> QED  BY <1>1, <1>3, <1>4, <1>t, <2>1 DEF Timing, Beating
  <1> QED  BY <1>2, <1>5, <1>6, <1>7 DEF LoopInv, Timing

LEMMA TickLoop == ASSUME LoopInv, Tick PROVE LoopInv'
  <1>1. /\ running = Off => ch[Me] = << >> /\ debounce # 0 /\ heartbeat # 0 /\ UNCHANGED running
        /\ running # Off => running < MaxRun /\ running' = running + 1
        /\ sinceRun' = IF sinceRun = Off THEN Off ELSE Min({sinceRun + 1, Heartbeat + 1})
        /\ idle' = IF hasData THEN idle + 1 ELSE idle
        /\ waiting' = IF waiting = Off THEN Off ELSE waiting + 1
        /\ debounce' = Sooner(debounce) /\ heartbeat' = Sooner(heartbeat) /\ polls' = 0
        /\ UNCHANGED <<bus, hasData, dropped, closes, received>>
    BY DEF Tick
  <1>2. /\ BusKept' /\ Delivery'
        /\ Queued(Updated("poller"))' <=> Queued(Updated("poller"))
        /\ Queued(Updated("aggregator"))' <=> Queued(Updated("aggregator"))
    BY <1>1 DEF LoopInv, BusKept, Sound, Delivery, InFlight, Queued, bus
  <1>3. ch[Me] = << >> => ~Queued(Updated("poller")) /\ ~Queued(Updated("aggregator"))
    <2>1. Len(<< >>) = 0
      BY EmptySeq
    <2> QED  BY <2>1 DEF Queued
  <1>t. LoopTyped /\ Timing
    BY DEF LoopInv, Timing
  <1>u. /\ hasData \in BOOLEAN /\ running \in 0 .. MaxRun \cup {Off}
        /\ sinceRun \in 0 .. Heartbeat + 1 \cup {Off} /\ waiting \in 0 .. Heartbeat \cup {Off}
        /\ debounce \in 0 .. Window \cup {Off} /\ heartbeat \in 0 .. Heartbeat
        /\ idle \in 0 .. Heartbeat
    BY <1>t DEF LoopTyped
  <1>4. sinceRun' = IF sinceRun = Off THEN Off
                    ELSE IF sinceRun <= Heartbeat THEN sinceRun + 1 ELSE Heartbeat + 1
    <2>1. sinceRun + 1 \in Nat /\ Heartbeat + 1 \in Nat
      BY <1>u
    <2> QED  BY <1>1, <1>u, <2>1, MinPair
  <1>5. /\ debounce' = IF debounce \in {0, Off} THEN debounce ELSE debounce - 1
        /\ heartbeat' = IF heartbeat = 0 THEN 0 ELSE heartbeat - 1
    BY <1>1, <1>u DEF Sooner
  <1>6. running' \in 0 .. MaxRun \cup {Off} /\ (running' = Off <=> running = Off)
    BY <1>1, <1>u
  <1>a. /\ running # Off => sinceRun = running
        /\ sinceRun < Heartbeat => idle <= sinceRun
        /\ running = Off => idle + heartbeat <= Heartbeat
        /\ ~hasData => idle = 0
        /\ debounce # Off => sinceRun # Off /\ debounce + sinceRun <= Window
    BY <1>t DEF Timing, RunAge, Beating, Debouncing
  <1>i. idle' \in 0 .. Heartbeat /\ idle' <= idle + 1 /\ (~hasData => idle' = 0)
    <2>1. CASE running = Off
      <3>1. heartbeat \in 1 .. Heartbeat
        BY <1>1, <1>u, <2>1
      <3>2. idle + 1 <= Heartbeat
        BY <1>a, <1>u, <2>1, <3>1
      <3> QED  BY <1>1, <1>a, <1>u, <3>2
    <2>2. CASE running # Off
      <3>1. running \in 0 .. MaxRun /\ idle <= running
        BY <1>a, <1>u, <2>2
      <3> QED  BY <1>1, <1>a, <1>u, <3>1
    <2> QED  BY <2>1, <2>2
  <1>7. RunAge'
    BY <1>1, <1>4, <1>6, <1>a, <1>i, <1>u DEF RunAge
  <1>8. Beating'
    BY <1>1, <1>5, <1>6, <1>a, <1>i, <1>u DEF Beating
  <1>9. OwnUpdate'
    BY <1>1, <1>2, <1>3, <1>6 DEF OwnUpdate
  <1>10. Debouncing'
    <2>1. CASE debounce = Off
      BY <1>5, <2>1 DEF Debouncing
    <2>2. CASE debounce = 0
      <3>1. running # Off /\ running \in 0 .. MaxRun /\ running < MaxRun /\ sinceRun = running
        BY <1>1, <1>a, <1>u, <2>2
      <3> QED  BY <1>4, <1>5, <2>2, <3>1 DEF Debouncing
    <2>3. CASE debounce \in 1 .. Window
      BY <1>4, <1>5, <1>a, <1>u, <2>3 DEF Debouncing
    <2> QED  BY <1>u, <2>1, <2>2, <2>3
  <1>11. waiting' \in 0 .. Heartbeat \cup {Off} /\ Waited'
    <2>1. CASE waiting = Off
      BY <1>1, <2>1 DEF Waited
    <2>2. CASE waiting # Off
      <3>1. hasData /\ waiting <= idle /\ waiting \in 0 .. Heartbeat
        BY <1>t, <1>u, <2>2 DEF Timing, Waited
      <3>2. waiting' = waiting + 1 /\ idle' = idle + 1 /\ hasData'
        BY <1>1, <2>2, <3>1
      <3>3. waiting' \in 0 .. Heartbeat /\ waiting' <= idle'
        BY <1>i, <1>u, <3>1, <3>2
      <3>4. ASSUME ~dropped', debounce' = Off PROVE Queued(Updated("poller"))' /\ waiting' <= MaxRun
        <4>1. ~dropped /\ debounce = Off
          BY <1>1, <1>5, <1>u, <3>4
        <4>2. Queued(Updated("poller"))
          BY <1>t, <2>2, <4>1 DEF Timing, Waited
        <4>3. running # Off
          BY <1>1, <1>3, <4>2
        <4>4. running \in 0 .. MaxRun /\ running < MaxRun /\ idle <= running
          BY <1>1, <1>a, <1>u, <4>3
        <4>5. waiting' <= MaxRun
          BY <1>u, <3>1, <3>2, <4>4
        <4> QED  BY <1>2, <4>2, <4>5
      <3> QED  BY <3>2, <3>3, <3>4 DEF Waited
    <2> QED  BY <2>1, <2>2
  <1>12. LoopTyped'
    <2>1. /\ sinceRun' \in 0 .. Heartbeat + 1 \cup {Off} /\ debounce' \in 0 .. Window \cup {Off}
          /\ heartbeat' \in 0 .. Heartbeat /\ polls' \in 0 .. MaxPolls
      BY <1>1, <1>4, <1>5, <1>u
    <2> QED  BY <1>1, <1>6, <1>i, <1>11, <1>t, <2>1, Zenon DEF LoopTyped
  <1> QED  BY <1>2, <1>7, <1>8, <1>9, <1>10, <1>11, <1>12 DEF LoopInv, Timing

-----------------------------------------------------------------------------
\* The invariant holds in every behaviour.
THEOREM AggregatorLoopInv == Spec => []LoopInv
  <1>1. LoopInv /\ [Next]_vars => LoopInv'
    <2> SUFFICES ASSUME LoopInv, [Next]_vars PROVE LoopInv'
      OBVIOUS
    <2>1. CASE UNCHANGED vars
      <3>1. UNCHANGED <<bus, loop, waiting, dropped, idle, polls, closes, received>>
        BY <2>1 DEF vars, ghosts
      <3>2. BusKept' /\ Delivery'
        BY <3>1 DEF LoopInv, BusKept, Sound, Delivery, InFlight, bus
      <3>3. /\ Queued(Updated("poller"))' <=> Queued(Updated("poller"))
            /\ Queued(Updated("aggregator"))' <=> Queued(Updated("aggregator"))
            /\ closes' \in 0 .. MaxCloses
        BY <3>1 DEF Queued, bus, LoopInv, Timing, LoopTyped
      <3>4. Timing'
        BY <3>1, <3>3, QueueGrows DEF LoopInv
      <3> QED  BY <3>2, <3>4 DEF LoopInv
    <2> QED
      BY <2>1, PollLoop, CloseDayLoop, OnEventLoop, TimerLoop, RunEndsLoop, TickLoop, BusStepLoop
         DEF Next
  <1> QED  BY InitLoop, <1>1, PTL DEF Spec

\* The type invariant.
THEOREM AggregatorLoopTypes == Spec => []LoopTypeOK
  <1>1. LoopInv => LoopTypeOK
    <2> SUFFICES ASSUME LoopInv PROVE LoopTypeOK
      OBVIOUS
    <2>1. BusTypeOK
      BY SoundTypeOK DEF LoopInv, BusKept
    <2>2. LoopTyped
      BY DEF LoopInv, Timing
    <2>3. sinceRun \in 0 .. Off /\ waiting \in 0 .. Off /\ idle \in Nat
      BY <2>2 DEF LoopTyped
    <2> QED  BY <2>1, <2>2, <2>3, Zenon DEF LoopTyped, LoopTypeOK
  <1> QED  BY AggregatorLoopInv, <1>1, PTL

\* deliver, pump and drain: every closed day reaches the aggregator, once and in
\* order, whatever the size of the channel and the number of updates in it.
THEOREM AggregatorLoopClosesInOrder == Spec => []ClosesInOrder
  <1>1. LoopInv => ClosesInOrder
    <2> SUFFICES ASSUME LoopInv PROVE ClosesInOrder
      OBVIOUS
    <2> DEFINE q == InFlight(Me)
               coming == {i \in 1 .. Len(q) : q[i].kind = "closed"}
    <2>1. /\ received = [n \in 1 .. Len(received) |-> n] /\ Len(received) <= closes
          /\ Order(q, Len(received), closes)
      BY DEF LoopInv, Delivery
    <2>2. {q[i].day : i \in coming} = Len(received) + 1 .. closes
      BY <2>1 DEF Order
    <2>3. \A i, j \in coming : i < j => q[i].day < q[j].day
      BY <2>1 DEF Order
    <2> QED  BY <2>1, <2>2, <2>3 DEF ClosesInOrder
  <1> QED  BY AggregatorLoopInv, <1>1, PTL

\* onEvent: a value waits for a run no longer than the debounce window, or than
\* the heartbeat when its update was dropped.
THEOREM AggregatorLoopBoundedDelay == Spec => []BoundedDelay
  <1>1. LoopInv => BoundedDelay
    <2> SUFFICES ASSUME LoopInv, waiting # Off
                 PROVE  waiting <= IF dropped THEN Heartbeat ELSE Window
      BY DEF BoundedDelay
    <2>1. /\ waiting \in 0 .. Heartbeat /\ idle \in 0 .. Heartbeat
          /\ debounce \in 0 .. Window \cup {Off} /\ sinceRun \in 0 .. Heartbeat + 1 \cup {Off}
      BY DEF LoopInv, Timing, LoopTyped
    <2>2. waiting <= idle /\ (~dropped /\ debounce = Off => waiting <= MaxRun)
      BY DEF LoopInv, Timing, Waited
    <2>3. /\ debounce # Off => sinceRun # Off /\ debounce + sinceRun <= Window
          /\ sinceRun < Heartbeat => idle <= sinceRun
      BY DEF LoopInv, Timing, Debouncing, RunAge
    <2>4. CASE dropped
      BY <2>1, <2>4
    <2>5. CASE ~dropped /\ debounce = Off
      BY <2>1, <2>2, <2>5
    <2>6. CASE ~dropped /\ debounce # Off
      <3>1. sinceRun <= Window /\ sinceRun < Heartbeat
        BY <2>1, <2>3, <2>6
      <3> QED  BY <2>1, <2>2, <2>3, <2>6, <3>1
    <2> QED  BY <2>4, <2>5, <2>6
  <1> QED  BY AggregatorLoopInv, <1>1, PTL

\* untilHeartbeat: with data, no more than the heartbeat passes without a run.
THEOREM AggregatorLoopHeartbeatKept == Spec => []HeartbeatKept
  <1>1. LoopInv => HeartbeatKept
    BY DEF LoopInv, Timing, LoopTyped, HeartbeatKept
  <1> QED  BY AggregatorLoopInv, <1>1, PTL
=============================================================================
