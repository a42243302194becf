--------------------------- MODULE EventBusProofs ---------------------------
(***************************************************************************)
(* What the steps of the event bus (module EventBus) do to the events a    *)
(* subscriber is still to get, for every set of subscribers, every size of *)
(* the channel and every set E of events: Publish appends one or drops an  *)
(* update, the pump changes nothing, a receiver takes the first.           *)
(***************************************************************************)
EXTENDS EventBus, SequenceTheorems, TLAPS

\* The subscriptions as the bus keeps them: the overflow never holds an update,
\* and while the pump is to remove an event, there is one.
Sound(E) ==
    /\ subs \subseteq Subscribers
    /\ ch \in [Subscribers -> Seq(E)] /\ overflow \in [Subscribers -> Seq(E)]
    /\ kick \in [Subscribers -> BOOLEAN]
    /\ pump \in [Subscribers -> {"wait", "drain", "trim"}]
    /\ \A s \in Subscribers :
          /\ Len(ch[s]) <= EventBuffer
          /\ pump[s] = "trim" => overflow[s] # << >>
          /\ \A i \in 1 .. Len(overflow[s]) : overflow[s][i].kind # "updated"

USE EventBusAssumption

LEMMA SoundTypeOK == ASSUME NEW E, Sound(E) PROVE BusTypeOK
  BY DEF Sound, BusTypeOK

LEMMA BusInitSound == ASSUME NEW E, BusInit PROVE Sound(E)
  <1>1. << >> \in Seq(E) /\ Len(<< >>) = 0
    BY EmptySeq
  <1> QED  BY <1>1 DEF BusInit, Sound

-----------------------------------------------------------------------------
\* Facts about sequences.

LEMMA AppendConcat ==
    ASSUME NEW E, NEW q \in Seq(E), NEW r \in Seq(E), NEW e \in E
    PROVE  q \o Append(r, e) = Append(q \o r, e)
  <1>1. <<e>> \in Seq(E) /\ q \o r \in Seq(E)
    BY ConcatProperties
  <1>2. Append(r, e) = r \o <<e>> /\ Append(q \o r, e) = (q \o r) \o <<e>>
    BY <1>1, AppendIsConcat
  <1> QED  BY <1>1, <1>2, ConcatAssociative

LEMMA MoveHead ==
    ASSUME NEW E, NEW q \in Seq(E), NEW r \in Seq(E), r # << >>
    PROVE  Append(q, Head(r)) \o Tail(r) = q \o r
  <1>1. /\ Head(r) \in E /\ Tail(r) \in Seq(E) /\ Len(Tail(r)) = Len(r) - 1
        /\ \A i \in 1 .. Len(Tail(r)) : Tail(r)[i] = r[i + 1]
    BY HeadTailProperties
  <1>2. Len(q) \in Nat /\ Len(r) \in Nat \ {0}
    BY LenProperties, EmptySeq
  <1>h. Head(r) = r[1]
    OBVIOUS
  <1> DEFINE a == Append(q, Head(r))
  <1>3. /\ a \in Seq(E) /\ Len(a) = Len(q) + 1
        /\ \A i \in 1 .. Len(q) : a[i] = q[i]
        /\ a[Len(q) + 1] = Head(r)
    BY <1>1, AppendProperties
  <1> HIDE DEF a
  <1>4. /\ a \o Tail(r) \in Seq(E) /\ Len(a \o Tail(r)) = Len(a) + Len(Tail(r))
        /\ \A i \in 1 .. Len(a) + Len(Tail(r)) :
              (a \o Tail(r))[i] = IF i <= Len(a) THEN a[i] ELSE Tail(r)[i - Len(a)]
    BY <1>1, <1>3, ConcatProperties
  <1>5. /\ q \o r \in Seq(E) /\ Len(q \o r) = Len(q) + Len(r)
        /\ \A i \in 1 .. Len(q) + Len(r) :
              (q \o r)[i] = IF i <= Len(q) THEN q[i] ELSE r[i - Len(q)]
    BY ConcatProperties
  <1>6. Len(a \o Tail(r)) = Len(q \o r)
    BY <1>1, <1>2, <1>3, <1>4, <1>5
  <1>7. ASSUME NEW i \in 1 .. Len(q) + Len(r) PROVE (a \o Tail(r))[i] = (q \o r)[i]
    <2>1. CASE i <= Len(q)
      BY <1>1, <1>2, <1>3, <1>4, <1>5, <2>1
    <2>2. CASE i = Len(q) + 1
      BY <1>1, <1>2, <1>h, <1>3, <1>4, <1>5, <2>2
    <2>3. CASE i > Len(q) + 1
      <3>1. i - Len(a) \in 1 .. Len(Tail(r)) /\ i - Len(a) + 1 = i - Len(q)
        BY <1>1, <1>2, <1>3, <2>3
      <3>2. Tail(r)[i - Len(a)] = r[i - Len(q)]
        BY <1>1, <3>1
      <3> QED  BY <1>1, <1>2, <1>3, <1>4, <1>5, <2>3, <3>2
    <2>4. i <= Len(q) \/ i = Len(q) + 1 \/ i > Len(q) + 1
      BY <1>2
    <2> QED  BY <2>1, <2>2, <2>3, <2>4
  <1>8. a \o Tail(r) = q \o r
    BY <1>4, <1>5, <1>6, <1>7, SeqEqual
  <1> QED  BY <1>8 DEF a

LEMMA TailConcat ==
    ASSUME NEW E, NEW q \in Seq(E), NEW r \in Seq(E), q # << >>
    PROVE  /\ q \o r # << >> /\ Head(q \o r) = Head(q)
           /\ Tail(q) \o r = Tail(q \o r)
  <1>1. /\ Tail(q) \in Seq(E) /\ Len(Tail(q)) = Len(q) - 1
        /\ \A i \in 1 .. Len(Tail(q)) : Tail(q)[i] = q[i + 1]
    BY HeadTailProperties
  <1>2. Len(q) \in Nat \ {0} /\ Len(r) \in Nat
    BY LenProperties, EmptySeq
  <1>3. /\ q \o r \in Seq(E) /\ Len(q \o r) = Len(q) + Len(r)
        /\ \A i \in 1 .. Len(q) + Len(r) :
              (q \o r)[i] = IF i <= Len(q) THEN q[i] ELSE r[i - Len(q)]
    BY ConcatProperties
  <1>4. q \o r # << >>
    BY <1>2, <1>3, EmptySeq
  <1>5. /\ Tail(q \o r) \in Seq(E) /\ Len(Tail(q \o r)) = Len(q \o r) - 1
        /\ \A i \in 1 .. Len(Tail(q \o r)) : Tail(q \o r)[i] = (q \o r)[i + 1]
    BY <1>3, <1>4, HeadTailProperties
  <1>6. /\ Tail(q) \o r \in Seq(E) /\ Len(Tail(q) \o r) = Len(Tail(q)) + Len(r)
        /\ \A i \in 1 .. Len(Tail(q)) + Len(r) :
              (Tail(q) \o r)[i] = IF i <= Len(Tail(q)) THEN Tail(q)[i] ELSE r[i - Len(Tail(q))]
    BY <1>1, ConcatProperties
  <1>7. Head(q \o r) = Head(q)
    <2>1. Head(q \o r) = (q \o r)[1] /\ Head(q) = q[1]
      OBVIOUS
    <2> QED  BY <1>2, <1>3, <2>1
  <1>8. Len(Tail(q) \o r) = Len(Tail(q \o r))
    BY <1>1, <1>2, <1>3, <1>5, <1>6
  <1>9. ASSUME NEW i \in 1 .. Len(Tail(q)) + Len(r) PROVE (Tail(q) \o r)[i] = Tail(q \o r)[i]
    <2>1. Tail(q \o r)[i] = (q \o r)[i + 1] /\ i + 1 \in 1 .. Len(q) + Len(r)
      BY <1>1, <1>2, <1>3, <1>5
    <2>2. CASE i <= Len(Tail(q))
      BY <1>1, <1>2, <1>3, <1>6, <2>1, <2>2
    <2>3. CASE i > Len(Tail(q))
      <3>1. i + 1 > Len(q) /\ (i + 1) - Len(q) = i - Len(Tail(q))
        BY <1>1, <1>2, <2>3
      <3> QED  BY <1>1, <1>2, <1>3, <1>6, <2>1, <2>3, <3>1
    <2> QED  BY <1>1, <1>2, <2>2, <2>3
  <1>10. Tail(q) \o r = Tail(q \o r)
    BY <1>5, <1>6, <1>8, <1>9, SeqEqual
  <1> QED  BY <1>4, <1>7, <1>10

LEMMA InFlightSeq ==
    ASSUME NEW E, Sound(E), NEW s \in Subscribers
    PROVE  InFlight(s) \in Seq(E)
  <1>1. ch[s] \in Seq(E) /\ overflow[s] \in Seq(E) /\ (pump[s] = "trim" => overflow[s] # << >>)
    BY DEF Sound
  <1>2. pump[s] = "trim" => Tail(overflow[s]) \in Seq(E)
    BY <1>1, HeadTailProperties
  <1> QED  BY <1>1, <1>2, ConcatProperties DEF InFlight

-----------------------------------------------------------------------------
\* Bus.Publish

LEMMA PublishSound == ASSUME NEW E, Sound(E), NEW e \in E, Publish(e) PROVE Sound(E)'
  <1>1. ASSUME NEW s \in Subscribers
        PROVE  /\ ch[s] \in Seq(E) /\ overflow[s] \in Seq(E) /\ Len(ch[s]) <= EventBuffer
               /\ Append(ch[s], e) \in Seq(E) /\ Len(Append(ch[s], e)) = Len(ch[s]) + 1
               /\ Append(overflow[s], e) \in Seq(E) /\ Append(overflow[s], e) # << >>
               /\ Len(Append(overflow[s], e)) = Len(overflow[s]) + 1
               /\ \A i \in 1 .. Len(overflow[s]) : Append(overflow[s], e)[i] = overflow[s][i]
               /\ Append(overflow[s], e)[Len(overflow[s]) + 1] = e
               /\ Len(ch[s]) \in Nat /\ Len(overflow[s]) \in Nat
    <2>1. ch[s] \in Seq(E) /\ overflow[s] \in Seq(E) /\ Len(ch[s]) <= EventBuffer
      BY DEF Sound
    <2> QED  BY <2>1, AppendProperties, LenProperties
  <1>2. ASSUME NEW s \in Subscribers
        PROVE  /\ ch'[s] \in Seq(E) /\ overflow'[s] \in Seq(E)
               /\ Len(ch'[s]) <= EventBuffer
               /\ pump'[s] = "trim" => overflow'[s] # << >>
               /\ \A i \in 1 .. Len(overflow'[s]) : overflow'[s][i].kind # "updated"
    <2>1. CASE s \in subs /\ Direct(s)
      <3>1. ch'[s] = Append(ch[s], e) /\ overflow'[s] = overflow[s] /\ pump'[s] = pump[s]
        BY <2>1 DEF Publish, Overflows
      <3>2. Len(ch[s]) < EventBuffer
        BY <2>1 DEF Direct
      <3>3. Len(ch'[s]) <= EventBuffer
        BY <1>1, <3>1, <3>2
      <3> QED  BY <1>1, <3>1, <3>3 DEF Sound
    <2>2. CASE s \in subs /\ Overflows(s, e)
      <3>1. /\ ch'[s] = ch[s] /\ overflow'[s] = Append(overflow[s], e) /\ pump'[s] = pump[s]
            /\ e.kind # "updated"
        BY <2>2 DEF Publish, Overflows
      <3>2. ASSUME NEW i \in 1 .. Len(overflow'[s]) PROVE overflow'[s][i].kind # "updated"
        <4>1. i \in 1 .. Len(overflow[s]) \/ i = Len(overflow[s]) + 1
          BY <1>1, <3>1
        <4> QED  BY <1>1, <3>1, <4>1 DEF Sound
      <3> QED  BY <1>1, <3>1, <3>2
    <2>3. CASE ~(s \in subs /\ Direct(s)) /\ ~(s \in subs /\ Overflows(s, e))
      <3>1. ch'[s] = ch[s] /\ overflow'[s] = overflow[s] /\ pump'[s] = pump[s]
        BY <2>3 DEF Publish
      <3> QED  BY <1>1, <3>1 DEF Sound
    <2> QED  BY <2>1, <2>2, <2>3
  <1>3. ch' \in [Subscribers -> Seq(E)] /\ overflow' \in [Subscribers -> Seq(E)]
    BY <1>2 DEF Publish
  <1>4. kick' \in [Subscribers -> BOOLEAN]
    BY DEF Publish
  <1> QED  BY <1>2, <1>3, <1>4 DEF Publish, Sound

\* An event is appended to what is coming, unless it is an update that does not
\* fit, which is dropped.
LEMMA PublishInFlight ==
    ASSUME NEW E, Sound(E), NEW e \in E, NEW s \in subs, Publish(e)
    PROVE  InFlight(s)' = IF Direct(s) \/ e.kind # "updated" THEN Append(InFlight(s), e)
                                                             ELSE InFlight(s)
  <1>1. /\ s \in Subscribers /\ ch[s] \in Seq(E) /\ overflow[s] \in Seq(E)
        /\ pump[s] = "trim" => overflow[s] # << >>
    BY DEF Sound
  <1>2. pump'[s] = pump[s]
    BY DEF Publish
  <1>a. \A q, r \in Seq(E) : q \o Append(r, e) = Append(q \o r, e)
    BY AppendConcat
  <1>3. CASE Direct(s)
    <2>1. ch'[s] = Append(ch[s], e) /\ overflow'[s] = << >> /\ overflow[s] = << >> /\ pump[s] # "trim"
      BY <1>1, <1>3 DEF Publish, Direct, Overflows
    <2>2. Append(ch[s], e) \in Seq(E)
      BY <1>1, AppendProperties
    <2>3. ch[s] \o << >> = ch[s] /\ Append(ch[s], e) \o << >> = Append(ch[s], e)
      BY <1>1, <2>2, ConcatEmptySeq
    <2> QED  BY <1>2, <1>3, <2>1, <2>3 DEF InFlight
  <1>4. CASE ~Direct(s) /\ e.kind # "updated"
    <2>1. ch'[s] = ch[s] /\ overflow'[s] = Append(overflow[s], e)
      BY <1>1, <1>4 DEF Publish, Overflows
    <2>2. CASE pump[s] = "trim"
      <3>1. Tail(Append(overflow[s], e)) = Append(Tail(overflow[s]), e)
        BY <1>1, <2>2, HeadTailAppend
      <3>2. Tail(overflow[s]) \in Seq(E)
        BY <1>1, <2>2, HeadTailProperties
      <3>3. ch[s] \o Append(Tail(overflow[s]), e) = Append(ch[s] \o Tail(overflow[s]), e)
        BY <1>1, <1>a, <3>2, Zenon
      <3> QED  BY <1>2, <1>4, <2>1, <2>2, <3>1, <3>3 DEF InFlight
    <2>3. CASE pump[s] # "trim"
      <3>1. ch[s] \o Append(overflow[s], e) = Append(ch[s] \o overflow[s], e)
        BY <1>1, <1>a, Zenon
      <3> QED  BY <1>2, <1>4, <2>1, <2>3, <3>1 DEF InFlight
    <2> QED  BY <2>2, <2>3
  <1>5. CASE ~Direct(s) /\ e.kind = "updated"
    BY <1>1, <1>2, <1>5 DEF Publish, Overflows, InFlight
  <1> QED  BY <1>3, <1>4, <1>5

-----------------------------------------------------------------------------
\* subscription.pump and drain

\* The pump's two steps, a send and a removal, change nothing of what is coming;
\* the channel only grows, by an event that is no update.
LEMMA PumpKeeps ==
    ASSUME NEW E, Sound(E), NEW s \in Subscribers, Pump(s)
    PROVE  /\ Sound(E)' /\ InFlight(s)' = InFlight(s)
           /\ \/ ch'[s] = ch[s]
              \/ \E e \in E : e.kind # "updated" /\ ch'[s] = Append(ch[s], e)
  <1>1. /\ ch[s] \in Seq(E) /\ overflow[s] \in Seq(E) /\ Len(ch[s]) <= EventBuffer
        /\ pump[s] = "trim" => overflow[s] # << >>
        /\ \A i \in 1 .. Len(overflow[s]) : overflow[s][i].kind # "updated"
    BY DEF Sound
  <1>t. /\ ch \in [Subscribers -> Seq(E)] /\ overflow \in [Subscribers -> Seq(E)]
        /\ kick \in [Subscribers -> BOOLEAN] /\ pump \in [Subscribers -> {"wait", "drain", "trim"}]
        /\ subs' \subseteq Subscribers
    BY DEF Sound, Pump
  <1>2. CASE /\ pump[s] = "wait" /\ kick' = [kick EXCEPT ![s] = FALSE]
             /\ pump' = [pump EXCEPT ![s] = "drain"] /\ UNCHANGED <<ch, overflow>>
    <2>1. kick' \in [Subscribers -> BOOLEAN]
      BY <1>2, <1>t
    <2>2. pump' \in [Subscribers -> {"wait", "drain", "trim"}]
      BY <1>2, <1>t
    <2>3. \A t \in Subscribers : pump'[t] = "trim" => pump[t] = "trim"
      BY <1>2, <1>t
    <2>4. pump'[s] # "trim" /\ pump[s] # "trim"
      BY <1>2, <1>t
    <2> QED  BY <1>2, <1>t, <2>1, <2>2, <2>3, <2>4 DEF Sound, InFlight
  <1>3. CASE /\ pump[s] = "drain" /\ pump' = [pump EXCEPT ![s] = "wait"]
             /\ UNCHANGED <<ch, overflow, kick>>
    <2>2. pump' \in [Subscribers -> {"wait", "drain", "trim"}]
      BY <1>3, <1>t
    <2>3. \A t \in Subscribers : pump'[t] = "trim" => pump[t] = "trim"
      BY <1>3, <1>t
    <2>4. pump'[s] # "trim" /\ pump[s] # "trim"
      BY <1>3, <1>t
    <2> QED  BY <1>3, <1>t, <2>2, <2>3, <2>4 DEF Sound, InFlight
  <1>4. CASE /\ pump[s] = "drain" /\ overflow[s] # << >> /\ Len(ch[s]) < EventBuffer
             /\ ch' = [ch EXCEPT ![s] = Append(@, Head(overflow[s]))]
             /\ pump' = [pump EXCEPT ![s] = "trim"] /\ UNCHANGED <<overflow, kick>>
    <2>1. Head(overflow[s]) \in E /\ Head(overflow[s]) = overflow[s][1] /\ Len(overflow[s]) \in Nat \ {0}
      BY <1>1, <1>4, HeadTailProperties, EmptySeq
    <2>2. Head(overflow[s]).kind # "updated"
      BY <1>1, <2>1
    <2>3. /\ Append(ch[s], Head(overflow[s])) \in Seq(E) /\ Len(ch[s]) \in Nat
          /\ Len(Append(ch[s], Head(overflow[s]))) = Len(ch[s]) + 1
      BY <1>1, <2>1, AppendProperties, LenProperties
    <2>4. /\ ch'[s] = Append(ch[s], Head(overflow[s])) /\ pump'[s] = "trim"
          /\ \A t \in Subscribers \ {s} : ch'[t] = ch[t] /\ pump'[t] = pump[t]
          /\ ch' \in [Subscribers -> Seq(E)] /\ pump' \in [Subscribers -> {"wait", "drain", "trim"}]
      BY <1>4, <1>t, <2>3
    <2>5. Append(ch[s], Head(overflow[s])) \o Tail(overflow[s]) = ch[s] \o overflow[s]
      BY <1>1, <1>4, MoveHead
    <2>6. InFlight(s)' = InFlight(s)
      BY <1>4, <2>4, <2>5 DEF InFlight
    <2>7. Len(ch'[s]) <= EventBuffer
      BY <1>4, <2>3, <2>4
    <2>8. Sound(E)'
      BY <1>4, <1>t, <2>4, <2>7 DEF Sound
    <2> QED  BY <2>1, <2>2, <2>4, <2>6, <2>8
  <1>5. CASE /\ pump[s] = "trim" /\ overflow' = [overflow EXCEPT ![s] = Tail(@)]
             /\ pump' = [pump EXCEPT ![s] = "drain"] /\ UNCHANGED <<ch, kick>>
    <2>1. /\ Tail(overflow[s]) \in Seq(E) /\ Len(Tail(overflow[s])) = Len(overflow[s]) - 1
          /\ \A i \in 1 .. Len(Tail(overflow[s])) : Tail(overflow[s])[i] = overflow[s][i + 1]
          /\ Len(overflow[s]) \in Nat
      BY <1>1, <1>5, HeadTailProperties, LenProperties
    <2>2. \A i \in 1 .. Len(Tail(overflow[s])) : Tail(overflow[s])[i].kind # "updated"
      <3>1. \A i \in 1 .. Len(Tail(overflow[s])) : i + 1 \in 1 .. Len(overflow[s])
        BY <2>1
      <3> QED  BY <1>1, <2>1, <3>1
    <2>3. /\ overflow'[s] = Tail(overflow[s]) /\ pump'[s] = "drain"
          /\ \A t \in Subscribers \ {s} : overflow'[t] = overflow[t] /\ pump'[t] = pump[t]
          /\ overflow' \in [Subscribers -> Seq(E)] /\ pump' \in [Subscribers -> {"wait", "drain", "trim"}]
      BY <1>5, <1>t, <2>1
    <2>4. InFlight(s)' = InFlight(s)
      BY <1>5, <2>3 DEF InFlight
    <2>5. Sound(E)'
      BY <1>5, <1>t, <2>2, <2>3 DEF Sound
    <2> QED  BY <1>5, <2>4, <2>5
  <1> QED  BY <1>2, <1>3, <1>4, <1>5 DEF Pump

-----------------------------------------------------------------------------
\* The consumer takes the first event of what is coming.
LEMMA ReceiveTakes ==
    ASSUME NEW E, Sound(E), NEW s \in Subscribers, NEW e, Receive(s, e)
    PROVE  /\ Sound(E)' /\ e \in E
           /\ ch[s] # << >> /\ e = Head(ch[s]) /\ ch'[s] = Tail(ch[s])
           /\ InFlight(s) # << >> /\ e = Head(InFlight(s)) /\ InFlight(s)' = Tail(InFlight(s))
  <1>1. /\ ch[s] \in Seq(E) /\ overflow[s] \in Seq(E) /\ Len(ch[s]) <= EventBuffer
        /\ pump[s] = "trim" => overflow[s] # << >>
    BY DEF Sound
  <1>2. /\ ch[s] # << >> /\ e = Head(ch[s]) /\ ch' = [ch EXCEPT ![s] = Tail(@)]
        /\ UNCHANGED <<subs, overflow, kick, pump>>
    BY DEF Receive
  <1>t. ch \in [Subscribers -> Seq(E)]
    BY DEF Sound
  <1>3. /\ Head(ch[s]) \in E /\ Tail(ch[s]) \in Seq(E) /\ Len(Tail(ch[s])) = Len(ch[s]) - 1
        /\ Len(ch[s]) \in Nat
    BY <1>1, <1>2, HeadTailProperties, LenProperties
  <1>4. /\ ch'[s] = Tail(ch[s]) /\ ch' \in [Subscribers -> Seq(E)]
        /\ \A t \in Subscribers \ {s} : ch'[t] = ch[t]
    BY <1>2, <1>t, <1>3
  <1>5. Len(ch'[s]) <= EventBuffer
    BY <1>1, <1>3, <1>4
  <1>6. Sound(E)'
    BY <1>2, <1>4, <1>5 DEF Sound
  <1> DEFINE rest == IF pump[s] = "trim" THEN Tail(overflow[s]) ELSE overflow[s]
  <1>7. rest \in Seq(E) /\ rest' = rest
    <2>1. pump[s] = "trim" => Tail(overflow[s]) \in Seq(E)
      BY <1>1, HeadTailProperties
    <2> QED  BY <1>1, <1>2, <2>1
  <1>8. InFlight(s) = ch[s] \o rest /\ InFlight(s)' = ch'[s] \o rest
    BY <1>7 DEF InFlight
  <1> HIDE DEF rest
  <1>9. /\ ch[s] \o rest # << >> /\ Head(ch[s] \o rest) = Head(ch[s])
        /\ Tail(ch[s]) \o rest = Tail(ch[s] \o rest)
    BY <1>1, <1>2, <1>7, TailConcat
  <1> QED  BY <1>2, <1>3, <1>4, <1>6, <1>8, <1>9

-----------------------------------------------------------------------------
\* A subscription that ends leaves nothing behind, one that begins has nothing.
LEMMA UnsubscribeSound ==
    ASSUME NEW E, Sound(E), NEW s \in Subscribers, Unsubscribe(s) PROVE Sound(E)'
  <1>1. << >> \in Seq(E) /\ Len(<< >>) = 0 /\ 0 <= EventBuffer
    BY EmptySeq, EventBusAssumption
  <1>2. /\ subs' \subseteq Subscribers
        /\ ch' \in [Subscribers -> Seq(E)] /\ overflow' \in [Subscribers -> Seq(E)]
        /\ kick' \in [Subscribers -> BOOLEAN]
        /\ pump' \in [Subscribers -> {"wait", "drain", "trim"}]
    BY <1>1 DEF Unsubscribe, Sound
  <1>3. ASSUME NEW t \in Subscribers
        PROVE  /\ Len(ch'[t]) <= EventBuffer
               /\ pump'[t] = "trim" => overflow'[t] # << >>
               /\ \A i \in 1 .. Len(overflow'[t]) : overflow'[t][i].kind # "updated"
    <2>1. CASE t = s
      BY <1>1, <2>1 DEF Unsubscribe, Sound
    <2>2. CASE t # s
      BY <2>2 DEF Unsubscribe, Sound
    <2> QED  BY <2>1, <2>2
  <1> QED  BY <1>2, <1>3 DEF Sound

LEMMA SubscribeSound ==
    ASSUME NEW E, Sound(E), NEW s \in Subscribers, Subscribe(s) PROVE Sound(E)'
  BY DEF Subscribe, Sound

LEMMA BusStaysSound == ASSUME NEW E, Sound(E), UNCHANGED bus PROVE Sound(E)'
  BY DEF bus, Sound
=============================================================================
