------------------------------ MODULE EventBus ------------------------------
(***************************************************************************)
(* The event bus (internal/eventbus) with subscriptions of the Coalesce    *)
(* policy, the one every consumer uses.  A subscription is a buffered      *)
(* channel, an overflow list for the events that must not be lost, and a   *)
(* pump goroutine that moves the overflow into the channel.  Publish never *)
(* blocks.                                                                 *)
(*                                                                         *)
(* Publish appears as one step: concurrent publishers share the read lock, *)
(* but only the poller publishes events that may enter the overflow.       *)
(***************************************************************************)
EXTENDS Naturals, Sequences

CONSTANTS Subscribers,
          EventBuffer     \* the size of a subscription's channel

ASSUME EventBusAssumption == EventBuffer \in Nat \ {0}

VARIABLES subs,           \* the live subscriptions
          ch, overflow,
          kick,           \* the pump has been told of overflow
          pump            \* "wait", "drain", or "trim" between a send and its removal

bus == <<subs, ch, overflow, kick, pump>>

\* Events: values of a cache domain were updated; a day was closed.
Updated(domain) == [kind |-> "updated", domain |-> domain]
PeriodClosed(n) == [kind |-> "closed", day |-> n]

BusInit ==
    /\ subs = Subscribers
    /\ ch = [s \in Subscribers |-> << >>]
    /\ overflow = [s \in Subscribers |-> << >>]
    /\ kick = [s \in Subscribers |-> FALSE]
    /\ pump = [s \in Subscribers |-> "wait"]

\* (mutant) A send that overtakes the overflow.
DirectUnordered(s) == Len(ch[s]) < EventBuffer

\* (mutant) A send without regard to the room.
DirectBlocking(s) == overflow[s] = << >>

\* subscription.deliver sends directly when nothing is queued and there is room.
Direct(s) == overflow[s] = << >> /\ Len(ch[s]) < EventBuffer

\* Otherwise an update is dropped and anything else goes to the overflow.
Overflows(s, e) == ~Direct(s) /\ e.kind # "updated"

\* Bus.Publish
Publish(e) ==
    /\ ch' = [s \in Subscribers |->
                 IF s \in subs /\ Direct(s) THEN Append(ch[s], e) ELSE ch[s]]
    /\ overflow' = [s \in Subscribers |->
                 IF s \in subs /\ Overflows(s, e) THEN Append(overflow[s], e) ELSE overflow[s]]
    /\ kick' = [s \in Subscribers |-> kick[s] \/ (s \in subs /\ Overflows(s, e))]
    /\ UNCHANGED <<subs, pump>>

\* subscription.pump and drain: woken, send the first overflow event, remove it.
Pump(s) ==
    /\ s \in subs
    /\ \/ /\ pump[s] = "wait" /\ kick[s]
          /\ kick' = [kick EXCEPT ![s] = FALSE]
          /\ pump' = [pump EXCEPT ![s] = "drain"]
          /\ UNCHANGED <<ch, overflow>>
       \/ /\ pump[s] = "drain" /\ overflow[s] = << >>
          /\ pump' = [pump EXCEPT ![s] = "wait"]
          /\ UNCHANGED <<ch, overflow, kick>>
       \/ /\ pump[s] = "drain" /\ overflow[s] # << >> /\ Len(ch[s]) < EventBuffer
          /\ ch' = [ch EXCEPT ![s] = Append(@, Head(overflow[s]))]
          /\ pump' = [pump EXCEPT ![s] = "trim"]
          /\ UNCHANGED <<overflow, kick>>
       \/ /\ pump[s] = "trim"
          /\ overflow' = [overflow EXCEPT ![s] = Tail(@)]
          /\ pump' = [pump EXCEPT ![s] = "drain"]
          /\ UNCHANGED <<ch, kick>>
    /\ UNCHANGED subs

\* The consumer takes the next event.
Receive(s, e) ==
    /\ s \in subs /\ ch[s] # << >> /\ e = Head(ch[s])
    /\ ch' = [ch EXCEPT ![s] = Tail(@)]
    /\ UNCHANGED <<subs, overflow, kick, pump>>

\* Bus.unsubscribe releases the channel and ends the pump, ...
Unsubscribe(s) ==
    /\ s \in subs /\ subs' = subs \ {s}
    /\ ch' = [ch EXCEPT ![s] = << >>]
    /\ overflow' = [overflow EXCEPT ![s] = << >>]
    /\ kick' = [kick EXCEPT ![s] = FALSE]
    /\ pump' = [pump EXCEPT ![s] = "wait"]

\* ... Bus.Subscribe starts with empty ones.
Subscribe(s) ==
    /\ s \notin subs /\ subs' = subs \cup {s}
    /\ UNCHANGED <<ch, overflow, kick, pump>>

\* What a subscriber is still to get, in order: the pump's event is in both
\* places until it is trimmed.
InFlight(s) == ch[s] \o (IF pump[s] = "trim" THEN Tail(overflow[s]) ELSE overflow[s])

BusTypeOK ==
    /\ subs \subseteq Subscribers
    /\ \A s \in Subscribers : Len(ch[s]) <= EventBuffer
    /\ kick \in [Subscribers -> BOOLEAN]
    /\ pump \in [Subscribers -> {"wait", "drain", "trim"}]
=============================================================================
