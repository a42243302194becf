------------------------------ MODULE LiveView ------------------------------
(***************************************************************************)
(* How a polled value reaches a browser: the poller stores it, replaces    *)
(* its domain of the cache (internal/cache) and an event goes over the bus *)
(* (EventBus) to the aggregator's loop (internal/aggregator), whose run    *)
(* merges computed values into the cache, and to the hub                   *)
(* (internal/websocket), which sends what changed to the browser's         *)
(* connection (frontend websocket.ts, useRegisterStore.ts).                *)
(*                                                                         *)
(* Connections break, half-open ones included, clients are slow, runs      *)
(* fail, and the supervisor may replace the hub.  There is one browser;    *)
(* Conns are the connections it has opened, of which the hub may still     *)
(* hold old ones.  A computed value is the stored value of its source.     *)
(***************************************************************************)
EXTENDS EventBus, FiniteSets, SequencesExt

CONSTANTS PollKeys, AggKeys, Source,   \* registers; the source of a computed one
          Values, NoVal,
          Conns, MaxClients,
          SendBuffer,                  \* frames a client's queue holds
          Shared,                      \* the keys whose viewers come and go
          MaxRefs,                     \* bound: viewers of one key
          MaxChanges, MaxToggles, MaxFaults   \* bounds

Keys == PollKeys \cup AggKeys
Partial == [Keys -> Values \cup {NoVal}]
Nothing == [k \in Keys |-> NoVal]

None == "none"                 \* no connection

ASSUME LiveViewAssumption ==
    /\ NoVal \notin Values /\ PollKeys \cap AggKeys = {}
    /\ Source \in [AggKeys -> PollKeys] /\ Shared \subseteq Keys
    /\ Subscribers = {"hub"}
    /\ MaxClients \in Nat /\ SendBuffer \in Nat /\ MaxRefs \in Nat \ {0}
    /\ None \notin Conns

VARIABLES
    row,            \* the stored daily values
    data,           \* the cache
    poller,         \* "idle", or "publish" between its cache write and the event
    agg,            \* likewise the aggregator
    dirty,          \* the hub has armed a flush
    clients,        \* the connections the hub serves, ...
    clientSubs, last,   \* ... their subscribed keys, and what they were sent last
    up, down,       \* frames to and from the hub
    half,           \* connections that are dead without either side knowing
    cur,            \* the browser's connection, or none
    refs,           \* its subscriptions, ref-counted
    view,           \* what it shows
    changes, closed, toggles, faults    \* bookkeeping

server  == <<row, data, poller, agg>>
hub     == <<dirty, clients, clientSubs, last>>
net     == <<up, down, half>>
browser == <<cur, refs, view>>
counts  == <<changes, closed, toggles, faults>>
vars    == <<bus, server, hub, net, browser, counts>>

Wanted == {k \in Keys : refs[k] > 0}
Fault == faults < MaxFaults /\ faults' = faults + 1

Init ==
    /\ BusInit
    /\ row = Nothing /\ data = Nothing /\ poller = "idle"
    /\ agg = "idle"
    /\ dirty = FALSE /\ clients = {} /\ clientSubs = [c \in Conns |-> {}]
    /\ last = [c \in Conns |-> Nothing]
    /\ up = [c \in Conns |-> << >>] /\ down = [c \in Conns |-> << >>] /\ half = {}
    /\ cur = None /\ refs = [k \in Keys |-> 1] /\ view = Nothing
    /\ changes = 0 /\ closed = FALSE /\ toggles = 0 /\ faults = 0

-----------------------------------------------------------------------------
\* The poller and the cache.

\* A poll stores its values and replaces the poller's domain of the cache (a
\* value it did not get is removed); the event follows after the cache's lock.
Poll ==
    /\ poller = "idle" /\ poller' = "publish"
    /\ \E v \in [PollKeys -> Values \cup {NoVal}] :
          /\ data' = [k \in Keys |-> IF k \in PollKeys THEN v[k] ELSE data[k]]
          /\ row' = [k \in Keys |-> IF k \in PollKeys /\ v[k] # NoVal THEN v[k] ELSE row[k]]
    /\ \/ data' = data /\ UNCHANGED changes
       \/ data' # data /\ changes < MaxChanges /\ changes' = changes + 1
    /\ UNCHANGED <<bus, agg, hub, net, browser, closed, toggles, faults>>

\* ReplaceDomain publishes whether or not anything changed.
PollPublish ==
    /\ poller = "publish" /\ poller' = "idle"
    /\ Publish(Updated("poller"))
    /\ UNCHANGED <<row, data, agg, hub, net, browser, counts>>

\* A poll that closed a day says so after its commit.
PollClose ==
    /\ poller = "idle" /\ ~closed /\ closed' = TRUE
    /\ Publish(PeriodClosed(1))
    /\ UNCHANGED <<server, hub, net, browser, changes, toggles, faults>>

-----------------------------------------------------------------------------
\* The aggregator (AggregatorLoop says when it runs, Aggregator what a run does).

\* After a run the values computed from stored ones are merged into the cache;
\* without any there is nothing to merge and no event.
AggMerge ==
    LET computed == {k \in AggKeys : row[Source[k]] # NoVal} IN
    /\ agg = "idle" /\ computed # {} /\ agg' = "publish"
    /\ data' = [k \in Keys |-> IF k \in computed THEN row[Source[k]] ELSE data[k]]
    /\ UNCHANGED <<bus, row, poller, hub, net, browser, counts>>

AggPublish ==
    /\ agg = "publish" /\ agg' = "idle"
    /\ Publish(Updated("aggregator"))
    /\ UNCHANGED <<row, data, poller, hub, net, browser, counts>>

-----------------------------------------------------------------------------
\* The hub.  Frames carry the values of some keys and the keys removed.

Frame(values, removed) == [values |-> values, removed |-> removed]

Frames == [values : Partial, removed : SUBSET Keys]

\* (mutant) One frame more than the queue holds.
HasRoomPlus(c) == Len(down[c]) <= SendBuffer

\* Client.enqueue
HasRoom(c) == Len(down[c]) < SendBuffer

\* (mutant) A frame that does not fit is skipped.
SendOrSkip(frame, who) ==
    /\ down' = [c \in Conns |-> IF c \in who /\ HasRoom(c) THEN Append(down[c], frame[c])
                                                           ELSE down[c]]
    /\ UNCHANGED clients

\* Hub.send to the clients in who: a full queue disconnects the client.
Send(frame, who) ==
    /\ down' = [c \in Conns |-> IF c \in who /\ HasRoom(c) THEN Append(down[c], frame[c])
                                                           ELSE down[c]]
    /\ clients' = {c \in clients : c \in who => HasRoom(c)}

\* onEvent: any update arms one flush.
HubReceive ==
    /\ \E e \in {Updated("poller"), Updated("aggregator"), PeriodClosed(1)} :
          /\ Receive("hub", e)
          /\ dirty' = (dirty \/ e.kind = "updated")
    /\ UNCHANGED <<server, clients, clientSubs, last, net, browser, counts>>

\* clientState.diff
Changed(c) == {k \in clientSubs[c] : data[k] # NoVal /\ data[k] # last[c][k]}
Removed(c) == {k \in clientSubs[c] : data[k] = NoVal /\ last[c][k] # NoVal}
Diff(c) == Frame([k \in Keys |-> IF k \in Changed(c) THEN data[k] ELSE NoVal], Removed(c))

\* flush: one frame for every client something changed for.
HubFlush ==
    /\ "hub" \in subs /\ dirty /\ dirty' = FALSE
    /\ last' = [c \in Conns |->
                  [k \in Keys |-> IF c \in clients /\ k \in clientSubs[c] THEN data[k]
                                                                         ELSE last[c][k]]]
    /\ Send([c \in Conns |-> Diff(c)], {c \in clients : Changed(c) \cup Removed(c) # {}})
    /\ UNCHANGED <<bus, server, clientSubs, up, half, browser, counts>>

\* handle and subscribe: the answer to a subscription is a snapshot of the keys
\* it added; a key is forgotten when it is unsubscribed.
HubHandle(c) ==
    /\ c \in clients /\ up[c] # << >> /\ c \notin half
    /\ up' = [up EXCEPT ![c] = Tail(@)]
    /\ LET msg == Head(up[c])
           added == msg.keys \ clientSubs[c]
           snapshot == [k \in Keys |-> IF k \in added THEN data[k] ELSE NoVal] IN
       \/ /\ msg.type = "subscribe"
          /\ clientSubs' = [clientSubs EXCEPT ![c] = @ \cup added]
          /\ last' = [last EXCEPT ![c] = [k \in Keys |-> IF k \in added THEN data[k] ELSE @[k]]]
          /\ Send([d \in Conns |-> Frame(snapshot, {})], {c})
       \/ /\ msg.type = "unsubscribe"
          /\ clientSubs' = [clientSubs EXCEPT ![c] = @ \ msg.keys]
          /\ last' = [last EXCEPT ![c] = [k \in Keys |-> IF k \in msg.keys THEN NoVal ELSE @[k]]]
          /\ UNCHANGED <<down, clients>>
    /\ UNCHANGED <<bus, server, dirty, half, browser, counts>>

\* The hub forgets a connection; what was on its way to it stays on its way.
Forget(gone) ==
    /\ clients' = clients \ gone
    /\ clientSubs' = [c \in Conns |-> IF c \in gone THEN {} ELSE clientSubs[c]]
    /\ last' = [c \in Conns |-> IF c \in gone THEN Nothing ELSE last[c]]

\* readPump's error or deadline, or dropStale: the peer is gone or silent.
HubDrops(c) ==
    /\ c \in clients /\ (cur # c \/ c \in half)
    /\ Forget({c})
    /\ up' = [up EXCEPT ![c] = << >>]
    /\ UNCHANGED <<bus, server, dirty, down, half, browser, counts>>

\* The supervisor stops the hub, which disconnects every client, ...
HubStop ==
    /\ Fault /\ Unsubscribe("hub")
    /\ dirty' = FALSE /\ Forget(clients)
    /\ up' = [c \in Conns |-> << >>]
    /\ UNCHANGED <<server, down, half, browser, changes, closed, toggles>>

\* ... and starts the next one.
HubStart ==
    /\ Subscribe("hub")
    /\ UNCHANGED <<server, hub, net, browser, counts>>

-----------------------------------------------------------------------------
\* The browser.

Message(type, keys) == [type |-> type, keys |-> keys]

Messages == [type : {"subscribe", "unsubscribe"}, keys : SUBSET Keys]

\* (mutant) A new connection starts without subscriptions.
ResubscribeNone == << >>

\* resubscribeAll
Resubscribe == IF Wanted = {} THEN << >> ELSE <<Message("subscribe", Wanted)>>

\* connect and onopen; ServeHTTP needs a hub with room and gives the
\* connection a client without memory.  A rejected attempt is repeated.
Connect(c) ==
    /\ cur = None /\ c \notin clients
    /\ "hub" \in subs /\ Cardinality(clients) < MaxClients
    /\ cur' = c /\ half' = half \ {c}
    /\ clients' = clients \cup {c}
    /\ clientSubs' = [clientSubs EXCEPT ![c] = {}] /\ last' = [last EXCEPT ![c] = Nothing]
    /\ up' = [up EXCEPT ![c] = Resubscribe]
    /\ down' = [down EXCEPT ![c] = << >>]
    /\ UNCHANGED <<bus, server, dirty, refs, view, counts>>

\* send is a no-op without a connection; a frame for a dead one is lost.
Sent(msg) == IF cur = None \/ cur \notin clients \/ cur \in half THEN up
             ELSE [up EXCEPT ![cur] = Append(@, msg)]

Toggle == toggles < MaxToggles /\ toggles' = toggles + 1

\* subscribe: the first viewer of a key asks the server for it, ...
View(k) ==
    /\ k \in Shared /\ refs[k] < MaxRefs /\ Toggle
    /\ refs' = [refs EXCEPT ![k] = @ + 1]
    /\ up' = IF refs[k] = 0 THEN Sent(Message("subscribe", {k})) ELSE up
    /\ UNCHANGED <<bus, server, hub, down, half, cur, view, changes, closed, faults>>

\* ... and the last one releases it.
Leave(k) ==
    /\ k \in Shared /\ refs[k] > 0 /\ Toggle
    /\ refs' = [refs EXCEPT ![k] = @ - 1]
    /\ up' = IF refs[k] = 1 THEN Sent(Message("unsubscribe", {k})) ELSE up
    /\ UNCHANGED <<bus, server, hub, down, half, cur, view, changes, closed, faults>>

\* applyWsValues
Shown(shown, frame) ==
    [k \in Keys |-> IF frame.values[k] # NoVal THEN frame.values[k]
                    ELSE IF k \in frame.removed THEN NoVal ELSE shown[k]]

\* onmessage
Render ==
    /\ cur # None /\ cur \notin half /\ down[cur] # << >>
    /\ view' = Shown(view, Head(down[cur]))
    /\ down' = [down EXCEPT ![cur] = Tail(@)]
    /\ UNCHANGED <<bus, server, hub, up, half, cur, refs, counts>>

\* handleClose, and clearValues: nothing is shown while disconnected.
Disconnected ==
    /\ cur' = None /\ view' = Nothing
    /\ down' = [down EXCEPT ![cur] = << >>]
    /\ half' = half \ (IF cur \in clients THEN {} ELSE {cur})

\* The server closed the connection (frames on their way may be lost), or it is
\* dead and no pong came.
Notice ==
    /\ cur # None /\ (cur \notin clients \/ cur \in half)
    /\ Disconnected
    /\ UNCHANGED <<bus, server, hub, up, refs, counts>>

\* The connection dies silently (frames to the server are lost), ...
Dies ==
    /\ cur # None /\ cur \notin half /\ Fault
    /\ half' = half \cup {cur}
    /\ up' = [up EXCEPT ![cur] = << >>]
    /\ UNCHANGED <<bus, server, hub, down, browser, changes, closed, toggles>>

\* ... or breaks so that the browser knows at once (or it gave up on a pong).
Breaks ==
    /\ cur # None /\ Fault
    /\ Disconnected
    /\ UNCHANGED <<bus, server, hub, up, refs, changes, closed, toggles>>

-----------------------------------------------------------------------------
BusStep == \E s \in Subscribers : Pump(s) /\ UNCHANGED <<server, hub, net, browser, counts>>

Next ==
    \/ Poll \/ PollPublish \/ PollClose \/ BusStep
    \/ AggMerge \/ AggPublish
    \/ HubReceive \/ HubFlush \/ HubStop \/ HubStart
    \/ \E c \in Conns : HubHandle(c) \/ HubDrops(c) \/ Connect(c)
    \/ \E k \in Keys : View(k) \/ Leave(k)
    \/ Render \/ Notice \/ Dies \/ Breaks

Spec == Init /\ [][Next]_vars

\* Goroutines are scheduled, the poller goes on polling, timers fire, and the
\* browser never gives up reconnecting.
Fairness ==
    /\ WF_vars(Poll) /\ WF_vars(PollPublish)
    /\ \A s \in Subscribers : WF_vars(Pump(s) /\ UNCHANGED <<server, hub, net, browser, counts>>)
    /\ WF_vars(AggMerge) /\ WF_vars(AggPublish)
    /\ WF_vars(HubReceive) /\ WF_vars(HubFlush) /\ WF_vars(HubStart)
    /\ \A c \in Conns : WF_vars(HubHandle(c)) /\ WF_vars(HubDrops(c))
    /\ WF_vars(\E c \in Conns : Connect(c))
    /\ WF_vars(Render) /\ WF_vars(Notice)

FairSpec == Spec /\ Fairness

-----------------------------------------------------------------------------
\* Correctness.

LiveViewTypeOK ==
    /\ BusTypeOK
    /\ row \in Partial /\ data \in Partial /\ view \in Partial
    /\ poller \in {"idle", "publish"} /\ agg \in {"idle", "publish"}
    /\ dirty \in BOOLEAN
    /\ clients \subseteq Conns /\ Cardinality(clients) <= MaxClients
    /\ clientSubs \in [Conns -> SUBSET Keys] /\ last \in [Conns -> Partial]
    /\ up \in [Conns -> Seq(Messages)] /\ down \in [Conns -> Seq(Frames)]
    /\ \A c \in Conns : Len(down[c]) <= SendBuffer
    /\ half \subseteq Conns /\ cur \in Conns \cup {None}
    /\ refs \in [Keys -> 0 .. MaxRefs]

\* What the browser will show once it has read the frames on their way.
Coming == FoldLeft(Shown, view, down[cur])

\* The hub's memory of a client is the client's screen: a value the hub counts as
\* sent is what the browser shows once it has read its frames, through slow
\* clients, reconnects, viewers that come and go and hubs that are replaced (the
\* hub sends a value again only when it differs from this memory).
MirrorsLast ==
    (cur \in clients /\ cur \notin half) =>
        \A k \in clientSubs[cur] : last[cur][k] # NoVal => Coming[k] = last[cur][k]

\* When nothing changes or breaks any more, the browser ends up connected and
\* shows every value the server has of what it looks at, computed ones included,
\* whatever events the bus dropped on the way.
Converges ==
    <>[](cur # None /\ \A k \in Wanted : data[k] # NoVal => view[k] = data[k])
=============================================================================
