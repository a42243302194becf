------------------------------- MODULE Modbus -------------------------------
(***************************************************************************)
(* The Modbus client (internal/modbus): the loop Run, which opens the      *)
(* connection and waits while it is up, and the poller's reads, which mark *)
(* it lost.  connected is an atomic flag and mc is guarded by a mutex of   *)
(* its own: a step is one access to either of them.                        *)
(***************************************************************************)
EXTENDS Naturals

CONSTANTS Rtu,               \* the serial transport, not TCP
          MaxLineFailures,   \* 5 in the code
          MaxDoublings       \* from InitialBackoff to MaxBackoff

VARIABLES
    connected, mc,     \* mc is "nil" or "open"
    lost,              \* the buffered signal to Run
    lineFailures,
    run, backoff,      \* Run: its next step, how often the delay was doubled
    read               \* the poller: its next step

vars == <<connected, mc, lost, lineFailures, run, backoff, read>>

Init ==
    /\ connected = FALSE /\ mc = "nil" /\ lost = FALSE /\ lineFailures = 0
    /\ run = "check" /\ backoff = 0 /\ read = "idle"

-----------------------------------------------------------------------------
\* Run

Check ==
    /\ run = "check"
    /\ run' = IF connected THEN "wait" ELSE "connect"
    /\ backoff' = IF connected THEN 0 ELSE backoff
    /\ UNCHANGED <<connected, mc, lost, lineFailures, read>>

\* connect: open a connection, store it, set the flag; or fail.
Open ==
    /\ run = "connect"
    /\ mc' = "open" /\ run' = "opened"
    /\ UNCHANGED <<connected, lost, lineFailures, backoff, read>>

OpenFails ==
    /\ run = "connect" /\ run' = "backoff"
    /\ UNCHANGED <<connected, mc, lost, lineFailures, backoff, read>>

SetConnected ==
    /\ run = "opened"
    /\ connected' = TRUE /\ run' = "check" /\ backoff' = 0
    /\ UNCHANGED <<mc, lost, lineFailures, read>>

\* wait returns on its deadline or, while connected, on the signal.
WaitEnds ==
    /\ run = "wait" /\ run' = "check"
    /\ lost' \in {lost, FALSE}
    /\ UNCHANGED <<connected, mc, lineFailures, backoff, read>>

BackoffEnds ==
    /\ run = "backoff" /\ run' = "check"
    /\ backoff' = IF backoff = MaxDoublings THEN backoff ELSE backoff + 1
    /\ UNCHANGED <<connected, mc, lost, lineFailures, read>>

-----------------------------------------------------------------------------
\* ReadRegisters.  A read without a connection returns ErrNotConnected.

BeginRead ==
    /\ read = "idle" /\ mc = "open" /\ connected
    /\ read' = "reading"
    /\ UNCHANGED <<connected, mc, lost, lineFailures, run, backoff>>

\* A reply, an exception included, ends a row of line failures.
Reply ==
    /\ read = "reading" /\ read' = "idle"
    /\ lineFailures' = 0
    /\ UNCHANGED <<connected, mc, lost, run, backoff>>

\* keepsConnection, tooManyLineFailures: a line error is kept on RTU, for a while.
LineError ==
    /\ read = "reading"
    /\ IF Rtu
       THEN /\ lineFailures' = lineFailures + 1
            /\ read' = IF lineFailures' >= MaxLineFailures THEN "failed" ELSE "idle"
       ELSE read' = "failed" /\ UNCHANGED lineFailures
    /\ UNCHANGED <<connected, mc, lost, run, backoff>>

TransportError ==
    /\ read = "reading" /\ read' = "failed"
    /\ UNCHANGED <<connected, mc, lost, lineFailures, run, backoff>>

\* markLost: clear the flag, close the connection, signal Run.
MarkLost ==
    /\ read = "failed"
    /\ IF connected THEN connected' = FALSE /\ lineFailures' = 0 /\ read' = "closing"
                    ELSE read' = "idle" /\ UNCHANGED <<connected, lineFailures>>
    /\ UNCHANGED <<mc, lost, run, backoff>>

closeConn ==
    /\ read = "closing" /\ read' = "signal"
    /\ mc' = "nil"
    /\ UNCHANGED <<connected, lost, lineFailures, run, backoff>>

Signal ==
    /\ read = "signal" /\ read' = "idle"
    /\ lost' = TRUE
    /\ UNCHANGED <<connected, mc, lineFailures, run, backoff>>

\* The component is stopped: Run ends, Close, and a new client takes its place.
Close ==
    /\ run \in {"wait", "backoff"}
    /\ connected' = FALSE /\ mc' = "nil" /\ lost' = FALSE /\ lineFailures' = 0
    /\ run' = "check" /\ backoff' = 0 /\ read' = "idle"

RunStep == Check \/ SetConnected \/ WaitEnds \/ BackoffEnds
ReadStep == BeginRead \/ Reply \/ LineError \/ TransportError \/ MarkLost \/ closeConn \/ Signal

Next == RunStep \/ Open \/ OpenFails \/ ReadStep \/ Close

\* The loop and the poller go on, and the inverter is reachable now and then.
FairSpec ==
    /\ Init /\ [][Next]_vars
    /\ WF_vars(RunStep) /\ SF_vars(Open) /\ WF_vars(ReadStep)

-----------------------------------------------------------------------------
\* Run: "keeps the single connection alive with exponential backoff"; IsConnected
\* "reports whether the connection is up".  So the client is connected, over an
\* open connection, again and again.
KeepsAlive == []<>(connected /\ mc = "open")
=============================================================================
