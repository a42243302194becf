------------------------------ MODULE Metering ------------------------------
(***************************************************************************)
(* The poller in front of an honest inverter: daily counters that only     *)
(* grow within a day and that the inverter resets all together, once per   *)
(* day.  This is what the rollover rules of attribution.go are for, and    *)
(* the place to ask whether the ledger they produce is the energy counted. *)
(*                                                                         *)
(* Assumptions about the inverter (external to this repository):           *)
(*   - it resets inside the rollover window, at or after local midnight    *)
(*     (rollover.go: "when the inverter resets its daily counters");       *)
(*   - in the rest of that window a counter does not overtake what it      *)
(*     showed for the whole day before, unless that was 0;                 *)
(*   - a cycle is short: neither the counters nor the clock move during it *)
(*     (a counter's unit is 0.1 kWh).                                      *)
(* The deletion of old status rows is left out: no row, counter or day     *)
(* depends on a status.                                                    *)
(***************************************************************************)
EXTENDS Poller

\* A counter starts a day at 0, and the ledger starts empty: what v2 attributed
\* to the days before the cutover is not the poller's.
ASSUME MeteringAssumption == 0 \in Values /\ Legacy = {NoVal}

VARIABLES
    invDay,   \* the day the inverter is counting
    energy,   \* the final or current count of every day
    synced    \* a Healthy poll ended and nothing has changed since

inverter == <<invDay, energy, synced>>
mvars    == <<vars, inverter>>

counter(k) == energy[k][invDay]

MeteringInit ==
    /\ Init
    /\ invDay = Expected(now)
    /\ energy = [k \in Keys |-> [d \in Days |-> 0]]
    /\ synced = FALSE

-----------------------------------------------------------------------------
\* The inverter and the clock.

ResetWindow(t) == InWindow(t) /\ t >= WindowAt(t).midnight

\* The window in which the inverter has already reset.
JustReset == InWindow(now) /\ WindowAt(now).opening = invDay

Produce(k, v) ==
    /\ pc = "idle"
    /\ v > counter(k)
    /\ JustReset /\ energy[k][invDay - 1] > 0 => v <= energy[k][invDay - 1]
    /\ energy' = [energy EXCEPT ![k][invDay] = v]
    /\ synced' = FALSE
    /\ UNCHANGED <<vars, invDay>>

ResetCounters ==
    /\ pc = "idle"
    /\ ResetWindow(now) /\ WindowAt(now).opening = invDay + 1
    /\ invDay' = invDay + 1
    /\ synced' = FALSE
    /\ UNCHANGED <<vars, energy>>

\* Time does not pass the end of a window before the inverter has reset.
Pass ==
    /\ pc = "idle"
    /\ Tick
    /\ Expected(now') <= invDay
    /\ synced' = FALSE
    /\ UNCHANGED <<invDay, energy>>

-----------------------------------------------------------------------------
\* The poller reads the counters as they are.

Poll(status) ==
    /\ ReadAll([k \in Keys |-> counter(k)], status)
    /\ UNCHANGED inverter

Cycle ==
    /\ CycleStep
    /\ synced' = (synced \/ (health' = "Healthy" /\ pc' = "idle"))
    /\ UNCHANGED <<invDay, energy>>

NewInstance ==
    /\ Restart \/ Crash
    /\ synced' = FALSE
    /\ UNCHANGED <<invDay, energy>>

MeteringNext ==
    \/ \E k \in Keys, v \in Values : Produce(k, v)
    \/ ResetCounters
    \/ Pass
    \/ Cycle
    \/ \E status \in Statuses : Poll(status)
    \/ NewInstance

MeteringSpec == MeteringInit /\ [][MeteringNext]_mvars

-----------------------------------------------------------------------------
\* Properties

\* blindReset (attribution.go): "post-reset energy is never written to the
\* closing day and counted again on the opening day".  No row credits a day
\* with more than the inverter counted in it, over outages, failed writes and
\* restarts inside the window, in whatever order the keys are visited.
NoEnergyInvented ==
    \A k \in Keys, d \in Days : rows[k][d] <= energy[k][d]

\* Attribute and WritePoll: outside the rollover windows a Healthy poll leaves
\* in the row of the inverter's day exactly the inverter's counter: the holds,
\* discards and forced closes of the last window have cost nothing of the new
\* day.
LedgerExact ==
    synced /\ ~InWindow(now) => \A k \in Keys : rows[k][invDay] = counter(k)

=============================================================================
