----------------------------- MODULE Supervisor -----------------------------
(***************************************************************************)
(* The health supervisor (internal/health) and the life of the process     *)
(* around it (internal/app): components created by factories, watched by   *)
(* their heartbeats, restarted within a budget, and a process that exits   *)
(* when a restart cannot help.                                             *)
(*                                                                         *)
(* The supervisor is one goroutine.  A sweep looks at one component after  *)
(* the other, and waits inside a restart for the old instance to stop; a   *)
(* Start, a Stop, the beats and the reports of every instance ever created *)
(* go on meanwhile.  Components are numbered in the order of registration, *)
(* instances of a component by their generation.  Time advances in steps   *)
(* of one sweep interval; instants are kept as ages.                       *)
(***************************************************************************)
EXTENDS Naturals, FiniteSets, FiniteSetsExt

CONSTANTS N,                \* the number of managed components
          Readers, Hubs,    \* the ones that publish themselves in a slot
          RestartBudget,
          StartGrace, HealthyGrace, RecoveringGrace,  \* in sweep intervals
          StaleAge,         \* StaleSnapshotFactor
          WakeBuffer,       \* reportBuffer
          MaxStall,         \* bound: how many intervals one sweep takes
          MaxFaults         \* bound: how many things go wrong in a behaviour

Components == 1 .. N
Slotted    == Readers \cup Hubs
Gens       == 1 .. MaxFaults + 1
AgeCap     == StaleAge + 1
SilenceCap == RecoveringGrace + MaxStall + AgeCap

ASSUME SupervisorAssumption ==
    /\ N \in Nat \ {0} /\ RestartBudget \in Nat /\ MaxFaults \in Nat
    /\ Slotted \subseteq Components /\ Readers \cap Hubs = {}
    /\ HealthyGrace \in Nat \ {0}
    /\ StartGrace \in Nat /\ RecoveringGrace \in Nat
    /\ HealthyGrace <= StartGrace /\ StartGrace <= RecoveringGrace
    /\ StaleAge \in Nat /\ MaxStall \in Nat /\ WakeBuffer \in Nat \ {0}

VARIABLES
    \* The registry entries (struct managed).
    gen, comp, failures, latched, reportedFailed,
    silent,       \* time since the last beat, or since startedAt before the first
    beatAt,       \* last beat - startedAt, 0 before the first; exact up to HealthyGrace
    \* The supervisor goroutine.
    pc, at,       \* what it does, and for which component
    sweepAge,     \* time since the running sweep took its "now"
    wake, tick,   \* the report and ticker channels
    cause,        \* the cause of the root context
    part,         \* a watched part works
    watched,      \* what the last probe of the watched parts said
    snap, snapAge,
    \* The instances.
    life, hung, state, stopping, abandoned,
    slot,
    \* The process.
    jobs, store, exit,
    \* Bookkeeping: things gone wrong so far, whether the current instance itself
    \* reported a failure, restarts since one last kept beating for HealthyGrace.
    faults, ownFailure, unproven

entries == <<gen, comp, failures, latched, reportedFailed, silent, beatAt>>
loop    == <<pc, at, sweepAge, wake, tick, cause, part, watched, snap, snapAge>>
insts   == <<life, hung, state, stopping, abandoned, slot>>
process == <<jobs, store, exit>>
ghosts  == <<faults, ownFailure, unproven>>
vars    == <<entries, loop, insts, process, ghosts>>

Lives  == {"none", "starting", "up", "withdrawn", "broken", "down"}
States == {"healthy", "recovering"}
Steps  == {"start", "idle", "sweep", "restart", "publish", "stopAll", "halt"}

\* The type invariant.
SupervisorTypeOK ==
    /\ gen \in [Components -> Gens \cup {0}]
    /\ comp \in [Components -> BOOLEAN] /\ latched \in [Components -> BOOLEAN]
    /\ failures \in [Components -> 0 .. RestartBudget]
    /\ reportedFailed \in [Components -> BOOLEAN]
    /\ silent \in [Components -> 0 .. SilenceCap]
    /\ beatAt \in [Components -> 0 .. HealthyGrace]
    /\ pc \in Steps /\ at \in Components \cup {0, N + 1}
    /\ sweepAge \in 0 .. MaxStall /\ snapAge \in 0 .. AgeCap
    /\ wake \in 0 .. WakeBuffer /\ tick \in BOOLEAN
    /\ cause \in {"none", "shutdown", "fatal"}
    /\ part \in BOOLEAN /\ watched \in BOOLEAN
    /\ snap \in {"ok", "degraded", "failed"}
    /\ life \in [Components -> [Gens -> Lives]]
    /\ hung \in [Components -> [Gens -> BOOLEAN]]
    /\ state \in [Components -> States]
    /\ stopping \in [Components -> [Gens -> BOOLEAN]]
    /\ abandoned \in [Components -> [Gens -> BOOLEAN]]
    /\ slot \in [Components -> Gens \cup {0}]
    /\ jobs \in BOOLEAN /\ store \in BOOLEAN
    /\ exit \in {"no", "clean", "fatal", "timeout"}
    /\ faults \in 0 .. MaxFaults
    /\ ownFailure \in [Components -> BOOLEAN]
    /\ unproven \in [Components -> 0 .. MaxFaults + 1]

-----------------------------------------------------------------------------
\* Reading the registry.

Capped(n, cap) == IF n > cap THEN cap ELSE n

\* reporter.Report wakes the loop; a full channel already holds a wake-up.
Woken == Capped(wake + 1, WakeBuffer)

Fault == faults < MaxFaults /\ faults' = faults + 1

\* An instance has, or may still start, goroutines.
Live(c, g) == life[c][g] \in {"starting", "up", "withdrawn"}

\* managed.state: Failed wins over the component's own State().
Failed(c) == latched[c] \/ ~comp[c] \/ reportedFailed[c]

\* graceFor, and the start grace before the first beat.
Grace(c) == CASE beatAt[c] = 0 -> StartGrace
              [] state[c] = "recovering" -> RecoveringGrace
              [] OTHER -> HealthyGrace

\* The age of an instant at the "now" the sweep works with.
AtNow(age) == IF age > sweepAge THEN age - sweepAge ELSE 0

\* managed.evaluate
NeedsRestart(c) ==
    ~latched[c] /\ (Failed(c) \/ AtNow(silent[c]) > Grace(c))

\* supervisor.restartDue: startedAt is the last beat's age plus its distance.
RestartDue(c) == AtNow(beatAt[c] + silent[c]) >= 1

\* (mutant) The fresh status of a new instance clears the counter.
ProvenByState(c) == ~latched[c] /\ ~NeedsRestart(c) /\ state[c] = "healthy"

\* (mutant) The beat is measured from itself.
ProvenNever(c) ==
    /\ ~latched[c] /\ ~NeedsRestart(c)
    /\ state[c] = "healthy" /\ 0 >= HealthyGrace

\* managed.resetFailures, of a component evaluate found alive
ProvenHealthy(c) ==
    /\ ~latched[c] /\ ~NeedsRestart(c)
    /\ state[c] = "healthy" /\ beatAt[c] >= HealthyGrace

\* (mutant) One restart too many.
BudgetOverspent(c) == failures[c] > RestartBudget

BudgetSpent(c) == failures[c] >= RestartBudget

\* managed.restartFailed
RestartFailed(c) == latched[c] \/ failures[c] > 1 \/ (failures[c] = 1 /\ Failed(c))

\* publish and mergeStatus
Status(parts) ==
    IF ~parts \/ \E c \in Components : RestartFailed(c) THEN "failed"
    ELSE IF \E c \in Components :
                Failed(c) \/ failures[c] > 0 \/ state[c] = "recovering"
         THEN "degraded"
    ELSE "ok"

\* (mutant) The last snapshot, however old.
SnapshotStored == snap

\* Supervisor.Snapshot, what /health answers
Snapshot == IF snapAge > StaleAge THEN "failed" ELSE snap

-----------------------------------------------------------------------------
\* The supervisor goroutine.

Init ==
    /\ gen = [c \in Components |-> 0]
    /\ comp = [c \in Components |-> FALSE]
    /\ failures = [c \in Components |-> 0]
    /\ latched = [c \in Components |-> FALSE]
    /\ reportedFailed = [c \in Components |-> FALSE]
    /\ silent = [c \in Components |-> 0]
    /\ beatAt = [c \in Components |-> 0]
    /\ pc = "start" /\ at = 1 /\ sweepAge = 0 /\ wake = 0 /\ tick = FALSE
    /\ cause = "none" /\ part = TRUE /\ watched = TRUE
    /\ snap = "ok" /\ snapAge = 0
    /\ life = [c \in Components |-> [g \in Gens |-> "none"]]
    /\ hung = [c \in Components |-> [g \in Gens |-> FALSE]]
    /\ state = [c \in Components |-> "healthy"]
    /\ stopping = [c \in Components |-> [g \in Gens |-> FALSE]]
    /\ abandoned = [c \in Components |-> [g \in Gens |-> FALSE]]
    /\ slot = [c \in Components |-> 0]
    /\ jobs = TRUE /\ store = TRUE /\ exit = "no"
    /\ faults = 0
    /\ ownFailure = [c \in Components |-> FALSE]
    /\ unproven = [c \in Components |-> 0]

\* Supervisor.start: a new generation; the factory makes an instance, whose
\* Start then runs on its own, or fails and leaves none.
Begin(c) ==
    LET g == gen[c] + 1 IN
    /\ gen' = [gen EXCEPT ![c] = g]
    /\ reportedFailed' = [reportedFailed EXCEPT ![c] = FALSE]
    /\ silent' = [silent EXCEPT ![c] = 0]
    /\ beatAt' = [beatAt EXCEPT ![c] = 0]
    /\ state' = [state EXCEPT ![c] = "healthy"]
    /\ ownFailure' = [ownFailure EXCEPT ![c] = FALSE]
    /\ \/ /\ comp' = [comp EXCEPT ![c] = TRUE]
          /\ life' = [life EXCEPT ![c][g] = "starting"]
          /\ UNCHANGED faults
       \/ /\ Fault
          /\ comp' = [comp EXCEPT ![c] = FALSE]
          /\ UNCHANGED life

\* Run starts all components in registration order, then sweeps.
Start ==
    /\ pc = "start"
    /\ IF at <= N
       THEN Begin(at) /\ at' = at + 1 /\ UNCHANGED <<pc, sweepAge>>
       ELSE /\ pc' = "sweep" /\ at' = 1 /\ sweepAge' = 0
            /\ UNCHANGED <<gen, comp, reportedFailed, silent, beatAt, life, state,
                           faults, ownFailure>>
    /\ UNCHANGED <<failures, latched, wake, tick, cause, part, watched, snap, snapAge,
                   hung, stopping, abandoned, slot, process, unproven>>

\* A report or the ticker begins a sweep, which takes its "now" once.
BeginSweep ==
    /\ pc = "idle"
    /\ \/ wake > 0 /\ wake' = wake - 1 /\ UNCHANGED tick
       \/ tick /\ tick' = FALSE /\ UNCHANGED wake
    /\ pc' = "sweep" /\ at' = 1 /\ sweepAge' = 0
    /\ UNCHANGED <<entries, cause, part, watched, snap, snapAge, insts, process, ghosts>>

\* The sweep goes on behind component at.
Advance == IF at < N THEN at' = at + 1 /\ pc' = "sweep" ELSE at' = 0 /\ pc' = "publish"

\* The root context is cancelled.  No decision reads a clock from then on, and
\* the ages are forgotten.
Cancel(why) ==
    /\ cause' = why
    /\ silent' = [c \in Components |-> 0] /\ beatAt' = [c \in Components |-> 0]
    /\ sweepAge' = 0 /\ tick' = FALSE

\* fatal: cancels the root context unless it is cancelled.
Escalate == IF cause = "none" THEN Cancel("fatal")
            ELSE UNCHANGED <<cause, silent, beatAt, sweepAge, tick>>

\* sweepManaged and restart, for one component, up to the wait for its Stop.
SweepOne ==
    /\ pc = "sweep"
    /\ \/ /\ cause # "none"
          /\ at' = 0 /\ pc' = "publish"
          /\ UNCHANGED <<entries, sweepAge, tick, cause, insts, ghosts>>
       \/ /\ cause = "none"
          /\ ~(NeedsRestart(at) /\ RestartDue(at))
          /\ failures' = IF ProvenHealthy(at) THEN [failures EXCEPT ![at] = 0] ELSE failures
          /\ Advance
          /\ UNCHANGED <<gen, comp, latched, reportedFailed, silent, beatAt, sweepAge, tick,
                         cause, insts, ghosts>>
       \/ /\ cause = "none" /\ NeedsRestart(at) /\ RestartDue(at)
          /\ BudgetSpent(at)
          /\ latched' = [latched EXCEPT ![at] = TRUE]
          /\ Escalate /\ Advance
          /\ UNCHANGED <<gen, comp, failures, reportedFailed, insts, ghosts>>
       \/ /\ cause = "none" /\ NeedsRestart(at) /\ RestartDue(at)
          /\ ~BudgetSpent(at)
          /\ failures' = [failures EXCEPT ![at] = @ + 1]
          /\ stopping' = IF comp[at] THEN [stopping EXCEPT ![at][gen[at]] = TRUE]
                                     ELSE stopping
          /\ pc' = "restart"
          /\ UNCHANGED <<gen, comp, latched, reportedFailed, silent, beatAt, at, sweepAge,
                         tick, cause, life, hung, state, abandoned, slot, ghosts>>
    /\ UNCHANGED <<wake, part, watched, snap, snapAge, process>>

\* (mutant) A restart that does not wait for the old instance.
StoppedAlways(c) == TRUE

\* stop has nothing to wait for, or its Stop returned.
Stopped(c) == ~comp[c] \/ life[c][gen[c]] = "down"

\* restart: the old instance is gone and a successor is started.
Restart ==
    /\ pc = "restart" /\ Stopped(at)
    /\ Begin(at)
    /\ unproven' = [unproven EXCEPT ![at] = @ + 1]
    /\ Advance
    /\ UNCHANGED <<failures, latched, sweepAge, wake, tick, cause, part, watched, snap,
                   snapAge, hung, stopping, abandoned, slot, process>>

\* stop gave up after StopTimeout: its Stop stays pending, the entry forgets it.
Abandon(c) ==
    /\ comp[c] /\ life[c][gen[c]] # "down"
    /\ comp' = [comp EXCEPT ![c] = FALSE]
    /\ abandoned' = [abandoned EXCEPT ![c][gen[c]] = TRUE]

\* restart: no successor next to an instance that may still run.
RestartTimeout ==
    /\ pc = "restart"
    /\ Abandon(at)
    /\ latched' = [latched EXCEPT ![at] = TRUE]
    /\ Escalate /\ Advance
    /\ UNCHANGED <<gen, failures, reportedFailed, wake, part, watched, snap, snapAge,
                   life, hung, state, stopping, slot, process, ghosts>>

\* sweepWatched and publish: the probe of the store fails once the root context
\* is cancelled; the snapshot bears the sweep's "now".
Publish ==
    /\ pc = "publish"
    /\ watched' = (part /\ cause = "none")
    /\ snap' = Status(watched') /\ snapAge' = Capped(sweepAge, AgeCap)
    /\ IF part THEN sweepAge' = 0 /\ UNCHANGED <<cause, silent, beatAt, tick>>
               ELSE Escalate
    /\ pc' = "idle"
    /\ UNCHANGED <<gen, comp, failures, latched, reportedFailed, at, wake, part, insts,
                   process, ghosts>>

\* stopAll, from the last component down: ask for a Stop (a component without an
\* instance needs none), ...
StopAll ==
    /\ \/ pc = "idle" /\ cause # "none" /\ at' = N
       \/ pc = "stopAll" /\ at > 0 /\ Stopped(at) /\ at' = at - 1
    /\ pc' = "stopAll"
    /\ stopping' = IF at' > 0 /\ comp[at'] THEN [stopping EXCEPT ![at'][gen[at']] = TRUE]
                                           ELSE stopping
    /\ UNCHANGED <<entries, sweepAge, wake, tick, cause, part, watched, snap, snapAge,
                   life, hung, state, abandoned, slot, process, ghosts>>

\* ... give up on it after StopTimeout, ...
StopAllTimeout ==
    /\ pc = "stopAll" /\ at > 0
    /\ Abandon(at)
    /\ UNCHANGED <<gen, failures, latched, reportedFailed, silent, beatAt, loop, life,
                   hung, state, stopping, slot, process, ghosts>>

\* ... and publish a last snapshot.
Halt ==
    /\ pc = "stopAll" /\ at = 0
    /\ snap' = Status(watched) /\ snapAge' = 0
    /\ pc' = "halt"
    /\ UNCHANGED <<entries, at, sweepAge, wake, tick, cause, part, watched, insts,
                   process, ghosts>>

-----------------------------------------------------------------------------
\* The instances.

\* (mutant) A report counts for whatever instance is current.
ReportAnyGen(c, g) ==
    /\ reportedFailed' = [reportedFailed EXCEPT ![c] = TRUE]
    /\ wake' = Woken

\* reporter.Report and managed.report: only the current generation counts.
Report(c, g) ==
    /\ reportedFailed' = [reportedFailed EXCEPT ![c] = @ \/ g = gen[c]]
    /\ wake' = Woken

\* The bookkeeping of a report: only the newest generation is of interest.
Own(c, g) == ownFailure' = [ownFailure EXCEPT ![c] = @ \/ g = gen[c]]

\* Component.Start publishes the instance in its slot, or fails.
InstanceStart(c, g) ==
    /\ life[c][g] = "starting" /\ ~hung[c][g]
    /\ \/ /\ life' = [life EXCEPT ![c][g] = "up"]
          /\ slot' = IF c \in Slotted THEN [slot EXCEPT ![c] = g] ELSE slot
          /\ UNCHANGED <<reportedFailed, ownFailure, wake, faults>>
       \/ /\ Fault
          /\ life' = [life EXCEPT ![c][g] = "broken"]
          /\ Report(c, g) /\ Own(c, g)
          /\ UNCHANGED slot
    /\ UNCHANGED <<gen, comp, failures, latched, silent, beatAt, pc, at, sweepAge, tick,
                   cause, part, watched, snap, snapAge, hung, state, stopping, abandoned,
                   process, unproven>>

\* The loop of the current instance beats and says whether it works or recovers;
\* a change of its state wakes the supervisor.
Beat(c) ==
    /\ gen[c] > 0 /\ life[c][gen[c]] = "up" /\ ~hung[c][gen[c]]
    /\ silent' = [silent EXCEPT ![c] = 0]
    /\ beatAt' = [beatAt EXCEPT ![c] = Capped(@ + silent[c], HealthyGrace)]
    /\ unproven' = IF beatAt'[c] >= HealthyGrace THEN [unproven EXCEPT ![c] = 0] ELSE unproven
    /\ \/ UNCHANGED <<state, wake, faults>>
       \/ /\ state[c] = "recovering" /\ UNCHANGED faults
          /\ state' = [state EXCEPT ![c] = "healthy"] /\ wake' = Woken
       \/ /\ state[c] = "healthy" /\ Fault
          /\ state' = [state EXCEPT ![c] = "recovering"] /\ wake' = Woken
    /\ UNCHANGED <<gen, comp, failures, latched, reportedFailed, pc, at, sweepAge, tick,
                   cause, part, watched, snap, snapAge, life, hung, stopping, abandoned,
                   slot, process, ownFailure>>

\* Any instance, replaced ones included, may report that it failed, ...
ReportFailure(c, g) ==
    /\ life[c][g] # "none"
    /\ Fault
    /\ Report(c, g) /\ Own(c, g)
    /\ UNCHANGED <<gen, comp, failures, latched, silent, beatAt, pc, at, sweepAge, tick,
                   cause, part, watched, snap, snapAge, insts, process, unproven>>

\* ... or hang for ever.
Hang(c, g) ==
    /\ Live(c, g) /\ ~hung[c][g]
    /\ Fault
    /\ hung' = [hung EXCEPT ![c][g] = TRUE]
    /\ UNCHANGED <<entries, loop, life, state, stopping, abandoned, slot, process,
                   ownFailure, unproven>>

\* (mutant) A Stop that leaves the instance published.
WithdrawKeeps(c, g) ==
    /\ stopping[c][g] /\ life[c][g] = "up"
    /\ c \in Hubs \/ ~hung[c][g]
    /\ life' = [life EXCEPT ![c][g] = "withdrawn"]
    /\ UNCHANGED <<entries, loop, hung, state, stopping, abandoned, slot, process, ghosts>>

\* Component.Stop, which runs only after Start returned, withdraws the instance
\* from its slot (ClearIf: never a successor); modbus ends its loop first, ...
Withdraw(c, g) ==
    /\ stopping[c][g] /\ life[c][g] = "up"
    /\ c \in Hubs \/ ~hung[c][g]
    /\ life' = [life EXCEPT ![c][g] = "withdrawn"]
    /\ slot' = IF slot[c] = g THEN [slot EXCEPT ![c] = 0] ELSE slot
    /\ UNCHANGED <<entries, loop, hung, state, stopping, abandoned, process, ghosts>>

\* ... and closes it.
InstanceStop(c, g) ==
    /\ stopping[c][g] /\ life[c][g] \in {"withdrawn", "broken"} /\ ~hung[c][g]
    /\ life' = [life EXCEPT ![c][g] = "down"]
    /\ stopping' = [stopping EXCEPT ![c][g] = FALSE]
    /\ UNCHANGED <<entries, loop, hung, state, abandoned, slot, process, ghosts>>

-----------------------------------------------------------------------------
\* The process.

\* A signal cancels the parent of the root context.
Signal ==
    /\ cause = "none" /\ Cancel("shutdown")
    /\ UNCHANGED <<gen, comp, failures, latched, reportedFailed, pc, at, wake, part,
                   watched, snap, snapAge, insts, process, ghosts>>

\* A watched part (store, bus, HTTP server) fails.
PartFails ==
    /\ part /\ Fault /\ part' = FALSE
    /\ UNCHANGED <<entries, pc, at, sweepAge, wake, tick, cause, watched, snap, snapAge,
                   insts, process, ownFailure, unproven>>

\* The periodic database jobs end with the root context.
JobsEnd ==
    /\ jobs /\ cause # "none" /\ jobs' = FALSE
    /\ UNCHANGED <<entries, loop, insts, store, exit, ghosts>>

\* (mutant) serve does not wait for the jobs.
CloseEarly ==
    /\ pc = "halt" /\ store
    /\ store' = FALSE
    /\ UNCHANGED <<entries, loop, insts, jobs, exit, ghosts>>

\* serve returns after the supervisor and the jobs; close closes the store.
Close ==
    /\ pc = "halt" /\ ~jobs /\ store
    /\ store' = FALSE
    /\ UNCHANGED <<entries, loop, insts, jobs, exit, ghosts>>

\* awaitShutdown: the result of the run, or ErrShutdownTimeout once it began.
Exit ==
    /\ exit = "no"
    /\ \/ ~store /\ exit' = IF cause = "fatal" THEN "fatal" ELSE "clean"
       \/ cause # "none" /\ exit' = "timeout"
    /\ UNCHANGED <<entries, loop, insts, jobs, store, ghosts>>

\* An instance that is neither hung nor told to stop keeps within its grace.
OnTime(c) ==
    (comp[c] /\ Live(c, gen[c]) /\ ~hung[c][gen[c]] /\ ~stopping[c][gen[c]])
        => silent[c] < Grace(c)

\* One sweep interval passes, and the ticker fires.  The supervisor has answered
\* the last one, or waits for a Stop, or it is stalled (a factory or a probe that
\* blocks, a starved process); a sweep in progress ages.
Tick ==
    /\ cause = "none"
    /\ \A c \in Components : OnTime(c)
    /\ IF (pc = "idle" /\ ~tick) \/ pc = "restart" THEN UNCHANGED faults ELSE Fault
    /\ IF pc \in {"start", "idle"} THEN UNCHANGED sweepAge
       ELSE sweepAge < MaxStall /\ sweepAge' = sweepAge + 1
    /\ silent' = [c \in Components |-> Capped(silent[c] + 1, SilenceCap)]
    /\ snapAge' = Capped(snapAge + 1, AgeCap)
    /\ tick' = TRUE
    /\ UNCHANGED <<gen, comp, failures, latched, reportedFailed, beatAt, pc, at, wake,
                   cause, part, watched, snap, insts, process, ownFailure, unproven>>

Step == Start \/ BeginSweep \/ SweepOne \/ Restart \/ RestartTimeout \/ Publish
           \/ StopAll \/ StopAllTimeout \/ Halt

Instance(c, g) == InstanceStart(c, g) \/ ReportFailure(c, g) \/ Hang(c, g)
                     \/ Withdraw(c, g) \/ InstanceStop(c, g)

\* Once the process has exited nothing happens any more.
Next ==
    \/ /\ exit = "no"
       /\ \/ Step
          \/ \E c \in Components : Beat(c) \/ \E g \in Gens : Instance(c, g)
          \/ Signal \/ PartFails \/ JobsEnd \/ Close \/ Exit \/ Tick
    \/ exit # "no" /\ UNCHANGED vars

Spec == Init /\ [][Next]_vars

\* The goroutines are scheduled, timers fire, an instance that does not hang
\* goes on; nothing makes a fault or a signal happen.
Fairness ==
    /\ WF_vars(exit = "no" /\ (Start \/ SweepOne \/ Restart \/ RestartTimeout
                               \/ StopAll \/ StopAllTimeout \/ Halt))
    /\ WF_vars(exit = "no" /\ BeginSweep) /\ WF_vars(exit = "no" /\ Publish)
    /\ WF_vars(exit = "no" /\ Exit) /\ WF_vars(exit = "no" /\ Tick)
    /\ \A c \in Components :
          /\ WF_vars(exit = "no" /\ Beat(c))
          /\ \A g \in Gens : WF_vars(exit = "no" /\ InstanceStart(c, g))

FairSpec == Spec /\ Fairness

-----------------------------------------------------------------------------
\* Correctness.

\* No component ever has two instances that run: a successor is started only
\* once the Stop of its predecessor returned, whatever times out meanwhile (two
\* pollers would both write to the store).
OneInstance ==
    \A c \in Components : Cardinality({g \in Gens : Live(c, g)}) <= 1

\* What the poller and the /ws handler find in a slot is the newest instance,
\* and it has not been closed.
SlotCurrent ==
    \A c \in Components :
        slot[c] # 0 => slot[c] = gen[c] /\ life[c][gen[c]] = "up"

\* Only what is broken is replaced or given up: the current instance hangs, has
\* itself reported a failure, or was never made.  Neither a late report of an
\* instance replaced long ago, nor the time the supervisor spends waiting for
\* another component, nor a slow start costs a sound one its place.
RestartedForCause ==
    \A c \in Components :
        (pc = "restart" /\ at = c) \/ latched[c]
            => hung[c][gen[c]] \/ ownFailure[c] \/ ~comp[c]

\* /health never says ok for longer than the grace and the largest age of a
\* snapshot about a component that has gone silent, even while the supervisor
\* itself waits for another component to stop.
SilentNeverOK ==
    (Snapshot = "ok" /\ cause = "none")
        => \A c \in Components : silent[c] <= Grace(c) + StaleAge

\* A component that never keeps beating for the healthy grace is restarted at
\* most RestartBudget times, however it fails and however it beats in between.
CrashLoopBounded == \A c \in Components : unproven[c] <= RestartBudget

\* The store is closed under nobody: not under a job, and under no component
\* except one that did not stop in time.
StoreOutlivesUsers ==
    ~store => /\ ~jobs
              /\ \A c \in Components : \A g \in Gens : Live(c, g) => abandoned[c][g]

\* After the last fault the application recovers fully, unless a component
\* still recovers, or the process exits: no failure leaves it running and
\* failed, and no shutdown hangs.
Settles ==
    <>[](exit # "no" \/ Snapshot = "ok"
            \/ \E c \in Components : state[c] = "recovering")

=============================================================================
