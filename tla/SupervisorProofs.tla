-------------------------- MODULE SupervisorProofs --------------------------
(***************************************************************************)
(* The safety invariants of module Supervisor, for every number of         *)
(* components and every budget, grace and bound.  A first inductive        *)
(* invariant (Inv) is about which instances live: OneInstance, SlotCurrent *)
(* and StoreOutlivesUsers.  A second one (CauseInv), relative to it, is    *)
(* about why a component is restarted and what /health says of it:         *)
(* RestartedForCause, SilentNeverOK and CrashLoopBounded.                  *)
(***************************************************************************)
EXTENDS Supervisor, FiniteSetTheorems, TLAPS

-----------------------------------------------------------------------------
\* The inductive invariant.

\* The types of the variables the argument is about.
Typed ==
    /\ gen \in [Components -> Nat] /\ slot \in [Components -> Gens \cup {0}]
    /\ comp \in [Components -> BOOLEAN] /\ latched \in [Components -> BOOLEAN]
    /\ life \in [Components -> [Gens -> Lives]]
    /\ abandoned \in [Components -> [Gens -> BOOLEAN]]
    /\ pc \in Steps /\ at \in 0 .. N + 1
    /\ jobs \in BOOLEAN /\ store \in BOOLEAN

\* Only the newest instance of a component is live.
NewestLives == \A c \in Components : \A g \in Gens : Live(c, g) => g = gen[c]

\* A live instance its entry has forgotten was abandoned, and then the component
\* is latched or the process ends: no successor follows.
Forgotten ==
    \A c \in Components : \A g \in Gens :
        ~comp[c] /\ Live(c, g) =>
            abandoned[c][g] /\ (latched[c] \/ pc \in {"stopAll", "halt"})

\* While Run starts the components, the ones not reached have no instance.
Starting ==
    pc = "start" => /\ at # 0
                    /\ \A c \in Components : ~latched[c] /\ (c >= at => ~comp[c])

\* Only a component that is not latched is swept for a restart.
Sweeping ==
    /\ pc \in {"sweep", "restart"} => at \in Components
    /\ pc = "restart" => ~latched[at]

\* stopAll leaves behind only what it abandoned.
Stopping ==
    /\ pc = "stopAll" => at \in 0 .. N
    /\ pc = "halt" => at = 0
    /\ pc \in {"stopAll", "halt"} =>
          \A c \in Components : c > at => \A g \in Gens : Live(c, g) => abandoned[c][g]

\* The store is closed last.
Closing == ~store => pc = "halt" /\ ~jobs

Inv == Typed /\ NewestLives /\ Forgotten /\ Starting /\ Sweeping /\ Stopping /\ Closing
          /\ SlotCurrent

core == <<gen, comp, latched, life, abandoned, slot, pc, at, jobs, store>>

USE SupervisorAssumption DEF Components, Gens

-----------------------------------------------------------------------------
\* The initial state satisfies the invariant.
LEMMA InitInv == Init => Inv
  BY DEF Init, Inv, Typed, NewestLives, Forgotten, Starting, Sweeping, Stopping, Closing,
         SlotCurrent, Live, Lives, Steps

\* A step that touches none of the core variables preserves it.
LEMMA CoreUnchanged == ASSUME Inv, UNCHANGED core PROVE Inv'
  BY DEF core, Inv, Typed, NewestLives, Forgotten, Starting, Sweeping, Stopping, Closing,
         SlotCurrent, Live

-----------------------------------------------------------------------------
\* The supervisor's goroutine.

\* A component without a live instance is in no slot.
LEMMA EmptySlot ==
    ASSUME Inv, NEW c \in Components, \A g \in Gens : ~Live(c, g)
    PROVE  slot[c] = 0
  BY DEF Inv, Typed, SlotCurrent, Live

\* A component that stopped, and was not given up, has no live instance.
LEMMA StoppedDead ==
    ASSUME Inv, NEW c \in Components, Stopped(c), ~latched[c], pc \notin {"stopAll", "halt"},
           NEW g \in Gens
    PROVE  ~Live(c, g)
  BY DEF Inv, Typed, NewestLives, Forgotten, Stopped, Live

\* What start does to a component without a live instance.
LEMMA BeginLives ==
    ASSUME Inv, NEW c \in Components, \A g \in Gens : ~Live(c, g), Begin(c)
    PROVE  /\ gen' \in [Components -> Nat] /\ comp' \in [Components -> BOOLEAN]
           /\ life' \in [Components -> [Gens -> Lives]]
           /\ \A d \in Components : \A g \in Gens :
                 Live(d, g)' => g = gen'[d] /\ (comp'[d] \/ (d # c /\ Live(d, g) /\ ~comp[d]))
           /\ \A d \in Components \ {c} :
                 gen'[d] = gen[d] /\ comp'[d] = comp[d] /\ life'[d] = life[d]
  <1>1. /\ gen' = [gen EXCEPT ![c] = gen[c] + 1]
        /\ \/ /\ comp' = [comp EXCEPT ![c] = TRUE]
              /\ life' = [life EXCEPT ![c][gen[c] + 1] = "starting"]
           \/ comp' = [comp EXCEPT ![c] = FALSE] /\ life' = life
    BY DEF Begin
  <1>t. /\ gen \in [Components -> Nat] /\ comp \in [Components -> BOOLEAN]
        /\ life \in [Components -> [Gens -> Lives]] /\ "starting" \in Lives
    BY DEF Inv, Typed, Lives
  <1>2. gen' \in [Components -> Nat] /\ comp' \in [Components -> BOOLEAN]
    <2>1. gen[c] + 1 \in Nat
      BY <1>t
    <2>2. gen' \in [Components -> Nat]
      BY <1>1, <1>t, <2>1
    <2>3. comp' \in [Components -> BOOLEAN]
      BY <1>1, <1>t
    <2> QED  BY <2>2, <2>3
  <1>3. life' \in [Components -> [Gens -> Lives]]
    <2>1. [life[c] EXCEPT ![gen[c] + 1] = "starting"] \in [Gens -> Lives]
      BY <1>t
    <2>2. CASE life' = [life EXCEPT ![c] = [life[c] EXCEPT ![gen[c] + 1] = "starting"]]
      BY <1>t, <2>1, <2>2
    <2>3. CASE life' = life
      BY <1>t, <2>3
    <2> QED  BY <1>1, <2>2, <2>3
  <1>4. \A d \in Components \ {c} :
           gen'[d] = gen[d] /\ comp'[d] = comp[d] /\ life'[d] = life[d]
    BY <1>1 DEF Inv, Typed
  <1>5. \A g \in Gens : Live(c, g)' => g = gen'[c] /\ comp'[c]
    BY <1>1 DEF Inv, Typed, Live
  <1>6. \A d \in Components \ {c} : \A g \in Gens : Live(d, g)' => Live(d, g) /\ g = gen'[d]
    BY <1>4 DEF Inv, NewestLives, Live
  <1> QED  BY <1>2, <1>3, <1>4, <1>5, <1>6

\* start preserves the invariant of the entries, under the caller's next step.
LEMMA BeginInv ==
    ASSUME Inv, NEW c \in Components, \A g \in Gens : ~Live(c, g), Begin(c),
           pc \notin {"stopAll", "halt"}, UNCHANGED <<latched, slot, abandoned>>
    PROVE  NewestLives' /\ Forgotten' /\ SlotCurrent'
  <1>1. NewestLives'
    BY BeginLives DEF NewestLives
  <1>2. Forgotten'
    BY BeginLives DEF Forgotten, Inv
  <1>3. SlotCurrent'
    <2>1. slot[c] = 0
      BY EmptySlot
    <2>2. \A d \in Components \ {c} : gen'[d] = gen[d] /\ life'[d] = life[d]
      BY BeginLives
    <2> QED  BY <2>1, <2>2 DEF SlotCurrent, Inv
  <1> QED  BY <1>1, <1>2, <1>3

LEMMA StartInv == ASSUME Inv, Start PROVE Inv'
  <1>1. CASE at <= N
    <2>1. /\ at \in Components /\ Begin(at) /\ at' = at + 1 /\ pc' = pc /\ pc = "start"
          /\ UNCHANGED <<latched, slot, abandoned, jobs, store>>
      BY <1>1 DEF Start, Inv, Typed, Starting, process
    <2>2. \A g \in Gens : ~Live(at, g)
      BY <2>1 DEF Inv, Typed, Starting, Forgotten
    <2>3. NewestLives' /\ Forgotten' /\ SlotCurrent'
      BY <2>1, <2>2, BeginInv
    <2>4. Typed'
      BY <2>1, <2>2, BeginLives DEF Inv, Typed, Steps
    <2>5. Starting'
      BY <2>1, <2>2, BeginLives DEF Inv, Typed, Starting
    <2>6. Sweeping' /\ Stopping' /\ Closing'
      BY <2>1 DEF Inv, Sweeping, Stopping, Closing
    <2> QED  BY <2>3, <2>4, <2>5, <2>6 DEF Inv
  <1>2. CASE ~(at <= N)
    <2>1. /\ pc = "start" /\ pc' = "sweep" /\ at' = 1
          /\ UNCHANGED <<gen, comp, latched, life, abandoned, slot, jobs, store>>
      BY <1>2 DEF Start, process
    <2> QED
      BY <2>1 DEF Inv, Typed, NewestLives, Forgotten, Starting, Sweeping, Stopping, Closing,
                  SlotCurrent, Live, Steps
  <1> QED  BY <1>1, <1>2

LEMMA BeginSweepInv == ASSUME Inv, BeginSweep PROVE Inv'
  BY DEF BeginSweep, entries, insts, process, Inv, Typed, NewestLives, Forgotten, Starting,
         Sweeping, Stopping, Closing, SlotCurrent, Live, Steps

\* Going on behind a component leads to the next one or to the publication.
LEMMA AdvanceTo ==
    ASSUME Inv, at \in Components, Advance
    PROVE  /\ at' \in 0 .. N
           /\ (pc' = "sweep" /\ at' \in Components) \/ pc' = "publish"
  BY DEF Advance

LEMMA SweepOneInv == ASSUME Inv, SweepOne PROVE Inv'
  <1>1. pc = "sweep" /\ at \in Components
    BY DEF SweepOne, Inv, Sweeping
  <1>2. UNCHANGED <<gen, comp, life, abandoned, slot, jobs, store>>
    BY DEF SweepOne, entries, insts, process
  <1>3. /\ latched' \in [Components -> BOOLEAN]
        /\ \A c \in Components : latched[c] => latched'[c]
    BY DEF SweepOne, entries, Inv, Typed
  <1>4. \/ pc' = "sweep" /\ at' \in Components
        \/ pc' = "publish" /\ at' \in 0 .. N
        \/ pc' = "restart" /\ at' = at /\ ~latched'[at]
    <2>1. CASE Advance
      BY <1>1, <2>1, AdvanceTo
    <2>2. CASE ~Advance
      BY <1>1, <2>2 DEF SweepOne, NeedsRestart
    <2> QED  BY <2>1, <2>2
  <1> QED
    BY <1>1, <1>2, <1>3, <1>4
       DEF Inv, Typed, NewestLives, Forgotten, Starting, Sweeping, Stopping, Closing,
           SlotCurrent, Live, Steps

LEMMA RestartInv == ASSUME Inv, Restart PROVE Inv'
  <1>1. /\ pc = "restart" /\ at \in Components /\ Stopped(at) /\ Begin(at) /\ Advance
        /\ ~latched[at]
        /\ UNCHANGED <<latched, slot, abandoned, jobs, store>>
    BY DEF Restart, Inv, Sweeping, process
  <1>2. \A g \in Gens : ~Live(at, g)
    BY <1>1, StoppedDead
  <1>3. NewestLives' /\ Forgotten' /\ SlotCurrent'
    BY <1>1, <1>2, BeginInv
  <1>4. at' \in 0 .. N /\ ((pc' = "sweep" /\ at' \in Components) \/ pc' = "publish")
    BY <1>1, AdvanceTo
  <1>5. Typed'
    <2>1. /\ gen' \in [Components -> Nat] /\ comp' \in [Components -> BOOLEAN]
          /\ life' \in [Components -> [Gens -> Lives]]
      BY <1>1, <1>2, BeginLives
    <2> QED  BY <1>1, <1>4, <2>1 DEF Inv, Typed, Steps
  <1>6. Starting' /\ Sweeping' /\ Stopping' /\ Closing'
    BY <1>1, <1>4 DEF Inv, Starting, Sweeping, Stopping, Closing
  <1> QED  BY <1>3, <1>5, <1>6 DEF Inv

\* Giving up on an instance marks it.
LEMMA AbandonMarks ==
    ASSUME Inv, NEW c \in Components, Abandon(c), UNCHANGED <<gen, life>>
    PROVE  /\ comp' \in [Components -> BOOLEAN]
           /\ abandoned' \in [Components -> [Gens -> BOOLEAN]]
           /\ \A d \in Components : \A g \in Gens : abandoned[d][g] => abandoned'[d][g]
           /\ \A g \in Gens : Live(c, g) => abandoned'[c][g]
           /\ \A d \in Components \ {c} : comp'[d] = comp[d]
  BY DEF Abandon, Inv, Typed, NewestLives, Live

LEMMA RestartTimeoutInv == ASSUME Inv, RestartTimeout PROVE Inv'
  <1>1. /\ pc = "restart" /\ at \in Components /\ Abandon(at) /\ Advance
        /\ latched' = [latched EXCEPT ![at] = TRUE]
        /\ UNCHANGED <<gen, life, slot, jobs, store>>
    BY DEF RestartTimeout, Inv, Sweeping, process
  <1>2. at' \in 0 .. N /\ ((pc' = "sweep" /\ at' \in Components) \/ pc' = "publish")
    BY <1>1, AdvanceTo
  <1>3. Typed'
    BY <1>1, <1>2, AbandonMarks DEF Inv, Typed, Steps
  <1>4. Forgotten'
    BY <1>1, <1>2, AbandonMarks DEF Inv, Typed, Forgotten, Live
  <1>5. NewestLives' /\ SlotCurrent'
    BY <1>1 DEF Inv, NewestLives, SlotCurrent, Live
  <1>6. Starting' /\ Sweeping' /\ Stopping' /\ Closing'
    BY <1>1, <1>2 DEF Inv, Starting, Sweeping, Stopping, Closing
  <1> QED  BY <1>3, <1>4, <1>5, <1>6 DEF Inv

LEMMA PublishInv == ASSUME Inv, Publish PROVE Inv'
  BY DEF Publish, insts, process, Inv, Typed, NewestLives, Forgotten, Starting,
         Sweeping, Stopping, Closing, SlotCurrent, Live, Steps

LEMMA StopAllInv == ASSUME Inv, StopAll PROVE Inv'
  <1>1. /\ pc' = "stopAll"
        /\ UNCHANGED <<gen, comp, latched, life, abandoned, slot, jobs, store>>
        /\ \/ pc = "idle" /\ at' = N
           \/ pc = "stopAll" /\ at > 0 /\ Stopped(at) /\ at' = at - 1
    BY DEF StopAll, entries, process
  <1>2. at' \in 0 .. N
    BY <1>1 DEF Inv, Stopping
  <1>3. \A c \in Components : c > at' => \A g \in Gens : Live(c, g) => abandoned[c][g]
    BY <1>1 DEF Inv, Typed, Stopping, NewestLives, Forgotten, Stopped, Live
  <1> QED
    BY <1>1, <1>2, <1>3
       DEF Inv, Typed, NewestLives, Forgotten, Starting, Sweeping, Stopping, Closing,
           SlotCurrent, Live, Steps

LEMMA StopAllTimeoutInv == ASSUME Inv, StopAllTimeout PROVE Inv'
  <1>1. /\ pc = "stopAll" /\ at \in Components /\ Abandon(at)
        /\ UNCHANGED <<gen, life, slot, latched, pc, at, jobs, store>>
    BY DEF StopAllTimeout, Inv, Stopping, process, loop
  <1>2. Typed'
    BY <1>1, AbandonMarks DEF Inv, Typed
  <1>3. Forgotten'
    BY <1>1, AbandonMarks DEF Inv, Forgotten, Live
  <1>4. Stopping'
    BY <1>1, AbandonMarks DEF Inv, Stopping, Live
  <1>5. NewestLives' /\ SlotCurrent' /\ Starting' /\ Sweeping' /\ Closing'
    BY <1>1 DEF Inv, NewestLives, SlotCurrent, Starting, Sweeping, Closing, Live
  <1> QED  BY <1>2, <1>3, <1>4, <1>5 DEF Inv

LEMMA HaltInv == ASSUME Inv, Halt PROVE Inv'
  BY DEF Halt, entries, insts, process, Inv, Typed, NewestLives, Forgotten, Starting,
         Sweeping, Stopping, Closing, SlotCurrent, Live, Steps

-----------------------------------------------------------------------------
\* The instances and the process.

\* An instance that makes no other one live, and only ever withdraws itself from
\* its slot, preserves the invariant.
LEMMA InstanceInv ==
    ASSUME Inv, NEW c \in Components, NEW g \in Gens, NEW x \in Lives,
           life' = [life EXCEPT ![c][g] = x],
           x \in {"starting", "up", "withdrawn"} => Live(c, g),
           \/ life[c][g] # "up" /\ UNCHANGED slot
           \/ slot' = IF slot[c] = g THEN [slot EXCEPT ![c] = 0] ELSE slot
           \/ x = "up" /\ slot' \in {slot, [slot EXCEPT ![c] = g]},
           UNCHANGED <<gen, comp, latched, abandoned, pc, at, jobs, store>>
    PROVE  Inv'
  <1>t. /\ gen \in [Components -> Nat] /\ slot \in [Components -> Gens \cup {0}]
        /\ life \in [Components -> [Gens -> Lives]]
    BY DEF Inv, Typed
  <1>1. /\ \A d \in Components, h \in Gens :
              life'[d][h] = IF d = c /\ h = g THEN x ELSE life[d][h]
        /\ life' \in [Components -> [Gens -> Lives]]
    <2>1. [life[c] EXCEPT ![g] = x] \in [Gens -> Lives]
      BY <1>t
    <2>2. life' = [life EXCEPT ![c] = [life[c] EXCEPT ![g] = x]]
      OBVIOUS
    <2> QED  BY <1>t, <2>1, <2>2
  <1>2. \A d \in Components, h \in Gens : Live(d, h)' => Live(d, h)
    BY <1>1 DEF Live
  <1>3. Typed'
    BY <1>t, <1>1 DEF Inv, Typed
  <1>4. NewestLives'
    BY <1>2 DEF Inv, NewestLives
  <1>5. Forgotten' /\ Starting' /\ Sweeping' /\ Stopping' /\ Closing'
    BY <1>2 DEF Inv, Forgotten, Starting, Sweeping, Stopping, Closing
  <1>6. SlotCurrent'
    <2> SUFFICES ASSUME NEW d \in Components, slot'[d] # 0
                 PROVE  slot'[d] = gen[d] /\ life'[d][gen[d]] = "up"
      BY DEF SlotCurrent
    <2>1. CASE d # c
      <3>1. slot'[d] = slot[d] /\ slot[d] \in Gens
        BY <1>t, <2>1
      <3> QED  BY <1>1, <2>1, <3>1 DEF Inv, SlotCurrent
    <2>2. CASE d = c /\ life[c][g] # "up" /\ slot' = slot
      BY <1>t, <1>1, <2>2 DEF Inv, SlotCurrent
    <2>3. CASE d = c /\ slot' = IF slot[c] = g THEN [slot EXCEPT ![c] = 0] ELSE slot
      BY <1>t, <1>1, <2>3 DEF Inv, SlotCurrent
    <2>4. CASE d = c /\ x = "up" /\ slot' \in {slot, [slot EXCEPT ![c] = g]}
      <3>1. g = gen[c]
        BY <2>4 DEF Inv, NewestLives
      <3> QED  BY <1>t, <1>1, <2>4, <3>1 DEF Inv, SlotCurrent
    <2> QED  BY <2>1, <2>2, <2>3, <2>4
  <1> QED  BY <1>3, <1>4, <1>5, <1>6 DEF Inv

LEMMA InstanceStepInv ==
    ASSUME Inv, NEW c \in Components, NEW g \in Gens, Instance(c, g)
    PROVE  Inv'
  <1>1. CASE InstanceStart(c, g)
    <2>1. /\ life[c][g] = "starting"
          /\ UNCHANGED <<gen, comp, latched, abandoned, pc, at, jobs, store>>
      BY <1>1 DEF InstanceStart, process
    <2>2. CASE /\ life' = [life EXCEPT ![c][g] = "up"]
               /\ slot' \in {slot, [slot EXCEPT ![c] = g]}
      BY <2>1, <2>2, InstanceInv DEF Live, Lives
    <2>3. CASE life' = [life EXCEPT ![c][g] = "broken"] /\ UNCHANGED slot
      BY <2>1, <2>3, InstanceInv DEF Live, Lives
    <2> QED  BY <1>1, <2>2, <2>3 DEF InstanceStart
  <1>2. CASE ReportFailure(c, g)
    BY <1>2, CoreUnchanged DEF ReportFailure, core, insts, process
  <1>3. CASE Hang(c, g)
    BY <1>3, CoreUnchanged DEF Hang, core, entries, loop, process
  <1>4. CASE Withdraw(c, g)
    BY <1>4, InstanceInv DEF Withdraw, entries, loop, process, Live, Lives
  <1>5. CASE InstanceStop(c, g)
    BY <1>5, InstanceInv DEF InstanceStop, entries, loop, process, Live, Lives
  <1> QED  BY <1>1, <1>2, <1>3, <1>4, <1>5 DEF Instance

LEMMA ProcessInv ==
    ASSUME Inv, Signal \/ PartFails \/ JobsEnd \/ Close \/ Exit \/ Tick
    PROVE  Inv'
  <1>1. CASE Signal \/ PartFails \/ Exit \/ Tick
    <2>1. UNCHANGED core
      BY <1>1 DEF Signal, PartFails, Exit, Tick, core, entries, loop, insts, process
    <2> QED  BY <2>1, CoreUnchanged
  <1>2. CASE JobsEnd \/ Close
    <2>1. /\ UNCHANGED <<gen, comp, latched, life, abandoned, slot, pc, at>>
          /\ \/ jobs' = FALSE /\ store' = store
             \/ pc = "halt" /\ ~jobs /\ store' = FALSE /\ jobs' = jobs
      BY <1>2 DEF JobsEnd, Close, entries, loop, insts
    <2>2. Typed'
      <3>1. jobs' \in BOOLEAN /\ store' \in BOOLEAN
        BY <2>1, Zenon DEF Inv, Typed
      <3> QED  BY <2>1, <3>1 DEF Inv, Typed
    <2>3. Closing'
      BY <2>1, Zenon DEF Inv, Closing
    <2>4. NewestLives' /\ Forgotten' /\ Starting' /\ Sweeping' /\ Stopping' /\ SlotCurrent'
      BY <2>1 DEF Inv, NewestLives, Forgotten, Starting, Sweeping, Stopping, SlotCurrent, Live
    <2> QED  BY <2>2, <2>3, <2>4 DEF Inv
  <1> QED  BY <1>1, <1>2

-----------------------------------------------------------------------------
\* The invariant holds in every behaviour: one lemma per action above.
THEOREM SupervisorInv == Spec => []Inv
  <1>1. Inv /\ [Next]_vars => Inv'
    <2> SUFFICES ASSUME Inv, [Next]_vars PROVE Inv'
      OBVIOUS
    <2>1. CASE Step
      BY <2>1, StartInv, BeginSweepInv, SweepOneInv, RestartInv, RestartTimeoutInv, PublishInv,
         StopAllInv, StopAllTimeoutInv, HaltInv DEF Step
    <2>2. ASSUME NEW c \in Components, Beat(c) PROVE Inv'
      BY <2>2, CoreUnchanged DEF Beat, core, process
    <2>3. ASSUME NEW c \in Components, NEW g \in Gens, Instance(c, g) PROVE Inv'
      BY <2>3, InstanceStepInv
    <2>4. CASE Signal \/ PartFails \/ JobsEnd \/ Close \/ Exit \/ Tick
      BY <2>4, ProcessInv
    <2>5. CASE UNCHANGED vars
      BY <2>5, CoreUnchanged DEF vars, core, entries, loop, insts, process
    <2> QED  BY <2>1, <2>2, <2>3, <2>4, <2>5 DEF Next
  <1> QED  BY InitInv, <1>1, PTL DEF Spec

\* restart, stop: no component ever has two live instances, however stops time
\* out, factories fail and late starts arrive, for every number of components.
THEOREM SupervisorOneInstance == Spec => []OneInstance
  <1>1. Inv => OneInstance
    <2> SUFFICES ASSUME Inv, NEW c \in Components
                 PROVE  Cardinality({g \in Gens : Live(c, g)}) <= 1
      BY DEF OneInstance
    <2>1. {g \in Gens : Live(c, g)} \subseteq {gen[c]}
      BY DEF Inv, NewestLives
    <2>2. IsFiniteSet({gen[c]}) /\ Cardinality({gen[c]}) = 1
      BY FS_Singleton
    <2>3. Cardinality({g \in Gens : Live(c, g)}) <= Cardinality({gen[c]})
      BY <2>1, <2>2, FS_Subset
    <2> QED  BY <2>2, <2>3
  <1> QED  BY SupervisorInv, <1>1, PTL

\* Slot.Store and ClearIf: a slot never holds a closed or replaced instance.
THEOREM SupervisorSlotCurrent == Spec => []SlotCurrent
  <1>1. Inv => SlotCurrent
    BY DEF Inv
  <1> QED  BY SupervisorInv, <1>1, PTL

\* serve, close: the store is closed after the jobs have ended and every
\* component has stopped or was given up.
THEOREM SupervisorStoreOutlivesUsers == Spec => []StoreOutlivesUsers
  <1>1. Inv => StoreOutlivesUsers
    BY DEF Inv, Typed, Closing, Stopping, StoreOutlivesUsers
  <1> QED  BY SupervisorInv, <1>1, PTL

-----------------------------------------------------------------------------
\* The second invariant: why a component is restarted, and what /health says.

\* The current instance hangs or has itself reported a failure, or there is none.
Cause(c) == ~comp[c] \/ ownFailure[c] \/ hung[c][gen[c]]

Ending == pc \in {"stopAll", "halt"}

\* Every generation but the first follows a fault of the one before.
Counted ==
    \A c \in Components : /\ gen[c] <= faults + 1
                          /\ Cause(c) /\ ~Ending => gen[c] <= faults
                          /\ unproven[c] <= gen[c]

\* Nothing is known of generations to come.
Fresh ==
    \A c \in Components : \A g \in Gens :
        g > gen[c] => life[c][g] = "none" /\ ~hung[c][g] /\ ~stopping[c][g]

\* What the entry says of its instance: it was made, its report is its own, and
\* only a restart or the end of the process stops it.
Made ==
    \A c \in Components :
        /\ reportedFailed[c] => ownFailure[c]
        /\ comp[c] => /\ gen[c] > 0 /\ life[c][gen[c]] # "none"
                      /\ life[c][gen[c]] = "broken" => ownFailure[c]
                      /\ stopping[c][gen[c]] \/ life[c][gen[c]] = "down"
                            => (pc = "restart" /\ at = c) \/ Ending

\* A sound instance beats within its grace.
Timely ==
    \A c \in Components :
        comp[c] /\ Live(c, gen[c]) /\ ~hung[c][gen[c]] /\ ~stopping[c][gen[c]]
            => silent[c] <= Grace(c)

\* The counter of restarts covers the restarts since the last proof of health,
\* and the one that is going on.
Covered ==
    \A c \in Components :
        /\ beatAt[c] >= HealthyGrace => unproven[c] = 0
        /\ unproven[c] <= failures[c]
        /\ pc = "restart" /\ at = c => unproven[c] < failures[c]

\* What this sweep has looked at, or a whole one has.
Swept(c) == pc = "publish" \/ (pc \in {"sweep", "restart"} /\ c < at)

\* A component the sweep has passed and found sound was within its grace at the
\* sweep's "now".
Passed ==
    cause = "none" => \A c \in Components :
        Swept(c) /\ failures[c] = 0 /\ ~Failed(c) => silent[c] <= Grace(c) + sweepAge

\* A snapshot that says ok was right when it was taken.
Shown ==
    (cause = "none" /\ snap = "ok" /\ snapAge <= StaleAge) =>
        \A c \in Components : silent[c] <= Grace(c) + snapAge

\* The types of what Typed leaves out.
Typed2 ==
    /\ failures \in [Components -> 0 .. RestartBudget]
    /\ reportedFailed \in [Components -> BOOLEAN]
    /\ silent \in [Components -> 0 .. SilenceCap]
    /\ beatAt \in [Components -> 0 .. HealthyGrace]
    /\ sweepAge \in 0 .. MaxStall /\ snapAge \in 0 .. AgeCap
    /\ wake \in 0 .. WakeBuffer /\ tick \in BOOLEAN
    /\ cause \in {"none", "shutdown", "fatal"}
    /\ part \in BOOLEAN /\ watched \in BOOLEAN
    /\ snap \in {"ok", "degraded", "failed"}
    /\ hung \in [Components -> [Gens -> BOOLEAN]]
    /\ state \in [Components -> States]
    /\ stopping \in [Components -> [Gens -> BOOLEAN]]
    /\ exit \in {"no", "clean", "fatal", "timeout"}
    /\ faults \in 0 .. MaxFaults
    /\ ownFailure \in [Components -> BOOLEAN]
    /\ unproven \in [Components -> Nat]

\* The end of the process has a cause.
Ended == Ending => cause # "none"

CauseInv ==
    /\ Typed2 /\ Counted /\ Fresh /\ Made /\ Timely /\ Covered /\ Passed /\ Shown /\ Ended
    /\ RestartedForCause

-----------------------------------------------------------------------------
\* Facts about the operators.

\* One entry of a table is replaced.
LEMMA EntrySet ==
    ASSUME NEW S, NEW T, NEW U, NEW f \in [S -> [T -> U]], NEW s \in S, NEW t \in T, NEW u \in U
    PROVE  /\ [f EXCEPT ![s][t] = u] \in [S -> [T -> U]]
           /\ \A a \in S, b \in T :
                 [f EXCEPT ![s][t] = u][a][b] = IF a = s /\ b = t THEN u ELSE f[a][b]
  <1>1. [f[s] EXCEPT ![t] = u] \in [T -> U]
    OBVIOUS
  <1>2. [f EXCEPT ![s][t] = u] = [f EXCEPT ![s] = [f[s] EXCEPT ![t] = u]]
    OBVIOUS
  <1> QED  BY <1>1, <1>2

LEMMA CappedRange ==
    ASSUME NEW n \in Nat, NEW cap \in Nat
    PROVE  Capped(n, cap) \in 0 .. cap /\ Capped(n, cap) <= n
  BY DEF Capped

LEMMA Caps == AgeCap \in Nat /\ SilenceCap \in Nat /\ AgeCap = StaleAge + 1
  BY DEF AgeCap, SilenceCap

LEMMA GraceRange ==
    ASSUME NEW c \in Components
    PROVE  Grace(c) \in Nat /\ HealthyGrace <= Grace(c) /\ Grace(c) <= RecoveringGrace
  BY DEF Grace

LEMMA StatusRange == ASSUME NEW p PROVE Status(p) \in {"ok", "degraded", "failed"}
  BY DEF Status

LEMMA WokenRange == ASSUME Typed2 PROVE Woken \in 0 .. WakeBuffer
  BY DEF Typed2, Woken, Capped

LEMMA FaultRange == ASSUME Typed2, Fault PROVE faults' \in 0 .. MaxFaults /\ faults' = faults + 1
  BY DEF Typed2, Fault

\* Cancelling the root context only forgets ages.
LEMMA EscalateAges ==
    ASSUME Typed2, Escalate
    PROVE  /\ silent' \in [Components -> 0 .. SilenceCap]
           /\ beatAt' \in [Components -> 0 .. HealthyGrace]
           /\ sweepAge' \in 0 .. MaxStall /\ tick' \in BOOLEAN
           /\ cause' \in {"none", "shutdown", "fatal"} /\ cause' # "none"
           /\ \A c \in Components : silent'[c] <= silent[c]
           /\ \A c \in Components : beatAt'[c] >= HealthyGrace => beatAt[c] >= HealthyGrace
           /\ cause = "none" => \A c \in Components : silent'[c] = 0
  <1>t. /\ silent \in [Components -> 0 .. SilenceCap] /\ beatAt \in [Components -> 0 .. HealthyGrace]
        /\ sweepAge \in 0 .. MaxStall /\ tick \in BOOLEAN
        /\ cause \in {"none", "shutdown", "fatal"}
    BY DEF Typed2
  <1>n. SilenceCap \in Nat
    BY Caps
  <1>1. CASE cause = "none"
    <2>1. /\ cause' = "fatal" /\ sweepAge' = 0 /\ tick' = FALSE
          /\ silent' = [c \in Components |-> 0] /\ beatAt' = [c \in Components |-> 0]
      BY <1>1 DEF Escalate, Cancel
    <2>2. \A c \in Components : silent[c] \in Nat /\ silent'[c] = 0 /\ beatAt'[c] = 0
      BY <1>t, <1>n, <2>1
    <2>3. silent' \in [Components -> 0 .. SilenceCap] /\ beatAt' \in [Components -> 0 .. HealthyGrace]
      BY <1>n, <2>1
    <2>4. \A c \in Components : silent'[c] <= silent[c] /\ ~(beatAt'[c] >= HealthyGrace)
      BY <2>2
    <2>5. tick' \in BOOLEAN
      BY <2>1
    <2>6. sweepAge' \in 0 .. MaxStall
      BY <2>1
    <2> QED  BY <1>1, <2>1, <2>2, <2>3, <2>4, <2>5, <2>6, Zenon
  <1>2. CASE cause # "none"
    BY <1>t, <1>n, <1>2 DEF Escalate
  <1> QED  BY <1>1, <1>2

LEMMA GenRange ==
    ASSUME Inv, CauseInv, NEW c \in Components
    PROVE  /\ gen[c] \in Gens \cup {0} /\ faults \in 0 .. MaxFaults
           /\ Cause(c) /\ ~Ending => gen[c] + 1 \in Gens /\ gen[c] <= faults
  <1>1. gen[c] \in Nat /\ faults \in 0 .. MaxFaults
    BY DEF Inv, Typed, CauseInv, Typed2
  <1>2. gen[c] <= faults + 1 /\ (Cause(c) /\ ~Ending => gen[c] <= faults)
    BY DEF CauseInv, Counted
  <1> QED  BY <1>1, <1>2

\* A component is found in need of a restart only for a cause: a sound instance
\* is on time at every "now", and a report counts for the instance that made it.
LEMMA NeedsCause ==
    ASSUME Inv, CauseInv, pc = "sweep", NEW c \in Components, NeedsRestart(c)
    PROVE  Cause(c)
  <1> SUFFICES ASSUME ~Cause(c) PROVE FALSE
    OBVIOUS
  <1>1. comp[c] /\ ~ownFailure[c] /\ ~hung[c][gen[c]]
    BY DEF Cause
  <1>2. gen[c] \in Gens
    BY <1>1, GenRange DEF CauseInv, Made
  <1>3. ~stopping[c][gen[c]] /\ life[c][gen[c]] \notin {"none", "broken", "down"}
    BY <1>1 DEF CauseInv, Made, Ending
  <1>4. Live(c, gen[c])
    BY <1>2, <1>3 DEF Inv, Typed, Live, Lives
  <1>5. silent[c] <= Grace(c)
    BY <1>1, <1>3, <1>4 DEF CauseInv, Timely
  <1>6. silent[c] \in Nat /\ sweepAge \in Nat /\ Grace(c) \in Nat
    BY GraceRange, Caps DEF CauseInv, Typed2
  <1>7. ~Failed(c)
    BY <1>1 DEF Failed, NeedsRestart, CauseInv, Made
  <1> QED  BY <1>5, <1>6, <1>7 DEF NeedsRestart, AtNow

\* What start does to the entries, of a component with a cause to be started.
Begun(c) ==
    /\ gen[c] \in Nat /\ gen[c] + 1 \in Gens /\ gen'[c] = gen[c] + 1
    /\ reportedFailed'[c] = FALSE /\ ownFailure'[c] = FALSE
    /\ silent'[c] = 0 /\ beatAt'[c] = 0 /\ state'[c] = "healthy"
    /\ faults \in Nat /\ faults' \in 0 .. MaxFaults /\ faults <= faults'
    /\ comp'[c] => life'[c][gen[c] + 1] = "starting"
    /\ ~comp'[c] => gen[c] + 1 <= faults'
    /\ \A g \in Gens : g # gen[c] + 1 => life'[c][g] = life[c][g]
    /\ \A d \in Components \ {c} :
          /\ gen'[d] = gen[d] /\ comp'[d] = comp[d] /\ life'[d] = life[d]
          /\ reportedFailed'[d] = reportedFailed[d] /\ ownFailure'[d] = ownFailure[d]
          /\ silent'[d] = silent[d] /\ beatAt'[d] = beatAt[d] /\ state'[d] = state[d]

LEMMA BeginSets ==
    ASSUME Inv, CauseInv, NEW c \in Components, Cause(c), ~Ending, Begin(c)
    PROVE  Begun(c)
  <1>1. gen[c] \in Nat /\ gen[c] + 1 \in Gens /\ gen[c] <= faults /\ faults \in 0 .. MaxFaults
    BY GenRange
  <1>t. /\ gen \in [Components -> Nat] /\ comp \in [Components -> BOOLEAN]
        /\ life \in [Components -> [Gens -> Lives]] /\ "starting" \in Lives
        /\ DOMAIN reportedFailed = Components /\ DOMAIN ownFailure = Components
        /\ DOMAIN silent = Components /\ DOMAIN beatAt = Components /\ DOMAIN state = Components
    BY DEF Inv, Typed, CauseInv, Typed2, Lives
  <1>2. CASE comp' = [comp EXCEPT ![c] = TRUE] /\ life' = [life EXCEPT ![c][gen[c] + 1] = "starting"]
             /\ UNCHANGED faults
    <2>1. \A a \in Components, b \in Gens :
             life'[a][b] = IF a = c /\ b = gen[c] + 1 THEN "starting" ELSE life[a][b]
      BY <1>1, <1>2, <1>t
    <2>2. \A d \in Components \ {c} : life'[d] = life[d]
      BY <1>2, <1>t
    <2> QED  BY <1>1, <1>2, <1>t, <2>1, <2>2 DEF Begin, Begun
  <1>3. CASE Fault /\ comp' = [comp EXCEPT ![c] = FALSE] /\ UNCHANGED life
    BY <1>1, <1>3, <1>t DEF Begin, Begun, Fault
  <1> QED  BY <1>2, <1>3 DEF Begin

\* The types start keeps.
LEMMA BeginTypes ==
    ASSUME Inv, CauseInv, NEW c \in Components, Begin(c)
    PROVE  /\ reportedFailed' \in [Components -> BOOLEAN]
           /\ silent' \in [Components -> 0 .. SilenceCap]
           /\ beatAt' \in [Components -> 0 .. HealthyGrace]
           /\ state' \in [Components -> States]
           /\ ownFailure' \in [Components -> BOOLEAN]
  <1>1. SilenceCap \in Nat
    BY Caps
  <1>2. /\ reportedFailed \in [Components -> BOOLEAN] /\ ownFailure \in [Components -> BOOLEAN]
        /\ silent \in [Components -> 0 .. SilenceCap] /\ beatAt \in [Components -> 0 .. HealthyGrace]
        /\ state \in [Components -> States]
    BY DEF CauseInv, Typed2
  <1> QED  BY <1>1, <1>2 DEF Begin, States

\* start preserves what holds between the steps of the supervisor.
LEMMA BeginCause ==
    ASSUME Inv, Inv', CauseInv, NEW c \in Components, Cause(c), ~Ending, Begin(c),
           pc' \notin {"restart", "stopAll", "halt"}, pc = "restart" => at = c,
           \A d \in Components : unproven'[d] <= unproven[d] + (IF d = c THEN 1 ELSE 0),
           unproven' \in [Components -> Nat],
           UNCHANGED <<latched, hung, stopping, cause, snap, snapAge>>
    PROVE  Counted' /\ Fresh' /\ Made' /\ Timely' /\ Shown' /\ Ended'
  <1>b. Begun(c)
    BY BeginSets
  <1>f. ~hung[c][gen[c] + 1] /\ ~stopping[c][gen[c] + 1]
    BY <1>b DEF CauseInv, Fresh, Begun
  <1>g. /\ \A d \in Components \ {c} : Grace(d)' = Grace(d)
        /\ Grace(c)' \in Nat
    BY <1>b DEF Grace, Begun
  <1>1. Counted'
    <2> SUFFICES ASSUME NEW d \in Components
                 PROVE  /\ gen'[d] <= faults' + 1
                        /\ Cause(d)' => gen'[d] <= faults'
                        /\ unproven'[d] <= gen'[d]
      BY DEF Counted
    <2>t. /\ gen[d] \in Nat /\ unproven[d] \in Nat /\ unproven'[d] \in Nat
          /\ faults \in Nat /\ faults' \in Nat
      <3>1. gen[d] \in Nat /\ unproven[d] \in Nat
        BY DEF Inv, Typed, CauseInv, Typed2
      <3> QED  BY <1>b, <3>1 DEF Begun
    <2>1. gen[d] <= faults + 1 /\ unproven[d] <= gen[d] /\ (Cause(d) => gen[d] <= faults)
      BY DEF CauseInv, Counted
    <2>2. CASE d = c
      <3>1. gen[c] <= faults
        BY <2>1, <2>2
      <3>3. Cause(c)' => ~comp'[c]
        BY <1>b, <1>f DEF Cause, Begun
      <3>4. gen'[c] = gen[c] + 1 /\ faults <= faults' /\ (~comp'[c] => gen[c] + 1 <= faults')
        BY <1>b DEF Begun
      <3>5. unproven'[c] <= unproven[c] + 1
        OBVIOUS
      <3> QED  BY <2>t, <2>1, <2>2, <3>1, <3>3, <3>4, <3>5
    <2>3. CASE d # c
      <3>1. Cause(d)' <=> Cause(d)
        BY <1>b, <2>3 DEF Cause, Begun
      <3>2. gen'[d] = gen[d] /\ faults <= faults' /\ unproven'[d] <= unproven[d]
        BY <1>b, <2>t, <2>3 DEF Begun
      <3> QED  BY <2>t, <2>1, <3>1, <3>2
    <2> QED  BY <2>2, <2>3
  <1>2. Fresh'
    <2>1. \A d \in Components : gen[d] \in Nat
      BY DEF Inv, Typed
    <2>2. Fresh
      BY DEF CauseInv
    <2>3. \A g \in Gens : g > gen[c] + 1 => g > gen[c] /\ g # gen[c] + 1
      BY <2>1
    <2> SUFFICES ASSUME NEW d \in Components, NEW g \in Gens, g > gen'[d]
                 PROVE  life'[d][g] = "none" /\ ~hung[d][g] /\ ~stopping[d][g]
      BY DEF Fresh
    <2>4. CASE d = c
      <3>1. g > gen[c] + 1 /\ life'[c][g] = life[c][g]
        BY <1>b, <2>3, <2>4 DEF Begun
      <3> QED  BY <2>2, <2>3, <2>4, <3>1 DEF Fresh
    <2>5. CASE d # c
      <3>1. gen'[d] = gen[d] /\ life'[d] = life[d]
        BY <1>b, <2>5 DEF Begun
      <3> QED  BY <2>2, <3>1 DEF Fresh
    <2> QED  BY <2>4, <2>5
  <1>3. Made'
    <2>1. \A d \in Components : gen[d] \in Nat
      BY DEF Inv, Typed
    <2>2. Made
      BY DEF CauseInv
    <2>3. \A d \in Components \ {c} : ~(pc = "restart" /\ at = d) /\ ~(pc' = "restart" /\ at' = d)
      OBVIOUS
    <2>4. gen[c] + 1 > 0 /\ ~Ending'
      BY <2>1 DEF Ending
    <2>5. /\ ~reportedFailed'[c] /\ gen'[c] = gen[c] + 1
          /\ comp'[c] => life'[c][gen'[c]] = "starting" /\ ~stopping'[c][gen'[c]]
      BY <1>b, <1>f DEF Begun
    <2>6. \A d \in Components \ {c} :
             /\ gen'[d] = gen[d] /\ comp'[d] = comp[d] /\ life'[d] = life[d] /\ stopping'[d] = stopping[d]
             /\ reportedFailed'[d] = reportedFailed[d] /\ ownFailure'[d] = ownFailure[d]
      BY <1>b DEF Begun
    <2> QED  BY <2>2, <2>3, <2>4, <2>5, <2>6 DEF Made
  <1>4. Timely'
    <2> SUFFICES ASSUME NEW d \in Components, comp'[d], Live(d, gen[d])', ~hung'[d][gen'[d]],
                        ~stopping'[d][gen'[d]]
                 PROVE  silent'[d] <= Grace(d)'
      BY DEF Timely
    <2>1. CASE d = c
      BY <1>b, <1>g, <2>1 DEF Begun
    <2>2. CASE d # c
      <3>1. /\ gen'[d] = gen[d] /\ comp'[d] = comp[d] /\ life'[d] = life[d]
            /\ silent'[d] = silent[d] /\ Grace(d)' = Grace(d) /\ hung' = hung /\ stopping' = stopping
        BY <1>b, <1>g, <2>2 DEF Begun
      <3> QED  BY <3>1 DEF CauseInv, Timely, Live
    <2> QED  BY <2>1, <2>2
  <1>5. Shown'
    <2>2. snapAge \in Nat
      BY Caps DEF CauseInv, Typed2
    <2> SUFFICES ASSUME cause' = "none", snap' = "ok", snapAge' <= StaleAge, NEW d \in Components
                 PROVE  silent'[d] <= Grace(d)' + snapAge'
      BY DEF Shown
    <2>3. CASE d = c
      BY <1>b, <1>g, <2>2, <2>3 DEF Begun
    <2>4. CASE d # c
      <3>1. silent'[d] = silent[d] /\ Grace(d)' = Grace(d)
        BY <1>b, <1>g, <2>4 DEF Begun
      <3>2. silent[d] <= Grace(d) + snapAge
        BY DEF CauseInv, Shown
      <3> QED  BY <3>1, <3>2
    <2> QED  BY <2>3, <2>4
  <1>6. Ended'
    BY DEF Ended, Ending
  <1> QED  BY <1>1, <1>2, <1>3, <1>4, <1>5, <1>6

LEMMA StartCause == ASSUME Inv, Inv', CauseInv, Start PROVE CauseInv'
  <1>1. CASE at <= N
    <2>1. /\ at \in Components /\ Begin(at) /\ at' = at + 1 /\ pc' = pc /\ pc = "start"
          /\ UNCHANGED <<failures, latched, wake, tick, cause, part, watched, snap, snapAge,
                         sweepAge, hung, stopping, exit, unproven>>
      BY <1>1 DEF Start, Inv, Typed, Starting, process
    <2>2. Cause(at) /\ ~Ending
      BY <2>1 DEF Inv, Starting, Typed, Cause, Ending
    <2>3. unproven' \in [Components -> Nat] /\ \A d \in Components : unproven[d] \in Nat
      BY <2>1 DEF CauseInv, Typed2
    <2>4. Counted' /\ Fresh' /\ Made' /\ Timely' /\ Shown' /\ Ended'
      BY <2>1, <2>2, <2>3, BeginCause
    <2>b. Begun(at)
      BY <2>1, <2>2, BeginSets
    <2>5. Typed2'
      BY <2>1, <2>b, BeginTypes DEF CauseInv, Typed2, Begun
    <2>6. Covered'
      BY <2>1, <2>b DEF CauseInv, Covered, Begun
    <2>7. Passed' /\ RestartedForCause'
      BY <2>1 DEF Passed, Swept, RestartedForCause, Inv, Starting
    <2> QED  BY <2>4, <2>5, <2>6, <2>7 DEF CauseInv
  <1>2. CASE ~(at <= N)
    <2>1. /\ pc = "start" /\ pc' = "sweep" /\ at' = 1 /\ sweepAge' = 0
          /\ UNCHANGED <<entries, wake, tick, cause, part, watched, snap, snapAge, insts,
                         process, ghosts>>
      BY <1>2 DEF Start, entries, insts, ghosts
    <2>2. Typed2'
      BY <2>1 DEF CauseInv, Typed2, entries, insts, process, ghosts
    <2>3. Counted' /\ Fresh' /\ Made' /\ Ended'
      BY <2>1 DEF CauseInv, Counted, Fresh, Made, Ended, Cause, Ending, entries, insts, ghosts
    <2>4. Timely' /\ Shown' /\ Covered'
      BY <2>1 DEF CauseInv, Timely, Shown, Covered, Grace, Live, entries, insts, ghosts
    <2>5. Passed' /\ RestartedForCause'
      BY <2>1 DEF CauseInv, Passed, Swept, RestartedForCause, entries, insts, ghosts
    <2> QED  BY <2>2, <2>3, <2>4, <2>5 DEF CauseInv
  <1> QED  BY <1>1, <1>2

LEMMA BeginSweepCause == ASSUME Inv, Inv', CauseInv, BeginSweep PROVE CauseInv'
  <1>1. /\ pc = "idle" /\ pc' = "sweep" /\ at' = 1 /\ sweepAge' = 0
        /\ UNCHANGED <<entries, cause, part, watched, snap, snapAge, insts, process, ghosts>>
    BY DEF BeginSweep
  <1>2. wake' \in 0 .. WakeBuffer /\ tick' \in BOOLEAN
    <2>1. wake \in 0 .. WakeBuffer /\ tick \in BOOLEAN
      BY DEF CauseInv, Typed2
    <2>2. CASE wake > 0 /\ wake' = wake - 1 /\ UNCHANGED tick
      BY <2>1, <2>2
    <2>3. CASE tick' = FALSE /\ UNCHANGED wake
      BY <2>1, <2>3, Zenon
    <2> QED  BY <2>2, <2>3 DEF BeginSweep
  <1>3. Typed2'
    <2>1. sweepAge' \in 0 .. MaxStall
      BY <1>1
    <2> QED  BY <1>1, <1>2, <2>1, Zenon DEF CauseInv, Typed2, entries, insts, process, ghosts
  <1>4. Counted' /\ Fresh' /\ Made' /\ Ended'
    BY <1>1 DEF CauseInv, Counted, Fresh, Made, Ended, Cause, Ending, entries, insts, ghosts
  <1>5. Timely' /\ Shown' /\ Covered'
    BY <1>1 DEF CauseInv, Timely, Shown, Covered, Grace, Live, entries, insts, ghosts
  <1>6. Passed' /\ RestartedForCause'
    BY <1>1 DEF CauseInv, Passed, Swept, RestartedForCause, entries, insts, ghosts
  <1> QED  BY <1>3, <1>4, <1>5, <1>6 DEF CauseInv

\* The sweep goes on behind the component it has looked at.
LEMMA AdvanceSwept ==
    ASSUME at \in Components, pc \in {"sweep", "restart"}, Advance
    PROVE  /\ pc' \in {"sweep", "publish"} /\ ~Ending /\ ~Ending'
           /\ \A d \in Components : Swept(d)' => d = at \/ Swept(d)
  BY DEF Advance, Swept, Ending

\* What needs no restart, or is not due for one, and works, is within its grace at
\* the sweep's "now".
LEMMA FoundSound ==
    ASSUME CauseInv, NEW c \in Components, ~(NeedsRestart(c) /\ RestartDue(c)), ~Failed(c)
    PROVE  silent[c] <= Grace(c) + sweepAge
  <1>1. silent[c] \in Nat /\ beatAt[c] \in Nat /\ sweepAge \in Nat /\ Grace(c) \in Nat
    BY GraceRange, Caps DEF CauseInv, Typed2
  <1> QED  BY <1>1 DEF NeedsRestart, RestartDue, AtNow, Failed

LEMMA SweepOneCause == ASSUME Inv, Inv', CauseInv, SweepOne PROVE CauseInv'
  <1>1. /\ pc = "sweep" /\ at \in Components
        /\ UNCHANGED <<wake, part, watched, snap, snapAge, process>>
    BY DEF SweepOne, Inv, Sweeping
  <1>2. CASE /\ cause # "none" /\ at' = 0 /\ pc' = "publish"
             /\ UNCHANGED <<entries, sweepAge, tick, cause, insts, ghosts>>
    <2>1. Typed2' /\ Fresh' /\ Timely' /\ Passed' /\ Shown' /\ Covered'
      BY <1>1, <1>2 DEF CauseInv, Typed2, Fresh, Timely, Passed, Shown, Covered, Grace, Live,
                        entries, insts, process, ghosts
    <2>2. Counted' /\ Made' /\ Ended' /\ RestartedForCause'
      BY <1>1, <1>2 DEF CauseInv, Counted, Made, Ended, RestartedForCause, Cause, Ending,
                        entries, insts, ghosts
    <2> QED  BY <2>1, <2>2 DEF CauseInv
  <1>3. CASE /\ cause = "none" /\ ~(NeedsRestart(at) /\ RestartDue(at)) /\ Advance
             /\ failures' = IF ProvenHealthy(at) THEN [failures EXCEPT ![at] = 0] ELSE failures
             /\ UNCHANGED <<gen, comp, latched, reportedFailed, silent, beatAt, sweepAge, tick,
                            cause, insts, ghosts>>
    <2>1. /\ pc' \in {"sweep", "publish"} /\ ~Ending /\ ~Ending'
          /\ \A d \in Components : Swept(d)' => d = at \/ Swept(d)
      BY <1>1, <1>3, AdvanceSwept
    <2>2. /\ failures' \in [Components -> 0 .. RestartBudget]
          /\ \A d \in Components \ {at} : failures'[d] = failures[d]
          /\ failures'[at] = failures[at] \/ (failures'[at] = 0 /\ ProvenHealthy(at))
      <3>1. failures \in [Components -> 0 .. RestartBudget]
        BY DEF CauseInv, Typed2
      <3>2. CASE ProvenHealthy(at)
        BY <1>1, <1>3, <3>1, <3>2
      <3>3. CASE ~ProvenHealthy(at)
        BY <1>1, <1>3, <3>1, <3>3
      <3> QED  BY <3>2, <3>3
    <2>3. Typed2' /\ Fresh' /\ Timely' /\ Shown'
      BY <1>1, <1>3, <2>2 DEF CauseInv, Typed2, Fresh, Timely, Shown, Grace, Live,
                              insts, process, ghosts
    <2>4. Counted' /\ Made' /\ Ended' /\ RestartedForCause'
      BY <1>1, <1>3, <2>1 DEF CauseInv, Counted, Made, Ended, RestartedForCause, Cause, insts, ghosts
    <2>5. Covered'
      BY <1>1, <1>3, <2>1, <2>2 DEF CauseInv, Covered, ProvenHealthy, ghosts
    <2>6. Passed'
      <3>1. ~Failed(at) => silent[at] <= Grace(at) + sweepAge
        BY <1>1, <1>3, FoundSound
      <3>2. \A d \in Components : (Failed(d)' <=> Failed(d)) /\ Grace(d)' = Grace(d)
        BY <1>3 DEF Failed, Grace, insts
      <3> QED  BY <1>3, <2>1, <2>2, <3>1, <3>2 DEF CauseInv, Passed
    <2> QED  BY <2>3, <2>4, <2>5, <2>6 DEF CauseInv
  <1>4. CASE /\ cause = "none" /\ NeedsRestart(at) /\ latched' = [latched EXCEPT ![at] = TRUE]
             /\ Escalate /\ Advance
             /\ UNCHANGED <<gen, comp, failures, reportedFailed, insts, ghosts>>
    <2>1. pc' \in {"sweep", "publish"} /\ ~Ending /\ ~Ending'
      BY <1>1, <1>4, AdvanceSwept
    <2>2. /\ silent' \in [Components -> 0 .. SilenceCap]
          /\ beatAt' \in [Components -> 0 .. HealthyGrace]
          /\ sweepAge' \in 0 .. MaxStall /\ tick' \in BOOLEAN
          /\ cause' \in {"none", "shutdown", "fatal"} /\ cause' # "none"
          /\ \A c \in Components : beatAt'[c] >= HealthyGrace => beatAt[c] >= HealthyGrace
          /\ \A c \in Components : silent'[c] = 0
      BY <1>4, EscalateAges DEF CauseInv
    <2>3. Typed2' /\ Fresh' /\ Passed' /\ Shown' /\ Ended'
      BY <1>1, <1>4, <2>2 DEF CauseInv, Typed2, Fresh, Passed, Shown, Ended, insts, process, ghosts
    <2>4. Counted' /\ Made'
      BY <1>1, <1>4, <2>1 DEF CauseInv, Counted, Made, Cause, insts, ghosts
    <2>5. Timely'
      <3>1. \A d \in Components : Grace(d)' \in Nat
        BY DEF Grace
      <3> QED  BY <2>2, <3>1 DEF Timely
    <2>6. Covered'
      BY <1>1, <1>4, <2>1, <2>2 DEF CauseInv, Covered, ghosts
    <2>7. RestartedForCause'
      <3>1. Cause(at)
        BY <1>1, <1>4, NeedsCause
      <3>2. \A d \in Components \ {at} : latched'[d] = latched[d]
        BY <1>4 DEF Inv, Typed
      <3> QED  BY <1>1, <1>4, <2>1, <3>1, <3>2 DEF CauseInv, RestartedForCause, Cause, insts, ghosts
    <2> QED  BY <2>3, <2>4, <2>5, <2>6, <2>7 DEF CauseInv
  <1>5. CASE /\ cause = "none" /\ NeedsRestart(at) /\ ~BudgetSpent(at)
             /\ failures' = [failures EXCEPT ![at] = @ + 1]
             /\ stopping' = IF comp[at] THEN [stopping EXCEPT ![at][gen[at]] = TRUE] ELSE stopping
             /\ pc' = "restart"
             /\ UNCHANGED <<gen, comp, latched, reportedFailed, silent, beatAt, at, sweepAge,
                            tick, cause, life, hung, state, abandoned, slot, ghosts>>
    <2>1. Cause(at)
      BY <1>1, <1>5, NeedsCause
    <2>2. /\ failures' \in [Components -> 0 .. RestartBudget]
          /\ \A d \in Components \ {at} : failures'[d] = failures[d]
          /\ failures[at] \in Nat /\ failures'[at] = failures[at] + 1
      <3>1. failures \in [Components -> 0 .. RestartBudget]
        BY DEF CauseInv, Typed2
      <3>2. failures[at] + 1 \in 0 .. RestartBudget
        BY <1>1, <1>5, <3>1 DEF BudgetSpent
      <3> QED  BY <1>1, <1>5, <3>1, <3>2
    <2>3. gen[at] \in Gens \cup {0} /\ (comp[at] => gen[at] \in Gens)
      BY <1>1, GenRange DEF CauseInv, Made
    <2>4. /\ stopping' \in [Components -> [Gens -> BOOLEAN]]
          /\ \A d \in Components, g \in Gens :
                stopping'[d][g] => stopping[d][g] \/ (d = at /\ comp[at] /\ g = gen[at])
      <3>1. stopping \in [Components -> [Gens -> BOOLEAN]]
        BY DEF CauseInv, Typed2
      <3>2. CASE comp[at]
        <4>1. stopping' = [stopping EXCEPT ![at][gen[at]] = TRUE] /\ gen[at] \in Gens
          BY <1>5, <2>3, <3>2
        <4> QED  BY <1>1, <3>1, <3>2, <4>1, EntrySet
      <3>3. CASE ~comp[at]
        BY <1>5, <3>1, <3>3
      <3> QED  BY <3>2, <3>3
    <2>5. Typed2'
      BY <1>1, <1>5, <2>2, <2>4 DEF CauseInv, Typed2, process, ghosts
    <2>6. Fresh'
      <3>1. \A d \in Components : gen[d] \in Nat
        BY DEF Inv, Typed
      <3> QED  BY <1>1, <1>5, <2>4, <3>1 DEF CauseInv, Fresh
    <2>7. Counted' /\ Ended' /\ RestartedForCause'
      BY <1>1, <1>5, <2>1 DEF CauseInv, Counted, Ended, RestartedForCause, Cause, Ending, ghosts
    <2>8. Made'
      <3> SUFFICES ASSUME NEW d \in Components PROVE
                /\ reportedFailed[d] => ownFailure[d]
                /\ comp[d] => /\ gen[d] > 0 /\ life[d][gen[d]] # "none"
                              /\ life[d][gen[d]] = "broken" => ownFailure[d]
                              /\ stopping'[d][gen[d]] \/ life[d][gen[d]] = "down" => at = d
        BY <1>5 DEF Made, ghosts
      <3>1. comp[d] => gen[d] \in Gens
        BY GenRange DEF CauseInv, Made
      <3> QED  BY <1>1, <2>4, <3>1 DEF CauseInv, Made, Ending
    <2>9. Timely'
      <3> SUFFICES ASSUME NEW d \in Components, comp[d], Live(d, gen[d]), ~hung[d][gen[d]],
                          ~stopping'[d][gen[d]]
                   PROVE  silent[d] <= Grace(d)
        BY <1>5 DEF Timely, Grace, Live
      <3>1. gen[d] \in Gens
        BY GenRange DEF CauseInv, Made
      <3>2. stopping[d][gen[d]] => stopping'[d][gen[d]]
        BY <1>1, <1>5, <2>3, <3>1 DEF CauseInv, Typed2
      <3> QED  BY <3>2 DEF CauseInv, Timely
    <2>10. Covered'
      <3>1. \A d \in Components : unproven[d] \in Nat /\ failures[d] \in Nat
        BY DEF CauseInv, Typed2
      <3>2. \A d \in Components : unproven[d] <= failures[d]
        BY DEF CauseInv, Covered
      <3>3. \A d \in Components : unproven'[d] <= failures'[d] /\ (d = at => unproven'[d] < failures'[d])
        BY <1>1, <1>5, <2>2, <3>1, <3>2 DEF ghosts
      <3> QED  BY <1>1, <1>5, <3>3 DEF CauseInv, Covered, ghosts
    <2>11. Passed'
      BY <1>1, <1>5, <2>2 DEF CauseInv, Passed, Swept, Failed, Grace
    <2>12. Shown'
      BY <1>1, <1>5 DEF CauseInv, Shown, Grace
    <2> QED  BY <2>5, <2>6, <2>7, <2>8, <2>9, <2>10, <2>11, <2>12 DEF CauseInv
  <1> QED  BY <1>2, <1>3, <1>4, <1>5 DEF SweepOne

LEMMA RestartCause == ASSUME Inv, Inv', CauseInv, Restart PROVE CauseInv'
  <1>1. /\ pc = "restart" /\ at \in Components /\ ~latched[at] /\ Begin(at) /\ Advance
        /\ unproven' = [unproven EXCEPT ![at] = @ + 1]
        /\ UNCHANGED <<failures, latched, sweepAge, wake, tick, cause, part, watched, snap,
                       snapAge, hung, stopping, abandoned, slot, process>>
    BY DEF Restart, Inv, Sweeping
  <1>2. /\ pc' \in {"sweep", "publish"} /\ ~Ending /\ ~Ending'
        /\ \A d \in Components : Swept(d)' => d = at \/ Swept(d)
    BY <1>1, AdvanceSwept
  <1>3. Cause(at)
    BY <1>1 DEF CauseInv, RestartedForCause, Cause
  <1>b. Begun(at)
    BY <1>1, <1>2, <1>3, BeginSets
  <1>4. /\ unproven \in [Components -> Nat] /\ failures \in [Components -> 0 .. RestartBudget]
        /\ unproven[at] < failures[at]
    BY <1>1 DEF CauseInv, Typed2, Covered
  <1>5. /\ unproven' \in [Components -> Nat]
        /\ \A d \in Components : unproven'[d] = unproven[d] + (IF d = at THEN 1 ELSE 0)
    BY <1>1, <1>4
  <1>6. Counted' /\ Fresh' /\ Made' /\ Timely' /\ Shown' /\ Ended'
    <2>1. /\ \A d \in Components : unproven'[d] <= unproven[d] + (IF d = at THEN 1 ELSE 0)
          /\ pc' \notin {"restart", "stopAll", "halt"}
      BY <1>2, <1>4, <1>5
    <2> QED  BY <1>1, <1>2, <1>3, <1>5, <2>1, BeginCause
  <1>7. Typed2'
    <2>1. faults' \in 0 .. MaxFaults
      BY <1>b DEF Begun
    <2> QED  BY <1>1, <1>5, <2>1, BeginTypes, Zenon DEF CauseInv, Typed2, process
  <1>8. Covered'
    <2> SUFFICES ASSUME NEW d \in Components
                 PROVE  /\ beatAt'[d] >= HealthyGrace => unproven'[d] = 0
                        /\ unproven'[d] <= failures'[d]
      BY <1>2 DEF Covered
    <2>1. CASE d = at
      <3>1. beatAt'[at] = 0 /\ unproven'[at] = unproven[at] + 1 /\ failures' = failures
        BY <1>1, <1>b, <1>5 DEF Begun
      <3>2. unproven[at] \in Nat /\ failures[at] \in Nat
        BY <1>1, <1>4
      <3> QED  BY <1>4, <2>1, <3>1, <3>2
    <2>2. CASE d # at
      <3>1. beatAt'[d] = beatAt[d] /\ unproven'[d] = unproven[d] /\ failures' = failures
        BY <1>1, <1>b, <1>4, <1>5, <2>2 DEF Begun
      <3> QED  BY <3>1 DEF CauseInv, Covered
    <2> QED  BY <2>1, <2>2
  <1>9. Passed'
    <2>1. failures'[at] # 0
      BY <1>1, <1>4
    <2>2. \A d \in Components \ {at} :
             /\ Failed(d)' <=> Failed(d)
             /\ Grace(d)' = Grace(d)
             /\ silent'[d] = silent[d]
      BY <1>1, <1>b DEF Failed, Grace, Begun
    <2> QED  BY <1>1, <1>2, <2>1, <2>2 DEF CauseInv, Passed
  <1>10. RestartedForCause'
    BY <1>1, <1>2, <1>b DEF CauseInv, RestartedForCause, Begun
  <1> QED  BY <1>6, <1>7, <1>8, <1>9, <1>10 DEF CauseInv

LEMMA RestartTimeoutCause == ASSUME Inv, Inv', CauseInv, RestartTimeout PROVE CauseInv'
  <1>1. /\ pc = "restart" /\ at \in Components /\ Escalate /\ Advance
        /\ comp' = [comp EXCEPT ![at] = FALSE] /\ latched' = [latched EXCEPT ![at] = TRUE]
        /\ UNCHANGED <<gen, failures, reportedFailed, wake, part, watched, snap, snapAge,
                       life, hung, state, stopping, slot, process, ghosts>>
    BY DEF RestartTimeout, Abandon, Inv, Sweeping
  <1>2. pc' \in {"sweep", "publish"} /\ ~Ending /\ ~Ending'
    BY <1>1, AdvanceSwept
  <1>3. Typed2
    BY DEF CauseInv
  <1>4. /\ silent' \in [Components -> 0 .. SilenceCap]
        /\ beatAt' \in [Components -> 0 .. HealthyGrace]
        /\ sweepAge' \in 0 .. MaxStall /\ tick' \in BOOLEAN
        /\ cause' \in {"none", "shutdown", "fatal"} /\ cause' # "none"
        /\ \A c \in Components : beatAt'[c] >= HealthyGrace => beatAt[c] >= HealthyGrace
        /\ cause = "none" => \A c \in Components : silent'[c] = 0
    BY <1>1, <1>3, EscalateAges
  <1>5. /\ ~comp'[at] /\ \A d \in Components \ {at} : comp'[d] = comp[d] /\ latched'[d] = latched[d]
    BY <1>1 DEF Inv, Typed
  <1>6. Typed2'
    BY <1>1, <1>3, <1>4, Zenon DEF Typed2, process, ghosts
  <1>7. Counted'
    <2>1. Cause(at)
      BY <1>1 DEF CauseInv, RestartedForCause, Cause
    <2>2. \A d \in Components : Cause(d)' => Cause(d)
      BY <1>1, <1>5, <2>1 DEF Cause, ghosts
    <2> QED  BY <1>1, <1>2, <2>2 DEF CauseInv, Counted, ghosts
  <1>8. Fresh' /\ Passed' /\ Shown' /\ Ended'
    BY <1>1, <1>4 DEF CauseInv, Fresh, Passed, Shown, Ended
  <1>9. Made'
    BY <1>1, <1>2, <1>5 DEF CauseInv, Made, ghosts
  <1>10. Timely'
    <2>1. CASE cause = "none"
      <3>1. \A d \in Components : Grace(d)' \in Nat
        BY DEF Grace
      <3> QED  BY <1>4, <2>1, <3>1 DEF Timely
    <2>2. CASE cause # "none"
      <3>1. UNCHANGED <<silent, beatAt>>
        BY <1>1, <2>2 DEF Escalate
      <3> QED  BY <1>1, <1>5, <3>1 DEF CauseInv, Timely, Grace, Live
    <2> QED  BY <2>1, <2>2
  <1>11. Covered'
    BY <1>1, <1>2, <1>4 DEF CauseInv, Covered, ghosts
  <1>12. RestartedForCause'
    BY <1>1, <1>2, <1>5 DEF CauseInv, RestartedForCause, ghosts
  <1> QED  BY <1>6, <1>7, <1>8, <1>9, <1>10, <1>11, <1>12 DEF CauseInv

LEMMA PublishCause == ASSUME Inv, Inv', CauseInv, Publish PROVE CauseInv'
  <1>1. /\ pc = "publish" /\ pc' = "idle" /\ watched' = (part /\ cause = "none")
        /\ snap' = Status(watched') /\ snapAge' = Capped(sweepAge, AgeCap)
        /\ UNCHANGED <<gen, comp, failures, latched, reportedFailed, at, wake, part, insts,
                       process, ghosts>>
    BY DEF Publish
  <1>2. Typed2
    BY DEF CauseInv
  <1>3. /\ silent' \in [Components -> 0 .. SilenceCap]
        /\ beatAt' \in [Components -> 0 .. HealthyGrace]
        /\ sweepAge' \in 0 .. MaxStall /\ tick' \in BOOLEAN
        /\ cause' \in {"none", "shutdown", "fatal"}
        /\ \A c \in Components : beatAt'[c] >= HealthyGrace => beatAt[c] >= HealthyGrace
        /\ \/ part /\ UNCHANGED <<silent, beatAt, cause>>
           \/ cause' # "none" /\ \A c \in Components : silent'[c] = 0
           \/ cause' # "none" /\ UNCHANGED <<silent, beatAt>>
    <2>1. CASE part
      <3>1. sweepAge' = 0 /\ UNCHANGED <<cause, silent, beatAt, tick>>
        BY <2>1 DEF Publish
      <3>2. sweepAge' \in 0 .. MaxStall
        BY <3>1
      <3> QED  BY <1>2, <2>1, <3>1, <3>2, Zenon DEF Typed2
    <2>2. CASE ~part
      <3>1. Escalate
        BY <2>2 DEF Publish
      <3>2. cause # "none" => UNCHANGED <<silent, beatAt>>
        BY <3>1 DEF Escalate
      <3> QED  BY <1>2, <3>1, <3>2, EscalateAges
    <2> QED  BY <2>1, <2>2
  <1>4. Typed2'
    <2>1. snapAge' \in 0 .. AgeCap
      BY <1>1, <1>2, Caps, CappedRange DEF Typed2
    <2>2. snap' \in {"ok", "degraded", "failed"} /\ watched' \in BOOLEAN
      BY <1>1, StatusRange, Zenon
    <2> QED  BY <1>1, <1>2, <1>3, <2>1, <2>2, Zenon DEF Typed2, insts, process, ghosts
  <1>5. Counted' /\ Fresh' /\ Made' /\ Passed' /\ RestartedForCause' /\ Ended'
    BY <1>1 DEF CauseInv, Counted, Fresh, Made, Passed, RestartedForCause, Ended, Cause, Ending,
                Swept, insts, ghosts
  <1>6. Timely'
    <2>1. \A d \in Components : Grace(d)' \in Nat
      BY DEF Grace
    <2> QED  BY <1>1, <1>3, <2>1 DEF CauseInv, Timely, Grace, Live, insts
  <1>7. Covered'
    BY <1>1, <1>3 DEF CauseInv, Covered, ghosts
  <1>8. Shown'
    <2> SUFFICES ASSUME cause' = "none", snap' = "ok", snapAge' <= StaleAge, NEW c \in Components
                 PROVE  silent'[c] <= Grace(c)' + snapAge'
      BY DEF Shown
    <2>1. UNCHANGED <<silent, beatAt, cause, state>>
      BY <1>1, <1>3 DEF insts
    <2>2. ~Failed(c) /\ ~(failures[c] > 0)
      BY <1>1 DEF Status
    <2>3. failures[c] \in Nat /\ sweepAge \in Nat
      BY <1>2 DEF Typed2
    <2>4. silent[c] <= Grace(c) + sweepAge
      BY <1>1, <2>1, <2>2, <2>3 DEF CauseInv, Passed, Swept
    <2>5. snapAge' = sweepAge
      BY <1>1, <2>3, Caps DEF Capped
    <2> QED  BY <2>1, <2>4, <2>5 DEF Grace
  <1> QED  BY <1>4, <1>5, <1>6, <1>7, <1>8 DEF CauseInv

LEMMA StopAllCause == ASSUME Inv, Inv', CauseInv, StopAll PROVE CauseInv'
  <1>1. /\ pc' = "stopAll" /\ pc \in {"idle", "stopAll"} /\ cause # "none"
        /\ stopping' = IF at' > 0 /\ comp[at'] THEN [stopping EXCEPT ![at'][gen[at']] = TRUE]
                                               ELSE stopping
        /\ UNCHANGED <<entries, sweepAge, wake, tick, cause, part, watched, snap, snapAge,
                       life, hung, state, abandoned, slot, process, ghosts>>
    BY DEF StopAll, CauseInv, Ended, Ending
  <1>2. /\ stopping' \in [Components -> [Gens -> BOOLEAN]]
        /\ \A d \in Components, g \in Gens :
              /\ stopping[d][g] => stopping'[d][g]
              /\ stopping'[d][g] => stopping[d][g] \/ g = gen[d]
    <2>1. stopping \in [Components -> [Gens -> BOOLEAN]] /\ at' \in 0 .. N
      BY <1>1 DEF CauseInv, Typed2, Inv, Stopping
    <2>2. CASE at' > 0 /\ comp[at']
      <3>1. at' \in Components
        BY <2>1, <2>2
      <3>2. gen[at'] \in Gens \cup {0} /\ gen[at'] > 0
        BY <2>2, <3>1, GenRange DEF CauseInv, Made
      <3>3. gen[at'] \in Gens /\ stopping' = [stopping EXCEPT ![at'][gen[at']] = TRUE]
        BY <1>1, <2>2, <3>2
      <3>4. /\ stopping' \in [Components -> [Gens -> BOOLEAN]]
            /\ stopping'[at'][gen[at']]
            /\ \A d \in Components, g \in Gens :
                  ~(d = at' /\ g = gen[at']) => stopping'[d][g] = stopping[d][g]
        BY <2>1, <3>1, <3>3
      <3> QED  BY <3>4
    <2>3. CASE ~(at' > 0 /\ comp[at'])
      BY <1>1, <2>1, <2>3
    <2> QED  BY <2>2, <2>3
  <1>3. Typed2'
    BY <1>1, <1>2, Zenon DEF CauseInv, Typed2, entries, process, ghosts
  <1>4. Counted' /\ Made' /\ Covered' /\ Passed' /\ Shown' /\ RestartedForCause' /\ Ended'
    BY <1>1 DEF CauseInv, Counted, Made, Covered, Passed, Shown, RestartedForCause, Ended, Cause,
                Ending, entries, ghosts
  <1>5. Fresh'
    <2>1. \A d \in Components : gen[d] \in Nat
      BY DEF Inv, Typed
    <2> QED  BY <1>1, <1>2, <2>1 DEF CauseInv, Fresh, entries
  <1>6. Timely'
    <2> SUFFICES ASSUME NEW d \in Components, comp[d], Live(d, gen[d]), ~hung[d][gen[d]],
                        ~stopping'[d][gen[d]]
                 PROVE  silent[d] <= Grace(d)
      BY <1>1 DEF Timely, Grace, Live, entries
    <2>1. gen[d] \in Gens
      BY GenRange DEF CauseInv, Made
    <2> QED  BY <1>2, <2>1 DEF CauseInv, Timely
  <1> QED  BY <1>3, <1>4, <1>5, <1>6 DEF CauseInv

LEMMA StopAllTimeoutCause == ASSUME Inv, Inv', CauseInv, StopAllTimeout PROVE CauseInv'
  <1>1. /\ pc = "stopAll" /\ comp' = [comp EXCEPT ![at] = FALSE]
        /\ UNCHANGED <<gen, failures, latched, reportedFailed, silent, beatAt, loop, life,
                       hung, state, stopping, slot, process, ghosts>>
    BY DEF StopAllTimeout, Abandon
  <1>2. \A d \in Components : comp'[d] => comp[d]
    BY <1>1 DEF Inv, Typed
  <1>3. Typed2'
    BY <1>1, Zenon DEF CauseInv, Typed2, loop, process, ghosts
  <1>4. Counted' /\ Fresh' /\ Made' /\ Timely' /\ Ended' /\ RestartedForCause'
    BY <1>1, <1>2 DEF CauseInv, Counted, Fresh, Made, Timely, Ended, RestartedForCause, Ending,
                      Grace, Live, loop, ghosts
  <1>5. Covered' /\ Passed' /\ Shown'
    BY <1>1 DEF CauseInv, Covered, Passed, Shown, Swept, Grace, loop, ghosts
  <1> QED  BY <1>3, <1>4, <1>5 DEF CauseInv

LEMMA HaltCause == ASSUME Inv, Inv', CauseInv, Halt PROVE CauseInv'
  <1>1. /\ pc = "stopAll" /\ pc' = "halt" /\ cause # "none"
        /\ snap' = Status(watched) /\ snapAge' = 0
        /\ UNCHANGED <<entries, at, sweepAge, wake, tick, cause, part, watched, insts,
                       process, ghosts>>
    BY DEF Halt, CauseInv, Ended, Ending
  <1>2. Typed2'
    <2>1. snapAge' \in 0 .. AgeCap
      BY <1>1, Caps
    <2>2. snap' \in {"ok", "degraded", "failed"}
      BY <1>1, StatusRange
    <2> QED  BY <1>1, <2>1, <2>2, Zenon DEF CauseInv, Typed2, entries, insts, process, ghosts
  <1>3. Counted' /\ Fresh' /\ Made' /\ Covered' /\ Ended' /\ RestartedForCause'
    BY <1>1 DEF CauseInv, Counted, Fresh, Made, Covered, Ended, RestartedForCause, Cause, Ending,
                entries, insts, ghosts
  <1>4. Timely' /\ Passed' /\ Shown'
    BY <1>1 DEF CauseInv, Timely, Passed, Shown, Grace, Live, entries, insts
  <1> QED  BY <1>2, <1>3, <1>4 DEF CauseInv

LEMMA BeatCause == ASSUME Inv, Inv', CauseInv, NEW c \in Components, Beat(c) PROVE CauseInv'
  <1>1. /\ silent' = [silent EXCEPT ![c] = 0]
        /\ beatAt' = [beatAt EXCEPT ![c] = Capped(@ + silent[c], HealthyGrace)]
        /\ unproven' = IF beatAt'[c] >= HealthyGrace THEN [unproven EXCEPT ![c] = 0] ELSE unproven
        /\ UNCHANGED <<gen, comp, failures, latched, reportedFailed, pc, at, sweepAge, tick,
                       cause, part, watched, snap, snapAge, life, hung, stopping, abandoned,
                       slot, process, ownFailure>>
    BY DEF Beat
  <1>2. Typed2
    BY DEF CauseInv
  <1>t. /\ silent \in [Components -> 0 .. SilenceCap] /\ beatAt \in [Components -> 0 .. HealthyGrace]
        /\ unproven \in [Components -> Nat] /\ state \in [Components -> States]
        /\ faults \in 0 .. MaxFaults /\ SilenceCap \in Nat
        /\ \A d \in Components : gen[d] \in Nat /\ failures[d] \in Nat
    <2>1. SilenceCap \in Nat
      BY Caps
    <2>2. \A d \in Components : gen[d] \in Nat
      BY DEF Inv, Typed
    <2>3. failures \in [Components -> 0 .. RestartBudget]
      BY <1>2 DEF Typed2
    <2>4. \A d \in Components : failures[d] \in Nat
      BY <2>3
    <2> QED  BY <1>2, <2>1, <2>2, <2>4 DEF Typed2
  <1>3. /\ silent' \in [Components -> 0 .. SilenceCap] /\ silent'[c] = 0
        /\ \A d \in Components \ {c} : silent'[d] = silent[d]
    BY <1>1, <1>t
  <1>4. /\ beatAt' \in [Components -> 0 .. HealthyGrace]
        /\ \A d \in Components \ {c} : beatAt'[d] = beatAt[d]
    <2>1. Capped(beatAt[c] + silent[c], HealthyGrace) \in 0 .. HealthyGrace
      <3>1. beatAt[c] + silent[c] \in Nat /\ HealthyGrace \in Nat
        BY <1>t
      <3> QED  BY <3>1, CappedRange
    <2> QED  BY <1>1, <1>t, <2>1
  <1>5. /\ unproven' \in [Components -> Nat]
        /\ \A d \in Components \ {c} : unproven'[d] = unproven[d]
        /\ unproven'[c] = unproven[c] \/ unproven'[c] = 0
        /\ beatAt'[c] >= HealthyGrace => unproven'[c] = 0
    BY <1>1, <1>t
  <1>6. /\ state' \in [Components -> States] /\ \A d \in Components \ {c} : state'[d] = state[d]
        /\ wake' \in 0 .. WakeBuffer
        /\ faults' \in 0 .. MaxFaults /\ faults <= faults'
    <2>1. CASE UNCHANGED <<state, wake, faults>>
      BY <1>2, <1>t, <2>1 DEF Typed2
    <2>2. CASE /\ UNCHANGED faults
               /\ state' = [state EXCEPT ![c] = "healthy"] /\ wake' = Woken
      BY <1>2, <1>t, <2>2, WokenRange DEF States
    <2>3. CASE Fault /\ state' = [state EXCEPT ![c] = "recovering"] /\ wake' = Woken
      <3>1. faults' \in 0 .. MaxFaults /\ faults' = faults + 1 /\ wake' \in 0 .. WakeBuffer
        BY <1>2, <2>3, WokenRange, FaultRange
      <3> QED  BY <1>t, <2>3, <3>1 DEF States
    <2> QED  BY <2>1, <2>2, <2>3 DEF Beat
  <1>7. \A d \in Components : Grace(d)' \in Nat /\ (d # c => Grace(d)' = Grace(d))
    BY <1>4, <1>6 DEF Grace
  <1>8. Typed2'
    BY <1>1, <1>2, <1>3, <1>4, <1>5, <1>6, Zenon DEF Typed2, process
  <1>9. Counted'
    <2> SUFFICES ASSUME NEW d \in Components
                 PROVE  /\ gen[d] <= faults' + 1
                        /\ Cause(d) /\ ~Ending => gen[d] <= faults'
                        /\ unproven'[d] <= gen[d]
      BY <1>1 DEF Counted, Cause, Ending
    <2>1. gen[d] <= faults + 1 /\ (Cause(d) /\ ~Ending => gen[d] <= faults) /\ unproven[d] <= gen[d]
      BY DEF CauseInv, Counted
    <2>2. unproven'[d] = unproven[d] \/ unproven'[d] = 0
      BY <1>5
    <2>3. gen[d] \in Nat /\ faults \in Nat /\ faults' \in Nat /\ unproven[d] \in Nat
      BY <1>t, <1>6
    <2> QED  BY <1>6, <2>1, <2>2, <2>3
  <1>10. Fresh' /\ Made' /\ Ended' /\ RestartedForCause'
    BY <1>1 DEF CauseInv, Fresh, Made, Ended, RestartedForCause, Ending
  <1>11. Timely'
    BY <1>1, <1>3, <1>7 DEF CauseInv, Timely, Live
  <1>12. Covered'
    <2> SUFFICES ASSUME NEW d \in Components
                 PROVE  /\ beatAt'[d] >= HealthyGrace => unproven'[d] = 0
                        /\ unproven'[d] <= failures[d]
                        /\ pc = "restart" /\ at = d => unproven'[d] < failures[d]
      BY <1>1 DEF Covered
    <2>1. /\ beatAt[d] >= HealthyGrace => unproven[d] = 0
          /\ unproven[d] <= failures[d] /\ (pc = "restart" /\ at = d => unproven[d] < failures[d])
      BY DEF CauseInv, Covered
    <2>2. unproven'[d] = unproven[d] \/ unproven'[d] = 0
      BY <1>5
    <2>3. unproven[d] \in Nat /\ failures[d] \in Nat
      BY <1>t
    <2>4. beatAt'[d] >= HealthyGrace => unproven'[d] = 0
      BY <1>4, <1>5, <2>1
    <2> QED  BY <2>1, <2>2, <2>3, <2>4
  <1>13. Passed'
    <2>1. \A d \in Components : (Failed(d)' <=> Failed(d)) /\ (Swept(d)' <=> Swept(d))
      BY <1>1 DEF Failed, Swept
    <2>2. sweepAge \in Nat
      BY <1>2 DEF Typed2
    <2> QED  BY <1>1, <1>3, <1>7, <2>1, <2>2 DEF CauseInv, Passed
  <1>14. Shown'
    <2>1. snapAge \in Nat
      BY <1>2, Caps DEF Typed2
    <2> QED  BY <1>1, <1>3, <1>7, <2>1 DEF CauseInv, Shown
  <1> QED  BY <1>8, <1>9, <1>10, <1>11, <1>12, <1>13, <1>14 DEF CauseInv

\* One more fault pays for one more cause.
LEMMA CountedFault ==
    ASSUME Inv, CauseInv, NEW c \in Components, faults' = faults + 1,
           \A d \in Components \ {c} : Cause(d)' <=> Cause(d),
           UNCHANGED <<gen, pc, unproven>>
    PROVE  Counted'
  <1> SUFFICES ASSUME NEW d \in Components
               PROVE  /\ gen[d] <= faults' + 1
                      /\ Cause(d)' /\ ~Ending => gen[d] <= faults'
                      /\ unproven[d] <= gen[d]
    BY DEF Counted, Ending
  <1>1. gen[d] <= faults + 1 /\ (Cause(d) /\ ~Ending => gen[d] <= faults) /\ unproven[d] <= gen[d]
    BY DEF CauseInv, Counted
  <1>2. gen[d] \in Nat /\ faults \in Nat
    BY DEF Inv, Typed, CauseInv, Typed2
  <1> QED  BY <1>1, <1>2

LEMMA InstanceStartCause ==
    ASSUME Inv, Inv', CauseInv, NEW c \in Components, NEW g \in Gens, InstanceStart(c, g)
    PROVE  CauseInv'
  <1>1. /\ life[c][g] = "starting"
        /\ UNCHANGED <<gen, comp, failures, latched, silent, beatAt, pc, at, sweepAge, tick,
                       cause, part, watched, snap, snapAge, hung, state, stopping, abandoned,
                       process, unproven>>
    BY DEF InstanceStart
  <1>2. g = gen[c]
    BY <1>1 DEF Inv, NewestLives, Live
  <1>3. Typed2
    BY DEF CauseInv
  <1>t. life \in [Components -> [Gens -> Lives]] /\ "up" \in Lives /\ "broken" \in Lives
    BY DEF Inv, Typed, Lives
  <1>p. /\ Covered' /\ Shown' /\ Ended'
        /\ \A d \in Components : Grace(d)' = Grace(d) /\ (Swept(d)' <=> Swept(d))
    BY <1>1 DEF CauseInv, Covered, Shown, Ended, Grace, Ending, Swept
  <1>4. CASE /\ life' = [life EXCEPT ![c][g] = "up"]
             /\ UNCHANGED <<reportedFailed, ownFailure, wake, faults>>
    <2>1. \A d \in Components, h \in Gens :
             life'[d][h] = IF d = c /\ h = g THEN "up" ELSE life[d][h]
      BY <1>4, <1>t
    <2>2. Typed2'
      BY <1>1, <1>3, <1>4, Zenon DEF Typed2, process
    <2>3. Counted' /\ Passed' /\ RestartedForCause'
      BY <1>1, <1>4 DEF CauseInv, Counted, Passed, RestartedForCause, Cause, Ending, Swept, Failed, Grace
    <2>4. Fresh'
      <3>1. \A d \in Components : gen[d] \in Nat
        BY DEF Inv, Typed
      <3>2. \A d \in Components, h \in Gens : h > gen[d] => ~(d = c /\ h = g)
        BY <1>2, <3>1
      <3> QED  BY <1>1, <2>1, <3>2 DEF CauseInv, Fresh
    <2>5. Made' /\ Timely'
      <3>1. \A d \in Components : comp[d] => gen[d] \in Gens
        BY GenRange DEF CauseInv, Made
      <3>2. \A d \in Components : comp[d] => \/ life'[d][gen[d]] = life[d][gen[d]]
                                             \/ d = c /\ life'[d][gen[d]] = "up"
        BY <2>1, <3>1
      <3>3. life[c][gen[c]] = "starting"
        BY <1>1, <1>2
      <3>4. Made'
        BY <1>1, <1>4, <3>2, <3>3 DEF CauseInv, Made, Ending
      <3>5. Timely'
        BY <1>1, <1>p, <3>2, <3>3 DEF CauseInv, Timely, Live
      <3> QED  BY <3>4, <3>5
    <2> QED  BY <1>p, <2>2, <2>3, <2>4, <2>5 DEF CauseInv
  <1>5. CASE /\ Fault /\ life' = [life EXCEPT ![c][g] = "broken"] /\ Report(c, g) /\ Own(c, g)
    <2>1. \A d \in Components, h \in Gens :
             life'[d][h] = IF d = c /\ h = g THEN "broken" ELSE life[d][h]
      BY <1>5, <1>t
    <2>2. /\ reportedFailed' \in [Components -> BOOLEAN] /\ ownFailure' \in [Components -> BOOLEAN]
          /\ ownFailure'[c]
          /\ \A d \in Components \ {c} :
                reportedFailed'[d] = reportedFailed[d] /\ ownFailure'[d] = ownFailure[d]
          /\ \A d \in Components : reportedFailed[d] => reportedFailed'[d]
      BY <1>2, <1>3, <1>5 DEF Typed2, Report, Own
    <2>3. wake' \in 0 .. WakeBuffer /\ faults' \in 0 .. MaxFaults /\ faults' = faults + 1
      BY <1>3, <1>5, WokenRange, FaultRange DEF Report
    <2>4. Typed2'
      BY <1>1, <1>3, <2>2, <2>3, Zenon DEF Typed2, process
    <2>5. Counted'
      <3>1. \A d \in Components \ {c} : Cause(d)' <=> Cause(d)
        BY <1>1, <2>2 DEF Cause
      <3> QED  BY <1>1, <2>3, <3>1, CountedFault
    <2>6. Fresh'
      <3>1. \A d \in Components : gen[d] \in Nat
        BY DEF Inv, Typed
      <3>2. \A d \in Components, h \in Gens : h > gen[d] => ~(d = c /\ h = g)
        BY <1>2, <3>1
      <3> QED  BY <1>1, <2>1, <3>2 DEF CauseInv, Fresh
    <2>7. Made' /\ Timely'
      <3>1. \A d \in Components : comp[d] => gen[d] \in Gens
        BY GenRange DEF CauseInv, Made
      <3>2. \A d \in Components : comp[d] => \/ d # c /\ life'[d][gen[d]] = life[d][gen[d]]
                                             \/ d = c /\ life'[d][gen[d]] = "broken"
        BY <1>2, <2>1, <3>1
      <3>3. life[c][gen[c]] = "starting"
        BY <1>1, <1>2
      <3>4. Made'
        BY <1>1, <2>2, <3>2, <3>3 DEF CauseInv, Made, Ending
      <3>5. Timely'
        BY <1>1, <1>p, <3>2, <3>3 DEF CauseInv, Timely, Live
      <3> QED  BY <3>4, <3>5
    <2>8. Passed' /\ RestartedForCause'
      <3>1. \A d \in Components : /\ Failed(d) => Failed(d)'
                                  /\ ownFailure[d] => ownFailure'[d]
        BY <1>1, <2>2 DEF Failed
      <3> QED  BY <1>1, <1>p, <3>1 DEF CauseInv, Passed, RestartedForCause
    <2> QED  BY <1>p, <2>4, <2>5, <2>6, <2>7, <2>8 DEF CauseInv
  <1> QED  BY <1>4, <1>5 DEF InstanceStart

LEMMA ReportFailureCause ==
    ASSUME Inv, Inv', CauseInv, NEW c \in Components, NEW g \in Gens, ReportFailure(c, g)
    PROVE  CauseInv'
  <1>1. /\ Fault /\ Report(c, g) /\ Own(c, g)
        /\ UNCHANGED <<gen, comp, failures, latched, silent, beatAt, pc, at, sweepAge, tick,
                       cause, part, watched, snap, snapAge, insts, process, unproven>>
    BY DEF ReportFailure
  <1>2. Typed2
    BY DEF CauseInv
  <1>3. /\ reportedFailed' \in [Components -> BOOLEAN] /\ ownFailure' \in [Components -> BOOLEAN]
        /\ reportedFailed'[c] = (reportedFailed[c] \/ g = gen[c])
        /\ ownFailure'[c] = (ownFailure[c] \/ g = gen[c])
        /\ \A d \in Components \ {c} :
              reportedFailed'[d] = reportedFailed[d] /\ ownFailure'[d] = ownFailure[d]
    BY <1>1, <1>2 DEF Typed2, Report, Own
  <1>4. wake' \in 0 .. WakeBuffer /\ faults' \in 0 .. MaxFaults /\ faults' = faults + 1
    BY <1>1, <1>2, WokenRange, FaultRange DEF Report
  <1>5. Typed2'
    BY <1>1, <1>2, <1>3, <1>4, Zenon DEF Typed2, insts, process
  <1>6. Counted'
    <2>1. \A d \in Components \ {c} : Cause(d)' <=> Cause(d)
      BY <1>1, <1>3 DEF Cause, insts
    <2> QED  BY <1>1, <1>4, <2>1, CountedFault
  <1>7. Fresh' /\ Timely' /\ Covered' /\ Shown' /\ Ended'
    BY <1>1 DEF CauseInv, Fresh, Timely, Covered, Shown, Ended, Grace, Live, Ending, insts
  <1>8. Made' /\ RestartedForCause'
    BY <1>1, <1>3 DEF CauseInv, Made, RestartedForCause, Ending, insts
  <1>9. Passed'
    <2>1. \A d \in Components : /\ Failed(d) => Failed(d)'
                                /\ Grace(d)' = Grace(d)
                                /\ Swept(d)' <=> Swept(d)
      BY <1>1, <1>3 DEF Failed, Grace, Swept, insts
    <2> QED  BY <1>1, <2>1 DEF CauseInv, Passed
  <1> QED  BY <1>5, <1>6, <1>7, <1>8, <1>9 DEF CauseInv

LEMMA HangCause ==
    ASSUME Inv, Inv', CauseInv, NEW c \in Components, NEW g \in Gens, Hang(c, g)
    PROVE  CauseInv'
  <1>1. /\ g = gen[c] /\ Fault /\ hung' = [hung EXCEPT ![c][g] = TRUE]
        /\ UNCHANGED <<entries, loop, life, state, stopping, abandoned, slot, process,
                       ownFailure, unproven>>
    BY DEF Hang, Inv, NewestLives
  <1>2. Typed2
    BY DEF CauseInv
  <1>3. hung \in [Components -> [Gens -> BOOLEAN]]
    BY <1>2 DEF Typed2
  <1>4. /\ hung' \in [Components -> [Gens -> BOOLEAN]]
        /\ \A d \in Components, h \in Gens :
              ~(d = c /\ h = g) => hung'[d][h] = hung[d][h]
        /\ hung'[c][g]
    BY <1>1, <1>3
  <1>5. faults' \in 0 .. MaxFaults /\ faults' = faults + 1
    BY <1>1, <1>2, FaultRange
  <1>6. Typed2'
    BY <1>1, <1>2, <1>4, <1>5, Zenon DEF Typed2, entries, loop, process
  <1>7. \A d \in Components \ {c} : hung'[d] = hung[d]
    BY <1>1, <1>3
  <1>8. Counted'
    <2>1. \A d \in Components \ {c} : Cause(d)' <=> Cause(d)
      BY <1>1, <1>7 DEF Cause, entries
    <2> QED  BY <1>1, <1>5, <2>1, CountedFault DEF entries, loop
  <1>9. Fresh'
    <2>1. \A d \in Components : gen[d] \in Nat
      BY DEF Inv, Typed
    <2>2. \A d \in Components, h \in Gens : h > gen[d] => ~(d = c /\ h = g)
      BY <1>1, <2>1
    <2> QED  BY <1>1, <1>4, <2>2 DEF CauseInv, Fresh, entries
  <1>10. hung'[c][gen[c]]
    BY <1>1, <1>4
  <1>11. Timely' /\ RestartedForCause'
    BY <1>1, <1>7, <1>10 DEF CauseInv, Timely, RestartedForCause, Grace, Live, entries, loop
  <1>12. Made' /\ Covered' /\ Passed' /\ Shown' /\ Ended'
    BY <1>1 DEF CauseInv, Made, Covered, Passed, Shown, Ended, Ending, Swept, Failed, Grace,
                entries, loop
  <1> QED  BY <1>6, <1>8, <1>9, <1>11, <1>12 DEF CauseInv

LEMMA WithdrawCause ==
    ASSUME Inv, Inv', CauseInv, NEW c \in Components, NEW g \in Gens, Withdraw(c, g)
    PROVE  CauseInv'
  <1>1. /\ life[c][g] = "up" /\ life' = [life EXCEPT ![c][g] = "withdrawn"]
        /\ UNCHANGED <<entries, loop, hung, state, stopping, abandoned, process, ghosts>>
    BY DEF Withdraw
  <1>2. g = gen[c]
    BY <1>1 DEF Inv, NewestLives, Live
  <1>3. life \in [Components -> [Gens -> Lives]] /\ \A d \in Components : gen[d] \in Nat
    BY DEF Inv, Typed
  <1>4. /\ life'[c][g] = "withdrawn"
        /\ \A d \in Components, h \in Gens : ~(d = c /\ h = g) => life'[d][h] = life[d][h]
    BY <1>1, <1>3
  <1>5. Typed2'
    BY <1>1, Zenon DEF CauseInv, Typed2, entries, loop, process, ghosts
  <1>6. Counted' /\ Covered' /\ Passed' /\ Shown' /\ Ended' /\ RestartedForCause'
    BY <1>1 DEF CauseInv, Counted, Covered, Passed, Shown, Ended, RestartedForCause, Cause, Ending,
                Swept, Failed, Grace, entries, loop, ghosts
  <1>7. Fresh'
    <2>1. \A d \in Components, h \in Gens : h > gen[d] => ~(d = c /\ h = g)
      BY <1>2, <1>3
    <2> QED  BY <1>1, <1>4, <2>1 DEF CauseInv, Fresh, entries
  <1>8. \A d \in Components \ {c} : comp[d] => life'[d][gen[d]] = life[d][gen[d]]
    <2>1. \A d \in Components : comp[d] => gen[d] \in Gens
      BY GenRange DEF CauseInv, Made
    <2> QED  BY <1>4, <2>1
  <1>9. Made'
    BY <1>1, <1>2, <1>4, <1>8 DEF CauseInv, Made, Ending, entries, loop, ghosts
  <1>10. Timely'
    <2>1. \A d \in Components : Grace(d)' = Grace(d)
      BY <1>1 DEF Grace, entries
    <2>2. UNCHANGED <<comp, gen, silent, hung, stopping>>
      BY <1>1 DEF entries
    <2> QED  BY <1>1, <1>2, <1>4, <1>8, <2>1, <2>2 DEF CauseInv, Timely, Live
  <1> QED  BY <1>5, <1>6, <1>7, <1>9, <1>10 DEF CauseInv

LEMMA InstanceStopCause ==
    ASSUME Inv, Inv', CauseInv, NEW c \in Components, NEW g \in Gens, InstanceStop(c, g)
    PROVE  CauseInv'
  <1>1. /\ stopping[c][g] /\ life' = [life EXCEPT ![c][g] = "down"]
        /\ stopping' = [stopping EXCEPT ![c][g] = FALSE]
        /\ UNCHANGED <<entries, loop, hung, state, abandoned, slot, process, ghosts>>
    BY DEF InstanceStop
  <1>2. life \in [Components -> [Gens -> Lives]] /\ \A d \in Components : gen[d] \in Nat
    BY DEF Inv, Typed
  <1>t. stopping \in [Components -> [Gens -> BOOLEAN]]
    BY DEF CauseInv, Typed2
  <1>3. /\ life'[c][g] = "down"
        /\ \A d \in Components, h \in Gens : ~(d = c /\ h = g) => life'[d][h] = life[d][h]
    BY <1>1, <1>2
  <1>4. /\ stopping' \in [Components -> [Gens -> BOOLEAN]] /\ ~stopping'[c][g]
        /\ \A d \in Components, h \in Gens : ~(d = c /\ h = g) => stopping'[d][h] = stopping[d][h]
    BY <1>1, <1>t
  <1>5. Typed2'
    BY <1>1, <1>4, Zenon DEF CauseInv, Typed2, entries, loop, process, ghosts
  <1>6. Counted' /\ Covered' /\ Passed' /\ Shown' /\ Ended' /\ RestartedForCause'
    BY <1>1 DEF CauseInv, Counted, Covered, Passed, Shown, Ended, RestartedForCause, Cause, Ending,
                Swept, Failed, Grace, entries, loop, ghosts
  <1>7. Fresh'
    <2>1. ~(g > gen[c])
      BY <1>1 DEF CauseInv, Fresh
    <2>2. \A d \in Components, h \in Gens : h > gen[d] => ~(d = c /\ h = g)
      BY <2>1
    <2> QED  BY <1>1, <1>3, <1>4, <2>2 DEF CauseInv, Fresh, entries
  <1>8. \A d \in Components : comp[d] =>
           \/ d = c /\ gen[d] = g
           \/ life'[d][gen[d]] = life[d][gen[d]] /\ stopping'[d][gen[d]] = stopping[d][gen[d]]
    <2>1. \A d \in Components : comp[d] => gen[d] \in Gens
      BY GenRange DEF CauseInv, Made
    <2> QED  BY <1>3, <1>4, <2>1
  <1>9. Made'
    BY <1>1, <1>3, <1>8 DEF CauseInv, Made, Ending, entries, loop, ghosts
  <1>10. Timely'
    <2>1. \A d \in Components : Grace(d)' = Grace(d)
      BY <1>1 DEF Grace, entries
    <2>2. UNCHANGED <<comp, gen, silent, hung>>
      BY <1>1 DEF entries
    <2> QED  BY <1>3, <1>8, <2>1, <2>2 DEF CauseInv, Timely, Live
  <1> QED  BY <1>5, <1>6, <1>7, <1>9, <1>10 DEF CauseInv

LEMMA SignalCause == ASSUME Inv, Inv', CauseInv, Signal PROVE CauseInv'
  <1>1. /\ cause' = "shutdown" /\ sweepAge' = 0 /\ tick' = FALSE
        /\ silent' = [c \in Components |-> 0] /\ beatAt' = [c \in Components |-> 0]
        /\ UNCHANGED <<gen, comp, failures, latched, reportedFailed, pc, at, wake, part,
                       watched, snap, snapAge, insts, process, ghosts>>
    BY DEF Signal, Cancel
  <1>2. Typed2'
    <2>1. /\ silent' \in [Components -> 0 .. SilenceCap] /\ beatAt' \in [Components -> 0 .. HealthyGrace]
          /\ sweepAge' \in 0 .. MaxStall
      BY <1>1, Caps
    <2>2. tick' \in BOOLEAN /\ cause' \in {"none", "shutdown", "fatal"}
      BY <1>1
    <2> QED  BY <1>1, <2>1, <2>2, Zenon DEF CauseInv, Typed2, insts, process, ghosts
  <1>3. Counted' /\ Fresh' /\ Made' /\ Passed' /\ Shown' /\ Ended' /\ RestartedForCause'
    BY <1>1 DEF CauseInv, Counted, Fresh, Made, Passed, Shown, Ended, RestartedForCause, Cause,
                Ending, insts, ghosts
  <1>4. Timely'
    <2>1. \A d \in Components : Grace(d)' \in Nat /\ silent'[d] = 0
      BY <1>1 DEF Grace
    <2> QED  BY <2>1 DEF Timely
  <1>5. Covered'
    BY <1>1 DEF CauseInv, Covered, ghosts
  <1> QED  BY <1>2, <1>3, <1>4, <1>5 DEF CauseInv

LEMMA PartFailsCause == ASSUME Inv, Inv', CauseInv, PartFails PROVE CauseInv'
  <1>1. /\ Fault /\ part' = FALSE
        /\ UNCHANGED <<entries, pc, at, sweepAge, wake, tick, cause, watched, snap, snapAge,
                       insts, process, ownFailure, unproven>>
    BY DEF PartFails
  <1>2. Typed2
    BY DEF CauseInv
  <1>3. faults' \in 0 .. MaxFaults /\ faults' = faults + 1
    BY <1>1, <1>2, FaultRange
  <1>4. Typed2'
    BY <1>1, <1>2, <1>3, Zenon DEF Typed2, entries, insts, process
  <1>5. Counted'
    <2>1. \A d \in Components : Cause(d)' <=> Cause(d)
      BY <1>1 DEF Cause, entries, insts
    <2>2. UNCHANGED <<gen, pc, unproven>> /\ 1 \in Components
      BY <1>1 DEF entries
    <2> QED  BY <1>3, <2>1, <2>2, CountedFault
  <1>6. Fresh' /\ Made' /\ Timely' /\ Covered' /\ Ended' /\ RestartedForCause'
    BY <1>1 DEF CauseInv, Fresh, Made, Timely, Covered, Ended, RestartedForCause, Ending, Grace, Live,
                entries, insts
  <1>7. Passed' /\ Shown'
    BY <1>1 DEF CauseInv, Passed, Shown, Swept, Failed, Grace, entries, insts
  <1> QED  BY <1>4, <1>5, <1>6, <1>7 DEF CauseInv

\* What the end of the process changes is not read before.
LEMMA EndCause ==
    ASSUME CauseInv, UNCHANGED <<entries, loop, insts, ghosts>>,
           exit' \in {"no", "clean", "fatal", "timeout"}
    PROVE  CauseInv'
  <1>1. Typed2'
    BY Zenon DEF CauseInv, Typed2, entries, loop, insts, ghosts
  <1>2. Counted' /\ Fresh' /\ Made' /\ Timely' /\ Covered' /\ Ended' /\ RestartedForCause'
    BY DEF CauseInv, Counted, Fresh, Made, Timely, Covered, Ended, RestartedForCause, Cause, Ending,
           Grace, Live, entries, loop, insts, ghosts
  <1>3. Passed' /\ Shown'
    BY DEF CauseInv, Passed, Shown, Swept, Failed, Grace, entries, loop, insts
  <1> QED  BY <1>1, <1>2, <1>3 DEF CauseInv

LEMMA TickCause == ASSUME Inv, Inv', CauseInv, Tick PROVE CauseInv'
  <1>1. /\ \A c \in Components : OnTime(c)
        /\ pc \notin {"start", "idle"} => sweepAge < MaxStall /\ sweepAge' = sweepAge + 1
        /\ pc \in {"start", "idle"} => UNCHANGED sweepAge
        /\ silent' = [c \in Components |-> Capped(silent[c] + 1, SilenceCap)]
        /\ snapAge' = Capped(snapAge + 1, AgeCap)
        /\ tick' = TRUE
        /\ UNCHANGED <<gen, comp, failures, latched, reportedFailed, beatAt, pc, at, wake,
                       cause, part, watched, snap, insts, process, ownFailure, unproven>>
    BY DEF Tick
  <1>2. Typed2
    BY DEF CauseInv
  <1>t. /\ \A c \in Components : silent[c] \in Nat
        /\ sweepAge \in 0 .. MaxStall /\ snapAge \in Nat /\ SilenceCap \in Nat /\ AgeCap \in Nat
        /\ faults \in 0 .. MaxFaults
    BY <1>2, Caps DEF Typed2
  <1>3. faults' \in 0 .. MaxFaults /\ faults <= faults'
    <2>1. CASE UNCHANGED faults
      BY <1>t, <2>1
    <2>2. CASE Fault
      <3>1. faults' \in 0 .. MaxFaults /\ faults' = faults + 1
        BY <1>2, <2>2, FaultRange
      <3> QED  BY <1>t, <3>1
    <2> QED  BY <2>1, <2>2 DEF Tick
  <1>4. /\ silent' \in [Components -> 0 .. SilenceCap]
        /\ \A c \in Components : silent'[c] \in Nat /\ silent'[c] <= silent[c] + 1
    <2>1. \A c \in Components : silent[c] + 1 \in Nat
      BY <1>t
    <2>2. \A c \in Components : /\ Capped(silent[c] + 1, SilenceCap) \in 0 .. SilenceCap
                                /\ Capped(silent[c] + 1, SilenceCap) <= silent[c] + 1
      BY <1>t, <2>1, CappedRange
    <2> QED  BY <1>1, <1>t, <2>2
  <1>5. /\ snapAge' \in 0 .. AgeCap /\ snapAge' \in Nat
        /\ snapAge' <= StaleAge => snapAge' = snapAge + 1
    BY <1>1, <1>t, Caps DEF Capped
  <1>6. sweepAge' \in 0 .. MaxStall
    BY <1>1, <1>t
  <1>7. Typed2'
    <2>1. tick' \in BOOLEAN
      BY <1>1
    <2> QED  BY <1>1, <1>2, <1>3, <1>4, <1>5, <1>6, <2>1, Zenon DEF Typed2, insts, process
  <1>8. \A c \in Components : Grace(c)' = Grace(c) /\ Grace(c) \in Nat
    BY <1>1, GraceRange DEF Grace, insts
  <1>9. Counted'
    <2> SUFFICES ASSUME NEW d \in Components
                 PROVE  /\ gen[d] <= faults' + 1
                        /\ Cause(d) /\ ~Ending => gen[d] <= faults'
                        /\ unproven[d] <= gen[d]
      BY <1>1 DEF Counted, Cause, Ending, insts
    <2>1. gen[d] <= faults + 1 /\ (Cause(d) /\ ~Ending => gen[d] <= faults) /\ unproven[d] <= gen[d]
      BY DEF CauseInv, Counted
    <2>2. gen[d] \in Nat /\ faults \in Nat /\ faults' \in Nat
      BY <1>t, <1>3 DEF Inv, Typed
    <2> QED  BY <1>3, <2>1, <2>2
  <1>10. Fresh' /\ Made' /\ Covered' /\ Ended' /\ RestartedForCause'
    BY <1>1 DEF CauseInv, Fresh, Made, Covered, Ended, RestartedForCause, Ending, insts
  <1>11. Timely'
    <2> SUFFICES ASSUME NEW d \in Components, comp[d], Live(d, gen[d]), ~hung[d][gen[d]],
                        ~stopping[d][gen[d]]
                 PROVE  silent'[d] <= Grace(d)
      BY <1>1, <1>8 DEF Timely, Live, insts
    <2>1. silent[d] < Grace(d)
      BY <1>1 DEF OnTime
    <2> QED  BY <1>t, <1>4, <1>8, <2>1
  <1>12. Passed'
    <2> SUFFICES ASSUME cause = "none", NEW d \in Components, Swept(d), failures[d] = 0, ~Failed(d)
                 PROVE  silent'[d] <= Grace(d) + sweepAge'
      BY <1>1, <1>8 DEF Passed, Swept, Failed, insts
    <2>1. silent[d] <= Grace(d) + sweepAge
      BY DEF CauseInv, Passed
    <2>2. sweepAge' = sweepAge + 1
      BY <1>1 DEF Swept
    <2> QED  BY <1>t, <1>4, <1>8, <2>1, <2>2
  <1>13. Shown'
    <2> SUFFICES ASSUME cause = "none", snap = "ok", snapAge' <= StaleAge, NEW d \in Components
                 PROVE  silent'[d] <= Grace(d) + snapAge'
      BY <1>1, <1>8 DEF Shown
    <2>1. snapAge' = snapAge + 1 /\ snapAge <= StaleAge
      BY <1>t, <1>5
    <2>2. silent[d] <= Grace(d) + snapAge
      BY <2>1 DEF CauseInv, Shown
    <2> QED  BY <1>t, <1>4, <1>8, <2>1, <2>2
  <1> QED  BY <1>7, <1>9, <1>10, <1>11, <1>12, <1>13 DEF CauseInv

LEMMA InitCause == Init => CauseInv
  <1> SUFFICES ASSUME Init PROVE CauseInv
    OBVIOUS
  <1>1. Typed2
    <2>1. /\ failures \in [Components -> 0 .. RestartBudget] /\ silent \in [Components -> 0 .. SilenceCap]
          /\ beatAt \in [Components -> 0 .. HealthyGrace] /\ sweepAge \in 0 .. MaxStall
          /\ snapAge \in 0 .. AgeCap /\ wake \in 0 .. WakeBuffer /\ faults \in 0 .. MaxFaults
          /\ unproven \in [Components -> Nat]
      BY Caps DEF Init
    <2>2. /\ reportedFailed \in [Components -> BOOLEAN] /\ ownFailure \in [Components -> BOOLEAN]
          /\ hung \in [Components -> [Gens -> BOOLEAN]] /\ stopping \in [Components -> [Gens -> BOOLEAN]]
          /\ state \in [Components -> States]
      BY DEF Init, States
    <2>3. /\ tick \in BOOLEAN /\ part \in BOOLEAN /\ watched \in BOOLEAN
          /\ cause \in {"none", "shutdown", "fatal"} /\ snap \in {"ok", "degraded", "failed"}
          /\ exit \in {"no", "clean", "fatal", "timeout"}
      BY Zenon DEF Init
    <2> QED  BY <2>1, <2>2, <2>3 DEF Typed2
  <1>2. Counted /\ Fresh /\ Made /\ Timely
    BY DEF Init, Counted, Fresh, Made, Timely, Cause, Ending
  <1>3. Covered /\ Passed /\ Shown /\ Ended /\ RestartedForCause
    BY GraceRange, Caps DEF Init, Covered, Passed, Shown, Ended, Ending, Swept, RestartedForCause
  <1> QED  BY <1>1, <1>2, <1>3 DEF CauseInv

-----------------------------------------------------------------------------
\* The second invariant holds in every behaviour as well.
THEOREM SupervisorCauseInv == Spec => []CauseInv
  <1>1. Inv /\ Inv' /\ CauseInv /\ [Next]_vars => CauseInv'
    <2> SUFFICES ASSUME Inv, Inv', CauseInv, [Next]_vars PROVE CauseInv'
      OBVIOUS
    <2>e. exit \in {"no", "clean", "fatal", "timeout"}
      BY DEF CauseInv, Typed2
    <2>1. CASE Step
      BY <2>1, StartCause, BeginSweepCause, SweepOneCause, RestartCause, RestartTimeoutCause,
         PublishCause, StopAllCause, StopAllTimeoutCause, HaltCause DEF Step
    <2>2. ASSUME NEW c \in Components, Beat(c) PROVE CauseInv'
      BY <2>2, BeatCause
    <2>3. ASSUME NEW c \in Components, NEW g \in Gens, Instance(c, g) PROVE CauseInv'
      BY <2>3, InstanceStartCause, ReportFailureCause, HangCause, WithdrawCause, InstanceStopCause
         DEF Instance
    <2>4. CASE Signal \/ PartFails \/ Tick
      BY <2>4, SignalCause, PartFailsCause, TickCause
    <2>5. CASE JobsEnd \/ Close \/ Exit
      <3>1. UNCHANGED <<entries, loop, insts, ghosts>> /\ exit' \in {"no", "clean", "fatal", "timeout"}
        BY <2>e, <2>5 DEF JobsEnd, Close, Exit
      <3> QED  BY <3>1, EndCause
    <2>6. CASE UNCHANGED vars
      <3>1. UNCHANGED <<entries, loop, insts, ghosts>> /\ exit' \in {"no", "clean", "fatal", "timeout"}
        BY <2>e, <2>6 DEF vars, process
      <3> QED  BY <3>1, EndCause
    <2> QED  BY <2>1, <2>2, <2>3, <2>4, <2>5, <2>6 DEF Next
  <1> QED  BY InitCause, SupervisorInv, <1>1, PTL DEF Spec

\* The type invariant: generations stay within one more than the faults.
THEOREM SupervisorTypes == Spec => []SupervisorTypeOK
  <1>1. Inv /\ CauseInv => SupervisorTypeOK
    <2> SUFFICES ASSUME Inv, CauseInv PROVE SupervisorTypeOK
      OBVIOUS
    <2>1. /\ gen \in [Components -> Nat] /\ unproven \in [Components -> Nat]
          /\ pc \in Steps /\ at \in 0 .. N + 1 /\ faults \in 0 .. MaxFaults
      BY DEF Inv, Typed, CauseInv, Typed2
    <2>2. gen \in [Components -> Gens \cup {0}]
      BY <2>1, GenRange
    <2>3. unproven \in [Components -> 0 .. MaxFaults + 1]
      <3>1. \A c \in Components : unproven[c] <= gen[c] /\ gen[c] <= faults + 1
        BY DEF CauseInv, Counted
      <3>2. \A c \in Components : unproven[c] \in 0 .. MaxFaults + 1
        BY <2>1, <3>1
      <3> QED  BY <2>1, <3>2
    <2>4. at \in Components \cup {0, N + 1}
      BY <2>1
    <2> QED  BY <2>1, <2>2, <2>3, <2>4, Zenon DEF Inv, Typed, CauseInv, Typed2, SupervisorTypeOK
  <1> QED  BY SupervisorInv, SupervisorCauseInv, <1>1, PTL

\* evaluate, restart: whatever the timing of beats, reports, slow starts and
\* stalled sweeps, only a component that is broken is replaced or given up.
THEOREM SupervisorRestartedForCause == Spec => []RestartedForCause
  <1>1. CauseInv => RestartedForCause
    BY DEF CauseInv
  <1> QED  BY SupervisorCauseInv, <1>1, PTL

\* publish, Snapshot: /health does not go on saying ok of a silent component.
THEOREM SupervisorSilentNeverOK == Spec => []SilentNeverOK
  <1>1. CauseInv => SilentNeverOK
    <2> SUFFICES ASSUME CauseInv, Snapshot = "ok", cause = "none", NEW c \in Components
                 PROVE  silent[c] <= Grace(c) + StaleAge
      BY DEF SilentNeverOK
    <2>1. snapAge \in Nat /\ silent[c] \in Nat /\ Grace(c) \in Nat
      BY GraceRange, Caps DEF CauseInv, Typed2
    <2>2. snapAge <= StaleAge /\ snap = "ok"
      BY <2>1 DEF Snapshot
    <2>3. silent[c] <= Grace(c) + snapAge
      BY <2>2 DEF CauseInv, Shown
    <2> QED  BY <2>1, <2>2, <2>3
  <1> QED  BY SupervisorCauseInv, <1>1, PTL

\* resetFailures, BudgetSpent: a crash loop is cut after RestartBudget restarts.
THEOREM SupervisorCrashLoopBounded == Spec => []CrashLoopBounded
  <1>1. CauseInv => CrashLoopBounded
    <2> SUFFICES ASSUME CauseInv, NEW c \in Components PROVE unproven[c] <= RestartBudget
      BY DEF CrashLoopBounded
    <2>1. unproven[c] \in Nat /\ failures[c] \in 0 .. RestartBudget
      BY DEF CauseInv, Typed2
    <2>2. unproven[c] <= failures[c]
      BY DEF CauseInv, Covered
    <2> QED  BY <2>1, <2>2
  <1> QED  BY SupervisorCauseInv, <1>1, PTL
=============================================================================
