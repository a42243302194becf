---------------------------- MODULE LiveViewProofs --------------------------
(***************************************************************************)
(* LiveView for every number of connections, size of the queues, set of    *)
(* keys and bound on faults: what the hub remembers having sent to the     *)
(* browser is what the browser shows once it has read its frames.          *)
(***************************************************************************)
EXTENDS LiveView, EventBusProofs, SumTheorems

-----------------------------------------------------------------------------
\* Coming, as a loop over the frames on their way.

\* The recursion FoldLeft stands for.
FoldStep(v, s, it, x) == IF x = {} THEN v ELSE Shown(it[x \ {Max(x)}], s[Max(x)])

IsFold(v, s, it) == it = [x \in SUBSET DOMAIN s |-> FoldStep(v, s, it, x)]

\* n[i] is what is shown after the i-th frame.
IsLoop(v, s, n) == n[0] = v /\ \A i \in 1 .. Len(s) : n[i] = Shown(n[i - 1], s[i])

\* A set of the first n numbers has a largest one.
LEMMA LargestOf ==
  ASSUME NEW n \in Nat, NEW s \in SUBSET (1 .. n), s # {}
  PROVE  Max(s) \in s /\ \A y \in s : Max(s) >= y
<1> DEFINE P == {m \in Nat : \A r \in SUBSET (1 .. m) : r # {} => \E x \in r : \A y \in r : x >= y}
<1>1. 0 \in P
  <2>1. \A r \in SUBSET (1 .. 0) : r = {}
    OBVIOUS
  <2> QED BY <2>1
<1>2. ASSUME NEW m \in P PROVE m + 1 \in P
  <2>1. SUFFICES ASSUME NEW r \in SUBSET (1 .. m + 1), r # {}
                 PROVE  \E x \in r : \A y \in r : x >= y
    OBVIOUS
  <2>2. CASE m + 1 \in r
    BY <2>2
  <2>3. CASE m + 1 \notin r
    <3>1. r \in SUBSET (1 .. m)
      BY <2>3
    <3> QED BY <2>1, <3>1
  <2> QED BY <2>2, <2>3
<1>3. P = Nat
  <2> HIDE DEF P
  <2>1. P \in SUBSET Nat
    BY DEF P
  <2> QED BY <1>1, <1>2, <2>1, NatSetInduction
<1>4. \E x \in s : \A y \in s : x >= y
  BY <1>3
<1> QED
  BY <1>4 DEF Max

\* The recursion has a solution: it is built up from the empty set.
LEMMA FoldExists ==
  ASSUME NEW v, NEW s, NEW l \in Nat, DOMAIN s = 1 .. l
  PROVE  \E it : IsFold(v, s, it)
<1> DEFINE Upto(n, it) == it = [x \in SUBSET (1 .. n) |-> FoldStep(v, s, it, x)]
           P == {n \in Nat : \E it : Upto(n, it)}
<1>1. 0 \in P
  <2> DEFINE it == [x \in SUBSET (1 .. 0) |-> v]
  <2>1. \A x \in SUBSET (1 .. 0) : x = {}
    OBVIOUS
  <2>2. Upto(0, it)
    BY <2>1 DEF FoldStep
  <2> QED BY <2>2
<1>2. ASSUME NEW n \in P PROVE n + 1 \in P
  <2>1. PICK it : Upto(n, it)
    OBVIOUS
  <2> DEFINE jt == [x \in SUBSET (1 .. n + 1) |-> FoldStep(v, s, it, x)]
  <2>2. ASSUME NEW x \in SUBSET (1 .. n + 1)
        PROVE  FoldStep(v, s, jt, x) = FoldStep(v, s, it, x)
    <3>1. CASE x = {}
      BY <3>1 DEF FoldStep
    <3>2. CASE x # {}
      <4> DEFINE r == x \ {Max(x)}
      <4>1. r \in SUBSET (1 .. n)
        <5>1. n + 1 \in Nat
          OBVIOUS
        <5>2. Max(x) \in x /\ \A y \in x : Max(x) >= y
          BY <5>1, <3>2, LargestOf
        <5>3. ASSUME NEW y \in r PROVE y \in 1 .. n
          <6> DEFINE m == Max(x)
          <6>1. m \in 1 .. n + 1 /\ y \in 1 .. n + 1 /\ m >= y /\ y # m
            BY <5>2
          <6> HIDE DEF m
          <6> QED BY <5>1, <6>1
        <5> QED BY <5>3
      <4>2. r \in SUBSET (1 .. n + 1)
        OBVIOUS
      <4>3. jt[r] = FoldStep(v, s, it, r)
        BY <4>2
      <4>4. it[r] = FoldStep(v, s, it, r)
        BY <2>1, <4>1
      <4> HIDE DEF jt, r
      <4>5. jt[r] = it[r]
        BY <4>3, <4>4
      <4> QED BY <4>5 DEF FoldStep, r
    <3> QED BY <3>1, <3>2
  <2>3. Upto(n + 1, jt)
    BY <2>2
  <2> HIDE DEF jt
  <2>4. \E kt : Upto(n + 1, kt)
    BY <2>3, Zenon
  <2>5. n + 1 \in Nat
    OBVIOUS
  <2> QED BY <2>4, <2>5
<1>3. P = Nat
  <2> HIDE DEF P
  <2>1. P \in SUBSET Nat
    BY DEF P
  <2> QED BY <1>1, <1>2, <2>1, NatSetInduction
<1>4. l \in P
  BY <1>3
<1>5. PICK it : Upto(l, it)
  BY <1>4
<1> QED
  BY <1>5 DEF IsFold

\* The fold shows one frame after the other.
LEMMA ShownLoop ==
  ASSUME NEW S, NEW s \in Seq(S), NEW v
  PROVE  \E n : IsLoop(v, s, n) /\ FoldLeft(Shown, v, s) = n[Len(s)]
<1> DEFINE l == Len(s)
<1>1. l \in Nat /\ DOMAIN s = 1 .. l
  BY LenProperties
<1> HIDE DEF l
<1> DEFINE it == CHOOSE jt : IsFold(v, s, jt)
<1>2. IsFold(v, s, it)
  BY <1>1, FoldExists
<1>3. FoldLeft(Shown, v, s) = it[DOMAIN s]
  BY DEF FoldLeft, MapThenFoldSet, IsFold, FoldStep
<1> HIDE DEF it
<1> DEFINE n == [i \in 0 .. l |-> it[1 .. i]]
<1>4. \A x \in SUBSET (1 .. l) : it[x] = FoldStep(v, s, it, x)
  BY <1>1, <1>2, Zenon DEF IsFold
<1>5. n[0] = v
  <2>1. n[0] = it[{}]
    BY <1>1
  <2> QED BY <2>1, <1>4 DEF FoldStep
<1>6. ASSUME NEW i \in 1 .. l PROVE n[i] = Shown(n[i - 1], s[i])
  <2> DEFINE x == 1 .. i
  <2>1. i \in Nat /\ x \in SUBSET (1 .. l) /\ x \in SUBSET (1 .. i) /\ x # {} /\ i \in x
    <3>1. i \in Nat /\ i >= 1 /\ i <= l
      BY <1>1
    <3>2. i \in x /\ \A y \in x : y \in 1 .. l
      BY <1>1, <3>1
    <3> QED BY <3>1, <3>2
  <2>2. Max(x) \in x /\ \A y \in x : Max(x) >= y
    BY <2>1, LargestOf
  <2>3. Max(x) = i
    BY <2>1, <2>2
  <2>4. x \ {i} = 1 .. (i - 1)
    BY <2>1
  <2>5. it[x] = Shown(it[1 .. (i - 1)], s[i])
    <3>1. it[x] = FoldStep(v, s, it, x)
      BY <1>4, <2>1
    <3> HIDE DEF x
    <3> QED BY <3>1, <2>1, <2>3, <2>4 DEF FoldStep
  <2>6. n[i] = it[x] /\ n[i - 1] = it[1 .. (i - 1)]
    BY <1>1, <2>1
  <2> HIDE DEF n, x
  <2> QED BY <2>5, <2>6
<1>7. FoldLeft(Shown, v, s) = n[l]
  BY <1>1, <1>3
<1> HIDE DEF n
<1>8. IsLoop(v, s, n)
  BY <1>5, <1>6 DEF IsLoop, l
<1> QED
  BY <1>7, <1>8 DEF l

\* A frame more is shown last.
LEMMA ShownAppend ==
  ASSUME NEW S, NEW s \in Seq(S), NEW f \in S, NEW v
  PROVE  FoldLeft(Shown, v, Append(s, f)) = Shown(FoldLeft(Shown, v, s), f)
<1> DEFINE t == Append(s, f)
<1>1. /\ t \in Seq(S) /\ Len(t) = Len(s) + 1 /\ Len(s) \in Nat /\ Len(t) \in Nat
      /\ \A i \in 1 .. Len(s) : t[i] = s[i]
      /\ t[Len(s) + 1] = f
  BY AppendProperties, LenProperties
<1> HIDE DEF t
<1>2. PICK n : IsLoop(v, t, n) /\ FoldLeft(Shown, v, t) = n[Len(t)]
  BY <1>1, ShownLoop
<1>3. PICK m : IsLoop(v, s, m) /\ FoldLeft(Shown, v, s) = m[Len(s)]
  BY ShownLoop
<1>4. m[Len(s)] = n[Len(s)]
  <2> DEFINE P == {i \in Nat : i <= Len(s) => m[i] = n[i]}
  <2>1. 0 \in P
    BY <1>2, <1>3 DEF IsLoop
  <2>2. ASSUME NEW i \in P, i + 1 <= Len(s) PROVE m[i + 1] = n[i + 1]
    <3>1. /\ i + 1 \in 1 .. Len(s) /\ i + 1 \in 1 .. Len(t) /\ (i + 1) - 1 = i
          /\ m[i] = n[i] /\ t[i + 1] = s[i + 1]
      BY <1>1, <2>2
    <3> QED BY <1>2, <1>3, <3>1 DEF IsLoop
  <2>3. P = Nat
    <3>1. P \in SUBSET Nat /\ \A i \in P : i + 1 \in P
      BY <2>2
    <3> HIDE DEF P
    <3> QED BY <2>1, <3>1, NatSetInduction
  <2>4. Len(s) \in P
    BY <1>1, <2>3
  <2> QED BY <1>1, <2>4
<1>5. n[Len(t)] = Shown(n[Len(s)], f)
  <2>1. Len(t) \in 1 .. Len(t) /\ Len(t) - 1 = Len(s) /\ t[Len(t)] = f
    BY <1>1
  <2> QED BY <1>2, <2>1 DEF IsLoop
<1> QED
  BY <1>2, <1>3, <1>4, <1>5 DEF t

\* The first frame may be shown ahead of the others.
LEMMA ShownTail ==
  ASSUME NEW S, NEW s \in Seq(S), s # << >>, NEW v,
         NEW t, t = Tail(s), NEW w, w = Shown(v, Head(s))
  PROVE  FoldLeft(Shown, w, t) = FoldLeft(Shown, v, s)
<1>1. /\ t \in Seq(S) /\ Len(t) = Len(s) - 1 /\ Len(s) \in Nat \ {0} /\ Len(t) \in Nat
      /\ \A i \in 1 .. Len(t) : t[i] = s[i + 1]
      /\ Head(s) = s[1]
  BY HeadTailProperties, LenProperties, EmptySeq
<1>2. PICK n : IsLoop(v, s, n) /\ FoldLeft(Shown, v, s) = n[Len(s)]
  BY ShownLoop
<1>3. PICK m : IsLoop(w, t, m) /\ FoldLeft(Shown, w, t) = m[Len(t)]
  BY <1>1, ShownLoop
<1>4. n[1] = w
  <2>1. 1 \in 1 .. Len(s) /\ 1 - 1 = 0
    BY <1>1
  <2>2. n[1] = Shown(n[1 - 1], s[1]) /\ n[0] = v
    BY <1>2, <2>1 DEF IsLoop
  <2> QED BY <1>1, <2>1, <2>2
<1>5. m[Len(t)] = n[Len(t) + 1]
  <2> DEFINE P == {i \in Nat : i <= Len(t) => m[i] = n[i + 1]}
  <2>1. 0 \in P
    <3>1. m[0] = n[0 + 1]
      BY <1>3, <1>4 DEF IsLoop
    <3> QED BY <3>1
  <2>2. ASSUME NEW i \in P PROVE i + 1 \in P
    <3> SUFFICES ASSUME i + 1 <= Len(t) PROVE m[i + 1] = n[(i + 1) + 1]
      OBVIOUS
    <3>1. /\ i + 1 \in 1 .. Len(t) /\ (i + 1) + 1 \in 1 .. Len(s)
          /\ (i + 1) - 1 = i /\ ((i + 1) + 1) - 1 = i + 1
          /\ m[i] = n[i + 1] /\ t[i + 1] = s[(i + 1) + 1]
      BY <1>1
    <3> QED BY <1>2, <1>3, <3>1 DEF IsLoop
  <2>3. P = Nat
    <3>1. P \in SUBSET Nat
      OBVIOUS
    <3> HIDE DEF P
    <3> QED BY <2>1, <2>2, <3>1, NatSetInduction
  <2>4. Len(t) \in P
    BY <1>1, <2>3
  <2> QED BY <1>1, <2>4
<1>6. Len(t) + 1 = Len(s)
  BY <1>1
<1> QED
  BY <1>2, <1>3, <1>5, <1>6

\* The same in the terms of the model.
Told(v, frames) == FoldLeft(Shown, v, frames)

LEMMA ToldIs ==
  /\ Coming = Told(view, down[cur]) /\ Coming' = Told(view', down'[cur'])
  /\ \A s \in Seq(Frames), f \in Frames : \A v : Told(v, Append(s, f)) = Shown(Told(v, s), f)
  /\ \A s \in Seq(Frames) : \A v : s # << >> => Told(Shown(v, Head(s)), Tail(s)) = Told(v, s)
<1>1. Coming = Told(view, down[cur]) /\ Coming' = Told(view', down'[cur'])
  BY DEF Coming, Told
<1>2. ASSUME NEW s \in Seq(Frames), NEW f \in Frames, NEW v
      PROVE  Told(v, Append(s, f)) = Shown(Told(v, s), f)
  BY ShownAppend DEF Told
<1>3. ASSUME NEW s \in Seq(Frames), NEW v, s # << >>
      PROVE  Told(Shown(v, Head(s)), Tail(s)) = Told(v, s)
  BY <1>3, ShownTail DEF Told
<1> QED
  BY <1>1, <1>2, <1>3

-----------------------------------------------------------------------------
\* The types of the variables, which are inductive of themselves.

Events == {Updated("poller"), Updated("aggregator"), PeriodClosed(1)}

ServerInv ==
    /\ row \in Partial /\ data \in Partial
    /\ poller \in {"idle", "publish"} /\ agg \in {"idle", "publish"}

HubInv ==
    /\ dirty \in BOOLEAN
    /\ clients \subseteq Conns /\ IsFiniteSet(clients) /\ Cardinality(clients) <= MaxClients
    /\ clientSubs \in [Conns -> SUBSET Keys] /\ last \in [Conns -> Partial]

NetInv ==
    /\ up \in [Conns -> Seq(Messages)] /\ down \in [Conns -> Seq(Frames)]
    /\ \A c \in Conns : Len(down[c]) <= SendBuffer
    /\ half \subseteq Conns

BrowserInv ==
    /\ cur \in Conns \cup {None} /\ view \in Partial
    /\ refs \in [Keys -> 0 .. MaxRefs]

TypeInv == Sound(Events) /\ ServerInv /\ HubInv /\ NetInv /\ BrowserInv

LEMMA TypesOK == TypeInv => LiveViewTypeOK
  <1> SUFFICES ASSUME TypeInv PROVE LiveViewTypeOK
    OBVIOUS
  <1>1. BusTypeOK
    BY SoundTypeOK DEF TypeInv
  <1> QED
    BY <1>1 DEF TypeInv, ServerInv, HubInv, NetInv, BrowserInv, LiveViewTypeOK

\* What a step leaves alone keeps its type.
LEMMA Untouched ==
  ASSUME TypeInv
  PROVE  /\ UNCHANGED bus => Sound(Events)'
         /\ UNCHANGED server => ServerInv'
         /\ UNCHANGED hub => HubInv'
         /\ UNCHANGED net => NetInv'
         /\ UNCHANGED browser => BrowserInv'
<1>1. UNCHANGED bus => Sound(Events)'
  BY BusStaysSound DEF TypeInv
<1>2. UNCHANGED server => ServerInv'
  BY DEF TypeInv, ServerInv, server
<1>3. UNCHANGED hub => HubInv'
  BY DEF TypeInv, HubInv, hub
<1>4. UNCHANGED net => NetInv'
  BY DEF TypeInv, NetInv, net
<1>5. UNCHANGED browser => BrowserInv'
  BY DEF TypeInv, BrowserInv, browser
<1> QED
  BY <1>1, <1>2, <1>3, <1>4, <1>5

LEMMA ConstantFacts ==
  /\ NoVal \in Values \cup {NoVal} /\ Nothing \in Partial
  /\ "hub" \in Subscribers /\ None \notin Conns
  /\ MaxClients \in Nat /\ SendBuffer \in Nat /\ MaxRefs \in Nat \ {0}
  /\ Updated("poller") \in Events /\ Updated("aggregator") \in Events /\ PeriodClosed(1) \in Events
  /\ \A k \in AggKeys : Source[k] \in PollKeys /\ Source[k] \in Keys
BY LiveViewAssumption DEF Nothing, Partial, Keys, Events

LEMMA InitTypes == Init => TypeInv
<1> SUFFICES ASSUME Init PROVE TypeInv
  OBVIOUS
<1>1. Sound(Events)
  BY BusInitSound DEF Init
<1>2. ServerInv
  BY ConstantFacts DEF Init, ServerInv
<1>3. HubInv
  <2>1. IsFiniteSet({}) /\ Cardinality({}) = 0
    BY FS_EmptySet
  <2>2. clientSubs \in [Conns -> SUBSET Keys] /\ last \in [Conns -> Partial]
    BY ConstantFacts DEF Init
  <2>3. clients = {} /\ dirty = FALSE
    BY DEF Init
  <2>4. 0 <= MaxClients
    BY ConstantFacts
  <2> QED BY <2>1, <2>2, <2>3, <2>4 DEF HubInv
<1>4. NetInv
  <2>1. << >> \in Seq(Messages) /\ << >> \in Seq(Frames) /\ Len(<< >>) = 0
    BY EmptySeq
  <2> QED BY <2>1, ConstantFacts DEF Init, NetInv
<1>5. BrowserInv
  <2>1. 1 \in 0 .. MaxRefs
    BY ConstantFacts
  <2> QED BY <2>1, ConstantFacts DEF Init, BrowserInv
<1> QED
  BY <1>1, <1>2, <1>3, <1>4, <1>5 DEF TypeInv

\* A hub that only loses clients keeps within its limit.
LEMMA FewerClients ==
  ASSUME HubInv, NEW some, some \subseteq clients
  PROVE  some \subseteq Conns /\ IsFiniteSet(some) /\ Cardinality(some) <= MaxClients
<1>1. IsFiniteSet(clients) /\ Cardinality(clients) <= MaxClients /\ clients \subseteq Conns
  BY DEF HubInv
<1>2. IsFiniteSet(some) /\ Cardinality(some) <= Cardinality(clients)
  BY <1>1, FS_Subset
<1>3. Cardinality(some) \in Nat /\ Cardinality(clients) \in Nat
  BY <1>1, <1>2, FS_CardinalityType
<1> QED
  BY <1>1, <1>2, <1>3, ConstantFacts

\* Send appends to the queues that have room.
LEMMA SendIs ==
  ASSUME TypeInv, NEW frame \in [Conns -> Frames], NEW who \in SUBSET Conns, Send(frame, who)
  PROVE  /\ down' \in [Conns -> Seq(Frames)] /\ \A c \in Conns : Len(down'[c]) <= SendBuffer
         /\ \A c \in Conns : c \notin who => down'[c] = down[c]
         /\ \A c \in clients' : c \in who => down'[c] = Append(down[c], frame[c])
         /\ clients' \subseteq clients
<1>1. ASSUME NEW c \in Conns
      PROVE  /\ down[c] \in Seq(Frames) /\ Len(down[c]) \in Nat /\ Len(down[c]) <= SendBuffer
             /\ Append(down[c], frame[c]) \in Seq(Frames)
             /\ Len(Append(down[c], frame[c])) = Len(down[c]) + 1
  <2>1. down[c] \in Seq(Frames) /\ Len(down[c]) <= SendBuffer /\ frame[c] \in Frames
    BY DEF TypeInv, NetInv
  <2> QED BY <2>1, AppendProperties, LenProperties
<1>2. ASSUME NEW c \in Conns PROVE down'[c] \in Seq(Frames) /\ Len(down'[c]) <= SendBuffer
  <2>1. CASE c \in who /\ HasRoom(c)
    <3>1. down'[c] = Append(down[c], frame[c]) /\ Len(down[c]) < SendBuffer
      BY <2>1 DEF Send, HasRoom
    <3> QED BY <1>1, <3>1, ConstantFacts
  <2>2. CASE ~(c \in who /\ HasRoom(c))
    BY <1>1, <2>2 DEF Send
  <2> QED BY <2>1, <2>2
<1>3. down' \in [Conns -> Seq(Frames)]
  BY <1>2 DEF Send
<1>4. \A c \in Conns : c \notin who => down'[c] = down[c]
  BY DEF Send
<1>5. ASSUME NEW c \in clients', c \in who PROVE down'[c] = Append(down[c], frame[c])
  BY <1>5 DEF Send, TypeInv, HubInv
<1>6. clients' \subseteq clients
  BY DEF Send
<1> QED
  BY <1>2, <1>3, <1>4, <1>5, <1>6

-----------------------------------------------------------------------------
\* The hub's memory and the screen.

\* A step that neither shows nor sends the browser anything, nor remembers a value
\* more of it, keeps the two equal.
LEMMA MirrorStays ==
  ASSUME MirrorsLast, cur' = cur, view' = view,
         cur \in clients' /\ cur \notin half' =>
            /\ cur \in clients /\ cur \notin half /\ down'[cur] = down[cur]
            /\ \A k \in clientSubs'[cur] :
                  last'[cur][k] # NoVal => k \in clientSubs[cur] /\ last'[cur][k] = last[cur][k]
  PROVE  MirrorsLast'
<1> SUFFICES ASSUME cur' \in clients', cur' \notin half',
                    NEW k \in clientSubs'[cur'], last'[cur'][k] # NoVal
             PROVE  (Coming')[k] = last'[cur'][k]
  BY DEF MirrorsLast
<1>1. /\ cur \in clients /\ cur \notin half /\ down'[cur'] = down[cur] /\ k \in clientSubs[cur]
      /\ last'[cur'][k] = last[cur][k] /\ last[cur][k] # NoVal
  OBVIOUS
<1>2. Coming' = Coming
  BY <1>1, ToldIs
<1>3. Coming[k] = last[cur][k]
  BY <1>1 DEF MirrorsLast
<1> QED
  BY <1>1, <1>2, <1>3

\* Without a connection there is nothing to compare.
LEMMA NoMirror == ASSUME HubInv', cur' = None PROVE MirrorsLast'
  BY ConstantFacts DEF HubInv, MirrorsLast

\* The invariant.
ViewInv == TypeInv /\ MirrorsLast

\* Poll, AggMerge, ...: the server's own steps.
LEMMA ServerKeeps ==
  ASSUME ViewInv, Poll \/ PollPublish \/ PollClose \/ AggMerge \/ AggPublish \/ BusStep
  PROVE  ViewInv'
<1>1. UNCHANGED <<hub, net, browser>>
  BY DEF Poll, PollPublish, PollClose, AggMerge, AggPublish, BusStep
<1>2. HubInv' /\ NetInv' /\ BrowserInv'
  BY <1>1, Untouched DEF ViewInv
<1>3. ServerInv'
  <2>0. ServerInv
    BY DEF ViewInv, TypeInv
  <2>1. CASE UNCHANGED server
    BY <2>1, Untouched DEF ViewInv
  <2>2. CASE Poll
    <3>1. PICK v \in [PollKeys -> Values \cup {NoVal}] :
            /\ data' = [k \in Keys |-> IF k \in PollKeys THEN v[k] ELSE data[k]]
            /\ row' = [k \in Keys |-> IF k \in PollKeys /\ v[k] # NoVal THEN v[k] ELSE row[k]]
      BY <2>2 DEF Poll
    <3>2. data' \in Partial /\ row' \in Partial
      BY <2>0, <3>1 DEF ServerInv, Partial
    <3> QED BY <2>0, <2>2, <3>2 DEF Poll, ServerInv
  <2>3. CASE AggMerge
    <3>1. \E computed \in SUBSET AggKeys :
             data' = [k \in Keys |-> IF k \in computed THEN row[Source[k]] ELSE data[k]]
      BY <2>3 DEF AggMerge
    <3>2. data' \in Partial
      BY <2>0, <3>1, ConstantFacts DEF ServerInv, Partial
    <3> QED BY <2>0, <2>3, <3>2 DEF AggMerge, ServerInv
  <2>4. CASE PollPublish
    BY <2>0, <2>4 DEF PollPublish, ServerInv
  <2>5. CASE AggPublish
    BY <2>0, <2>5 DEF AggPublish, ServerInv
  <2>6. PollClose \/ BusStep => UNCHANGED server
    BY DEF PollClose, BusStep
  <2> QED BY <2>1, <2>2, <2>3, <2>4, <2>5, <2>6
<1>4. Sound(Events)'
  <2>0. Sound(Events)
    BY DEF ViewInv, TypeInv
  <2>1. CASE UNCHANGED bus
    BY <2>1, Untouched DEF ViewInv
  <2>2. CASE \E e \in Events : Publish(e)
    BY <2>0, <2>2, PublishSound
  <2>3. CASE \E s \in Subscribers : Pump(s)
    BY <2>0, <2>3, PumpKeeps
  <2>4. Poll \/ AggMerge => UNCHANGED bus
    BY DEF Poll, AggMerge
  <2>5. PollPublish \/ PollClose \/ AggPublish => \E e \in Events : Publish(e)
    BY ConstantFacts DEF PollPublish, PollClose, AggPublish
  <2>6. BusStep => \E s \in Subscribers : Pump(s)
    BY DEF BusStep
  <2> QED BY <2>1, <2>2, <2>3, <2>4, <2>5, <2>6
<1>5. MirrorsLast'
  <2>1. UNCHANGED <<clients, clientSubs, last, down, half, cur, view>>
    BY <1>1 DEF hub, net, browser
  <2> QED BY <2>1, MirrorStays DEF ViewInv
<1> QED
  BY <1>2, <1>3, <1>4, <1>5 DEF ViewInv, TypeInv

\* onEvent, and the hub's start: nothing is sent.
LEMMA HubListens ==
  ASSUME ViewInv, HubReceive \/ HubStart
  PROVE  ViewInv'
<1>1. UNCHANGED <<server, clients, clientSubs, last, net, browser>>
  BY DEF HubReceive, HubStart, hub
<1>2. ServerInv' /\ NetInv' /\ BrowserInv'
  BY <1>1, Untouched DEF ViewInv
<1>3. HubInv'
  <2>1. HubInv
    BY DEF ViewInv, TypeInv
  <2>2. dirty' \in BOOLEAN
    <3>1. CASE HubReceive
      BY <2>1, <3>1 DEF HubReceive, HubInv
    <3>2. CASE HubStart
      BY <2>1, <3>2 DEF HubStart, hub, HubInv
    <3> QED BY <3>1, <3>2
  <2> QED BY <1>1, <2>1, <2>2 DEF HubInv
<1>4. Sound(Events)'
  <2>0. Sound(Events) /\ "hub" \in Subscribers
    BY ConstantFacts DEF ViewInv, TypeInv
  <2>1. CASE HubReceive
    <3>1. PICK e : Receive("hub", e)
      BY <2>1 DEF HubReceive
    <3> QED BY <2>0, <3>1, ReceiveTakes
  <2>2. CASE HubStart
    BY <2>0, <2>2, SubscribeSound DEF HubStart
  <2> QED BY <2>1, <2>2
<1>5. MirrorsLast'
  <2>1. UNCHANGED <<clients, clientSubs, last, down, half, cur, view>>
    BY <1>1 DEF net, browser
  <2> QED BY <2>1, MirrorStays DEF ViewInv
<1> QED
  BY <1>2, <1>3, <1>4, <1>5 DEF ViewInv, TypeInv

-----------------------------------------------------------------------------
\* flush

\* What a frame does to the shown value of one key.
LEMMA ShownAt ==
  ASSUME NEW v, NEW f, NEW k \in Keys
  PROVE  Shown(v, f)[k] = IF f.values[k] # NoVal THEN f.values[k]
                          ELSE IF k \in f.removed THEN NoVal ELSE v[k]
BY DEF Shown

LEMMA DiffTyped == ASSUME TypeInv, NEW c \in Conns PROVE Diff(c) \in Frames
<1>1. data \in Partial /\ clientSubs[c] \subseteq Keys
  BY DEF TypeInv, ServerInv, HubInv
<1>2. [k \in Keys |-> IF k \in Changed(c) THEN data[k] ELSE NoVal] \in Partial
  BY <1>1 DEF Partial
<1>3. Removed(c) \subseteq Keys
  BY <1>1 DEF Removed
<1> QED
  BY <1>2, <1>3 DEF Diff, Frame, Frames

LEMMA HubFlushKeeps == ASSUME ViewInv, HubFlush PROVE ViewInv'
<1> DEFINE frame == [c \in Conns |-> Diff(c)]
           who == {c \in clients : Changed(c) \cup Removed(c) # {}}
<1>1. /\ UNCHANGED <<bus, server, browser>> /\ UNCHANGED <<clientSubs, up, half>>
      /\ dirty' = FALSE
      /\ last' = [c \in Conns |-> [k \in Keys |-> IF c \in clients /\ k \in clientSubs[c] THEN data[k]
                                                                                        ELSE last[c][k]]]
      /\ Send(frame, who)
  BY DEF HubFlush
<1>2. /\ data \in Partial /\ clients \subseteq Conns
      /\ clientSubs \in [Conns -> SUBSET Keys] /\ last \in [Conns -> Partial]
      /\ down \in [Conns -> Seq(Frames)]
  BY DEF ViewInv, TypeInv, ServerInv, HubInv, NetInv
<1>3. frame \in [Conns -> Frames] /\ who \in SUBSET Conns
  <2>1. \A c \in Conns : Diff(c) \in Frames
    BY DiffTyped DEF ViewInv
  <2> QED BY <1>2, <2>1
<1>4. /\ down' \in [Conns -> Seq(Frames)] /\ \A c \in Conns : Len(down'[c]) <= SendBuffer
      /\ \A c \in Conns : c \notin who => down'[c] = down[c]
      /\ \A c \in clients' : c \in who => down'[c] = Append(down[c], frame[c])
      /\ clients' \subseteq clients
  <2> HIDE DEF frame, who
  <2> QED BY <1>1, <1>3, SendIs DEF ViewInv
<1> HIDE DEF frame, who
<1>5. Sound(Events)' /\ ServerInv' /\ BrowserInv'
  BY <1>1, Untouched DEF ViewInv
<1>6. HubInv'
  <2>1. last' \in [Conns -> Partial]
    BY <1>1, <1>2 DEF Partial
  <2>2. clients' \subseteq Conns /\ IsFiniteSet(clients') /\ Cardinality(clients') <= MaxClients
    BY <1>4, FewerClients DEF ViewInv, TypeInv
  <2> QED BY <1>1, <1>2, <2>1, <2>2 DEF HubInv
<1>7. NetInv'
  BY <1>1, <1>4 DEF ViewInv, TypeInv, NetInv
<1>8. MirrorsLast'
  <2>1. cur' = cur /\ view' = view /\ half' = half
    BY <1>1 DEF browser
  <2>2. SUFFICES ASSUME cur \in clients', cur \notin half,
                        NEW k \in clientSubs[cur], last'[cur][k] # NoVal
                 PROVE  (Coming')[k] = last'[cur][k]
    BY <1>1, <2>1 DEF MirrorsLast
  <2>3. cur \in clients /\ cur \in Conns /\ k \in Keys /\ last'[cur][k] = data[k]
    BY <1>1, <1>2, <1>4, <2>2
  <2>4. last[cur][k] # NoVal => Coming[k] = last[cur][k]
    BY <2>2, <2>3 DEF ViewInv, MirrorsLast
  <2>5. CASE cur \in who
    <3>1. down'[cur] = Append(down[cur], Diff(cur)) /\ Diff(cur) \in Frames
      BY <1>3, <1>4, <2>2, <2>3, <2>5 DEF frame
    <3>2. Coming' = Shown(Coming, Diff(cur))
      BY <1>2, <2>1, <2>3, <3>1, ToldIs
    <3>3. /\ Diff(cur).values[k] = IF k \in Changed(cur) THEN data[k] ELSE NoVal
          /\ Diff(cur).removed = Removed(cur)
      BY <2>3 DEF Diff, Frame
    <3>4. CASE k \in Changed(cur)
      BY <2>2, <2>3, <3>2, <3>3, <3>4, ShownAt
    <3>5. CASE k \notin Changed(cur)
      <4>1. data[k] = last[cur][k] /\ k \notin Removed(cur)
        BY <2>2, <2>3, <3>5 DEF Changed, Removed
      <4> QED BY <2>2, <2>3, <2>4, <3>2, <3>3, <3>5, <4>1, ShownAt
    <3> QED BY <3>4, <3>5
  <2>6. CASE cur \notin who
    <3>1. down'[cur] = down[cur] /\ Coming' = Coming
      BY <1>4, <2>1, <2>3, <2>6, ToldIs
    <3>2. k \notin Changed(cur)
      BY <2>3, <2>6 DEF who
    <3>3. data[k] = last[cur][k]
      BY <2>2, <2>3, <3>2 DEF Changed
    <3> QED BY <2>2, <2>3, <2>4, <3>1, <3>3
  <2> QED BY <2>5, <2>6
<1> QED
  BY <1>5, <1>6, <1>7, <1>8 DEF ViewInv, TypeInv

-----------------------------------------------------------------------------
\* handle

\* A message is taken from the queue to the hub.
LEMMA UpTaken ==
  ASSUME TypeInv, NEW c \in Conns, up[c] # << >>, up' = [up EXCEPT ![c] = Tail(@)]
  PROVE  /\ up' \in [Conns -> Seq(Messages)]
         /\ Head(up[c]) \in Messages /\ Head(up[c]).keys \subseteq Keys
<1>1. up \in [Conns -> Seq(Messages)] /\ up[c] \in Seq(Messages)
  BY DEF TypeInv, NetInv
<1>2. Head(up[c]) \in Messages /\ Tail(up[c]) \in Seq(Messages)
  BY <1>1, HeadTailProperties
<1> QED
  BY <1>1, <1>2 DEF Messages

\* The two cases of HubHandle.
Subscribes(c, keys) ==
    LET added == keys \ clientSubs[c]
        snapshot == [k \in Keys |-> IF k \in added THEN data[k] ELSE NoVal] IN
    /\ clientSubs' = [clientSubs EXCEPT ![c] = @ \cup added]
    /\ last' = [last EXCEPT ![c] = [k \in Keys |-> IF k \in added THEN data[k] ELSE @[k]]]
    /\ Send([d \in Conns |-> Frame(snapshot, {})], {c})

Unsubscribes(c, keys) ==
    /\ clientSubs' = [clientSubs EXCEPT ![c] = @ \ keys]
    /\ last' = [last EXCEPT ![c] = [k \in Keys |-> IF k \in keys THEN NoVal ELSE @[k]]]
    /\ UNCHANGED <<down, clients>>

LEMMA SubscribeKeeps ==
  ASSUME ViewInv, NEW c \in clients, NEW keys \in SUBSET Keys, Subscribes(c, keys),
         up' \in [Conns -> Seq(Messages)],
         UNCHANGED <<bus, server, dirty, half, browser>>
  PROVE  ViewInv'
<1> DEFINE added == keys \ clientSubs[c]
           snapshot == [k \in Keys |-> IF k \in added THEN data[k] ELSE NoVal]
           frame == [d \in Conns |-> Frame(snapshot, {})]
           who == {c}
<1>1. /\ clientSubs' = [clientSubs EXCEPT ![c] = @ \cup added]
      /\ last' = [last EXCEPT ![c] = [k \in Keys |-> IF k \in added THEN data[k] ELSE @[k]]]
      /\ Send(frame, who)
  BY DEF Subscribes
<1> HIDE DEF added
<1>2. /\ data \in Partial /\ clients \subseteq Conns /\ c \in Conns
      /\ clientSubs \in [Conns -> SUBSET Keys] /\ last \in [Conns -> Partial]
      /\ down \in [Conns -> Seq(Frames)] /\ dirty \in BOOLEAN /\ half \subseteq Conns
  BY DEF ViewInv, TypeInv, ServerInv, HubInv, NetInv
<1>3. frame \in [Conns -> Frames] /\ who \in SUBSET Conns /\ Frame(snapshot, {}) \in Frames
  <2>1. snapshot \in Partial
    BY <1>2 DEF Partial
  <2>2. Frame(snapshot, {}) \in Frames
    BY <2>1 DEF Frame, Frames
  <2> QED BY <1>2, <2>2
<1>4. /\ down' \in [Conns -> Seq(Frames)] /\ \A d \in Conns : Len(down'[d]) <= SendBuffer
      /\ \A d \in Conns : d \notin who => down'[d] = down[d]
      /\ \A d \in clients' : d \in who => down'[d] = Append(down[d], frame[d])
      /\ clients' \subseteq clients
  <2> HIDE DEF frame, who
  <2> QED BY <1>1, <1>3, SendIs DEF ViewInv
<1>5. Sound(Events)' /\ ServerInv' /\ BrowserInv'
  BY Untouched DEF ViewInv
<1>6. HubInv'
  <2>1. last' \in [Conns -> Partial]
    BY <1>1, <1>2 DEF Partial
  <2>2. clientSubs' \in [Conns -> SUBSET Keys]
    BY <1>1, <1>2 DEF added
  <2>3. clients' \subseteq Conns /\ IsFiniteSet(clients') /\ Cardinality(clients') <= MaxClients
    BY <1>4, FewerClients DEF ViewInv, TypeInv
  <2> QED BY <1>2, <2>1, <2>2, <2>3 DEF HubInv
<1>7. NetInv'
  BY <1>2, <1>4 DEF NetInv
<1>8. MirrorsLast'
  <2>1. cur' = cur /\ view' = view /\ half' = half
    BY DEF browser
  <2>2. CASE cur # c
    <3>1. \A d \in Conns : d # c => clientSubs'[d] = clientSubs[d] /\ last'[d] = last[d]
      BY <1>1, <1>2
    <3> QED BY <1>2, <1>4, <2>1, <2>2, <3>1, MirrorStays DEF ViewInv
  <2>3. CASE cur = c
    <3>1. SUFFICES ASSUME cur \in clients', cur \notin half,
                          NEW k \in clientSubs'[cur], last'[cur][k] # NoVal
                   PROVE  (Coming')[k] = last'[cur][k]
      BY <2>1 DEF MirrorsLast
    <3>2. k \in Keys /\ k \in clientSubs[c] \cup added
      BY <1>1, <1>2, <2>3, <3>1 DEF added
    <3>3. last'[c][k] = IF k \in added THEN data[k] ELSE last[c][k]
      BY <1>1, <1>2, <3>2
    <3>4. down'[cur] = Append(down[cur], Frame(snapshot, {}))
      BY <1>2, <1>4, <2>3, <3>1
    <3>5. Coming' = Shown(Coming, Frame(snapshot, {}))
      <4>1. down[cur] \in Seq(Frames)
        BY <1>2, <2>3
      <4> QED BY <1>3, <2>1, <3>4, <4>1, ToldIs
    <3>6. /\ Frame(snapshot, {}).values[k] = IF k \in added THEN data[k] ELSE NoVal
          /\ Frame(snapshot, {}).removed = {}
      BY <3>2 DEF Frame
    <3>7. CASE k \in added
      BY <2>3, <3>1, <3>2, <3>3, <3>5, <3>6, <3>7, ShownAt
    <3>8. CASE k \notin added
      <4>1. Coming[k] = last[c][k]
        BY <1>4, <2>3, <3>1, <3>2, <3>3, <3>8 DEF ViewInv, MirrorsLast
      <4> QED BY <2>3, <3>2, <3>3, <3>5, <3>6, <3>8, <4>1, ShownAt
    <3> QED BY <3>7, <3>8
  <2> QED BY <2>2, <2>3
<1> QED
  BY <1>5, <1>6, <1>7, <1>8 DEF ViewInv, TypeInv

LEMMA UnsubscribeKeeps ==
  ASSUME ViewInv, NEW c \in clients, NEW keys \in SUBSET Keys, Unsubscribes(c, keys),
         up' \in [Conns -> Seq(Messages)],
         UNCHANGED <<bus, server, dirty, half, browser>>
  PROVE  ViewInv'
<1>1. /\ clients \subseteq Conns /\ c \in Conns
      /\ clientSubs \in [Conns -> SUBSET Keys] /\ last \in [Conns -> Partial]
  BY DEF ViewInv, TypeInv, HubInv
<1> USE DEF Unsubscribes
<1>2. Sound(Events)' /\ ServerInv' /\ BrowserInv'
  BY Untouched DEF ViewInv
<1>3. HubInv'
  <2>1. last' \in [Conns -> Partial] /\ clientSubs' \in [Conns -> SUBSET Keys]
    BY <1>1 DEF Partial
  <2> QED BY <2>1 DEF ViewInv, TypeInv, HubInv
<1>4. NetInv'
  BY DEF ViewInv, TypeInv, NetInv
<1>5. MirrorsLast'
  <2>1. cur' = cur /\ view' = view
    BY DEF browser
  <2>2. ASSUME cur \in clients', NEW k \in clientSubs'[cur]
        PROVE  k \in clientSubs[cur] /\ last'[cur][k] = last[cur][k]
    <3>1. cur \in Conns
      BY <1>1, <2>2
    <3>2. CASE cur = c
      <4>1. k \in clientSubs[c] /\ k \notin keys /\ k \in Keys
        BY <1>1, <2>2, <3>2
      <4>2. last'[c][k] = last[c][k]
        BY <1>1, <4>1
      <4> QED BY <3>2, <4>1, <4>2
    <3>3. CASE cur # c
      BY <1>1, <2>2, <3>1, <3>3
    <3> QED BY <3>2, <3>3
  <2> QED BY <2>1, <2>2, MirrorStays DEF ViewInv
<1> QED
  BY <1>2, <1>3, <1>4, <1>5 DEF ViewInv, TypeInv

LEMMA HubHandleKeeps == ASSUME ViewInv, NEW c \in Conns, HubHandle(c) PROVE ViewInv'
<1> DEFINE keys == Head(up[c]).keys
<1>1. /\ c \in clients /\ up[c] # << >> /\ up' = [up EXCEPT ![c] = Tail(@)]
      /\ UNCHANGED <<bus, server, dirty, half, browser>>
  BY DEF HubHandle
<1>2. up' \in [Conns -> Seq(Messages)] /\ keys \in SUBSET Keys
  BY <1>1, UpTaken DEF ViewInv
<1>3. Subscribes(c, keys) \/ Unsubscribes(c, keys)
  BY DEF HubHandle, Subscribes, Unsubscribes
<1> HIDE DEF keys
<1> QED
  BY <1>1, <1>2, <1>3, SubscribeKeeps, UnsubscribeKeeps

-----------------------------------------------------------------------------
\* Connections that end.

\* Forgetting connections keeps the hub's types.
LEMMA ForgetIs ==
  ASSUME HubInv, NEW gone, Forget(gone)
  PROVE  /\ clients' = clients \ gone /\ clients' \subseteq Conns
         /\ IsFiniteSet(clients') /\ Cardinality(clients') <= MaxClients
         /\ clientSubs' \in [Conns -> SUBSET Keys] /\ last' \in [Conns -> Partial]
         /\ \A c \in clients' : clientSubs'[c] = clientSubs[c] /\ last'[c] = last[c]
<1>1. clients' = clients \ gone
  BY DEF Forget
<1>2. clients' \subseteq Conns /\ IsFiniteSet(clients') /\ Cardinality(clients') <= MaxClients
  <2>1. clients' \subseteq clients
    BY <1>1
  <2> QED BY <2>1, FewerClients
<1>3. /\ clients' \subseteq Conns
      /\ clientSubs \in [Conns -> SUBSET Keys] /\ last \in [Conns -> Partial]
  BY <1>2 DEF HubInv
<1>4. clientSubs' \in [Conns -> SUBSET Keys]
  BY <1>3 DEF Forget
<1>5. last' \in [Conns -> Partial]
  BY <1>3, ConstantFacts DEF Forget
<1>6. \A c \in clients' : clientSubs'[c] = clientSubs[c] /\ last'[c] = last[c]
  BY <1>1, <1>3 DEF Forget
<1> QED
  BY <1>1, <1>2, <1>4, <1>5, <1>6

LEMMA HubDropsKeeps == ASSUME ViewInv, NEW c \in Conns, HubDrops(c) PROVE ViewInv'
<1>1. /\ Forget({c}) /\ up' = [up EXCEPT ![c] = << >>]
      /\ UNCHANGED <<bus, server, browser>> /\ UNCHANGED <<dirty, down, half>>
  BY DEF HubDrops
<1>2. HubInv
  BY DEF ViewInv, TypeInv
<1>3. Sound(Events)' /\ ServerInv' /\ BrowserInv'
  BY <1>1, Untouched DEF ViewInv
<1>4. HubInv'
  BY <1>1, <1>2, ForgetIs DEF HubInv
<1>5. NetInv'
  <2>1. << >> \in Seq(Messages)
    BY EmptySeq
  <2>2. up' \in [Conns -> Seq(Messages)]
    BY <1>1, <2>1 DEF ViewInv, TypeInv, NetInv
  <2> QED BY <1>1, <2>2 DEF ViewInv, TypeInv, NetInv
<1>6. MirrorsLast'
  <2>1. /\ clients' = clients \ {c}
        /\ \A d \in clients' : clientSubs'[d] = clientSubs[d] /\ last'[d] = last[d]
    BY <1>1, <1>2, ForgetIs
  <2>2. UNCHANGED <<cur, view, down, half>>
    BY <1>1 DEF browser
  <2> QED BY <2>1, <2>2, MirrorStays DEF ViewInv
<1> QED
  BY <1>3, <1>4, <1>5, <1>6 DEF ViewInv, TypeInv

LEMMA HubStopKeeps == ASSUME ViewInv, HubStop PROVE ViewInv'
<1>1. /\ Unsubscribe("hub") /\ dirty' = FALSE /\ Forget(clients)
      /\ up' = [c \in Conns |-> << >>]
      /\ UNCHANGED <<server, browser>> /\ UNCHANGED <<down, half>>
  BY DEF HubStop
<1>2. HubInv /\ Sound(Events)
  BY DEF ViewInv, TypeInv
<1>3. Sound(Events)' /\ ServerInv' /\ BrowserInv'
  BY <1>1, <1>2, Untouched, UnsubscribeSound, ConstantFacts DEF ViewInv
<1>4. HubInv'
  BY <1>1, <1>2, ForgetIs DEF HubInv
<1>5. NetInv'
  <2>1. << >> \in Seq(Messages)
    BY EmptySeq
  <2> QED BY <1>1, <2>1 DEF ViewInv, TypeInv, NetInv
<1>6. MirrorsLast'
  <2>1. clients' = {}
    BY <1>1, <1>2, ForgetIs
  <2>2. UNCHANGED <<cur, view>>
    BY <1>1 DEF browser
  <2> QED BY <2>1, <2>2, MirrorStays DEF ViewInv
<1> QED
  BY <1>3, <1>4, <1>5, <1>6 DEF ViewInv, TypeInv

-----------------------------------------------------------------------------
\* The browser.

\* connect: the new client has no memory and the screen is empty.
LEMMA ConnectKeeps == ASSUME ViewInv, NEW c \in Conns, Connect(c) PROVE ViewInv'
<1>1. /\ c \notin clients /\ Cardinality(clients) < MaxClients
      /\ cur' = c /\ half' = half \ {c} /\ clients' = clients \cup {c}
      /\ clientSubs' = [clientSubs EXCEPT ![c] = {}] /\ last' = [last EXCEPT ![c] = Nothing]
      /\ up' = [up EXCEPT ![c] = Resubscribe] /\ down' = [down EXCEPT ![c] = << >>]
      /\ UNCHANGED <<bus, server>> /\ UNCHANGED <<dirty, refs, view>>
  BY DEF Connect
<1>2. HubInv /\ NetInv /\ BrowserInv
  BY DEF ViewInv, TypeInv
<1>3. Sound(Events)' /\ ServerInv'
  BY <1>1, Untouched DEF ViewInv
<1>4. HubInv'
  <2>1. IsFiniteSet(clients') /\ Cardinality(clients') = Cardinality(clients) + 1 /\ Cardinality(clients) \in Nat
    BY <1>1, <1>2, FS_AddElement, FS_CardinalityType DEF HubInv
  <2>2. Cardinality(clients') <= MaxClients
    BY <1>1, <2>1, ConstantFacts
  <2>3. clientSubs' \in [Conns -> SUBSET Keys]
    BY <1>1, <1>2 DEF HubInv
  <2>4. last' \in [Conns -> Partial]
    BY <1>1, <1>2, ConstantFacts DEF HubInv
  <2> QED BY <1>1, <1>2, <2>1, <2>2, <2>3, <2>4 DEF HubInv
<1>5. NetInv'
  <2>1. << >> \in Seq(Frames) /\ Len(<< >>) = 0 /\ << >> \in Seq(Messages)
    BY EmptySeq
  <2>2. Resubscribe \in Seq(Messages)
    <3>1. Message("subscribe", Wanted) \in Messages
      BY DEF Message, Messages, Wanted
    <3>2. <<Message("subscribe", Wanted)>> \in Seq(Messages)
      BY <3>1
    <3> QED BY <2>1, <3>2 DEF Resubscribe
  <2>3. up' \in [Conns -> Seq(Messages)] /\ down' \in [Conns -> Seq(Frames)]
    BY <1>1, <1>2, <2>1, <2>2 DEF NetInv
  <2>4. \A d \in Conns : Len(down'[d]) <= SendBuffer
    BY <1>1, <1>2, <2>1, ConstantFacts DEF NetInv
  <2> QED BY <1>1, <1>2, <2>3, <2>4 DEF NetInv
<1>6. BrowserInv'
  BY <1>1, <1>2 DEF BrowserInv
<1>7. MirrorsLast'
  <2>1. clientSubs'[c] = {}
    BY <1>1, <1>2 DEF HubInv
  <2> QED BY <1>1, <2>1 DEF MirrorsLast
<1> QED
  BY <1>3, <1>4, <1>5, <1>6, <1>7 DEF ViewInv, TypeInv

\* subscribe and its release only ask.
LEMMA ToggleKeeps ==
  ASSUME ViewInv, NEW k \in Keys, View(k) \/ Leave(k)
  PROVE  ViewInv'
<1>1. /\ UNCHANGED <<bus, server, hub>> /\ UNCHANGED <<down, half, cur, view>>
      /\ up' = up \/ \E type \in {"subscribe", "unsubscribe"} : up' = Sent(Message(type, {k}))
  BY DEF View, Leave
<1>2. HubInv /\ NetInv /\ BrowserInv
  BY DEF ViewInv, TypeInv
<1>3. Sound(Events)' /\ ServerInv' /\ HubInv'
  BY <1>1, Untouched DEF ViewInv
<1>4. BrowserInv'
  <2>1. refs \in [Keys -> 0 .. MaxRefs] /\ MaxRefs \in Nat /\ refs[k] \in 0 .. MaxRefs
    BY <1>2, ConstantFacts DEF BrowserInv
  <2>2. CASE View(k)
    <3>1. refs[k] + 1 \in 0 .. MaxRefs /\ refs' = [refs EXCEPT ![k] = refs[k] + 1]
      BY <2>1, <2>2 DEF View
    <3>2. refs' \in [Keys -> 0 .. MaxRefs]
      BY <2>1, <3>1
    <3> QED BY <1>1, <1>2, <3>2 DEF BrowserInv
  <2>3. CASE Leave(k)
    <3>1. refs[k] - 1 \in 0 .. MaxRefs /\ refs' = [refs EXCEPT ![k] = refs[k] - 1]
      BY <2>1, <2>3 DEF Leave
    <3>2. refs' \in [Keys -> 0 .. MaxRefs]
      BY <2>1, <3>1
    <3> QED BY <1>1, <1>2, <3>2 DEF BrowserInv
  <2> QED BY <2>2, <2>3
<1>5. NetInv'
  <2>1. ASSUME NEW type \in {"subscribe", "unsubscribe"}
        PROVE  Sent(Message(type, {k})) \in [Conns -> Seq(Messages)]
    <3> DEFINE msg == Message(type, {k})
    <3>1. msg \in Messages
      BY DEF Message, Messages
    <3> HIDE DEF msg
    <3>2. CASE cur = None \/ cur \notin clients \/ cur \in half
      BY <1>2, <3>2 DEF Sent, NetInv
    <3>3. CASE cur \in clients /\ cur # None /\ cur \notin half
      <4>1. cur \in Conns /\ up[cur] \in Seq(Messages)
        BY <1>2, <3>3 DEF HubInv, NetInv
      <4>2. Append(up[cur], msg) \in Seq(Messages)
        BY <3>1, <4>1, AppendProperties
      <4>3. [up EXCEPT ![cur] = Append(up[cur], msg)] \in [Conns -> Seq(Messages)]
        BY <1>2, <4>2 DEF NetInv
      <4>4. Sent(msg) = [up EXCEPT ![cur] = Append(up[cur], msg)]
        BY <3>3, Zenon DEF Sent
      <4> QED BY <4>3, <4>4 DEF msg
    <3> QED BY <3>2, <3>3 DEF msg
  <2> QED BY <1>1, <1>2, <2>1 DEF NetInv
<1>6. MirrorsLast'
  <2>1. UNCHANGED <<clients, clientSubs, last, down, half, cur, view>>
    BY <1>1 DEF hub
  <2> QED BY <2>1, MirrorStays DEF ViewInv
<1> QED
  BY <1>3, <1>4, <1>5, <1>6 DEF ViewInv, TypeInv

\* onmessage: what is read was already coming.
LEMMA RenderKeeps == ASSUME ViewInv, Render PROVE ViewInv'
<1>1. /\ cur # None /\ down[cur] # << >> /\ view' = Shown(view, Head(down[cur]))
      /\ down' = [down EXCEPT ![cur] = Tail(@)]
      /\ UNCHANGED <<bus, server, hub>> /\ UNCHANGED <<up, half, cur, refs>>
  BY DEF Render
<1>2. HubInv /\ NetInv /\ BrowserInv /\ cur \in Conns /\ down[cur] \in Seq(Frames)
  BY <1>1 DEF ViewInv, TypeInv, NetInv, BrowserInv
<1>3. Sound(Events)' /\ ServerInv' /\ HubInv'
  BY <1>1, Untouched DEF ViewInv
<1>4. /\ Head(down[cur]) \in Frames /\ Tail(down[cur]) \in Seq(Frames)
      /\ Len(Tail(down[cur])) = Len(down[cur]) - 1 /\ Len(down[cur]) \in Nat
  BY <1>1, <1>2, HeadTailProperties, LenProperties
<1>5. BrowserInv'
  <2> DEFINE f == Head(down[cur])
  <2>1. f.values \in Partial /\ view \in Partial
    BY <1>2, <1>4 DEF Frames, BrowserInv
  <2> HIDE DEF f
  <2>2. Shown(view, f) \in Partial
    BY <2>1, ConstantFacts DEF Shown, Partial
  <2> QED BY <1>1, <1>2, <2>2 DEF BrowserInv, f
<1>6. NetInv'
  <2>1. down' \in [Conns -> Seq(Frames)]
    BY <1>1, <1>2, <1>4 DEF NetInv
  <2>2. \A c \in Conns : Len(down'[c]) <= SendBuffer
    <3>1. Len(down[cur]) <= SendBuffer /\ SendBuffer \in Nat
      BY <1>2, ConstantFacts DEF NetInv
    <3>2. Len(Tail(down[cur])) <= SendBuffer
      BY <1>4, <3>1
    <3> QED BY <1>1, <1>2, <3>2 DEF NetInv
  <2> QED BY <1>1, <1>2, <2>1, <2>2 DEF NetInv
<1>7. MirrorsLast'
  <2>1. down'[cur] = Tail(down[cur])
    BY <1>1, <1>2 DEF NetInv
  <2>2. Coming' = Coming
    BY <1>1, <1>2, <2>1, ToldIs
  <2>3. UNCHANGED <<clients, clientSubs, last, half, cur>>
    BY <1>1 DEF hub
  <2> QED BY <2>2, <2>3 DEF ViewInv, MirrorsLast
<1> QED
  BY <1>3, <1>5, <1>6, <1>7 DEF ViewInv, TypeInv

\* handleClose: the screen is cleared.
LEMMA LostKeeps == ASSUME ViewInv, Notice \/ Breaks PROVE ViewInv'
<1>1. /\ cur # None /\ cur' = None /\ view' = Nothing /\ down' = [down EXCEPT ![cur] = << >>]
      /\ half' \subseteq half
      /\ UNCHANGED <<bus, server, hub>> /\ UNCHANGED <<up, refs>>
  BY DEF Notice, Breaks, Disconnected
<1>2. HubInv /\ NetInv /\ BrowserInv
  BY DEF ViewInv, TypeInv
<1>3. Sound(Events)' /\ ServerInv' /\ HubInv'
  BY <1>1, Untouched DEF ViewInv
<1>4. BrowserInv'
  BY <1>1, <1>2, ConstantFacts DEF BrowserInv
<1>5. NetInv'
  <2>1. << >> \in Seq(Frames) /\ Len(<< >>) = 0
    BY EmptySeq
  <2>2. down' \in [Conns -> Seq(Frames)]
    BY <1>1, <1>2, <2>1 DEF NetInv
  <2>3. \A d \in Conns : Len(down'[d]) <= SendBuffer
    BY <1>1, <1>2, <2>1, ConstantFacts DEF NetInv
  <2> QED BY <1>1, <1>2, <2>2, <2>3 DEF NetInv
<1>6. MirrorsLast'
  BY <1>1, <1>3, NoMirror
<1> QED
  BY <1>3, <1>4, <1>5, <1>6 DEF ViewInv, TypeInv

\* A connection that dies has nothing to be compared with any more.
LEMMA DiesKeeps == ASSUME ViewInv, Dies PROVE ViewInv'
<1>1. /\ cur # None /\ half' = half \cup {cur} /\ up' = [up EXCEPT ![cur] = << >>]
      /\ UNCHANGED <<bus, server, hub, browser>> /\ UNCHANGED down
  BY DEF Dies
<1>2. NetInv /\ cur \in Conns
  BY <1>1 DEF ViewInv, TypeInv, BrowserInv
<1>3. Sound(Events)' /\ ServerInv' /\ HubInv' /\ BrowserInv'
  BY <1>1, Untouched DEF ViewInv
<1>4. NetInv'
  <2>1. << >> \in Seq(Messages)
    BY EmptySeq
  <2>2. up' \in [Conns -> Seq(Messages)]
    BY <1>1, <1>2, <2>1 DEF NetInv
  <2> QED BY <1>1, <1>2, <2>2 DEF NetInv
<1>5. MirrorsLast'
  <2>1. cur' = cur /\ view' = view
    BY <1>1 DEF browser
  <2> QED BY <1>1, <2>1, MirrorStays DEF ViewInv
<1> QED
  BY <1>3, <1>4, <1>5 DEF ViewInv, TypeInv

-----------------------------------------------------------------------------
\* The theorems.

LEMMA ViewInit == Init => ViewInv
<1> SUFFICES ASSUME Init PROVE ViewInv
  OBVIOUS
<1>1. TypeInv
  BY InitTypes
<1>2. MirrorsLast
  BY DEF Init, MirrorsLast
<1> QED
  BY <1>1, <1>2 DEF ViewInv

LEMMA ViewStep == ViewInv /\ [Next]_vars => ViewInv'
<1> SUFFICES ASSUME ViewInv, [Next]_vars PROVE ViewInv'
  OBVIOUS
<1>1. CASE Poll \/ PollPublish \/ PollClose \/ AggMerge \/ AggPublish \/ BusStep
  BY <1>1, ServerKeeps
<1>2. CASE HubReceive \/ HubStart
  BY <1>2, HubListens
<1>3. CASE HubFlush
  BY <1>3, HubFlushKeeps
<1>4. CASE HubStop
  BY <1>4, HubStopKeeps
<1>5. ASSUME NEW c \in Conns, HubHandle(c) \/ HubDrops(c) \/ Connect(c) PROVE ViewInv'
  BY <1>5, HubHandleKeeps, HubDropsKeeps, ConnectKeeps
<1>6. ASSUME NEW k \in Keys, View(k) \/ Leave(k) PROVE ViewInv'
  BY <1>6, ToggleKeeps
<1>7. CASE Render
  BY <1>7, RenderKeeps
<1>8. CASE Notice \/ Breaks
  BY <1>8, LostKeeps
<1>9. CASE Dies
  BY <1>9, DiesKeeps
<1>10. CASE UNCHANGED vars
  <2>1. UNCHANGED <<bus, server, hub, net, browser>>
    BY <1>10 DEF vars
  <2>2. TypeInv'
    BY <2>1, Untouched DEF ViewInv, TypeInv
  <2>3. MirrorsLast'
    BY <2>1, MirrorStays DEF hub, net, browser, ViewInv
  <2> QED BY <2>2, <2>3 DEF ViewInv
<1> QED
  BY <1>1, <1>2, <1>3, <1>4, <1>5, <1>6, <1>7, <1>8, <1>9, <1>10 DEF Next

\* Every variable keeps its type: in particular the hub never serves more clients
\* than it may (ServeHTTP) and no queue holds more than its buffer (enqueue).
THEOREM LiveViewTypes == Spec => []LiveViewTypeOK
<1>1. ViewInv => LiveViewTypeOK
  BY TypesOK DEF ViewInv
<1> QED
  BY <1>1, ViewInit, ViewStep, PTL DEF Spec

\* What the hub remembers having sent to the browser (clientState.last) is what
\* the browser shows once it has read its frames, whatever is dropped, replaced,
\* disconnected or released on the way, so that diff never holds a change back.
THEOREM HubMirrorsBrowser == Spec => []MirrorsLast
<1>1. ViewInv => MirrorsLast
  BY DEF ViewInv
<1> QED
  BY <1>1, ViewInit, ViewStep, PTL DEF Spec
=============================================================================
