---------------------------- MODULE UpgradeProofs ---------------------------
(***************************************************************************)
(* Upgrade for every number of processes, backups, rows and faults: stored *)
(* data is rewritten only when a sound backup covers it, and the migration *)
(* leaves one normal row for every instant.                                *)
(***************************************************************************)
EXTENDS Upgrade, SequenceTheorems, SumTheorems

-----------------------------------------------------------------------------
\* Sequences of backups.

\* A sequence whose elements are replaced is a sequence of the same length.
LEMMA MapSeq ==
  ASSUME NEW S, NEW s \in Seq(S), NEW g \in [DOMAIN s -> S]
  PROVE  g \in Seq(S) /\ Len(g) = Len(s)
<1>1. Len(s) \in Nat /\ DOMAIN s = 1 .. Len(s)
  BY LenProperties
<1> QED
  BY <1>1

\* RemoveAt closes the gap.
LEMMA RemoveAtIs ==
  ASSUME NEW S, NEW s \in Seq(S), NEW i \in DOMAIN s
  PROVE  /\ RemoveAt(s, i) \in Seq(S)
         /\ Len(RemoveAt(s, i)) = Len(s) - 1
         /\ \A k \in 1 .. Len(s) - 1 : RemoveAt(s, i)[k] = s[IF k < i THEN k ELSE k + 1]
<1>1. Len(s) \in Nat /\ DOMAIN s = 1 .. Len(s) /\ i \in 1 .. Len(s)
  BY LenProperties
<1> DEFINE a == SubSeq(s, 1, i - 1)
           b == SubSeq(s, i + 1, Len(s))
<1>2. a \in Seq(S) /\ Len(a) = i - 1 /\ \A k \in 1 .. i - 1 : a[k] = s[k]
  BY <1>1
<1>3. b \in Seq(S) /\ Len(b) = Len(s) - i /\ \A k \in 1 .. Len(s) - i : b[k] = s[i + k]
  BY <1>1
<1> HIDE DEF a, b
<1>4. /\ a \o b \in Seq(S)
      /\ Len(a \o b) = Len(s) - 1
      /\ \A k \in 1 .. Len(s) - 1 : (a \o b)[k] = IF k <= i - 1 THEN a[k] ELSE b[k - (i - 1)]
  <2>1. Len(a) + Len(b) = Len(s) - 1
    BY <1>1, <1>2, <1>3
  <2>2. /\ a \o b \in Seq(S) /\ Len(a \o b) = Len(a) + Len(b)
        /\ \A k \in 1 .. Len(a) + Len(b) :
              (a \o b)[k] = IF k <= Len(a) THEN a[k] ELSE b[k - Len(a)]
    BY <1>2, <1>3, ConcatProperties, Zenon
  <2> QED BY <1>2, <2>1, <2>2
<1>5. ASSUME NEW k \in 1 .. Len(s) - 1
      PROVE  (a \o b)[k] = s[IF k < i THEN k ELSE k + 1]
  <2>1. CASE k < i
    BY <1>1, <1>2, <1>4, <2>1
  <2>2. CASE ~(k < i)
    <3>1. k - (i - 1) \in 1 .. Len(s) - i /\ i + (k - (i - 1)) = k + 1 /\ ~(k <= i - 1)
      BY <1>1, <2>2
    <3>2. b[k - (i - 1)] = s[k + 1]
      BY <1>3, <3>1
    <3> QED BY <1>4, <2>2, <3>1, <3>2
  <2> QED BY <2>1, <2>2
<1> QED
  BY <1>4, <1>5 DEF RemoveAt, a, b

\* The last n elements of a sequence.
LEMMA NewestAre ==
  ASSUME NEW S, NEW s \in Seq(S), NEW n \in Nat \ {0}, n < Len(s)
  PROVE  LET r == SubSeq(s, Len(s) - n + 1, Len(s)) IN
         /\ r \in Seq(S) /\ Len(r) = n
         /\ \A k \in 1 .. n : r[k] = s[Len(s) - n + k]
<1>1. Len(s) \in Nat /\ DOMAIN s = 1 .. Len(s)
  BY LenProperties
<1> QED
  BY <1>1

-----------------------------------------------------------------------------
\* Normalized, as a loop over the rows.

\* The recursion FoldLeft stands for.
InOrder == [i \in Ids |-> i]

FoldStep(rows, it, s) ==
    IF s = {} THEN rows ELSE Rewritten(it[s \ {Max(s)}], InOrder[Max(s)])

IsFold(rows, it) == it = [s \in SUBSET DOMAIN InOrder |-> FoldStep(rows, it, s)]

\* n[i] is what the rows are after the i-th step.
IsLoop(rows, n) == n[0] = rows /\ \A i \in Ids : n[i] = Rewritten(n[i - 1], i)

\* A set of the first n numbers has a largest one.
LEMMA MaxOf ==
  ASSUME NEW n \in Nat, NEW s \in SUBSET (1 .. n), s # {}
  PROVE  Max(s) \in s /\ \A y \in s : Max(s) >= y
<1> DEFINE P == {m \in Nat : \A r \in SUBSET (1 .. m) : r # {} => \E x \in r : \A y \in r : x >= y}
<1>1. 0 \in P
  <2>1. \A r \in SUBSET (1 .. 0) : r = {}
    OBVIOUS
  <2> QED BY <2>1
<1>2. ASSUME NEW m \in P PROVE m + 1 \in P
  <2>1. SUFFICES ASSUME NEW r \in SUBSET (1 .. m + 1), r # {}
                 PROVE  \E x \in r : \A y \in r : x >= y
    OBVIOUS
  <2>2. CASE m + 1 \in r
    BY <2>2
  <2>3. CASE m + 1 \notin r
    <3>1. r \in SUBSET (1 .. m)
      BY <2>3
    <3> QED BY <2>1, <3>1
  <2> QED BY <2>2, <2>3
<1>3. P = Nat
  <2> HIDE DEF P
  <2>1. P \in SUBSET Nat
    BY DEF P
  <2> QED BY <1>1, <1>2, <2>1, NatSetInduction
<1>4. \E x \in s : \A y \in s : x >= y
  BY <1>3
<1> QED
  BY <1>4 DEF Max

\* The recursion has a solution: it is built up from the empty set.
LEMMA FoldExists ==
  ASSUME NEW rows
  PROVE  \E it : IsFold(rows, it)
<1> DEFINE Upto(n, it) == it = [s \in SUBSET (1 .. n) |-> FoldStep(rows, it, s)]
           P == {n \in Nat : \E it : Upto(n, it)}
<1>1. 0 \in P
  <2> DEFINE it == [s \in SUBSET (1 .. 0) |-> rows]
  <2>1. \A s \in SUBSET (1 .. 0) : s = {}
    OBVIOUS
  <2>2. Upto(0, it)
    BY <2>1 DEF FoldStep
  <2> QED BY <2>2
<1>2. ASSUME NEW n \in P PROVE n + 1 \in P
  <2>1. PICK it : Upto(n, it)
    OBVIOUS
  <2> DEFINE jt == [s \in SUBSET (1 .. n + 1) |-> FoldStep(rows, it, s)]
  <2>2. ASSUME NEW s \in SUBSET (1 .. n + 1)
        PROVE  FoldStep(rows, jt, s) = FoldStep(rows, it, s)
    <3>1. CASE s = {}
      BY <3>1 DEF FoldStep
    <3>2. CASE s # {}
      <4> DEFINE r == s \ {Max(s)}
      <4>1. r \in SUBSET (1 .. n)
        <5>1. n + 1 \in Nat
          OBVIOUS
        <5>2. Max(s) \in s /\ \A y \in s : Max(s) >= y
          BY <5>1, <3>2, MaxOf
        <5>3. ASSUME NEW y \in r PROVE y \in 1 .. n
          <6> DEFINE x == Max(s)
          <6>1. x \in 1 .. n + 1 /\ y \in 1 .. n + 1 /\ x >= y /\ y # x
            BY <5>2
          <6> HIDE DEF x
          <6> QED BY <5>1, <6>1
        <5> QED BY <5>3
      <4>2. r \in SUBSET (1 .. n + 1)
        OBVIOUS
      <4>3. jt[r] = FoldStep(rows, it, r)
        BY <4>2
      <4>4. it[r] = FoldStep(rows, it, r)
        BY <2>1, <4>1
      <4> HIDE DEF jt, r
      <4>5. jt[r] = it[r]
        BY <4>3, <4>4
      <4> QED BY <4>5 DEF FoldStep, r
    <3> QED BY <3>1, <3>2
  <2>3. Upto(n + 1, jt)
    BY <2>2
  <2> HIDE DEF jt
  <2>4. \E kt : Upto(n + 1, kt)
    BY <2>3, Zenon
  <2>5. n + 1 \in Nat
    OBVIOUS
  <2> QED BY <2>4, <2>5
<1>3. P = Nat
  <2> HIDE DEF P
  <2>1. P \in SUBSET Nat
    BY DEF P
  <2> QED BY <1>1, <1>2, <2>1, NatSetInduction
<1>4. MaxRows \in P
  BY <1>3, UpgradeAssumption
<1>5. PICK it : Upto(MaxRows, it)
  BY <1>4
<1>6. DOMAIN InOrder = 1 .. MaxRows
  BY DEF InOrder, Ids
<1> QED
  BY <1>5, <1>6 DEF IsFold

\* Normalized takes one row after the other.
LEMMA NormalizedLoop ==
  ASSUME NEW rows
  PROVE  \E n : IsLoop(rows, n) /\ Normalized(rows) = n[MaxRows]
<1> DEFINE it == CHOOSE jt : IsFold(rows, jt)
<1>1. IsFold(rows, it)
  BY FoldExists
<1>2. Normalized(rows) = it[DOMAIN InOrder]
  BY DEF Normalized, FoldLeft, MapThenFoldSet, IsFold, FoldStep, InOrder
<1> HIDE DEF it
<1> DEFINE n == [i \in 0 .. MaxRows |-> it[1 .. i]]
<1>3. MaxRows \in Nat /\ DOMAIN InOrder = Ids /\ Ids = 1 .. MaxRows
  BY UpgradeAssumption DEF InOrder, Ids
<1>4. \A s \in SUBSET Ids : it[s] = FoldStep(rows, it, s)
  BY <1>1, <1>3, Zenon DEF IsFold
<1>5. n[0] = rows
  <2>1. n[0] = it[{}]
    BY <1>3
  <2> QED BY <2>1, <1>4 DEF FoldStep
<1>6. ASSUME NEW i \in Ids PROVE n[i] = Rewritten(n[i - 1], i)
  <2> DEFINE s == 1 .. i
  <2>1. i \in Nat /\ s \in SUBSET Ids /\ s \in SUBSET (1 .. i) /\ s # {} /\ i \in s
    <3>1. i \in Nat /\ i >= 1 /\ i <= MaxRows
      BY <1>3
    <3>2. i \in s /\ \A x \in s : x \in Ids
      BY <1>3, <3>1
    <3> QED BY <3>1, <3>2
  <2>2. Max(s) \in s /\ \A y \in s : Max(s) >= y
    BY <2>1, MaxOf
  <2>3. Max(s) = i
    BY <2>1, <2>2
  <2>4. s \ {i} = 1 .. (i - 1)
    BY <2>1
  <2>5. it[s] = Rewritten(it[1 .. (i - 1)], i)
    <3>1. it[s] = FoldStep(rows, it, s)
      BY <1>4, <2>1
    <3> HIDE DEF s
    <3> QED BY <3>1, <2>1, <2>3, <2>4 DEF FoldStep, InOrder
  <2>6. n[i] = it[s] /\ n[i - 1] = it[1 .. (i - 1)]
    BY <1>3, <2>1
  <2> HIDE DEF n, s
  <2> QED BY <2>5, <2>6
<1>7. Normalized(rows) = n[MaxRows]
  BY <1>2, <1>3
<1> HIDE DEF n
<1>8. IsLoop(rows, n)
  BY <1>5, <1>6 DEF IsLoop
<1> QED
  BY <1>7, <1>8

-----------------------------------------------------------------------------
\* The rows and the database have their types.

Rows == {NoRow, Garbage} \cup [at : Ids, form : Forms]

\* What holds before the first row and is kept by each holds in the end.
LEMMA RowInduction ==
  ASSUME NEW Q, 0 \in Q, \A i \in Ids : i - 1 \in Q => i \in Q
  PROVE  MaxRows \in Q
<1> DEFINE P == {k \in Nat : k <= MaxRows => k \in Q}
<1>1. MaxRows \in Nat /\ Ids = 1 .. MaxRows
  BY UpgradeAssumption DEF Ids
<1>2. 0 \in P
  OBVIOUS
<1>3. ASSUME NEW k \in P PROVE k + 1 \in P
  <2>1. k \in Nat /\ k + 1 \in Nat /\ (k + 1) - 1 = k
    OBVIOUS
  <2>2. ASSUME k + 1 <= MaxRows PROVE k + 1 \in Q
    <3>1. k \in Q /\ k + 1 \in Ids
      BY <1>1, <2>1, <2>2
    <3>2. (k + 1) - 1 \in Q
      BY <2>1, <3>1
    <3> QED BY <3>1, <3>2
  <2> QED BY <2>1, <2>2
<1>4. P = Nat
  <2> HIDE DEF P
  <2>1. P \in SUBSET Nat
    BY DEF P
  <2> QED BY <1>2, <1>3, <2>1, NatSetInduction
<1> QED
  BY <1>1, <1>4

\* A legacy row has an instant.
LEMMA LegacyRow ==
  ASSUME NEW row \in Rows
  PROVE  /\ Legacy(row) => row \in [at : Ids, form : Forms] /\ row.form # "normal"
         /\ row.form = "normal" => row = Normal(row.at)
         /\ ~Legacy(row) => row \in {NoRow, Garbage} \/ row = Normal(row.at)
         /\ ~Legacy(NoRow) /\ ~Legacy(Garbage)
BY DEF Rows, Legacy, NoRow, Garbage, Normal, Forms

\* What a step does to a legacy row, and to the others.
LEMMA RewrittenIs ==
  ASSUME NEW rows \in [Ids -> Rows], NEW i \in Ids
  PROVE  /\ Rewritten(rows, i) \in [Ids -> Rows]
         /\ \A j \in Ids : j # i => Rewritten(rows, i)[j] = rows[j]
         /\ ~Legacy(rows[i]) => Rewritten(rows, i)[i] = rows[i]
         /\ Legacy(rows[i]) =>
              Rewritten(rows, i)[i] = IF \E j \in Ids : rows[j] = Normal(rows[i].at)
                                      THEN NoRow ELSE Normal(rows[i].at)
<1>1. CASE ~Legacy(rows[i])
  BY <1>1 DEF Rewritten
<1>2. CASE Legacy(rows[i])
  <2> DEFINE new == IF \E j \in Ids : rows[j] = Normal(rows[i].at)
                    THEN NoRow ELSE Normal(rows[i].at)
  <2>1. Rewritten(rows, i) = [rows EXCEPT ![i] = new]
    BY <1>2 DEF Rewritten
  <2>2. new \in Rows
    BY <1>2, LegacyRow DEF Rows, Normal, Forms
  <2> HIDE DEF new
  <2>3. /\ Rewritten(rows, i) \in [Ids -> Rows] /\ Rewritten(rows, i)[i] = new
        /\ \A j \in Ids : j # i => Rewritten(rows, i)[j] = rows[j]
    BY <2>1, <2>2
  <2> QED BY <2>3, <1>2 DEF new
<1> QED
  BY <1>1, <1>2

\* The rows stay rows.
LEMMA NormalizedType ==
  ASSUME NEW rows \in [Ids -> Rows]
  PROVE  Normalized(rows) \in [Ids -> Rows]
<1>1. PICK n : IsLoop(rows, n) /\ Normalized(rows) = n[MaxRows]
  BY NormalizedLoop
<1> DEFINE Q == {i \in 0 .. MaxRows : n[i] \in [Ids -> Rows]}
<1>2. MaxRows \in Nat /\ Ids = 1 .. MaxRows
  BY UpgradeAssumption DEF Ids
<1>3. 0 \in Q
  BY <1>1, <1>2 DEF IsLoop
<1>4. ASSUME NEW i \in Ids, i - 1 \in Q PROVE i \in Q
  <2>1. n[i] = Rewritten(n[i - 1], i) /\ n[i - 1] \in [Ids -> Rows]
    BY <1>1, <1>4 DEF IsLoop
  <2>2. n[i] \in [Ids -> Rows]
    BY <2>1, RewrittenIs
  <2> QED BY <1>2, <2>2
<1> HIDE DEF Q
<1>5. MaxRows \in Q
  BY <1>3, <1>4, RowInduction
<1> QED
  BY <1>1, <1>5 DEF Q

Dbs == [version : 0 .. Current + 1, rows : [Ids -> Rows], computed : {0, 1}]

\* The migration sets the version and rewrites the rows.
LEMMA MigratedIs ==
  ASSUME NEW d \in Dbs
  PROVE  /\ Migrated(d) \in Dbs
         /\ Migrated(d) = [version |-> Current, rows |-> Normalized(d.rows),
                           computed |-> d.computed]
<1>1. d.rows \in [Ids -> Rows] /\ d.computed \in {0, 1}
  BY DEF Dbs
<1>2. Normalized(d.rows) \in [Ids -> Rows]
  BY <1>1, NormalizedType
<1>3. Migrated(d) = [version |-> Current, rows |-> Normalized(d.rows), computed |-> d.computed]
  <2> DEFINE r == Normalized(d.rows)
  <2>1. Migrated(d) = [d EXCEPT !.version = Current, !.rows = r]
    BY DEF Migrated, Dbs
  <2> HIDE DEF r
  <2>2. Migrated(d) = [version |-> Current, rows |-> r, computed |-> d.computed]
    BY <2>1 DEF Dbs
  <2> QED BY <2>2 DEF r
<1> QED
  BY <1>1, <1>2, <1>3 DEF Dbs, Current

Backups == [by : Procs \cup {Nobody}, state : {"partial", "sound", "unsound"}, content : Dbs]

TypeInv ==
    /\ db \in Dbs /\ exists \in BOOLEAN /\ original \in Dbs /\ faults \in Nat
    /\ files \in Seq(Backups)
    /\ pc \in [Procs -> {"off", "prepare", "copy", "verify", "migrate", "rotate", "open"}]
    /\ goal \in [Procs -> {"none", "migration", "periodic", "job"}]

-----------------------------------------------------------------------------
\* The inductive invariant: what each process knows of the database and of the
\* backups.

\* What the backup of a process is for.
Roles(p) ==
    /\ pc[p] \in {"copy", "verify", "rotate"} =>
          goal[p] \in IF p \in Jobs THEN {"migration", "job"} ELSE {"migration", "periodic"}
    /\ pc[p] = "migrate" => goal[p] = "migration"

\* The schema is the current one wherever the database is open, and one that can
\* be migrated where it is about to be.
Versions(p) ==
    /\ pc[p] = "open" => db.version = Current
    /\ pc[p] \in {"copy", "verify", "rotate"} /\ goal[p] = "periodic" => db.version = Current
    /\ pc[p] = "rotate" /\ goal[p] = "migration" => db.version = Current
    /\ pc[p] \in {"copy", "verify", "migrate"} /\ goal[p] = "migration" =>
          Compatible(db) /\ db.version <= Current

\* The lock.
Exclusive(p) == p \in Jobs /\ pc[p] # "off" => \A q \in Procs : q # p => pc[q] = "off"

\* Whoever is past opening it has a database.
Opened(p) == pc[p] # "off" /\ (p \in Jobs \/ pc[p] # "prepare") => exists

\* What is verified is still what the database holds.
Fresh(p) ==
    pc[p] = "verify" =>
        /\ db.version < Current \/ p \in Jobs => \A i \in Mine(p) : files[i].content = db
        /\ \A i, j \in Mine(p) : files[i].state = files[j].state

\* A backup that counts, of exactly the database.
Saves(file, d) == file.by = Nobody /\ file.state = "sound" /\ file.content = d

\* A server about to migrate stored data has saved it.
Saved(p) ==
    p \in Servers /\ pc[p] = "migrate" /\ Oldest <= db.version /\ db.version < Current =>
        \E i \in DOMAIN files : Saves(files[i], db)

\* A job's backup is the newest one, until the job has ended.
JobFile(p) ==
    p \in Jobs /\ pc[p] # "off" =>
        /\ Len(files) > 0
        /\ LET newest == files[Len(files)] IN
           /\ pc[p] \in {"copy", "verify"} => newest.by = p
           /\ pc[p] \in {"rotate", "prepare", "migrate", "open"} =>
                 /\ Saves(newest, newest.content)
                 /\ db \in {newest.content, Migrated(newest.content)}
           /\ pc[p] = "migrate" => newest.content = db

Good(p) ==
    Roles(p) /\ Versions(p) /\ Exclusive(p) /\ Opened(p) /\ Fresh(p) /\ Saved(p) /\ JobFile(p)

CoverInv == TypeInv /\ (db.version >= Oldest => exists) /\ \A p \in Procs : Good(p)

-----------------------------------------------------------------------------
\* What the operations do to the backups.

\* A backup is started: it is the newest.
LEMMA StartIs ==
  ASSUME TypeInv, NEW p \in Procs, NEW for \in {"migration", "periodic", "job"},
         StartBackup(p, for)
  PROVE  /\ files' \in Seq(Backups) /\ Len(files') = Len(files) + 1
         /\ \A i \in 1 .. Len(files) : files'[i] = files[i]
         /\ files'[Len(files')].by = p
         /\ pc' = [pc EXCEPT ![p] = "copy"] /\ goal' = [goal EXCEPT ![p] = for]
<1> DEFINE new == [by |-> p, state |-> "partial", content |-> db]
<1>1. new \in Backups /\ files \in Seq(Backups)
  BY DEF TypeInv, Backups
<1>2. files' = Append(files, new)
  BY DEF StartBackup
<1> HIDE DEF new
<1>3. /\ files' \in Seq(Backups) /\ Len(files') = Len(files) + 1
      /\ \A i \in 1 .. Len(files) : files'[i] = files[i]
      /\ files'[Len(files) + 1] = new
  BY <1>1, <1>2, AppendProperties
<1> QED
  BY <1>3 DEF StartBackup, Goto, new

\* A copy replaces the contents.
LEMMA CopyIs ==
  ASSUME TypeInv, NEW p \in Procs, Copy(p)
  PROVE  /\ files' \in Seq(Backups) /\ Len(files') = Len(files)
         /\ \E state \in {"sound", "unsound"} : \A i \in 1 .. Len(files) :
               files'[i] = IF files[i].by = p THEN [by |-> p, state |-> state, content |-> db]
                                              ELSE files[i]
<1>1. files \in Seq(Backups) /\ DOMAIN files = 1 .. Len(files)
  BY LenProperties DEF TypeInv
<1>2. PICK state \in {"sound", "unsound"} :
         files' = [i \in DOMAIN files |-> IF i \in Mine(p)
                     THEN [by |-> p, state |-> state, content |-> db] ELSE files[i]]
  BY DEF Copy
<1> DEFINE new == [by |-> p, state |-> state, content |-> db]
<1>3. new \in Backups
  BY DEF TypeInv, Backups
<1> HIDE DEF new
<1>4. files' \in [DOMAIN files -> Backups]
  BY <1>1, <1>2, <1>3 DEF new
<1>5. files' \in Seq(Backups) /\ Len(files') = Len(files)
  BY <1>1, <1>4, MapSeq
<1>6. \A i \in 1 .. Len(files) : files'[i] = IF files[i].by = p THEN new ELSE files[i]
  BY <1>1, <1>2 DEF Mine, new
<1> QED
  BY <1>5, <1>6 DEF new

\* What a process leaves is nobody's.
Left(p) ==
    files' = [i \in DOMAIN files |-> IF i \in Mine(p) THEN [files[i] EXCEPT !.by = Nobody]
                                                      ELSE files[i]]

LEMMA LeftIs ==
  ASSUME TypeInv, NEW p \in Procs, Left(p)
  PROVE  /\ files' \in Seq(Backups) /\ Len(files') = Len(files)
         /\ \A i \in 1 .. Len(files) :
               files'[i] = IF files[i].by = p
                           THEN [by |-> Nobody, state |-> files[i].state,
                                 content |-> files[i].content]
                           ELSE files[i]
<1>1. files \in Seq(Backups) /\ DOMAIN files = 1 .. Len(files)
  BY LenProperties DEF TypeInv
<1>2. \A i \in DOMAIN files : files[i] \in Backups
  BY <1>1, ElementOfSeq
<1>3. \A i \in DOMAIN files :
         /\ [files[i] EXCEPT !.by = Nobody] \in Backups
         /\ [files[i] EXCEPT !.by = Nobody]
              = [by |-> Nobody, state |-> files[i].state, content |-> files[i].content]
  BY <1>2 DEF Backups
<1>4. files' \in [DOMAIN files -> Backups]
  BY <1>2, <1>3 DEF Left
<1>5. files' \in Seq(Backups) /\ Len(files') = Len(files)
  BY <1>1, <1>4, MapSeq
<1>6. \A i \in 1 .. Len(files) :
         files'[i] = IF files[i].by = p THEN [files[i] EXCEPT !.by = Nobody] ELSE files[i]
  BY <1>1 DEF Left, Mine
<1> QED
  BY <1>1, <1>3, <1>5, <1>6

\* One that fails its check is removed.
LEMMA RemovedIs ==
  ASSUME TypeInv, NEW p \in Procs, VerifyFails(p)
  PROVE  \E i \in 1 .. Len(files) :
           /\ files[i].by = p
           /\ files' \in Seq(Backups) /\ Len(files') = Len(files) - 1
           /\ \A k \in 1 .. Len(files) - 1 : files'[k] = files[IF k < i THEN k ELSE k + 1]
<1>1. files \in Seq(Backups) /\ DOMAIN files = 1 .. Len(files)
  BY LenProperties DEF TypeInv
<1>2. PICK i \in DOMAIN files : files[i].by = p /\ files' = RemoveAt(files, i)
  BY DEF VerifyFails, Mine
<1> QED
  BY <1>1, <1>2, RemoveAtIs

\* Rotation keeps the newest, and only what there was.
LEMMA RotateIs ==
  ASSUME TypeInv, NEW p \in Procs, Rotate(p)
  PROVE  /\ files' \in Seq(Backups)
         /\ \A k \in 1 .. Len(files') : \E i \in 1 .. Len(files) : files'[k] = files[i]
         /\ Len(files) > 0 => Len(files') > 0 /\ files'[Len(files')] = files[Len(files)]
<1>1. /\ files \in Seq(Backups) /\ DOMAIN files = 1 .. Len(files) /\ Len(files) \in Nat
      /\ MaxBackups \in Nat
  BY LenProperties, UpgradeAssumption DEF TypeInv
<1>2. CASE UNCHANGED files
  BY <1>1, <1>2
<1>3. CASE MaxBackups > 0 /\ Len(files) > MaxBackups
  <2>1. /\ Kept \in Seq(Backups) /\ Len(Kept) = MaxBackups
        /\ \A k \in 1 .. MaxBackups : Kept[k] = files[Len(files) - MaxBackups + k]
    BY <1>1, <1>3, NewestAre DEF Kept
  <2>2. \A k \in 1 .. MaxBackups : Len(files) - MaxBackups + k \in 1 .. Len(files)
    BY <1>1, <1>3
  <2>3. Kept[MaxBackups] = files[Len(files)]
    <3>1. MaxBackups \in 1 .. MaxBackups /\ Len(files) - MaxBackups + MaxBackups = Len(files)
      BY <1>1, <1>3
    <3> QED BY <2>1, <3>1
  <2>4. CASE files' = Kept
    BY <1>1, <1>3, <2>1, <2>2, <2>3, <2>4
  <2>5. CASE files' = <<Head(files)>> \o Kept
    <3>1. <<Head(files)>> \in Seq(Backups) /\ Len(<<Head(files)>>) = 1 /\ Head(files) = files[1]
      BY <1>1, <1>3
    <3>2. /\ files' \in Seq(Backups) /\ Len(files') = MaxBackups + 1
          /\ \A k \in 1 .. MaxBackups + 1 :
                files'[k] = IF k <= 1 THEN <<Head(files)>>[k] ELSE Kept[k - 1]
      <4>1. Len(<<Head(files)>>) + Len(Kept) = MaxBackups + 1
        BY <1>1, <2>1, <3>1
      <4>2. /\ files' \in Seq(Backups) /\ Len(files') = Len(<<Head(files)>>) + Len(Kept)
            /\ \A k \in 1 .. Len(<<Head(files)>>) + Len(Kept) :
                  files'[k] = IF k <= Len(<<Head(files)>>) THEN <<Head(files)>>[k]
                                                           ELSE Kept[k - Len(<<Head(files)>>)]
        BY <2>1, <2>5, <3>1, ConcatProperties
      <4> QED BY <3>1, <4>1, <4>2
    <3>3. ASSUME NEW k \in 1 .. MaxBackups + 1
          PROVE  \E i \in 1 .. Len(files) : files'[k] = files[i]
      <4>1. CASE k = 1
        BY <1>1, <1>3, <3>1, <3>2, <4>1
      <4>2. CASE k # 1
        <5>1. k - 1 \in 1 .. MaxBackups /\ ~(k <= 1)
          BY <1>1, <4>2
        <5>2. files'[k] = Kept[k - 1]
          BY <3>2, <5>1
        <5> QED BY <2>1, <2>2, <5>1, <5>2
      <4> QED BY <4>1, <4>2
    <3>4. files'[MaxBackups + 1] = files[Len(files)]
      <4>1. MaxBackups + 1 \in 1 .. MaxBackups + 1 /\ ~(MaxBackups + 1 <= 1)
            /\ (MaxBackups + 1) - 1 = MaxBackups
        BY <1>1, <1>3
      <4>2. files'[MaxBackups + 1] = Kept[(MaxBackups + 1) - 1]
        BY <3>2, <4>1
      <4> QED BY <2>3, <4>1, <4>2
    <3> QED BY <1>1, <3>2, <3>3, <3>4
  <2> QED BY <1>1, <1>3, <2>4, <2>5 DEF Rotate
<1> QED
  BY <1>1, <1>2, <1>3 DEF Rotate

-----------------------------------------------------------------------------
\* The types are kept.

\* The stored rows are rows.
LEMMA StoredRows == Stored \cup {Empty} \subseteq [Ids -> Rows]
<1>1. Empty \in [Ids -> Rows]
  BY DEF Empty, Rows
<1>2. ASSUME NEW rows \in Stored PROVE rows \in [Ids -> Rows]
  <2>1. rows \in [Ids -> {NoRow, Garbage} \cup [at : 1 .. MaxRows - 1, form : Forms]]
    BY UpgradeAssumption
  <2>2. {NoRow, Garbage} \cup [at : 1 .. MaxRows - 1, form : Forms] \subseteq Rows
    BY UpgradeAssumption DEF Rows, Ids
  <2> QED BY <2>1, <2>2
<1> QED
  BY <1>1, <1>2

LEMMA InitTypes ==
  ASSUME Init
  PROVE  TypeInv
<1>1. db \in Dbs
  BY StoredRows DEF Init, Dbs, Oldest, Current
<1>2. files \in Seq(Backups)
  BY EmptySeq DEF Init
<1> QED
  BY <1>1, <1>2 DEF Init, TypeInv

\* A recorded status change is one more normal row.
LEMMA RecordIs ==
  ASSUME TypeInv, NEW p \in Procs, Record(p)
  PROVE  /\ db' \in Dbs
         /\ db' = [version |-> db.version, computed |-> db.computed,
                   rows |-> [db.rows EXCEPT ![MaxRows] = Normal(MaxRows)]]
<1> DEFINE r == [db.rows EXCEPT ![MaxRows] = Normal(MaxRows)]
<1>1. db \in Dbs /\ db' = [db EXCEPT !.rows = r]
  BY DEF Record, TypeInv
<1>2. MaxRows \in Ids /\ Normal(MaxRows) \in Rows
  BY UpgradeAssumption DEF Ids, Normal, Rows, Forms
<1>3. r \in [Ids -> Rows]
  BY <1>1, <1>2 DEF Dbs
<1> HIDE DEF r
<1>4. db' = [version |-> db.version, computed |-> db.computed, rows |-> r]
  BY <1>1 DEF Dbs
<1>5. db' \in Dbs
  BY <1>1, <1>3, <1>4 DEF Dbs
<1> QED
  BY <1>4, <1>5 DEF r

\* A failure is counted.
LEMMA FaultType ==
  ASSUME TypeInv, Fault \/ UNCHANGED faults
  PROVE  faults' \in Nat
BY DEF TypeInv, Fault

LEMMA TypeStep ==
  ASSUME TypeInv, [Next]_vars
  PROVE  TypeInv'
<1>1. CASE UNCHANGED vars
  BY <1>1 DEF TypeInv, vars
<1> SUFFICES ASSUME NEW p \in Procs,
                    \/ Acquire(p) \/ Work(p) \/ CopyFails(p) \/ MigrateFails(p)
                    \/ Recompute(p) \/ Record(p) \/ Periodic(p) \/ Stop(p) \/ Crash(p)
             PROVE  TypeInv'
  BY <1>1 DEF Next
<1>2. ASSUME NEW for \in {"migration", "periodic", "job"}, StartBackup(p, for),
             UNCHANGED <<db, original, faults>>, exists' \in BOOLEAN
      PROVE  TypeInv'
  BY <1>2, StartIs DEF TypeInv
<1>3. CASE Acquire(p)
  <2>1. CASE pc' = [pc EXCEPT ![p] = "prepare"] /\ UNCHANGED <<files, goal>>
    BY <1>3, <2>1 DEF Acquire, TypeInv
  <2>2. CASE StartBackup(p, "job")
    BY <1>2, <1>3, <2>2 DEF Acquire, TypeInv
  <2> QED BY <1>3, <2>1, <2>2 DEF Acquire, Goto
<1>4. CASE Copy(p)
  <2>1. faults' \in Nat
    BY <1>4, FaultType DEF Copy
  <2>2. files' \in Seq(Backups)
    BY <1>4, CopyIs
  <2> QED BY <1>4, <2>1, <2>2 DEF Copy, Goto, TypeInv
<1>5. CASE Verify(p)
  <2>1. files' \in Seq(Backups)
    BY <1>5, LeftIs DEF Verify, Left
  <2> QED BY <1>5, <2>1 DEF Verify, Goto, TypeInv
<1>6. CASE VerifyFails(p)
  <2>1. faults' \in Nat
    BY <1>6, FaultType DEF VerifyFails
  <2>2. files' \in Seq(Backups)
    BY <1>6, RemovedIs
  <2> QED BY <1>6, <2>1, <2>2 DEF VerifyFails, GiveUp, Goto, TypeInv
<1>7. CASE BackupGone(p)
  BY <1>7 DEF BackupGone, GiveUp, Goto, TypeInv
<1>8. CASE Rotate(p)
  <2>1. faults' \in Nat
    BY <1>8, FaultType DEF Rotate
  <2>2. files' \in Seq(Backups)
    BY <1>8, RotateIs
  <2> QED BY <1>8, <2>1, <2>2 DEF Rotate, Goto, TypeInv
<1>9. CASE Prepare(p)
  <2>1. CASE StartBackup(p, "migration")
    BY <1>2, <1>9, <2>1 DEF Prepare, TypeInv
  <2>2. CASE ~StartBackup(p, "migration")
    BY <1>9, <2>2 DEF Prepare, Pending, Goto, TypeInv
  <2> QED BY <2>1, <2>2
<1>10. CASE Migrate(p)
  <2>1. db' \in Dbs
    BY <1>10, MigratedIs DEF Migrate, TypeInv
  <2> QED BY <1>10, <2>1 DEF Migrate, Goto, TypeInv
<1>11. CASE CopyFails(p)
  <2>1. faults' \in Nat
    BY <1>11, FaultType DEF CopyFails
  <2>2. files' \in Seq(Backups)
    BY <1>11, LeftIs DEF CopyFails, Left
  <2> QED BY <1>11, <2>1, <2>2 DEF CopyFails, GiveUp, Goto, TypeInv
<1>12. CASE MigrateFails(p)
  <2>1. faults' \in Nat
    BY <1>12, FaultType DEF MigrateFails
  <2> QED BY <1>12, <2>1 DEF MigrateFails, Goto, TypeInv
<1>13. CASE Recompute(p)
  <2>1. db' \in Dbs
    BY <1>13 DEF Recompute, TypeInv, Dbs
  <2> QED BY <1>13, <2>1 DEF Recompute, Goto, TypeInv
<1>14. CASE Record(p)
  <2>1. db' \in Dbs
    BY <1>14, RecordIs
  <2> QED BY <1>14, <2>1 DEF Record, TypeInv
<1>15. CASE Periodic(p)
  BY <1>2, <1>15 DEF Periodic, TypeInv
<1>16. CASE Stop(p)
  BY <1>16 DEF Stop, Goto, TypeInv
<1>17. CASE Crash(p)
  <2>1. faults' \in Nat
    BY <1>17, FaultType DEF Crash
  <2>2. files' \in Seq(Backups)
    BY <1>17, LeftIs DEF Crash, Left
  <2> QED BY <1>17, <2>1, <2>2 DEF Crash, Goto, TypeInv
<1> QED
  BY <1>3, <1>4, <1>5, <1>6, <1>7, <1>8, <1>9, <1>10, <1>11, <1>12, <1>13, <1>14, <1>15, <1>16,
     <1>17 DEF Work

-----------------------------------------------------------------------------
\* The invariant is inductive.

LEMMA CoverInit ==
  ASSUME Init
  PROVE  CoverInv
<1>1. TypeInv
  BY InitTypes
<1>2. \A p \in Procs : Good(p)
  BY DEF Init, Good, Roles, Versions, Exclusive, Opened, Fresh, Saved, JobFile
<1>3. ASSUME db.version >= Oldest PROVE exists
  <2>1. db.version # 0
    BY <1>3 DEF Oldest
  <2> QED BY <2>1 DEF Init
<1> QED
  BY <1>1, <1>2, <1>3 DEF CoverInv

\* A step of p: the backups of others, and those that count.
OthersKept(p) ==
    \A k \in DOMAIN files' : files'[k].by \notin {p, Nobody} =>
        \E i \in DOMAIN files : files[i] = files'[k]
DoneKept ==
    \A i \in DOMAIN files : files[i].by = Nobody => \E k \in DOMAIN files' : files'[k] = files[i]

\* A process that does not step knows what it knew: a job is alone, and what a
\* server knows of an old schema is kept until somebody migrates it.
LEMMA Bystanders ==
  ASSUME CoverInv, TypeInv', NEW p \in Procs,
         pc[p] # "off" \/ Free(p),
         \A q \in Procs : q # p => pc'[q] = pc[q] /\ goal'[q] = goal[q],
         exists => exists',
         db' = db \/ db'.version = Current,
         OthersKept(p),
         db' = db /\ db.version < Current /\ p \notin Jobs => DoneKept,
         NEW q \in Procs, q # p
  PROVE  Good(q)'
<1>1. Good(q) /\ Good(p) /\ pc'[q] = pc[q] /\ goal'[q] = goal[q]
  BY DEF CoverInv
<1>2. db.version \in Int /\ db'.version \in Int /\ q # Nobody /\ p # Nobody
  BY UpgradeAssumption DEF CoverInv, TypeInv, Dbs
<1>3. q \in Jobs => pc[q] = "off" /\ pc'[q] = "off"
  BY <1>1 DEF Good, Exclusive, Free, CoverInv
<1>4. Roles(q)'
  BY <1>1 DEF Good, Roles
<1>5. Versions(q)'
  BY <1>1, <1>2 DEF Good, Versions, Compatible, Oldest, Current
<1>6. Exclusive(q)'
  BY <1>3 DEF Exclusive
<1>7. Opened(q)'
  BY <1>1 DEF Good, Opened
<1>8. Fresh(q)'
  <2>1. SUFFICES ASSUME pc[q] = "verify" PROVE Fresh(q)'
    BY <1>1 DEF Fresh
  <2>2. \A k \in Mine(q)' : \E i \in Mine(q) : files[i] = files'[k]
    BY <1>2 DEF Mine, OthersKept
  <2>3. q \notin Jobs
    BY <1>3, <2>1
  <2>4. db'.version < Current => \A k \in Mine(q)' : files'[k].content = db'
    BY <1>1, <1>2, <2>1, <2>2 DEF Good, Fresh, Current
  <2>5. \A i, j \in Mine(q)' : files'[i].state = files'[j].state
    BY <1>1, <2>1, <2>2 DEF Good, Fresh
  <2> QED BY <2>3, <2>4, <2>5 DEF Fresh
<1>9. Saved(q)'
  <2>1. SUFFICES ASSUME q \in Servers, pc[q] = "migrate",
                        Oldest <= db'.version, db'.version < Current
                 PROVE  \E k \in DOMAIN files' : Saves(files'[k], db')
    BY <1>1 DEF Saved, Saves
  <2>2. db' = db
    BY <1>2, <2>1 DEF Current
  <2>3. PICK i \in DOMAIN files : Saves(files[i], db)
    BY <1>1, <2>1, <2>2 DEF Good, Saved
  <2>4. p \notin Jobs
    BY <1>1, <2>1 DEF Good, Exclusive, Free
  <2> QED BY <2>1, <2>2, <2>3, <2>4 DEF DoneKept, Saves
<1>10. JobFile(q)'
  BY <1>3 DEF JobFile
<1> QED
  BY <1>4, <1>5, <1>6, <1>7, <1>8, <1>9, <1>10 DEF Good

\* What is to be shown of a step of p.
LEMMA CoverBy ==
  ASSUME CoverInv, TypeInv', NEW p \in Procs,
         pc[p] # "off" \/ Free(p),
         \A q \in Procs : q # p => pc'[q] = pc[q] /\ goal'[q] = goal[q],
         exists => exists',
         db' = db \/ (db'.version = Current /\ exists'),
         OthersKept(p),
         db' = db /\ db.version < Current /\ p \notin Jobs => DoneKept,
         Good(p)'
  PROVE  CoverInv'
<1>1. db' = db \/ db'.version = Current
  OBVIOUS
<1>2. \A q \in Procs : q # p => Good(q)'
  BY <1>1, Bystanders
<1>3. db'.version >= Oldest => exists'
  BY DEF CoverInv
<1> QED
  BY <1>2, <1>3 DEF CoverInv

\* A process that ends knows nothing.
LEMMA EndedGood ==
  ASSUME NEW p \in Procs, pc'[p] = "off"
  PROVE  Good(p)'
BY DEF Good, Roles, Versions, Exclusive, Opened, Fresh, Saved, JobFile

\* The lock stays with a job that goes on.
LEMMA ExclusiveKept ==
  ASSUME CoverInv, NEW p \in Procs, pc[p] # "off" \/ Free(p),
         \A q \in Procs : q # p => pc'[q] = pc[q]
  PROVE  Exclusive(p)'
BY DEF CoverInv, Good, Exclusive, Free

\* What a marked backup keeps.
LEMMA LeftKeeps ==
  ASSUME TypeInv, NEW p \in Procs, Left(p)
  PROVE  OthersKept(p) /\ DoneKept /\ Mine(p)' = {} /\ Len(files') = Len(files)
<1>1. /\ files' \in Seq(Backups) /\ Len(files') = Len(files)
      /\ \A i \in 1 .. Len(files) :
               files'[i] = IF files[i].by = p
                           THEN [by |-> Nobody, state |-> files[i].state,
                                 content |-> files[i].content]
                           ELSE files[i]
  BY LeftIs
<1>2. DOMAIN files = 1 .. Len(files) /\ DOMAIN files' = 1 .. Len(files) /\ p # Nobody
  BY <1>1, LenProperties, UpgradeAssumption DEF TypeInv
<1> QED
  BY <1>1, <1>2 DEF OthersKept, DoneKept, Mine

\* What a new backup keeps.
LEMMA StartKeeps ==
  ASSUME TypeInv, NEW p \in Procs, NEW for \in {"migration", "periodic", "job"},
         StartBackup(p, for)
  PROVE  /\ OthersKept(p) /\ DoneKept
         /\ Len(files') > 0 /\ files'[Len(files')].by = p
         /\ pc'[p] = "copy" /\ goal'[p] = for
         /\ \A q \in Procs : q # p => pc'[q] = pc[q] /\ goal'[q] = goal[q]
<1>1. /\ files' \in Seq(Backups) /\ Len(files') = Len(files) + 1
      /\ \A i \in 1 .. Len(files) : files'[i] = files[i]
      /\ files'[Len(files')].by = p
      /\ pc' = [pc EXCEPT ![p] = "copy"] /\ goal' = [goal EXCEPT ![p] = for]
  BY StartIs
<1>2. DOMAIN files = 1 .. Len(files) /\ DOMAIN files' = 1 .. Len(files) + 1 /\ Len(files) \in Nat
  BY <1>1, LenProperties DEF TypeInv
<1>3. \A i \in DOMAIN files : i \in DOMAIN files' /\ files'[i] = files[i]
  BY <1>1, <1>2
<1>4. \A k \in DOMAIN files' : k \in DOMAIN files \/ k = Len(files')
  BY <1>1, <1>2
<1> QED
  BY <1>1, <1>2, <1>3, <1>4 DEF OthersKept, DoneKept, TypeInv

\* A process that starts a backup.
LEMMA StartGood ==
  ASSUME CoverInv, TypeInv', NEW p \in Procs, NEW for \in {"migration", "periodic", "job"},
         StartBackup(p, for), UNCHANGED db, exists', Exclusive(p)',
         for = "job" => p \in Jobs,
         for = "periodic" => p \notin Jobs /\ db.version = Current,
         for = "migration" => Compatible(db) /\ db.version <= Current
  PROVE  Good(p)'
<1>1. /\ Len(files') > 0 /\ files'[Len(files')].by = p
      /\ pc'[p] = "copy" /\ goal'[p] = for
  BY StartKeeps DEF CoverInv
<1>2. Roles(p)'
  BY <1>1 DEF Roles
<1>3. Versions(p)'
  BY <1>1 DEF Versions, Compatible
<1>4. Opened(p)' /\ Fresh(p)' /\ Saved(p)' /\ JobFile(p)'
  BY <1>1 DEF Opened, Fresh, Saved, JobFile
<1> QED
  BY <1>2, <1>3, <1>4 DEF Good

-----------------------------------------------------------------------------
\* The actions.

LEMMA AcquireCover ==
  ASSUME CoverInv, TypeInv', NEW p \in Procs, Acquire(p)
  PROVE  CoverInv'
<1>0. TypeInv /\ Free(p) /\ Servers \cap Jobs = {} /\ UNCHANGED <<db, exists>>
  BY UpgradeAssumption DEF CoverInv, Acquire
<1>1. CASE p \in Servers /\ Goto(p, "prepare") /\ UNCHANGED <<files, goal>>
  <2>1. pc'[p] = "prepare" /\ \A q \in Procs : q # p => pc'[q] = pc[q] /\ goal'[q] = goal[q]
    BY <1>0, <1>1 DEF Goto, TypeInv
  <2>2. Exclusive(p)'
    BY <1>0, <2>1, ExclusiveKept
  <2>3. p \notin Jobs
    BY <1>0, <1>1
  <2>4. Good(p)'
    BY <2>1, <2>2, <2>3 DEF Good, Roles, Versions, Opened, Fresh, Saved, JobFile
  <2>5. OthersKept(p) /\ DoneKept
    BY <1>1 DEF OthersKept, DoneKept
  <2> QED BY <1>0, <2>1, <2>4, <2>5, CoverBy
<1>2. CASE p \in Jobs /\ exists /\ StartBackup(p, "job")
  <2>1. /\ OthersKept(p) /\ DoneKept
        /\ \A q \in Procs : q # p => pc'[q] = pc[q] /\ goal'[q] = goal[q]
    BY <1>0, <1>2, StartKeeps
  <2>2. Exclusive(p)'
    BY <1>0, <2>1, ExclusiveKept
  <2>3. Good(p)'
    BY <1>0, <1>2, <2>2, StartGood
  <2> QED BY <1>0, <2>1, <2>3, CoverBy
<1> QED
  BY <1>1, <1>2 DEF Acquire

LEMMA CopyCover ==
  ASSUME CoverInv, TypeInv', NEW p \in Procs, Copy(p)
  PROVE  CoverInv'
<1>0. /\ TypeInv /\ Good(p) /\ pc[p] = "copy" /\ UNCHANGED <<db, exists, goal>> /\ p # Nobody
      /\ pc'[p] = "verify" /\ \A q \in Procs : q # p => pc'[q] = pc[q] /\ goal'[q] = goal[q]
  BY UpgradeAssumption DEF CoverInv, TypeInv, Copy, Goto
<1>1. PICK state \in {"sound", "unsound"} :
         /\ files' \in Seq(Backups) /\ Len(files') = Len(files)
         /\ \A i \in 1 .. Len(files) :
               files'[i] = IF files[i].by = p THEN [by |-> p, state |-> state, content |-> db]
                                              ELSE files[i]
  BY <1>0, CopyIs
<1>2. DOMAIN files = 1 .. Len(files) /\ DOMAIN files' = 1 .. Len(files) /\ Len(files) \in Nat
  BY <1>0, <1>1, LenProperties DEF TypeInv
<1>3. OthersKept(p) /\ DoneKept
  BY <1>0, <1>1, <1>2 DEF OthersKept, DoneKept
<1>4. \A i \in Mine(p)' : files'[i] = [by |-> p, state |-> state, content |-> db]
  BY <1>1, <1>2 DEF Mine
<1>5. Exclusive(p)'
  BY <1>0, ExclusiveKept
<1>6. Roles(p)' /\ Versions(p)' /\ Opened(p)' /\ Saved(p)'
  BY <1>0 DEF Good, Roles, Versions, Compatible, Opened, Saved
<1>7. Fresh(p)'
  BY <1>0, <1>4 DEF Fresh
<1>8. JobFile(p)'
  <2>1. SUFFICES ASSUME p \in Jobs PROVE JobFile(p)'
    BY DEF JobFile
  <2>2. Len(files) > 0 /\ files[Len(files)].by = p
    BY <1>0, <2>1 DEF Good, JobFile
  <2>3. Len(files) \in 1 .. Len(files)
    BY <1>2, <2>2
  <2>4. files'[Len(files)].by = p
    BY <1>1, <2>2, <2>3
  <2> QED BY <1>0, <1>1, <2>2, <2>4 DEF JobFile
<1>9. Good(p)'
  BY <1>5, <1>6, <1>7, <1>8 DEF Good
<1> QED
  BY <1>0, <1>3, <1>9, CoverBy

LEMMA VerifyCover ==
  ASSUME CoverInv, TypeInv', NEW p \in Procs, Verify(p)
  PROVE  CoverInv'
<1>0. /\ TypeInv /\ Good(p) /\ pc[p] = "verify" /\ UNCHANGED <<db, exists, goal>> /\ Left(p)
      /\ pc'[p] = IF goal[p] = "migration" THEN "migrate" ELSE "rotate"
      /\ \A q \in Procs : q # p => pc'[q] = pc[q] /\ goal'[q] = goal[q]
      /\ \E i \in Mine(p) : files[i].state = "sound"
  BY DEF CoverInv, TypeInv, Verify, Sound, Left, Goto
<1>1. /\ files' \in Seq(Backups) /\ Len(files') = Len(files)
      /\ \A i \in 1 .. Len(files) : files[i].by = p =>
               files'[i] = [by |-> Nobody, state |-> files[i].state, content |-> files[i].content]
  BY <1>0, LeftIs
<1>2. DOMAIN files = 1 .. Len(files) /\ DOMAIN files' = 1 .. Len(files) /\ Len(files) \in Nat
  BY <1>0, <1>1, LenProperties DEF TypeInv
<1>3. OthersKept(p) /\ DoneKept
  BY <1>0, LeftKeeps
<1>4. Exclusive(p)'
  BY <1>0, ExclusiveKept
<1>5. Roles(p)' /\ Versions(p)' /\ Opened(p)' /\ Fresh(p)'
  BY <1>0 DEF Good, Roles, Versions, Compatible, Opened, Fresh
<1>6. Saved(p)'
  <2>1. SUFFICES ASSUME db.version < Current PROVE Saved(p)'
    BY <1>0 DEF Saved
  <2>2. PICK i \in Mine(p) : files[i].state = "sound"
    BY <1>0
  <2>3. files[i].content = db
    BY <1>0, <2>1, <2>2 DEF Good, Fresh
  <2>4. i \in DOMAIN files' /\ Saves(files'[i], db)
    BY <1>1, <1>2, <2>2, <2>3 DEF Mine, Saves
  <2> QED BY <1>0, <2>4 DEF Saved, Saves
<1>7. JobFile(p)'
  <2>1. SUFFICES ASSUME p \in Jobs PROVE JobFile(p)'
    BY DEF JobFile
  <2>2. Len(files) > 0 /\ files[Len(files)].by = p
    BY <1>0, <2>1 DEF Good, JobFile
  <2> DEFINE l == Len(files)
  <2>3. l \in Mine(p) /\ l \in 1 .. l
    BY <1>2, <2>2 DEF Mine
  <2>4. files[l].state = "sound" /\ files[l].content = db
    BY <1>0, <2>1, <2>3 DEF Good, Fresh
  <2>5. files'[l] = [by |-> Nobody, state |-> files[l].state, content |-> files[l].content]
    BY <1>1, <2>2, <2>3
  <2>6. Saves(files'[l], db)
    BY <2>4, <2>5 DEF Saves
  <2> QED BY <1>0, <1>1, <2>2, <2>6 DEF JobFile, Saves
<1>8. Good(p)'
  BY <1>4, <1>5, <1>6, <1>7 DEF Good
<1> QED
  BY <1>0, <1>3, <1>8, CoverBy

\* A periodic backup that fails goes on to the rotation, any other ends.
LEMMA GiveUpGood ==
  ASSUME CoverInv, NEW p \in Procs, pc[p] \in {"copy", "verify"}, GiveUp(p),
         UNCHANGED <<db, exists, goal>>
  PROVE  Good(p)' /\ \A q \in Procs : q # p => pc'[q] = pc[q] /\ goal'[q] = goal[q]
<1>0. /\ TypeInv /\ Good(p)
      /\ pc'[p] = IF goal[p] = "periodic" THEN "rotate" ELSE "off"
      /\ \A q \in Procs : q # p => pc'[q] = pc[q] /\ goal'[q] = goal[q]
  BY DEF CoverInv, TypeInv, GiveUp, Goto
<1>1. CASE goal[p] = "periodic"
  <2>1. p \notin Jobs /\ db.version = Current
    BY <1>0, <1>1 DEF Good, Roles, Versions
  <2> QED BY <1>0, <1>1, <2>1 DEF Good, Roles, Versions, Exclusive, Opened, Fresh, Saved, JobFile
<1>2. CASE goal[p] # "periodic"
  BY <1>0, <1>2, EndedGood
<1> QED
  BY <1>0, <1>1, <1>2

LEMMA VerifyFailsCover ==
  ASSUME CoverInv, TypeInv', NEW p \in Procs, VerifyFails(p)
  PROVE  CoverInv'
<1>0. /\ TypeInv /\ pc[p] = "verify" /\ UNCHANGED <<db, exists, goal>> /\ GiveUp(p) /\ p # Nobody
  BY UpgradeAssumption DEF CoverInv, VerifyFails
<1>1. PICK i \in 1 .. Len(files) :
         /\ files[i].by = p
         /\ files' \in Seq(Backups) /\ Len(files') = Len(files) - 1
         /\ \A k \in 1 .. Len(files) - 1 : files'[k] = files[IF k < i THEN k ELSE k + 1]
  BY <1>0, RemovedIs
<1>2. DOMAIN files = 1 .. Len(files) /\ DOMAIN files' = 1 .. Len(files) - 1 /\ Len(files) \in Nat
  BY <1>0, <1>1, LenProperties DEF TypeInv
<1>3. OthersKept(p)
  <2>1. \A k \in 1 .. Len(files) - 1 : (IF k < i THEN k ELSE k + 1) \in 1 .. Len(files)
    BY <1>2
  <2> QED BY <1>1, <1>2, <2>1 DEF OthersKept
<1>4. DoneKept
  <2>1. SUFFICES ASSUME NEW j \in DOMAIN files, files[j].by = Nobody
                 PROVE  \E k \in DOMAIN files' : files'[k] = files[j]
    BY DEF DoneKept
  <2>2. CASE j < i
    <3>1. j \in 1 .. Len(files) - 1
      BY <1>1, <1>2, <2>2
    <3> QED BY <1>1, <1>2, <2>2, <3>1
  <2>3. CASE j > i
    <3>1. j - 1 \in 1 .. Len(files) - 1 /\ ~(j - 1 < i) /\ (j - 1) + 1 = j
      BY <1>1, <1>2, <2>3
    <3>2. files'[j - 1] = files[(j - 1) + 1]
      BY <1>1, <3>1
    <3> QED BY <1>2, <3>1, <3>2
  <2>4. j # i
    BY <1>0, <1>1, <2>1
  <2> QED BY <1>1, <1>2, <2>2, <2>3, <2>4
<1>5. Good(p)' /\ \A q \in Procs : q # p => pc'[q] = pc[q] /\ goal'[q] = goal[q]
  BY <1>0, GiveUpGood
<1> QED
  BY <1>0, <1>3, <1>4, <1>5, CoverBy

LEMMA BackupGoneCover ==
  ASSUME CoverInv, TypeInv', NEW p \in Procs, BackupGone(p)
  PROVE  CoverInv'
<1>0. /\ pc[p] \in {"copy", "verify"} /\ UNCHANGED <<db, exists, files, goal>> /\ GiveUp(p)
  BY DEF BackupGone
<1>1. OthersKept(p) /\ DoneKept
  BY <1>0 DEF OthersKept, DoneKept
<1>2. Good(p)' /\ \A q \in Procs : q # p => pc'[q] = pc[q] /\ goal'[q] = goal[q]
  BY <1>0, GiveUpGood
<1> QED
  BY <1>0, <1>1, <1>2, CoverBy

LEMMA CopyFailsCover ==
  ASSUME CoverInv, TypeInv', NEW p \in Procs, CopyFails(p)
  PROVE  CoverInv'
<1>0. /\ TypeInv /\ pc[p] = "copy" /\ UNCHANGED <<db, exists, goal>> /\ GiveUp(p) /\ Left(p)
  BY DEF CoverInv, CopyFails, Left
<1>1. OthersKept(p) /\ DoneKept
  BY <1>0, LeftKeeps
<1>2. Good(p)' /\ \A q \in Procs : q # p => pc'[q] = pc[q] /\ goal'[q] = goal[q]
  BY <1>0, GiveUpGood
<1> QED
  BY <1>0, <1>1, <1>2, CoverBy

LEMMA RotateCover ==
  ASSUME CoverInv, TypeInv', NEW p \in Procs, Rotate(p)
  PROVE  CoverInv'
<1>0. /\ TypeInv /\ Good(p) /\ pc[p] = "rotate" /\ UNCHANGED <<db, exists, goal>>
      /\ pc'[p] = IF goal[p] = "job" THEN "prepare" ELSE "open"
      /\ \A q \in Procs : q # p => pc'[q] = pc[q] /\ goal'[q] = goal[q]
  BY DEF CoverInv, TypeInv, Rotate, Goto
<1>1. /\ files' \in Seq(Backups)
      /\ \A k \in 1 .. Len(files') : \E i \in 1 .. Len(files) : files'[k] = files[i]
      /\ Len(files) > 0 => Len(files') > 0 /\ files'[Len(files')] = files[Len(files)]
  BY <1>0, RotateIs
<1>2. DOMAIN files = 1 .. Len(files) /\ DOMAIN files' = 1 .. Len(files')
  BY <1>0, <1>1, LenProperties DEF TypeInv
<1>3. OthersKept(p)
  BY <1>1, <1>2 DEF OthersKept
<1>4. db.version < Current => p \in Jobs
  <2>1. db.version # Current => goal[p] = "job"
    BY <1>0 DEF Good, Roles, Versions
  <2>2. db.version < Current => db.version # Current
    BY <1>0 DEF TypeInv, Dbs, Current
  <2> QED BY <1>0, <2>1, <2>2 DEF Good, Roles
<1>5. Exclusive(p)'
  BY <1>0, ExclusiveKept
<1>6. Roles(p)' /\ Versions(p)' /\ Opened(p)' /\ Fresh(p)' /\ Saved(p)'
  BY <1>0 DEF Good, Roles, Versions, Opened, Fresh, Saved
<1>7. JobFile(p)'
  <2>1. SUFFICES ASSUME p \in Jobs PROVE JobFile(p)'
    BY DEF JobFile
  <2> DEFINE newest == files[Len(files)]
  <2>2. /\ Len(files) > 0 /\ Saves(newest, newest.content)
        /\ db \in {newest.content, Migrated(newest.content)}
    BY <1>0, <2>1 DEF Good, JobFile
  <2>3. Len(files') > 0 /\ files'[Len(files')] = newest
    BY <1>1, <2>2
  <2> HIDE DEF newest
  <2> QED BY <1>0, <2>2, <2>3 DEF JobFile, Saves, Migrated
<1>8. Good(p)'
  BY <1>5, <1>6, <1>7 DEF Good
<1> QED
  BY <1>0, <1>3, <1>4, <1>8, CoverBy

LEMMA PrepareCover ==
  ASSUME CoverInv, TypeInv', NEW p \in Procs, Prepare(p)
  PROVE  CoverInv'
<1>0. /\ TypeInv /\ Good(p) /\ pc[p] = "prepare" /\ db' = db /\ exists'
      /\ db.version \in Int
  BY DEF CoverInv, TypeInv, Dbs, Prepare
<1>1. CASE /\ pc' = [pc EXCEPT ![p] = "open"] \/ pc' = [pc EXCEPT ![p] = "off"]
           /\ pc'[p] = "open" => db.version = Current
           /\ UNCHANGED <<files, goal>>
  <2>1. \A q \in Procs : q # p => pc'[q] = pc[q] /\ goal'[q] = goal[q]
    BY <1>0, <1>1 DEF TypeInv
  <2>2. OthersKept(p) /\ DoneKept
    BY <1>1 DEF OthersKept, DoneKept
  <2>3. CASE pc'[p] = "off"
    <3>1. Good(p)'
      BY <2>3, EndedGood
    <3> QED BY <1>0, <2>1, <2>2, <3>1, CoverBy
  <2>4. CASE pc'[p] = "open"
    <3>1. Exclusive(p)'
      BY <1>0, <2>1, ExclusiveKept
    <3>2. Roles(p)' /\ Versions(p)' /\ Opened(p)' /\ Fresh(p)' /\ Saved(p)'
      BY <1>0, <1>1, <2>4 DEF Good, Roles, Versions, Opened, Fresh, Saved
    <3>3. JobFile(p)'
      BY <1>0, <1>1, <2>4 DEF Good, JobFile, Saves, Migrated
    <3>4. Good(p)'
      BY <3>1, <3>2, <3>3 DEF Good
    <3> QED BY <1>0, <2>1, <2>2, <3>4, CoverBy
  <2> QED BY <1>0, <1>1, <2>3, <2>4 DEF TypeInv
<1>2. CASE db.version < Current /\ Compatible(db) /\ exists /\ StartBackup(p, "migration")
  <2>1. /\ OthersKept(p) /\ DoneKept
        /\ \A q \in Procs : q # p => pc'[q] = pc[q] /\ goal'[q] = goal[q]
    BY <1>0, <1>2, StartKeeps
  <2>2. Exclusive(p)'
    BY <1>0, <2>1, ExclusiveKept
  <2>3. db.version <= Current
    BY <1>0, <1>2 DEF Current
  <2>4. Good(p)'
    BY <1>0, <1>2, <2>2, <2>3, StartGood
  <2> QED BY <1>0, <2>1, <2>4, CoverBy
<1>3. CASE /\ db.version < Current /\ Compatible(db) /\ ~exists
           /\ pc' = [pc EXCEPT ![p] = "migrate"] /\ goal' = [goal EXCEPT ![p] = "migration"]
           /\ UNCHANGED files
  <2>1. /\ pc'[p] = "migrate" /\ goal'[p] = "migration"
        /\ \A q \in Procs : q # p => pc'[q] = pc[q] /\ goal'[q] = goal[q]
    BY <1>0, <1>3 DEF TypeInv
  <2>2. OthersKept(p) /\ DoneKept
    BY <1>3 DEF OthersKept, DoneKept
  <2>3. Exclusive(p)'
    BY <1>0, <2>1, ExclusiveKept
  <2>4. p \notin Jobs
    BY <1>0, <1>3 DEF Good, Opened
  <2>5. ~(Oldest <= db.version)
    BY <1>0, <1>3 DEF CoverInv, Oldest
  <2>6. db.version <= Current
    BY <1>0, <1>3 DEF Current
  <2>7. Compatible(db')
    BY <1>0, <1>3
  <2>8. Versions(p)'
    BY <1>0, <2>1, <2>6, <2>7 DEF Versions, Compatible
  <2>9. Roles(p)' /\ Opened(p)' /\ Fresh(p)' /\ Saved(p)' /\ JobFile(p)'
    BY <1>0, <2>1, <2>4, <2>5 DEF Roles, Opened, Fresh, Saved, JobFile
  <2>10. Good(p)'
    BY <2>3, <2>8, <2>9 DEF Good
  <2> QED BY <1>0, <2>1, <2>2, <2>10, CoverBy
<1>4. \/ /\ db.version = Current /\ pc' = [pc EXCEPT ![p] = "open"] /\ UNCHANGED <<files, goal>>
      \/ /\ pc' = [pc EXCEPT ![p] = "off"] /\ UNCHANGED <<files, goal>>
      \/ db.version < Current /\ Compatible(db) /\ Pending(p)
  BY DEF Prepare, Goto
<1>5. pc \in [Procs -> {"off", "prepare", "copy", "verify", "migrate", "rotate", "open"}]
  BY <1>0 DEF TypeInv
<1>6. CASE db.version < Current /\ Compatible(db) /\ Pending(p)
  BY <1>2, <1>3, <1>6 DEF Pending, Goto
<1> QED
  BY <1>1, <1>4, <1>5, <1>6

LEMMA MigrateCover ==
  ASSUME CoverInv, TypeInv', NEW p \in Procs, Migrate(p)
  PROVE  CoverInv'
<1>0. /\ TypeInv /\ Good(p) /\ pc[p] = "migrate" /\ UNCHANGED <<exists, files, goal>>
      /\ db' = Migrated(db) /\ pc'[p] = "rotate"
      /\ \A q \in Procs : q # p => pc'[q] = pc[q] /\ goal'[q] = goal[q]
  BY DEF CoverInv, TypeInv, Migrate, Goto
<1>1. db'.version = Current
  BY <1>0, MigratedIs DEF TypeInv
<1>2. goal[p] = "migration"
  BY <1>0 DEF Good, Roles
<1>3. OthersKept(p) /\ DoneKept
  BY <1>0 DEF OthersKept, DoneKept
<1>4. exists'
  BY <1>0 DEF Good, Opened
<1>5. Exclusive(p)'
  BY <1>0, ExclusiveKept
<1>6. Roles(p)' /\ Versions(p)' /\ Opened(p)' /\ Fresh(p)' /\ Saved(p)'
  BY <1>0, <1>1, <1>2, <1>4 DEF Roles, Versions, Opened, Fresh, Saved
<1>7. JobFile(p)'
  BY <1>0 DEF Good, JobFile, Saves
<1>8. Good(p)'
  BY <1>5, <1>6, <1>7 DEF Good
<1> QED
  BY <1>0, <1>1, <1>3, <1>4, <1>8, CoverBy

LEMMA RecordCover ==
  ASSUME CoverInv, TypeInv', NEW p \in Procs, Record(p)
  PROVE  CoverInv'
<1>0. /\ TypeInv /\ Good(p) /\ p \in Servers /\ p \notin Jobs /\ pc[p] = "open"
      /\ UNCHANGED <<exists, files, pc, goal>>
  BY UpgradeAssumption DEF CoverInv, Record
<1>1. db'.version = db.version /\ db.version = Current
  BY <1>0, RecordIs DEF Good, Versions
<1>2. OthersKept(p) /\ DoneKept
  BY <1>0 DEF OthersKept, DoneKept
<1>3. Exclusive(p)'
  BY <1>0 DEF Exclusive
<1>4. Roles(p)' /\ Versions(p)' /\ Opened(p)' /\ Fresh(p)' /\ Saved(p)' /\ JobFile(p)'
  BY <1>0, <1>1 DEF Good, Roles, Versions, Opened, Fresh, Saved, JobFile
<1>5. Good(p)'
  BY <1>3, <1>4 DEF Good
<1>6. exists'
  BY <1>0 DEF Good, Opened
<1> QED
  BY <1>0, <1>1, <1>2, <1>5, <1>6, CoverBy

LEMMA PeriodicCover ==
  ASSUME CoverInv, TypeInv', NEW p \in Procs, Periodic(p)
  PROVE  CoverInv'
<1>0. /\ TypeInv /\ Good(p) /\ p \notin Jobs /\ pc[p] = "open" /\ UNCHANGED <<db, exists>>
      /\ StartBackup(p, "periodic")
  BY UpgradeAssumption DEF CoverInv, Periodic
<1>1. /\ OthersKept(p) /\ DoneKept
      /\ \A q \in Procs : q # p => pc'[q] = pc[q] /\ goal'[q] = goal[q]
  BY <1>0, StartKeeps
<1>2. Exclusive(p)'
  BY <1>0, <1>1, ExclusiveKept
<1>3. exists' /\ db.version = Current
  BY <1>0 DEF Good, Opened, Versions
<1>4. Good(p)'
  BY <1>0, <1>2, <1>3, StartGood
<1> QED
  BY <1>0, <1>1, <1>4, CoverBy

\* The steps that end a process.
LEMMA EndCover ==
  ASSUME CoverInv, TypeInv', NEW p \in Procs,
         MigrateFails(p) \/ Recompute(p) \/ Stop(p) \/ Crash(p)
  PROVE  CoverInv'
<1>0. /\ TypeInv /\ Good(p) /\ pc[p] # "off" /\ UNCHANGED <<exists, goal>>
      /\ pc' = [pc EXCEPT ![p] = "off"]
  BY DEF CoverInv, MigrateFails, Recompute, Stop, Crash, Goto
<1>1. pc'[p] = "off" /\ \A q \in Procs : q # p => pc'[q] = pc[q] /\ goal'[q] = goal[q]
  BY <1>0 DEF TypeInv
<1>2. Good(p)'
  BY <1>1, EndedGood
<1>3. OthersKept(p) /\ DoneKept
  <2>1. CASE UNCHANGED files
    BY <2>1 DEF OthersKept, DoneKept
  <2>2. CASE Left(p)
    BY <1>0, <2>2, LeftKeeps
  <2> QED BY <2>1, <2>2 DEF MigrateFails, Recompute, Stop, Crash, Left
<1>4. db' = db \/ (db'.version = Current /\ exists')
  <2>1. CASE Recompute(p)
    <3>1. db.version = Current /\ exists
      BY <1>0, <2>1 DEF Recompute, Good, Versions, Opened
    <3>2. db' = db \/ db'.version = db.version
      BY <1>0, <2>1 DEF Recompute, TypeInv, Dbs
    <3> QED BY <1>0, <3>1, <3>2
  <2> QED BY <2>1 DEF MigrateFails, Stop, Crash
<1> QED
  BY <1>0, <1>1, <1>2, <1>3, <1>4, CoverBy

LEMMA CoverStep ==
  ASSUME CoverInv, [Next]_vars
  PROVE  CoverInv'
<1>1. TypeInv'
  BY TypeStep DEF CoverInv
<1>2. CASE UNCHANGED vars
  BY <1>2 DEF CoverInv, TypeInv, Good, Roles, Versions, Exclusive, Opened, Fresh, Mine, Saved,
              JobFile, Saves, Migrated, Compatible, vars
<1>3. CASE Next
  <2> SUFFICES ASSUME NEW p \in Procs,
                      \/ Acquire(p) \/ Work(p) \/ CopyFails(p) \/ MigrateFails(p)
                      \/ Recompute(p) \/ Record(p) \/ Periodic(p) \/ Stop(p) \/ Crash(p)
               PROVE  CoverInv'
    BY <1>3 DEF Next
  <2>1. CASE Work(p)
    BY <1>1, <2>1, CopyCover, VerifyCover, VerifyFailsCover, BackupGoneCover, RotateCover,
       PrepareCover, MigrateCover DEF Work
  <2> QED BY <1>1, <2>1, AcquireCover, CopyFailsCover, RecordCover, PeriodicCover, EndCover
<1> QED
  BY <1>2, <1>3

\* What every process knows of the database and its backups, at every moment.
THEOREM UpgradeInvariant == Spec => []CoverInv
<1>1. Init => CoverInv
  BY CoverInit
<1>2. CoverInv /\ [Next]_vars => CoverInv'
  BY CoverStep
<1> QED
  BY <1>1, <1>2, PTL DEF Spec

\* A step that migrates or recomputes stored data finds it in a sound backup.
LEMMA RewriteStep ==
  ASSUME CoverInv, [Next]_vars, db.version >= Oldest,
         db'.version # db.version \/ db'.computed # db.computed
  PROVE  \E i \in DOMAIN files : /\ files[i].state = "sound"
                                 /\ db \in {files[i].content, Migrated(files[i].content)}
<1>1. /\ TypeInv /\ db.version \in Int /\ DOMAIN files = 1 .. Len(files) /\ Len(files) \in Nat
      /\ Servers \cap Jobs = {}
  BY LenProperties, UpgradeAssumption DEF CoverInv, TypeInv, Dbs
<1>2. PICK p \in Procs : Migrate(p) \/ Recompute(p)
  <2>1. ~UNCHANGED db
    OBVIOUS
  <2>2. PICK p \in Procs :
          \/ Acquire(p) \/ Work(p) \/ CopyFails(p) \/ MigrateFails(p)
          \/ Recompute(p) \/ Record(p) \/ Periodic(p) \/ Stop(p) \/ Crash(p)
    BY <2>1 DEF Next, vars
  <2>3. ~Record(p)
    BY <1>1, RecordIs
  <2> QED BY <2>1, <2>2, <2>3 DEF Work, Acquire, Copy, CopyFails, Verify, VerifyFails, BackupGone,
                                  Rotate, Prepare, MigrateFails, Periodic, Stop, Crash
<1>3. Good(p)
  BY DEF CoverInv
<1>4. CASE p \in Jobs
  <2> DEFINE newest == files[Len(files)]
  <2>1. /\ Len(files) > 0 /\ Saves(newest, newest.content)
        /\ db \in {newest.content, Migrated(newest.content)}
    BY <1>2, <1>3, <1>4 DEF Migrate, Recompute, Good, JobFile
  <2>2. Len(files) \in DOMAIN files
    BY <1>1, <2>1
  <2> QED BY <2>1, <2>2 DEF Saves
<1>5. CASE p \in Servers
  <2>1. Migrate(p)
    BY <1>1, <1>2, <1>5 DEF Recompute
  <2>2. db'.version = Current /\ db'.computed = db.computed
    BY <1>1, <2>1, MigratedIs DEF Migrate, TypeInv
  <2>3. db.version <= Current
    BY <1>3, <2>1 DEF Good, Roles, Versions, Migrate
  <2>4. db.version < Current
    BY <1>1, <2>2, <2>3 DEF Current
  <2>5. PICK i \in DOMAIN files : Saves(files[i], db)
    BY <1>3, <1>5, <2>1, <2>4 DEF Good, Saved, Migrate, Oldest
  <2> QED BY <2>5 DEF Saves
<1> QED
  BY <1>4, <1>5 DEF Procs

\* backupBeforeMigration, RunBackfill: "no backup means no migration", "No backup, no
\* write", whoever wrote, failed, rotated or died before.
THEOREM RewritesAreCovered == Spec => RewriteCovered
<1>1. CoverInv /\ [Next]_vars =>
        [db.version >= Oldest /\ (db'.version # db.version \/ db'.computed # db.computed) =>
           \E i \in DOMAIN files : /\ files[i].state = "sound"
                                   /\ db \in {files[i].content, Migrated(files[i].content)}]_vars
  BY RewriteStep
<1> QED
  BY <1>1, UpgradeInvariant, PTL DEF Spec, RewriteCovered

-----------------------------------------------------------------------------
\* What the migration makes of the rows.

\* Uniqueness of (register, timestamp), of the rows that are in the fixed layout.
Distinct(w) == \A j, k \in Ids : w[j] = w[k] /\ w[j].form = "normal" => j = k

\* Every instant of r is there once, in the fixed layout; the row that is recorded
\* later is the last one.
Merged(r, w) ==
    /\ \A i \in Ids : ~Legacy(w[i])
    /\ \A i \in Ids : r[i] = Garbage => w[i] = Garbage
    /\ \A i \in Ids : r[i] \notin {NoRow, Garbage} => \E j \in Ids : w[j] = Normal(r[i].at)
    /\ Distinct(w)
    /\ \A j \in Ids \ {MaxRows} : w[j] # Normal(MaxRows)
    /\ w[MaxRows] \in {NoRow, Normal(MaxRows)}

\* After i rows of r the rows are v.
MergedUpto(r, i, v) ==
    /\ v \in [Ids -> Rows]
    /\ \A j \in Ids : j > i \/ ~Legacy(r[j]) => v[j] = r[j]
    /\ \A j \in Ids : j <= i => ~Legacy(v[j])
    /\ \A j \in Ids : j <= i /\ Legacy(r[j]) => \E k \in Ids : v[k] = Normal(r[j].at)
    /\ Distinct(v)
    /\ \A j \in Ids : v[j].at # MaxRows

\* What is known of a row that is stored.
LEMMA StoredIs ==
  ASSUME NEW r \in Stored
  PROVE  MergedUpto(r, 0, r) /\ r[MaxRows] = NoRow
<1>1. /\ r \in [Ids -> {NoRow, Garbage} \cup [at : 1 .. MaxRows - 1, form : Forms]]
      /\ r[MaxRows] = NoRow
      /\ \A i, j \in Ids : r[i] = r[j] /\ r[i].form = "normal" => i = j
      /\ MaxRows \in Nat \ {0}
  BY UpgradeAssumption
<1>2. r \in [Ids -> Rows]
  BY StoredRows
<1>3. Distinct(r)
  BY <1>1 DEF Distinct
<1>4. \A j \in Ids : r[j].at # MaxRows
  BY <1>1 DEF NoRow, Garbage
<1>5. \A j \in Ids : ~(j <= 0)
  BY DEF Ids
<1> QED
  BY <1>1, <1>2, <1>3, <1>4, <1>5 DEF MergedUpto

\* The i-th step merges one more row.
LEMMA MergeStep ==
  ASSUME NEW r, NEW i \in Ids, NEW v, MergedUpto(r, i - 1, v)
  PROVE  MergedUpto(r, i, Rewritten(v, i))
<1> DEFINE w == Rewritten(v, i)
<1>1. /\ v \in [Ids -> Rows] /\ v[i] = r[i] /\ v[i] \in Rows
      /\ i \in Nat /\ \A j \in Ids : j \in Nat /\ (j <= i <=> j <= i - 1 \/ j = i)
      /\ \A j \in Ids : j > i - 1 <=> j > i \/ j = i
  BY DEF MergedUpto, Ids
<1>2. /\ w \in [Ids -> Rows]
      /\ \A j \in Ids : j # i => w[j] = v[j]
      /\ ~Legacy(v[i]) => w[i] = v[i]
      /\ Legacy(v[i]) => w[i] = IF \E j \in Ids : v[j] = Normal(v[i].at)
                                THEN NoRow ELSE Normal(v[i].at)
  BY <1>1, RewrittenIs
<1> HIDE DEF w
<1>3. CASE ~Legacy(v[i])
  <2>1. w = v
    BY <1>3 DEF Rewritten, w
  <2> QED BY <1>1, <1>3, <2>1 DEF MergedUpto, w
<1>4. CASE Legacy(v[i])
  <2> DEFINE t == v[i].at
  <2>1. /\ t = v[i].at /\ t \in Ids /\ t # MaxRows /\ v[i].form # "normal"
        /\ ~Legacy(NoRow) /\ NoRow.form # "normal"
        /\ ~Legacy(Normal(t)) /\ Normal(t).form = "normal" /\ Normal(t).at = t
    BY <1>1, <1>4, LegacyRow DEF MergedUpto, Legacy, NoRow, Normal
  <2> HIDE DEF t
  <2>2. ASSUME NEW new, w[i] = new, ~Legacy(new), new.at # MaxRows,
               new.form = "normal" => \A j \in Ids : v[j] # new,
               \E k \in Ids : w[k] = Normal(t)
        PROVE  MergedUpto(r, i, w)
    <3>1. \A j \in Ids : j > i \/ ~Legacy(r[j]) => w[j] = r[j]
      BY <1>1, <1>2, <1>4 DEF MergedUpto
    <3>2. \A j \in Ids : j <= i => ~Legacy(w[j])
      BY <1>1, <1>2, <2>2 DEF MergedUpto
    <3>3. ASSUME NEW j \in Ids, j <= i, Legacy(r[j])
          PROVE  \E k \in Ids : w[k] = Normal(r[j].at)
      <4>1. CASE j = i
        BY <1>1, <2>1, <2>2, <4>1
      <4>2. CASE j # i
        <5>1. PICK k \in Ids : v[k] = Normal(r[j].at)
          BY <1>1, <3>3, <4>2 DEF MergedUpto
        <5>2. k # i
          BY <2>1, <5>1 DEF Normal
        <5> QED BY <1>2, <5>1, <5>2
      <4> QED BY <4>1, <4>2
    <3>4. Distinct(w)
      BY <1>2, <2>2 DEF Distinct, MergedUpto
    <3>5. \A j \in Ids : w[j].at # MaxRows
      BY <1>2, <2>2 DEF MergedUpto
    <3> QED BY <1>2, <3>1, <3>2, <3>3, <3>4, <3>5 DEF MergedUpto
  <2>3. CASE \E j \in Ids : v[j] = Normal(t)
    <3>1. w[i] = NoRow
      BY <1>2, <1>4, <2>1, <2>3
    <3>2. NoRow.at # MaxRows
      BY UpgradeAssumption DEF NoRow
    <3>3. \E k \in Ids : w[k] = Normal(t)
      <4>1. PICK k \in Ids : v[k] = Normal(t)
        BY <2>3
      <4>2. k # i
        BY <2>1, <4>1
      <4> QED BY <1>2, <4>1, <4>2
    <3> QED BY <2>1, <2>2, <3>1, <3>2, <3>3 DEF w
  <2>4. CASE ~\E j \in Ids : v[j] = Normal(t)
    <3>1. w[i] = Normal(t)
      BY <1>2, <1>4, <2>1, <2>4
    <3> QED BY <2>1, <2>2, <2>4, <3>1 DEF w
  <2> QED BY <2>3, <2>4
<1> QED
  BY <1>3, <1>4

\* The migration of stored rows merges them.
LEMMA NormalizedMerges ==
  ASSUME NEW r \in Stored
  PROVE  Merged(r, Normalized(r))
<1>1. PICK n : IsLoop(r, n) /\ Normalized(r) = n[MaxRows]
  BY NormalizedLoop
<1> DEFINE Q == {i \in 0 .. MaxRows : MergedUpto(r, i, n[i])}
<1>2. MaxRows \in Nat /\ Ids = 1 .. MaxRows /\ MaxRows \in Ids /\ r[MaxRows] = NoRow
  BY StoredIs, UpgradeAssumption DEF Ids
<1>3. 0 \in Q
  BY <1>1, <1>2, StoredIs DEF IsLoop
<1>4. ASSUME NEW i \in Ids, i - 1 \in Q PROVE i \in Q
  <2>1. n[i] = Rewritten(n[i - 1], i) /\ MergedUpto(r, i - 1, n[i - 1])
    BY <1>1, <1>4 DEF IsLoop
  <2>2. MergedUpto(r, i, n[i])
    BY <2>1, MergeStep
  <2> QED BY <1>2, <2>2
<1> HIDE DEF Q
<1>5. MaxRows \in Q
  BY <1>3, <1>4, RowInduction
<1> DEFINE w == Normalized(r)
<1>6. MergedUpto(r, MaxRows, w)
  BY <1>1, <1>5 DEF Q
<1> HIDE DEF w
<1>7. \A i \in Ids : i <= MaxRows
  BY <1>2
<1>8. r \in [Ids -> Rows]
  BY StoredRows
<1>9. ASSUME NEW i \in Ids, r[i] \notin {NoRow, Garbage} PROVE \E j \in Ids : w[j] = Normal(r[i].at)
  <2>1. CASE Legacy(r[i])
    BY <1>6, <1>7, <2>1 DEF MergedUpto
  <2>2. CASE ~Legacy(r[i])
    <3>1. w[i] = r[i] /\ r[i] = Normal(r[i].at)
      BY <1>6, <1>8, <1>9, <2>2, LegacyRow DEF MergedUpto
    <3> QED BY <3>1
  <2> QED BY <2>1, <2>2
<1>10. \A i \in Ids : r[i] \in {NoRow, Garbage} => w[i] = r[i]
  BY <1>6, <1>8, LegacyRow DEF MergedUpto
<1>11. \A j \in Ids : w[j] # Normal(MaxRows)
  BY <1>6 DEF MergedUpto, Normal
<1>12. \A j \in Ids : ~Legacy(w[j])
  BY <1>6, <1>7 DEF MergedUpto
<1>13. Distinct(w)
  BY <1>6 DEF MergedUpto
<1>14. w[MaxRows] = NoRow
  BY <1>2, <1>10
<1> QED
  BY <1>9, <1>10, <1>11, <1>12, <1>13, <1>14 DEF Merged, w

\* Rows that are normalized are not rewritten again.
LEMMA NormalizedAgain ==
  ASSUME NEW w \in [Ids -> Rows], \A i \in Ids : ~Legacy(w[i])
  PROVE  Normalized(w) = w
<1>1. PICK n : IsLoop(w, n) /\ Normalized(w) = n[MaxRows]
  BY NormalizedLoop
<1> DEFINE Q == {i \in 0 .. MaxRows : n[i] = w}
<1>2. MaxRows \in Nat /\ Ids = 1 .. MaxRows
  BY UpgradeAssumption DEF Ids
<1>3. 0 \in Q
  BY <1>1, <1>2 DEF IsLoop
<1>4. ASSUME NEW i \in Ids, i - 1 \in Q PROVE i \in Q
  <2>1. n[i] = Rewritten(w, i)
    BY <1>1, <1>4 DEF IsLoop
  <2>2. n[i] = w
    BY <2>1 DEF Rewritten
  <2> QED BY <1>2, <2>2
<1> HIDE DEF Q
<1>5. MaxRows \in Q
  BY <1>3, <1>4, RowInduction
<1> QED
  BY <1>1, <1>5 DEF Q

\* A recorded row keeps the rows merged.
LEMMA RecordMerged ==
  ASSUME NEW r, NEW w \in [Ids -> Rows], Merged(r, w), w[MaxRows] = NoRow
  PROVE  Merged(r, [w EXCEPT ![MaxRows] = Normal(MaxRows)])
<1> DEFINE x == [w EXCEPT ![MaxRows] = Normal(MaxRows)]
<1>1. /\ MaxRows \in Ids /\ x[MaxRows] = Normal(MaxRows)
      /\ \A j \in Ids : j # MaxRows => x[j] = w[j]
  BY UpgradeAssumption DEF Ids
<1>2. /\ ~Legacy(Normal(MaxRows)) /\ NoRow # Garbage
      /\ \A t : NoRow # Normal(t)
  BY DEF Legacy, Normal, NoRow, Garbage
<1> HIDE DEF x
<1>3. \A i \in Ids : ~Legacy(x[i])
  BY <1>1, <1>2 DEF Merged
<1>4. \A i \in Ids : r[i] = Garbage => x[i] = Garbage
  BY <1>1, <1>2 DEF Merged
<1>5. ASSUME NEW i \in Ids, r[i] \notin {NoRow, Garbage} PROVE \E j \in Ids : x[j] = Normal(r[i].at)
  <2>1. PICK j \in Ids : w[j] = Normal(r[i].at)
    BY <1>5 DEF Merged
  <2> QED BY <1>1, <1>2, <2>1
<1>6. Distinct(x)
  BY <1>1 DEF Merged, Distinct
<1>7. \A j \in Ids \ {MaxRows} : x[j] # Normal(MaxRows)
  BY <1>1 DEF Merged
<1> QED
  BY <1>1, <1>3, <1>4, <1>5, <1>6, <1>7 DEF Merged, x

-----------------------------------------------------------------------------
\* The stored rows are merged once; a schema that is refused stays.

Refused(d) == d.version > Current \/ ~Compatible(d)

ExactInv ==
    /\ original.version = Oldest =>
          /\ original.rows \in Stored
          /\ \/ db = original
             \/ db.version = Current /\ Merged(original.rows, db.rows)
    /\ Refused(original) => db = original

LEMMA ExactInit ==
  ASSUME Init
  PROVE  ExactInv
BY DEF Init, ExactInv, Oldest, Current

LEMMA ExactStep ==
  ASSUME CoverInv, ExactInv, [Next]_vars
  PROVE  ExactInv'
<1>1. original' = original /\ db \in Dbs
  BY DEF CoverInv, TypeInv, vars, Next, Acquire, Work, Copy, CopyFails, Verify, VerifyFails,
         BackupGone, Rotate, Prepare, Migrate, MigrateFails, Recompute, Record, Periodic, Stop,
         Crash
<1>2. CASE UNCHANGED db
  BY <1>1, <1>2 DEF ExactInv, Refused, Compatible
<1>3. CASE \E p \in Procs : Migrate(p)
  <2>1. PICK p \in Procs : Migrate(p)
    BY <1>3
  <2>2. Compatible(db) /\ db.version <= Current
    BY <2>1 DEF CoverInv, Good, Roles, Versions, Migrate
  <2>3. ~Refused(original)
    BY <1>1, <2>2 DEF ExactInv, Refused, Dbs, Current
  <2>4. db'.version = Current /\ db'.rows = Normalized(db.rows)
    BY <1>1, <2>1, MigratedIs DEF Migrate
  <2>5. ASSUME original.version = Oldest PROVE Merged(original.rows, db'.rows)
    <3>1. original.rows \in Stored
      BY <2>5 DEF ExactInv
    <3>2. CASE db = original
      BY <2>4, <3>1, <3>2, NormalizedMerges
    <3>3. CASE Merged(original.rows, db.rows)
      <4>1. db.rows \in [Ids -> Rows] /\ \A i \in Ids : ~Legacy(db.rows[i])
        BY <1>1, <3>3 DEF Dbs, Merged
      <4>2. Normalized(db.rows) = db.rows
        BY <4>1, NormalizedAgain
      <4> QED BY <2>4, <3>3, <4>2
    <3> QED BY <2>5, <3>2, <3>3 DEF ExactInv
  <2>6. ~Refused(original)'
    BY <1>1, <2>3 DEF Refused, Compatible
  <2> QED BY <1>1, <2>4, <2>5, <2>6 DEF ExactInv
<1>4. CASE \E p \in Procs : Recompute(p) \/ Record(p)
  <2>1. PICK p \in Procs : Recompute(p) \/ Record(p)
    BY <1>4
  <2>2. db.version = Current
    BY <2>1 DEF CoverInv, Good, Versions, Recompute, Record
  <2>3. ~Refused(original) /\ (original.version = Oldest => Merged(original.rows, db.rows))
    BY <2>2 DEF ExactInv, Refused, Compatible, Oldest, Current
  <2>4. CASE Recompute(p)
    <3>1. db'.version = db.version /\ db'.rows = db.rows
      BY <1>1, <2>4 DEF Recompute, Dbs
    <3> QED BY <1>1, <2>2, <2>3, <3>1 DEF ExactInv, Refused, Compatible
  <2>5. CASE Record(p)
    <3>1. /\ db'.version = db.version /\ db.rows \in [Ids -> Rows] /\ db.rows[MaxRows] = NoRow
          /\ db'.rows = [db.rows EXCEPT ![MaxRows] = Normal(MaxRows)]
      BY <1>1, <2>5, RecordIs DEF Record, Dbs, CoverInv
    <3>2. Merged(original.rows, db.rows) => Merged(original.rows, db'.rows)
      BY <3>1, RecordMerged
    <3> QED BY <1>1, <2>2, <2>3, <3>1, <3>2 DEF ExactInv, Refused, Compatible
  <2> QED BY <2>1, <2>4, <2>5
<1> QED
  <2>1. CASE ~UNCHANGED db
    <3>1. PICK p \in Procs : Migrate(p) \/ Recompute(p) \/ Record(p)
      BY <2>1 DEF vars, Next, Acquire, Work, Copy, CopyFails, Verify, VerifyFails, BackupGone,
                  Rotate, Prepare, MigrateFails, Periodic, Stop, Crash
    <3> QED BY <1>3, <1>4, <3>1
  <2> QED BY <1>2, <2>1

\* Merged rows have one row for an instant.
LEMMA OneRow ==
  ASSUME NEW r \in [Ids -> Rows], NEW w \in [Ids -> Rows], Merged(r, w),
         NEW i \in Ids, Legacy(r[i]) \/ r[i].form = "normal"
  PROVE  Cardinality({j \in Ids : w[j].at = r[i].at /\ w[j] # NoRow}) = 1
<1>1. r[i].at \in Ids /\ r[i] \notin {NoRow, Garbage}
  BY DEF Rows, Legacy, NoRow, Garbage
<1>2. PICK k \in Ids : w[k] = Normal(r[i].at)
  BY <1>1 DEF Merged
<1>3. ASSUME NEW j \in Ids, w[j].at = r[i].at PROVE j = k
  <2>1. r[i].at # 0
    BY <1>1 DEF Ids
  <2>2. w[j] \notin {NoRow, Garbage} /\ ~Legacy(w[j])
    BY <1>3, <2>1 DEF NoRow, Garbage, Merged
  <2>3. w[j] = Normal(r[i].at)
    BY <1>3, <2>2, LegacyRow
  <2> QED BY <1>2, <2>3 DEF Merged, Distinct, Normal
<1>4. w[k].at = r[i].at /\ w[k] # NoRow
  BY <1>2 DEF Normal, NoRow
<1>5. {j \in Ids : w[j].at = r[i].at /\ w[j] # NoRow} = {k}
  BY <1>3, <1>4
<1> QED
  BY <1>5, FS_Singleton

LEMMA ExactIsExact ==
  ASSUME CoverInv, ExactInv
  PROVE  UpgradeExact
<1>1. db.rows \in [Ids -> Rows] /\ original.rows \in [Ids -> Rows]
  BY DEF CoverInv, TypeInv, Dbs
<1>2. ASSUME db.version = Current, original.version = Oldest
      PROVE  Merged(original.rows, db.rows)
  BY <1>2 DEF ExactInv, Oldest, Current
<1>3. ASSUME db.version = Current, original.version = Oldest
      PROVE  \A i \in Ids : original.rows[i].form = "garbage" => db.rows[i] = original.rows[i]
  <2>1. \A i \in Ids : original.rows[i].form = "garbage" => original.rows[i] = Garbage
    BY <1>1 DEF Rows, NoRow, Forms
  <2> QED BY <1>2, <1>3, <2>1 DEF Merged
<1>4. ASSUME db.version = Current, original.version = Oldest
      PROVE  \A i \in Ids : ~Legacy(db.rows[i])
  BY <1>2, <1>4 DEF Merged
<1>5. ASSUME db.version = Current, original.version = Oldest,
             NEW i \in Ids, Legacy(original.rows[i]) \/ original.rows[i].form = "normal"
      PROVE  Cardinality({j \in Ids : db.rows[j].at = original.rows[i].at /\ db.rows[j] # NoRow}) = 1
  BY <1>1, <1>2, <1>5, OneRow
<1> QED
  BY <1>3, <1>4, <1>5 DEF UpgradeExact, ExactInv, Refused

\* normalizeStatusTimestamps, checkCompatible: one row in the fixed layout for every
\* instant, also when several servers migrate; a schema that is refused is untouched.
THEOREM UpgradesAreExact == Spec => []UpgradeExact
<1>1. Init => ExactInv
  BY ExactInit
<1>2. CoverInv /\ ExactInv /\ [Next]_vars => ExactInv'
  BY ExactStep
<1>3. CoverInv /\ ExactInv => UpgradeExact
  BY ExactIsExact
<1> QED
  BY <1>1, <1>2, <1>3, UpgradeInvariant, PTL DEF Spec
=============================================================================
