-------------------------- MODULE MigrationProofs --------------------------
(***************************************************************************)
(* Proofs about Migration: the bound on the rows of a window, for any      *)
(* number of threads and any batch, that a window lasts, and that the log  *)
(* holds what was written, in order, across restarts.                      *)
(*                                                                         *)
(* RateBound is not inductive: a thread that has passed the test will add  *)
(* its batch later, when others have added theirs.  RateInv counts the     *)
(* batches of all threads that have passed it as moved already.  A window  *)
(* lasts because RecordMigrationStart can only make age less than since.   *)
(*                                                                         *)
(* The order of the log rests on the number of the last entry that each    *)
(* thread may have in it (Highest): a step that writes has a higher one,   *)
(* and no step, a restart included, takes a number back.  That a record    *)
(* is in the file when its Flush returns rests on what Flush has written   *)
(* at every point of its loop (FlushInv).                                  *)
(***************************************************************************)
EXTENDS Migration, FiniteSetTheorems, SequenceTheorems, TLAPS

\* The threads that have passed CanMigrateMore and not yet reported their batch.
Movers == {m \in Migrators : pc[m] = "moving"}

RateTypeOK ==
    /\ migration_rate_limit_ \in Limits
    /\ rows_migrated_this_second_ \in Nat
    /\ age \in Nat /\ since \in Nat
    /\ pc \in [Migrators -> {"idle", "asking", "moving", "logging", "writing"}]

RateInv ==
    /\ RateTypeOK
    /\ rows_migrated_this_second_ + BATCH * Cardinality(Movers)
          < MAX_LIMIT + BATCH * Cardinality(Migrators)
    /\ age <= since

-----------------------------------------------------------------------------
\* Products with BATCH, which the solvers do not find by themselves.
LEMMA BatchArith ==
  /\ \A n \in Nat : BATCH * n \in Nat /\ BATCH * (n + 1) = BATCH * n + BATCH
  /\ \A k, n \in Nat : k <= n => BATCH * k <= BATCH * n
<1>1. \A n \in Nat : BATCH * n \in Nat /\ BATCH * (n + 1) = BATCH * n + BATCH
  BY BatchAssumption
<1>2. \A k, n \in Nat : k <= n => BATCH * k <= BATCH * n
  <2> SUFFICES ASSUME NEW k \in Nat, NEW n \in Nat, k <= n PROVE BATCH * k <= BATCH * n
    OBVIOUS
  <2>1. n - k \in Nat /\ BATCH * (n - k) \in Nat
    BY BatchAssumption
  <2>2. BATCH * n = BATCH * k + BATCH * (n - k)
    BY BatchAssumption
  <2> QED BY <1>1, <2>1, <2>2
<1> QED BY <1>1, <1>2

LEMMA MoversFinite ==
  ASSUME NEW S, S \subseteq Migrators
  PROVE  /\ IsFiniteSet(S) /\ Cardinality(S) \in Nat /\ Cardinality(Migrators) \in Nat
         /\ Cardinality(S) <= Cardinality(Migrators)
  BY MigratorsAssumption, FS_Subset, FS_CardinalityType

\* The rate's state and the threads that move are what the invariant speaks of.
LEMMA SameMovers ==
  ASSUME RateInv, RateTypeOK', rows_migrated_this_second_' = rows_migrated_this_second_,
         Movers' = Movers, age' <= since'
  PROVE  RateInv'
  BY DEF RateInv

LEMMA CanMigrateMoreInv ==
  ASSUME RateInv, NEW m \in Migrators, CanMigrateMore(m)
  PROVE  RateInv'
<1> DEFINE rows == IF SecondHasPassed THEN 0 ELSE rows_migrated_this_second_
<1>1. RateTypeOK /\ age <= since
  BY DEF RateInv
<1>2. /\ rows_migrated_this_second_' = rows /\ rows \in Nat /\ rows <= rows_migrated_this_second_
      /\ pc[m] = "asking" /\ UNCHANGED migration_rate_limit_
      /\ pc' = [pc EXCEPT ![m] = IF Admits(rows) THEN "moving" ELSE "asking"]
      /\ age' = (IF SecondHasPassed THEN 0 ELSE age) /\ since' = (IF SecondHasPassed THEN 0 ELSE since)
  BY <1>1 DEF CanMigrateMore, RateTypeOK
<1> HIDE DEF rows
<1>3. RateTypeOK'
  BY <1>1, <1>2 DEF RateTypeOK
<1>4. age' <= since'
  BY <1>1, <1>2 DEF RateTypeOK
<1>5. rows_migrated_this_second_' + BATCH * Cardinality(Movers')
         < MAX_LIMIT + BATCH * Cardinality(Migrators)
  <2>1. CASE Admits(rows)
    <3>1. rows < MAX_LIMIT
      BY <1>1, <1>2, <2>1, LimitAssumption DEF Admits, RateTypeOK, Limits
    <3>2. /\ Cardinality(Movers') \in Nat /\ Cardinality(Migrators) \in Nat
          /\ Cardinality(Movers') <= Cardinality(Migrators)
      <4>1. Movers' \subseteq Migrators
        BY DEF Movers
      <4> QED BY <4>1, MoversFinite
    <3>3. /\ BATCH * Cardinality(Movers') <= BATCH * Cardinality(Migrators)
          /\ BATCH * Cardinality(Movers') \in Nat /\ BATCH * Cardinality(Migrators) \in Nat
      BY <3>2, BatchArith
    <3> QED BY <1>2, <3>1, <3>3, LimitAssumption
  <2>2. CASE ~Admits(rows)
    <3>1. Movers' = Movers
      BY <1>1, <1>2, <2>2 DEF Movers, RateTypeOK
    <3>2. BATCH * Cardinality(Movers) \in Nat /\ BATCH * Cardinality(Migrators) \in Nat
      <4>1. Movers \subseteq Migrators
        BY DEF Movers
      <4> QED BY <4>1, MoversFinite, BatchArith
    <3> QED BY <1>1, <1>2, <3>1, <3>2, LimitAssumption DEF RateInv, RateTypeOK
  <2> QED BY <2>1, <2>2
<1> QED BY <1>3, <1>4, <1>5 DEF RateInv

\* The batch of a thread that had passed the test is now in the rows.
LEMMA RecordMigrationRowsInv ==
  ASSUME RateInv, NEW m \in Migrators, RecordMigrationRows(m)
  PROVE  RateInv'
<1>1. RateTypeOK /\ m \in Movers /\ Movers \subseteq Migrators
  BY DEF RateInv, RecordMigrationRows, Movers
<1>2. /\ rows_migrated_this_second_' = rows_migrated_this_second_ + BATCH
      /\ UNCHANGED <<migration_rate_limit_, age, since>>
      /\ \E next \in {"asking", "logging"} : pc' = [pc EXCEPT ![m] = next]
  BY DEF RecordMigrationRows
<1>3. RateTypeOK'
  BY <1>1, <1>2, BatchAssumption DEF RateTypeOK
<1>4. Movers' = Movers \ {m}
  BY <1>1, <1>2 DEF Movers, RateTypeOK
<1>5. /\ Cardinality(Movers') \in Nat /\ Cardinality(Movers) = Cardinality(Movers') + 1
      /\ Cardinality(Migrators) \in Nat
  <2>1. IsFiniteSet(Movers) /\ Cardinality(Movers) \in Nat /\ Cardinality(Migrators) \in Nat
    BY <1>1, MoversFinite
  <2>2. Cardinality(Movers \ {m}) = Cardinality(Movers) - 1
    BY <1>1, <2>1, FS_RemoveElement
  <2>3. Cardinality(Movers) # 0
    BY <1>1, <2>1, FS_EmptySet
  <2> QED BY <1>4, <2>1, <2>2, <2>3
<1>6. /\ BATCH * Cardinality(Movers) = BATCH * Cardinality(Movers') + BATCH
      /\ BATCH * Cardinality(Movers') \in Nat /\ BATCH * Cardinality(Migrators) \in Nat
  BY <1>5, BatchArith
<1>7. rows_migrated_this_second_' + BATCH * Cardinality(Movers')
         < MAX_LIMIT + BATCH * Cardinality(Migrators)
  BY <1>1, <1>2, <1>6, BatchAssumption, LimitAssumption DEF RateInv, RateTypeOK
<1> QED BY <1>2, <1>3, <1>7 DEF RateInv

LEMMA NobodyMoves ==
  ASSUME RateTypeOK', rows_migrated_this_second_' = 0, Movers' = {}, age' <= since'
  PROVE  RateInv'
<1>1. Cardinality({}) = 0 /\ Cardinality(Migrators) \in Nat
  BY FS_EmptySet, MigratorsAssumption, FS_CardinalityType
<1>2. BATCH * 0 = 0 /\ BATCH * Cardinality(Migrators) \in Nat
  BY <1>1, BatchArith, BatchAssumption
<1> QED BY <1>1, <1>2, LimitAssumption DEF RateInv

LEMMA RateInitInv == Init => RateInv
<1> SUFFICES ASSUME Init PROVE RateInv
  OBVIOUS
<1>1. RateTypeOK /\ age <= since
  BY SecondAssumption, LimitAssumption DEF Init, RateTypeOK, Limits
<1>2. Movers = {}
  BY DEF Init, Movers
<1>3. Cardinality({}) = 0 /\ Cardinality(Migrators) \in Nat
  BY FS_EmptySet, MigratorsAssumption, FS_CardinalityType
<1>4. BATCH * 0 = 0 /\ BATCH * Cardinality(Migrators) \in Nat
  BY <1>3, BatchArith, BatchAssumption
<1>5. rows_migrated_this_second_ = 0
  BY DEF Init
<1> QED BY <1>1, <1>2, <1>3, <1>4, <1>5, LimitAssumption DEF RateInv

LEMMA RateStepInv ==
  ASSUME RateInv, [Next]_vars
  PROVE  RateInv'
<1>0. RateTypeOK /\ age <= since
  BY DEF RateInv
<1>1. CASE UNCHANGED vars
  BY <1>1 DEF vars, rateVars, migratorVars, RateInv, RateTypeOK, Movers
<1>2. CASE \E l \in Loggers : LoggerStep(l)
  <2>1. UNCHANGED <<rateVars, pc>>
    BY <1>2 DEF LoggerStep, AppendLog, Flush, FlushRecord, FlushEnd, migratorVars
  <2> QED BY <2>1 DEF rateVars, RateInv, RateTypeOK, Movers
<1>3. CASE ClearMigrationLogs
  BY <1>3 DEF ClearMigrationLogs, rateVars, RateInv, RateTypeOK, Movers
<1>4. CASE \E limit \in Limits : SetMigrationRateLimit(limit)
  <2>1. migration_rate_limit_' \in Limits /\ UNCHANGED <<rows_migrated_this_second_, age, since, pc>>
    BY <1>4 DEF SetMigrationRateLimit, migratorVars
  <2> QED BY <2>1 DEF RateInv, RateTypeOK, Movers
<1>5. CASE Tick
  <2>1. UNCHANGED <<migration_rate_limit_, rows_migrated_this_second_, pc>>
    BY <1>5 DEF Tick, migratorVars
  <2>2. age' \in Nat /\ since' \in Nat /\ age' <= since'
    BY <1>0, <1>5, SecondAssumption DEF Tick, RateTypeOK
  <2> QED BY <1>0, <2>1, <2>2 DEF RateInv, RateTypeOK, Movers
<1>6. CASE Restart
  <2>1. RateTypeOK'
    BY <1>6, SecondAssumption, LimitAssumption DEF Restart, RateTypeOK, Limits
  <2>2. Movers' = {}
    BY <1>6 DEF Restart, Movers
  <2>3. rows_migrated_this_second_' = 0 /\ age' <= since'
    BY <1>6, SecondAssumption DEF Restart
  <2> QED BY <2>1, <2>2, <2>3, NobodyMoves
<1>7. CASE \E m \in Migrators : MigratorStep(m)
  <2>1. PICK m \in Migrators : MigratorStep(m)
    BY <1>7
  <2>2. CASE RecordMigrationStart(m)
    <3>1. RateTypeOK'
      BY <1>0, <2>2 DEF RecordMigrationStart, RateTypeOK
    <3>2. Movers' = Movers
      BY <1>0, <2>2 DEF RecordMigrationStart, RateTypeOK, Movers
    <3>3. rows_migrated_this_second_' = rows_migrated_this_second_ /\ age' <= since'
      BY <1>0, <2>2 DEF RecordMigrationStart, RateTypeOK
    <3> QED BY <3>1, <3>2, <3>3, SameMovers
  <2>3. CASE PushLog(m) \/ WriteMigration(m)
    <3>1. /\ UNCHANGED rateVars /\ pc[m] \in {"asking", "logging", "writing"}
          /\ \E next \in {"writing", "idle"} : pc' = [pc EXCEPT ![m] = next]
      BY <2>3 DEF PushLog, WriteMigration
    <3>2. RateTypeOK'
      BY <1>0, <3>1 DEF RateTypeOK, rateVars
    <3>3. Movers' = Movers
      BY <1>0, <3>1 DEF RateTypeOK, Movers
    <3>4. rows_migrated_this_second_' = rows_migrated_this_second_ /\ age' <= since'
      BY <1>0, <3>1 DEF rateVars
    <3> QED BY <3>2, <3>3, <3>4, SameMovers
  <2> QED BY <2>1, <2>2, <2>3, CanMigrateMoreInv, RecordMigrationRowsInv DEF MigratorStep
<1> QED BY <1>1, <1>2, <1>3, <1>4, <1>5, <1>6, <1>7 DEF Next

\* However many threads migrate, the rows of a window exceed the largest limit
\* by less than a batch of every thread (LayerManager.cpp:51-71).
THEOREM RateIsBounded == Spec => []RateBound
<1>1. RateInv => RateBound
  <2> SUFFICES ASSUME RateInv PROVE RateBound
    OBVIOUS
  <2>1. Movers \subseteq Migrators
    BY DEF Movers
  <2>2. BATCH * Cardinality(Movers) \in Nat /\ BATCH * Cardinality(Migrators) \in Nat
    BY <2>1, MoversFinite, BatchArith
  <2> QED BY <2>2, LimitAssumption DEF RateInv, RateTypeOK, RateBound
<1> QED BY RateInitInv, RateStepInv, <1>1, PTL DEF Spec

\* A window of the rate limit lasts a second at least, for any interleaving of
\* the threads' calls (LayerManager.cpp:56-59, 63-66).
THEOREM WindowsLast == Spec => WindowLasts
<1>1. ASSUME RateInv, [Next]_vars
      PROVE  [rows_migrated_this_second_' < rows_migrated_this_second_ =>
                 since >= SECOND \/ restarts' # restarts]_vars
  <2>0. RateTypeOK /\ age <= since
    BY <1>1 DEF RateInv
  <2> SUFFICES ASSUME Next, rows_migrated_this_second_' < rows_migrated_this_second_
               PROVE  since >= SECOND \/ restarts' # restarts
    BY <1>1
  <2>1. CASE Restart
    BY <2>1 DEF Restart
  <2>2. CASE \E m \in Migrators : CanMigrateMore(m)
    <3>1. SecondHasPassed
      BY <2>0, <2>2 DEF CanMigrateMore, RateTypeOK
    <3> QED BY <2>0, <3>1, SecondAssumption DEF SecondHasPassed, RateTypeOK
  <2>3. CASE \E m \in Migrators : RecordMigrationRows(m)
    BY <2>0, <2>3, BatchAssumption DEF RecordMigrationRows, RateTypeOK
  <2>4. CASE rows_migrated_this_second_' = rows_migrated_this_second_
    BY <2>0, <2>4 DEF RateTypeOK
  <2>5. CASE \E l \in Loggers : LoggerStep(l)
    BY <2>4, <2>5 DEF LoggerStep, AppendLog, Flush, FlushRecord, FlushEnd, rateVars
  <2>6. CASE ClearMigrationLogs \/ Tick \/ \E limit \in Limits : SetMigrationRateLimit(limit)
    BY <2>4, <2>6 DEF ClearMigrationLogs, Tick, SetMigrationRateLimit, rateVars
  <2>7. CASE \E m \in Migrators : RecordMigrationStart(m) \/ PushLog(m) \/ WriteMigration(m)
    BY <2>4, <2>7 DEF RecordMigrationStart, PushLog, WriteMigration, rateVars
  <2> QED BY <2>1, <2>2, <2>3, <2>5, <2>6, <2>7 DEF Next, MigratorStep
<1> QED BY RateInitInv, RateStepInv, <1>1, PTL DEF Spec, WindowLasts

-----------------------------------------------------------------------------
(* The log *)

\* The number of the last entry that each author may have in the log.
Highest == [a \in Threads |->
    IF a \in Migrators
    THEN IF pc[a] = "idle" THEN migrations[a] ELSE migrations[a] - 1
    ELSE written[a] - Len(records_[a]) + (IF flushing[a] = 0 THEN 0 ELSE flushing[a] - 1)]

Ordered(s) == \A j, k \in DOMAIN s : j < k /\ s[j].by = s[k].by => s[j].n < s[k].n
Below(s, bound) == \A j \in DOMAIN s : s[j].n <= bound[s[j].by]

Wal == [good : BOOLEAN, buffered : Seq(Entry), file : Seq(Entry)]

LogTypeOK ==
    /\ wal \in Wal
    /\ pc \in [Migrators -> {"idle", "asking", "moving", "logging", "writing"}]
    /\ migrations \in [Migrators -> Nat]
    /\ records_ \in [Loggers -> Seq(Entry)]
    /\ flushing \in [Loggers -> Nat] /\ written \in [Loggers -> Nat]

\* A buffer holds the last records that its owner appended, one after the other.
BufferInv ==
    \A l \in Loggers :
       /\ Len(records_[l]) <= written[l] /\ flushing[l] <= Len(records_[l]) + 1
       /\ \A i \in 1 .. Len(records_[l]) :
             records_[l][i] = [by |-> l, n |-> written[l] - Len(records_[l]) + i]

\* Flush has written the records before the one it is at.
FlushInv ==
    wal.good => \A l \in Loggers : \A i \in 1 .. Len(records_[l]) :
                   i < flushing[l] => records_[l][i] \in ToSet(Stream)

LogInv ==
    /\ LogTypeOK
    /\ BufferInv /\ FlushInv
    /\ Ordered(Stream) /\ Below(Stream, Highest)
    /\ acked \subseteq ToSet(wal.file)

LEMMA WalParts ==
  ASSUME NEW w \in Wal
  PROVE  w.good \in BOOLEAN /\ w.buffered \in Seq(Entry) /\ w.file \in Seq(Entry)
  BY DEF Wal

LEMMA EntryParts == \A e \in Entry : e.by \in Threads /\ e.n \in Nat
  BY DEF Entry

\* A sequence and its elements.
LEMMA SeqParts ==
  ASSUME NEW s \in Seq(Entry)
  PROVE  /\ Len(s) \in Nat /\ DOMAIN s = 1 .. Len(s)
         /\ \A j \in 1 .. Len(s) : s[j] \in Entry /\ s[j].by \in Threads /\ s[j].n \in Nat
         /\ ToSet(s) = {s[j] : j \in 1 .. Len(s)}
<1>1. Len(s) \in Nat /\ DOMAIN s = 1 .. Len(s)
  BY LenProperties
<1>2. \A j \in 1 .. Len(s) : s[j] \in Entry
  BY ElementOfSeq
<1> QED BY <1>1, <1>2, EntryParts DEF ToSet

\* One more entry at the end, with a higher number than its author's others.
LEMMA StreamGrows ==
  ASSUME NEW s \in Seq(Entry), NEW e \in Entry, Ordered(s),
         NEW bound \in [Threads -> Int], Below(s, bound), bound[e.by] < e.n,
         NEW next \in [Threads -> Int], e.n <= next[e.by], \A a \in Threads : bound[a] <= next[a]
  PROVE  /\ Ordered(Append(s, e)) /\ Below(Append(s, e), next)
         /\ ToSet(s) \subseteq ToSet(Append(s, e)) /\ e \in ToSet(Append(s, e))
<1> DEFINE t == Append(s, e)
<1>0. /\ t \in Seq(Entry) /\ Len(t) = Len(s) + 1 /\ t[Len(s) + 1] = e
      /\ \A j \in 1 .. Len(s) : t[j] = s[j]
  BY AppendProperties
<1> HIDE DEF t
<1>1. /\ Len(s) \in Nat /\ DOMAIN s = 1 .. Len(s) /\ DOMAIN t = 1 .. (Len(s) + 1)
      /\ \A j \in 1 .. Len(s) : s[j].by \in Threads /\ s[j].n \in Nat
      /\ e.by \in Threads /\ e.n \in Nat
  BY <1>0, SeqParts, EntryParts
<1>2. ASSUME NEW j \in DOMAIN t, NEW k \in DOMAIN t, j < k, t[j].by = t[k].by PROVE t[j].n < t[k].n
  <2>1. j \in 1 .. Len(s) /\ t[j] = s[j]
    BY <1>0, <1>1, <1>2
  <2>2. CASE k = Len(s) + 1
    <3>1. s[j].n <= bound[e.by]
      BY <1>0, <1>1, <1>2, <2>1, <2>2 DEF Below
    <3> QED BY <1>0, <1>1, <2>1, <2>2, <3>1
  <2>3. CASE k # Len(s) + 1
    <3>1. k \in 1 .. Len(s) /\ t[k] = s[k]
      BY <1>0, <1>1, <2>3
    <3> QED BY <1>1, <1>2, <2>1, <3>1 DEF Ordered
  <2> QED BY <2>2, <2>3
<1>3. ASSUME NEW j \in DOMAIN t PROVE t[j].n <= next[t[j].by]
  <2>1. CASE j = Len(s) + 1
    BY <1>0, <2>1
  <2>2. CASE j # Len(s) + 1
    <3>1. j \in 1 .. Len(s) /\ t[j] = s[j]
      BY <1>0, <1>1, <2>2
    <3>2. s[j].n <= bound[s[j].by] /\ s[j].by \in Threads /\ s[j].n \in Nat
      BY <1>1, <3>1 DEF Below
    <3>3. bound[s[j].by] \in Int /\ next[s[j].by] \in Int /\ bound[s[j].by] <= next[s[j].by]
      BY <3>2
    <3> QED BY <3>1, <3>2, <3>3
  <2> QED BY <2>1, <2>2
<1>4. ToSet(s) \subseteq ToSet(t) /\ e \in ToSet(t)
  <2>1. \A j \in 1 .. Len(s) : j \in 1 .. (Len(s) + 1)
    BY <1>1
  <2>2. Len(s) + 1 \in 1 .. (Len(s) + 1)
    BY <1>1
  <2> QED BY <1>0, <1>1, <2>1, <2>2 DEF ToSet
<1>5. Ordered(t) /\ Below(t, next)
  BY <1>2, <1>3 DEF Ordered, Below
<1> QED BY <1>4, <1>5 DEF t

\* The first entries of the log only.
LEMMA StreamIsCut ==
  ASSUME NEW s \in Seq(Entry), NEW t \in Seq(Entry), NEW bound, NEW next,
         Len(t) <= Len(s), \A j \in 1 .. Len(t) : t[j] = s[j],
         Ordered(s), Below(s, bound),
         bound \in [Threads -> Int], next \in [Threads -> Int], \A a \in Threads : bound[a] <= next[a]
  PROVE  Ordered(t) /\ Below(t, next)
<1>1. /\ Len(s) \in Nat /\ DOMAIN s = 1 .. Len(s) /\ Len(t) \in Nat /\ DOMAIN t = 1 .. Len(t)
      /\ \A j \in 1 .. Len(s) : s[j].by \in Threads /\ s[j].n \in Nat
  BY SeqParts
<1>2. \A j \in DOMAIN t : j \in DOMAIN s /\ t[j] = s[j]
  BY <1>1
<1>3. Ordered(t)
  BY <1>2 DEF Ordered
<1>4. ASSUME NEW j \in DOMAIN t PROVE t[j].n <= next[t[j].by]
  <2>1. s[j].n <= bound[s[j].by] /\ s[j].by \in Threads /\ s[j].n \in Nat /\ t[j] = s[j]
    BY <1>1, <1>2 DEF Below
  <2>2. bound[s[j].by] \in Int /\ next[s[j].by] \in Int /\ bound[s[j].by] <= next[s[j].by]
    BY <2>1
  <2> QED BY <2>1, <2>2
<1> QED BY <1>3, <1>4 DEF Below

LEMMA HighestType == LogTypeOK => Highest \in [Threads -> Int]
<1> SUFFICES ASSUME LogTypeOK, NEW a \in Threads
             PROVE  (IF a \in Migrators
                     THEN IF pc[a] = "idle" THEN migrations[a] ELSE migrations[a] - 1
                     ELSE written[a] - Len(records_[a]) + (IF flushing[a] = 0 THEN 0 ELSE flushing[a] - 1)) \in Int
  BY DEF Highest
<1>1. CASE a \in Migrators
  <2>1. migrations[a] \in Nat
    BY <1>1 DEF LogTypeOK
  <2> QED BY <1>1, <2>1
<1>2. CASE a \notin Migrators
  <2>1. a \in Loggers
    BY <1>2 DEF Threads
  <2>2. written[a] \in Nat /\ flushing[a] \in Nat /\ records_[a] \in Seq(Entry)
    BY <2>1 DEF LogTypeOK
  <2>3. Len(records_[a]) \in Nat
    BY <2>2, SeqParts
  <2> QED BY <1>2, <2>2, <2>3
<1> QED BY <1>1, <1>2

\* The parts of Highest.
LEMMA HighestParts ==
  /\ \A m \in Migrators : Highest[m] = IF pc[m] = "idle" THEN migrations[m] ELSE migrations[m] - 1
  /\ \A l \in Loggers : Highest[l] = written[l] - Len(records_[l]) + (IF flushing[l] = 0 THEN 0 ELSE flushing[l] - 1)
  BY ThreadsAssumption DEF Highest, Threads

\* An entry that goes to the stream's buffer is the last one of the log.
LEMMA AppendToStream ==
  ASSUME NEW f \in Seq(Entry), NEW b \in Seq(Entry), NEW e \in Entry
  PROVE  f \o Append(b, e) = Append(f \o b, e)
<1>1. <<e>> \in Seq(Entry) /\ f \o b \in Seq(Entry)
  <2>1. <<>> \in Seq(Entry) /\ Append(<<>>, e) = <<e>>
    BY EmptySeq
  <2>2. Append(<<>>, e) \in Seq(Entry)
    BY <2>1, AppendProperties
  <2> QED BY <2>1, <2>2, ConcatProperties
<1>2. Append(b, e) = b \o <<e>> /\ Append(f \o b, e) = (f \o b) \o <<e>>
  BY <1>1, AppendIsConcat
<1>3. (f \o b) \o <<e>> = f \o (b \o <<e>>)
  BY <1>1, ConcatAssociative
<1> QED BY <1>2, <1>3

\* What a call of WriteLog does to the log.
LEMMA WriteLogEffect ==
  ASSUME NEW w \in Wal, NEW e \in Entry, NEW ok \in BOOLEAN
  PROVE  /\ WriteLog(w, e, ok) \in Wal /\ WriteLog(w, e, ok).file = w.file
         /\ WriteLog(w, e, ok).good => w.good
         /\ WriteLog(w, e, ok).good \/ WriteLog(w, e, ok).buffered = w.buffered
         /\ WriteLog(w, e, ok).good =>
               w.file \o WriteLog(w, e, ok).buffered = Append(w.file \o w.buffered, e)
<1>1. w.good \in BOOLEAN /\ w.buffered \in Seq(Entry) /\ w.file \in Seq(Entry)
  BY WalParts
<1>2. CASE w.good /\ ok
  <2> DEFINE b == Append(w.buffered, e)
  <2>1. b \in Seq(Entry)
    BY <1>1, AppendProperties
  <2>2. WriteLog(w, e, ok) = [w EXCEPT !.buffered = b]
    BY <1>2 DEF WriteLog
  <2>3. w.file \o b = Append(w.file \o w.buffered, e)
    BY <1>1, AppendToStream
  <2> HIDE DEF b
  <2>4. /\ WriteLog(w, e, ok) \in Wal /\ WriteLog(w, e, ok).good = w.good
        /\ WriteLog(w, e, ok).file = w.file /\ WriteLog(w, e, ok).buffered = b
    BY <2>1, <2>2 DEF Wal
  <2> QED BY <1>2, <2>3, <2>4
<1>3. CASE ~(w.good /\ ok)
  <2>1. WriteLog(w, e, ok) = [w EXCEPT !.good = FALSE]
    BY <1>3 DEF WriteLog
  <2>2. /\ WriteLog(w, e, ok) \in Wal /\ WriteLog(w, e, ok).good = FALSE
        /\ WriteLog(w, e, ok).file = w.file /\ WriteLog(w, e, ok).buffered = w.buffered
    BY <2>1 DEF Wal
  <2> QED BY <2>2
<1> QED BY <1>2, <1>3

\* A step that writes entry e of an author, or drops it, and keeps the numbers of
\* the others.
LEMMA WriteStep ==
  ASSUME LogInv, LogTypeOK', NEW e \in Entry, NEW ok \in BOOLEAN, wal' = WriteLog(wal, e, ok),
         \A a \in Threads : Highest[a] <= Highest'[a], Highest[e.by] < e.n, e.n <= Highest'[e.by]
  PROVE  /\ Ordered(Stream') /\ Below(Stream', Highest')
         /\ ToSet(Stream) \subseteq ToSet(Stream') /\ (wal'.good => e \in ToSet(Stream'))
         /\ (wal'.good => wal.good) /\ wal'.file = wal.file
<1>1. /\ wal \in Wal /\ Ordered(Stream) /\ Below(Stream, Highest)
      /\ wal.buffered \in Seq(Entry) /\ wal.file \in Seq(Entry)
  BY WalParts DEF LogInv, LogTypeOK
<1>2. Highest \in [Threads -> Int]
  BY HighestType DEF LogInv
<1>3. Highest' \in [Threads -> Int]
  <2>1. LogTypeOK' => (Highest \in [Threads -> Int])'
    BY HighestType, PTL
  <2> QED BY <2>1
<1>4. Stream \in Seq(Entry)
  BY <1>1, ConcatProperties DEF Stream
<1>5. /\ (wal'.good => wal.good) /\ wal'.file = wal.file /\ Stream' = wal'.file \o wal'.buffered
      /\ ~wal'.good => wal'.buffered = wal.buffered
      /\ wal'.good => wal.file \o wal'.buffered = Append(wal.file \o wal.buffered, e)
  <2>1. PICK w \in Wal : w = wal
    BY <1>1
  <2> DEFINE v == WriteLog(w, e, ok)
  <2>2. (v.good => w.good) /\ v.file = w.file
    BY WriteLogEffect
  <2>3. v.good \/ v.buffered = w.buffered
    <3>1. /\ v \in Wal /\ v.file = w.file
          /\ v.good => w.good
          /\ v.good \/ v.buffered = w.buffered
          /\ v.good => w.file \o v.buffered = Append(w.file \o w.buffered, e)
      BY WriteLogEffect
    <3> QED BY <3>1
  <2>4. v.good => w.file \o v.buffered = Append(w.file \o w.buffered, e)
    BY WriteLogEffect
  <2>5. v = wal'
    BY <2>1
  <2> HIDE DEF v
  <2> QED BY <2>1, <2>2, <2>3, <2>4, <2>5 DEF Stream
<1>6. CASE wal'.good
  <2>1. Stream' = Append(Stream, e)
    BY <1>5, <1>6 DEF Stream
  <2>2. PICK s \in Seq(Entry) : s = Stream
    BY <1>4
  <2>3. PICK next \in [Threads -> Int] : next = Highest'
    BY <1>3
  <2>4. PICK bound \in [Threads -> Int] : bound = Highest
    BY <1>2
  <2>5. /\ Ordered(s) /\ Below(s, bound) /\ bound[e.by] < e.n /\ e.n <= next[e.by]
        /\ \A a \in Threads : bound[a] <= next[a]
    BY <1>1, <2>2, <2>3, <2>4
  <2>6. /\ Ordered(Append(s, e)) /\ Below(Append(s, e), next)
        /\ ToSet(s) \subseteq ToSet(Append(s, e)) /\ e \in ToSet(Append(s, e))
    BY <2>5, StreamGrows
  <2> QED BY <1>5, <2>1, <2>2, <2>3, <2>6
<1>7. CASE ~wal'.good
  <2>1. Stream' = Stream
    BY <1>5, <1>7 DEF Stream
  <2>2. PICK s \in Seq(Entry) : s = Stream
    BY <1>4
  <2>3. Ordered(s) /\ Below(s, Highest')
    <3>1. Len(s) <= Len(s)
      BY LenProperties
    <3> QED BY <1>1, <1>2, <1>3, <2>2, <3>1, StreamIsCut
  <2> QED BY <1>5, <1>7, <2>1, <2>2, <2>3
<1> QED BY <1>1, <1>6, <1>7

\* A step that leaves the log alone and takes no number back.
LEMMA QuietStep ==
  ASSUME LogInv, LogTypeOK', Stream' = Stream, \A a \in Threads : Highest[a] <= Highest'[a]
  PROVE  Ordered(Stream') /\ Below(Stream', Highest')
<1>1. wal.buffered \in Seq(Entry) /\ wal.file \in Seq(Entry)
  BY WalParts DEF LogInv, LogTypeOK
<1>2. Highest \in [Threads -> Int]
  BY HighestType DEF LogInv
<1>3. Highest' \in [Threads -> Int]
  <2>1. LogTypeOK' => (Highest \in [Threads -> Int])'
    BY HighestType, PTL
  <2> QED BY <2>1
<1>4. PICK s \in Seq(Entry) : s = Stream
  BY <1>1, ConcatProperties DEF Stream
<1>5. Len(s) <= Len(s)
  BY LenProperties
<1>6. Ordered(s) /\ Below(s, Highest')
  BY <1>2, <1>3, <1>4, <1>5, StreamIsCut DEF LogInv
<1> QED BY <1>4, <1>6

\* The threads' numbers after a step, from those before.
LEMMA HighestStep ==
  ASSUME \A m \in Migrators : Highest[m] <= Highest'[m], \A l \in Loggers : Highest[l] <= Highest'[l]
  PROVE  \A a \in Threads : Highest[a] <= Highest'[a]
  BY DEF Threads

LEMMA HighestPartsNext ==
  /\ \A m \in Migrators : Highest'[m] = IF pc'[m] = "idle" THEN migrations'[m] ELSE migrations'[m] - 1
  /\ \A l \in Loggers : Highest'[l] = written'[l] - Len(records_'[l]) + (IF flushing'[l] = 0 THEN 0 ELSE flushing'[l] - 1)
  BY ThreadsAssumption DEF Highest, Threads

\* Steps of the migrating threads other than the one that writes to the log.
LEMMA MigratorsQuiet ==
  ASSUME LogInv, UNCHANGED <<loggerVars, wal, acked>>, LogTypeOK',
         \A m \in Migrators : Highest[m] <= Highest'[m]
  PROVE  LogInv'
<1>1. Stream' = Stream /\ records_' = records_ /\ flushing' = flushing /\ written' = written
  BY DEF Stream, loggerVars
<1>2. ASSUME NEW l \in Loggers PROVE Highest[l] <= Highest'[l]
  <2>1. Highest'[l] = Highest[l]
    BY <1>1, HighestParts, HighestPartsNext
  <2>2. Highest \in [Threads -> Int] /\ l \in Threads
    BY HighestType DEF LogInv, Threads
  <2> QED BY <2>1, <2>2
<1>3. Ordered(Stream') /\ Below(Stream', Highest')
  BY <1>1, <1>2, HighestStep, QuietStep
<1>4. BufferInv' /\ FlushInv'
  BY <1>1 DEF LogInv, BufferInv, FlushInv
<1> QED BY <1>3, <1>4 DEF LogInv

LEMMA MigratorLogs ==
  ASSUME LogInv, NEW m \in Migrators,
         RecordMigrationStart(m) \/ CanMigrateMore(m) \/ RecordMigrationRows(m) \/ PushLog(m)
  PROVE  LogInv'
<1>1. LogTypeOK /\ UNCHANGED <<loggerVars, wal, acked>>
  BY DEF LogInv, RecordMigrationStart, CanMigrateMore, RecordMigrationRows, PushLog
<1>2. CASE RecordMigrationStart(m)
  <2>0. CASE pc[m] = "asking" /\ migrations' = migrations /\ pc' = [pc EXCEPT ![m] = "asking"]
    <3>1. LogTypeOK'
      BY <1>1, <2>0 DEF LogTypeOK, loggerVars
    <3>2. ASSUME NEW g \in Migrators PROVE Highest[g] <= Highest'[g]
      <4>1. migrations[g] \in Nat
        BY <1>1 DEF LogTypeOK
      <4>2. (pc'[g] = "idle") <=> (pc[g] = "idle")
        BY <1>1, <2>0 DEF LogTypeOK
      <4> QED BY <2>0, <4>1, <4>2, HighestParts, HighestPartsNext
    <3> QED BY <1>1, <3>1, <3>2, MigratorsQuiet
  <2> SUFFICES ASSUME pc[m] = "idle", pc' = [pc EXCEPT ![m] = "asking"],
                      migrations' = [migrations EXCEPT ![m] = migrations[m] + 1]
               PROVE  LogInv'
    BY <1>2, <2>0 DEF RecordMigrationStart
  <2>1. /\ pc[m] = "idle" /\ pc' = [pc EXCEPT ![m] = "asking"]
        /\ migrations' = [migrations EXCEPT ![m] = migrations[m] + 1]
    OBVIOUS
  <2>2. LogTypeOK'
    BY <1>1, <2>1 DEF LogTypeOK, loggerVars
  <2>3. ASSUME NEW g \in Migrators PROVE Highest[g] <= Highest'[g]
    <3>1. migrations[g] \in Nat
      BY <1>1 DEF LogTypeOK
    <3>2. CASE g = m
      <4>1. pc'[g] = "asking" /\ migrations'[g] = migrations[g] + 1
        BY <1>1, <2>1, <3>2 DEF LogTypeOK
      <4> QED BY <2>1, <3>1, <3>2, <4>1, HighestParts, HighestPartsNext
    <3>3. CASE g # m
      <4>1. pc'[g] = pc[g] /\ migrations'[g] = migrations[g]
        BY <1>1, <2>1, <3>3 DEF LogTypeOK
      <4> QED BY <3>1, <4>1, HighestParts, HighestPartsNext
    <3> QED BY <3>2, <3>3
  <2> QED BY <1>1, <2>2, <2>3, MigratorsQuiet
<1>3. CASE CanMigrateMore(m) \/ RecordMigrationRows(m) \/ PushLog(m)
  <2>1. /\ pc[m] # "idle" /\ migrations' = migrations
        /\ \E next \in {"asking", "moving", "logging", "writing"} : pc' = [pc EXCEPT ![m] = next]
    BY <1>3 DEF CanMigrateMore, RecordMigrationRows, PushLog
  <2>2. LogTypeOK'
    BY <1>1, <2>1 DEF LogTypeOK, loggerVars
  <2>3. ASSUME NEW g \in Migrators PROVE Highest[g] <= Highest'[g]
    <3>1. migrations[g] \in Nat
      BY <1>1 DEF LogTypeOK
    <3>2. (pc'[g] = "idle") <=> (pc[g] = "idle")
      BY <1>1, <2>1 DEF LogTypeOK
    <3> QED BY <2>1, <3>1, <3>2, HighestParts, HighestPartsNext
  <2> QED BY <1>1, <2>2, <2>3, MigratorsQuiet
<1> QED BY <1>2, <1>3

LEMMA WriteMigrationLogs ==
  ASSUME LogInv, NEW m \in Migrators, WriteMigration(m)
  PROVE  LogInv'
<1>0. PICK ok \in BOOLEAN : wal' = IF wal_manager_ THEN WriteLog(wal, EntryOf(m), ok) ELSE wal
  BY DEF WriteMigration
<1>1. /\ LogTypeOK /\ pc[m] = "writing" /\ (wal' = WriteLog(wal, EntryOf(m), ok) \/ wal' = wal)
      /\ pc' = [pc EXCEPT ![m] = "idle"] /\ migrations' = migrations
      /\ records_' = records_ /\ flushing' = flushing /\ written' = written /\ acked' = acked
  BY <1>0 DEF LogInv, WriteMigration, loggerVars
<1>2. PICK e \in Entry : e = EntryOf(m)
  BY <1>1 DEF EntryOf, Entry, Threads, LogTypeOK
<1>3. e.by = m /\ e.n = migrations[m] /\ migrations[m] \in Nat /\ (wal' = WriteLog(wal, e, ok) \/ wal' = wal)
  BY <1>1, <1>2 DEF EntryOf, LogTypeOK
<1>4. wal \in Wal /\ wal' \in Wal
  BY <1>1, <1>3, WriteLogEffect DEF LogTypeOK
<1>5. LogTypeOK'
  BY <1>1, <1>4 DEF LogTypeOK
<1>6. ASSUME NEW g \in Migrators
      PROVE  Highest[g] <= Highest'[g] /\ (g = m => Highest[g] < e.n /\ e.n <= Highest'[g])
  <2>1. migrations[g] \in Nat
    BY <1>1 DEF LogTypeOK
  <2>2. pc'[g] = IF g = m THEN "idle" ELSE pc[g]
    BY <1>1 DEF LogTypeOK
  <2> QED BY <1>1, <1>3, <2>1, <2>2, HighestParts, HighestPartsNext
<1>7. ASSUME NEW l \in Loggers PROVE Highest[l] <= Highest'[l]
  <2>1. Highest'[l] = Highest[l]
    BY <1>1, HighestParts, HighestPartsNext
  <2>2. Highest \in [Threads -> Int] /\ l \in Threads
    BY HighestType DEF LogInv, Threads
  <2> QED BY <2>1, <2>2
<1>8. \A a \in Threads : Highest[a] <= Highest'[a]
  BY <1>6, <1>7, HighestStep
<1>9. /\ Ordered(Stream') /\ Below(Stream', Highest')
      /\ ToSet(Stream) \subseteq ToSet(Stream')
      /\ (wal'.good => wal.good) /\ wal'.file = wal.file
  <2>1. CASE wal' = WriteLog(wal, e, ok)
    BY <1>3, <1>5, <1>6, <1>8, <2>1, WriteStep
  <2>2. CASE wal' = wal
    <3>1. Stream' = Stream
      BY <2>2 DEF Stream
    <3>2. Ordered(Stream') /\ Below(Stream', Highest')
      BY <1>5, <1>8, <3>1, QuietStep
    <3> QED BY <2>2, <3>1, <3>2
  <2> QED BY <1>3, <2>1, <2>2
<1>10. BufferInv'
  BY <1>1 DEF LogInv, BufferInv
<1>11. FlushInv'
  BY <1>1, <1>9 DEF LogInv, FlushInv
<1> QED BY <1>1, <1>5, <1>9, <1>10, <1>11 DEF LogInv

\* The numbers of the migrating threads and of the loggers other than l.
LEMMA LoggerAlone ==
  ASSUME LogInv, NEW l \in Loggers, UNCHANGED <<pc, migrations>>,
         \A k \in Loggers : k # l => records_'[k] = records_[k] /\ flushing'[k] = flushing[k] /\ written'[k] = written[k],
         Highest[l] <= Highest'[l]
  PROVE  \A a \in Threads : Highest[a] <= Highest'[a]
<1>1. Highest \in [Threads -> Int]
  BY HighestType DEF LogInv
<1>2. ASSUME NEW m \in Migrators PROVE Highest[m] <= Highest'[m]
  <2>1. Highest'[m] = Highest[m]
    BY HighestParts, HighestPartsNext
  <2> QED BY <1>1, <2>1 DEF Threads
<1>3. ASSUME NEW k \in Loggers PROVE Highest[k] <= Highest'[k]
  <2>1. k # l => Highest'[k] = Highest[k]
    BY HighestParts, HighestPartsNext
  <2> QED BY <1>1, <2>1 DEF Threads
<1> QED BY <1>2, <1>3, HighestStep

\* The state of one logger.
LEMMA LoggerParts ==
  ASSUME LogInv, NEW l \in Loggers
  PROVE  /\ records_[l] \in Seq(Entry) /\ flushing[l] \in Nat /\ written[l] \in Nat
         /\ Len(records_[l]) \in Nat /\ Len(records_[l]) <= written[l] /\ flushing[l] <= Len(records_[l]) + 1
         /\ \A i \in 1 .. Len(records_[l]) :
               records_[l][i] = [by |-> l, n |-> written[l] - Len(records_[l]) + i]
<1>1. records_[l] \in Seq(Entry) /\ flushing[l] \in Nat /\ written[l] \in Nat
  BY DEF LogInv, LogTypeOK
<1> QED BY <1>1, LenProperties DEF LogInv, BufferInv

LEMMA AppendLogLogs ==
  ASSUME LogInv, NEW l \in Loggers, AppendLog(l)
  PROVE  LogInv'
<1> DEFINE e == [by |-> l, n |-> written[l] + 1]
           rs == Append(records_[l], e)
<1>1. /\ LogTypeOK /\ flushing[l] = 0
      /\ written' = [written EXCEPT ![l] = written[l] + 1]
      /\ records_' = [records_ EXCEPT ![l] = rs]
      /\ \E f \in {0, 1} : flushing' = [flushing EXCEPT ![l] = f]
      /\ pc' = pc /\ migrations' = migrations /\ wal' = wal /\ acked' = acked
  BY DEF LogInv, AppendLog, migratorVars
<1>2. /\ records_[l] \in Seq(Entry) /\ written[l] \in Nat
      /\ Len(records_[l]) \in Nat /\ Len(records_[l]) <= written[l]
      /\ \A i \in 1 .. Len(records_[l]) :
            records_[l][i] = [by |-> l, n |-> written[l] - Len(records_[l]) + i]
  BY LoggerParts
<1>3. e \in Entry
  BY <1>2 DEF Entry, Threads
<1>4. /\ rs \in Seq(Entry) /\ Len(rs) = Len(records_[l]) + 1 /\ rs[Len(records_[l]) + 1] = e
      /\ \A i \in 1 .. Len(records_[l]) : rs[i] = records_[l][i]
  <2> HIDE DEF e
  <2> QED BY <1>2, <1>3, AppendProperties
<1>5. \A i \in 1 .. Len(rs) : rs[i] = [by |-> l, n |-> (written[l] + 1) - Len(rs) + i]
  <2> SUFFICES ASSUME NEW i \in 1 .. Len(rs)
               PROVE  rs[i] = [by |-> l, n |-> (written[l] + 1) - Len(rs) + i]
    OBVIOUS
  <2> HIDE DEF rs
  <2>1. (written[l] + 1) - Len(rs) + i = written[l] - Len(records_[l]) + i
    BY <1>2, <1>4
  <2>2. CASE i = Len(records_[l]) + 1
    <3>1. written[l] - Len(records_[l]) + i = written[l] + 1
      BY <1>2, <2>2
    <3> QED BY <1>4, <2>1, <2>2, <3>1
  <2>3. CASE i # Len(records_[l]) + 1
    <3>1. i \in 1 .. Len(records_[l])
      BY <1>2, <1>4, <2>3
    <3> QED BY <1>2, <1>4, <2>1, <3>1
  <2> QED BY <2>2, <2>3
<1> HIDE DEF e, rs
<1>6. LogTypeOK'
  BY <1>1, <1>2, <1>4 DEF LogTypeOK
<1>7. /\ records_'[l] = rs /\ written'[l] = written[l] + 1 /\ flushing'[l] \in {0, 1}
      /\ \A k \in Loggers : k # l => records_'[k] = records_[k] /\ flushing'[k] = flushing[k] /\ written'[k] = written[k]
  BY <1>1 DEF LogTypeOK
<1>8. Highest[l] <= Highest'[l]
  BY <1>1, <1>2, <1>4, <1>7, HighestParts, HighestPartsNext
<1>9. Stream' = Stream
  BY <1>1 DEF Stream
<1>10. Ordered(Stream') /\ Below(Stream', Highest')
  BY <1>1, <1>6, <1>7, <1>8, <1>9, LoggerAlone, QuietStep
<1>11. BufferInv'
  <2> SUFFICES ASSUME NEW k \in Loggers
               PROVE  /\ Len(records_'[k]) <= written'[k] /\ flushing'[k] <= Len(records_'[k]) + 1
                      /\ \A i \in 1 .. Len(records_'[k]) :
                            records_'[k][i] = [by |-> k, n |-> written'[k] - Len(records_'[k]) + i]
    BY DEF BufferInv
  <2>1. CASE k = l
    <3>1. Len(rs) <= written[l] + 1 /\ flushing'[l] <= Len(rs) + 1
      BY <1>2, <1>4, <1>7
    <3> QED BY <1>5, <1>7, <2>1, <3>1
  <2>2. CASE k # l
    BY <1>7, <2>2 DEF LogInv, BufferInv
  <2> QED BY <2>1, <2>2
<1>12. FlushInv'
  <2> SUFFICES ASSUME wal.good, NEW k \in Loggers, NEW i \in 1 .. Len(records_'[k]), i < flushing'[k]
               PROVE  records_'[k][i] \in ToSet(Stream)
    BY <1>1, <1>9 DEF FlushInv
  <2>1. k # l
    BY <1>2, <1>4, <1>7
  <2> QED BY <1>7, <2>1 DEF LogInv, FlushInv
<1> QED BY <1>1, <1>6, <1>10, <1>11, <1>12 DEF LogInv

LEMMA FlushLogsBegin ==
  ASSUME LogInv, NEW l \in Loggers, Flush(l)
  PROVE  LogInv'
<1>1. /\ LogTypeOK /\ flushing[l] = 0 /\ flushing' = [flushing EXCEPT ![l] = 1]
      /\ pc' = pc /\ migrations' = migrations /\ wal' = wal /\ acked' = acked
      /\ records_' = records_ /\ written' = written
  BY DEF LogInv, Flush, migratorVars
<1>2. LogTypeOK'
  BY <1>1 DEF LogTypeOK
<1>3. flushing'[l] = 1 /\ \A k \in Loggers : k # l => flushing'[k] = flushing[k]
  BY <1>1 DEF LogTypeOK
<1>4. Highest[l] <= Highest'[l]
  BY <1>1, <1>3, LoggerParts, HighestParts, HighestPartsNext
<1>5. Stream' = Stream
  BY <1>1 DEF Stream
<1>6. Ordered(Stream') /\ Below(Stream', Highest')
  BY <1>1, <1>2, <1>3, <1>4, <1>5, LoggerAlone, QuietStep
<1>7. BufferInv'
  BY <1>1, <1>3, LoggerParts DEF LogInv, BufferInv
<1>8. FlushInv'
  <2> SUFFICES ASSUME wal.good, NEW k \in Loggers, NEW i \in 1 .. Len(records_[k]), i < flushing'[k]
               PROVE  records_[k][i] \in ToSet(Stream)
    BY <1>1, <1>5 DEF FlushInv
  <2>1. k # l
    BY <1>3, LoggerParts
  <2> QED BY <1>3, <2>1 DEF LogInv, FlushInv
<1> QED BY <1>1, <1>2, <1>6, <1>7, <1>8 DEF LogInv

LEMMA FlushRecordLogs ==
  ASSUME LogInv, NEW l \in Loggers, FlushRecord(l)
  PROVE  LogInv'
<1> DEFINE f == flushing[l]
<1>0. PICK ok \in BOOLEAN : wal' = WriteLog(wal, records_[l][f], ok)
  BY DEF FlushRecord
<1>1. /\ LogTypeOK /\ f \in 1 .. Len(records_[l]) /\ flushing' = [flushing EXCEPT ![l] = f + 1]
      /\ wal' = WriteLog(wal, records_[l][f], ok)
      /\ pc' = pc /\ migrations' = migrations /\ acked' = acked
      /\ records_' = records_ /\ written' = written
  BY <1>0 DEF LogInv, FlushRecord, migratorVars
<1>2. /\ records_[l] \in Seq(Entry) /\ f \in Nat /\ written[l] \in Nat
      /\ Len(records_[l]) \in Nat /\ Len(records_[l]) <= written[l]
      /\ records_[l][f] = [by |-> l, n |-> written[l] - Len(records_[l]) + f]
  BY <1>1, LoggerParts
<1>3. PICK e \in Entry : e = records_[l][f]
  BY <1>1, <1>2, ElementOfSeq
<1>4. e.by = l /\ e.n = written[l] - Len(records_[l]) + f /\ wal' = WriteLog(wal, e, ok)
  BY <1>1, <1>2, <1>3
<1>5. wal' \in Wal
  <2>1. PICK w \in Wal : w = wal
    BY <1>1 DEF LogTypeOK
  <2>2. WriteLog(w, e, ok) \in Wal
    BY WriteLogEffect
  <2> QED BY <1>4, <2>1, <2>2
<1>6. LogTypeOK'
  BY <1>1, <1>2, <1>5 DEF LogTypeOK
<1>7. flushing'[l] = f + 1 /\ \A k \in Loggers : k # l => flushing'[k] = flushing[k]
  BY <1>1 DEF LogTypeOK
<1>8. Highest[l] < e.n /\ e.n <= Highest'[l] /\ Highest[l] <= Highest'[l]
  <2>1. Highest[l] = written[l] - Len(records_[l]) + (f - 1) /\ Highest'[l] = written[l] - Len(records_[l]) + f
    <3>1. f # 0 /\ f + 1 # 0 /\ (f + 1) - 1 = f
      BY <1>1, <1>2
    <3>2. Highest[l] = written[l] - Len(records_[l]) + (f - 1)
      BY <3>1, HighestParts
    <3>3. Highest'[l] = written'[l] - Len(records_'[l]) + (IF flushing'[l] = 0 THEN 0 ELSE flushing'[l] - 1)
      BY HighestPartsNext
    <3>4. Highest'[l] = written[l] - Len(records_[l]) + f
      <4> HIDE DEF f
      <4> QED BY <1>1, <1>7, <3>1, <3>3
    <3> QED BY <3>2, <3>4
  <2> QED BY <1>2, <1>4, <2>1
<1> HIDE DEF f
<1>9. /\ Ordered(Stream') /\ Below(Stream', Highest')
      /\ ToSet(Stream) \subseteq ToSet(Stream') /\ (wal'.good => e \in ToSet(Stream'))
      /\ (wal'.good => wal.good) /\ wal'.file = wal.file
  <2>1. \A a \in Threads : Highest[a] <= Highest'[a]
    BY <1>1, <1>7, <1>8, LoggerAlone
  <2> QED BY <1>4, <1>6, <1>8, <2>1, WriteStep
<1>10. BufferInv'
  <2> SUFFICES ASSUME NEW k \in Loggers PROVE flushing'[k] <= Len(records_[k]) + 1
    BY <1>1 DEF LogInv, BufferInv
  <2> QED BY <1>1, <1>2, <1>7, LoggerParts
<1>11. FlushInv'
  <2> SUFFICES ASSUME wal'.good, NEW k \in Loggers, NEW i \in 1 .. Len(records_[k]), i < flushing'[k]
               PROVE  records_[k][i] \in ToSet(Stream')
    BY <1>1, <1>9 DEF FlushInv
  <2>1. CASE k = l /\ i = f
    BY <1>3, <1>9, <2>1
  <2>2. CASE ~(k = l /\ i = f)
    <3>1. i < flushing[k]
      BY <1>2, <1>7, <2>2 DEF f
    <3> QED BY <1>9, <3>1 DEF LogInv, FlushInv
  <2> QED BY <2>1, <2>2
<1> QED BY <1>1, <1>6, <1>9, <1>10, <1>11 DEF LogInv

\* What is in the file stays in it when more is written behind.
LEMMA FileStays ==
  ASSUME NEW f \in Seq(Entry), NEW b \in Seq(Entry)
  PROVE  f \o b \in Seq(Entry) /\ ToSet(f) \subseteq ToSet(f \o b)
<1> DEFINE all == f \o b
<1>1. /\ all \in Seq(Entry) /\ Len(all) = Len(f) + Len(b)
      /\ \A i \in 1 .. Len(f) + Len(b) : all[i] = IF i <= Len(f) THEN f[i] ELSE b[i - Len(f)]
  BY ConcatProperties
<1>2. Len(f) \in Nat /\ Len(b) \in Nat
  BY LenProperties
<1> HIDE DEF all
<1>3. ASSUME NEW j \in 1 .. Len(f) PROVE j \in 1 .. Len(all) /\ all[j] = f[j]
  BY <1>1, <1>2
<1>4. ToSet(f) = {f[j] : j \in 1 .. Len(f)} /\ ToSet(all) = {all[j] : j \in 1 .. Len(all)}
  BY <1>1, SeqParts
<1>5. ToSet(f) \subseteq ToSet(all)
  BY <1>3, <1>4
<1> QED BY <1>1, <1>5 DEF all

\* A flush that succeeds leaves the buffer empty and the whole log in the file.
LEMMA FlushLogsEffect ==
  ASSUME NEW w \in Wal, NEW ok \in BOOLEAN
  PROVE  /\ FlushLogs(w, ok) \in Wal /\ (FlushLogs(w, ok).good => w.good)
         /\ FlushLogs(w, ok).file \o FlushLogs(w, ok).buffered = w.file \o w.buffered
         /\ FlushLogs(w, ok).good => FlushLogs(w, ok).file = w.file \o w.buffered
         /\ ToSet(w.file) \subseteq ToSet(FlushLogs(w, ok).file)
<1>1. w.good \in BOOLEAN /\ w.buffered \in Seq(Entry) /\ w.file \in Seq(Entry)
  BY WalParts
<1>2. CASE w.good /\ ok
  <2> DEFINE all == w.file \o w.buffered
  <2>1. all \in Seq(Entry) /\ ToSet(w.file) \subseteq ToSet(all)
    BY <1>1, FileStays
  <2>2. FlushLogs(w, ok) = [w EXCEPT !.file = all, !.buffered = <<>>]
    BY <1>2 DEF FlushLogs
  <2>3. <<>> \in Seq(Entry) /\ all \o <<>> = all
    BY <2>1, EmptySeq, ConcatEmptySeq
  <2> HIDE DEF all
  <2>4. /\ FlushLogs(w, ok) \in Wal /\ FlushLogs(w, ok).good = w.good
        /\ FlushLogs(w, ok).file = all /\ FlushLogs(w, ok).buffered = <<>>
    BY <2>1, <2>2, <2>3 DEF Wal
  <2> QED BY <1>2, <2>1, <2>3, <2>4 DEF all
<1>3. CASE ~(w.good /\ ok)
  <2>1. FlushLogs(w, ok) = [w EXCEPT !.good = FALSE]
    BY <1>3 DEF FlushLogs
  <2>2. /\ FlushLogs(w, ok) \in Wal /\ FlushLogs(w, ok).good = FALSE
        /\ FlushLogs(w, ok).file = w.file /\ FlushLogs(w, ok).buffered = w.buffered
    BY <2>1 DEF Wal
  <2> QED BY <2>2
<1> QED BY <1>2, <1>3

LEMMA FlushEndLogs ==
  ASSUME LogInv, NEW l \in Loggers, FlushEnd(l)
  PROVE  LogInv'
<1>0. PICK ok \in BOOLEAN : wal' = FlushLogs(wal, ok)
  BY DEF FlushEnd
<1>1. /\ LogTypeOK /\ flushing[l] = Len(records_[l]) + 1 /\ wal' = FlushLogs(wal, ok)
      /\ records_' = [records_ EXCEPT ![l] = <<>>] /\ flushing' = [flushing EXCEPT ![l] = 0]
      /\ acked' = IF wal'.good THEN acked \cup ToSet(records_[l]) ELSE acked
      /\ pc' = pc /\ migrations' = migrations /\ written' = written
  BY <1>0 DEF LogInv, FlushEnd, migratorVars
<1>2. /\ wal' \in Wal /\ (wal'.good => wal.good) /\ wal'.file \o wal'.buffered = wal.file \o wal.buffered
      /\ wal'.good => wal'.file = wal.file \o wal.buffered
      /\ ToSet(wal.file) \subseteq ToSet(wal'.file)
  BY <1>1, FlushLogsEffect DEF LogTypeOK
<1>3. Stream' = Stream /\ (wal'.good => wal'.file = Stream)
  BY <1>2 DEF Stream
<1>4. <<>> \in Seq(Entry) /\ Len(<<>>) = 0
  BY EmptySeq
<1>5. LogTypeOK'
  BY <1>1, <1>2, <1>4 DEF LogTypeOK
<1>6. /\ flushing'[l] = 0 /\ records_'[l] = <<>>
      /\ \A k \in Loggers : k # l => flushing'[k] = flushing[k] /\ records_'[k] = records_[k] /\ written'[k] = written[k]
  BY <1>1 DEF LogTypeOK
<1>7. /\ records_[l] \in Seq(Entry) /\ written[l] \in Nat /\ Len(records_[l]) \in Nat
      /\ Len(records_[l]) <= written[l]
  BY LoggerParts
<1>8. Highest[l] <= Highest'[l]
  <2>1. Highest[l] = written[l]
    <3>1. Highest[l] = written[l] - Len(records_[l]) + (IF flushing[l] = 0 THEN 0 ELSE flushing[l] - 1)
      BY HighestParts
    <3>2. flushing[l] = Len(records_[l]) + 1
      BY <1>1
    <3> QED BY <1>7, <3>1, <3>2
  <2>2. Highest'[l] = written'[l] - Len(records_'[l]) + (IF flushing'[l] = 0 THEN 0 ELSE flushing'[l] - 1)
    BY HighestPartsNext
  <2>3. Highest'[l] = written[l]
    BY <1>1, <1>4, <1>6, <1>7, <2>2
  <2> QED BY <1>7, <2>1, <2>3
<1>9. Ordered(Stream') /\ Below(Stream', Highest')
  BY <1>1, <1>3, <1>5, <1>6, <1>8, LoggerAlone, QuietStep
<1>10. BufferInv'
  <2> SUFFICES ASSUME NEW k \in Loggers
               PROVE  /\ Len(records_'[k]) <= written'[k] /\ flushing'[k] <= Len(records_'[k]) + 1
                      /\ \A i \in 1 .. Len(records_'[k]) :
                            records_'[k][i] = [by |-> k, n |-> written'[k] - Len(records_'[k]) + i]
    BY DEF BufferInv
  <2>1. CASE k = l
    BY <1>1, <1>4, <1>6, <1>7, <2>1
  <2>2. CASE k # l
    BY <1>6, <2>2 DEF LogInv, BufferInv
  <2> QED BY <2>1, <2>2
<1>11. FlushInv'
  <2> SUFFICES ASSUME wal'.good, NEW k \in Loggers, NEW i \in 1 .. Len(records_'[k]), i < flushing'[k]
               PROVE  records_'[k][i] \in ToSet(Stream)
    BY <1>2, <1>3 DEF FlushInv
  <2>1. k # l
    BY <1>4, <1>6
  <2> QED BY <1>2, <1>6, <2>1 DEF LogInv, FlushInv
<1>12. acked' \subseteq ToSet(wal'.file)
  <2>1. acked \subseteq ToSet(wal'.file)
    BY <1>2 DEF LogInv
  <2>2. ASSUME wal'.good PROVE ToSet(records_[l]) \subseteq ToSet(Stream)
    <3>1. \A i \in 1 .. Len(records_[l]) : i < flushing[l]
      BY <1>1, <1>7
    <3>2. \A i \in 1 .. Len(records_[l]) : records_[l][i] \in ToSet(Stream)
      BY <1>2, <2>2, <3>1 DEF LogInv, FlushInv
    <3> QED BY <1>7, <3>2, SeqParts
  <2> QED BY <1>1, <1>3, <2>1, <2>2
<1> QED BY <1>5, <1>9, <1>10, <1>11, <1>12 DEF LogInv

\* What a part of the buffer makes of the log.
LEMMA BufferIsCut ==
  ASSUME NEW f \in Seq(Entry), NEW b \in Seq(Entry), NEW n \in 0 .. Len(b)
  PROVE  /\ SubSeq(b, 1, n) \in Seq(Entry)
         /\ Len(f \o SubSeq(b, 1, n)) <= Len(f \o b)
         /\ \A j \in 1 .. Len(f \o SubSeq(b, 1, n)) : (f \o SubSeq(b, 1, n))[j] = (f \o b)[j]
<1> DEFINE c == SubSeq(b, 1, n)
           kept == f \o c
           all == f \o b
<1>1. Len(f) \in Nat /\ Len(b) \in Nat /\ n \in Nat /\ n <= Len(b)
  BY LenProperties
<1>2. c \in Seq(Entry) /\ Len(c) = n /\ \A i \in 1 .. n : c[i] = b[i]
  <2>1. \A i \in 1 .. n : b[i] \in Entry
    BY <1>1, ElementOfSeq
  <2>2. 1 \in Int /\ n \in Int
    BY <1>1
  <2>3. /\ c \in Seq(Entry) /\ Len(c) = IF 1 <= n THEN n - 1 + 1 ELSE 0
        /\ \A i \in 1 .. n - 1 + 1 : c[i] = b[1 + i - 1]
    BY <2>1, <2>2, SubSeqProperties
  <2> HIDE DEF c
  <2>4. n - 1 + 1 = n /\ \A i \in 1 .. n : 1 + i - 1 = i
    BY <1>1
  <2> QED BY <1>1, <2>3, <2>4
<1> HIDE DEF c
<1>3. /\ Len(kept) = Len(f) + Len(c)
      /\ \A i \in 1 .. Len(f) + Len(c) : kept[i] = IF i <= Len(f) THEN f[i] ELSE c[i - Len(f)]
      /\ Len(all) = Len(f) + Len(b)
      /\ \A i \in 1 .. Len(f) + Len(b) : all[i] = IF i <= Len(f) THEN f[i] ELSE b[i - Len(f)]
  BY <1>2, ConcatProperties
<1> HIDE DEF kept, all
<1>4. Len(kept) <= Len(all)
  BY <1>1, <1>2, <1>3
<1>5. ASSUME NEW j \in 1 .. Len(kept) PROVE kept[j] = all[j]
  <2>1. j \in 1 .. Len(f) + Len(c) /\ j \in 1 .. Len(f) + Len(b)
    BY <1>1, <1>2, <1>3
  <2>2. CASE j <= Len(f)
    BY <1>3, <2>1, <2>2
  <2>3. CASE ~(j <= Len(f))
    <3>1. j - Len(f) \in 1 .. n
      BY <1>1, <1>2, <2>1, <2>3
    <3> QED BY <1>2, <1>3, <2>1, <2>3, <3>1
  <2> QED BY <2>2, <2>3
<1>6. /\ c \in Seq(Entry) /\ Len(f \o c) <= Len(f \o b)
      /\ \A j \in 1 .. Len(f \o c) : (f \o c)[j] = (f \o b)[j]
  BY <1>2, <1>4, <1>5 DEF kept, all
<1> QED BY <1>6 DEF c

LEMMA OpenedParts ==
  ASSUME NEW outcome \in OpenOutcomes, NEW f \in Seq(Entry)
  PROVE  /\ Opened(outcome, f) \in Wal
         /\ Opened(outcome, f).buffered = <<>>
         /\ Opened(outcome, f).file = IF outcome = "empties" THEN <<>> ELSE f
<1>1. <<>> \in Seq(Entry)
  BY EmptySeq
<1>2. PICK file \in Seq(Entry) : file = IF outcome = "empties" THEN <<>> ELSE f
  BY <1>1
<1>3. PICK good \in BOOLEAN : good = (outcome # "fails")
  OBVIOUS
<1>4. Opened(outcome, f) = [good |-> good, buffered |-> <<>>, file |-> file]
  BY <1>2, <1>3 DEF Opened
<1> QED BY <1>1, <1>2, <1>4 DEF Wal

\* The new process finds the file and the part of the buffer that got through, or
\* nothing; every number up to what the threads had reached may be in it.
LEMMA RestartLogs ==
  ASSUME LogInv, Restart
  PROVE  LogInv'
<1>1. PICK n \in 0 .. Len(wal.buffered), outcome \in OpenOutcomes :
         /\ wal' = Opened(outcome, wal.file \o SubSeq(wal.buffered, 1, n))
         /\ acked' = IF outcome = "empties" THEN {} ELSE acked
  BY DEF Restart
<1>2. /\ LogTypeOK /\ pc' = [m \in Migrators |-> "idle"] /\ migrations' = migrations /\ written' = written
      /\ records_' = [l \in Loggers |-> <<>>] /\ flushing' = [l \in Loggers |-> 0]
  BY DEF LogInv, Restart
<1>3. wal.buffered \in Seq(Entry) /\ wal.file \in Seq(Entry)
  BY <1>2, WalParts DEF LogTypeOK
<1>4. PICK c \in Seq(Entry) : c = SubSeq(wal.buffered, 1, n)
  BY <1>3, BufferIsCut
<1>5. PICK kept \in Seq(Entry) : kept = wal.file \o c
  BY <1>3, FileStays
<1>6. /\ wal' \in Wal /\ wal'.buffered = <<>>
      /\ wal'.file = IF outcome = "empties" THEN <<>> ELSE kept
  BY <1>1, <1>4, <1>5, OpenedParts
<1>7. <<>> \in Seq(Entry) /\ Len(<<>>) = 0 /\ <<>> \o <<>> = <<>> /\ kept \o <<>> = kept
  BY EmptySeq, ConcatEmptySeq
<1>8. LogTypeOK'
  BY <1>2, <1>6, <1>7 DEF LogTypeOK
<1>9. ASSUME NEW l \in Loggers
      PROVE  records_'[l] = <<>> /\ flushing'[l] = 0 /\ Len(records_'[l]) = 0 /\ written'[l] = written[l]
  BY <1>2, <1>7
<1>10. \A a \in Threads : Highest[a] <= Highest'[a]
  <2>1. ASSUME NEW m \in Migrators PROVE Highest[m] <= Highest'[m]
    <3>1. migrations[m] \in Nat /\ pc'[m] = "idle" /\ migrations'[m] = migrations[m]
      BY <1>2 DEF LogTypeOK
    <3> QED BY <3>1, HighestParts, HighestPartsNext
  <2>2. ASSUME NEW l \in Loggers PROVE Highest[l] <= Highest'[l]
    <3>1. /\ flushing[l] \in Nat /\ written[l] \in Nat /\ Len(records_[l]) \in Nat
          /\ Len(records_[l]) <= written[l] /\ flushing[l] <= Len(records_[l]) + 1
      BY LoggerParts
    <3>2. Highest[l] = written[l] - Len(records_[l]) + (IF flushing[l] = 0 THEN 0 ELSE flushing[l] - 1)
      BY HighestParts
    <3>3. Highest'[l] = written'[l] - Len(records_'[l]) + (IF flushing'[l] = 0 THEN 0 ELSE flushing'[l] - 1)
      BY HighestPartsNext
    <3>4. Highest'[l] = written[l]
      BY <1>9, <3>1, <3>3
    <3> QED BY <3>1, <3>2, <3>4
  <2> QED BY <2>1, <2>2, HighestStep
<1>11. PICK s \in Seq(Entry) : s = Stream
  BY <1>3, FileStays DEF Stream
<1>12. PICK t \in Seq(Entry) : t = Stream'
  BY <1>6, <1>7 DEF Stream
<1>13. Len(t) <= Len(s) /\ \A j \in 1 .. Len(t) : t[j] = s[j]
  <2>1. CASE outcome = "empties"
    <3>1. t = <<>> /\ Len(t) = 0
      BY <1>6, <1>7, <1>12, <2>1 DEF Stream
    <3>2. Len(s) \in Nat
      BY LenProperties
    <3> QED BY <3>1, <3>2
  <2>2. CASE outcome # "empties"
    <3>1. t = wal.file \o SubSeq(wal.buffered, 1, n)
      BY <1>4, <1>5, <1>6, <1>7, <1>12, <2>2 DEF Stream
    <3>2. s = wal.file \o wal.buffered
      BY <1>11 DEF Stream
    <3> QED BY <1>3, <3>1, <3>2, BufferIsCut
  <2> QED BY <2>1, <2>2
<1>14. PICK bound \in [Threads -> Int] : bound = Highest
  BY <1>2, HighestType
<1>15. PICK next \in [Threads -> Int] : next = Highest'
  <2>1. LogTypeOK' => (Highest \in [Threads -> Int])'
    BY HighestType, PTL
  <2> QED BY <1>8, <2>1
<1>16. Ordered(t) /\ Below(t, next)
  <2>1. Ordered(s) /\ Below(s, bound) /\ \A a \in Threads : bound[a] <= next[a]
    BY <1>10, <1>11, <1>14, <1>15 DEF LogInv
  <2> QED BY <1>13, <2>1, StreamIsCut
<1>17. Ordered(Stream') /\ Below(Stream', Highest')
  BY <1>12, <1>15, <1>16
<1>18. BufferInv'
  <2>1. \A l \in Loggers : written[l] \in Nat
    BY <1>2 DEF LogTypeOK
  <2> QED BY <1>9, <2>1 DEF BufferInv
<1>19. FlushInv'
  BY <1>9 DEF FlushInv
<1>20. acked' \subseteq ToSet(wal'.file)
  <2>1. CASE outcome = "empties"
    BY <1>1, <2>1
  <2>2. CASE outcome # "empties"
    <3>1. ToSet(wal.file) \subseteq ToSet(kept)
      BY <1>3, <1>5, FileStays
    <3> QED BY <1>1, <1>6, <2>2, <3>1 DEF LogInv
  <2> QED BY <2>1, <2>2
<1> QED BY <1>8, <1>17, <1>18, <1>19, <1>20 DEF LogInv

LEMMA InitLogs == Init => LogInv
<1> SUFFICES ASSUME Init PROVE LogInv
  OBVIOUS
<1>1. PICK outcome \in OpenOutcomes : wal = Opened(outcome, <<>>)
  BY DEF Init
<1>2. <<>> \in Seq(Entry) /\ Len(<<>>) = 0 /\ <<>> \o <<>> = <<>>
  BY EmptySeq, ConcatEmptySeq
<1>3. wal \in Wal /\ wal.buffered = <<>> /\ wal.file = <<>>
  BY <1>1, <1>2, OpenedParts
<1>4. /\ pc = [m \in Migrators |-> "idle"] /\ migrations = [m \in Migrators |-> 0]
      /\ records_ = [l \in Loggers |-> <<>>] /\ flushing = [l \in Loggers |-> 0]
      /\ written = [l \in Loggers |-> 0] /\ acked = {}
  BY DEF Init
<1>5. LogTypeOK
  BY <1>2, <1>3, <1>4 DEF LogTypeOK
<1>6. Stream = <<>> /\ DOMAIN <<>> = {}
  BY <1>2, <1>3 DEF Stream
<1>7. Ordered(Stream) /\ Below(Stream, Highest)
  BY <1>6 DEF Ordered, Below
<1>8. \A l \in Loggers : Len(records_[l]) = 0 /\ flushing[l] = 0 /\ written[l] = 0
  BY <1>2, <1>4
<1>9. BufferInv /\ FlushInv
  BY <1>8 DEF BufferInv, FlushInv
<1> QED BY <1>4, <1>5, <1>7, <1>9 DEF LogInv

LEMMA LogStep ==
  ASSUME LogInv, [Next]_vars
  PROVE  LogInv'
<1>1. CASE UNCHANGED <<pc, migrations, loggerVars, wal, acked>>
  <2>1. LogTypeOK'
    BY <1>1 DEF LogInv, LogTypeOK, loggerVars
  <2>2. ASSUME NEW m \in Migrators PROVE Highest[m] <= Highest'[m]
    <3>1. Highest'[m] = Highest[m]
      BY <1>1, HighestParts, HighestPartsNext
    <3>2. Highest \in [Threads -> Int] /\ m \in Threads
      BY HighestType DEF LogInv, Threads
    <3> QED BY <3>1, <3>2
  <2> QED BY <1>1, <2>1, <2>2, MigratorsQuiet
<1>2. CASE UNCHANGED vars \/ Tick \/ ClearMigrationLogs \/ \E limit \in Limits : SetMigrationRateLimit(limit)
  BY <1>1, <1>2 DEF vars, Tick, ClearMigrationLogs, SetMigrationRateLimit, migratorVars
<1>3. CASE \E m \in Migrators : MigratorStep(m)
  BY <1>3, MigratorLogs, WriteMigrationLogs DEF MigratorStep
<1>4. CASE \E l \in Loggers : LoggerStep(l)
  BY <1>4, AppendLogLogs, FlushLogsBegin, FlushRecordLogs, FlushEndLogs DEF LoggerStep
<1>5. CASE Restart
  BY <1>5, RestartLogs
<1> QED BY <1>2, <1>3, <1>4, <1>5 DEF Next

\* The log holds every thread's entries in the order written, none twice, and in
\* the file every record whose Flush returned while the log was open and had failed
\* no write, across restarts (LogBuffer.cpp:21-33, WALManager.cpp:9-31), for any
\* number of threads, records and restarts and every buffer size.
THEOREM LogIsExact == Spec => []LogExact
<1>1. LogInv => LogExact
  BY DEF LogInv, LogExact, Ordered
<1> QED BY InitLogs, LogStep, <1>1, PTL DEF Spec
=============================================================================
