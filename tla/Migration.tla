------------------------------ MODULE Migration ------------------------------
(***************************************************************************)
(* The migration side of the layer manager (src/MiniDB/src/storage/        *)
(* LayerManager.cpp) and the log it shares with the log buffers            *)
(* (src/MiniDB/src/log/WALManager.cpp, LogBuffer.cpp).                     *)
(*                                                                         *)
(* A migrating thread calls RecordMigrationStart, asks CanMigrateMore,     *)
(* moves a batch and reports it with RecordMigrationRows, and ends with    *)
(* LogMigration; when it is refused it asks again, starts again or gives   *)
(* up.  A logging thread appends records to a LogBuffer of its own.  The   *)
(* layer manager's latch and the log's mutex are held for one call each:   *)
(* every call is a step, and LogMigration and Flush are several.           *)
(***************************************************************************)
EXTENDS Integers, Sequences, SequencesExt, FiniteSets

CONSTANTS
    Migrators, Loggers,     \* threads
    MAX_LIMIT,              \* migration_rate_limit_ is at most this
    BATCH,                  \* rows a thread moves between two questions
    SECOND,                 \* ticks of the clock in a second
    MAX_LOGS,               \* entries migration_logs_ keeps (10000 in the code)
    BUFFER_SIZE,            \* buffer_size_ of a LogBuffer
    MAX_MIGRATIONS, MAX_RECORDS, MAX_RESTARTS   \* bounds

ASSUME LimitAssumption == MAX_LIMIT \in Nat \ {0}
ASSUME BatchAssumption == BATCH \in Nat \ {0}
ASSUME SecondAssumption == SECOND \in Nat \ {0}
ASSUME MigratorsAssumption == IsFiniteSet(Migrators)
\* An entry of the log names the migration or the buffer that it comes from.
ASSUME ThreadsAssumption == Migrators \cap Loggers = {}

VARIABLES
    migration_rate_limit_, rows_migrated_this_second_,
    age,            \* time since last_migration_time_, up to a second
    migration_logs_,
    pc, migrations, \* what a migrating thread does; its migrations so far
    records_,       \* records_[l]: the records in l's LogBuffer
    flushing,       \* the next record l's Flush writes; 0: l is not in Flush
    written,        \* records l has appended so far
    wal,            \* the log: is it open and did every write so far succeed, the
                    \* stream's buffer, the file
    wal_manager_,   \* the layer manager was given a log
    wal_,           \* the loggers whose LogBuffer was given a log
    restarts,
    since,          \* time since the rows were last set to 0, up to a second (history)
    acked           \* entries whose Flush returned while the log was open (history)

rateVars == <<migration_rate_limit_, rows_migrated_this_second_, age, since>>
migratorVars == <<pc, migrations, migration_logs_>>
loggerVars == <<records_, flushing, written>>
processVars == <<wal_manager_, wal_, restarts>>
vars == <<rateVars, migratorVars, loggerVars, wal, processVars, acked>>

\* SetMigrationRateLimit takes any int; all numbers below 0 act alike.
Limits == -1 .. MAX_LIMIT
Threads == Migrators \cup Loggers
Entry == [by : Threads, n : Nat]

-----------------------------------------------------------------------------
(* WALManager *)

\* WriteLog drops the entry when the file is not open, and then answers false; a
\* write that fails (~ok) is not noticed, and the stream drops everything after
\* it.  Nobody looks at the answer.
WriteLog(w, entry, ok) ==
    IF w.good /\ ok THEN [w EXCEPT !.buffered = Append(@, entry)]
                    ELSE [w EXCEPT !.good = w.good /\ ok]

\* Mutant: the stream is not flushed.
NoFlush(w, ok) == [w EXCEPT !.good = w.good /\ ok]

\* How much of the buffer a flush that fails has passed on is left to Restart.
FlushLogs(w, ok) ==
    IF w.good /\ ok THEN [w EXCEPT !.file = @ \o w.buffered, !.buffered = <<>>]
                    ELSE [w EXCEPT !.good = w.good /\ ok]

\* The constructor appends to an existing file; when that fails its second try
\* opens the file for writing only, which empties it; when that fails as well
\* the log stays closed.
OpenOutcomes == {"appends", "empties", "fails"}
Opened(outcome, file) ==
    [good |-> outcome # "fails", buffered |-> <<>>,
     file |-> IF outcome = "empties" THEN <<>> ELSE file]

-----------------------------------------------------------------------------
Init ==
    /\ migration_rate_limit_ \in 1 .. MAX_LIMIT   \* MIGRATION_RATE_LIMIT
    /\ rows_migrated_this_second_ = 0
    /\ age = SECOND /\ since = SECOND     \* last_migration_time_ is the clock's epoch
    /\ migration_logs_ = <<>>
    /\ pc = [m \in Migrators |-> "idle"]
    /\ migrations = [m \in Migrators |-> 0]
    /\ records_ = [l \in Loggers |-> <<>>]
    /\ flushing = [l \in Loggers |-> 0]
    /\ written = [l \in Loggers |-> 0]
    /\ \E outcome \in OpenOutcomes : wal = Opened(outcome, <<>>)
    /\ wal_manager_ \in BOOLEAN
    /\ wal_ \in SUBSET Loggers
    /\ restarts = 0
    /\ acked = {}

-----------------------------------------------------------------------------
(* LayerManager: the rate *)

Tick ==
    /\ age < SECOND \/ since < SECOND
    /\ age' = IF age < SECOND THEN age + 1 ELSE age
    /\ since' = IF since < SECOND THEN since + 1 ELSE since
    /\ UNCHANGED <<migration_rate_limit_, rows_migrated_this_second_, migratorVars, loggerVars,
                   wal, processVars, acked>>

SetMigrationRateLimit(limit) ==
    /\ limit # migration_rate_limit_
    /\ migration_rate_limit_' = limit
    /\ UNCHANGED <<rows_migrated_this_second_, age, since, migratorVars, loggerVars, wal,
                   processVars, acked>>

\* The time starts anew, the rows do not.  A thread that waits for its turn may
\* start its migration again, as often as it likes.
RecordMigrationStart(m) ==
    /\ \/ pc[m] = "idle" /\ migrations[m] < MAX_MIGRATIONS
          /\ migrations' = [migrations EXCEPT ![m] = @ + 1]
       \/ pc[m] = "asking" /\ UNCHANGED migrations
    /\ age' = 0
    /\ pc' = [pc EXCEPT ![m] = "asking"]
    /\ UNCHANGED <<migration_rate_limit_, rows_migrated_this_second_, since, migration_logs_,
                   loggerVars, wal, processVars, acked>>

\* Mutants: the second has passed a tick too early; it never passes.
EarlySecond == age >= SECOND - 1
NeverAgain == FALSE
SecondHasPassed == age >= SECOND

\* Mutant: the answer does not look at the limit.
AnyRows(rows) == TRUE
Admits(rows) == rows < migration_rate_limit_

CanMigrateMore(m) ==
    LET rows == IF SecondHasPassed THEN 0 ELSE rows_migrated_this_second_ IN
    /\ pc[m] = "asking"
    /\ rows_migrated_this_second_' = rows
    /\ age' = IF SecondHasPassed THEN 0 ELSE age
    /\ since' = IF SecondHasPassed THEN 0 ELSE since
    /\ pc' = [pc EXCEPT ![m] = IF Admits(rows) THEN "moving" ELSE "asking"]
    /\ UNCHANGED <<migration_rate_limit_, migrations, migration_logs_, loggerVars, wal,
                   processVars, acked>>

\* The batch is moved; the thread asks for another or ends its migration.
RecordMigrationRows(m) ==
    /\ pc[m] = "moving"
    /\ rows_migrated_this_second_' = rows_migrated_this_second_ + BATCH
    /\ \E next \in {"asking", "logging"} : pc' = [pc EXCEPT ![m] = next]
    /\ UNCHANGED <<migration_rate_limit_, age, since, migrations, migration_logs_, loggerVars,
                   wal, processVars, acked>>

(* LayerManager: LogMigration, first under the latch, then to the log without it *)

EntryOf(m) == [by |-> m, n |-> migrations[m]]

\* A thread that has not been let in may give up, and logs that.
PushLog(m) ==
    LET logs == Append(migration_logs_, EntryOf(m)) IN
    /\ pc[m] \in {"asking", "logging"}
    /\ migration_logs_' = IF Len(logs) > MAX_LOGS THEN Tail(logs) ELSE logs
    /\ pc' = [pc EXCEPT ![m] = "writing"]
    /\ UNCHANGED <<rateVars, migrations, loggerVars, wal, processVars, acked>>

WriteMigration(m) ==
    /\ pc[m] = "writing"
    /\ \E ok \in BOOLEAN : wal' = IF wal_manager_ THEN WriteLog(wal, EntryOf(m), ok) ELSE wal
    /\ pc' = [pc EXCEPT ![m] = "idle"]
    /\ UNCHANGED <<rateVars, migrations, migration_logs_, loggerVars, processVars, acked>>

ClearMigrationLogs ==
    /\ migration_logs_ # <<>>
    /\ migration_logs_' = <<>>
    /\ UNCHANGED <<rateVars, pc, migrations, loggerVars, wal, processVars, acked>>

-----------------------------------------------------------------------------
(* LogBuffer *)

\* Flush does nothing without a log, and the records stay.
Flushes(l, rs) == l \in wal_ /\ rs # <<>>

\* The call that fills the buffer goes on into Flush.
AppendLog(l) ==
    LET rs == Append(records_[l], [by |-> l, n |-> written[l] + 1])
        full == Len(rs) >= BUFFER_SIZE /\ BUFFER_SIZE > 0
    IN  /\ flushing[l] = 0 /\ written[l] < MAX_RECORDS
        /\ written' = [written EXCEPT ![l] = @ + 1]
        /\ records_' = [records_ EXCEPT ![l] = rs]
        /\ flushing' = [flushing EXCEPT ![l] = IF full /\ Flushes(l, rs) THEN 1 ELSE 0]
        /\ UNCHANGED <<rateVars, migratorVars, wal, processVars, acked>>

\* Flush, called by the owner or by the destructor.
Flush(l) ==
    /\ flushing[l] = 0 /\ Flushes(l, records_[l])
    /\ flushing' = [flushing EXCEPT ![l] = 1]
    /\ UNCHANGED <<rateVars, migratorVars, records_, written, wal, processVars, acked>>

\* WriteLog's answer is not looked at.
FlushRecord(l) ==
    /\ flushing[l] \in 1 .. Len(records_[l])
    /\ \E ok \in BOOLEAN : wal' = WriteLog(wal, records_[l][flushing[l]], ok)
    /\ flushing' = [flushing EXCEPT ![l] = @ + 1]
    /\ UNCHANGED <<rateVars, migratorVars, records_, written, processVars, acked>>

FlushEnd(l) ==
    /\ flushing[l] = Len(records_[l]) + 1
    /\ \E ok \in BOOLEAN : wal' = FlushLogs(wal, ok)
    /\ records_' = [records_ EXCEPT ![l] = <<>>]
    /\ flushing' = [flushing EXCEPT ![l] = 0]
    /\ acked' = IF wal'.good THEN acked \cup ToSet(records_[l]) ELSE acked
    /\ UNCHANGED <<rateVars, migratorVars, written, processVars>>

-----------------------------------------------------------------------------
\* The process ends: killed at any moment, when the stream may have passed on any
\* part of its buffer, or after the destructor's FlushLogs, when it has passed on
\* all of it.  A new process opens the log again.
Restart ==
    /\ restarts < MAX_RESTARTS
    /\ restarts' = restarts + 1
    /\ \E n \in 0 .. Len(wal.buffered), outcome \in OpenOutcomes :
          /\ wal' = Opened(outcome, wal.file \o SubSeq(wal.buffered, 1, n))
          /\ acked' = IF outcome = "empties" THEN {} ELSE acked
    /\ migration_rate_limit_' \in 1 .. MAX_LIMIT
    /\ rows_migrated_this_second_' = 0
    /\ age' = SECOND /\ since' = SECOND
    /\ migration_logs_' = <<>>
    /\ pc' = [m \in Migrators |-> "idle"]
    /\ records_' = [l \in Loggers |-> <<>>]
    /\ flushing' = [l \in Loggers |-> 0]
    /\ UNCHANGED <<migrations, written, wal_manager_, wal_>>

MigratorStep(m) ==
    RecordMigrationStart(m) \/ CanMigrateMore(m) \/ RecordMigrationRows(m)
        \/ PushLog(m) \/ WriteMigration(m)
LoggerStep(l) == AppendLog(l) \/ Flush(l) \/ FlushRecord(l) \/ FlushEnd(l)

Next ==
    \/ \E m \in Migrators : MigratorStep(m)
    \/ \E l \in Loggers : LoggerStep(l)
    \/ \E limit \in Limits : SetMigrationRateLimit(limit)
    \/ ClearMigrationLogs
    \/ Tick
    \/ Restart

\* Threads that have begun a call or a migration go on with it, and time passes.
Fairness ==
    /\ WF_vars(Tick)
    /\ \A m \in Migrators : WF_vars(CanMigrateMore(m)) /\ WF_vars(RecordMigrationRows(m))
Spec == Init /\ [][Next]_vars /\ Fairness

-----------------------------------------------------------------------------
(* Properties *)

\* README.txt:60 "rate limit (1000 rows/s)": CanMigrateMore and RecordMigrationRows
\* are two calls, so every thread may pass the limit with the same count; but the
\* rows of one window exceed it by no more than a batch of every thread, less one
\* row (LayerManager.cpp:51-71).
RateBound ==
    rows_migrated_this_second_ < MAX_LIMIT + BATCH * Cardinality(Migrators)

\* The rows are not set to 0 twice within a second, however the calls of the
\* threads interleave: RecordMigrationStart can only lengthen a window
\* (LayerManager.cpp:56-59, 65).  A restart begins anew.
WindowLasts ==
    [][rows_migrated_this_second_' < rows_migrated_this_second_ =>
          since >= SECOND \/ restarts' # restarts]_vars

\* Two things can stop migration for good: a limit of 0 or less, which
\* SetMigrationRateLimit takes (LayerManager.cpp:27-30), and threads that start
\* again within every second, each time putting off the end of the second for all
\* (lines 63-66).  When the limit stays positive and no thread starts any more,
\* a thread that asks does not wait for ever: some thread comes to move a batch,
\* though which one is open, or all have given up (lines 56-60).
Asking == \E m \in Migrators : pc[m] = "asking"
Moving == \E m \in Migrators : pc[m] = "moving"
LimitStaysPositive == <>[](migration_rate_limit_ > 0)
StartsCease == <>[][\A m \in Migrators : ~RecordMigrationStart(m)]_vars
MigrationGoesOn ==
    LimitStaysPositive /\ StartsCease => (Asking ~> (Moving \/ ~Asking))

Stream == wal.file \o wal.buffered

\* The log holds every thread's entries in the order written, none twice, among
\* any interleaving of records and migration entries and across restarts; it
\* holds in the file every record whose Flush returned while the log was open and
\* had failed no write, unless a failed open emptied the file (LogBuffer.cpp:21-33,
\* WALManager.cpp:9-31).
LogExact ==
    /\ \A j, k \in DOMAIN Stream :
          j < k /\ Stream[j].by = Stream[k].by => Stream[j].n < Stream[k].n
    /\ acked \subseteq ToSet(wal.file)
=============================================================================
