----------------------------- MODULE Durability -----------------------------
(***************************************************************************)
(* The process life of the ledger: start, stop and crash (router/main.py   *)
(* lifespan, engine start and stop), over the one SQLite connection that   *)
(* all coroutines share (snapshot/store.py).                               *)
(*                                                                         *)
(* SnapshotEngine has the operations under their locks, on tables that     *)
(* every statement changes at once.  Here the connection is what it is:    *)
(* statements open a transaction by themselves, whoever commits commits    *)
(* the statements of everyone, and an error may roll back the statements   *)
(* of everyone: the code never does, SQLite does (disk full, I/O error).   *)
(* table is what the connection sees, disk what the file keeps if the      *)
(* process ends now.                                                       *)
(*                                                                         *)
(* The engine lock allows one operation of a session at a time (theorem    *)
(* OneWriter of SnapshotEngineProofs), so op has one slot per session.     *)
(* Coroutines that wait for a lock hold nothing and are left out.  Nothing *)
(* here is older than retention_days.                                      *)
(***************************************************************************)
EXTENDS Integers, FiniteSets

CONSTANTS Sessions,    \* session ids, ULIDs: never issued twice
          Rollbacks,   \* rollback ids, likewise
          Depth,       \* max_rollback_depth
          VersionCap,  \* no tool call once a session has this version
          GenCap,      \* no checkpoint or rollback past this generation
          MaxFaults,   \* bound on the database errors of a behaviour
          Nil          \* no id

ASSUME DurabilityAssumption ==
  /\ Depth \in Nat \ {0}
  /\ VersionCap \in Nat /\ GenCap \in Nat /\ MaxFaults \in Nat
  /\ Nil \notin Rollbacks

VARIABLES phase,       \* of the process: "down", "up", "stopping", "flushing"
          mem,         \* the version of each session in memory; 0: not there
          issued,      \* ids of sessions and rollbacks handed out so far
          gens,        \* _session_generations
          dirty,       \* _dirty_sessions
          todo,        \* session_ids of the final flush
          op,          \* the operation under the engine lock of each session
          table,       \* both tables as the connection sees them
          disk,        \* both tables as of the last commit
          faults,      \* database errors so far
          lost,        \* what they took from calls that saw no error
          told,        \* snapshots and records that returned calls reported
          owed         \* what stop() set out to save

volatile == <<mem, gens, dirty, todo, op>>
errors == <<faults, lost>>
vars == <<phase, volatile, issued, table, disk, errors, told, owed>>

\* A snapshot: ver stands for the encoded session.
Row == [sid : Sessions, gen : Nat, ver : Nat]
Record == [id : Rollbacks, sid : Sessions, from : Int, to : Nat]
Tables == [rows : SUBSET Row, log : SUBSET Record]

RowsOf(s, rows) == {r \in rows : r.sid = s}
Generations(s, rows) == {r.gen : r \in RowsOf(s, rows)}
Stored(s) == Generations(s, table.rows)

Committing == {"commit", "commit_delete", "commit_audit"}
Pcs == {"idle", "insert", "list_old", "delete_old", "load", "audit"}
          \cup Committing

\* What the operation waits for; gen and ver of the snapshot it writes, or
\* the target and the id of a rollback; the rows to prune.
NewOp(pc, gen, ver, id) ==
  [pc |-> pc, gen |-> gen, ver |-> ver, id |-> id, set |-> {}]

Idle == NewOp("idle", 0, 0, Nil)

At(s, label) == op[s].pc = label
Goto(s, label) == op' = [op EXCEPT ![s].pc = label]
EndOp(s) == op' = [op EXCEPT ![s] = Idle]

\* The snapshot and the record that the operation of s writes.
NewRow(s) == [sid |-> s, gen |-> op[s].gen, ver |-> op[s].ver]
NewRecord(s) ==
  [id |-> op[s].id, sid |-> s, from |-> gens[s], to |-> op[s].gen]

\* The statements.
InsertRow(s) == table' = [table EXCEPT !.rows = @ \cup {NewRow(s)}]
DeleteRows(s) ==
  table' = [table EXCEPT !.rows = {r \in @ : r.sid # s \/ r.gen \notin op[s].set}]
InsertRecord(s) == table' = [table EXCEPT !.log = @ \cup {NewRecord(s)}]

CommitAll == disk' = table

-----------------------------------------------------------------------------
(***************************************************************************)
(* Handlers                                                                *)
(***************************************************************************)

\* create_session; its genesis checkpoint is a Checkpoint step.
Create(s) ==
  /\ phase = "up"
  /\ s \notin issued
  /\ issued' = issued \cup {s}
  /\ mem' = [mem EXCEPT ![s] = 1]
  /\ UNCHANGED <<phase, gens, dirty, todo, op, table, disk, errors, told, owed>>

\* A tool call changes the session; maybe_checkpoint marks it, or calls
\* checkpoint, which is a Checkpoint step once the lock is free.
ToolCall(s) ==
  /\ phase = "up"
  /\ mem[s] > 0
  /\ \A x \in Sessions : mem[x] < VersionCap
  /\ mem' = [mem EXCEPT ![s] = @ + 1]
  /\ dirty' \in {dirty, dirty \cup {s}}
  /\ UNCHANGED <<phase, issued, gens, todo, op, table, disk, errors, told, owed>>

StartSave(s) ==
  /\ gens' = [gens EXCEPT ![s] = @ + 1]
  /\ op' = [op EXCEPT ![s] = NewOp("insert", gens[s] + 1, mem[s], Nil)]

\* A handler's checkpoint, or one of the maintenance loop's flush.
Checkpoint(s) ==
  /\ phase = "up"
  /\ At(s, "idle")
  /\ mem[s] > 0
  /\ \A x \in Sessions : gens[x] < GenCap
  /\ StartSave(s)
  /\ UNCHANGED <<phase, mem, issued, dirty, todo, table, disk, errors, told,
                 owed>>

\* engine.rollback to generation g; its record gets a new id.
Rollback(s, g) ==
  /\ phase = "up"
  /\ At(s, "idle")
  /\ mem[s] > 0
  /\ \E id \in Rollbacks \ issued :
        /\ issued' = issued \cup {id}
        /\ op' = [op EXCEPT ![s] = NewOp("load", g, 0, id)]
  /\ UNCHANGED <<phase, mem, gens, dirty, todo, table, disk, errors, told, owed>>

-----------------------------------------------------------------------------
(***************************************************************************)
(* checkpoint, past "async with lock"                                      *)
(***************************************************************************)

Insert(s) ==
  /\ At(s, "insert")
  /\ op[s].gen \notin Stored(s)
  /\ InsertRow(s)
  /\ Goto(s, "commit")
  /\ UNCHANGED <<phase, mem, issued, gens, dirty, todo, disk, errors, told, owed>>

\* Mutant of SaveFailed: the generation is not given back.
SaveFailedKeepsCounter(s) ==
  /\ EndOp(s)
  /\ UNCHANGED <<phase, mem, issued, gens, dirty, todo, disk, told>>

\* except Exception: the counter goes back; nobody calls rollback().
SaveFailed(s) ==
  /\ gens' = [gens EXCEPT ![s] = op[s].gen - 1]
  /\ EndOp(s)
  /\ UNCHANGED <<phase, mem, issued, dirty, todo, disk, told>>

\* IntegrityError: SQLite undoes the statement and keeps the transaction.
InsertConflicts(s) ==
  /\ At(s, "insert")
  /\ op[s].gen \in Stored(s)
  /\ SaveFailed(s)
  /\ UNCHANGED <<table, errors, owed>>

\* A database error.  SQLite undoes the statement that fails, or a failed
\* COMMIT (busy), and keeps the transaction, or it rolls all of it back
\* (full, I/O error, no memory), and with it what other calls have written
\* since the last commit.  own is what the call that gets the error has to
\* do again, skipped a row that its caller believes written.  Nothing is
\* promised to a stop that meets an error.
Fault(own, skipped) ==
  /\ faults < MaxFaults
  /\ faults' = faults + 1
  /\ owed' = {}
  /\ \/ /\ UNCHANGED table
        /\ lost' = [lost EXCEPT !.rows = @ \cup skipped]
     \/ /\ table' = disk
        /\ lost' = [rows |-> lost.rows \cup skipped
                               \cup ((table.rows \ disk.rows) \ own),
                    log  |-> lost.log \cup (table.log \ disk.log)]

\* The INSERT fails, or what follows it up to the commit.
SaveFails(s) ==
  /\ SaveFailed(s)
  /\ \/ At(s, "insert") /\ Fault({}, {})
     \/ At(s, "commit") /\ Fault({NewRow(s)}, {})

\* Mutant of Commit: save_snapshot leaves it to the next one who commits.
CommitsLater(s) ==
  /\ At(s, "commit")
  /\ dirty' = dirty \ {s}
  /\ Goto(s, "list_old")
  /\ UNCHANGED <<phase, mem, issued, gens, todo, table, disk, errors, told, owed>>

Commit(s) ==
  /\ At(s, "commit")
  /\ CommitAll
  /\ dirty' = dirty \ {s}
  /\ Goto(s, "list_old")
  /\ UNCHANGED <<phase, mem, issued, gens, todo, table, errors, told, owed>>

\* checkpoint returns.
Acknowledge(s) ==
  /\ told' = [told EXCEPT !.rows = @ \cup {NewRow(s)}]
  /\ EndOp(s)

\* Mutant of Excess: the lowest are kept, not the highest.
KeepsLowest(s) ==
  {g \in Stored(s) : Cardinality({h \in Stored(s) : h < g}) >= Depth}

\* to_delete of delete_old_snapshots
Excess(s) ==
  {g \in Stored(s) : Cardinality({h \in Stored(s) : h > g}) >= Depth}

ListOld(s) ==
  /\ At(s, "list_old")
  /\ \/ /\ Excess(s) = {}
        /\ Acknowledge(s)
     \/ /\ Excess(s) # {}
        /\ op' = [op EXCEPT ![s] = [@ EXCEPT !.pc = "delete_old",
                                             !.set = Excess(s)]]
        /\ UNCHANGED told
  /\ UNCHANGED <<phase, mem, issued, gens, dirty, todo, table, disk, errors,
                 owed>>

DeleteOld(s) ==
  /\ At(s, "delete_old")
  /\ DeleteRows(s)
  /\ Goto(s, "commit_delete")
  /\ UNCHANGED <<phase, mem, issued, gens, dirty, todo, disk, errors, told, owed>>

CommitDelete(s) ==
  /\ At(s, "commit_delete")
  /\ CommitAll
  /\ Acknowledge(s)
  /\ UNCHANGED <<phase, mem, issued, gens, dirty, todo, table, errors, owed>>

\* Pruning fails: checkpoint raises although the row is committed.
PruneFails(s) ==
  /\ op[s].pc \in {"list_old", "delete_old", "commit_delete"}
  /\ EndOp(s)
  /\ Fault({}, {})
  /\ UNCHANGED <<phase, mem, issued, gens, dirty, todo, disk, told>>

-----------------------------------------------------------------------------
(***************************************************************************)
(* rollback, past "async with lock"                                        *)
(***************************************************************************)

Load(s) ==
  /\ At(s, "load")
  /\ \E r \in RowsOf(s, table.rows) :
        /\ r.gen = op[s].gen
        /\ mem' = [mem EXCEPT ![s] = r.ver]
  /\ Goto(s, "audit")
  /\ UNCHANGED <<phase, issued, gens, dirty, todo, table, disk, errors, told,
                 owed>>

LoadMissing(s) ==
  /\ At(s, "load")
  /\ op[s].gen \notin Stored(s)
  /\ EndOp(s)
  /\ UNCHANGED <<phase, mem, issued, gens, dirty, todo, table, disk, errors,
                 told, owed>>

Audit(s) ==
  /\ At(s, "audit")
  /\ InsertRecord(s)
  /\ Goto(s, "commit_audit")
  /\ UNCHANGED <<phase, mem, issued, gens, dirty, todo, disk, errors, told, owed>>

\* The record is durable before the counter moves and rollback returns.
CommitAudit(s) ==
  /\ At(s, "commit_audit")
  /\ CommitAll
  /\ gens' = [gens EXCEPT ![s] = op[s].gen]
  /\ told' = [told EXCEPT !.log = @ \cup {NewRecord(s)}]
  /\ EndOp(s)
  /\ UNCHANGED <<phase, mem, issued, dirty, todo, table, errors, owed>>

RollbackFails(s) ==
  /\ op[s].pc \in {"load", "audit", "commit_audit"}
  /\ EndOp(s)
  /\ Fault({}, {})
  /\ UNCHANGED <<phase, mem, issued, gens, dirty, todo, disk, told>>

-----------------------------------------------------------------------------
(***************************************************************************)
(* The process                                                             *)
(***************************************************************************)

\* purge_expired_snapshots deletes nothing here, and commits all the same.
Purge ==
  /\ phase = "up"
  /\ CommitAll
  /\ UNCHANGED <<phase, volatile, issued, table, errors, told, owed>>

\* "except Exception" of the maintenance loop.
PurgeFails ==
  /\ phase = "up"
  /\ Fault({}, {})
  /\ UNCHANGED <<phase, volatile, issued, disk, told>>

\* MAX(generation) of the rows, if there are any.
Restored(s) ==
  LET found == Generations(s, disk.rows) IN
  IF found = {} THEN -1 ELSE CHOOSE g \in found : \A h \in found : g >= h

\* open and _restore_generation_state.  The session registry starts empty.
Start ==
  /\ phase = "down"
  /\ phase' = "up"
  /\ gens' = [s \in Sessions |-> Restored(s)]
  /\ owed' = {}
  /\ UNCHANGED <<mem, dirty, todo, op, issued, table, disk, errors, told>>

\* The server shuts down: no handler begins, those in flight and the
\* maintenance loop are cancelled.
Stop ==
  /\ phase = "up"
  /\ phase' = "stopping"
  /\ UNCHANGED <<volatile, issued, table, disk, errors, told, owed>>

\* CancelledError at the await of a statement.  The connection's thread has
\* the statement already and runs it; "except Exception" does not see the
\* error, so the counter stays; the lock is released.
Cancelled(s) ==
  /\ phase = "stopping"
  /\ ~ At(s, "idle")
  /\ EndOp(s)
  /\ \/ At(s, "insert") /\ op[s].gen \notin Stored(s)
           /\ InsertRow(s) /\ UNCHANGED disk
     \/ At(s, "delete_old") /\ DeleteRows(s) /\ UNCHANGED disk
     \/ At(s, "audit") /\ InsertRecord(s) /\ UNCHANGED disk
     \/ op[s].pc \in Committing /\ CommitAll /\ UNCHANGED table
     \/ /\ \/ At(s, "insert") /\ op[s].gen \in Stored(s)
           \/ op[s].pc \in {"list_old", "load"}
           \/ op[s].pc \in {"commit", "commit_delete"}  \* a cursor, an upsert
           \/ At(s, "audit")                          \* the log record
        /\ UNCHANGED <<table, disk>>
  /\ UNCHANGED <<phase, mem, issued, gens, dirty, todo, errors, told, owed>>

\* The statement that runs on fails: nobody is told.
CancelledFails(s) ==
  /\ phase = "stopping"
  /\ ~ At(s, "idle")
  /\ EndOp(s)
  /\ Fault({}, IF At(s, "insert") THEN {NewRow(s)} ELSE {})
  /\ UNCHANGED <<phase, mem, issued, gens, dirty, todo, disk, told>>

\* The counter names the newest row: not so after a rollback, or after a
\* commit that failed and kept its row.
OnTop(s) == \A g \in Stored(s) : g <= gens[s]

\* Mutant of FinalFlush: stop() closes without it.
NoFinalFlush ==
  /\ phase = "stopping"
  /\ \A s \in Sessions : At(s, "idle")
  /\ phase' = "flushing"
  /\ todo' = {}
  /\ owed' = {[sid |-> s, ver |-> mem[s]] : s \in {x \in dirty : OnTop(x)}}
  /\ UNCHANGED <<mem, gens, dirty, op, issued, table, disk, errors, told>>

\* _flush_dirty_sessions of stop().  It owes every dirty session a snapshot,
\* but for those with newer rows than the counter: the next generation is
\* taken (finding ReusedGeneration), or would be pruned at once.
FinalFlush ==
  /\ phase = "stopping"
  /\ \A s \in Sessions : At(s, "idle")
  /\ phase' = "flushing"
  /\ todo' = dirty
  /\ owed' = {[sid |-> s, ver |-> mem[s]] : s \in {x \in dirty : OnTop(x)}}
  /\ UNCHANGED <<mem, gens, dirty, op, issued, table, disk, errors, told>>

\* Mutant of FlushNext: while self._dirty_sessions, instead of a copy.
FlushesWhileDirty(s) ==
  /\ phase = "flushing"
  /\ \A x \in Sessions : At(x, "idle")
  /\ s \in todo
  /\ todo' = dirty
  /\ StartSave(s)
  /\ UNCHANGED <<phase, mem, issued, dirty, table, disk, errors, told, owed>>

FlushNext(s) ==
  /\ phase = "flushing"
  /\ \A x \in Sessions : At(x, "idle")
  /\ s \in todo
  /\ todo' = todo \ {s}
  /\ StartSave(s)
  /\ UNCHANGED <<phase, mem, issued, dirty, table, disk, errors, told, owed>>

\* The process is gone: what was not committed is too.
ProcessEnds ==
  /\ phase' = "down"
  /\ mem' = [s \in Sessions |-> 0]
  /\ gens' = [s \in Sessions |-> -1]
  /\ dirty' = {} /\ todo' = {}
  /\ op' = [s \in Sessions |-> Idle]
  /\ table' = disk
  /\ UNCHANGED <<issued, disk, errors, told>>

\* store.close() does not commit.
Close ==
  /\ phase = "flushing"
  /\ todo = {}
  /\ \A s \in Sessions : At(s, "idle")
  /\ ProcessEnds
  /\ UNCHANGED owed

Crash ==
  /\ phase # "down"
  /\ ProcessEnds
  /\ owed' = {}

-----------------------------------------------------------------------------
NoTables == [rows |-> {}, log |-> {}]

Init ==
  /\ phase = "down"
  /\ mem = [s \in Sessions |-> 0]
  /\ issued = {}
  /\ gens = [s \in Sessions |-> -1]
  /\ dirty = {} /\ todo = {}
  /\ op = [s \in Sessions |-> Idle]
  /\ table = NoTables /\ disk = NoTables /\ told = NoTables
  /\ faults = 0 /\ lost = NoTables
  /\ owed = {}

Handlers(s) ==
  Create(s) \/ ToolCall(s) \/ Checkpoint(s) \/ \E g \in 0..GenCap : Rollback(s, g)

OpStep(s) ==
  \/ Insert(s) \/ InsertConflicts(s) \/ SaveFails(s) \/ Commit(s)
  \/ ListOld(s) \/ DeleteOld(s) \/ CommitDelete(s) \/ PruneFails(s)
  \/ Load(s) \/ LoadMissing(s) \/ Audit(s) \/ CommitAudit(s) \/ RollbackFails(s)

Shutdown ==
  \/ \E s \in Sessions : Cancelled(s) \/ CancelledFails(s) \/ FlushNext(s)
  \/ FinalFlush \/ Close

Next ==
  \/ \E s \in Sessions : Handlers(s) \/ OpStep(s)
  \/ Purge \/ PurgeFails \/ Start \/ Stop \/ Shutdown \/ Crash

Spec == Init /\ [][Next]_vars

\* A shutdown that has begun goes on: cancelled coroutines are resumed,
\* statements end, and stop() runs to its end.
FairSpec ==
  /\ Spec
  /\ \A s \in Sessions : WF_vars(OpStep(s))
  /\ WF_vars(Shutdown)

-----------------------------------------------------------------------------
(***************************************************************************)
(* Properties                                                              *)
(***************************************************************************)

\* A rolled back transaction has taken a row of s, or a cancelled INSERT has
\* failed: there is a generation that the counter has passed and no row has.
Holed(s) == \E r \in lost.rows : r.sid = s

\* The file as the ledger of one session.
LedgerOf(s) == INSTANCE Ledger WITH rows <- RowsOf(s, disk.rows),
                                    log <- disk.log

\* Every variable has its type.
TypeOK ==
  /\ phase \in {"down", "up", "stopping", "flushing"}
  /\ mem \in [Sessions -> Nat]
  /\ issued \subseteq Sessions \cup Rollbacks
  /\ gens \in [Sessions -> Nat \cup {-1}]
  /\ dirty \subseteq Sessions /\ todo \subseteq Sessions
  /\ op \in [Sessions -> [pc : Pcs, gen : Nat, ver : Nat,
                          id : Rollbacks \cup {Nil}, set : SUBSET Nat]]
  /\ table \in Tables /\ disk \in Tables /\ told \in Tables
  /\ faults \in Nat /\ lost \in Tables
  /\ owed \subseteq [sid : Sessions, ver : Nat]

\* Whatever is cancelled, fails or crashes, and whoever commits whose
\* statements, the rows of a session behave as the append-only ledger
\* (pyproject.toml, store.py): keys are never rebound, rows go oldest first,
\* no record goes.  A session that a database error has taken a row from
\* while its counter went on still loses neither its newest row nor a record,
\* but after a rollback below that row a generation may come late, under the
\* newer ones.
ImplementsLedger ==
  /\ \A s \in Sessions : LedgerOf(s)!Init
  /\ [][\A s \in Sessions : \/ LedgerOf(s)!Transaction
                            \/ Holed(s)' /\ LedgerOf(s)!Keeps]_disk

\* A crash leaves no hole between the generations of a session, so
\* MAX(generation) of a restart is the counter, unless an error took a row of
\* the session from a call that saw no error.
DiskIsGapless ==
  \A s \in Sessions : \A a, b \in Generations(s, disk.rows) :
     \A g \in a..b : g \in Generations(s, disk.rows) \/ Holed(s)

\* What checkpoint or rollback returned to its caller survives a crash: the
\* snapshot, or a newer one of the session, and the audit record.  Only what
\* the error of another call has rolled back between the statement and its
\* commit is gone; the commit then succeeds and commits nothing.
AcknowledgedIsDurable ==
  /\ \A r \in told.rows \ lost.rows :
        r \in disk.rows \/ \E q \in disk.rows : LedgerOf(r.sid)!Newer(q, r)
  /\ told.log \ lost.log \subseteq disk.log

\* stop() leaves no dirty session behind: when no statement fails, the file
\* has each of them as it was in memory (engine.py, stop: "performs a final
\* flush of all dirty sessions").
StopSavesDirty ==
  phase = "down" =>
     \A o \in owed : \E r \in disk.rows : r.sid = o.sid /\ r.ver = o.ver

\* A shutdown ends, whatever fails on the way.
StopEnds == phase = "stopping" ~> phase = "down"

=============================================================================
