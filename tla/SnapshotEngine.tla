--------------------------- MODULE SnapshotEngine ---------------------------
(***************************************************************************)
(* snapshot/engine.py: checkpoints, rollbacks, automatic rollbacks and the *)
(* maintenance loop, interleaved the way one asyncio event loop does it.   *)
(*                                                                         *)
(* A coroutine runs without interruption from one await that really        *)
(* suspends to the next; each action below is such a stretch.  What        *)
(* suspends is a statement on the SQLite connection, a log record, a sleep *)
(* or an engine lock that another coroutine holds or already waits for.    *)
(* op[c].pc names what coroutine c is waiting for.                         *)
(*                                                                         *)
(* The callers are the environment here (EngineCall): they may call any    *)
(* operation of the engine with any session at any time.  StateRouter has  *)
(* the callers that the program really has.                                *)
(***************************************************************************)
EXTENDS SnapshotStore

CONSTANTS Targets,     \* values of RollbackRequest.target_generation (ge=0)
          MaxFaults    \* bound on the database errors of a behaviour

ASSUME EngineAssumption == Targets \subseteq Nat /\ MaxFaults \in Nat

VARIABLES gens,        \* _session_generations
          dirty,       \* _dirty_sessions
          lockq,       \* _session_locks: holder first, then waiters in order
          op,          \* what each coroutine does inside the engine
          sweep,       \* where the maintenance loop is
          todo,        \* session_ids it still has to flush
          faults       \* database errors so far

storeVars == <<snapshots, expired, audit>>
vars == <<sess, ref, snapshots, expired, audit,
          gens, dirty, lockq, op, sweep, todo, faults>>

Pcs == {"idle",
        "ckpt_lock", "insert", "commit", "list_old", "delete_old",
        "ckpt_log", "ckpt_err",
        "auto_list", "auto_scan",
        "rb_lock", "load", "audit", "rb_log"}

\* Inside "async with lock".
Critical == {"insert", "commit", "list_old", "delete_old", "ckpt_log",
             "ckpt_err", "load", "audit", "rb_log"}

\* At "async with lock", behind another.
Waiting == {"ckpt_lock", "rb_lock"}

\* gen is next_gen of a checkpoint, to_gen of a rollback and the fallback of
\* an automatic one; from is from_gen; img the encoded session; set is
\* to_delete of a prune and the generations a scan has left.
NewOp(pc, s, gen, from, img) ==
  [pc |-> pc, sid |-> s, gen |-> gen, from |-> from, img |-> img, set |-> {}]

Idle == NewOp("idle", Nil, 0, 0, Nil)

Op == [pc : Pcs, sid : Sessions \cup {Nil}, gen : Nat, from : Int,
       img : Session \cup {Nil}, set : SUBSET Nat]

At(c, label) == op[c].pc = label
InCritical(c, s) == op[c].sid = s /\ op[c].pc \in Critical
Busy(s) == \E c \in Coroutines : InCritical(c, s)

Goto(c, label) == op' = [op EXCEPT ![c] = [@ EXCEPT !.pc = label]]
EndOp(c) == op' = [op EXCEPT ![c] = Idle]

Release(s) == lockq' = [lockq EXCEPT ![s] = Tail(@)]

\* Mutant of Granted: a lock of its own for every call.
NoMutualExclusion(c) == op[c].sid # Nil

Granted(c) == lockq[op[c].sid] # <<>> /\ Head(lockq[op[c].sid]) = c

-----------------------------------------------------------------------------
(***************************************************************************)
(* checkpoint                                                              *)
(***************************************************************************)

\* Mutant of StartSave: the next generation is the number of snapshots.
NumbersByCount(c, s, v) ==
  LET next == Cardinality(Generations(s)) IN
  /\ gens' = [gens EXCEPT ![s] = next]
  /\ op' = [op EXCEPT ![c] = NewOp("insert", s, next, 0, v)]

\* Under the lock: the next generation is assigned and the session encoded
\* before the INSERT is awaited.
StartSave(c, s, v) ==
  /\ gens' = [gens EXCEPT ![s] = @ + 1]
  /\ op' = [op EXCEPT ![c] = NewOp("insert", s, gens[s] + 1, 0, v)]

\* checkpoint(session), called with an object that reads as v now; hold is
\* that object, should the caller have to wait for the lock.
Checkpoint(c, s, v, hold) ==
  /\ lockq' = [lockq EXCEPT ![s] = Append(@, c)]
  /\ \/ /\ lockq[s] = <<>>
        /\ StartSave(c, s, v)
        /\ ref' = [ref EXCEPT ![c] = Nil]
     \/ /\ lockq[s] # <<>>
        /\ op' = [op EXCEPT ![c] = NewOp("ckpt_lock", s, 0, 0, Nil)]
        /\ ref' = [ref EXCEPT ![c] = hold]
        /\ UNCHANGED gens

CheckpointGranted(c) ==
  /\ At(c, "ckpt_lock")
  /\ Granted(c)
  /\ StartSave(c, op[c].sid, Deref(c))
  /\ ref' = [ref EXCEPT ![c] = Nil]
  /\ UNCHANGED <<sess, storeVars, dirty, lockq, sweep, todo, faults>>

Insert(c) ==
  /\ At(c, "insert")
  /\ InsertSnapshot(op[c].sid, op[c].gen, op[c].img)
  /\ op' = [op EXCEPT ![c] = [@ EXCEPT !.pc = "commit", !.img = Nil]]
  /\ UNCHANGED <<sess, ref, expired, audit, gens, dirty, lockq, sweep, todo,
                 faults>>

\* Mutant of SaveFailed: the generation is not given back.
SaveFailedKeepsCounter(c) ==
  /\ op' = [op EXCEPT ![c] = [@ EXCEPT !.pc = "ckpt_err", !.img = Nil]]
  /\ UNCHANGED <<sess, ref, storeVars, gens, dirty, lockq, sweep, todo>>

\* except Exception: the counter goes back, the error is logged and raised.
SaveFailed(c) ==
  /\ gens' = [gens EXCEPT ![op[c].sid] = op[c].gen - 1]
  /\ op' = [op EXCEPT ![c] = [@ EXCEPT !.pc = "ckpt_err", !.img = Nil]]
  /\ UNCHANGED <<sess, ref, storeVars, dirty, lockq, sweep, todo>>

\* The row exists already: sqlite raises IntegrityError.
InsertConflicts(c) ==
  /\ At(c, "insert")
  /\ op[c].gen \in Generations(op[c].sid)
  /\ SaveFailed(c)
  /\ UNCHANGED faults

\* The INSERT, or what follows it up to the commit, fails.  A row already
\* inserted stays, for the code does not roll back.  That SQLite may, with the
\* statements of all coroutines, is left to module Durability.
SaveFails(c) ==
  /\ op[c].pc \in {"insert", "commit"}
  /\ faults < MaxFaults
  /\ SaveFailed(c)
  /\ faults' = faults + 1

\* The upsert of session_metadata and the commit succeed.
Commit(c) ==
  /\ At(c, "commit")
  /\ dirty' = dirty \ {op[c].sid}
  /\ Goto(c, "list_old")
  /\ UNCHANGED <<sess, ref, storeVars, gens, lockq, sweep, todo, faults>>

\* delete_old_snapshots lists, and deletes only if there is an excess.
ListOld(c) ==
  LET excess == Excess(op[c].sid, Depth) IN
  /\ At(c, "list_old")
  /\ op' = [op EXCEPT ![c] = [@ EXCEPT
              !.pc = IF excess = {} THEN "ckpt_log" ELSE "delete_old",
              !.set = excess]]
  /\ UNCHANGED <<sess, ref, storeVars, gens, dirty, lockq, sweep, todo, faults>>

DeleteOld(c) ==
  /\ At(c, "delete_old")
  /\ DeleteSnapshots(op[c].sid, op[c].set)
  /\ op' = [op EXCEPT ![c] = [@ EXCEPT !.pc = "ckpt_log", !.set = {}]]
  /\ UNCHANGED <<sess, ref, audit, gens, dirty, lockq, sweep, todo, faults>>

\* An error while pruning leaves checkpoint although the row is committed.
PruneFails(c) ==
  /\ op[c].pc \in {"list_old", "delete_old"}
  /\ faults < MaxFaults
  /\ faults' = faults + 1
  /\ EndOp(c)
  /\ Release(op[c].sid)
  /\ UNCHANGED <<sess, ref, storeVars, gens, dirty, sweep, todo>>

\* The last log record is written; checkpoint returns, or raises.
CheckpointEnds(c) ==
  /\ op[c].pc \in {"ckpt_log", "ckpt_err"}
  /\ EndOp(c)
  /\ Release(op[c].sid)
  /\ UNCHANGED <<sess, ref, storeVars, gens, dirty, sweep, todo, faults>>

-----------------------------------------------------------------------------
(***************************************************************************)
(* rollback                                                                *)
(***************************************************************************)

StartLoad(c, s, g) ==
  op' = [op EXCEPT ![c] = NewOp("load", s, g, gens[s], Nil)]

\* rollback(request) with target_generation g
Rollback(c, s, g) ==
  /\ lockq' = [lockq EXCEPT ![s] = Append(@, c)]
  /\ \/ /\ lockq[s] = <<>>
        /\ StartLoad(c, s, g)
     \/ /\ lockq[s] # <<>>
        /\ op' = [op EXCEPT ![c] = NewOp("rb_lock", s, g, 0, Nil)]

\* Mutant of RollbackGranted: rollback does not wait for the lock.
RollbackBargesIn(c) ==
  /\ At(c, "rb_lock")
  /\ StartLoad(c, op[c].sid, op[c].gen)
  /\ UNCHANGED <<sess, ref, storeVars, gens, dirty, lockq, sweep, todo, faults>>

RollbackGranted(c) ==
  /\ At(c, "rb_lock")
  /\ Granted(c)
  /\ StartLoad(c, op[c].sid, op[c].gen)
  /\ UNCHANGED <<sess, ref, storeVars, gens, dirty, lockq, sweep, todo, faults>>

\* load_snapshot, then restore_session up to its log record.
Load(c) ==
  /\ At(c, "load")
  /\ op[c].gen \in Generations(op[c].sid)
  /\ RestoreSession(op[c].sid, RowAt(op[c].sid, op[c].gen).img)
  /\ Goto(c, "audit")
  /\ UNCHANGED <<storeVars, gens, dirty, lockq, sweep, todo, faults>>

\* Mutant of RollbackRaises: acquire() without a finally.
RaisesWithTheLock(c) ==
  /\ EndOp(c)
  /\ ref' = [ref EXCEPT ![c] = Nil]
  /\ UNCHANGED <<sess, snapshots, expired, gens, dirty, lockq, sweep, todo>>

\* An exception leaves rollback, and the handler that called it.
RollbackRaises(c) ==
  /\ EndOp(c)
  /\ Release(op[c].sid)
  /\ ref' = [ref EXCEPT ![c] = Nil]
  /\ UNCHANGED <<sess, snapshots, expired, gens, dirty, sweep, todo>>

\* load_snapshot finds no row and raises KeyError.
LoadMissing(c) ==
  /\ At(c, "load")
  /\ op[c].gen \notin Generations(op[c].sid)
  /\ RollbackRaises(c)
  /\ UNCHANGED <<audit, faults>>

\* The record takes the deviation of the session that is registered by now.
SaveAudit(c) ==
  LET s == op[c].sid IN
  /\ At(c, "audit")
  /\ SaveRollbackRecord(s, op[c].from, op[c].gen, sess[s].dev)
  /\ gens' = [gens EXCEPT ![s] = op[c].gen]
  /\ Goto(c, "rb_log")
  /\ UNCHANGED <<sess, ref, snapshots, expired, dirty, lockq, sweep, todo,
                 faults>>

\* The INSERT of the record fails, or only its commit does.
AuditFails(c) ==
  /\ At(c, "audit")
  /\ faults < MaxFaults
  /\ faults' = faults + 1
  /\ RollbackRaises(c)
  /\ \/ UNCHANGED audit
     \/ SaveRollbackRecord(op[c].sid, op[c].from, op[c].gen,
                           sess[op[c].sid].dev)

RollbackEnds(c) ==
  /\ At(c, "rb_log")
  /\ EndOp(c)
  /\ Release(op[c].sid)
  /\ UNCHANGED <<sess, ref, storeVars, gens, dirty, sweep, todo, faults>>

-----------------------------------------------------------------------------
(***************************************************************************)
(* auto_rollback: no lock is held while it chooses the target.             *)
(***************************************************************************)

StartAuto(c, s) ==
  op' = [op EXCEPT ![c] = NewOp("auto_list", s, 0, 0, Nil)]

Highest(S) == CHOOSE g \in S : \A h \in S : g >= h
Lowest(S) == CHOOSE g \in S : \A h \in S : g <= h

AutoList(c) ==
  LET found == Generations(op[c].sid) IN
  /\ At(c, "auto_list")
  /\ found # {}
  /\ op' = [op EXCEPT ![c] = [@ EXCEPT !.pc = "auto_scan", !.set = found,
                                       !.gen = Lowest(found)]]
  /\ UNCHANGED <<sess, ref, storeVars, gens, dirty, lockq, sweep, todo, faults>>

\* No snapshot yet: auto_rollback returns None.
AutoSkips(c) ==
  /\ At(c, "auto_list")
  /\ Generations(op[c].sid) = {}
  /\ EndOp(c)
  /\ UNCHANGED <<sess, ref, storeVars, gens, dirty, lockq, sweep, todo, faults>>

\* "if row and row[...] < threshold"
Safe(s, g) == g \in Generations(s) /\ ~ RowAt(s, g).img.dev

\* One SELECT of the scan, from the highest listed generation down; the
\* lowest one is taken when none is safe.
AutoScan(c) ==
  LET s == op[c].sid
      g == Highest(op[c].set)
  IN
  /\ At(c, "auto_scan")
  /\ \/ Safe(s, g) /\ Rollback(c, s, g)
     \/ ~ Safe(s, g) /\ op[c].set = {g} /\ Rollback(c, s, op[c].gen)
     \/ /\ ~ Safe(s, g) /\ op[c].set # {g}
        /\ op' = [op EXCEPT ![c] = [@ EXCEPT !.set = op[c].set \ {g}]]
        /\ UNCHANGED lockq
  /\ UNCHANGED <<sess, ref, storeVars, gens, dirty, sweep, todo, faults>>

-----------------------------------------------------------------------------
(***************************************************************************)
(* The maintenance loop                                                    *)
(***************************************************************************)

\* Mutant of Wake: session_ids was copied before the sleep, from a clean set.
WakesWithAnOldList ==
  /\ sweep = "sleep"
  /\ dirty # {}
  /\ sweep' = "flush"
  /\ todo' = {}
  /\ UNCHANGED <<sess, ref, storeVars, gens, dirty, lockq, op, faults>>

\* The sleep ends with sessions to flush: session_ids is a copy of the set.
Wake ==
  /\ sweep = "sleep"
  /\ dirty # {}
  /\ sweep' = "flush"
  /\ todo' = dirty
  /\ UNCHANGED <<sess, ref, storeVars, gens, dirty, lockq, op, faults>>

\* A failed checkpoint is logged and the loop goes on.  The branch for
\* SessionNotFoundError has no step: only registered sessions become dirty.
FlushNext(s) ==
  /\ sweep = "flush"
  /\ At(Maint, "idle")
  /\ s \in todo
  /\ todo' = todo \ {s}
  /\ Checkpoint(Maint, s, sess[s], s)
  /\ UNCHANGED <<sess, storeVars, dirty, sweep, faults>>

\* The flush is over, or had nothing to do: purge_expired_snapshots, and back
\* to sleep.
Purge ==
  /\ sweep = "flush" \/ dirty = {}
  /\ At(Maint, "idle")
  /\ todo = {}
  /\ PurgeExpired
  /\ sweep' = "sleep"
  /\ UNCHANGED <<sess, ref, audit, gens, dirty, lockq, op, todo, faults>>

\* Days go by while no engine operation is in flight; not a step of the program.
TimePasses ==
  /\ \A c \in Coroutines : At(c, "idle")
  /\ RetentionPasses
  /\ UNCHANGED <<sess, ref, snapshots, audit, gens, dirty, lockq, op, sweep,
                 todo, faults>>

-----------------------------------------------------------------------------
EngineInit ==
  /\ sess = [s \in Sessions |-> Fresh]
  /\ ref = [c \in Coroutines |-> Nil]
  /\ snapshots = {} /\ expired = {} /\ audit = <<>>
  /\ gens = [s \in Sessions |-> -1]
  /\ dirty = {}
  /\ lockq = [s \in Sessions |-> <<>>]
  /\ op = [c \in Coroutines |-> Idle]
  /\ sweep = "sleep" /\ todo = {}
  /\ faults = 0

CheckpointStep(c) ==
  \/ CheckpointGranted(c)
  \/ Insert(c) \/ InsertConflicts(c) \/ SaveFails(c) \/ Commit(c)
  \/ ListOld(c) \/ DeleteOld(c) \/ PruneFails(c)
  \/ CheckpointEnds(c)

RollbackStep(c) ==
  \/ AutoList(c) \/ AutoSkips(c) \/ AutoScan(c)
  \/ RollbackGranted(c)
  \/ Load(c) \/ LoadMissing(c)
  \/ SaveAudit(c) \/ AuditFails(c)
  \/ RollbackEnds(c)

OpStep(c) == CheckpointStep(c) \/ RollbackStep(c)

Maintenance == Wake \/ (\E s \in Sessions : FlushNext(s)) \/ Purge

\* Whatever the callers do to sessions, they do it to the registered objects
\* and to the references they hold; not to that of a suspended checkpoint.
CallersMayChangeSessions ==
  /\ sess' \in [Sessions -> Session]
  /\ ref' \in [Coroutines -> {Nil} \cup Sessions \cup Session]
  /\ \A c \in Coroutines : At(c, "ckpt_lock") => ref'[c] = ref[c]

EngineCall ==
  /\ CallersMayChangeSessions
  /\ UNCHANGED <<storeVars, sweep, todo, faults>>
  /\ \/ \E c \in Tasks, s \in Sessions, v \in Session,
           hold \in Sessions \cup Session :
          /\ At(c, "idle")
          /\ Checkpoint(c, s, v, hold)
          /\ UNCHANGED dirty
     \/ \E c \in Tasks, s \in Sessions, g \in Targets :
          At(c, "idle") /\ Rollback(c, s, g) /\ UNCHANGED <<gens, dirty>>
     \/ \E c \in Tasks, s \in Sessions :
          /\ At(c, "idle")
          /\ StartAuto(c, s)
          /\ UNCHANGED <<gens, dirty, lockq>>
     \/ \E s \in Sessions :
          /\ dirty' = dirty \cup {s}
          /\ UNCHANGED <<gens, lockq, op>>
     \/ UNCHANGED <<gens, dirty, lockq, op>>

EngineNext ==
  \/ EngineCall
  \/ \E c \in Coroutines : OpStep(c)
  \/ Maintenance
  \/ TimePasses

EngineSpec == EngineInit /\ [][EngineNext]_vars

-----------------------------------------------------------------------------
(***************************************************************************)
(* Properties                                                              *)
(***************************************************************************)

\* Every variable has its type; in particular no session, in memory or in a
\* snapshot, has more steps than its budget.
TypeOK ==
  /\ sess \in [Sessions -> Session]
  /\ ref \in [Coroutines -> {Nil} \cup Sessions \cup Session]
  /\ snapshots \subseteq Row
  /\ expired \subseteq snapshots
  /\ audit \in Seq(AuditRecord)
  /\ gens \in [Sessions -> Nat \cup {-1}]
  /\ dirty \subseteq Sessions
  /\ lockq \in [Sessions -> Seq(Coroutines)]
  /\ op \in [Coroutines -> Op]
  /\ sweep \in {"sleep", "flush"}
  /\ todo \subseteq Sessions
  /\ faults \in Nat

\* The engine lock: of all the coroutines that checkpoint, roll back or flush
\* one session, a single one is past "async with lock".
OneWriterPerSession ==
  \A s \in Sessions, c, d \in Coroutines :
     InCritical(c, s) /\ InCritical(d, s) => c = d

\* The queue of an engine lock is the operations on that session that hold or
\* await it, each once: no return, error or exception leaves a lock taken,
\* and nobody waits for a lock that will not be handed to it.
LocksMatchOperations ==
  \A s \in Sessions :
     /\ \A c \in Coroutines :
           (\E i \in DOMAIN lockq[s] : lockq[s][i] = c)
              <=> op[c].sid = s /\ op[c].pc \in Critical \cup Waiting
     /\ \A i, j \in DOMAIN lockq[s] : lockq[s][i] = lockq[s][j] => i = j

\* A stored snapshot is never overwritten, by a checkpoint after a rollback
\* either (models.py: "Immutable point-in-time snapshot").
SnapshotsImmutable ==
  [][\A r \in snapshots, q \in snapshots' :
       r.sid = q.sid /\ r.gen = q.gen => r = q]_vars

\* Pruning, rollbacks and failed saves leave no hole: as long as the
\* retention purge removes nothing, the generations of a session are an
\* interval.
ContiguousGenerations ==
  \A s \in Sessions : \A a, b \in Generations(s) :
     \A g \in a..b : g \in Generations(s)

\* When nobody is inside the engine for s, the counter names a stored
\* snapshot, or the one just below a row that a failed commit left behind.
CounterOnRows(s) ==
  \/ gens[s] \in Generations(s)
  \/ faults > 0 /\ gens[s] + 1 \in Generations(s)
  \/ gens[s] = -1 /\ Generations(s) = {}

CounterMatchesRows == \A s \in Sessions : Busy(s) \/ CounterOnRows(s)

\* A checkpoint that returns has left its own snapshot in the table: pruning
\* to max_rollback_depth never takes the newest one.
CheckpointSurvivesPrune ==
  \A c \in Coroutines :
     At(c, "ckpt_log") => op[c].gen \in Generations(op[c].sid)

\* max_rollback_depth bounds what is retained, up to one row for each
\* database error.
RetentionBound ==
  \A s \in Sessions :
     Busy(s) \/ Cardinality(Generations(s)) <= Depth + faults

\* The audit log only grows, and the record of a rollback says where the
\* counter was and where the rollback took it.
AuditMatchesCounter ==
  [][audit' = audit \/
       LET r == audit'[Len(audit')] IN
          /\ audit' = Append(audit, r)
          /\ r.from = gens[r.sid]
          /\ gens'[r.sid] = r.to \/ faults' > faults]_vars

\* While a rollback writes its record and returns, memory holds the state of
\* its target snapshot.
RollbackTakesEffect ==
  \A c \in Coroutines : op[c].pc \in {"audit", "rb_log"} =>
     \A r \in RowsOf(op[c].sid) : r.gen = op[c].gen =>
        /\ sess[r.sid].step = r.img.step
        /\ sess[r.sid].dev = r.img.dev
        /\ sess[r.sid].status # "ACTIVE"

\* A generation is assigned once: no INSERT meets an existing key
\* (store.py: "should never happen under normal operation since generations
\* are monotonically assigned by the engine").
InsertIsFresh ==
  \A c \in Coroutines :
     At(c, "insert") => op[c].gen \notin Generations(op[c].sid)

\* To the engine as to the file (module Durability) the tables are a ledger:
\* as long as nothing expires, every checkpoint adds a generation above those
\* of its session, a prune takes the lowest and leaves the highest, and audit
\* records stay where they are.
Kept == INSTANCE Ledger WITH rows <- snapshots,
                             log <- {<<i, audit[i]>> : i \in DOMAIN audit}

KeepsLedger == Kept!Spec

\* A save of s is under way that has read the session already.
Encoded(s) ==
  \E c \in Coroutines : op[c].sid = s /\ op[c].pc \in {"insert", "commit"}

\* What a dirty session has changed is eventually stored, by the maintenance
\* loop if nobody checkpoints it earlier.  A mark that is set while a save is
\* under way may get lost with it (finding LostDirtyMark).
DirtyGetsSaved ==
  \A s \in Sessions, step \in 0..MaxSteps :
     s \in dirty /\ sess[s].step = step /\ ~ Encoded(s)
        ~> \E r \in RowsOf(s) : r.img.step >= step

\* Whoever enters the engine leaves it: nobody starves on the engine lock.
EngineCallsReturn ==
  \A c \in Coroutines : ~ At(c, "idle") ~> At(c, "idle")

=============================================================================
