---------------------------- MODULE SnapshotStore ----------------------------
(***************************************************************************)
(* The durable tables of snapshot/store.py as the engine sees them through *)
(* its one aiosqlite connection: every statement is atomic and visible to  *)
(* the next one at once.  Transactions are left to module Durability: they *)
(* matter across a crash of the process, and when an error makes SQLite    *)
(* roll back what other coroutines have written.                           *)
(*                                                                         *)
(* A row of the table "snapshots" keeps its key (sid, gen) and the encoded *)
(* session img; a row of "rollback_audit" keeps the generations and the    *)
(* deviation the record was built with.                                    *)
(***************************************************************************)
EXTENDS SessionStore, FiniteSets

CONSTANTS Depth,       \* max_rollback_depth
          Ageing       \* do sessions outlive retention_days?

ASSUME DepthAssumption == Depth \in Nat \ {0} /\ Ageing \in BOOLEAN

VARIABLES snapshots,   \* the rows of "snapshots"
          expired,     \* those created before the retention cutoff
          audit        \* the rows of "rollback_audit", in insertion order

Row == [sid : Sessions, gen : Nat, img : Session]

AuditRecord == [sid : Sessions, from : Int, to : Nat, dev : BOOLEAN]

RowsOf(s) == {r \in snapshots : r.sid = s}

\* list_generations
Generations(s) == {r.gen : r \in RowsOf(s)}

\* The row load_snapshot and the deviation query select by primary key.
RowAt(s, g) == CHOOSE r \in RowsOf(s) : r.gen = g

\* Mutant of InsertSnapshot: INSERT OR REPLACE.
InsertOrReplace(s, g, v) ==
  snapshots' = {r \in snapshots : r.sid # s \/ r.gen # g}
                  \cup {[sid |-> s, gen |-> g, img |-> v]}

\* The INSERT of save_snapshot that meets no primary key conflict.
InsertSnapshot(s, g, v) ==
  /\ g \notin Generations(s)
  /\ snapshots' = snapshots \cup {[sid |-> s, gen |-> g, img |-> v]}

\* Mutant of Excess: one generation too many is kept.
KeepsOneMore(s, keep_last_n) ==
  {g \in Generations(s) :
     Cardinality({h \in Generations(s) : h > g}) > keep_last_n}

\* Mutant of Excess: ORDER BY without DESC keeps the lowest.
KeepsLowest(s, keep_last_n) ==
  {g \in Generations(s) :
     Cardinality({h \in Generations(s) : h < g}) >= keep_last_n}

\* to_delete of delete_old_snapshots: all but the keep_last_n highest.
Excess(s, keep_last_n) ==
  {g \in Generations(s) :
     Cardinality({h \in Generations(s) : h > g}) >= keep_last_n}

\* DELETE FROM snapshots WHERE session_id = s AND generation IN gens
DeleteSnapshots(s, gens) ==
  /\ snapshots' = {r \in snapshots : r.sid # s \/ r.gen \notin gens}
  /\ expired' = expired \cap snapshots'

\* retention_days pass without a new row: what is stored now will be older
\* than the cutoff of the next purge.
RetentionPasses ==
  /\ Ageing
  /\ expired' = snapshots

\* DELETE FROM snapshots WHERE created_at < cutoff
PurgeExpired ==
  /\ snapshots' = snapshots \ expired
  /\ expired' = {}

\* save_rollback_record
SaveRollbackRecord(s, from_gen, to_gen, d) ==
  audit' = Append(audit, [sid |-> s, from |-> from_gen, to |-> to_gen,
                          dev |-> d])

=============================================================================
