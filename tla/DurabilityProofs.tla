-------------------------- MODULE DurabilityProofs --------------------------
(***************************************************************************)
(* Theorems about Durability, for every set of sessions, every depth and   *)
(* any number of database errors, crashes and restarts.                    *)
(***************************************************************************)
EXTENDS Durability, TLAPS, FiniteSetTheorems

OpType == [pc : Pcs, gen : Nat, ver : Nat, id : Rollbacks \cup {Nil},
           set : SUBSET Nat]

\* The fields of the operations that the actions build.
LEMMA NewOpType ==
  ASSUME NEW pc \in Pcs, NEW gen \in Nat, NEW ver \in Nat,
         NEW id \in Rollbacks \cup {Nil}
  PROVE  /\ NewOp(pc, gen, ver, id) \in OpType
         /\ NewOp(pc, gen, ver, id).pc = pc
         /\ NewOp(pc, gen, ver, id).gen = gen
         /\ NewOp(pc, gen, ver, id).ver = ver
         /\ NewOp(pc, gen, ver, id).id = id
  BY DEF NewOp, OpType

LEMMA IdleType == Idle \in OpType /\ Idle.pc = "idle"
<1>1. "idle" \in Pcs /\ 0 \in Nat
  BY DEF Pcs
<1> QED BY <1>1, NewOpType DEF Idle

\* The session whose operation a step is about is the only one that changes.
LEMMA OpUpdate ==
  ASSUME TypeOK, NEW s \in Sessions, NEW o \in OpType, op' = [op EXCEPT ![s] = o]
  PROVE  /\ op' \in [Sessions -> OpType]
         /\ op'[s] = o
         /\ \A x \in Sessions : x # s => op'[x] = op[x]
  BY DEF TypeOK, OpType

LEMMA StartOp ==
  ASSUME TypeOK, NEW s \in Sessions, NEW pc \in Pcs, NEW gen \in Nat,
         NEW ver \in Nat, NEW id \in Rollbacks \cup {Nil},
         op' = [op EXCEPT ![s] = NewOp(pc, gen, ver, id)]
  PROVE  /\ op' \in [Sessions -> OpType]
         /\ op'[s].pc = pc /\ op'[s].gen = gen /\ op'[s].id = id
         /\ \A x \in Sessions : x # s => op'[x] = op[x]
<1> DEFINE o == NewOp(pc, gen, ver, id)
<1>1. o \in OpType /\ o.pc = pc /\ o.gen = gen /\ o.id = id
  BY NewOpType
<1>2. op' = [op EXCEPT ![s] = o]
  OBVIOUS
<1> HIDE DEF o
<1> QED BY <1>1, <1>2, OpUpdate

LEMMA GotoType ==
  ASSUME TypeOK, NEW s \in Sessions, NEW pc \in Pcs, Goto(s, pc)
  PROVE  /\ op' \in [Sessions -> OpType]
         /\ op'[s].pc = pc /\ op'[s].gen = op[s].gen /\ op'[s].ver = op[s].ver
         /\ op'[s].id = op[s].id /\ op'[s].set = op[s].set
         /\ \A x \in Sessions : x # s => op'[x] = op[x]
  BY DEF TypeOK, OpType, Goto

LEMMA EndOpType ==
  ASSUME TypeOK, NEW s \in Sessions, EndOp(s)
  PROVE  /\ op' \in [Sessions -> OpType]
         /\ op'[s].pc = "idle"
         /\ \A x \in Sessions : x # s => op'[x] = op[x]
  BY IdleType, OpUpdate DEF EndOp

\* What the operation writes, when it has something to write.
LEMMA NewRowType ==
  ASSUME TypeOK, NEW s \in Sessions
  PROVE  /\ NewRow(s) \in Row
         /\ NewRow(s).sid = s /\ NewRow(s).gen = op[s].gen
         /\ NewRow(s).ver = op[s].ver
  BY DEF TypeOK, NewRow, Row

-----------------------------------------------------------------------------
(***************************************************************************)
(* Types                                                                   *)
(***************************************************************************)

\* An error undoes a statement or the transaction.
LEMMA FaultType ==
  ASSUME TypeOK, NEW own, NEW skipped \in SUBSET Row, Fault(own, skipped)
  PROVE  /\ table' \in Tables /\ lost' \in Tables /\ faults' \in Nat
         /\ owed' = {}
  BY DEF Fault, TypeOK, Tables

LEMMA InitType == Init => TypeOK
<1> SUFFICES ASSUME Init PROVE TypeOK
  OBVIOUS
<1>1. op \in [Sessions -> OpType]
  BY IdleType DEF Init
<1> QED BY <1>1 DEF Init, TypeOK, OpType, NoTables, Tables

LEMMA HandlersType ==
  ASSUME TypeOK, NEW s \in Sessions, Handlers(s)
  PROVE  TypeOK'
<1>1. CASE Create(s)
  BY <1>1 DEF Create, TypeOK, errors
<1>2. CASE ToolCall(s)
  BY <1>2 DEF ToolCall, TypeOK, errors
<1>3. CASE Checkpoint(s)
  <2>1. gens[s] + 1 \in Nat /\ mem[s] \in Nat /\ "insert" \in Pcs
    BY DEF TypeOK, Pcs
  <2>2. op' \in [Sessions -> OpType]
    BY <1>3, <2>1, NewOpType, OpUpdate DEF Checkpoint, StartSave
  <2> QED BY <1>3, <2>1, <2>2 DEF Checkpoint, StartSave, TypeOK, OpType,
                                  errors
<1>4. CASE \E g \in 0..GenCap : Rollback(s, g)
  <2>1. PICK g \in 0..GenCap : Rollback(s, g)
    BY <1>4
  <2>2. PICK id \in Rollbacks : /\ issued' = issued \cup {id}
                               /\ op' = [op EXCEPT ![s] = NewOp("load", g, 0, id)]
    BY <2>1 DEF Rollback
  <2>3. g \in Nat /\ "load" \in Pcs
    BY DurabilityAssumption DEF Pcs
  <2>4. op' \in [Sessions -> OpType]
    BY <2>2, <2>3, NewOpType, OpUpdate
  <2> QED BY <2>1, <2>2, <2>4 DEF Rollback, TypeOK, OpType, errors
<1> QED BY <1>1, <1>2, <1>3, <1>4 DEF Handlers

\* The statements keep the types of the tables.
LEMMA StatementType ==
  ASSUME TypeOK, NEW s \in Sessions
  PROVE  /\ InsertRow(s) => table' \in Tables
         /\ DeleteRows(s) => table' \in Tables
         /\ op[s].id \in Rollbacks => (InsertRecord(s) => table' \in Tables)
         /\ CommitAll => disk' \in Tables
<1>1. NewRow(s) \in Row
  BY NewRowType
<1>2. op[s].id \in Rollbacks => NewRecord(s) \in Record
  BY DEF NewRecord, Record, TypeOK
<1> QED
  BY <1>1, <1>2 DEF InsertRow, DeleteRows, InsertRecord, CommitAll, Tables,
                    TypeOK

\* A rollback has the id of its record from the start.
RollbacksHaveIds ==
  \A s \in Sessions : op[s].pc \in {"load", "audit", "commit_audit"} =>
     op[s].id \in Rollbacks

TypeInv == TypeOK /\ RollbacksHaveIds

\* Inside one operation the id stays.
LEMMA IdsKept ==
  ASSUME TypeInv, NEW s \in Sessions,
         \A x \in Sessions : x # s => op'[x] = op[x],
         op'[s].pc \in {"load", "audit", "commit_audit"} =>
            op'[s].id \in Rollbacks
  PROVE  RollbacksHaveIds'
  BY DEF TypeInv, RollbacksHaveIds

\* An operation that ends, or goes on to a label of checkpoint, needs no id.
LEMMA EndOpInv ==
  ASSUME TypeInv, NEW s \in Sessions, EndOp(s)
  PROVE  op' \in [Sessions -> OpType] /\ RollbacksHaveIds'
  BY EndOpType, IdsKept DEF TypeInv

LEMMA GotoInv ==
  ASSUME TypeInv, NEW s \in Sessions, NEW pc \in Pcs, Goto(s, pc),
         pc \in {"load", "audit", "commit_audit"} => op[s].id \in Rollbacks
  PROVE  op' \in [Sessions -> OpType] /\ RollbacksHaveIds'
  BY GotoType, IdsKept DEF TypeInv

LEMMA OpStepType ==
  ASSUME TypeInv, NEW s \in Sessions, OpStep(s)
  PROVE  TypeInv'
<1> USE DEF TypeInv
<1>1. op[s] \in OpType /\ gens[s] \in Nat \cup {-1}
  BY DEF TypeOK, OpType
<1>2. CASE Insert(s)
  <2>1. "commit" \in Pcs
    BY DEF Pcs, Committing
  <2> QED BY <1>2, <2>1, GotoInv, StatementType DEF Insert, TypeOK, OpType, errors
<1>3. CASE InsertConflicts(s) \/ SaveFails(s)
  <2>1. op[s].gen - 1 \in Nat \cup {-1}
    BY <1>1 DEF OpType
  <2>2. SaveFailed(s)
    BY <1>3 DEF InsertConflicts, SaveFails
  <2>3. /\ table' \in Tables /\ lost' \in Tables /\ faults' \in Nat
        /\ owed' \subseteq [sid : Sessions, ver : Nat]
    <3>1. CASE InsertConflicts(s)
      BY <3>1 DEF InsertConflicts, errors, TypeOK
    <3>2. CASE SaveFails(s)
      <4>1. {} \in SUBSET Row
        OBVIOUS
      <4> QED BY <3>2, <4>1, FaultType DEF SaveFails
    <3> QED BY <1>3, <3>1, <3>2
  <2> QED BY <2>1, <2>2, <2>3, EndOpInv DEF SaveFailed, TypeOK, OpType
<1>4. CASE Commit(s)
  <2>1. "list_old" \in Pcs
    BY DEF Pcs
  <2> QED BY <1>4, <2>1, GotoInv, StatementType DEF Commit, TypeOK, OpType, errors
<1>5. ASSUME Acknowledge(s) PROVE told' \in Tables
  BY <1>5, NewRowType DEF Acknowledge, Tables, TypeOK
<1>6. CASE ListOld(s) /\ Acknowledge(s)
  BY <1>5, <1>6, EndOpInv DEF Acknowledge, ListOld, TypeOK, OpType, errors
<1>7. CASE ListOld(s) /\ ~ Acknowledge(s)
  <2> DEFINE o == [op[s] EXCEPT !.pc = "delete_old", !.set = Excess(s)]
  <2>1. op' = [op EXCEPT ![s] = o] /\ UNCHANGED told
    BY <1>7 DEF ListOld
  <2>2. Excess(s) \in SUBSET Nat
    BY DEF Excess, Stored, Generations, RowsOf, TypeOK, Tables, Row
  <2>3. "delete_old" \in Pcs
    BY DEF Pcs
  <2>4. o \in OpType /\ o.pc = "delete_old"
    BY <1>1, <2>2, <2>3 DEF OpType
  <2> HIDE DEF o
  <2>5. op' \in [Sessions -> OpType] /\ RollbacksHaveIds'
    BY <2>1, <2>4, OpUpdate, IdsKept
  <2> QED BY <1>7, <2>1, <2>5 DEF ListOld, TypeOK, OpType, errors
<1>8. CASE DeleteOld(s)
  <2>1. "commit_delete" \in Pcs
    BY DEF Pcs, Committing
  <2> QED BY <1>8, <2>1, GotoInv, StatementType DEF DeleteOld, TypeOK, OpType, errors
<1>9. CASE CommitDelete(s)
  BY <1>5, <1>9, EndOpInv, StatementType
  DEF CommitDelete, Acknowledge, TypeOK, OpType, errors
<1>10. CASE PruneFails(s) \/ RollbackFails(s)
  <2>1. {} \in SUBSET Row
    OBVIOUS
  <2>2. /\ Fault({}, {}) /\ EndOp(s)
        /\ UNCHANGED <<phase, mem, issued, gens, dirty, todo, disk, told>>
    BY <1>10 DEF PruneFails, RollbackFails
  <2> QED BY <2>1, <2>2, FaultType, EndOpInv DEF TypeOK, OpType
<1>11. CASE Load(s)
  <2>1. "audit" \in Pcs /\ op[s].id \in Rollbacks
    BY <1>11 DEF Pcs, Load, At, RollbacksHaveIds
  <2>2. mem' \in [Sessions -> Nat]
    BY <1>11 DEF Load, RowsOf, TypeOK, Tables, Row
  <2> QED BY <1>11, <2>1, <2>2, GotoInv DEF Load, TypeOK, OpType, errors
<1>12. CASE LoadMissing(s)
  BY <1>12, EndOpInv DEF LoadMissing, TypeOK, OpType, errors
<1>13. CASE Audit(s)
  <2>1. "commit_audit" \in Pcs /\ op[s].id \in Rollbacks
    BY <1>13 DEF Pcs, Committing, Audit, At, RollbacksHaveIds
  <2> QED BY <1>13, <2>1, GotoInv, StatementType DEF Audit, TypeOK, OpType, errors
<1>14. CASE CommitAudit(s)
  <2>1. NewRecord(s) \in Record
    BY <1>1, <1>14 DEF CommitAudit, At, RollbacksHaveIds, NewRecord, Record, OpType
  <2>2. told' \in Tables /\ gens' \in [Sessions -> Nat \cup {-1}]
    BY <1>1, <1>14, <2>1 DEF CommitAudit, TypeOK, Tables, OpType
  <2> QED BY <1>14, <2>2, EndOpInv, StatementType DEF CommitAudit, TypeOK, OpType, errors
<1> QED
  BY <1>2, <1>3, <1>4, <1>6, <1>7, <1>8, <1>9, <1>10, <1>11, <1>12, <1>13,
     <1>14 DEF OpStep

-----------------------------------------------------------------------------
(***************************************************************************)
(* The inductive invariant                                                 *)
(***************************************************************************)

\* The rows of one session as the connection sees them and as the file has
\* them.
Visible(s) == RowsOf(s, table.rows)
Committed(s) == RowsOf(s, disk.rows)

Newer(q, r) == q.sid = r.sid /\ q.gen > r.gen

\* What became of the row r: it is there, superseded, or lost.
Held(r, rows) == r \in rows \cup lost.rows \/ \E q \in rows : Newer(q, r)

\* The generations G of one session: no hole, and a highest one.
Interval(G) == \A a, b \in G : \A g \in a..b : g \in G
Topped(G) == G = {} \/ \E top \in G : \A g \in G : g <= top

\* What holds of the tables whatever was rolled back.
Shared ==
  /\ \A s \in Sessions :
        Topped(Stored(s)) /\ Topped(Generations(s, disk.rows))
  /\ \A r \in disk.rows : r \in table.rows \/ \E q \in table.rows : Newer(q, r)
  /\ disk.log \subseteq table.log

\* What holds of the operation of s whatever was rolled back.
Task(s) ==
  /\ op[s].pc = "commit" => NewRow(s) \in table.rows \cup lost.rows
  /\ op[s].pc \in {"list_old", "delete_old", "commit_delete"} =>
        Held(NewRow(s), disk.rows)
  /\ op[s].pc \in {"list_old", "delete_old"} => Visible(s) = Committed(s)
  /\ op[s].pc = "delete_old" =>
        \E top \in Stored(s) : /\ top \notin op[s].set
                               /\ \A g \in Stored(s) : g <= top
  /\ op[s].pc = "commit_audit" => NewRecord(s) \in table.log \cup lost.log

\* The uncommitted rows T are a transaction of Ledger on top of the rows D of
\* the file.
Continues(T, D) ==
  /\ \A r \in T \ D, q \in D : r.gen > q.gen
  /\ \A r \in D \ T : /\ \E q \in T : q.gen > r.gen
                      /\ \A q \in T : q.gen > r.gen

Orderly(s) ==
  /\ Interval(Stored(s)) /\ Interval(Generations(s, disk.rows))
  /\ Continues(Visible(s), Committed(s))

\* The counter names a stored generation, or the one below the lowest.
Counter(s) ==
  \/ gens[s] \in Stored(s)
  \/ gens[s] + 1 \in Stored(s)
  \/ Stored(s) = {} /\ gens[s] = -1

\* What the operation of s knows at each of its labels if s has no hole.
OpInv(s) ==
  /\ op[s].pc \in {"idle", "load", "audit", "commit_audit"} => Counter(s)
  /\ op[s].pc = "insert" =>
        /\ gens[s] = op[s].gen
        /\ \/ op[s].gen \in Stored(s)
           \/ op[s].gen - 1 \in Stored(s)
           \/ Stored(s) = {} /\ op[s].gen = 0
  /\ op[s].pc \in {"commit", "list_old", "delete_old", "commit_delete"} =>
        /\ gens[s] = op[s].gen
        /\ NewRow(s) \in Visible(s)
        /\ \A g \in Stored(s) : g <= op[s].gen
  /\ op[s].pc = "commit" => op[s].gen - 1 \in Stored(s) \/ op[s].gen = 0
  /\ op[s].pc \in {"list_old", "delete_old", "commit_delete"} =>
        NewRow(s) \in Committed(s)
  /\ op[s].pc = "delete_old" =>
        /\ op[s].gen \notin op[s].set
        /\ \A x \in op[s].set, g \in Stored(s) : g <= x => g \in op[s].set
  /\ op[s].pc \in {"audit", "commit_audit"} => op[s].gen \in Stored(s)

Sound(s) == Orderly(s) /\ (phase # "down" => OpInv(s))

DownIsIdle ==
  phase = "down" => /\ table = disk
                    /\ \A s \in Sessions : At(s, "idle")

Inv ==
  /\ TypeInv
  /\ Shared
  /\ DownIsIdle
  /\ \A s \in Sessions : phase # "down" => Task(s)
  /\ \A s \in Sessions : Holed(s) \/ Sound(s)
  /\ AcknowledgedIsDurable

-----------------------------------------------------------------------------
(***************************************************************************)
(* What the statements do to the tables                                    *)
(***************************************************************************)

LEMMA GenerationsType ==
  ASSUME TypeOK, NEW s \in Sessions
  PROVE  Stored(s) \in SUBSET Nat /\ Generations(s, disk.rows) \in SUBSET Nat
  BY DEF TypeOK, Tables, Row, Stored, Generations, RowsOf

LEMMA StoredVisible ==
  ASSUME NEW s
  PROVE  /\ Stored(s) = {r.gen : r \in Visible(s)}
         /\ Generations(s, disk.rows) = {r.gen : r \in Committed(s)}
  BY DEF Stored, Generations, Visible, Committed

LEMMA InsertEffect ==
  ASSUME TypeOK, NEW s \in Sessions, InsertRow(s)
  PROVE  /\ table'.rows = table.rows \cup {NewRow(s)}
         /\ table'.log = table.log
         /\ Visible(s)' = Visible(s) \cup {NewRow(s)}
         /\ Stored(s)' = Stored(s) \cup {op[s].gen}
         /\ \A x \in Sessions : x # s => Visible(x)' = Visible(x)
<1>1. table'.rows = table.rows \cup {NewRow(s)} /\ table'.log = table.log
  BY DEF InsertRow, TypeOK, Tables
<1> QED
  BY <1>1, NewRowType DEF Stored, Generations, RowsOf, Visible

LEMMA DeleteEffect ==
  ASSUME TypeOK, NEW s \in Sessions, DeleteRows(s)
  PROVE  /\ table'.rows = {r \in table.rows : r.sid # s \/ r.gen \notin op[s].set}
         /\ table'.log = table.log
         /\ Visible(s)' = {r \in Visible(s) : r.gen \notin op[s].set}
         /\ Stored(s)' = Stored(s) \ op[s].set
         /\ \A x \in Sessions : x # s => Visible(x)' = Visible(x)
<1>1. /\ table'.rows = {r \in table.rows : r.sid # s \/ r.gen \notin op[s].set}
      /\ table'.log = table.log
  BY DEF DeleteRows, TypeOK, Tables
<1> QED
  BY <1>1 DEF Stored, Generations, RowsOf, Visible

LEMMA InsertRecordEffect ==
  ASSUME TypeOK, NEW s \in Sessions, InsertRecord(s)
  PROVE  table'.rows = table.rows /\ table'.log = table.log \cup {NewRecord(s)}
  BY DEF InsertRecord, TypeOK, Tables

\* Same rows for all, or the file's for all.
LEMMA FaultEffect ==
  ASSUME TypeOK, NEW own, NEW skipped, Fault(own, skipped), UNCHANGED disk
  PROVE  /\ lost.rows \subseteq lost'.rows /\ lost.log \subseteq lost'.log
         /\ skipped \subseteq lost'.rows
         /\ \/ UNCHANGED table
            \/ /\ table' = disk
               /\ (table.rows \ disk.rows) \ own \subseteq lost'.rows
               /\ table.log \ disk.log \subseteq lost'.log
  BY DEF Fault, TypeOK, Tables

\* An interval extended by the next generation.
LEMMA IntervalGrows ==
  ASSUME NEW G \in SUBSET Nat, Interval(G), NEW g \in Nat, g \notin G,
         g - 1 \in G \/ (G = {} /\ g = 0)
  PROVE  /\ \A h \in G : h < g
         /\ Interval(G \cup {g})
<1>1. \A h \in G : h < g
  <2> SUFFICES ASSUME NEW h \in G, h > g, g - 1 \in G PROVE FALSE
    OBVIOUS
  <2>1. g \in (g - 1)..h
    OBVIOUS
  <2> QED BY <2>1 DEF Interval
<1>2. Interval(G \cup {g})
  <2> SUFFICES ASSUME NEW a \in G \cup {g}, NEW b \in G \cup {g}, NEW x \in a..b
               PROVE  x \in G \cup {g}
    BY DEF Interval
  <2>1. CASE b \in G
    BY <1>1, <2>1 DEF Interval
  <2>2. CASE b = g /\ x # g
    <3>1. a \in G /\ g - 1 \in G /\ x \in a..(g - 1)
      BY <2>2
    <3> QED BY <3>1 DEF Interval
  <2> QED BY <2>1, <2>2
<1> QED BY <1>1, <1>2

\* An interval without a lower part of it.
LEMMA IntervalShrinks ==
  ASSUME NEW G \in SUBSET Nat, Interval(G), NEW low \in SUBSET Nat,
         \A x \in low, g \in G : g <= x => g \in low
  PROVE  Interval(G \ low)
<1> SUFFICES ASSUME NEW a \in G \ low, NEW b \in G \ low, NEW x \in a..b
             PROVE  x \in G \ low
  BY DEF Interval
<1>1. x \in G /\ a <= x
  BY DEF Interval
<1> QED BY <1>1

\* delete_old_snapshots lists a lower part of the generations, never the
\* highest one.
LEMMA ExcessIsLow ==
  ASSUME NEW s, NEW top \in Nat, Stored(s) \in SUBSET Nat,
         \A g \in Stored(s) : g <= top
  PROVE  /\ top \notin Excess(s)
         /\ \A x \in Excess(s), g \in Stored(s) : g <= x => g \in Excess(s)
<1> DEFINE Above(x) == {h \in Stored(s) : h > x}
<1>1. \A x \in Stored(s) : IsFiniteSet(Above(x)) /\ Cardinality(Above(x)) \in Nat
  <2>1. IsFiniteSet(0..top) /\ \A x \in Stored(s) : Above(x) \subseteq 0..top
    BY FS_Interval
  <2> HIDE DEF Above
  <2> QED BY <2>1, FS_Subset, FS_CardinalityType
<1>2. top \notin Excess(s)
  <2>1. Above(top) = {}
    OBVIOUS
  <2> QED BY <2>1, FS_EmptySet, DurabilityAssumption DEF Excess
<1>3. ASSUME NEW x \in Excess(s), NEW g \in Stored(s), g <= x
      PROVE  g \in Excess(s)
  <2>1. x \in Stored(s) /\ Cardinality(Above(x)) >= Depth
    BY DEF Excess
  <2>2. Above(x) \subseteq Above(g)
    BY <1>3, <2>1
  <2> HIDE DEF Above
  <2>3. Cardinality(Above(x)) <= Cardinality(Above(g))
    BY <1>1, <2>1, <2>2, FS_Subset
  <2>4. Cardinality(Above(g)) >= Depth
    BY <1>1, <2>1, <2>3, DurabilityAssumption
  <2> QED BY <2>4 DEF Excess, Above
<1> QED BY <1>2, <1>3

-----------------------------------------------------------------------------
(***************************************************************************)
(* The tables, whatever was rolled back                                    *)
(***************************************************************************)

LEMMA SharedSame ==
  ASSUME Shared, table'.rows = table.rows, table.log \subseteq table'.log,
         disk' \in {disk, table}
  PROVE  Shared'
  BY DEF Shared, Stored, Generations, RowsOf

LEMMA SharedFault ==
  ASSUME TypeOK, Shared, NEW own, NEW skipped, Fault(own, skipped), UNCHANGED disk
  PROVE  Shared'
<1>1. UNCHANGED table \/ table' = disk
  BY FaultEffect
<1>2. CASE UNCHANGED table
  BY <1>2, SharedSame
<1>3. CASE table' = disk
  BY <1>3 DEF Shared, Stored
<1> QED BY <1>1, <1>2, <1>3

LEMMA SharedInsert ==
  ASSUME TypeOK, Shared, NEW s \in Sessions, InsertRow(s), UNCHANGED disk
  PROVE  Shared'
<1>1. ASSUME NEW x \in Sessions PROVE Topped(Stored(x)')
  <2>1. CASE x = s
    <3>1. /\ Stored(s)' = Stored(s) \cup {op[s].gen} /\ op[s].gen \in Nat
          /\ Stored(s) \in SUBSET Nat
      BY InsertEffect, GenerationsType DEF TypeOK
    <3>2. Topped(Stored(s))
      BY DEF Shared
    <3>3. CASE \E top \in Stored(s) :
                  top >= op[s].gen /\ \A g \in Stored(s) : g <= top
      BY <2>1, <3>1, <3>3 DEF Topped
    <3>4. CASE \A g \in Stored(s) : g <= op[s].gen
      BY <2>1, <3>1, <3>4 DEF Topped
    <3> QED BY <3>1, <3>2, <3>3, <3>4 DEF Topped
  <2>2. CASE x # s
    BY <2>2, InsertEffect, StoredVisible DEF Shared, Stored, Generations, Visible
  <2> QED BY <2>1, <2>2
<1> QED BY <1>1, InsertEffect DEF Shared

LEMMA SharedDelete ==
  ASSUME TypeOK, Shared, NEW s \in Sessions, DeleteRows(s), UNCHANGED disk,
         Task(s), At(s, "delete_old")
  PROVE  Shared'
<1>1. PICK top \in Stored(s) : /\ top \notin op[s].set
                               /\ \A g \in Stored(s) : g <= top
  BY DEF Task, At
<1>2. PICK m \in table.rows : m.sid = s /\ m.gen = top
  BY DEF Stored, Generations, RowsOf
<1>3. m \in table'.rows
  BY <1>1, <1>2, DeleteEffect
<1>4. /\ \A q \in table.rows \cup disk.rows : q.gen \in Nat
      /\ op[s].set \in SUBSET Nat
  BY DEF TypeOK, Tables, Row
<1>5. ASSUME NEW q \in table.rows, q \notin table'.rows PROVE Newer(m, q)
  <2>1. q.sid = s /\ q.gen \in op[s].set
    BY <1>5, DeleteEffect
  <2>2. q.gen \in Stored(s)
    BY <2>1 DEF Stored, Generations, RowsOf
  <2> QED BY <1>1, <1>2, <1>4, <2>1, <2>2 DEF Newer
<1>6. ASSUME NEW r \in disk.rows
      PROVE  r \in table'.rows \/ \E q \in table'.rows : Newer(q, r)
  <2>1. CASE r \in table.rows
    BY <1>3, <1>5, <2>1
  <2>2. CASE r \notin table.rows
    <3>1. PICK q \in table.rows : Newer(q, r)
      BY <2>2 DEF Shared
    <3>2. q \in table'.rows \/ Newer(m, r)
      BY <1>4, <1>5, <3>1, <1>2 DEF Newer
    <3> QED BY <1>3, <3>1, <3>2
  <2> QED BY <2>1, <2>2
<1>7. ASSUME NEW x \in Sessions PROVE Topped(Stored(x)')
  <2>1. CASE x = s
    BY <1>1, <2>1, DeleteEffect DEF Topped
  <2>2. CASE x # s
    BY <2>2, DeleteEffect DEF Shared, Stored, Generations, Visible
  <2> QED BY <2>1, <2>2
<1> QED BY <1>6, <1>7, DeleteEffect DEF Shared

\* A commit and an error keep what became of a row.
LEMMA HeldKept ==
  ASSUME TypeOK, Shared, disk' \in {disk, table}, lost.rows \subseteq lost'.rows,
         NEW r, r.gen \in Nat, Held(r, disk.rows)
  PROVE  r \in disk'.rows \cup lost'.rows \/ \E q \in disk'.rows : Newer(q, r)
<1>1. CASE disk' = disk
  BY <1>1 DEF Held
<1>2. CASE disk' = table
  <2>1. \A q \in table.rows \cup disk.rows : q.gen \in Nat
    BY DEF TypeOK, Tables, Row
  <2>2. CASE r \in disk.rows \cup lost.rows
    BY <1>2, <2>2 DEF Shared
  <2>3. CASE \E q \in disk.rows : Newer(q, r)
    <3>1. PICK q \in disk.rows : Newer(q, r)
      BY <2>3
    <3>2. q \in table.rows \/ \E m \in table.rows : Newer(m, q)
      BY DEF Shared
    <3> QED BY <1>2, <2>1, <3>1, <3>2 DEF Newer
  <2> QED BY <2>2, <2>3 DEF Held
<1> QED BY <1>1, <1>2

\* What was told is held.
LEMMA ToldHeld ==
  ASSUME AcknowledgedIsDurable
  PROVE  /\ \A r \in told.rows : Held(r, disk.rows)
         /\ told.log \subseteq disk.log \cup lost.log
  BY DEF AcknowledgedIsDurable, Held, LedgerOf!Newer, Newer

LEMMA AckKept ==
  ASSUME Inv, disk' \in {disk, table}, lost.rows \subseteq lost'.rows,
         lost.log \subseteq lost'.log
  PROVE  /\ \A r \in told.rows :
               r \in disk'.rows \cup lost'.rows \/ \E q \in disk'.rows : Newer(q, r)
         /\ told.log \subseteq disk'.log \cup lost'.log
<1>1. \A r \in told.rows : r.gen \in Nat /\ Held(r, disk.rows)
  BY ToldHeld DEF Inv, TypeInv, TypeOK, Tables, Row
<1>2. told.log \subseteq disk.log \cup lost.log /\ disk.log \subseteq disk'.log
  BY ToldHeld DEF Inv, Shared
<1> QED BY <1>1, <1>2, HeldKept DEF Inv, TypeInv

LEMMA AcknowledgedKept ==
  ASSUME Inv, disk' \in {disk, table}, lost.rows \subseteq lost'.rows,
         lost.log \subseteq lost'.log, UNCHANGED told
  PROVE  AcknowledgedIsDurable'
  BY AckKept DEF AcknowledgedIsDurable, LedgerOf!Newer, Newer

-----------------------------------------------------------------------------
(***************************************************************************)
(* A step of one session                                                   *)
(***************************************************************************)

\* What a step leaves of the tables of a session that it writes nothing of.
LEMMA OrderlyKept ==
  ASSUME NEW x \in Sessions, Orderly(x), Visible(x)' = Visible(x),
         disk' \in {disk, table}
  PROVE  Orderly(x)' /\ Stored(x)' = Stored(x)
<1>1. Committed(x)' \in {Committed(x), Visible(x)}
  BY DEF Committed, Visible
<1>2. /\ Stored(x)' = Stored(x)
      /\ Generations(x, disk.rows)' \in {Generations(x, disk.rows), Stored(x)}
  BY <1>1, StoredVisible DEF Stored, Generations, Visible, Committed
<1> QED BY <1>1, <1>2 DEF Orderly, Continues

\* The operations of the other sessions see nothing of a step of s, but for
\* their own statements becoming durable.
LEMMA Frame ==
  ASSUME Inv, phase # "down", NEW x \in Sessions, op'[x] = op[x],
         gens'[x] = gens[x], Visible(x)' = Visible(x),
         table.log \subseteq table'.log, disk' \in {disk, table}, UNCHANGED lost
  PROVE  Task(x)' /\ (Holed(x)' \/ Sound(x)')
<1>1. TypeOK /\ Shared /\ Task(x) /\ (Holed(x) \/ Sound(x))
  BY DEF Inv, TypeInv
<1>2. NewRow(x)' = NewRow(x) /\ NewRecord(x)' = NewRecord(x)
  BY DEF NewRow, NewRecord
<1>3. /\ NewRow(x) \in Row /\ NewRow(x).sid = x /\ NewRow(x).gen \in Nat
  BY <1>1, NewRowType DEF Row
<1>4. Committed(x)' \in {Committed(x), Visible(x)}
  BY DEF Committed, Visible
<1>5. Stored(x)' = Stored(x)
  BY StoredVisible DEF Stored, Generations, Visible
<1>6. Task(x)'
  <2>1. NewRow(x) \in table.rows => NewRow(x) \in table'.rows
    BY <1>3 DEF Visible, RowsOf
  <2>2. Held(NewRow(x), disk.rows) => Held(NewRow(x), disk.rows)'
    BY <1>1, <1>2, <1>3, HeldKept DEF Held, Newer
  <2> QED BY <1>1, <1>2, <1>4, <1>5, <2>1, <2>2 DEF Task
<1>7. CASE Sound(x)
  <2>1. Orderly(x)'
    BY <1>7, OrderlyKept DEF Sound
  <2>2. OpInv(x)'
    BY <1>2, <1>4, <1>5, <1>7 DEF Sound, OpInv, Counter
  <2> QED BY <1>6, <2>1, <2>2 DEF Sound
<1> QED BY <1>1, <1>6, <1>7 DEF Holed

\* What an error leaves of the tables of a session: all, or the rows of the
\* file, where nothing uncommitted was taken from it but own.
LEMMA OrderlyFault ==
  ASSUME TypeOK, NEW x \in Sessions, Orderly(x), NEW own, NEW skipped,
         Fault(own, skipped), UNCHANGED disk
  PROVE  /\ Orderly(x)'
         /\ \/ Visible(x)' = Visible(x)
            \/ /\ Visible(x)' = Committed(x)
               /\ Holed(x)' \/ Visible(x) \ own \subseteq Committed(x)
<1>1. CASE UNCHANGED table
  BY <1>1, OrderlyKept DEF Visible
<1>2. CASE /\ table' = disk
           /\ (table.rows \ disk.rows) \ own \subseteq lost'.rows
  <2>1. Visible(x)' = Committed(x) /\ Committed(x)' = Committed(x)
    BY <1>2 DEF Visible, Committed
  <2>2. Holed(x)' \/ Visible(x) \ own \subseteq Committed(x)
    BY <1>2 DEF Holed, Visible, Committed, RowsOf
  <2>3. /\ Stored(x)' = Generations(x, disk.rows)
        /\ Generations(x, disk.rows)' = Generations(x, disk.rows)
    BY <1>2 DEF Stored, Generations
  <2>4. Orderly(x)'
    BY <2>1, <2>3 DEF Orderly, Continues
  <2> QED BY <2>1, <2>2, <2>4
<1> QED BY <1>1, <1>2, FaultEffect

\* Rows that come back were below all that the connection saw.
LEMMA ComeBack ==
  ASSUME TypeOK, NEW x \in Sessions, Orderly(x), Visible(x) \subseteq Committed(x),
         Visible(x)' = Committed(x)
  PROVE  /\ Stored(x) \subseteq Stored(x)'
         /\ Stored(x) = {} => Stored(x)' = {}
         /\ \A g \in Stored(x)' : \E h \in Stored(x) : g <= h
<1>1. \A r \in Committed(x) \ Visible(x) : \E q \in Visible(x) : q.gen > r.gen
  BY DEF Orderly, Continues
<1>2. /\ Stored(x) = {r.gen : r \in Visible(x)}
      /\ Stored(x)' = {r.gen : r \in Committed(x)}
  BY StoredVisible DEF Stored, Generations, Visible
<1>3. Stored(x) \subseteq Nat /\ \A r \in Committed(x) : r.gen \in Nat
  BY GenerationsType DEF Committed, RowsOf, TypeOK, Tables, Row
<1>4. ASSUME NEW g \in Stored(x)' PROVE \E h \in Stored(x) : g <= h
  <2>1. PICK r \in Committed(x) : r.gen = g
    BY <1>2
  <2>2. CASE r \in Visible(x)
    <3>1. g \in Stored(x) /\ g <= g
      BY <1>2, <1>3, <2>1, <2>2
    <3> QED BY <3>1
  <2>3. CASE r \notin Visible(x)
    <3>1. PICK q \in Visible(x) : q.gen > r.gen
      BY <1>1, <2>3
    <3>2. q.gen \in Stored(x) /\ g <= q.gen
      BY <1>2, <1>3, <2>1, <3>1
    <3> QED BY <3>2
  <2> QED BY <2>2, <2>3
<1>5. Stored(x) \subseteq Stored(x)'
  BY <1>2
<1>6. Stored(x) = {} => Stored(x)' = {}
  BY <1>4
<1> QED BY <1>4, <1>5, <1>6

LEMMA FrameFault ==
  ASSUME Inv, phase # "down", NEW x \in Sessions, op'[x] = op[x],
         gens'[x] = gens[x], NEW own, \A r \in own : r.sid # x, NEW skipped,
         Fault(own, skipped), UNCHANGED disk
  PROVE  Task(x)' /\ (Holed(x)' \/ Sound(x)')
<1>1. TypeOK /\ Shared /\ Task(x) /\ (Holed(x) \/ Sound(x))
  BY DEF Inv, TypeInv
<1>2. NewRow(x)' = NewRow(x) /\ NewRecord(x)' = NewRecord(x)
  BY DEF NewRow, NewRecord
<1>3. NewRow(x).sid = x /\ NewRow(x).gen = op[x].gen /\ op[x].gen \in Nat
  BY <1>1, NewRowType DEF TypeOK
<1>4. /\ lost.rows \subseteq lost'.rows /\ lost.log \subseteq lost'.log
      /\ \/ UNCHANGED table
         \/ /\ table' = disk
            /\ (table.rows \ disk.rows) \ own \subseteq lost'.rows
            /\ table.log \ disk.log \subseteq lost'.log
  BY <1>1, FaultEffect
<1>5. Committed(x)' = Committed(x)
  BY DEF Committed
<1>6. /\ op[x].pc \in {"list_old", "delete_old"} => Visible(x)' = Visible(x)
      /\ Visible(x)' = Visible(x) => Stored(x)' = Stored(x)
  BY <1>1, <1>4, StoredVisible DEF Task, Visible, Committed, Stored, Generations
<1>7. Task(x)'
  <2>1. NewRow(x) \in table.rows \cup lost.rows
           => NewRow(x) \in table'.rows \cup lost'.rows
    BY <1>3, <1>4
  <2>2. NewRecord(x) \in table.log \cup lost.log
           => NewRecord(x) \in table'.log \cup lost'.log
    BY <1>4
  <2>3. Held(NewRow(x), disk.rows) => Held(NewRow(x), disk.rows)'
    BY <1>2, <1>4 DEF Held, Newer
  <2>4. op[x].pc \in {"list_old", "delete_old"} =>
           Visible(x)' = Visible(x) /\ Stored(x)' = Stored(x)
    BY <1>6
  <2> QED BY <1>1, <1>2, <1>5, <2>1, <2>2, <2>3, <2>4 DEF Task
<1>8. ASSUME Sound(x), ~ Holed(x)' PROVE Sound(x)'
  <2>1. /\ Orderly(x)'
        /\ \/ Visible(x)' = Visible(x)
           \/ Visible(x)' = Committed(x) /\ Visible(x) \ own \subseteq Committed(x)
    BY <1>1, <1>8, OrderlyFault DEF Sound
  <2>2. OpInv(x)
    BY <1>8 DEF Sound
  <2>3. CASE Visible(x)' = Visible(x)
    <3>1. Stored(x)' = Stored(x)
      BY <1>6, <2>3
    <3>2. OpInv(x)'
      BY <1>2, <1>5, <2>2, <2>3, <3>1 DEF OpInv, Counter
    <3> QED BY <2>1, <3>2 DEF Sound
  <2>4. CASE /\ Visible(x)' = Committed(x) /\ Visible(x)' # Visible(x)
             /\ Visible(x) \ own \subseteq Committed(x)
    <3>1. Visible(x) \subseteq Committed(x)
      BY <2>4 DEF Visible, RowsOf
    <3>2. /\ Stored(x) \subseteq Stored(x)'
          /\ Stored(x) = {} => Stored(x)' = {}
          /\ \A g \in Stored(x)' : \E h \in Stored(x) : g <= h
      BY <1>1, <1>8, <2>4, <3>1, ComeBack DEF Sound
    <3>3. Counter(x) => Counter(x)'
      BY <3>2 DEF Counter
    <3>4. op[x].pc \notin {"list_old", "delete_old"}
      BY <1>6, <2>4
    <3>5. Stored(x) \subseteq Nat /\ Stored(x)' \subseteq Nat
      <4>1. Stored(x)' = Generations(x, disk.rows)
        BY <2>4, StoredVisible DEF Stored, Generations, Visible, Committed
      <4> QED BY <1>1, <4>1, GenerationsType
    <3>6. (\A g \in Stored(x) : g <= op[x].gen)
             => \A g \in Stored(x)' : g <= op[x].gen
      BY <1>3, <3>2, <3>5
    <3>7. NewRow(x) \in Visible(x) => NewRow(x) \in Visible(x)'
      BY <2>4, <3>1
    <3>8. OpInv(x)'
      BY <1>2, <1>5, <2>2, <3>2, <3>3, <3>4, <3>6, <3>7 DEF OpInv
    <3> QED BY <2>1, <3>8 DEF Sound
  <2> QED BY <2>1, <2>3, <2>4
<1>9. Holed(x) => Holed(x)'
  BY <1>4 DEF Holed
<1> QED BY <1>1, <1>7, <1>8, <1>9

\* What is left to show of a step of s.
LEMMA StepInv ==
  ASSUME Inv, NEW s \in Sessions, phase # "down", phase' # "down",
         \A x \in Sessions : x # s =>
            /\ op'[x] = op[x] /\ gens'[x] = gens[x]
            /\ Visible(x)' = Visible(x),
         table.log \subseteq table'.log, disk' \in {disk, table}, UNCHANGED lost,
         TypeInv', Shared', Task(s)', Holed(s) \/ Sound(s)',
         AcknowledgedIsDurable'
  PROVE  Inv'
<1>1. \A x \in Sessions : Task(x)' /\ (Holed(x)' \/ Sound(x)')
  BY Frame DEF Holed
<1> QED BY <1>1 DEF Inv, DownIsIdle

\* An operation that has ended knows nothing and owes the counter only.
LEMMA EndedInv ==
  ASSUME TypeOK, NEW s \in Sessions, EndOp(s)
  PROVE  /\ Task(s)'
         /\ Orderly(s)' /\ Counter(s)' => Sound(s)'
  BY EndOpType DEF Task, OpInv, Sound

\* Between two operations, in a session without a hole.
LEMMA CounterHolds ==
  ASSUME TypeOK, NEW s \in Sessions, OpInv(s), op[s].pc # "insert"
  PROVE  Counter(s)
<1>1. op[s].pc \in Pcs
  BY DEF TypeOK
<1>2. NewRow(s) \in Visible(s) => op[s].gen \in Stored(s)
  BY NewRowType, StoredVisible
<1> QED BY <1>1, <1>2 DEF OpInv, Counter, Pcs, Committing

\* A step of s that ends its operation without an error of the database.
LEMMA EndStep ==
  ASSUME Inv, NEW s \in Sessions, ~ At(s, "idle"), TypeInv', EndOp(s),
         UNCHANGED <<phase, table, lost>>, disk' \in {disk, table},
         \A x \in Sessions : x # s => gens'[x] = gens[x],
         Sound(s) => Counter(s)', AcknowledgedIsDurable'
  PROVE  Inv'
<1>1. phase # "down" /\ TypeOK /\ Shared /\ (Holed(s) \/ Sound(s))
  BY DEF Inv, DownIsIdle, TypeInv
<1>2. \A x \in Sessions : Visible(x)' = Visible(x)
  BY DEF Visible
<1>3. Sound(s) => Orderly(s)'
  BY <1>2, OrderlyKept DEF Sound
<1>4. Task(s)' /\ (Holed(s) \/ Sound(s)')
  BY <1>1, <1>3, EndedInv
<1>5. Shared'
  BY <1>1, SharedSame
<1>6. \A x \in Sessions : x # s => op'[x] = op[x]
  BY <1>1, EndOpType
<1> QED BY <1>1, <1>2, <1>4, <1>5, <1>6, StepInv

\* A step of s that ends its operation with an error of the database.
LEMMA FaultStep ==
  ASSUME Inv, NEW s \in Sessions, ~ At(s, "idle"), TypeInv', EndOp(s),
         UNCHANGED <<phase, disk, told>>,
         NEW own, own \subseteq {NewRow(s)}, NEW skipped, Fault(own, skipped),
         \A x \in Sessions : x # s => gens'[x] = gens[x],
         Sound(s) /\ ~ Holed(s)' => Counter(s)'
  PROVE  Inv'
<1>1. phase # "down" /\ TypeOK /\ Shared /\ (Holed(s) \/ Sound(s))
  BY DEF Inv, DownIsIdle, TypeInv
<1>2. \A x \in Sessions : x # s => op'[x] = op[x]
  BY <1>1, EndOpType
<1>3. NewRow(s).sid = s
  BY <1>1, NewRowType
<1>4. \A x \in Sessions : x # s => Task(x)' /\ (Holed(x)' \/ Sound(x)')
  BY <1>1, <1>2, <1>3, FrameFault
<1>5. lost.rows \subseteq lost'.rows /\ lost.log \subseteq lost'.log
  BY <1>1, FaultEffect
<1>6. Sound(s) => Orderly(s)'
  BY <1>1, OrderlyFault DEF Sound
<1>7. Task(s)' /\ (Holed(s)' \/ Sound(s)')
  BY <1>1, <1>5, <1>6, EndedInv DEF Holed
<1>8. Shared' /\ AcknowledgedIsDurable'
  BY <1>1, <1>5, SharedFault, AcknowledgedKept
<1> QED BY <1>1, <1>4, <1>7, <1>8 DEF Inv, DownIsIdle

\* The counter of a session whose statements were undone, but which lost none
\* but own.
LEMMA CounterFault ==
  ASSUME TypeOK, NEW s \in Sessions, Orderly(s), NEW skipped,
         Fault({}, skipped), UNCHANGED disk, ~ Holed(s)', NEW c,
         c \in Stored(s) \/ c + 1 \in Stored(s) \/ (Stored(s) = {} /\ c = -1)
  PROVE  c \in Stored(s)' \/ c + 1 \in Stored(s)' \/ (Stored(s)' = {} /\ c = -1)
<1>1. \/ Visible(s)' = Visible(s)
      \/ Visible(s)' = Committed(s) /\ Visible(s) \subseteq Committed(s)
  BY OrderlyFault
<1>2. CASE Visible(s)' = Visible(s)
  <2>1. Stored(s)' = Stored(s)
    BY <1>2, StoredVisible DEF Stored, Generations, Visible
  <2> QED BY <2>1
<1>3. CASE Visible(s)' = Committed(s) /\ Visible(s) \subseteq Committed(s)
  BY <1>3, ComeBack
<1> QED BY <1>1, <1>2, <1>3

\* The INSERT of a checkpoint.
LEMMA InsertKeeps ==
  ASSUME TypeOK, Shared, NEW s \in Sessions, Sound(s), phase # "down",
         At(s, "insert"), op[s].gen \notin Stored(s), InsertRow(s), UNCHANGED disk
  PROVE  /\ Orderly(s)'
         /\ \A g \in Stored(s)' : g <= op[s].gen
         /\ NewRow(s) \in Visible(s)' /\ op[s].gen \in Stored(s)'
         /\ op[s].gen - 1 \in Stored(s)' \/ op[s].gen = 0
<1>1. /\ Orderly(s) /\ op[s].gen \in Nat /\ Stored(s) \in SUBSET Nat
      /\ op[s].gen - 1 \in Stored(s) \/ (Stored(s) = {} /\ op[s].gen = 0)
  BY GenerationsType DEF Sound, OpInv, At, TypeOK
<1>2. /\ \A h \in Stored(s) : h < op[s].gen
      /\ Interval(Stored(s) \cup {op[s].gen})
  BY <1>1, IntervalGrows DEF Orderly
<1>3. /\ Visible(s)' = Visible(s) \cup {NewRow(s)} /\ Committed(s)' = Committed(s)
      /\ Stored(s)' = Stored(s) \cup {op[s].gen}
  BY InsertEffect DEF Committed
<1>4. NewRow(s).gen = op[s].gen
  BY NewRowType
<1>5. \A q \in Visible(s) : q.gen < op[s].gen
  BY <1>2, StoredVisible
<1>6. \A q \in Visible(s) \cup Committed(s) : q.gen \in Nat
  BY DEF TypeOK, Tables, Row, Visible, Committed, RowsOf
<1>7. \A q \in Committed(s) : q \notin Visible(s) => q.gen < op[s].gen
  <2> SUFFICES ASSUME NEW q \in Committed(s), q \notin Visible(s)
               PROVE  q.gen < op[s].gen
    OBVIOUS
  <2>1. PICK n \in Visible(s) : n.gen > q.gen
    BY <1>1 DEF Orderly, Continues
  <2> QED BY <1>1, <1>5, <1>6, <2>1
<1>8. Continues(Visible(s) \cup {NewRow(s)}, Committed(s))
  <2>1. \A q \in Committed(s) : q.gen < op[s].gen
    BY <1>5, <1>7
  <2> QED BY <1>1, <1>4, <2>1 DEF Orderly, Continues
<1>9. Orderly(s)'
  <2>1. Generations(s, disk.rows)' = Generations(s, disk.rows)
    BY DEF Generations, RowsOf
  <2> QED BY <1>1, <1>2, <1>3, <1>8, <2>1 DEF Orderly
<1> QED BY <1>1, <1>2, <1>3, <1>9

\* The DELETE of a prune.
LEMMA DeleteKeeps ==
  ASSUME TypeOK, NEW s \in Sessions, Sound(s), phase # "down",
         At(s, "delete_old"), DeleteRows(s), UNCHANGED disk
  PROVE  /\ Orderly(s)'
         /\ \A g \in Stored(s)' : g <= op[s].gen
         /\ NewRow(s) \in Visible(s)' /\ op[s].gen \in Stored(s)'
<1>1. /\ Orderly(s) /\ OpInv(s) /\ op[s].gen \in Nat /\ op[s].set \in SUBSET Nat
      /\ Stored(s) \in SUBSET Nat
  BY GenerationsType DEF Sound, TypeOK
<1>2. /\ NewRow(s) \in Visible(s)
      /\ \A g \in Stored(s) : g <= op[s].gen
      /\ op[s].gen \notin op[s].set
      /\ \A x \in op[s].set, g \in Stored(s) : g <= x => g \in op[s].set
  BY <1>1 DEF OpInv, At
<1>3. NewRow(s).gen = op[s].gen
  BY NewRowType
<1>4. op[s].gen \in Stored(s)
  BY <1>2, <1>3, StoredVisible
<1>5. Interval(Stored(s) \ op[s].set)
  BY <1>1, <1>2, IntervalShrinks DEF Orderly
<1>6. /\ Visible(s)' = {r \in Visible(s) : r.gen \notin op[s].set}
      /\ Committed(s)' = Committed(s)
      /\ Stored(s)' = Stored(s) \ op[s].set
  BY DeleteEffect DEF Committed
<1>7. NewRow(s) \in Visible(s)'
  BY <1>2, <1>3, <1>6
<1>8. /\ \A q \in Visible(s) \cup Committed(s) : q.gen \in Nat
      /\ \A q \in Visible(s) : q.gen \in Stored(s)
  BY StoredVisible DEF TypeOK, Tables, Row, Visible, Committed, RowsOf
<1> DEFINE T == {r \in Visible(s) : r.gen \notin op[s].set}
<1>9. \A r \in T \ Committed(s), q \in Committed(s) : r.gen > q.gen
  BY <1>1 DEF Orderly, Continues
<1>10. ASSUME NEW r \in Committed(s), r \notin T
       PROVE  (\E q \in T : q.gen > r.gen) /\ (\A q \in T : q.gen > r.gen)
  <2>1. CASE r \in Visible(s)
    <3>1. r.gen \in op[s].set /\ r.gen \in Stored(s)
      BY <1>8, <1>10, <2>1
    <3>2. \A q \in T : q.gen > r.gen
      BY <1>2, <1>8, <3>1
    <3> QED BY <1>6, <1>7, <3>2
  <2>2. CASE r \notin Visible(s)
    <3>1. \A q \in T : q.gen > r.gen
      BY <1>1, <2>2 DEF Orderly, Continues
    <3> QED BY <1>6, <1>7, <3>1
  <2> QED BY <2>1, <2>2
<1>11. Continues(T, Committed(s))
  BY <1>9, <1>10 DEF Continues
<1>12. Orderly(s)'
  <2>1. Generations(s, disk.rows)' = Generations(s, disk.rows)
    BY DEF Generations, RowsOf
  <2> QED BY <1>1, <1>5, <1>6, <1>11, <2>1 DEF Orderly
<1> QED BY <1>1, <1>2, <1>4, <1>6, <1>7, <1>12

\* The row of a failed commit is taken back, and with it the step of the
\* counter.
LEMMA SaveUndone ==
  ASSUME TypeOK, NEW s \in Sessions, Sound(s), phase # "down",
         At(s, "commit"), Fault({NewRow(s)}, {}), UNCHANGED disk,
         ~ Holed(s)', gens'[s] = op[s].gen - 1
  PROVE  Counter(s)'
<1>1. /\ Orderly(s) /\ op[s].gen \in Nat /\ Stored(s) \in SUBSET Nat
      /\ NewRow(s) \in Visible(s) /\ NewRow(s).gen = op[s].gen
      /\ \A g \in Stored(s) : g <= op[s].gen
      /\ op[s].gen - 1 \in Stored(s) \/ op[s].gen = 0
  BY GenerationsType, NewRowType DEF Sound, OpInv, At, TypeOK
<1>2. /\ Stored(s) = {r.gen : r \in Visible(s)}
      /\ Stored(s)' = {r.gen : r \in Visible(s)'}
      /\ gens'[s] + 1 = op[s].gen
  BY <1>1, StoredVisible DEF Stored, Generations, Visible
<1>3. \/ Visible(s)' = Visible(s)
      \/ /\ Visible(s)' = Committed(s)
         /\ Visible(s) \ {NewRow(s)} \subseteq Committed(s)
  BY <1>1, OrderlyFault
<1>4. CASE NewRow(s) \in Visible(s)'
  BY <1>1, <1>2, <1>4 DEF Counter
<1>5. CASE /\ Visible(s)' = Committed(s) /\ NewRow(s) \notin Committed(s)
           /\ Visible(s) \ {NewRow(s)} \subseteq Committed(s)
  <2>1. \A q \in Committed(s) : q.gen < op[s].gen /\ q.gen \in Nat
    <3>1. \A q \in Committed(s) : op[s].gen > q.gen /\ q.gen \in Nat
      BY <1>1, <1>5
      DEF Orderly, Continues, Committed, RowsOf, TypeOK, Tables, Row
    <3> QED BY <1>1, <3>1
  <2>2. CASE op[s].gen - 1 \in Stored(s)
    <3>1. PICK r \in Visible(s) : r.gen = op[s].gen - 1
      BY <1>2, <2>2
    <3>2. r \in Committed(s)
      BY <1>1, <1>5, <3>1
    <3>3. op[s].gen - 1 \in Stored(s)'
      BY <1>2, <1>5, <3>1, <3>2
    <3> QED BY <3>3 DEF Counter
  <2>3. CASE op[s].gen = 0
    <3>1. Committed(s) = {}
      BY <2>1, <2>3
    <3> QED BY <1>2, <1>5, <2>3, <3>1 DEF Counter
  <2> QED BY <1>1, <2>2, <2>3
<1> QED BY <1>1, <1>3, <1>4, <1>5

LEMMA SavingInv ==
  ASSUME Inv, NEW s \in Sessions,
         Insert(s) \/ InsertConflicts(s) \/ SaveFails(s) \/ Commit(s), TypeInv'
  PROVE  Inv'
<1> USE DEF At
<1>1. /\ TypeOK /\ TypeInv /\ Shared /\ op[s].pc \in {"insert", "commit"}
      /\ phase' = phase /\ op[s].gen \in Nat /\ gens \in [Sessions -> Nat \cup {-1}]
  BY DEF Inv, TypeInv, TypeOK, Insert, InsertConflicts, SaveFails, SaveFailed,
         Commit
<1>2. /\ phase # "down" /\ phase' # "down" /\ Task(s) /\ (Holed(s) \/ Sound(s))
      /\ Sound(s) => OpInv(s) /\ Orderly(s)
  BY <1>1 DEF Inv, DownIsIdle, Sound
<1>3. CASE Insert(s)
  <2>1. /\ op[s].pc = "insert" /\ op[s].gen \notin Stored(s) /\ InsertRow(s)
        /\ Goto(s, "commit") /\ UNCHANGED <<gens, disk, lost, told>>
    BY <1>3 DEF Insert, errors
  <2>2. "commit" \in Pcs
    BY DEF Pcs, Committing
  <2>3. /\ op'[s].pc = "commit" /\ op'[s].gen = op[s].gen /\ op'[s].ver = op[s].ver
        /\ \A x \in Sessions : x # s => op'[x] = op[x]
    BY <1>1, <2>1, <2>2, GotoType
  <2>4. NewRow(s)' = NewRow(s)
    BY <2>3 DEF NewRow
  <2>5. /\ table'.rows = table.rows \cup {NewRow(s)} /\ table'.log = table.log
        /\ \A x \in Sessions : x # s => Visible(x)' = Visible(x)
    BY <1>1, <2>1, InsertEffect
  <2>6. Task(s)'
    BY <2>3, <2>4, <2>5 DEF Task
  <2>7. Sound(s) => Sound(s)'
    <3> SUFFICES ASSUME Sound(s) PROVE Sound(s)'
      OBVIOUS
    <3>1. /\ Orderly(s)'
          /\ \A g \in Stored(s)' : g <= op[s].gen
          /\ NewRow(s) \in Visible(s)' /\ op[s].gen \in Stored(s)'
          /\ op[s].gen - 1 \in Stored(s)' \/ op[s].gen = 0
      BY <1>1, <1>2, <2>1, InsertKeeps
    <3>2. OpInv(s)'
      BY <1>2, <2>1, <2>3, <2>4, <3>1 DEF OpInv
    <3> QED BY <3>1, <3>2 DEF Sound
  <2>8. Shared' /\ AcknowledgedIsDurable'
    BY <1>1, <2>1, SharedInsert, AcknowledgedKept
  <2> QED BY <1>2, <2>1, <2>3, <2>5, <2>6, <2>7, <2>8, StepInv
<1>4. ASSUME SaveFailed(s) PROVE gens'[s] = op[s].gen - 1
  BY <1>1, <1>4 DEF SaveFailed
<1>5. CASE InsertConflicts(s)
  <2>1. /\ SaveFailed(s) /\ EndOp(s) /\ op[s].pc = "insert"
        /\ UNCHANGED <<table, disk, lost, told, phase>>
        /\ op[s].gen \in Stored(s)
        /\ \A x \in Sessions : x # s => gens'[x] = gens[x]
    BY <1>1, <1>5 DEF InsertConflicts, SaveFailed, errors
  <2>2. Counter(s)'
    BY <1>1, <1>4, <2>1 DEF Counter, Stored
  <2>3. AcknowledgedIsDurable'
    BY <2>1, AcknowledgedKept
  <2> QED BY <2>1, <2>2, <2>3, EndStep
<1>6. CASE SaveFails(s)
  <2>1. /\ SaveFailed(s) /\ EndOp(s) /\ UNCHANGED <<phase, disk, told>>
        /\ gens'[s] = op[s].gen - 1
        /\ \A x \in Sessions : x # s => gens'[x] = gens[x]
    BY <1>1, <1>4, <1>6 DEF SaveFails, SaveFailed
  <2>2. CASE At(s, "insert") /\ Fault({}, {})
    <3>1. Sound(s) /\ ~ Holed(s)' => Counter(s)'
      <4> SUFFICES ASSUME Sound(s), ~ Holed(s)' PROVE Counter(s)'
        OBVIOUS
      <4> DEFINE c == op[s].gen - 1
      <4>1. /\ c + 1 = op[s].gen
            /\ c \in Stored(s) \/ c + 1 \in Stored(s) \/ (Stored(s) = {} /\ c = -1)
        BY <1>1, <1>2, <2>2 DEF OpInv
      <4> HIDE DEF c
      <4>2. c \in Stored(s)' \/ c + 1 \in Stored(s)' \/ (Stored(s)' = {} /\ c = -1)
        BY <1>1, <1>2, <2>1, <2>2, <4>1, CounterFault
      <4> QED BY <2>1, <4>2 DEF Counter, c
    <3> QED BY <1>1, <2>1, <2>2, <3>1, FaultStep
  <2>3. CASE At(s, "commit") /\ Fault({NewRow(s)}, {})
    <3>1. Sound(s) /\ ~ Holed(s)' => Counter(s)'
      BY <1>1, <1>2, <2>1, <2>3, SaveUndone
    <3> QED BY <1>1, <2>1, <2>3, <3>1, FaultStep
  <2> QED BY <1>6, <2>2, <2>3 DEF SaveFails
<1>7. CASE Commit(s)
  <2>1. /\ op[s].pc = "commit" /\ disk' = table /\ Goto(s, "list_old")
        /\ UNCHANGED <<gens, table, lost, told>>
    BY <1>7 DEF Commit, CommitAll, errors
  <2>2. "list_old" \in Pcs
    BY DEF Pcs
  <2>3. /\ op'[s].pc = "list_old" /\ op'[s].gen = op[s].gen /\ op'[s].ver = op[s].ver
        /\ \A x \in Sessions : x # s => op'[x] = op[x]
    BY <1>1, <2>1, <2>2, GotoType
  <2>4. NewRow(s)' = NewRow(s)
    BY <2>3 DEF NewRow
  <2>5. /\ \A x \in Sessions : Visible(x)' = Visible(x)
        /\ Committed(s)' = Visible(s) /\ Stored(s)' = Stored(s)
    BY <2>1 DEF Visible, Committed, Stored
  <2>6. Task(s)'
    BY <1>2, <2>1, <2>3, <2>4, <2>5 DEF Task, Held
  <2>7. Sound(s) => Sound(s)'
    <3> SUFFICES ASSUME Sound(s) PROVE Sound(s)'
      OBVIOUS
    <3>1. Orderly(s)'
      BY <1>2, <2>1, <2>5, OrderlyKept
    <3>2. OpInv(s)'
      BY <1>2, <2>1, <2>3, <2>4, <2>5 DEF OpInv
    <3> QED BY <3>1, <3>2 DEF Sound
  <2>8. Shared' /\ AcknowledgedIsDurable'
    BY <1>1, <2>1, SharedSame, AcknowledgedKept
  <2> QED BY <1>2, <2>1, <2>3, <2>5, <2>6, <2>7, <2>8, StepInv
<1> QED BY <1>3, <1>5, <1>6, <1>7

\* checkpoint returns: its row is in the file, superseded or lost.
LEMMA AckSaved ==
  ASSUME Inv, NEW s \in Sessions, Acknowledge(s), UNCHANGED lost,
         disk' \in {disk, table}, Held(NewRow(s), disk.rows)
  PROVE  AcknowledgedIsDurable'
<1>1. TypeOK /\ Shared
  BY DEF Inv, TypeInv
<1>2. told'.rows = told.rows \cup {NewRow(s)} /\ told'.log = told.log
  BY <1>1 DEF Acknowledge, TypeOK, Tables
<1>3. NewRow(s).gen \in Nat
  BY <1>1, NewRowType DEF Row
<1>4. /\ \A r \in told.rows \cup {NewRow(s)} :
            r \in disk'.rows \cup lost'.rows \/ \E q \in disk'.rows : Newer(q, r)
      /\ told.log \subseteq disk'.log \cup lost'.log
  BY <1>1, <1>3, AckKept, HeldKept
<1> QED BY <1>2, <1>4 DEF AcknowledgedIsDurable, LedgerOf!Newer, Newer

LEMMA PruningInv ==
  ASSUME Inv, NEW s \in Sessions,
         ListOld(s) \/ DeleteOld(s) \/ CommitDelete(s) \/ PruneFails(s), TypeInv'
  PROVE  Inv'
<1> USE DEF At
<1>1. /\ TypeOK /\ TypeInv /\ Shared /\ phase' = phase /\ op[s].gen \in Nat
      /\ op[s].pc \in {"list_old", "delete_old", "commit_delete"}
      /\ gens \in [Sessions -> Nat \cup {-1}] /\ gens' = gens /\ op[s] \in OpType
      /\ Stored(s) \in SUBSET Nat
  BY GenerationsType
  DEF Inv, TypeInv, TypeOK, OpType, ListOld, DeleteOld, CommitDelete, PruneFails
<1>2. /\ phase # "down" /\ phase' # "down" /\ Task(s) /\ (Holed(s) \/ Sound(s))
      /\ Sound(s) => OpInv(s) /\ Orderly(s)
      /\ Held(NewRow(s), disk.rows)
  BY <1>1 DEF Inv, DownIsIdle, Sound, Task
<1>3. Sound(s) => Counter(s)
  BY <1>1, <1>2, CounterHolds
<1>4. CASE ListOld(s) /\ Acknowledge(s)
  <2>1. /\ EndOp(s) /\ UNCHANGED <<phase, table, disk, lost>>
    BY <1>4 DEF ListOld, Acknowledge, errors
  <2>2. Sound(s) => Counter(s)'
    BY <1>1, <1>3, <2>1 DEF Counter, Stored
  <2> QED BY <1>1, <1>2, <1>4, <2>1, <2>2, AckSaved, EndStep
<1>5. CASE ListOld(s) /\ ~ Acknowledge(s)
  <2> DEFINE o == [op[s] EXCEPT !.pc = "delete_old", !.set = Excess(s)]
  <2>1. /\ op[s].pc = "list_old" /\ op' = [op EXCEPT ![s] = o]
        /\ UNCHANGED <<table, disk, lost, told>> /\ Excess(s) # {}
    BY <1>5 DEF ListOld, errors
  <2>2. /\ o \in OpType /\ o.pc = "delete_old" /\ o.set = Excess(s)
        /\ o.gen = op[s].gen /\ o.ver = op[s].ver
    <3>1. "delete_old" \in Pcs /\ Excess(s) \in SUBSET Nat
      BY <1>1 DEF Pcs, Excess
    <3> QED BY <1>1, <3>1 DEF OpType
  <2> HIDE DEF o
  <2>3. op'[s] = o /\ \A x \in Sessions : x # s => op'[x] = op[x]
    BY <1>1, <2>1, <2>2, OpUpdate
  <2>4. NewRow(s)' = NewRow(s)
    BY <2>2, <2>3 DEF NewRow
  <2>5. /\ \A x \in Sessions : Visible(x)' = Visible(x)
        /\ Committed(s)' = Committed(s) /\ Stored(s)' = Stored(s)
    BY <2>1 DEF Visible, Committed, Stored
  <2>6. \E top \in Stored(s) : top \notin Excess(s) /\ \A g \in Stored(s) : g <= top
    <3>1. Stored(s) # {}
      BY <2>1 DEF Excess
    <3>2. PICK top \in Stored(s) : \A g \in Stored(s) : g <= top
      BY <1>1, <3>1 DEF Shared, Topped
    <3> QED BY <1>1, <3>2, ExcessIsLow
  <2>7. Task(s)'
    <3>1. Held(NewRow(s), disk.rows)'
      BY <1>2, <2>1, <2>4 DEF Held, Newer
    <3> QED BY <1>2, <2>1, <2>2, <2>3, <2>5, <2>6, <3>1 DEF Task
  <2>8. Sound(s) => Sound(s)'
    <3> SUFFICES ASSUME Sound(s) PROVE Sound(s)'
      OBVIOUS
    <3>1. Orderly(s)'
      BY <1>2, <2>1, <2>5, OrderlyKept
    <3>2. /\ op[s].gen \notin Excess(s)
          /\ \A x \in Excess(s), g \in Stored(s) : g <= x => g \in Excess(s)
      <4>1. \A g \in Stored(s) : g <= op[s].gen
        BY <1>2, <2>1 DEF OpInv
      <4> QED BY <1>1, <4>1, ExcessIsLow
    <3>3. OpInv(s)'
      BY <1>1, <1>2, <2>1, <2>2, <2>3, <2>4, <2>5, <3>2 DEF OpInv
    <3> QED BY <3>1, <3>3 DEF Sound
  <2>9. Shared' /\ AcknowledgedIsDurable'
    BY <1>1, <2>1, SharedSame, AcknowledgedKept
  <2> QED BY <1>1, <1>2, <2>1, <2>3, <2>5, <2>7, <2>8, <2>9, StepInv
<1>6. CASE DeleteOld(s)
  <2>1. /\ op[s].pc = "delete_old" /\ DeleteRows(s) /\ Goto(s, "commit_delete")
        /\ UNCHANGED <<disk, lost, told>>
    BY <1>6 DEF DeleteOld, errors
  <2>2. "commit_delete" \in Pcs
    BY DEF Pcs, Committing
  <2>3. /\ op'[s].pc = "commit_delete" /\ op'[s].gen = op[s].gen
        /\ op'[s].ver = op[s].ver
        /\ \A x \in Sessions : x # s => op'[x] = op[x]
    BY <1>1, <2>1, <2>2, GotoType
  <2>4. NewRow(s)' = NewRow(s)
    BY <2>3 DEF NewRow
  <2>5. /\ table'.log = table.log /\ Committed(s)' = Committed(s)
        /\ \A x \in Sessions : x # s => Visible(x)' = Visible(x)
    BY <1>1, <2>1, DeleteEffect DEF Committed
  <2>6. Task(s)'
    <3>1. Held(NewRow(s), disk.rows)'
      BY <1>2, <2>1, <2>4 DEF Held, Newer
    <3> QED BY <2>3, <3>1 DEF Task
  <2>7. Sound(s) => Sound(s)'
    <3> SUFFICES ASSUME Sound(s) PROVE Sound(s)'
      OBVIOUS
    <3>1. /\ Orderly(s)'
          /\ \A g \in Stored(s)' : g <= op[s].gen
          /\ NewRow(s) \in Visible(s)' /\ op[s].gen \in Stored(s)'
      BY <1>1, <1>2, <2>1, DeleteKeeps
    <3>2. OpInv(s)'
      BY <1>1, <1>2, <2>1, <2>3, <2>4, <2>5, <3>1 DEF OpInv
    <3> QED BY <3>1, <3>2 DEF Sound
  <2>8. Shared' /\ AcknowledgedIsDurable'
    BY <1>1, <1>2, <2>1, SharedDelete, AcknowledgedKept
  <2> QED BY <1>1, <1>2, <2>1, <2>3, <2>5, <2>6, <2>7, <2>8, StepInv
<1>7. CASE CommitDelete(s)
  <2>1. /\ EndOp(s) /\ UNCHANGED <<phase, table, lost>>
        /\ disk' = table /\ Acknowledge(s)
    BY <1>7 DEF CommitDelete, Acknowledge, CommitAll, errors
  <2>2. Sound(s) => Counter(s)'
    BY <1>1, <1>3, <2>1 DEF Counter, Stored
  <2> QED BY <1>1, <1>2, <2>1, <2>2, AckSaved, EndStep
<1>8. CASE PruneFails(s)
  <2>1. /\ Fault({}, {}) /\ EndOp(s) /\ UNCHANGED <<phase, disk, told>>
    BY <1>8 DEF PruneFails
  <2>2. Sound(s) /\ ~ Holed(s)' => Counter(s)'
    BY <1>1, <1>2, <1>3, <2>1, CounterFault DEF Counter
  <2> QED BY <1>1, <2>1, <2>2, FaultStep
<1> QED BY <1>4, <1>5, <1>6, <1>7, <1>8

LEMMA RollingBackInv ==
  ASSUME Inv, NEW s \in Sessions,
         \/ Load(s) \/ LoadMissing(s) \/ Audit(s) \/ CommitAudit(s)
         \/ RollbackFails(s),
         TypeInv'
  PROVE  Inv'
<1> USE DEF At
<1>1. /\ TypeOK /\ TypeInv /\ Shared /\ phase' = phase /\ op[s].gen \in Nat
      /\ op[s].pc \in {"load", "audit", "commit_audit"}
      /\ gens \in [Sessions -> Nat \cup {-1}]
  BY DEF Inv, TypeInv, TypeOK, Load, LoadMissing, Audit, CommitAudit,
         RollbackFails
<1>2. /\ phase # "down" /\ phase' # "down" /\ Task(s) /\ (Holed(s) \/ Sound(s))
      /\ Sound(s) => OpInv(s) /\ Orderly(s)
  BY <1>1 DEF Inv, DownIsIdle, Sound
<1>3. Sound(s) => Counter(s)
  BY <1>1, <1>2, CounterHolds
<1>4. CASE Load(s)
  <2>1. /\ op[s].pc = "load" /\ op[s].gen \in Stored(s) /\ Goto(s, "audit")
        /\ UNCHANGED <<gens, table, disk, lost, told>>
    BY <1>4 DEF Load, Stored, Generations, errors
  <2>2. "audit" \in Pcs
    BY DEF Pcs
  <2>3. /\ op'[s].pc = "audit" /\ op'[s].gen = op[s].gen
        /\ \A x \in Sessions : x # s => op'[x] = op[x]
    BY <1>1, <2>1, <2>2, GotoType
  <2>4. /\ \A x \in Sessions : Visible(x)' = Visible(x)
        /\ Stored(s)' = Stored(s)
    BY <2>1 DEF Visible, Stored
  <2>5. Sound(s) => Sound(s)'
    BY <1>2, <1>3, <2>1, <2>3, <2>4, OrderlyKept DEF Sound, OpInv, Counter
  <2>6. Shared' /\ AcknowledgedIsDurable' /\ Task(s)'
    BY <1>1, <2>1, <2>3, SharedSame, AcknowledgedKept DEF Task
  <2> QED BY <1>2, <2>1, <2>3, <2>4, <2>5, <2>6, StepInv
<1>5. CASE LoadMissing(s)
  <2>1. /\ EndOp(s) /\ UNCHANGED <<phase, gens, table, disk, lost, told>>
    BY <1>5 DEF LoadMissing, errors
  <2>2. Sound(s) => Counter(s)'
    BY <1>3, <2>1 DEF Counter, Stored
  <2> QED BY <1>1, <2>1, <2>2, AcknowledgedKept, EndStep
<1>6. CASE Audit(s)
  <2>1. /\ op[s].pc = "audit" /\ InsertRecord(s) /\ Goto(s, "commit_audit")
        /\ UNCHANGED <<gens, disk, lost, told>>
    BY <1>6 DEF Audit, errors
  <2>2. "commit_audit" \in Pcs
    BY DEF Pcs, Committing
  <2>3. /\ op'[s].pc = "commit_audit" /\ op'[s].gen = op[s].gen
        /\ op'[s].id = op[s].id
        /\ \A x \in Sessions : x # s => op'[x] = op[x]
    BY <1>1, <2>1, <2>2, GotoType
  <2>4. NewRecord(s)' = NewRecord(s)
    BY <2>1, <2>3 DEF NewRecord
  <2>5. /\ table'.rows = table.rows /\ table'.log = table.log \cup {NewRecord(s)}
    BY <1>1, <2>1, InsertRecordEffect
  <2>6. /\ \A x \in Sessions : Visible(x)' = Visible(x)
        /\ Stored(s)' = Stored(s)
    BY <2>5 DEF Visible, Stored
  <2>7. Sound(s) => Sound(s)'
    BY <1>2, <1>3, <2>1, <2>3, <2>6, OrderlyKept DEF Sound, OpInv, Counter
  <2>8. Shared' /\ AcknowledgedIsDurable'
    BY <1>1, <2>1, <2>5, SharedSame, AcknowledgedKept
  <2>9. Task(s)'
    BY <2>3, <2>4, <2>5 DEF Task
  <2> QED BY <1>2, <2>1, <2>3, <2>5, <2>6, <2>7, <2>8, <2>9, StepInv
<1>7. CASE CommitAudit(s)
  <2>1. /\ op[s].pc = "commit_audit" /\ EndOp(s) /\ UNCHANGED <<phase, table, lost>>
        /\ disk' = table /\ gens' = [gens EXCEPT ![s] = op[s].gen]
        /\ told' = [told EXCEPT !.log = @ \cup {NewRecord(s)}]
    BY <1>7 DEF CommitAudit, CommitAll, errors
  <2>2. NewRecord(s) \in disk'.log \cup lost'.log
    BY <1>2, <2>1 DEF Task
  <2>3. told'.rows = told.rows /\ told'.log = told.log \cup {NewRecord(s)}
    BY <1>1, <2>1 DEF TypeOK, Tables
  <2>4. AcknowledgedIsDurable'
    BY <2>1, <2>2, <2>3, AckKept DEF AcknowledgedIsDurable, LedgerOf!Newer, Newer
  <2>5. /\ Sound(s) => Counter(s)'
        /\ \A x \in Sessions : x # s => gens'[x] = gens[x]
    BY <1>1, <1>2, <2>1 DEF OpInv, Counter, Stored
  <2> QED BY <1>1, <2>1, <2>4, <2>5, EndStep
<1>8. CASE RollbackFails(s)
  <2>1. /\ Fault({}, {}) /\ EndOp(s) /\ UNCHANGED <<phase, gens, disk, told>>
    BY <1>8 DEF RollbackFails
  <2>2. Sound(s) /\ ~ Holed(s)' => Counter(s)'
    BY <1>1, <1>2, <1>3, <2>1, CounterFault DEF Counter
  <2> QED BY <1>1, <2>1, <2>2, FaultStep
<1> QED BY <1>4, <1>5, <1>6, <1>7, <1>8

LEMMA OpStepInv ==
  ASSUME Inv, NEW s \in Sessions, OpStep(s)
  PROVE  Inv'
<1>1. TypeInv'
  BY OpStepType DEF Inv
<1> QED BY <1>1, SavingInv, PruningInv, RollingBackInv DEF OpStep


-----------------------------------------------------------------------------
(***************************************************************************)
(* Handlers, and the process                                               *)
(***************************************************************************)

\* A step beside the operations: of a handler, or a commit of everything.
LEMMA Aside ==
  ASSUME Inv, phase # "down", phase' # "down", TypeInv',
         UNCHANGED <<op, gens, table, lost, told>>, disk' \in {disk, table}
  PROVE  Inv'
<1>1. \A x \in Sessions : Task(x)' /\ (Holed(x)' \/ Sound(x)')
  <2> SUFFICES ASSUME NEW x \in Sessions
               PROVE  Task(x)' /\ (Holed(x)' \/ Sound(x)')
    OBVIOUS
  <2>1. Visible(x)' = Visible(x)
    BY DEF Visible
  <2> QED BY <2>1, Frame
<1>2. Shared' /\ AcknowledgedIsDurable'
  BY SharedSame, AcknowledgedKept DEF Inv
<1> QED BY <1>1, <1>2 DEF Inv, DownIsIdle

\* A step of s that leaves the tables alone and begins an operation.
LEMMA BeginStep ==
  ASSUME Inv, NEW s \in Sessions, phase # "down", phase' = phase, TypeInv',
         \A x \in Sessions : x # s => op'[x] = op[x] /\ gens'[x] = gens[x],
         UNCHANGED <<table, disk, lost, told>>, op'[s].pc \in {"insert", "load"},
         Sound(s) => OpInv(s)'
  PROVE  Inv'
<1>1. \A x \in Sessions : Visible(x)' = Visible(x)
  BY DEF Visible
<1>2. Sound(s) => Orderly(s)'
  BY <1>1, OrderlyKept DEF Sound
<1>3. Task(s)' /\ (Holed(s) \/ Sound(s)')
  BY <1>2 DEF Inv, Task, Sound
<1>4. Shared' /\ AcknowledgedIsDurable'
  BY SharedSame, AcknowledgedKept DEF Inv
<1> QED BY <1>1, <1>3, <1>4, StepInv

\* checkpoint takes the next generation under the lock.
LEMMA StartSaveInv ==
  ASSUME Inv, NEW s \in Sessions, phase # "down", phase' = phase, At(s, "idle"),
         StartSave(s), TypeOK', UNCHANGED <<table, disk, lost, told>>
  PROVE  Inv'
<1>1. /\ TypeOK /\ TypeInv
      /\ gens[s] \in Nat \cup {-1} /\ mem[s] \in Nat
  BY DEF Inv, TypeInv, TypeOK
<1>2. gens[s] + 1 \in Nat /\ "insert" \in Pcs
  BY <1>1 DEF Pcs
<1>3. /\ op'[s].pc = "insert" /\ op'[s].gen = gens[s] + 1
      /\ \A x \in Sessions : x # s => op'[x] = op[x]
  BY <1>1, <1>2, StartOp DEF StartSave
<1>4. /\ gens'[s] = gens[s] + 1
      /\ \A x \in Sessions : x # s => gens'[x] = gens[x]
  BY <1>1 DEF StartSave, TypeOK
<1>5. Sound(s) => Counter(s)
  BY DEF Sound, OpInv, At
<1>6. Stored(s)' = Stored(s)
  BY DEF Stored
<1>7. Sound(s) => OpInv(s)'
  <2>1. (gens[s] + 1) - 1 = gens[s] /\ (gens[s] = -1 => gens[s] + 1 = 0)
    BY <1>1
  <2> QED BY <1>3, <1>4, <1>5, <1>6, <2>1 DEF OpInv, Counter
<1>8. TypeInv'
  BY <1>1, <1>3, IdsKept DEF TypeInv
<1> QED BY <1>3, <1>4, <1>7, <1>8, BeginStep

LEMMA HandlersInv ==
  ASSUME Inv, NEW s \in Sessions, Handlers(s)
  PROVE  Inv'
<1>1. TypeOK /\ TypeOK' /\ TypeInv
  BY HandlersType DEF Inv, TypeInv
<1>2. phase = "up" /\ phase' = "up" /\ UNCHANGED <<table, disk, lost, told>>
  BY DEF Handlers, Create, ToolCall, Checkpoint, Rollback, errors
<1>3. CASE Create(s) \/ ToolCall(s)
  <2>1. UNCHANGED <<op, gens>>
    BY <1>3 DEF Create, ToolCall
  <2>2. TypeInv'
    BY <1>1, <2>1 DEF TypeInv, RollbacksHaveIds
  <2> QED BY <1>2, <2>1, <2>2, Aside
<1>4. CASE Checkpoint(s)
  BY <1>1, <1>2, <1>4, StartSaveInv DEF Checkpoint
<1>5. ASSUME NEW g \in 0..GenCap, Rollback(s, g) PROVE Inv'
  <2>1. PICK id \in Rollbacks : op' = [op EXCEPT ![s] = NewOp("load", g, 0, id)]
    BY <1>5 DEF Rollback
  <2>2. UNCHANGED gens /\ At(s, "idle")
    BY <1>5 DEF Rollback
  <2>3. g \in Nat /\ "load" \in Pcs
    BY DurabilityAssumption DEF Pcs
  <2>4. /\ op'[s].pc = "load" /\ op'[s].id \in Rollbacks
        /\ \A x \in Sessions : x # s => op'[x] = op[x]
    BY <1>1, <2>1, <2>3, StartOp
  <2>5. TypeInv'
    BY <1>1, <2>4, IdsKept DEF TypeInv
  <2>6. Sound(s) => OpInv(s)'
    BY <1>2, <2>2, <2>4 DEF Sound, OpInv, At, Counter, Stored
  <2> QED BY <1>2, <2>2, <2>4, <2>5, <2>6, BeginStep
<1> QED BY <1>3, <1>4, <1>5 DEF Handlers

\* A cancelled operation has the generation it took, whatever became of its
\* statement.
LEMMA CancelledInv ==
  ASSUME Inv, NEW s \in Sessions, Cancelled(s)
  PROVE  Inv'
<1> USE DEF At
<1>1. /\ TypeOK /\ TypeInv /\ Shared
      /\ op[s] \in OpType /\ op[s].pc # "idle" /\ EndOp(s)
      /\ phase = "stopping" /\ UNCHANGED <<phase, mem, issued, gens, told>>
      /\ UNCHANGED <<dirty, todo, faults, lost, owed>>
  BY DEF Inv, TypeInv, TypeOK, OpType, Cancelled, errors
<1>2. /\ phase # "down" /\ phase' # "down" /\ Task(s) /\ (Holed(s) \/ Sound(s))
      /\ Sound(s) => OpInv(s) /\ Orderly(s)
  BY <1>1 DEF Inv, Sound
<1>3. op' \in [Sessions -> OpType] /\ RollbacksHaveIds'
  BY <1>1, EndOpInv
<1>4. \A x \in Sessions : x # s => op'[x] = op[x] /\ gens'[x] = gens[x]
  BY <1>1, EndOpType
<1>5. Task(s)' /\ (Orderly(s)' /\ Counter(s)' => Sound(s)')
  BY <1>1, EndedInv
<1>6. CASE At(s, "insert") /\ op[s].gen \notin Stored(s) /\ InsertRow(s) /\ UNCHANGED disk
  <2>1. TypeInv'
    BY <1>1, <1>3, <1>6, StatementType DEF TypeInv, TypeOK, OpType
  <2>2. ASSUME Sound(s) PROVE Orderly(s)' /\ Counter(s)'
    <3>1. Orderly(s)' /\ op[s].gen \in Stored(s)'
      BY <1>1, <1>2, <1>6, <2>2, InsertKeeps
    <3>2. gens'[s] = op[s].gen
      BY <1>1, <1>2, <1>6, <2>2 DEF OpInv
    <3> QED BY <3>1, <3>2 DEF Counter
  <2>3. Shared' /\ AcknowledgedIsDurable'
    BY <1>1, <1>6, SharedInsert, AcknowledgedKept
  <2>4. /\ table.log \subseteq table'.log
        /\ \A x \in Sessions : x # s => Visible(x)' = Visible(x)
    BY <1>1, <1>6, InsertEffect
  <2> QED
    BY <1>1, <1>2, <1>4, <1>5, <1>6, <2>1, <2>2, <2>3, <2>4, StepInv
<1>7. CASE At(s, "delete_old") /\ DeleteRows(s) /\ UNCHANGED disk
  <2>1. TypeInv'
    BY <1>1, <1>3, <1>7, StatementType DEF TypeInv, TypeOK, OpType
  <2>2. ASSUME Sound(s) PROVE Orderly(s)' /\ Counter(s)'
    <3>1. Orderly(s)' /\ op[s].gen \in Stored(s)'
      BY <1>1, <1>2, <1>7, <2>2, DeleteKeeps
    <3>2. gens'[s] = op[s].gen
      BY <1>1, <1>2, <1>7, <2>2 DEF OpInv
    <3> QED BY <3>1, <3>2 DEF Counter
  <2>3. Shared' /\ AcknowledgedIsDurable'
    BY <1>1, <1>2, <1>7, SharedDelete, AcknowledgedKept
  <2>4. /\ table.log \subseteq table'.log
        /\ \A x \in Sessions : x # s => Visible(x)' = Visible(x)
    BY <1>1, <1>7, DeleteEffect
  <2> QED
    BY <1>1, <1>2, <1>4, <1>5, <1>7, <2>1, <2>2, <2>3, <2>4, StepInv
<1>8. CASE At(s, "audit") /\ InsertRecord(s) /\ UNCHANGED disk
  <2>1. TypeInv'
    BY <1>1, <1>3, <1>8, StatementType
    DEF TypeInv, TypeOK, OpType, RollbacksHaveIds
  <2>2. table'.rows = table.rows /\ table.log \subseteq table'.log
    BY <1>1, <1>8, InsertRecordEffect
  <2>3. \A x \in Sessions : Visible(x)' = Visible(x)
    BY <2>2 DEF Visible
  <2>4. Sound(s) => Orderly(s)' /\ Counter(s)'
    BY <1>1, <1>2, <1>8, <2>2, <2>3, OrderlyKept DEF OpInv, Counter, Stored
  <2>5. Shared' /\ AcknowledgedIsDurable'
    BY <1>1, <1>8, <2>2, SharedSame, AcknowledgedKept
  <2> QED
    BY <1>1, <1>2, <1>4, <1>5, <1>8, <2>1, <2>2, <2>3, <2>4, <2>5, StepInv
<1>9. CASE UNCHANGED table /\ disk' \in {disk, table}
           /\ (op[s].pc = "insert" => op[s].gen \in Stored(s))
  <2>1. TypeInv'
    BY <1>1, <1>3, <1>9 DEF TypeInv, TypeOK, OpType
  <2>2. Sound(s) => Counter(s)
    BY <1>1, <1>2, <1>9, CounterHolds DEF OpInv, Counter
  <2>3. Sound(s) => Counter(s)'
    BY <1>1, <1>9, <2>2 DEF Counter, Stored
  <2> QED BY <1>1, <1>4, <1>9, <2>1, <2>3, AcknowledgedKept, EndStep
<1> QED
  BY <1>6, <1>7, <1>8, <1>9 DEF Cancelled, CommitAll, Committing

\* Nobody is told that a cancelled operation's statement has failed: if it
\* was the INSERT, the session has a hole.
LEMMA CancelledFailsInv ==
  ASSUME Inv, NEW s \in Sessions, CancelledFails(s)
  PROVE  Inv'
<1> DEFINE skipped == IF At(s, "insert") THEN {NewRow(s)} ELSE {}
<1>1. /\ TypeOK /\ TypeInv /\ ~ At(s, "idle") /\ EndOp(s) /\ phase # "down"
      /\ UNCHANGED <<phase, mem, issued, gens, dirty, todo, disk, told>>
      /\ Fault({}, skipped)
      /\ Sound(s) => OpInv(s) /\ Orderly(s)
  BY DEF Inv, TypeInv, CancelledFails, Sound
<1>2. skipped \in SUBSET Row /\ (At(s, "insert") => NewRow(s) \in skipped)
  BY <1>1, NewRowType
<1> HIDE DEF skipped
<1>3. TypeInv'
  BY <1>1, <1>2, FaultType, EndOpInv DEF TypeInv, TypeOK, OpType
<1>4. At(s, "insert") => Holed(s)'
  BY <1>1, <1>2, FaultEffect, NewRowType DEF Holed
<1>5. Sound(s) /\ ~ Holed(s)' => Counter(s)'
  <2> SUFFICES ASSUME Sound(s), ~ Holed(s)' PROVE Counter(s)'
    OBVIOUS
  <2>1. Counter(s)
    BY <1>1, <1>4, CounterHolds DEF At
  <2> QED BY <1>1, <2>1, CounterFault DEF Counter
<1> QED BY <1>1, <1>3, <1>5, FaultStep

\* An error of the purge is nobody's.
LEMMA PurgeFailsInv ==
  ASSUME Inv, PurgeFails
  PROVE  Inv'
<1>1. /\ TypeOK /\ TypeInv /\ Shared /\ phase # "down" /\ Fault({}, {})
      /\ UNCHANGED <<phase, mem, gens, dirty, todo, op, issued, disk, told>>
  BY DEF Inv, TypeInv, PurgeFails, volatile
<1>2. TypeInv'
  BY <1>1, FaultType DEF TypeInv, TypeOK, RollbacksHaveIds
<1>3. \A x \in Sessions : Task(x)' /\ (Holed(x)' \/ Sound(x)')
  BY <1>1, FrameFault
<1>4. Shared' /\ AcknowledgedIsDurable'
  BY <1>1, SharedFault, FaultEffect, AcknowledgedKept
<1> QED BY <1>1, <1>2, <1>3, <1>4 DEF Inv, DownIsIdle

\* Restored finds the highest generation of a session that has rows.
LEMMA RestoredIsCounter ==
  ASSUME TypeOK, Shared, NEW s \in Sessions
  PROVE  \/ Restored(s) \in Generations(s, disk.rows)
         \/ Generations(s, disk.rows) = {} /\ Restored(s) = -1
<1> DEFINE G == Generations(s, disk.rows)
<1>1. G \in SUBSET Nat /\ Topped(G)
  BY GenerationsType DEF Shared
<1> HIDE DEF G
<1>2. CASE G # {}
  <2>1. \E g \in G : \A h \in G : g >= h
    BY <1>1, <1>2 DEF Topped
  <2>2. Restored(s) = CHOOSE g \in G : \A h \in G : g >= h
    BY <1>2 DEF Restored, G
  <2>3. Restored(s) \in G
    BY <2>1, <2>2
  <2> QED BY <2>3 DEF G
<1> QED BY <1>2 DEF Restored, G

LEMMA StartInv == Inv /\ Start => Inv'
<1> SUFFICES ASSUME Inv, Start PROVE Inv'
  OBVIOUS
<1>1. /\ TypeOK /\ TypeInv /\ table = disk /\ Shared /\ phase = "down"
      /\ \A s \in Sessions : op[s].pc = "idle"
      /\ \A s \in Sessions : Holed(s) \/ Sound(s)
  BY DEF Inv, TypeInv, DownIsIdle, Start, At
<1>2. /\ UNCHANGED <<op, table, disk, told, mem, dirty, todo, issued, faults, lost>>
      /\ phase' = "up" /\ owed' = {}
      /\ gens' = [s \in Sessions |-> Restored(s)]
  BY DEF Start, errors
<1>3. \A s \in Sessions : Generations(s, disk.rows) \in SUBSET Nat
  BY <1>1, GenerationsType
<1>4. gens' \in [Sessions -> Nat \cup {-1}]
  BY <1>1, <1>2, <1>3, RestoredIsCounter
<1>5. TypeInv'
  BY <1>1, <1>2, <1>4 DEF TypeInv, TypeOK, RollbacksHaveIds
<1>6. ASSUME NEW s \in Sessions PROVE Task(s)' /\ (Holed(s)' \/ Sound(s)')
  <2>1. Stored(s)' = Generations(s, disk.rows) /\ gens'[s] = Restored(s)
    BY <1>1, <1>2 DEF Stored
  <2>2. Counter(s)'
    BY <1>1, <2>1, RestoredIsCounter DEF Counter
  <2>3. OpInv(s)' /\ Task(s)'
    BY <1>1, <1>2, <2>2 DEF OpInv, Task
  <2>4. Visible(s)' = Visible(s)
    BY <1>2 DEF Visible
  <2>5. Sound(s) => Orderly(s)'
    BY <1>2, <2>4, OrderlyKept DEF Sound
  <2>6. Holed(s) => Holed(s)'
    BY <1>2 DEF Holed
  <2> QED BY <1>1, <2>3, <2>5, <2>6 DEF Sound
<1>7. Shared' /\ AcknowledgedIsDurable'
  BY <1>1, <1>2, SharedSame, AcknowledgedKept
<1> QED BY <1>2, <1>5, <1>6, <1>7 DEF Inv, DownIsIdle

\* The file alone is a state of Inv.
LEMMA ProcessEndsInv ==
  ASSUME Inv, ProcessEnds, owed' \subseteq [sid : Sessions, ver : Nat]
  PROVE  Inv'
<1>1. TypeOK /\ Shared
  BY DEF Inv, TypeInv
<1>2. /\ op' = [s \in Sessions |-> Idle] /\ table' = disk /\ disk' = disk
      /\ phase' = "down" /\ UNCHANGED <<lost, told>>
  BY DEF ProcessEnds, errors
<1>3. op' \in [Sessions -> OpType] /\ \A s \in Sessions : op'[s].pc = "idle"
  BY <1>2, IdleType
<1>4. TypeInv'
  BY <1>1, <1>2, <1>3
  DEF ProcessEnds, TypeInv, TypeOK, OpType, RollbacksHaveIds, errors
<1>5. AcknowledgedIsDurable'
  BY <1>2, AcknowledgedKept
<1>6. Shared'
  BY <1>1, <1>2 DEF Shared, Stored
<1>7. ASSUME NEW s \in Sessions PROVE Holed(s)' \/ Sound(s)'
  <2>1. Sound(s) => Orderly(s)'
    BY <1>2 DEF Sound, Orderly, Stored, Continues, Visible, Committed
  <2> QED BY <1>2, <2>1 DEF Inv, Sound, Holed
<1> QED
  BY <1>2, <1>3, <1>4, <1>5, <1>6, <1>7 DEF Inv, DownIsIdle, At

LEMMA InitInv == Init => Inv
<1> SUFFICES ASSUME Init PROVE Inv
  OBVIOUS
<1>1. \A s \in Sessions : op[s].pc = "idle"
  BY IdleType DEF Init
<1>2. /\ table = NoTables /\ disk = NoTables /\ told = NoTables /\ lost = NoTables
      /\ phase = "down"
  BY DEF Init
<1>3. Shared /\ \A s \in Sessions : Orderly(s)
  BY <1>2 DEF Shared, Orderly, Continues, Visible, Committed, Stored, Generations,
              RowsOf, Interval, Topped, NoTables
<1> QED
  BY <1>1, <1>2, <1>3, InitType
  DEF Inv, TypeInv, RollbacksHaveIds, NoTables, Sound, DownIsIdle, At,
      AcknowledgedIsDurable

LEMMA NextInv == Inv /\ [Next]_vars => Inv'
<1> SUFFICES ASSUME Inv, [Next]_vars PROVE Inv'
  OBVIOUS
<1>0. TypeOK /\ TypeInv
  BY DEF Inv, TypeInv
<1>1. CASE \E s \in Sessions : Handlers(s) \/ OpStep(s)
  BY <1>1, HandlersInv, OpStepInv
<1>2. CASE Purge \/ Stop
  <2>1. /\ phase # "down" /\ phase' # "down" /\ disk' \in {disk, table}
        /\ UNCHANGED <<volatile, issued, table, errors, told, owed>>
    BY <1>2 DEF Purge, Stop, CommitAll
  <2>2. TypeInv'
    BY <1>0, <1>2, <2>1
    DEF Purge, Stop, volatile, errors, TypeInv, TypeOK, RollbacksHaveIds
  <2> QED BY <2>1, <2>2, Aside DEF volatile, errors
<1>3. CASE Start
  BY <1>3, StartInv
<1>4. CASE \E s \in Sessions : Cancelled(s) \/ CancelledFails(s)
  BY <1>4, CancelledInv, CancelledFailsInv
<1>5. CASE FinalFlush
  <2>1. /\ phase # "down" /\ phase' # "down"
        /\ UNCHANGED <<mem, gens, dirty, op, issued, table, disk, errors, told>>
    BY <1>5 DEF FinalFlush
  <2>2. TypeInv'
    BY <1>0, <1>5, <2>1 DEF FinalFlush, TypeInv, TypeOK, RollbacksHaveIds, errors
  <2> QED BY <2>1, <2>2, Aside DEF errors
<1>6. ASSUME NEW s \in Sessions, FlushNext(s) PROVE Inv'
  <2>1. /\ phase = "flushing" /\ phase' = phase /\ At(s, "idle") /\ StartSave(s)
        /\ todo' = todo \ {s}
        /\ UNCHANGED <<mem, issued, dirty, table, disk, faults, lost, told, owed>>
    BY <1>6 DEF FlushNext, errors
  <2>2. gens[s] + 1 \in Nat /\ mem[s] \in Nat /\ "insert" \in Pcs
    BY <1>0 DEF TypeOK, Pcs
  <2>3. op' \in [Sessions -> OpType]
    BY <1>0, <2>1, <2>2, StartOp DEF StartSave
  <2>4. TypeOK'
    BY <1>0, <2>1, <2>2, <2>3 DEF TypeOK, OpType, StartSave
  <2> QED BY <2>1, <2>4, StartSaveInv
<1>7. CASE Close \/ Crash
  <2>1. ProcessEnds /\ owed' \subseteq [sid : Sessions, ver : Nat]
    BY <1>0, <1>7 DEF Close, Crash, TypeOK
  <2> QED BY <2>1, ProcessEndsInv
<1>8. CASE PurgeFails
  BY <1>8, PurgeFailsInv
<1>9. CASE UNCHANGED vars
  <2>1. /\ UNCHANGED <<phase, mem, gens, dirty, todo, op, issued, table, disk>>
        /\ UNCHANGED <<faults, lost, told, owed>>
    BY <1>9 DEF vars, volatile, errors
  <2>2. TypeInv'
    BY <1>0, <2>1 DEF TypeInv, TypeOK, RollbacksHaveIds
  <2>3. CASE phase # "down"
    BY <2>1, <2>2, <2>3, Aside
  <2>4. CASE phase = "down"
    <3>1. /\ Shared' /\ AcknowledgedIsDurable' /\ DownIsIdle'
      BY <2>1, SharedSame, AcknowledgedKept DEF Inv, DownIsIdle, At
    <3>2. ASSUME NEW s \in Sessions PROVE Holed(s)' \/ Sound(s)'
      <4>1. Visible(s)' = Visible(s)
        BY <2>1 DEF Visible
      <4>2. Sound(s) => Sound(s)'
        BY <2>1, <2>4, <4>1, OrderlyKept DEF Sound
      <4> QED BY <2>1, <4>2 DEF Inv, Holed
    <3> QED BY <2>1, <2>2, <2>4, <3>1, <3>2 DEF Inv
  <2> QED BY <2>3, <2>4
<1> QED
  BY <1>1, <1>2, <1>3, <1>4, <1>5, <1>6, <1>7, <1>8, <1>9 DEF Next, Shutdown

LEMMA Invariance == Spec => []Inv
BY InitInv, NextInv, PTL DEF Spec

-----------------------------------------------------------------------------
(***************************************************************************)
(* Theorems                                                                *)
(***************************************************************************)

\* Every variable keeps its type, and with it every id: a record of the audit
\* log is of a rollback and a session that exist.
THEOREM TypeCorrect == Spec => []TypeOK
<1>1. Inv => TypeOK
  BY DEF Inv, TypeInv
<1> QED BY <1>1, Invariance, PTL

\* No crash leaves a hole between the generations of a session in the file
\* (save_snapshot, delete_old_snapshots, _restore_generation_state), unless a
\* database error took a row of it that its counter had passed.
THEOREM Gapless == Spec => []DiskIsGapless
<1>1. Inv => DiskIsGapless
  BY DEF Inv, Sound, Orderly, Interval, DiskIsGapless
<1> QED BY <1>1, Invariance, PTL

\* What a returned checkpoint or rollback reported is in the file, the
\* snapshot possibly superseded (save_snapshot, save_rollback_record), unless
\* another call's error rolled the shared transaction back before its commit.
THEOREM Acknowledged == Spec => []AcknowledgedIsDurable
<1>1. Inv => AcknowledgedIsDurable
  BY DEF Inv
<1> QED BY <1>1, Invariance, PTL

\* Every step takes the file along: a commit, or nothing.
LEMMA DiskStep ==
  ASSUME [Next]_vars
  PROVE  disk' \in {disk, table}
BY DEF Next, vars, volatile, Handlers, Create, ToolCall, Checkpoint, Rollback,
       OpStep, Insert, InsertConflicts, SaveFails, SaveFailed, Commit, ListOld,
       DeleteOld, CommitDelete, PruneFails, Load, LoadMissing, Audit,
       CommitAudit, RollbackFails, Purge, PurgeFails, Start, Stop, Shutdown,
       Cancelled, CancelledFails, FinalFlush, FlushNext, Close, Crash,
       ProcessEnds, CommitAll

\* A session does not become sound by a commit.
LEMMA StillHoled ==
  ASSUME Inv, Next, NEW s \in Sessions, Holed(s)
  PROVE  Holed(s)'
<1>1. lost.rows \subseteq lost'.rows
  <2>1. CASE UNCHANGED lost
    BY <2>1
  <2>2. ASSUME NEW own, NEW skipped, Fault(own, skipped)
        PROVE  lost.rows \subseteq lost'.rows
    BY <2>2 DEF Fault, Inv, TypeInv, TypeOK, Tables
  <2> QED
    BY <2>1, <2>2
    DEF Next, volatile, errors, Handlers, Create, ToolCall, Checkpoint,
        Rollback, OpStep, Insert, InsertConflicts, SaveFails, Commit, ListOld,
        DeleteOld, CommitDelete, PruneFails, Load, LoadMissing, Audit,
        CommitAudit, RollbackFails, Purge, PurgeFails, Start, Stop, Shutdown,
        Cancelled, CancelledFails, FinalFlush, FlushNext, Close, Crash,
        ProcessEnds
<1> QED BY <1>1 DEF Holed

\* The file of the process, through crashes, cancellations and shared
\* commits, is for each session the append-only ledger, and at least loses
\* neither a newest row nor a record when an error has taken a row.
THEOREM LedgerImplemented == Spec => ImplementsLedger
<1>1. Init => \A s \in Sessions : LedgerOf(s)!Init
  BY DEF Init, LedgerOf!Init, NoTables, RowsOf
<1>2. Inv /\ [Next]_vars =>
         [\A s \in Sessions : \/ LedgerOf(s)!Transaction
                              \/ Holed(s)' /\ LedgerOf(s)!Keeps]_disk
  <2> SUFFICES ASSUME Inv, [Next]_vars, disk' # disk, NEW s \in Sessions
               PROVE  \/ LedgerOf(s)!Transaction
                      \/ Holed(s)' /\ LedgerOf(s)!Keeps
    OBVIOUS
  <2>1. disk' = table
    BY DiskStep
  <2>2. Next
    BY DEF vars
  <2>3. disk.log \subseteq disk'.log
    BY <2>1 DEF Inv, Shared
  <2>4. CASE Sound(s)
    <3>1. Continues(RowsOf(s, disk'.rows), RowsOf(s, disk.rows))
      BY <2>1, <2>4 DEF Sound, Orderly, Visible, Committed
    <3>2. LedgerOf(s)!Appends /\ LedgerOf(s)!Prunes
      BY <3>1
      DEF Continues, LedgerOf!Appends, LedgerOf!Prunes, LedgerOf!Newer, RowsOf
    <3> QED BY <2>3, <3>2 DEF LedgerOf!Transaction
  <2>5. CASE Holed(s)
    <3>1. Holed(s)'
      BY <2>2, <2>5, StillHoled
    <3>2. LedgerOf(s)!Keeps
      BY <2>1, <2>3 DEF LedgerOf!Keeps, LedgerOf!Newer, Inv, Shared, Newer, RowsOf
    <3> QED BY <3>1, <3>2
  <2> QED BY <2>4, <2>5 DEF Inv
<1> QED BY <1>1, <1>2, Invariance, PTL DEF Spec, ImplementsLedger

-----------------------------------------------------------------------------
(***************************************************************************)
(* The final flush                                                         *)
(***************************************************************************)

\* The stages between the INSERT of a checkpoint and its return.
Saving == {"commit", "list_old", "delete_old", "commit_delete"}

\* The snapshot that s writes is there, the newest, and stays.
SavedOnTop(s) ==
  /\ NewRow(s) \in table.rows
  /\ op[s].pc # "commit" => NewRow(s) \in disk.rows
  /\ op[s].pc = "delete_old" => op[s].gen \notin op[s].set
  /\ \A g \in Stored(s) : g <= op[s].gen

\* How far the final flush is with what it owes.
PendingAt(o) ==
  \/ /\ o.sid \in todo /\ At(o.sid, "idle")
     /\ o.ver = mem[o.sid]
     /\ OnTop(o.sid)
  \/ /\ o.sid \notin todo /\ At(o.sid, "insert")
     /\ op[o.sid].ver = o.ver
     /\ \A g \in Stored(o.sid) : g < op[o.sid].gen
  \/ /\ o.sid \notin todo /\ op[o.sid].pc \in Saving
     /\ op[o.sid].ver = o.ver
     /\ SavedOnTop(o.sid)
  \/ /\ o.sid \notin todo /\ At(o.sid, "idle")
     /\ \E r \in table.rows \cap disk.rows : r.sid = o.sid /\ r.ver = o.ver

OwedInv ==
  /\ phase \in {"up", "stopping"} => owed = {}
  /\ phase = "flushing" => \A o \in owed : PendingAt(o)
  /\ StopSavesDirty

\* What a step of s leaves alone, when it meets no error.
LEMMA OpStepLeaves ==
  ASSUME Inv, NEW s \in Sessions, OpStep(s)
  PROVE  /\ \A x \in Sessions : x # s =>
               op'[x] = op[x] /\ gens'[x] = gens[x] /\ mem'[x] = mem[x]
         /\ UNCHANGED <<phase, todo>>
         /\ \/ owed' = {}
            \/ /\ owed' = owed
               /\ \A x \in Sessions : x # s => Visible(x)' = Visible(x)
         /\ ~ At(s, "idle")
<1>1. TypeOK
  BY DEF Inv, TypeInv
<1>2. Goto(s, op'[s].pc) \/ EndOp(s) \/ (\E o : op' = [op EXCEPT ![s] = o])
  BY DEF OpStep, Insert, InsertConflicts, SaveFails, SaveFailed, Commit,
     ListOld, Acknowledge, DeleteOld, CommitDelete, PruneFails, Load,
     LoadMissing, Audit, CommitAudit, RollbackFails, Goto, EndOp
<1>3. \A x \in Sessions : x # s => op'[x] = op[x]
  BY <1>1, <1>2 DEF TypeOK, Goto, EndOp
<1>4. \A x \in Sessions : x # s => gens'[x] = gens[x] /\ mem'[x] = mem[x]
  BY <1>1 DEF TypeOK, OpStep, Insert, InsertConflicts, SaveFails, SaveFailed,
     Commit, ListOld, DeleteOld, CommitDelete, PruneFails, Load, LoadMissing,
     Audit, CommitAudit, RollbackFails
<1>5. \/ owed' = {}
      \/ /\ owed' = owed
         /\ \/ table' = table \/ InsertRow(s) \/ DeleteRows(s) \/ InsertRecord(s)
  BY DEF OpStep, Insert, InsertConflicts, SaveFails, SaveFailed, Fault, Commit,
     ListOld, DeleteOld, CommitDelete, PruneFails, Load, LoadMissing, Audit,
     CommitAudit, RollbackFails
<1>6. (table' = table \/ InsertRow(s) \/ DeleteRows(s) \/ InsertRecord(s))
         => \A x \in Sessions : x # s => Visible(x)' = Visible(x)
  BY <1>1, InsertEffect, DeleteEffect, InsertRecordEffect DEF Visible
<1>7. UNCHANGED <<phase, todo>>
  BY DEF OpStep, Insert, InsertConflicts, SaveFails, SaveFailed, Commit,
     ListOld, DeleteOld, CommitDelete, PruneFails, Load, LoadMissing, Audit,
     CommitAudit, RollbackFails
<1>8. ~ At(s, "idle")
  BY DEF OpStep, Insert, InsertConflicts, SaveFails, Commit, ListOld,
     DeleteOld, CommitDelete, PruneFails, Load, LoadMissing, Audit,
     CommitAudit, RollbackFails, At
<1> QED BY <1>3, <1>4, <1>5, <1>6, <1>7, <1>8

\* Nobody else's step disturbs what is pending.
LEMMA PendingFrame ==
  ASSUME Inv, NEW x \in Sessions, NEW o, o.sid = x, PendingAt(o),
         op'[x] = op[x], gens'[x] = gens[x], mem'[x] = mem[x],
         Visible(x)' = Visible(x),
         disk' \in {disk, table}, x \in todo' <=> x \in todo
  PROVE  PendingAt(o)'
<1>1. Stored(x)' = Stored(x)
  BY StoredVisible DEF Stored, Generations, Visible
<1>2. \A r : r \in table.rows /\ r.sid = x => r \in table'.rows
  BY DEF Visible, RowsOf
<1>3. (\E r \in table.rows \cap disk.rows : r.sid = x /\ r.ver = o.ver)
         => \E r \in table'.rows \cap disk'.rows : r.sid = x /\ r.ver = o.ver
  BY <1>2
<1>4. NewRow(x)' = NewRow(x) /\ NewRow(x).sid = x
  BY NewRowType DEF NewRow, Inv, TypeInv
<1>5. SavedOnTop(x) => SavedOnTop(x)'
  BY <1>1, <1>2, <1>4 DEF SavedOnTop
<1>6. OnTop(x) => OnTop(x)'
  BY <1>1 DEF OnTop
<1> QED BY <1>1, <1>3, <1>5, <1>6 DEF PendingAt, At

\* A step of the flush itself takes its session one stage on.
LEMMA PendingStep ==
  ASSUME Inv, NEW s \in Sessions, OpStep(s), NEW o, o.sid = s, PendingAt(o)
  PROVE  owed' = {} \/ PendingAt(o)'
<1> USE DEF At
<1>1. /\ TypeOK /\ op[s] \in OpType /\ op[s].gen \in Nat
      /\ Stored(s) \in SUBSET Nat
  BY GenerationsType DEF Inv, TypeInv, TypeOK, OpType
<1>2. s \notin todo /\ todo' = todo /\ op[s].ver = o.ver
      /\ \/ op[s].pc \in Saving /\ SavedOnTop(s)
         \/ op[s].pc = "insert" /\ \A g \in Stored(s) : g < op[s].gen
  BY OpStepLeaves DEF PendingAt
<1>3. NewRow(s).sid = s /\ NewRow(s).ver = o.ver /\ NewRow(s).gen = op[s].gen
  BY <1>1, <1>2, NewRowType
<1>4. ASSUME op'[s].pc \in Saving, op'[s].ver = op[s].ver,
             op'[s].gen = op[s].gen, NewRow(s) \in table'.rows,
             op'[s].pc # "commit" => NewRow(s) \in disk'.rows,
             op'[s].pc = "delete_old" => op[s].gen \notin op'[s].set,
             \A g \in Stored(s)' : g <= op[s].gen
      PROVE  PendingAt(o)'
  <2>1. NewRow(s)' = NewRow(s)
    BY <1>4 DEF NewRow
  <2>2. SavedOnTop(s)'
    BY <1>4, <2>1 DEF SavedOnTop
  <2> QED BY <1>2, <1>4, <2>2 DEF PendingAt
<1>5. CASE Insert(s)
  <2>1. /\ InsertRow(s) /\ Goto(s, "commit") /\ op[s].pc = "insert"
    BY <1>5 DEF Insert
  <2>2. "commit" \in Pcs
    BY DEF Pcs, Committing
  <2>3. op'[s].pc = "commit" /\ op'[s].ver = op[s].ver /\ op'[s].gen = op[s].gen
    BY <1>1, <2>1, <2>2, GotoType
  <2>4. /\ NewRow(s) \in table'.rows /\ Stored(s)' = Stored(s) \cup {op[s].gen}
    BY <1>1, <2>1, InsertEffect
  <2>5. \A g \in Stored(s) : g < op[s].gen
    BY <1>2, <2>1 DEF Saving
  <2>6. \A g \in Stored(s)' : g <= op[s].gen
    BY <1>1, <2>4, <2>5
  <2> QED BY <1>4, <2>3, <2>4, <2>6 DEF Saving
<1>6. CASE Commit(s)
  <2>1. /\ op[s].pc = "commit" /\ disk' = table /\ table' = table
        /\ Goto(s, "list_old")
    BY <1>6 DEF Commit, CommitAll
  <2>2. "list_old" \in Pcs
    BY DEF Pcs
  <2>3. op'[s].pc = "list_old" /\ op'[s].ver = op[s].ver /\ op'[s].gen = op[s].gen
    BY <1>1, <2>1, <2>2, GotoType
  <2>4. SavedOnTop(s) /\ Stored(s)' = Stored(s)
    BY <1>2, <2>1 DEF Stored
  <2> QED BY <1>4, <2>1, <2>3, <2>4 DEF Saving, SavedOnTop
<1>7. CASE DeleteOld(s)
  <2>1. /\ op[s].pc = "delete_old" /\ disk' = disk /\ DeleteRows(s)
        /\ Goto(s, "commit_delete")
    BY <1>7 DEF DeleteOld
  <2>2. "commit_delete" \in Pcs
    BY DEF Pcs, Committing
  <2>3. /\ op'[s].pc = "commit_delete" /\ op'[s].ver = op[s].ver
        /\ op'[s].gen = op[s].gen
    BY <1>1, <2>1, <2>2, GotoType
  <2>4. SavedOnTop(s)
    BY <1>2, <2>1
  <2>5. NewRow(s) \in table'.rows /\ Stored(s)' \subseteq Stored(s)
    BY <1>1, <1>3, <2>1, <2>4, DeleteEffect DEF SavedOnTop
  <2> QED BY <1>4, <2>1, <2>3, <2>4, <2>5 DEF Saving, SavedOnTop
<1>8. CASE ListOld(s) /\ ~ EndOp(s)
  <2>1. /\ op[s].pc = "list_old" /\ UNCHANGED <<table, disk>>
        /\ op' = [op EXCEPT ![s] = [@ EXCEPT !.pc = "delete_old", !.set = Excess(s)]]
    BY <1>8 DEF ListOld, Acknowledge
  <2>2. /\ op'[s].pc = "delete_old" /\ op'[s].ver = op[s].ver
        /\ op'[s].gen = op[s].gen /\ op'[s].set = Excess(s)
    BY <1>1, <2>1 DEF TypeOK, OpType
  <2>3. SavedOnTop(s) /\ Stored(s)' = Stored(s)
    BY <1>2, <2>1 DEF Stored
  <2>4. op[s].gen \notin Excess(s)
    BY <1>1, <2>3, ExcessIsLow DEF SavedOnTop
  <2> QED BY <1>4, <2>1, <2>2, <2>3, <2>4 DEF Saving, SavedOnTop
<1>9. CASE (ListOld(s) \/ CommitDelete(s)) /\ EndOp(s)
  <2>1. op[s].pc \in {"list_old", "commit_delete"}
    BY <1>9 DEF ListOld, CommitDelete
  <2>2. NewRow(s) \in table.rows \cap disk.rows
    BY <1>2, <2>1 DEF SavedOnTop
  <2>3. table' = table /\ disk' \in {disk, table}
    BY <1>9 DEF ListOld, CommitDelete, CommitAll
  <2>4. NewRow(s) \in table'.rows \cap disk'.rows
    BY <2>2, <2>3
  <2>5. op'[s].pc = "idle"
    BY <1>1, <1>9, EndOpType
  <2> QED BY <1>2, <1>3, <2>4, <2>5 DEF PendingAt
<1>10. CASE SaveFails(s) \/ PruneFails(s) \/ RollbackFails(s)
  BY <1>10 DEF SaveFails, PruneFails, RollbackFails, Fault
<1>11. ~ InsertConflicts(s)
  BY <1>1, <1>2 DEF InsertConflicts, Saving
<1>12. ~ (Load(s) \/ LoadMissing(s) \/ Audit(s) \/ CommitAudit(s))
  BY <1>2 DEF Load, LoadMissing, Audit, CommitAudit, Saving
<1>13. CommitDelete(s) => EndOp(s)
  BY DEF CommitDelete, Acknowledge
<1> QED BY <1>5, <1>6, <1>7, <1>8, <1>9, <1>10, <1>11, <1>12, <1>13 DEF OpStep

LEMMA OwedOpStep ==
  ASSUME Inv, OwedInv, NEW s \in Sessions, OpStep(s)
  PROVE  OwedInv'
<1>1. /\ phase' = phase /\ phase # "down" /\ owed' \in {owed, {}}
      /\ owed \subseteq [sid : Sessions, ver : Nat] /\ todo' = todo
  BY OpStepLeaves DEF Inv, DownIsIdle, TypeInv, TypeOK
<1>2. disk' \in {disk, table}
  BY DiskStep DEF Next
<1>3. ASSUME phase = "flushing", NEW o \in owed, owed' # {}
      PROVE  PendingAt(o)'
  <2>1. CASE o.sid = s
    BY <1>3, <2>1, PendingStep DEF OwedInv
  <2>2. CASE o.sid # s
    BY <1>1, <1>2, <1>3, <2>2, OpStepLeaves, PendingFrame DEF OwedInv
  <2> QED BY <2>1, <2>2
<1> QED BY <1>1, <1>3 DEF OwedInv, StopSavesDirty

LEMMA OwedFlushNext ==
  ASSUME Inv, OwedInv, NEW s \in Sessions, FlushNext(s)
  PROVE  OwedInv'
<1>1. /\ phase = "flushing" /\ phase' = phase /\ owed' = owed
      /\ todo' = todo \ {s} /\ s \in todo
      /\ UNCHANGED <<mem, table, disk>>
      /\ owed \subseteq [sid : Sessions, ver : Nat]
  BY DEF FlushNext, Inv, TypeInv, TypeOK
<1>2. /\ gens[s] + 1 \in Nat /\ mem[s] \in Nat /\ "insert" \in Pcs
      /\ gens[s] \in Int /\ TypeOK /\ Stored(s) \in SUBSET Nat
  BY GenerationsType DEF Inv, TypeInv, TypeOK, Pcs
<1>3. /\ op' = [op EXCEPT ![s] = NewOp("insert", gens[s] + 1, mem[s], Nil)]
      /\ \A x \in Sessions : x # s => gens'[x] = gens[x]
  BY <1>2 DEF FlushNext, StartSave, TypeOK
<1>4. /\ op'[s].pc = "insert" /\ op'[s].gen = gens[s] + 1 /\ op'[s].ver = mem[s]
      /\ \A x \in Sessions : x # s => op'[x] = op[x]
  BY <1>2, <1>3 DEF NewOp, TypeOK
<1>5. Stored(s)' = Stored(s)
  BY <1>1 DEF Stored
<1>6. ASSUME NEW o \in owed
      PROVE  PendingAt(o)'
  <2>1. CASE o.sid = s
    <3>1. o.ver = mem[s] /\ OnTop(s)
      BY <1>1, <2>1 DEF OwedInv, PendingAt
    <3>2. \A g \in Stored(o.sid)' : g < op'[s].gen
      BY <1>2, <1>4, <1>5, <2>1, <3>1 DEF OnTop
    <3> QED BY <1>1, <1>4, <2>1, <3>1, <3>2 DEF PendingAt, At
  <2>2. CASE o.sid # s
    <3>1. Visible(o.sid)' = Visible(o.sid)
      BY <1>1 DEF Visible
    <3> QED BY <1>1, <1>3, <1>4, <2>2, <3>1, PendingFrame DEF OwedInv
  <2> QED BY <2>1, <2>2
<1> QED BY <1>1, <1>6 DEF OwedInv, StopSavesDirty

LEMMA OwedStep == Inv /\ OwedInv /\ [Next]_vars => OwedInv'
<1> SUFFICES ASSUME Inv, OwedInv, [Next]_vars PROVE OwedInv'
  OBVIOUS
<1>1. ASSUME NEW s \in Sessions, Handlers(s)
      PROVE  OwedInv'
  <2>1. phase = "up" /\ UNCHANGED <<phase, owed>>
    BY <1>1 DEF Handlers, Create, ToolCall, Checkpoint, Rollback
  <2> QED BY <2>1 DEF OwedInv, StopSavesDirty
<1>2. CASE \/ Purge \/ PurgeFails \/ Stop \/ Start \/ Crash
           \/ \E s \in Sessions : Cancelled(s) \/ CancelledFails(s)
  <2>1. /\ phase' # "flushing"
        /\ owed' = {}
    BY <1>2 DEF Purge, PurgeFails, Stop, Start, Crash, Cancelled,
                CancelledFails, ProcessEnds, OwedInv, Fault
  <2> QED BY <2>1 DEF OwedInv, StopSavesDirty
<1>3. CASE FinalFlush
  <2>1. /\ phase' = "flushing" /\ todo' = dirty /\ UNCHANGED <<mem, gens, op, table>>
        /\ \A s \in Sessions : At(s, "idle")
        /\ owed' = {[sid |-> s, ver |-> mem[s]] : s \in {x \in dirty : OnTop(x)}}
        /\ dirty \subseteq Sessions
    BY <1>3 DEF FinalFlush, Inv, TypeInv, TypeOK
  <2>2. ASSUME NEW o \in owed'
        PROVE  PendingAt(o)'
    <3>1. PICK s \in dirty : o.sid = s /\ o.ver = mem[s] /\ OnTop(s)
      BY <2>1
    <3>2. OnTop(s)'
      BY <2>1, <3>1 DEF OnTop, Stored
    <3> QED BY <2>1, <3>1, <3>2 DEF PendingAt, At
  <2> QED BY <2>1, <2>2 DEF OwedInv, StopSavesDirty
<1>4. CASE Close
  <2>1. /\ phase = "flushing" /\ phase' = "down" /\ UNCHANGED <<owed, disk>>
        /\ todo = {} /\ \A s \in Sessions : At(s, "idle")
        /\ owed \subseteq [sid : Sessions, ver : Nat]
    BY <1>4 DEF Close, ProcessEnds, Inv, TypeInv, TypeOK
  <2>2. \A o \in owed : \E r \in disk.rows : r.sid = o.sid /\ r.ver = o.ver
    BY <2>1 DEF OwedInv, PendingAt, At, Saving
  <2> QED BY <2>1, <2>2 DEF OwedInv, StopSavesDirty
<1>5. CASE UNCHANGED vars
  BY <1>5 DEF vars, volatile, OwedInv, PendingAt, SavedOnTop, OnTop, NewRow, At,
              Stored, StopSavesDirty
<1> QED BY <1>1, <1>2, <1>3, <1>4, <1>5, OwedOpStep, OwedFlushNext
        DEF Next, Shutdown

\* A stop that meets no database error leaves no dirty session unsaved, but
\* for those with newer rows than their counter (engine.py stop and
\* _flush_dirty_sessions): for any number of sessions, whatever was cancelled
\* on the way.
THEOREM StopSaves == Spec => []StopSavesDirty
<1>1. Init => OwedInv
  BY DEF Init, OwedInv, StopSavesDirty
<1>2. OwedInv => StopSavesDirty
  BY DEF OwedInv
<1> QED BY <1>1, <1>2, OwedStep, Invariance, PTL DEF Spec

=============================================================================
