------------------------ MODULE SnapshotEngineProofs ------------------------
(***************************************************************************)
(* Theorems about SnapshotEngine, for every value of its constants and for *)
(* arbitrary callers.                                                      *)
(*                                                                         *)
(* TypeInv carries the types together with the engine lock: whoever is in  *)
(* a critical section is the head of the queue of its session.  RowsInv    *)
(* says what each critical section knows of the rows and the counter of    *)
(* its session at each label; the lock lets one session and one coroutine  *)
(* be looked at alone (Frame).                                             *)
(***************************************************************************)
EXTENDS SnapshotEngine, TLAPS, FiniteSetTheorems, SequenceTheorems,
        WellFoundedInduction

\* What each label says of the operation.
OpOK ==
  \A c \in Coroutines :
     /\ ~ At(c, "idle") => op[c].sid \in Sessions
     /\ At(c, "insert") => op[c].img \in Session
     /\ At(c, "ckpt_lock") => ref[c] # Nil
     /\ At(c, "auto_scan") => op[c].set # {}

\* Inside the critical section one is first in the queue.
HolderIsHead ==
  \A c \in Coroutines : op[c].pc \in Critical =>
     lockq[op[c].sid] # <<>> /\ Head(lockq[op[c].sid]) = c

TypeInv == TypeOK /\ OpOK /\ HolderIsHead

-----------------------------------------------------------------------------
\* A step sets the operation of one coroutine.
LEMMA OpUpdate ==
  ASSUME TypeOK, NEW c \in Coroutines, NEW o \in Op,
         op' = [op EXCEPT ![c] = o]
  PROVE  /\ op' \in [Coroutines -> Op]
         /\ op'[c] = o
         /\ \A d \in Coroutines : d # c => op'[d] = op[d]
  BY DEF TypeOK

\* Operations as their entry points build them are typed.
LEMMA NewOpType ==
  ASSUME NEW pc \in Pcs, NEW s \in Sessions \cup {Nil}, NEW gen \in Nat,
         NEW from \in Int, NEW img \in Session \cup {Nil}
  PROVE  /\ NewOp(pc, s, gen, from, img) \in Op
         /\ NewOp(pc, s, gen, from, img).pc = pc
         /\ NewOp(pc, s, gen, from, img).sid = s
         /\ NewOp(pc, s, gen, from, img).gen = gen
         /\ NewOp(pc, s, gen, from, img).from = from
         /\ NewOp(pc, s, gen, from, img).img = img
  BY DEF NewOp, Op

LEMMA IdleType == Idle \in Op /\ Idle.pc = "idle"
<1>1. "idle" \in Pcs /\ 0 \in Nat /\ 0 \in Int
  BY DEF Pcs
<1> QED BY <1>1, NewOpType DEF Idle

\* A step within the critical section keeps the lock.
LEMMA StayInside ==
  ASSUME TypeInv, NEW c \in Coroutines, op[c].pc \in Critical, NEW o \in Op,
         o.sid = op[c].sid, op' = [op EXCEPT ![c] = o], lockq' = lockq
  PROVE  HolderIsHead'
  BY OpUpdate DEF TypeInv, HolderIsHead

\* Leaving hands the lock to the next in the queue.
LEMMA Leave ==
  ASSUME TypeInv, NEW c \in Coroutines, op[c].pc \in Critical, EndOp(c),
         Release(op[c].sid)
  PROVE  /\ HolderIsHead'
         /\ lockq' \in [Sessions -> Seq(Coroutines)]
<1> DEFINE s == op[c].sid
<1>1. s \in Sessions /\ lockq[s] \in Seq(Coroutines) /\ lockq[s] # <<>>
  BY DEF TypeInv, TypeOK, OpOK, HolderIsHead, Critical, At
<1>2. Tail(lockq[s]) \in Seq(Coroutines)
  BY <1>1, HeadTailProperties
<1>3. lockq' \in [Sessions -> Seq(Coroutines)]
  BY <1>1, <1>2 DEF Release, TypeInv, TypeOK
<1>4. op'[c] = Idle /\ \A d \in Coroutines : d # c => op'[d] = op[d]
  BY OpUpdate, IdleType DEF EndOp, TypeInv
<1>5. ASSUME NEW d \in Coroutines, op'[d].pc \in Critical
      PROVE  lockq'[op'[d].sid] # <<>> /\ Head(lockq'[op'[d].sid]) = d
  <2>1. d # c /\ op'[d] = op[d]
    BY <1>4, <1>5, IdleType DEF Critical
  <2>2. op[d].sid \in Sessions
    BY <1>5, <2>1 DEF TypeInv, OpOK, At, Critical
  <2>3. lockq[op[d].sid] # <<>> /\ Head(lockq[op[d].sid]) = d
    BY <1>5, <2>1 DEF TypeInv, HolderIsHead
  <2>4. op[d].sid # s
    BY <2>1, <2>3 DEF TypeInv, HolderIsHead
  <2>5. lockq'[op[d].sid] = lockq[op[d].sid]
    BY <2>2, <2>4 DEF Release, TypeInv, TypeOK
  <2> QED BY <2>1, <2>3, <2>5
<1> QED BY <1>3, <1>5 DEF HolderIsHead

\* Entering joins the queue, at its head if it was empty.
LEMMA Queue ==
  ASSUME TypeInv, NEW c \in Coroutines, op[c].pc \notin Critical,
         NEW s \in Sessions, NEW o \in Op, o.sid = s,
         o.pc \in Critical => lockq[s] = <<>>,
         op' = [op EXCEPT ![c] = o],
         lockq' = [lockq EXCEPT ![s] = Append(@, c)]
  PROVE  /\ HolderIsHead'
         /\ lockq' \in [Sessions -> Seq(Coroutines)]
<1>1. lockq[s] \in Seq(Coroutines)
  BY DEF TypeInv, TypeOK
<1>2. /\ Append(lockq[s], c) \in Seq(Coroutines)
      /\ Append(lockq[s], c) # <<>>
      /\ Head(Append(lockq[s], c)) = IF lockq[s] = <<>> THEN c
                                     ELSE Head(lockq[s])
  BY <1>1, AppendProperties, EmptySeq, HeadTailProperties
<1>3. lockq' \in [Sessions -> Seq(Coroutines)]
  BY <1>2 DEF TypeInv, TypeOK
<1>4. op'[c] = o /\ \A d \in Coroutines : d # c => op'[d] = op[d]
  BY OpUpdate DEF TypeInv
<1>5. ASSUME NEW d \in Coroutines, op'[d].pc \in Critical
      PROVE  lockq'[op'[d].sid] # <<>> /\ Head(lockq'[op'[d].sid]) = d
  <2>1. CASE d = c
    BY <1>2, <1>4, <1>5, <2>1 DEF TypeInv, TypeOK
  <2>2. CASE d # c
    <3>1. op'[d] = op[d] /\ op[d].sid \in Sessions
      BY <1>4, <1>5, <2>2 DEF TypeInv, OpOK, At, Critical
    <3>2. lockq[op[d].sid] # <<>> /\ Head(lockq[op[d].sid]) = d
      BY <1>5, <3>1 DEF TypeInv, HolderIsHead
    <3> QED BY <1>2, <3>1, <3>2 DEF TypeInv, TypeOK
  <2> QED BY <2>1, <2>2
<1> QED BY <1>3, <1>5 DEF HolderIsHead

\* The head of the queue may enter.
LEMMA Proceed ==
  ASSUME TypeInv, NEW c \in Coroutines, Granted(c), NEW o \in Op,
         o.sid = op[c].sid, op' = [op EXCEPT ![c] = o], lockq' = lockq
  PROVE  HolderIsHead'
  BY OpUpdate DEF TypeInv, HolderIsHead, Granted

\* A step that moves one coroutine keeps what OpOK says of all of them.
LEMMA OpOKStep ==
  ASSUME TypeInv, NEW c \in Coroutines, NEW o \in Op,
         op' = [op EXCEPT ![c] = o],
         o.pc # "idle" => o.sid \in Sessions,
         o.pc = "insert" => o.img \in Session,
         o.pc = "ckpt_lock" => ref'[c] # Nil,
         o.pc = "auto_scan" => o.set # {},
         \A d \in Coroutines : d # c /\ At(d, "ckpt_lock") => ref'[d] # Nil
  PROVE  OpOK'
<1>1. op'[c] = o /\ \A d \in Coroutines : d # c => op'[d] = op[d]
  BY OpUpdate DEF TypeInv
<1> QED BY <1>1 DEF TypeInv, OpOK, At

\* The case of a step that leaves the references alone.
LEMMA OpOKKeepsRef ==
  ASSUME TypeInv, NEW c \in Coroutines, NEW o \in Op,
         op' = [op EXCEPT ![c] = o], ref' = ref,
         o.pc # "idle" => o.sid \in Sessions,
         o.pc = "insert" => o.img \in Session,
         o.pc # "ckpt_lock",
         o.pc = "auto_scan" => o.set # {}
  PROVE  OpOK'
  BY OpOKStep DEF TypeInv, OpOK

-----------------------------------------------------------------------------
(***************************************************************************)
(* TypeInv, one lemma for each action                                      *)
(***************************************************************************)
LEMMA InsertType ==
  ASSUME TypeInv, NEW c \in Coroutines, Insert(c)
  PROVE  TypeInv'
<1> DEFINE o == [op[c] EXCEPT !.pc = "commit", !.img = Nil]
<1>1. op[c] \in Op /\ op[c].sid \in Sessions /\ op[c].img \in Session
  BY DEF TypeInv, TypeOK, OpOK, Insert, At
<1>2. o \in Op /\ o.pc = "commit" /\ o.sid = op[c].sid
  BY <1>1 DEF Op, Pcs
<1>3. op' = [op EXCEPT ![c] = o]
  BY DEF Insert
<1>4. snapshots' \subseteq Row /\ expired' \subseteq snapshots'
  BY <1>1 DEF TypeInv, TypeOK, Insert, InsertSnapshot, Row, Op
<1>5. TypeOK'
  BY <1>2, <1>3, <1>4, OpUpdate DEF TypeInv, TypeOK, Insert
<1>6. OpOK'
  BY <1>1, <1>2, <1>3, OpOKKeepsRef DEF Insert
<1>7. HolderIsHead'
  BY <1>2, <1>3, StayInside DEF Insert, At, Critical
<1> QED BY <1>5, <1>6, <1>7 DEF TypeInv

LEMMA SaveFailedType ==
  ASSUME TypeInv, NEW c \in Coroutines, op[c].pc \in {"insert", "commit"},
         SaveFailed(c), faults' \in Nat
  PROVE  TypeInv'
<1> DEFINE o == [op[c] EXCEPT !.pc = "ckpt_err", !.img = Nil]
<1>1. op[c] \in Op /\ op[c].sid \in Sessions
  BY DEF TypeInv, TypeOK, OpOK, At
<1>2. o \in Op /\ o.pc = "ckpt_err" /\ o.sid = op[c].sid
  BY <1>1 DEF Op, Pcs
<1>3. op' = [op EXCEPT ![c] = o]
  BY DEF SaveFailed
<1>4. op[c].gen \in Nat /\ gens' \in [Sessions -> Nat \cup {-1}]
  BY <1>1 DEF TypeInv, TypeOK, SaveFailed, Op
<1>5. TypeOK'
  BY <1>2, <1>3, <1>4, OpUpdate DEF TypeInv, TypeOK, SaveFailed, storeVars
<1>6. OpOK'
  BY <1>1, <1>2, <1>3, OpOKKeepsRef DEF SaveFailed
<1>7. HolderIsHead'
  BY <1>2, <1>3, StayInside DEF SaveFailed, Critical
<1> QED BY <1>5, <1>6, <1>7 DEF TypeInv

LEMMA CommitType ==
  ASSUME TypeInv, NEW c \in Coroutines, Commit(c)
  PROVE  TypeInv'
<1> DEFINE o == [op[c] EXCEPT !.pc = "list_old"]
<1>1. op[c] \in Op /\ op[c].sid \in Sessions
  BY DEF TypeInv, TypeOK, OpOK, Commit, At
<1>2. o \in Op /\ o.pc = "list_old" /\ o.sid = op[c].sid
  BY <1>1 DEF Op, Pcs
<1>3. op' = [op EXCEPT ![c] = o]
  BY DEF Commit, Goto
<1>4. TypeOK'
  BY <1>2, <1>3, OpUpdate DEF TypeInv, TypeOK, Commit, storeVars
<1>5. OpOK'
  BY <1>1, <1>2, <1>3, OpOKKeepsRef DEF Commit
<1>6. HolderIsHead'
  BY <1>2, <1>3, StayInside DEF Commit, At, Critical
<1> QED BY <1>4, <1>5, <1>6 DEF TypeInv

LEMMA ListOldType ==
  ASSUME TypeInv, NEW c \in Coroutines, ListOld(c)
  PROVE  TypeInv'
<1> DEFINE excess == Excess(op[c].sid, Depth)
           pc == IF excess = {} THEN "ckpt_log" ELSE "delete_old"
           o == [op[c] EXCEPT !.pc = pc, !.set = excess]
<1>1. op[c] \in Op /\ op[c].sid \in Sessions
  BY DEF TypeInv, TypeOK, OpOK, ListOld, At
<1>2. excess \subseteq Nat
  BY DEF Excess, Generations, RowsOf, TypeInv, TypeOK, Row
<1>3. o \in Op /\ o.pc \in {"ckpt_log", "delete_old"} /\ o.sid = op[c].sid
  BY <1>1, <1>2 DEF Op, Pcs
<1>4. op' = [op EXCEPT ![c] = o]
  BY DEF ListOld
<1>5. TypeOK'
  BY <1>3, <1>4, OpUpdate DEF TypeInv, TypeOK, ListOld, storeVars
<1>6. OpOK'
  <2> HIDE DEF o
  <2> QED BY <1>1, <1>3, <1>4, OpOKKeepsRef DEF ListOld
<1>7. HolderIsHead'
  <2> HIDE DEF o
  <2> QED BY <1>3, <1>4, StayInside DEF ListOld, At, Critical
<1> QED BY <1>5, <1>6, <1>7 DEF TypeInv

LEMMA DeleteOldType ==
  ASSUME TypeInv, NEW c \in Coroutines, DeleteOld(c)
  PROVE  TypeInv'
<1> DEFINE o == [op[c] EXCEPT !.pc = "ckpt_log", !.set = {}]
<1>1. op[c] \in Op /\ op[c].sid \in Sessions
  BY DEF TypeInv, TypeOK, OpOK, DeleteOld, At
<1>2. o \in Op /\ o.pc = "ckpt_log" /\ o.sid = op[c].sid
  BY <1>1 DEF Op, Pcs
<1>3. op' = [op EXCEPT ![c] = o]
  BY DEF DeleteOld
<1>4. snapshots' \subseteq Row /\ expired' \subseteq snapshots'
  BY DEF TypeInv, TypeOK, DeleteOld, DeleteSnapshots
<1>5. TypeOK'
  BY <1>2, <1>3, <1>4, OpUpdate DEF TypeInv, TypeOK, DeleteOld
<1>6. OpOK'
  BY <1>1, <1>2, <1>3, OpOKKeepsRef DEF DeleteOld
<1>7. HolderIsHead'
  BY <1>2, <1>3, StayInside DEF DeleteOld, At, Critical
<1> QED BY <1>5, <1>6, <1>7 DEF TypeInv

\* What remains to check of a step that ends an operation under the lock.
LEMMA LeaveType ==
  ASSUME TypeInv, NEW c \in Coroutines, op[c].pc \in Critical, EndOp(c),
         Release(op[c].sid),
         \A d \in Coroutines : d # c => ref'[d] = ref[d],
         ref' \in [Coroutines -> {Nil} \cup Sessions \cup Session],
         audit' \in Seq(AuditRecord), faults' \in Nat,
         UNCHANGED <<sess, snapshots, expired, gens, dirty, sweep, todo>>
  PROVE  TypeInv'
<1>1. op' = [op EXCEPT ![c] = Idle] /\ Idle \in Op /\ Idle.pc = "idle"
  BY IdleType DEF EndOp
<1>2. TypeOK'
  BY <1>1, Leave, OpUpdate DEF TypeInv, TypeOK
<1>3. OpOK'
  BY <1>1, OpOKStep DEF TypeInv, OpOK
<1> QED BY <1>2, <1>3, Leave DEF TypeInv

LEMMA EndsType ==
  ASSUME TypeInv, NEW c \in Coroutines,
         PruneFails(c) \/ CheckpointEnds(c) \/ RollbackEnds(c)
  PROVE  TypeInv'
<1>1. op[c].pc \in Critical /\ EndOp(c) /\ Release(op[c].sid)
  BY DEF PruneFails, CheckpointEnds, RollbackEnds, At, Critical
<1>2. UNCHANGED <<sess, ref, storeVars, gens, dirty, sweep, todo>>
  BY DEF PruneFails, CheckpointEnds, RollbackEnds
<1>3. faults' \in Nat
  BY DEF PruneFails, CheckpointEnds, RollbackEnds, TypeInv, TypeOK
<1> QED BY <1>1, <1>2, <1>3, LeaveType DEF TypeInv, TypeOK, storeVars

\* A save starts with a typed operation and a typed counter.
LEMMA SaveStarts ==
  ASSUME TypeInv, NEW c \in Coroutines, NEW s \in Sessions,
         NEW v \in Session, StartSave(c, s, v)
  PROVE  /\ gens' \in [Sessions -> Nat \cup {-1}]
         /\ \E o \in Op : /\ op' = [op EXCEPT ![c] = o]
                         /\ o.pc = "insert" /\ o.sid = s /\ o.img = v
<1> DEFINE g == gens[s] + 1
           o == NewOp("insert", s, g, 0, v)
<1>1. g \in Nat
  <2>1. gens[s] \in Nat \cup {-1}
    BY DEF TypeInv, TypeOK
  <2> QED BY <2>1
<1>2. gens' \in [Sessions -> Nat \cup {-1}]
  BY <1>1 DEF StartSave, TypeInv, TypeOK
<1>3. op' = [op EXCEPT ![c] = o]
  BY DEF StartSave
<1>4. "insert" \in Pcs /\ 0 \in Int
  BY DEF Pcs
<1>5. o \in Op /\ o.pc = "insert" /\ o.sid = s /\ o.img = v
  <2> HIDE DEF g
  <2> QED BY <1>1, <1>4, NewOpType
<1> QED BY <1>2, <1>3, <1>5

LEMMA CheckpointGrantedType ==
  ASSUME TypeInv, NEW c \in Coroutines, CheckpointGranted(c)
  PROVE  TypeInv'
<1>1. op[c] \in Op /\ op[c].sid \in Sessions
  BY DEF TypeInv, TypeOK, OpOK, CheckpointGranted, At
<1>2. Deref(c) \in Session
  <2>1. ref[c] \in Sessions \cup Session
    BY DEF TypeInv, TypeOK, OpOK, CheckpointGranted, At
  <2>2. CASE ref[c] \in Sessions
    BY <2>2 DEF Deref, TypeInv, TypeOK
  <2>3. CASE ref[c] \notin Sessions
    BY <2>1, <2>3 DEF Deref
  <2> QED BY <2>2, <2>3
<1>3. StartSave(c, op[c].sid, Deref(c))
  BY DEF CheckpointGranted
<1>4. gens' \in [Sessions -> Nat \cup {-1}]
  BY <1>1, <1>2, <1>3, SaveStarts
<1>5. PICK o \in Op : /\ op' = [op EXCEPT ![c] = o]
                      /\ o.pc = "insert" /\ o.sid = op[c].sid
                      /\ o.img = Deref(c)
  BY <1>1, <1>2, <1>3, SaveStarts
<1>6. TypeOK'
  BY <1>4, <1>5, OpUpdate DEF TypeInv, TypeOK, CheckpointGranted, storeVars
<1>7. OpOK'
  BY <1>1, <1>2, <1>5, OpOKStep DEF CheckpointGranted, TypeInv, TypeOK, OpOK
<1>8. HolderIsHead'
  BY <1>5, Proceed DEF CheckpointGranted
<1> QED BY <1>6, <1>7, <1>8 DEF TypeInv

LEMMA LoadStarts ==
  ASSUME TypeInv, NEW c \in Coroutines, NEW s \in Sessions, NEW g \in Nat,
         StartLoad(c, s, g)
  PROVE  \E o \in Op : /\ op' = [op EXCEPT ![c] = o]
                       /\ o.pc = "load" /\ o.sid = s
<1>1. gens[s] \in Int /\ "load" \in Pcs
  BY DEF TypeInv, TypeOK, Pcs
<1> DEFINE o == NewOp("load", s, g, gens[s], Nil)
<1>2. o \in Op /\ o.pc = "load" /\ o.sid = s
  BY <1>1, NewOpType
<1>3. op' = [op EXCEPT ![c] = o]
  BY DEF StartLoad
<1> QED BY <1>2, <1>3

LEMMA RollbackGrantedType ==
  ASSUME TypeInv, NEW c \in Coroutines, RollbackGranted(c)
  PROVE  TypeInv'
<1>1. op[c] \in Op /\ op[c].sid \in Sessions /\ op[c].gen \in Nat
  BY DEF TypeInv, TypeOK, OpOK, RollbackGranted, At, Op
<1>2. PICK o \in Op : /\ op' = [op EXCEPT ![c] = o]
                      /\ o.pc = "load" /\ o.sid = op[c].sid
  BY <1>1, LoadStarts DEF RollbackGranted
<1>3. TypeOK'
  BY <1>2, OpUpdate DEF TypeInv, TypeOK, RollbackGranted, storeVars
<1>4. OpOK'
  BY <1>1, <1>2, OpOKKeepsRef DEF RollbackGranted
<1>5. HolderIsHead'
  BY <1>2, Proceed DEF RollbackGranted
<1> QED BY <1>3, <1>4, <1>5 DEF TypeInv

\* The row a generation names is one of the session's.
LEMMA RowAtIsRow ==
  ASSUME NEW s, NEW g \in Generations(s)
  PROVE  RowAt(s, g) \in RowsOf(s) /\ RowAt(s, g).gen = g
  BY DEF RowAt, Generations

LEMMA LoadType ==
  ASSUME TypeInv, NEW c \in Coroutines, Load(c)
  PROVE  TypeInv'
<1> DEFINE s == op[c].sid
           img == RowAt(s, op[c].gen).img
           o == [op[c] EXCEPT !.pc = "audit"]
<1>1. op[c] \in Op /\ s \in Sessions
  BY DEF TypeInv, TypeOK, OpOK, Load, At
<1>2. img \in Session
  BY RowAtIsRow DEF Load, RowsOf, TypeInv, TypeOK, Row
<1>3. [img EXCEPT !.status = "ROLLED_BACK"] \in Session
  BY <1>2 DEF Session, Statuses
<1>4. sess' \in [Sessions -> Session]
  BY <1>1, <1>3 DEF Load, RestoreSession, TypeInv, TypeOK
<1>5. /\ ref' \in [Coroutines -> {Nil} \cup Sessions \cup Session]
      /\ \A d \in Coroutines : ref[d] # Nil => ref'[d] # Nil
  BY <1>1, StoreAssumption DEF Load, RestoreSession, TypeInv, TypeOK
<1>6. o \in Op /\ o.pc = "audit" /\ o.sid = s
  BY <1>1 DEF Op, Pcs
<1>7. op' = [op EXCEPT ![c] = o]
  BY DEF Load, Goto
<1>8. TypeOK'
  BY <1>4, <1>5, <1>6, <1>7, OpUpdate DEF TypeInv, TypeOK, Load, storeVars
<1>9. OpOK'
  <2> HIDE DEF o
  <2> QED BY <1>1, <1>5, <1>6, <1>7, OpOKStep DEF TypeInv, OpOK
<1>10. HolderIsHead'
  <2> HIDE DEF o
  <2> QED BY <1>6, <1>7, StayInside DEF Load, At, Critical
<1> QED BY <1>8, <1>9, <1>10 DEF TypeInv

LEMMA AuditRecordType ==
  ASSUME TypeInv, NEW c \in Coroutines, At(c, "audit"),
         SaveRollbackRecord(op[c].sid, op[c].from, op[c].gen,
                            sess[op[c].sid].dev)
  PROVE  audit' \in Seq(AuditRecord)
<1>1. /\ op[c] \in Op /\ op[c].sid \in Sessions
      /\ sess[op[c].sid] \in Session /\ audit \in Seq(AuditRecord)
  BY DEF TypeInv, TypeOK, OpOK, At
<1>2. [sid |-> op[c].sid, from |-> op[c].from, to |-> op[c].gen,
       dev |-> sess[op[c].sid].dev] \in AuditRecord
  BY <1>1 DEF AuditRecord, Op, Session
<1> QED BY <1>1, <1>2, AppendProperties DEF SaveRollbackRecord

LEMMA RollbackRaisesType ==
  ASSUME TypeInv, NEW c \in Coroutines, op[c].pc \in {"load", "audit"},
         RollbackRaises(c), audit' \in Seq(AuditRecord), faults' \in Nat
  PROVE  TypeInv'
  BY LeaveType DEF RollbackRaises, Critical, TypeInv, TypeOK

LEMMA SaveAuditType ==
  ASSUME TypeInv, NEW c \in Coroutines, SaveAudit(c)
  PROVE  TypeInv'
<1> DEFINE o == [op[c] EXCEPT !.pc = "rb_log"]
<1>1. op[c] \in Op /\ op[c].sid \in Sessions
  BY DEF TypeInv, TypeOK, OpOK, SaveAudit, At
<1>2. o \in Op /\ o.pc = "rb_log" /\ o.sid = op[c].sid
  BY <1>1 DEF Op, Pcs
<1>3. op' = [op EXCEPT ![c] = o]
  BY DEF SaveAudit, Goto
<1>4. audit' \in Seq(AuditRecord)
  BY AuditRecordType DEF SaveAudit
<1>5. gens' \in [Sessions -> Nat \cup {-1}]
  BY <1>1 DEF SaveAudit, TypeInv, TypeOK, Op
<1>6. TypeOK'
  BY <1>2, <1>3, <1>4, <1>5, OpUpdate DEF TypeInv, TypeOK, SaveAudit
<1>7. OpOK'
  BY <1>1, <1>2, <1>3, OpOKKeepsRef DEF SaveAudit
<1>8. HolderIsHead'
  BY <1>2, <1>3, StayInside DEF SaveAudit, At, Critical
<1> QED BY <1>6, <1>7, <1>8 DEF TypeInv

LEMMA LoadMissingType ==
  ASSUME TypeInv, NEW c \in Coroutines, LoadMissing(c)
  PROVE  TypeInv'
  BY RollbackRaisesType DEF LoadMissing, At, TypeInv, TypeOK

LEMMA AuditFailsType ==
  ASSUME TypeInv, NEW c \in Coroutines, AuditFails(c)
  PROVE  TypeInv'
<1>1. At(c, "audit") /\ RollbackRaises(c) /\ faults' \in Nat
  BY DEF AuditFails, TypeInv, TypeOK
<1>2. audit' \in Seq(AuditRecord)
  BY <1>1, AuditRecordType DEF AuditFails, TypeInv, TypeOK
<1> QED BY <1>1, <1>2, RollbackRaisesType DEF At

-----------------------------------------------------------------------------
\* A nonempty set of generations has a lowest one.
LEMMA LowestIsMember ==
  ASSUME NEW S \in SUBSET Nat, S # {}
  PROVE  Lowest(S) \in S /\ \A h \in S : Lowest(S) <= h
<1> DEFINE R == OpToRel(<, Nat)
<1>1. IsWellFoundedOn(R, Nat)
  BY NatLessThanWellFounded
<1>2. \A x, y \in Nat : y < x => <<y, x>> \in R
  BY DEF OpToRel
<1>3. PICK m \in S : \A h \in S : <<h, m>> \notin R
  <2> HIDE DEF R
  <2> QED BY <1>1, WFMin
<1>4. ASSUME NEW h \in S
      PROVE  m <= h
  <2>1. ~ (h < m)
    <3> HIDE DEF R
    <3> QED BY Zenon, <1>2, <1>3
  <2> QED BY <2>1
<1> QED BY <1>4 DEF Lowest

LEMMA GenerationsType ==
  ASSUME TypeInv, NEW s
  PROVE  Generations(s) \in SUBSET Nat
  BY DEF Generations, RowsOf, TypeInv, TypeOK, Row

LEMMA AutoListType ==
  ASSUME TypeInv, NEW c \in Coroutines, AutoList(c)
  PROVE  TypeInv'
<1> DEFINE found == Generations(op[c].sid)
           o == [op[c] EXCEPT !.pc = "auto_scan", !.set = found,
                              !.gen = Lowest(found)]
<1>1. op[c] \in Op /\ op[c].sid \in Sessions
  BY DEF TypeInv, TypeOK, OpOK, AutoList, At
<1>2. found \in SUBSET Nat /\ found # {} /\ Lowest(found) \in Nat
  <2>1. found \in SUBSET Nat /\ found # {}
    BY GenerationsType DEF AutoList
  <2> QED BY <2>1, LowestIsMember
<1>3. op' = [op EXCEPT ![c] = o]
  BY DEF AutoList
<1> HIDE DEF found
<1>4. o \in Op /\ o.pc = "auto_scan" /\ o.sid = op[c].sid /\ o.set = found
  BY <1>1, <1>2 DEF Op, Pcs
<1> HIDE DEF o
<1>5. TypeOK'
  BY <1>3, <1>4, OpUpdate DEF TypeInv, TypeOK, AutoList, storeVars
<1>6. OpOK'
  BY <1>1, <1>2, <1>3, <1>4, OpOKKeepsRef DEF AutoList
<1>7. HolderIsHead'
  BY <1>3, <1>4, OpUpdate DEF AutoList, At, Critical, TypeInv, HolderIsHead
<1> QED BY <1>5, <1>6, <1>7 DEF TypeInv

LEMMA AutoSkipsType ==
  ASSUME TypeInv, NEW c \in Coroutines, AutoSkips(c)
  PROVE  TypeInv'
<1>1. op' = [op EXCEPT ![c] = Idle]
  BY DEF AutoSkips, EndOp
<1>2. TypeOK'
  BY <1>1, IdleType, OpUpdate DEF TypeInv, TypeOK, AutoSkips, storeVars
<1>3. OpOK'
  BY <1>1, IdleType, OpOKKeepsRef DEF AutoSkips
<1>4. HolderIsHead'
  BY <1>1, IdleType, OpUpdate
     DEF AutoSkips, At, Critical, TypeInv, HolderIsHead
<1> QED BY <1>2, <1>3, <1>4 DEF TypeInv

\* What an entry into rollback does to the lock and the operation.
LEMMA RollbackEnters ==
  ASSUME TypeInv, NEW c \in Coroutines, op[c].pc \notin Critical,
         NEW s \in Sessions, NEW g \in Nat, Rollback(c, s, g)
  PROVE  /\ HolderIsHead' /\ lockq' \in [Sessions -> Seq(Coroutines)]
         /\ \E o \in Op : /\ op' = [op EXCEPT ![c] = o] /\ o.sid = s
                          /\ o.pc \in {"load", "rb_lock"}
<1>1. PICK o \in Op : /\ op' = [op EXCEPT ![c] = o] /\ o.sid = s
                      /\ o.pc \in {"load", "rb_lock"}
                      /\ o.pc \in Critical => lockq[s] = <<>>
  <2>1. CASE lockq[s] = <<>>
    BY <2>1, LoadStarts DEF Rollback
  <2>2. CASE lockq[s] # <<>>
    <3> DEFINE o == NewOp("rb_lock", s, g, 0, Nil)
    <3>1. "rb_lock" \in Pcs \ Critical /\ 0 \in Int
      BY DEF Pcs, Critical
    <3>2. o \in Op /\ o.sid = s /\ o.pc = "rb_lock"
      BY <3>1, NewOpType
    <3>3. op' = [op EXCEPT ![c] = o]
      BY <2>2 DEF Rollback
    <3> QED BY <3>1, <3>2, <3>3
  <2> QED BY <2>1, <2>2
<1> QED BY <1>1, Queue DEF Rollback

\* ... and an entry into checkpoint.
LEMMA CheckpointEnters ==
  ASSUME TypeInv, NEW c \in Coroutines, op[c].pc \notin Critical,
         NEW s \in Sessions, NEW v \in Session,
         NEW hold \in Sessions \cup Session, Checkpoint(c, s, v, hold)
  PROVE  /\ HolderIsHead' /\ lockq' \in [Sessions -> Seq(Coroutines)]
         /\ gens' \in [Sessions -> Nat \cup {-1}]
         /\ ref' \in [Coroutines -> {Nil} \cup Sessions \cup Session]
         /\ \A d \in Coroutines : d # c => ref'[d] = ref[d]
         /\ \E o \in Op : /\ op' = [op EXCEPT ![c] = o] /\ o.sid = s
                          /\ o.pc \in {"insert", "ckpt_lock"}
                          /\ o.pc = "insert" => o.img = v
                          /\ o.pc = "ckpt_lock" => ref'[c] # Nil
<1>1. /\ ref' \in [Coroutines -> {Nil} \cup Sessions \cup Session]
      /\ \A d \in Coroutines : d # c => ref'[d] = ref[d]
      /\ lockq[s] # <<>> => ref'[c] # Nil
  <2>1. CASE lockq[s] = <<>>
    BY <2>1 DEF Checkpoint, TypeInv, TypeOK
  <2>2. CASE lockq[s] # <<>>
    <3>1. ref' = [ref EXCEPT ![c] = hold]
      BY <2>2 DEF Checkpoint
    <3>2. hold # Nil
      BY StoreAssumption
    <3> QED BY <3>1, <3>2 DEF TypeInv, TypeOK
  <2> QED BY <2>1, <2>2
<1>2. /\ gens' \in [Sessions -> Nat \cup {-1}]
      /\ \E o \in Op : /\ op' = [op EXCEPT ![c] = o] /\ o.sid = s
                       /\ o.pc \in {"insert", "ckpt_lock"}
                       /\ o.pc = "insert" => o.img = v /\ lockq[s] = <<>>
                       /\ o.pc = "ckpt_lock" => lockq[s] # <<>>
  <2>1. CASE lockq[s] = <<>>
    BY <2>1, SaveStarts DEF Checkpoint
  <2>2. CASE lockq[s] # <<>>
    <3> DEFINE o == NewOp("ckpt_lock", s, 0, 0, Nil)
    <3>1. "ckpt_lock" \in Pcs /\ 0 \in Int /\ 0 \in Nat
      BY DEF Pcs
    <3>2. o \in Op /\ o.sid = s /\ o.pc = "ckpt_lock"
      BY <3>1, NewOpType
    <3>3. op' = [op EXCEPT ![c] = o] /\ gens' = gens
      BY <2>2 DEF Checkpoint
    <3> QED BY <2>2, <3>2, <3>3 DEF TypeInv, TypeOK
  <2> QED BY <2>1, <2>2
<1>3. HolderIsHead' /\ lockq' \in [Sessions -> Seq(Coroutines)]
  BY <1>2, Queue DEF Checkpoint, Critical
<1> QED BY <1>1, <1>2, <1>3

LEMMA AutoScanType ==
  ASSUME TypeInv, NEW c \in Coroutines, AutoScan(c)
  PROVE  TypeInv'
<1> DEFINE s == op[c].sid
           g == Highest(op[c].set)
<1>1. /\ op[c] \in Op /\ s \in Sessions /\ op[c].gen \in Nat
      /\ op[c].pc \notin Critical /\ op[c].set # {}
  BY DEF TypeInv, TypeOK, OpOK, AutoScan, At, Op, Critical
<1>2. UNCHANGED <<sess, ref, storeVars, gens, dirty, sweep, todo, faults>>
  BY DEF AutoScan
<1>3. CASE \E h \in Nat : Rollback(c, s, h)
  <2>1. PICK o \in Op : /\ op' = [op EXCEPT ![c] = o] /\ o.sid = s
                        /\ o.pc \in {"load", "rb_lock"}
    BY <1>1, <1>3, RollbackEnters
  <2>2. HolderIsHead' /\ lockq' \in [Sessions -> Seq(Coroutines)]
    BY <1>1, <1>3, RollbackEnters
  <2>3. TypeOK'
    BY <1>2, <2>1, <2>2, OpUpdate DEF TypeInv, TypeOK, storeVars
  <2>4. OpOK'
    BY <1>1, <1>2, <2>1, OpOKKeepsRef
  <2> QED BY <2>2, <2>3, <2>4 DEF TypeInv
<1>4. CASE /\ op[c].set # {g} /\ lockq' = lockq
           /\ op' = [op EXCEPT ![c] = [@ EXCEPT !.set = op[c].set \ {g}]]
  <2> DEFINE o == [op[c] EXCEPT !.set = op[c].set \ {g}]
  <2>1. op' = [op EXCEPT ![c] = o]
    <3> HIDE DEF g
    <3> QED BY <1>1, <1>4
  <2>2. op[c].set \ {g} \in SUBSET Nat /\ op[c].set \ {g} # {}
    BY <1>1, <1>4 DEF Op
  <2>3. o \in Op /\ o.pc = op[c].pc /\ o.sid = s /\ o.set # {}
    BY <1>1, <2>2 DEF Op
  <2>4. op[c].pc = "auto_scan"
    BY DEF AutoScan, At
  <2> HIDE DEF o
  <2>5. TypeOK'
    BY <1>2, <1>4, <2>1, <2>3, OpUpdate DEF TypeInv, TypeOK, storeVars
  <2>6. OpOK'
    BY <1>1, <1>2, <2>1, <2>3, <2>4, OpOKKeepsRef
  <2>7. HolderIsHead'
    BY <1>1, <1>4, <2>1, <2>3, OpUpdate DEF TypeInv, HolderIsHead
  <2> QED BY <2>5, <2>6, <2>7 DEF TypeInv
<1>5. Safe(s, g) => g \in Nat
  BY GenerationsType DEF Safe
<1> QED BY <1>1, <1>3, <1>4, <1>5 DEF AutoScan

-----------------------------------------------------------------------------
LEMMA MaintIsCoroutine == Maint \in Coroutines
  BY DEF Coroutines

LEMMA FlushNextType ==
  ASSUME TypeInv, NEW s \in Sessions, FlushNext(s)
  PROVE  TypeInv'
<1>1. /\ Maint \in Coroutines /\ op[Maint].pc \notin Critical
      /\ sess[s] \in Session /\ Checkpoint(Maint, s, sess[s], s)
  BY MaintIsCoroutine DEF FlushNext, At, Critical, TypeInv, TypeOK
<1>2. /\ HolderIsHead' /\ lockq' \in [Sessions -> Seq(Coroutines)]
      /\ gens' \in [Sessions -> Nat \cup {-1}]
      /\ ref' \in [Coroutines -> {Nil} \cup Sessions \cup Session]
      /\ \A d \in Coroutines : d # Maint => ref'[d] = ref[d]
  BY <1>1, CheckpointEnters
<1>3. PICK o \in Op : /\ op' = [op EXCEPT ![Maint] = o] /\ o.sid = s
                      /\ o.pc \in {"insert", "ckpt_lock"}
                      /\ o.pc = "insert" => o.img = sess[s]
                      /\ o.pc = "ckpt_lock" => ref'[Maint] # Nil
  BY <1>1, CheckpointEnters
<1>4. TypeOK'
  BY <1>1, <1>2, <1>3, OpUpdate DEF TypeInv, TypeOK, FlushNext, storeVars
<1>5. OpOK'
  BY <1>1, <1>2, <1>3, OpOKStep DEF TypeInv, OpOK
<1> QED BY <1>2, <1>4, <1>5 DEF TypeInv

\* Steps that move no coroutine.
LEMMA SweepType ==
  ASSUME TypeInv, Wake \/ Purge \/ TimePasses
  PROVE  TypeInv'
<1>1. UNCHANGED <<ref, op, lockq>>
  BY DEF Wake, Purge, TimePasses
<1>2. TypeOK'
  BY DEF TypeInv, TypeOK, Wake, Purge, TimePasses, PurgeExpired,
         RetentionPasses, storeVars
<1> QED BY <1>1, <1>2 DEF TypeInv, OpOK, HolderIsHead, At

LEMMA EngineCallType ==
  ASSUME TypeInv, EngineCall
  PROVE  TypeInv'
<1>1. /\ sess' \in [Sessions -> Session]
      /\ ref' \in [Coroutines -> {Nil} \cup Sessions \cup Session]
      /\ \A d \in Coroutines : At(d, "ckpt_lock") => ref'[d] = ref[d]
      /\ UNCHANGED <<storeVars, sweep, todo, faults>>
  BY DEF EngineCall, CallersMayChangeSessions
<1>2. \A d \in Coroutines : At(d, "ckpt_lock") => ref'[d] # Nil
  BY <1>1 DEF TypeInv, OpOK
<1>3. Tasks \subseteq Coroutines
  BY DEF Coroutines
<1>4. CASE \E c \in Tasks, s \in Sessions, v \in Session,
              hold \in Sessions \cup Session :
             At(c, "idle") /\ Checkpoint(c, s, v, hold) /\ UNCHANGED dirty
  <2>1. PICK c \in Tasks, s \in Sessions, v \in Session,
             hold \in Sessions \cup Session :
               At(c, "idle") /\ Checkpoint(c, s, v, hold) /\ UNCHANGED dirty
    BY <1>4
  <2>2. c \in Coroutines /\ op[c].pc \notin Critical
    BY <1>3, <2>1 DEF At, Critical
  <2>3. /\ HolderIsHead' /\ lockq' \in [Sessions -> Seq(Coroutines)]
        /\ gens' \in [Sessions -> Nat \cup {-1}]
    BY <2>1, <2>2, CheckpointEnters
  <2>4. PICK o \in Op : /\ op' = [op EXCEPT ![c] = o] /\ o.sid = s
                        /\ o.pc \in {"insert", "ckpt_lock"}
                        /\ o.pc = "insert" => o.img = v
                        /\ o.pc = "ckpt_lock" => ref'[c] # Nil
    BY <2>1, <2>2, CheckpointEnters
  <2>5. TypeOK'
    BY <1>1, <2>1, <2>2, <2>3, <2>4, OpUpdate DEF TypeInv, TypeOK, storeVars
  <2>6. OpOK'
    BY <1>2, <2>2, <2>4, OpOKStep
  <2> QED BY <2>3, <2>5, <2>6 DEF TypeInv
<1>5. CASE \E c \in Tasks, s \in Sessions, g \in Targets :
             At(c, "idle") /\ Rollback(c, s, g) /\ UNCHANGED <<gens, dirty>>
  <2>1. PICK c \in Tasks, s \in Sessions, g \in Targets :
             At(c, "idle") /\ Rollback(c, s, g) /\ UNCHANGED <<gens, dirty>>
    BY <1>5
  <2>2. c \in Coroutines /\ op[c].pc \notin Critical /\ g \in Nat
    BY <1>3, <2>1, EngineAssumption DEF At, Critical
  <2>3. HolderIsHead' /\ lockq' \in [Sessions -> Seq(Coroutines)]
    BY <2>1, <2>2, RollbackEnters
  <2>4. PICK o \in Op : /\ op' = [op EXCEPT ![c] = o] /\ o.sid = s
                        /\ o.pc \in {"load", "rb_lock"}
    BY <2>1, <2>2, RollbackEnters
  <2>5. TypeOK'
    BY <1>1, <2>1, <2>2, <2>3, <2>4, OpUpdate DEF TypeInv, TypeOK, storeVars
  <2>6. OpOK'
    BY <1>2, <2>2, <2>4, OpOKStep
  <2> QED BY <2>3, <2>5, <2>6 DEF TypeInv
<1>6. CASE \E c \in Tasks, s \in Sessions :
             /\ At(c, "idle") /\ StartAuto(c, s)
             /\ UNCHANGED <<gens, dirty, lockq>>
  <2>1. PICK c \in Tasks, s \in Sessions :
             /\ At(c, "idle") /\ StartAuto(c, s)
             /\ UNCHANGED <<gens, dirty, lockq>>
    BY <1>6
  <2> DEFINE o == NewOp("auto_list", s, 0, 0, Nil)
  <2>2. c \in Coroutines /\ op[c].pc \notin Critical
    BY <1>3, <2>1 DEF At, Critical
  <2>3. "auto_list" \in Pcs \ Critical /\ 0 \in Int /\ 0 \in Nat
    BY DEF Pcs, Critical
  <2>4. o \in Op /\ o.sid = s /\ o.pc = "auto_list"
    BY <2>3, NewOpType
  <2>5. op' = [op EXCEPT ![c] = o]
    BY <2>1 DEF StartAuto
  <2> HIDE DEF o
  <2>6. TypeOK'
    BY <1>1, <2>1, <2>2, <2>4, <2>5, OpUpdate DEF TypeInv, TypeOK, storeVars
  <2>7. OpOK'
    BY <1>2, <2>2, <2>4, <2>5, OpOKStep
  <2>8. HolderIsHead'
    BY <2>1, <2>2, <2>3, <2>4, <2>5, OpUpdate DEF TypeInv, HolderIsHead
  <2> QED BY <2>6, <2>7, <2>8 DEF TypeInv
<1>7. CASE dirty' \subseteq dirty \cup Sessions /\ UNCHANGED <<gens, lockq, op>>
  <2>1. TypeOK'
    BY <1>1, <1>7 DEF TypeInv, TypeOK, storeVars
  <2> QED BY <1>2, <1>7, <2>1 DEF TypeInv, OpOK, HolderIsHead, At
<1> QED BY <1>4, <1>5, <1>6, <1>7 DEF EngineCall

-----------------------------------------------------------------------------
LEMMA InitType == EngineInit => TypeInv
<1> SUFFICES ASSUME EngineInit PROVE TypeInv
  OBVIOUS
<1>1. \A c \in Coroutines : op[c] = Idle /\ Idle \in Op /\ Idle.pc = "idle"
  BY IdleType DEF EngineInit
<1>2. Fresh \in Session
  BY StoreAssumption DEF Fresh, Session, Statuses
<1>3. /\ sess \in [Sessions -> Session]
      /\ op \in [Coroutines -> Op]
      /\ gens \in [Sessions -> Nat \cup {-1}]
      /\ lockq \in [Sessions -> Seq(Coroutines)]
      /\ audit \in Seq(AuditRecord)
  BY <1>1, <1>2, EmptySeq DEF EngineInit
<1>4. TypeOK
  BY <1>3 DEF EngineInit, TypeOK
<1>5. OpOK /\ HolderIsHead
  BY <1>1 DEF OpOK, HolderIsHead, At, Critical
<1> QED BY <1>4, <1>5 DEF TypeInv

LEMMA OpStepType ==
  ASSUME TypeInv, NEW c \in Coroutines, OpStep(c)
  PROVE  TypeInv'
<1>1. CASE InsertConflicts(c) \/ SaveFails(c)
  <2>1. op[c].pc \in {"insert", "commit"} /\ SaveFailed(c) /\ faults' \in Nat
    BY <1>1 DEF InsertConflicts, SaveFails, At, TypeInv, TypeOK
  <2> QED BY <2>1, SaveFailedType
<1> QED BY <1>1, CheckpointGrantedType, InsertType, CommitType, ListOldType,
           DeleteOldType, EndsType, AutoListType, AutoSkipsType, AutoScanType,
           RollbackGrantedType, LoadType, LoadMissingType, SaveAuditType,
           AuditFailsType
        DEF OpStep, CheckpointStep, RollbackStep

LEMMA StepType == TypeInv /\ [EngineNext]_vars => TypeInv'
<1> SUFFICES ASSUME TypeInv, [EngineNext]_vars PROVE TypeInv'
  OBVIOUS
<1>1. CASE EngineNext
  BY <1>1, EngineCallType, OpStepType, FlushNextType, SweepType
     DEF EngineNext, Maintenance
<1>2. CASE UNCHANGED vars
  BY <1>2 DEF vars, TypeInv, TypeOK, OpOK, HolderIsHead, At
<1> QED BY <1>1, <1>2

\* The inductive invariant behind the next two theorems.
THEOREM TypeInvariance == EngineSpec => []TypeInv
  BY InitType, StepType, PTL DEF EngineSpec

\* Type correctness, whatever the callers of the engine do (engine.py, all
\* operations): in particular no session or snapshot exceeds its step budget
\* as long as the callers' own changes to sessions do not.
THEOREM TypeCorrect == EngineSpec => []TypeOK
<1>1. TypeInv => TypeOK
  BY DEF TypeInv
<1> QED BY <1>1, TypeInvariance, PTL

\* The critical sections of checkpoint, rollback and the flush exclude one
\* another for each session, for any callers (engine.py, _session_locks).
THEOREM MutualExclusion == EngineSpec => []OneWriterPerSession
<1>1. TypeInv => OneWriterPerSession
  BY DEF TypeInv, HolderIsHead, OneWriterPerSession, InCritical
<1> QED BY <1>1, TypeInvariance, PTL

-----------------------------------------------------------------------------
(***************************************************************************)
(* The rows of a session and the generation counter                        *)
(***************************************************************************)

\* What the operation of c knows of the rows and of the counter.
OpRows(c) ==
  LET s == op[c].sid
      g == op[c].gen
  IN
  /\ At(c, "insert") =>
        /\ gens[s] = g
        /\ \/ g - 1 \in Generations(s)
           \/ faults > 0 /\ g \in Generations(s)
           \/ g = 0 /\ Generations(s) = {}
  /\ op[c].pc \in {"commit", "list_old", "delete_old"} =>
        /\ gens[s] = g
        /\ g \in Generations(s)
        /\ \A h \in Generations(s) : h <= g
  /\ At(c, "delete_old") =>
        /\ g \notin op[c].set
        /\ \A x \in op[c].set, h \in Generations(s) :
              h <= x => h \in op[c].set
  /\ op[c].pc \in {"ckpt_log", "audit"} => g \in Generations(s)

Interval(s) ==
  \A a, b \in Generations(s) : \A g \in a..b : g \in Generations(s)

SessionRows(s) ==
  /\ Interval(s)
  /\ \/ CounterOnRows(s)
     \/ \E c \in Coroutines : At(c, "insert") /\ op[c].sid = s

RowsInv ==
  /\ expired = {}
  /\ \A c \in Coroutines : OpRows(c)
  /\ \A s \in Sessions : SessionRows(s)

\* No other coroutine is in the critical section for s.
Alone(c, s) ==
  \A d \in Coroutines : d # c /\ op[d].pc \in Critical => op[d].sid # s

LEMMA InsideAlone ==
  ASSUME TypeInv, NEW c \in Coroutines,
         op[c].pc \in Critical \/ Granted(c)
  PROVE  Alone(c, op[c].sid)
  BY DEF TypeInv, HolderIsHead, Alone, Granted

LEMMA FreeAlone ==
  ASSUME TypeInv, NEW c \in Coroutines, NEW s \in Sessions, lockq[s] = <<>>
  PROVE  Alone(c, s)
  BY DEF TypeInv, HolderIsHead, Alone

\* A step of c that, alone in the critical section, touches the rows and the
\* counter of s only, has to be checked for c and for s only.
LEMMA Frame ==
  ASSUME TypeInv, RowsInv, NEW c \in Coroutines, NEW s \in Sessions,
         Alone(c, s),
         \A d \in Coroutines : d # c => op'[d] = op[d],
         \A z \in Sessions : z # s =>
            Generations(z)' = Generations(z) /\ gens'[z] = gens[z],
         faults' \in Nat, faults' >= faults, expired' = {},
         At(c, "insert") => op[c].sid = s,
         OpRows(c)', SessionRows(s)'
  PROVE  RowsInv'
<1>1. faults > 0 => faults' > 0
  BY DEF TypeInv, TypeOK
<1>2. ASSUME NEW d \in Coroutines, d # c
      PROVE  OpRows(d)'
  <2>1. CASE op[d].pc \in Critical
    <3>1. op'[d] = op[d] /\ op[d].sid \in Sessions /\ op[d].sid # s
      BY <1>2, <2>1 DEF Alone, TypeInv, OpOK, At, Critical
    <3>2. /\ Generations(op[d].sid)' = Generations(op[d].sid)
          /\ gens'[op[d].sid] = gens[op[d].sid]
      BY <3>1
    <3>3. OpRows(d)
      BY DEF RowsInv
    <3> QED BY <1>1, <3>1, <3>2, <3>3 DEF OpRows, At
  <2>2. CASE op[d].pc \notin Critical
    BY <1>2, <2>2 DEF OpRows, At, Critical
  <2> QED BY <2>1, <2>2
<1>3. ASSUME NEW z \in Sessions, z # s
      PROVE  SessionRows(z)'
  <2>1. Generations(z)' = Generations(z) /\ gens'[z] = gens[z]
    BY <1>3
  <2>2. SessionRows(z)
    BY DEF RowsInv
  <2>3. Interval(z)'
    BY <2>1, <2>2 DEF SessionRows, Interval
  <2>4. CASE CounterOnRows(z)
    <3>1. CounterOnRows(z)'
      BY <1>1, <2>1, <2>4 DEF CounterOnRows
    <3> QED BY <2>3, <3>1 DEF SessionRows
  <2>5. CASE \E d \in Coroutines : At(d, "insert") /\ op[d].sid = z
    <3>1. PICK d \in Coroutines : At(d, "insert") /\ op[d].sid = z
      BY <2>5
    <3>2. d # c /\ op'[d] = op[d]
      BY <1>3, <3>1
    <3> QED BY <2>3, <3>1, <3>2 DEF SessionRows, At
  <2> QED BY <2>2, <2>4, <2>5 DEF SessionRows
<1> QED BY <1>2, <1>3 DEF RowsInv

\* Where OpRows says nothing.
Silent == {"idle", "ckpt_lock", "ckpt_err", "auto_list", "auto_scan",
           "rb_lock", "load", "rb_log"}

\* A step that leaves rows and counters as they are and moves coroutines to
\* silent labels only.
LEMMA Untouched ==
  ASSUME TypeInv, RowsInv, UNCHANGED <<snapshots, expired, gens>>,
         faults' \in Nat, faults' >= faults,
         \A d \in Coroutines : \/ op'[d] = op[d]
                               \/ op[d].pc # "insert" /\ op'[d].pc \in Silent
  PROVE  RowsInv'
<1>1. \A z : Generations(z)' = Generations(z)
  BY DEF Generations, RowsOf
<1>2. faults > 0 => faults' > 0
  BY DEF TypeInv, TypeOK
<1>3. ASSUME NEW d \in Coroutines
      PROVE  OpRows(d)'
  <2>1. OpRows(d)
    BY DEF RowsInv
  <2>2. CASE op'[d] = op[d]
    <3>1. Generations(op[d].sid)' = Generations(op[d].sid)
      BY <1>1, <2>2
    <3> QED BY <1>2, <2>1, <2>2, <3>1 DEF OpRows, At
  <2>3. CASE op'[d].pc \in Silent
    BY <2>3 DEF OpRows, At, Silent
  <2> QED BY <2>2, <2>3
<1>4. ASSUME NEW z \in Sessions
      PROVE  SessionRows(z)'
  <2>1. SessionRows(z)
    BY DEF RowsInv
  <2>2. Interval(z)'
    BY <1>1, <2>1 DEF SessionRows, Interval
  <2>3. CASE CounterOnRows(z)
    <3>1. CounterOnRows(z)'
      BY <1>1, <1>2, <2>3 DEF CounterOnRows
    <3> QED BY <2>2, <3>1 DEF SessionRows
  <2>4. CASE \E d \in Coroutines : At(d, "insert") /\ op[d].sid = z
    <3>1. PICK d \in Coroutines : At(d, "insert") /\ op[d].sid = z
      BY <2>4
    <3>2. op'[d] = op[d]
      BY <3>1 DEF At
    <3> QED BY <2>2, <3>1, <3>2 DEF SessionRows, At
  <2> QED BY <2>1, <2>3, <2>4 DEF SessionRows
<1> QED BY <1>3, <1>4 DEF RowsInv

\* Nobody else saves s, so between saves the counter is on the rows.
LEMMA CounterKnown ==
  ASSUME TypeInv, RowsInv, NEW c \in Coroutines, NEW s \in Sessions,
         Alone(c, s), ~ At(c, "insert")
  PROVE  CounterOnRows(s)
  BY DEF RowsInv, SessionRows, Alone, At, Critical

LEMMA StartSaveRows ==
  ASSUME TypeInv, RowsInv, NEW c \in Coroutines, NEW s \in Sessions,
         NEW v \in Session, Alone(c, s), ~ At(c, "insert"),
         StartSave(c, s, v), UNCHANGED <<snapshots, expired, faults>>
  PROVE  RowsInv'
<1>1. CounterOnRows(s)
  BY CounterKnown
<1>2. gens[s] \in Nat \cup {-1}
  BY DEF TypeInv, TypeOK
<1>3. gens'[s] = gens[s] + 1 /\ \A z \in Sessions : z # s => gens'[z] = gens[z]
  BY DEF StartSave, TypeInv, TypeOK
<1>4. /\ op'[c].pc = "insert" /\ op'[c].sid = s /\ op'[c].gen = gens[s] + 1
      /\ \A d \in Coroutines : d # c => op'[d] = op[d]
  BY DEF StartSave, NewOp, TypeInv, TypeOK
<1>5. \A z : Generations(z)' = Generations(z)
  BY DEF Generations, RowsOf
<1>6. OpRows(c)'
  <2>1. Generations(op[c].sid)' = Generations(s)
    BY <1>4, <1>5
  <2>2. \/ op'[c].gen - 1 \in Generations(s)
        \/ faults' > 0 /\ op'[c].gen \in Generations(s)
        \/ op'[c].gen = 0 /\ Generations(s) = {}
    BY <1>1, <1>2, <1>4 DEF CounterOnRows
  <2> QED BY <1>3, <1>4, <2>1, <2>2 DEF OpRows, At
<1>7. SessionRows(s)'
  <2>1. Interval(s)'
    BY <1>5 DEF RowsInv, SessionRows, Interval
  <2> QED BY <1>4, <2>1 DEF SessionRows, At
<1>8. faults' \in Nat /\ faults' >= faults /\ expired' = {}
  BY DEF TypeInv, TypeOK, RowsInv
<1> QED BY <1>3, <1>4, <1>5, <1>6, <1>7, <1>8, Frame

\* What InsertSnapshot and DeleteSnapshots do to the generations.
LEMMA InsertedGenerations ==
  ASSUME NEW s, NEW g, NEW v, InsertSnapshot(s, g, v)
  PROVE  /\ Generations(s)' = Generations(s) \cup {g}
         /\ \A z : z # s => Generations(z)' = Generations(z)
<1> DEFINE new == [sid |-> s, gen |-> g, img |-> v]
<1>1. snapshots' = snapshots \cup {new} /\ new.sid = s /\ new.gen = g
  BY DEF InsertSnapshot
<1> HIDE DEF new
<1>2. \A z, h : h \in Generations(z) <=> \E r \in snapshots : r.sid = z /\ r.gen = h
  BY DEF Generations, RowsOf
<1>3. \A z, h : h \in Generations(z)' <=> \E r \in snapshots' : r.sid = z /\ r.gen = h
  BY DEF Generations, RowsOf
<1>4. \A h : h \in Generations(s)' <=> h \in Generations(s) \cup {g}
  BY <1>1, <1>2, <1>3
<1>5. \A z : z # s => \A h : h \in Generations(z)' <=> h \in Generations(z)
  BY <1>1, <1>2, <1>3
<1> QED BY <1>4, <1>5 DEF Generations

LEMMA DeletedGenerations ==
  ASSUME NEW s, NEW gone, DeleteSnapshots(s, gone)
  PROVE  /\ Generations(s)' = Generations(s) \ gone
         /\ \A z : z # s => Generations(z)' = Generations(z)
<1>1. snapshots' = {r \in snapshots : r.sid # s \/ r.gen \notin gone}
  BY DEF DeleteSnapshots
<1>2. \A z, h : h \in Generations(z) <=> \E r \in snapshots : r.sid = z /\ r.gen = h
  BY DEF Generations, RowsOf
<1>3. \A z, h : h \in Generations(z)' <=> \E r \in snapshots' : r.sid = z /\ r.gen = h
  BY DEF Generations, RowsOf
<1>4. \A h : h \in Generations(s)' <=> h \in Generations(s) \ gone
  BY <1>1, <1>2, <1>3
<1>5. \A z : z # s => \A h : h \in Generations(z)' <=> h \in Generations(z)
  BY <1>1, <1>2, <1>3
<1> QED BY <1>4, <1>5 DEF Generations

\* A row that is inserted goes above all the rows of its session.
LEMMA InsertOnTop ==
  ASSUME TypeInv, RowsInv, NEW c \in Coroutines, Insert(c)
  PROVE  \A h \in Generations(op[c].sid) : h < op[c].gen
<1>1. PICK s \in Sessions, g \in Nat :
         op[c].pc = "insert" /\ op[c].sid = s /\ op[c].gen = g
  BY DEF TypeInv, TypeOK, OpOK, Insert, At, Op
<1> DEFINE G == Generations(s)
<1>2. g \notin G
  BY <1>1 DEF Insert, InsertSnapshot
<1>3. g - 1 \in G \/ G = {}
  BY <1>1, <1>2 DEF RowsInv, OpRows, At
<1>4. G \in SUBSET Nat /\ \A a, b \in G : \A x \in a..b : x \in G
  BY GenerationsType DEF RowsInv, SessionRows, Interval
<1> HIDE DEF G
<1>5. ASSUME g - 1 \in G, NEW h \in G
      PROVE  h < g
  <2>1. h \in Nat /\ g - 1 \in Nat
    BY <1>4, <1>5
  <2>2. h >= g => g \in (g - 1)..h
    BY <2>1
  <2> QED BY <1>2, <1>4, <1>5, <2>1, <2>2
<1>6. \A h \in G : h < g
  BY <1>3, <1>5
<1> QED BY <1>1, <1>6 DEF G

LEMMA InsertRows ==
  ASSUME TypeInv, RowsInv, NEW c \in Coroutines, Insert(c)
  PROVE  RowsInv'
<1>1. PICK s \in Sessions, g \in Nat :
         op[c].pc = "insert" /\ op[c].sid = s /\ op[c].gen = g /\ Alone(c, s)
  BY InsideAlone DEF TypeInv, TypeOK, OpOK, Insert, At, Critical, Op
<1> DEFINE G == Generations(s)
<1>2. /\ op'[c].pc = "commit" /\ op'[c].sid = s /\ op'[c].gen = g
      /\ \A d \in Coroutines : d # c => op'[d] = op[d]
  BY <1>1 DEF Insert, TypeInv, TypeOK, Op
<1>3. /\ Generations(s)' = G \cup {g} /\ g \notin G
      /\ \A z : z # s => Generations(z)' = Generations(z)
  <2>1. InsertSnapshot(s, g, op[c].img)
    BY <1>1 DEF Insert
  <2> QED BY <2>1, InsertedGenerations DEF InsertSnapshot
<1>4. UNCHANGED <<gens, faults, expired>>
  BY DEF Insert
<1>5. gens[s] = g /\ (g - 1 \in G \/ G = {})
  BY <1>1, <1>3 DEF RowsInv, OpRows, At
<1>6. G \in SUBSET Nat /\ \A a, b \in G : \A x \in a..b : x \in G
  BY GenerationsType DEF RowsInv, SessionRows, Interval
<1> HIDE DEF G
<1>7. \A h \in G : h < g
  BY <1>1, InsertOnTop DEF G
<1>8. \A a, b \in G \cup {g} : \A x \in a..b : x \in G \cup {g}
  <2> SUFFICES ASSUME NEW a \in G \cup {g}, NEW b \in G \cup {g},
                      NEW x \in a..b, x # g
               PROVE  x \in G
    OBVIOUS
  <2>1. a \in Nat /\ b \in Nat /\ a <= x /\ x <= b /\ x \in Int
    BY <1>6
  <2>2. a \in G
    BY <1>7, <2>1
  <2>3. CASE b \in G
    BY <1>6, <2>2, <2>3
  <2>4. CASE b = g
    <3>1. g - 1 \in G
      BY <1>5, <2>2
    <3>2. x \in a..(g - 1)
      BY <2>1, <2>4
    <3> QED BY <1>6, <2>2, <3>1, <3>2
  <2> QED BY <2>3, <2>4
<1>9. OpRows(c)'
  <2>1. \A h \in G \cup {g} : h <= g
    BY <1>6, <1>7
  <2>2. Generations(op[c].sid)' = G \cup {g}
    BY <1>2, <1>3
  <2> QED BY <1>2, <1>4, <1>5, <2>1, <2>2 DEF OpRows, At
<1>10. SessionRows(s)'
  <2>1. Generations(s)' = G \cup {g} /\ gens'[s] = g
    BY <1>3, <1>4, <1>5
  <2> QED BY <1>8, <2>1 DEF SessionRows, Interval, CounterOnRows
<1>11. faults' \in Nat /\ faults' >= faults /\ expired' = {}
  BY <1>4 DEF TypeInv, TypeOK, RowsInv
<1> QED BY <1>1, <1>2, <1>3, <1>4, <1>9, <1>10, <1>11, Frame

LEMMA SaveFailedRows ==
  ASSUME TypeInv, RowsInv, NEW c \in Coroutines,
         InsertConflicts(c) \/ SaveFails(c)
  PROVE  RowsInv'
<1>1. SaveFailed(c) /\ op[c].pc \in {"insert", "commit"}
  BY DEF InsertConflicts, SaveFails, At
<1>2. PICK s \in Sessions, g \in Nat :
         op[c].sid = s /\ op[c].gen = g /\ Alone(c, s)
  BY <1>1, InsideAlone DEF TypeInv, TypeOK, OpOK, At, Critical, Op
<1>3. /\ op'[c].pc = "ckpt_err" /\ gens'[s] = g - 1
      /\ \A d \in Coroutines : d # c => op'[d] = op[d]
      /\ \A z \in Sessions : z # s => gens'[z] = gens[z]
  BY <1>1, <1>2 DEF SaveFailed, TypeInv, TypeOK, Op
<1>4. \A z : Generations(z)' = Generations(z)
  BY <1>1 DEF SaveFailed, storeVars, Generations, RowsOf
<1>5. /\ faults' \in Nat /\ faults' >= faults /\ expired' = {}
      /\ faults > 0 => faults' > 0
      /\ op[c].pc = "commit" => faults' > 0
  BY <1>1 DEF InsertConflicts, SaveFails, SaveFailed, storeVars, TypeInv,
              TypeOK, RowsInv, At
<1>6. OpRows(c)'
  BY <1>3 DEF OpRows, At
<1>7. CounterOnRows(s)'
  <2>1. \/ g - 1 \in Generations(s)
        \/ faults > 0 /\ g \in Generations(s)
        \/ g = 0 /\ Generations(s) = {}
        \/ op[c].pc = "commit" /\ g \in Generations(s)
    BY <1>1, <1>2 DEF RowsInv, OpRows, At
  <2>2. \/ gens'[s] \in Generations(s)
        \/ faults' > 0 /\ gens'[s] + 1 \in Generations(s)
        \/ gens'[s] = -1 /\ Generations(s) = {}
    BY <1>3, <1>5, <2>1
  <2> QED BY <1>4, <2>2 DEF CounterOnRows
<1>8. SessionRows(s)'
  <2>1. Interval(s)'
    BY <1>4 DEF RowsInv, SessionRows, Interval
  <2> QED BY <1>7, <2>1 DEF SessionRows
<1> QED BY <1>2, <1>3, <1>4, <1>5, <1>6, <1>8, Frame

LEMMA CommitRows ==
  ASSUME TypeInv, RowsInv, NEW c \in Coroutines, Commit(c)
  PROVE  RowsInv'
<1>1. PICK s \in Sessions, g \in Nat :
         op[c].pc = "commit" /\ op[c].sid = s /\ op[c].gen = g /\ Alone(c, s)
  BY InsideAlone DEF TypeInv, TypeOK, OpOK, Commit, At, Critical, Op
<1>2. /\ op'[c].pc = "list_old" /\ op'[c].sid = s /\ op'[c].gen = g
      /\ \A d \in Coroutines : d # c => op'[d] = op[d]
  BY <1>1 DEF Commit, Goto, TypeInv, TypeOK, Op
<1>3. \A z : Generations(z)' = Generations(z)
  BY DEF Commit, storeVars, Generations, RowsOf
<1>4. UNCHANGED <<gens, faults, expired>>
  BY DEF Commit, storeVars
<1>5. gens[s] = g /\ g \in Generations(s) /\ \A h \in Generations(s) : h <= g
  BY <1>1 DEF RowsInv, OpRows
<1>6. OpRows(c)'
  <2>1. Generations(op[c].sid)' = Generations(s)
    BY <1>2, <1>3
  <2> QED BY <1>2, <1>4, <1>5, <2>1 DEF OpRows, At
<1>7. SessionRows(s)'
  <2>1. Interval(s)'
    BY <1>3 DEF RowsInv, SessionRows, Interval
  <2>2. gens'[s] \in Generations(s)'
    BY <1>3, <1>4, <1>5
  <2> QED BY <2>1, <2>2 DEF SessionRows, CounterOnRows
<1>8. faults' \in Nat /\ faults' >= faults /\ expired' = {}
  BY <1>4 DEF TypeInv, TypeOK, RowsInv
<1> QED BY <1>1, <1>2, <1>3, <1>4, <1>6, <1>7, <1>8, Frame

\* delete_old_snapshots never lists the highest generation, and with a
\* generation it lists every lower one.
LEMMA ExcessIsBottom ==
  ASSUME NEW s, NEW g \in Nat, Generations(s) \in SUBSET Nat,
         \A h \in Generations(s) : h <= g
  PROVE  /\ g \notin Excess(s, Depth)
         /\ \A x \in Excess(s, Depth), h \in Generations(s) :
               h <= x => h \in Excess(s, Depth)
<1> DEFINE G == Generations(s)
           Above(x) == {h \in G : h > x}
<1>1. \A x \in G : IsFiniteSet(Above(x)) /\ Cardinality(Above(x)) \in Nat
  <2>1. IsFiniteSet(0..g)
    BY FS_Interval
  <2>2. \A x \in G : Above(x) \subseteq 0..g
    OBVIOUS
  <2> HIDE DEF Above
  <2> QED BY <2>1, <2>2, FS_Subset, FS_CardinalityType
<1>2. g \notin Excess(s, Depth)
  <2>1. Above(g) = {}
    OBVIOUS
  <2>2. Cardinality(Above(g)) = 0
    BY <2>1, FS_EmptySet
  <2> QED BY <2>2, DepthAssumption DEF Excess
<1>3. ASSUME NEW x \in Excess(s, Depth), NEW h \in G, h <= x
      PROVE  h \in Excess(s, Depth)
  <2>1. x \in G /\ Cardinality(Above(x)) >= Depth
    BY DEF Excess
  <2>2. Above(x) \subseteq Above(h)
    BY <1>3, <2>1
  <2>3. Cardinality(Above(x)) <= Cardinality(Above(h))
    <3> HIDE DEF Above
    <3> QED BY <1>1, <2>1, <2>2, FS_Subset
  <2>4. Cardinality(Above(h)) >= Depth
    <3> HIDE DEF Above
    <3> QED BY <1>1, <2>1, <2>3, DepthAssumption
  <2> QED BY <2>4 DEF Excess
<1> QED BY <1>2, <1>3

LEMMA ListOldRows ==
  ASSUME TypeInv, RowsInv, NEW c \in Coroutines, ListOld(c)
  PROVE  RowsInv'
<1>1. PICK s \in Sessions, g \in Nat :
         op[c].pc = "list_old" /\ op[c].sid = s /\ op[c].gen = g /\ Alone(c, s)
  BY InsideAlone DEF TypeInv, TypeOK, OpOK, ListOld, At, Critical, Op
<1> PICK excess : excess = Excess(s, Depth)
  OBVIOUS
<1>2. /\ op'[c].pc \in {"ckpt_log", "delete_old"}
      /\ op'[c].sid = s /\ op'[c].gen = g /\ op'[c].set = excess
      /\ \A d \in Coroutines : d # c => op'[d] = op[d]
  BY <1>1 DEF ListOld, TypeInv, TypeOK, Op
<1>3. \A z : Generations(z)' = Generations(z)
  BY DEF ListOld, storeVars, Generations, RowsOf
<1>4. UNCHANGED <<gens, faults, expired>>
  BY DEF ListOld, storeVars
<1>5. gens[s] = g /\ g \in Generations(s) /\ \A h \in Generations(s) : h <= g
  BY <1>1 DEF RowsInv, OpRows
<1>6. /\ g \notin excess
      /\ \A x \in excess, h \in Generations(s) : h <= x => h \in excess
  BY <1>5, GenerationsType, ExcessIsBottom
<1>7. OpRows(c)'
  <2>1. Generations(op[c].sid)' = Generations(s)
    BY <1>2, <1>3
  <2>2. CASE op'[c].pc = "ckpt_log"
    BY <1>2, <1>5, <2>1, <2>2 DEF OpRows, At
  <2>3. CASE op'[c].pc = "delete_old"
    <3>1. /\ op'[c].gen \notin op'[c].set
          /\ \A x \in op'[c].set, h \in Generations(s) :
                h <= x => h \in op'[c].set
      BY <1>2, <1>6
    <3>2. /\ gens'[s] = op'[c].gen /\ op'[c].gen \in Generations(s)
          /\ \A h \in Generations(s) : h <= op'[c].gen
      BY <1>2, <1>4, <1>5
    <3> QED BY <1>2, <2>1, <2>3, <3>1, <3>2 DEF OpRows, At
  <2> QED BY <1>2, <2>2, <2>3
<1>8. SessionRows(s)'
  <2>1. Interval(s)'
    BY <1>3 DEF RowsInv, SessionRows, Interval
  <2>2. gens'[s] \in Generations(s)'
    BY <1>3, <1>4, <1>5
  <2> QED BY <2>1, <2>2 DEF SessionRows, CounterOnRows
<1>9. faults' \in Nat /\ faults' >= faults /\ expired' = {}
  BY <1>4 DEF TypeInv, TypeOK, RowsInv
<1> QED BY <1>1, <1>2, <1>3, <1>4, <1>7, <1>8, <1>9, Frame

\* Taking generations off the bottom leaves an interval.
LEMMA BottomOff ==
  ASSUME NEW G \in SUBSET Nat, NEW gone,
         \A a, b \in G : \A x \in a..b : x \in G,
         \A x \in gone, h \in G : h <= x => h \in gone
  PROVE  \A a, b \in G \ gone : \A x \in a..b : x \in G \ gone
  OBVIOUS

LEMMA DeleteOldRows ==
  ASSUME TypeInv, RowsInv, NEW c \in Coroutines, DeleteOld(c)
  PROVE  RowsInv'
<1>1. PICK s \in Sessions, g \in Nat :
         /\ op[c].pc = "delete_old" /\ op[c].sid = s /\ op[c].gen = g
         /\ Alone(c, s)
  BY InsideAlone DEF TypeInv, TypeOK, OpOK, DeleteOld, At, Critical, Op
<1>2. /\ op'[c].pc = "ckpt_log" /\ op'[c].sid = s /\ op'[c].gen = g
      /\ \A d \in Coroutines : d # c => op'[d] = op[d]
  BY <1>1 DEF DeleteOld, TypeInv, TypeOK, Op
<1>3. PICK gone : gone = op[c].set
  OBVIOUS
<1>4. /\ Generations(s)' = Generations(s) \ gone
      /\ \A z : z # s => Generations(z)' = Generations(z)
  BY <1>1, <1>3, DeletedGenerations DEF DeleteOld
<1>5. UNCHANGED <<gens, faults>> /\ expired' = {}
  BY DEF DeleteOld, DeleteSnapshots, RowsInv
<1>6. /\ gens[s] = g /\ g \in Generations(s) /\ g \notin gone
      /\ \A x \in gone, h \in Generations(s) : h <= x => h \in gone
  BY <1>1, <1>3 DEF RowsInv, OpRows, At
<1>7. OpRows(c)'
  <2>1. Generations(op[c].sid)' = Generations(s) \ gone
    BY <1>2, <1>4
  <2> QED BY <1>2, <1>6, <2>1 DEF OpRows, At
<1>8. SessionRows(s)'
  <2>1. \A a, b \in Generations(s) : \A x \in a..b : x \in Generations(s)
    BY DEF RowsInv, SessionRows, Interval
  <2>2. Interval(s)'
    BY <1>4, <1>6, <2>1, BottomOff, GenerationsType DEF Interval
  <2>3. gens'[s] \in Generations(s)'
    BY <1>4, <1>5, <1>6
  <2> QED BY <2>2, <2>3 DEF SessionRows, CounterOnRows
<1>9. faults' \in Nat /\ faults' >= faults
  BY <1>5 DEF TypeInv, TypeOK
<1> QED BY <1>1, <1>2, <1>4, <1>5, <1>7, <1>8, <1>9, Frame

LEMMA LoadRows ==
  ASSUME TypeInv, RowsInv, NEW c \in Coroutines, Load(c)
  PROVE  RowsInv'
<1>1. PICK s \in Sessions, g \in Nat :
         op[c].pc = "load" /\ op[c].sid = s /\ op[c].gen = g /\ Alone(c, s)
  BY InsideAlone DEF TypeInv, TypeOK, OpOK, Load, At, Critical, Op
<1>2. /\ op'[c].pc = "audit" /\ op'[c].sid = s /\ op'[c].gen = g
      /\ \A d \in Coroutines : d # c => op'[d] = op[d]
  BY <1>1 DEF Load, Goto, TypeInv, TypeOK, Op
<1>3. \A z : Generations(z)' = Generations(z)
  BY DEF Load, storeVars, Generations, RowsOf
<1>4. UNCHANGED <<gens, faults, expired>>
  BY DEF Load, storeVars
<1>5. OpRows(c)'
  <2>1. Generations(op[c].sid)' = Generations(s)
    BY <1>2, <1>3
  <2> QED BY <1>1, <1>2, <2>1 DEF OpRows, At, Load
<1>6. SessionRows(s)'
  <2>1. Interval(s)'
    BY <1>3 DEF RowsInv, SessionRows, Interval
  <2>2. CounterOnRows(s)
    BY <1>1, CounterKnown DEF At
  <2>3. CounterOnRows(s)'
    BY <1>3, <1>4, <2>2 DEF CounterOnRows
  <2> QED BY <2>1, <2>3 DEF SessionRows
<1>7. faults' \in Nat /\ faults' >= faults /\ expired' = {}
  BY <1>4 DEF TypeInv, TypeOK, RowsInv
<1>8. ~ At(c, "insert")
  BY <1>1 DEF At
<1> QED BY <1>1, <1>2, <1>3, <1>4, <1>5, <1>6, <1>7, <1>8, Frame

LEMMA SaveAuditRows ==
  ASSUME TypeInv, RowsInv, NEW c \in Coroutines, SaveAudit(c)
  PROVE  RowsInv'
<1>1. PICK s \in Sessions, g \in Nat :
         op[c].pc = "audit" /\ op[c].sid = s /\ op[c].gen = g /\ Alone(c, s)
  BY InsideAlone DEF TypeInv, TypeOK, OpOK, SaveAudit, At, Critical, Op
<1>2. /\ op'[c].pc = "rb_log" /\ gens'[s] = g
      /\ \A d \in Coroutines : d # c => op'[d] = op[d]
      /\ \A z \in Sessions : z # s => gens'[z] = gens[z]
  BY <1>1 DEF SaveAudit, Goto, TypeInv, TypeOK, Op
<1>3. \A z : Generations(z)' = Generations(z)
  BY DEF SaveAudit, Generations, RowsOf
<1>4. OpRows(c)'
  BY <1>2 DEF OpRows, At
<1>5. SessionRows(s)'
  <2>1. Interval(s)'
    BY <1>3 DEF RowsInv, SessionRows, Interval
  <2>2. gens'[s] \in Generations(s)'
    BY <1>1, <1>2, <1>3 DEF RowsInv, OpRows
  <2> QED BY <2>1, <2>2 DEF SessionRows, CounterOnRows
<1>6. faults' \in Nat /\ faults' >= faults /\ expired' = {}
  BY DEF SaveAudit, TypeInv, TypeOK, RowsInv
<1>7. ~ At(c, "insert")
  BY <1>1 DEF At
<1> QED BY <1>1, <1>2, <1>3, <1>4, <1>5, <1>6, <1>7, Frame

\* The steps after which OpRows says nothing of the coroutine that took them.
LEMMA SilentRows ==
  ASSUME TypeInv, RowsInv, NEW c \in Coroutines,
         \/ PruneFails(c) \/ CheckpointEnds(c)
         \/ AutoList(c) \/ AutoSkips(c) \/ AutoScan(c)
         \/ RollbackGranted(c) \/ LoadMissing(c) \/ AuditFails(c)
         \/ RollbackEnds(c)
  PROVE  RowsInv'
<1>1. UNCHANGED <<snapshots, expired, gens>>
  BY DEF PruneFails, CheckpointEnds, AutoList, AutoSkips, AutoScan,
         RollbackGranted, LoadMissing, AuditFails, RollbackEnds,
         RollbackRaises, storeVars
<1>2. faults' \in Nat /\ faults' >= faults
  BY DEF PruneFails, CheckpointEnds, AutoList, AutoSkips, AutoScan,
         RollbackGranted, LoadMissing, AuditFails, RollbackEnds,
         TypeInv, TypeOK
<1>3. ~ At(c, "insert")
  BY DEF PruneFails, CheckpointEnds, AutoList, AutoSkips, AutoScan,
         RollbackGranted, LoadMissing, AuditFails, RollbackEnds, At
<1>4. op'[c].pc \in Silent /\ \A d \in Coroutines : d # c => op'[d] = op[d]
  <2>1. CASE EndOp(c)
    BY <2>1, IdleType DEF EndOp, TypeInv, TypeOK, Silent
  <2>2. CASE AutoList(c)
    BY <2>2 DEF AutoList, TypeInv, TypeOK, Op, Silent
  <2>3. CASE AutoScan(c)
    BY <2>3 DEF AutoScan, At, Rollback, StartLoad, NewOp, TypeInv, TypeOK, Op,
                Silent
  <2>4. CASE RollbackGranted(c)
    BY <2>4 DEF RollbackGranted, StartLoad, NewOp, TypeInv, TypeOK, Op, Silent
  <2> QED BY <2>1, <2>2, <2>3, <2>4
          DEF PruneFails, CheckpointEnds, AutoSkips, LoadMissing, AuditFails,
              RollbackEnds, RollbackRaises
<1> QED BY <1>1, <1>2, <1>3, <1>4, Untouched DEF At

\* Entering checkpoint, for a handler or for the flush.
LEMMA CheckpointRows ==
  ASSUME TypeInv, RowsInv, NEW c \in Coroutines, At(c, "idle"),
         NEW s \in Sessions, NEW v \in Session, NEW hold,
         Checkpoint(c, s, v, hold), UNCHANGED <<snapshots, expired, faults>>
  PROVE  RowsInv'
<1>1. CASE lockq[s] = <<>>
  BY <1>1, FreeAlone, StartSaveRows DEF Checkpoint, At
<1>2. CASE lockq[s] # <<>>
  <2>1. op'[c].pc \in Silent /\ \A d \in Coroutines : d # c => op'[d] = op[d]
    BY <1>2 DEF Checkpoint, NewOp, TypeInv, TypeOK, Silent
  <2>2. gens' = gens
    BY <1>2 DEF Checkpoint
  <2> QED BY <2>1, <2>2, Untouched DEF TypeInv, TypeOK, At
<1> QED BY <1>1, <1>2

LEMMA CheckpointGrantedRows ==
  ASSUME TypeInv, RowsInv, NEW c \in Coroutines, CheckpointGranted(c)
  PROVE  RowsInv'
<1>1. PICK s \in Sessions, v \in Session : s = op[c].sid /\ v = Deref(c)
  <2>1. op[c].sid \in Sessions /\ ref[c] \in Sessions \cup Session
    BY DEF TypeInv, TypeOK, OpOK, CheckpointGranted, At
  <2>2. CASE ref[c] \in Sessions
    BY <2>1, <2>2 DEF Deref, TypeInv, TypeOK
  <2>3. CASE ref[c] \notin Sessions
    BY <2>1, <2>3 DEF Deref
  <2> QED BY <2>2, <2>3
<1>2. Alone(c, s) /\ ~ At(c, "insert")
  BY <1>1, InsideAlone DEF CheckpointGranted, At
<1>3. StartSave(c, s, v) /\ UNCHANGED <<snapshots, expired, faults>>
  BY <1>1 DEF CheckpointGranted, storeVars
<1> QED BY <1>2, <1>3, StartSaveRows

LEMMA OpStepRows ==
  ASSUME TypeInv, RowsInv, NEW c \in Coroutines, OpStep(c)
  PROVE  RowsInv'
  BY CheckpointGrantedRows, InsertRows, SaveFailedRows, CommitRows,
     ListOldRows, DeleteOldRows, SilentRows, LoadRows, SaveAuditRows
  DEF OpStep, CheckpointStep, RollbackStep

LEMMA EngineCallRows ==
  ASSUME TypeInv, RowsInv, EngineCall
  PROVE  RowsInv'
<1>1. UNCHANGED <<snapshots, expired, faults>> /\ faults \in Nat
  BY DEF EngineCall, storeVars, TypeInv, TypeOK
<1>2. CASE \E c \in Tasks, s \in Sessions, v \in Session,
              hold \in Sessions \cup Session :
             At(c, "idle") /\ Checkpoint(c, s, v, hold) /\ UNCHANGED dirty
  BY <1>1, <1>2, CheckpointRows DEF Coroutines
<1>3. CASE \E c \in Tasks, s \in Sessions, g \in Targets :
             At(c, "idle") /\ Rollback(c, s, g) /\ UNCHANGED <<gens, dirty>>
  <2>1. PICK c \in Tasks, s \in Sessions, g \in Targets :
             At(c, "idle") /\ Rollback(c, s, g) /\ UNCHANGED <<gens, dirty>>
    BY <1>3
  <2>2. op'[c].pc \in Silent /\ \A d \in Coroutines : d # c => op'[d] = op[d]
    BY <2>1 DEF Rollback, StartLoad, NewOp, TypeInv, TypeOK, Silent, Coroutines
  <2> QED BY <1>1, <2>1, <2>2, Untouched DEF At
<1>4. CASE \E c \in Tasks, s \in Sessions :
             /\ At(c, "idle") /\ StartAuto(c, s)
             /\ UNCHANGED <<gens, dirty, lockq>>
  <2>1. PICK c \in Tasks, s \in Sessions :
             /\ At(c, "idle") /\ StartAuto(c, s)
             /\ UNCHANGED <<gens, dirty, lockq>>
    BY <1>4
  <2>2. op'[c].pc \in Silent /\ \A d \in Coroutines : d # c => op'[d] = op[d]
    BY <2>1 DEF StartAuto, NewOp, TypeInv, TypeOK, Silent, Coroutines
  <2> QED BY <1>1, <2>1, <2>2, Untouched DEF At
<1>5. CASE UNCHANGED <<gens, lockq, op>>
  BY <1>1, <1>5, Untouched
<1> QED BY <1>2, <1>3, <1>4, <1>5 DEF EngineCall

LEMMA RowsInit == EngineInit => RowsInv
<1> SUFFICES ASSUME EngineInit PROVE RowsInv
  OBVIOUS
<1>1. \A s \in Sessions : Generations(s) = {} /\ gens[s] = -1
  BY DEF EngineInit, Generations, RowsOf
<1>2. \A c \in Coroutines : op[c].pc = "idle"
  BY IdleType DEF EngineInit
<1>3. \A s \in Sessions : SessionRows(s)
  BY <1>1 DEF SessionRows, Interval, CounterOnRows
<1>4. \A c \in Coroutines : OpRows(c)
  BY <1>2 DEF OpRows, At
<1> QED BY <1>3, <1>4 DEF RowsInv, EngineInit

LEMMA RowsStep ==
  ASSUME Ageing = FALSE, TypeInv, RowsInv, [EngineNext]_vars
  PROVE  RowsInv'
<1>1. CASE \E s \in Sessions : FlushNext(s)
  <2>1. PICK s \in Sessions : FlushNext(s)
    BY <1>1
  <2>2. sess[s] \in Session
    BY DEF TypeInv, TypeOK
  <2> QED BY <2>1, <2>2, MaintIsCoroutine, CheckpointRows
          DEF FlushNext, storeVars
<1>2. CASE Wake \/ Purge \/ UNCHANGED vars
  <2>1. UNCHANGED <<snapshots, expired, gens, op, faults>>
    BY <1>2 DEF Wake, Purge, PurgeExpired, vars, storeVars, RowsInv
  <2> QED BY <2>1, Untouched DEF TypeInv, TypeOK
<1>3. ~ TimePasses
  BY DEF TimePasses, RetentionPasses
<1> QED BY <1>1, <1>2, <1>3, EngineCallRows, OpStepRows
        DEF EngineNext, Maintenance

\* Without ageing the purge removes nothing (engine.py, maintenance loop).
LEMMA RowsInvariance ==
  ASSUME Ageing = FALSE
  PROVE  EngineSpec => []RowsInv
<1>1. TypeInv /\ RowsInv /\ [EngineNext]_vars => RowsInv'
  BY RowsStep
<1> QED BY <1>1, RowsInit, TypeInvariance, PTL DEF EngineSpec

\* While no session outlives the retention period, the generations of each
\* session are an interval: no checkpoint, prune, rollback, failed save or
\* failed prune leaves a hole (engine.py checkpoint, rollback; store.py
\* delete_old_snapshots).
THEOREM NoHoles ==
  ASSUME Ageing = FALSE
  PROVE  EngineSpec => []ContiguousGenerations
<1>1. RowsInv => ContiguousGenerations
  BY DEF RowsInv, SessionRows, Interval, ContiguousGenerations
<1> QED BY <1>1, RowsInvariance, PTL

\* Between engine operations the counter names a stored snapshot, or is just
\* below a row a failed commit left (engine.py, _session_generations).
THEOREM CounterStaysOnRows ==
  ASSUME Ageing = FALSE
  PROVE  EngineSpec => []CounterMatchesRows
<1>1. RowsInv => CounterMatchesRows
  <2> SUFFICES ASSUME RowsInv, NEW s \in Sessions
               PROVE  Busy(s) \/ CounterOnRows(s)
    BY DEF CounterMatchesRows
  <2>1. SessionRows(s)
    BY DEF RowsInv
  <2>2. \A c \in Coroutines : At(c, "insert") /\ op[c].sid = s => Busy(s)
    BY DEF Busy, InCritical, Critical, At
  <2> QED BY <2>1, <2>2 DEF SessionRows
<1> QED BY <1>1, RowsInvariance, PTL

\* A checkpoint that is about to return has its row in the table: pruning
\* never takes the generation just written (engine.py checkpoint, step 8).
THEOREM NewestSurvivesPrune ==
  ASSUME Ageing = FALSE
  PROVE  EngineSpec => []CheckpointSurvivesPrune
<1>1. RowsInv => CheckpointSurvivesPrune
  BY DEF RowsInv, OpRows, CheckpointSurvivesPrune, At
<1> QED BY <1>1, RowsInvariance, PTL

-----------------------------------------------------------------------------
\* Snapshots and the primary key.
KeysUnique ==
  \A r, q \in snapshots : r.sid = q.sid /\ r.gen = q.gen => r = q

LEMMA SnapshotsStep ==
  ASSUME TypeInv, [EngineNext]_vars
  PROVE  \/ snapshots' \subseteq snapshots
         \/ \E s \in Sessions, g \in Nat, v \in Session : InsertSnapshot(s, g, v)
<1>1. ASSUME NEW c \in Coroutines, Insert(c)
      PROVE  InsertSnapshot(op[c].sid, op[c].gen, op[c].img)
             /\ op[c].sid \in Sessions /\ op[c].gen \in Nat
             /\ op[c].img \in Session
  BY <1>1 DEF Insert, TypeInv, TypeOK, OpOK, At, Op
<1>2. ASSUME NEW c \in Coroutines, OpStep(c), ~ Insert(c)
      PROVE  snapshots' \subseteq snapshots
  BY <1>2 DEF OpStep, CheckpointStep, RollbackStep, CheckpointGranted,
     InsertConflicts, SaveFails, SaveFailed, Commit, ListOld, DeleteOld,
     DeleteSnapshots, PruneFails, CheckpointEnds, AutoList, AutoSkips,
     AutoScan, RollbackGranted, Load, LoadMissing, SaveAudit, AuditFails,
     RollbackRaises, RollbackEnds, storeVars
<1>3. EngineCall \/ Maintenance \/ TimePasses \/ UNCHANGED vars =>
         snapshots' \subseteq snapshots
  BY DEF EngineCall, Maintenance, Wake, FlushNext, Purge, PurgeExpired,
         TimePasses, storeVars, vars
<1> QED BY <1>1, <1>2, <1>3 DEF EngineNext

LEMMA KeysUniqueStep ==
  ASSUME TypeInv, KeysUnique, [EngineNext]_vars
  PROVE  /\ KeysUnique'
         /\ \A r \in snapshots, q \in snapshots' :
               r.sid = q.sid /\ r.gen = q.gen => r = q
<1>1. CASE snapshots' \subseteq snapshots
  BY <1>1 DEF KeysUnique
<1>2. CASE \E s \in Sessions, g \in Nat, v \in Session : InsertSnapshot(s, g, v)
  <2>1. PICK s \in Sessions, g \in Nat, v \in Session : InsertSnapshot(s, g, v)
    BY <1>2
  <2>2. PICK new : /\ new.sid = s /\ new.gen = g
                   /\ snapshots' = snapshots \cup {new}
    BY <2>1 DEF InsertSnapshot
  <2>3. \A r \in snapshots : ~ (r.sid = s /\ r.gen = g)
    BY <2>1 DEF InsertSnapshot, Generations, RowsOf
  <2> QED BY <2>2, <2>3 DEF KeysUnique
<1> QED BY <1>1, <1>2, SnapshotsStep

\* A stored snapshot is never overwritten, for any callers, faults or purges
\* (models.py SnapshotRecord; store.py, the primary key and the INSERT).
THEOREM Immutability == EngineSpec => SnapshotsImmutable
<1>1. EngineInit => KeysUnique
  BY DEF EngineInit, KeysUnique
<1>2. TypeInv /\ KeysUnique /\ [EngineNext]_vars => KeysUnique'
  BY KeysUniqueStep
<1>3. TypeInv /\ KeysUnique /\ [EngineNext]_vars =>
         [\A r \in snapshots, q \in snapshots' :
            r.sid = q.sid /\ r.gen = q.gen => r = q]_vars
  BY KeysUniqueStep
<1> QED BY <1>1, <1>2, <1>3, TypeInvariance, PTL
        DEF EngineSpec, SnapshotsImmutable

-----------------------------------------------------------------------------
(***************************************************************************)
(* The audit log and the generation counter                                *)
(***************************************************************************)
Loading == {"load", "audit"}

\* from_gen, read when the lock was taken, is still the counter when the
\* record is built.
FromIsCounter ==
  \A c \in Coroutines :
     op[c].pc \in Loading => op[c].from = gens[op[c].sid]

\* Alone in the critical section, c moves the counter of s only.
LEMMA FromFrame ==
  ASSUME TypeInv, FromIsCounter, NEW c \in Coroutines, NEW s \in Sessions,
         Alone(c, s), op'[c].pc \notin Loading,
         \A d \in Coroutines : d # c => op'[d] = op[d],
         \A z \in Sessions : z # s => gens'[z] = gens[z]
  PROVE  FromIsCounter'
<1> SUFFICES ASSUME NEW d \in Coroutines, op'[d].pc \in Loading
             PROVE  op'[d].from = gens'[op'[d].sid]
  BY DEF FromIsCounter
<1>1. d # c /\ op'[d] = op[d] /\ op[d].pc \in Critical
  BY DEF Loading, Critical
<1>2. op[d].sid \in Sessions /\ op[d].sid # s
  BY <1>1 DEF TypeInv, OpOK, At, Critical, Alone
<1> QED BY <1>1, <1>2 DEF FromIsCounter

\* A step that leaves the counters alone and starts no operation but one that
\* has just read its counter.
LEMMA FromQuiet ==
  ASSUME FromIsCounter, gens' = gens,
         \A d \in Coroutines :
            \/ op'[d] = op[d]
            \/ op'[d].pc \notin Loading
            \/ op'[d].from = gens[op'[d].sid]
  PROVE  FromIsCounter'
  BY DEF FromIsCounter

LEMMA FromStartSave ==
  ASSUME TypeInv, FromIsCounter, NEW c \in Coroutines, NEW s \in Sessions,
         NEW v, Alone(c, s), StartSave(c, s, v)
  PROVE  FromIsCounter'
<1>1. op'[c].pc = "insert" /\ \A d \in Coroutines : d # c => op'[d] = op[d]
  BY DEF StartSave, NewOp, TypeInv, TypeOK
<1>2. \A z \in Sessions : z # s => gens'[z] = gens[z]
  BY DEF StartSave, TypeInv, TypeOK
<1> QED BY <1>1, <1>2, FromFrame DEF Loading

LEMMA FromCheckpoint ==
  ASSUME TypeInv, FromIsCounter, NEW c \in Coroutines, NEW s \in Sessions,
         NEW v, NEW hold, Checkpoint(c, s, v, hold)
  PROVE  FromIsCounter'
<1>1. CASE lockq[s] = <<>>
  BY <1>1, FreeAlone, FromStartSave DEF Checkpoint
<1>2. CASE lockq[s] # <<>>
  BY <1>2, FromQuiet DEF Checkpoint, NewOp, TypeInv, TypeOK, Loading
<1> QED BY <1>1, <1>2

LEMMA FromStartLoad ==
  ASSUME TypeInv, FromIsCounter, NEW c \in Coroutines, NEW s, NEW g,
         StartLoad(c, s, g), gens' = gens
  PROVE  FromIsCounter'
  BY FromQuiet DEF StartLoad, NewOp, TypeInv, TypeOK

LEMMA FromRollback ==
  ASSUME TypeInv, FromIsCounter, NEW c \in Coroutines, NEW s, NEW g,
         Rollback(c, s, g), gens' = gens
  PROVE  FromIsCounter'
<1>1. CASE StartLoad(c, s, g)
  BY <1>1, FromStartLoad
<1>2. CASE op' = [op EXCEPT ![c] = NewOp("rb_lock", s, g, 0, Nil)]
  BY <1>2, FromQuiet DEF NewOp, TypeInv, TypeOK, Loading
<1> QED BY <1>1, <1>2 DEF Rollback

\* The steps of an operation that move its own counter.
LEMMA FromOwnCounter ==
  ASSUME TypeInv, FromIsCounter, NEW c \in Coroutines,
         CheckpointGranted(c) \/ InsertConflicts(c) \/ SaveFails(c)
           \/ SaveAudit(c)
  PROVE  FromIsCounter'
<1>1. op[c].sid \in Sessions
  BY DEF TypeInv, OpOK, At, CheckpointGranted, InsertConflicts, SaveFails,
         SaveAudit
<1>2. Alone(c, op[c].sid)
  BY InsideAlone DEF CheckpointGranted, InsertConflicts, SaveFails, SaveAudit,
                     At, Critical
<1>3. CASE CheckpointGranted(c)
  BY <1>1, <1>2, <1>3, FromStartSave DEF CheckpointGranted
<1>4. CASE SaveFailed(c) \/ SaveAudit(c)
  <2>1. /\ op'[c].pc \notin Loading
        /\ \A d \in Coroutines : d # c => op'[d] = op[d]
    <3>1. op \in [Coroutines -> Op]
      BY DEF TypeInv, TypeOK
    <3>2. CASE SaveFailed(c)
      BY <3>1, <3>2 DEF SaveFailed, Op, Loading
    <3>3. CASE SaveAudit(c)
      BY <3>1, <3>3 DEF SaveAudit, Goto, Op, Loading
    <3> QED BY <1>4, <3>2, <3>3
  <2>2. \A z \in Sessions : z # op[c].sid => gens'[z] = gens[z]
    BY <1>1, <1>4 DEF SaveFailed, SaveAudit, TypeInv, TypeOK
  <2> QED BY <1>1, <1>2, <2>1, <2>2, FromFrame
<1> QED BY <1>3, <1>4 DEF InsertConflicts, SaveFails

LEMMA FromOpStep ==
  ASSUME TypeInv, FromIsCounter, NEW c \in Coroutines, OpStep(c)
  PROVE  FromIsCounter'
<1>1. CASE Insert(c) \/ Commit(c) \/ ListOld(c) \/ DeleteOld(c)
  <2>1. gens' = gens
    BY <1>1 DEF Insert, Commit, ListOld, DeleteOld
  <2>2. /\ op'[c].pc \notin Loading
        /\ \A d \in Coroutines : d # c => op'[d] = op[d]
    <3>1. op \in [Coroutines -> Op]
      BY DEF TypeInv, TypeOK
    <3>2. CASE Insert(c)
      BY <3>1, <3>2 DEF Insert, Op, Loading
    <3>3. CASE Commit(c)
      BY <3>1, <3>3 DEF Commit, Goto, Op, Loading
    <3>4. CASE ListOld(c)
      <4>1. PICK pc \in {"ckpt_log", "delete_old"} :
               op' = [op EXCEPT ![c] = [@ EXCEPT
                          !.pc = pc, !.set = Excess(op[c].sid, Depth)]]
        BY <3>4 DEF ListOld
      <4> QED BY <3>1, <4>1 DEF Op, Loading
    <3>5. CASE DeleteOld(c)
      BY <3>1, <3>5 DEF DeleteOld, Op, Loading
    <3> QED BY <1>1, <3>2, <3>3, <3>4, <3>5
  <2> QED BY <2>1, <2>2, FromQuiet
<1>2. CASE \/ PruneFails(c) \/ CheckpointEnds(c) \/ AutoSkips(c)
           \/ LoadMissing(c) \/ AuditFails(c) \/ RollbackEnds(c)
  <2>1. gens' = gens /\ EndOp(c)
    BY <1>2 DEF PruneFails, CheckpointEnds, AutoSkips, LoadMissing, AuditFails,
                RollbackEnds, RollbackRaises
  <2>2. /\ op'[c].pc \notin Loading
        /\ \A d \in Coroutines : d # c => op'[d] = op[d]
    BY <2>1, IdleType DEF EndOp, TypeInv, TypeOK, Loading
  <2> QED BY <2>1, <2>2, FromQuiet
<1>3. CASE AutoList(c)
  BY <1>3, FromQuiet DEF AutoList, At, TypeInv, TypeOK, Op, Loading
<1>4. CASE AutoScan(c)
  <2>1. CASE \E s, g : Rollback(c, s, g)
    BY <1>4, <2>1, FromRollback DEF AutoScan
  <2>2. CASE \E S : op' = [op EXCEPT ![c] = [@ EXCEPT !.set = S]]
    BY <1>4, <2>2, FromQuiet DEF AutoScan, At, TypeInv, TypeOK, Op, Loading
  <2> QED BY <1>4, <2>1, <2>2 DEF AutoScan
<1>5. CASE RollbackGranted(c)
  BY <1>5, FromStartLoad DEF RollbackGranted
<1>6. CASE Load(c)
  <2>1. /\ op[c].pc = "load" /\ op'[c].from = op[c].from
        /\ op'[c].sid = op[c].sid /\ gens' = gens
        /\ \A d \in Coroutines : d # c => op'[d] = op[d]
    BY <1>6 DEF Load, At, Goto, TypeInv, TypeOK, Op
  <2>2. op[c].from = gens[op[c].sid]
    BY <2>1 DEF FromIsCounter, Loading
  <2> QED BY <2>1, <2>2, FromQuiet
<1> QED BY <1>1, <1>2, <1>3, <1>4, <1>5, <1>6, FromOwnCounter
        DEF OpStep, CheckpointStep, RollbackStep

LEMMA FromStep ==
  ASSUME TypeInv, FromIsCounter, [EngineNext]_vars
  PROVE  FromIsCounter'
<1>1. CASE EngineCall
  <2>1. ASSUME NEW c \in Tasks, NEW s \in Sessions, StartAuto(c, s),
               gens' = gens
        PROVE  FromIsCounter'
    BY <2>1, FromQuiet DEF StartAuto, NewOp, TypeInv, TypeOK, Loading
  <2>2. ASSUME UNCHANGED <<gens, op>>
        PROVE  FromIsCounter'
    BY <2>2, FromQuiet
  <2> QED BY <1>1, <2>1, <2>2, FromCheckpoint, FromRollback
          DEF EngineCall, Coroutines
<1>2. CASE \E s \in Sessions : FlushNext(s)
  BY <1>2, FromCheckpoint, MaintIsCoroutine DEF FlushNext
<1>3. CASE Wake \/ Purge \/ TimePasses \/ UNCHANGED vars
  BY <1>3, FromQuiet DEF Wake, Purge, TimePasses, vars
<1> QED BY <1>1, <1>2, <1>3, FromOpStep DEF EngineNext, Maintenance

\* What a step does to the audit log.
LEMMA AuditStep ==
  ASSUME TypeInv, [EngineNext]_vars
  PROVE  \/ audit' = audit
         \/ \E c \in Coroutines :
              /\ At(c, "audit")
              /\ SaveRollbackRecord(op[c].sid, op[c].from, op[c].gen,
                                    sess[op[c].sid].dev)
              /\ \/ gens' = [gens EXCEPT ![op[c].sid] = op[c].gen]
                 \/ faults' > faults
<1>1. ASSUME NEW c \in Coroutines, OpStep(c), ~ SaveAudit(c), ~ AuditFails(c)
      PROVE  audit' = audit
  BY <1>1 DEF OpStep, CheckpointStep, RollbackStep, CheckpointGranted, Insert,
     InsertConflicts, SaveFails, SaveFailed, Commit, ListOld, DeleteOld,
     PruneFails, CheckpointEnds, AutoList, AutoSkips, AutoScan,
     RollbackGranted, Load, LoadMissing, RollbackEnds, storeVars
<1>2. EngineCall \/ Maintenance \/ TimePasses \/ UNCHANGED vars =>
         audit' = audit
  BY DEF EngineCall, Maintenance, Wake, FlushNext, Purge, TimePasses,
         storeVars, vars
<1>3. ASSUME NEW c \in Coroutines, SaveAudit(c)
      PROVE  /\ At(c, "audit")
             /\ SaveRollbackRecord(op[c].sid, op[c].from, op[c].gen,
                                   sess[op[c].sid].dev)
             /\ gens' = [gens EXCEPT ![op[c].sid] = op[c].gen]
  BY <1>3 DEF SaveAudit
<1>4. ASSUME NEW c \in Coroutines, AuditFails(c), audit' # audit
      PROVE  /\ At(c, "audit")
             /\ SaveRollbackRecord(op[c].sid, op[c].from, op[c].gen,
                                   sess[op[c].sid].dev)
             /\ faults' > faults
  BY <1>4 DEF AuditFails, TypeInv, TypeOK
<1> QED BY <1>1, <1>2, <1>3, <1>4 DEF EngineNext

\* A record that a rollback adds to the audit log starts from the counter the
\* session really had and, unless the transaction failed, ends at the counter
\* it really has, for any callers (engine.py rollback: from_gen is read before
\* two awaits and written after them).
THEOREM AuditTellsTheTruth == EngineSpec => AuditMatchesCounter
<1>1. EngineInit => FromIsCounter
  BY IdleType DEF EngineInit, FromIsCounter, Loading
<1>2. TypeInv /\ FromIsCounter /\ [EngineNext]_vars => FromIsCounter'
  BY FromStep
<1>3. TypeInv /\ FromIsCounter /\ [EngineNext]_vars =>
        [audit' = audit \/
           LET r == audit'[Len(audit')] IN
              /\ audit' = Append(audit, r)
              /\ r.from = gens[r.sid]
              /\ gens'[r.sid] = r.to \/ faults' > faults]_vars
  <2> SUFFICES ASSUME TypeInv, FromIsCounter, [EngineNext]_vars,
                      audit' # audit
               PROVE  LET r == audit'[Len(audit')] IN
                        /\ audit' = Append(audit, r)
                        /\ r.from = gens[r.sid]
                        /\ gens'[r.sid] = r.to \/ faults' > faults
    OBVIOUS
  <2>1. PICK c \in Coroutines :
           /\ At(c, "audit")
           /\ SaveRollbackRecord(op[c].sid, op[c].from, op[c].gen,
                                 sess[op[c].sid].dev)
           /\ \/ gens' = [gens EXCEPT ![op[c].sid] = op[c].gen]
              \/ faults' > faults
    BY AuditStep
  <2>2. PICK r : r = [sid |-> op[c].sid, from |-> op[c].from,
                      to |-> op[c].gen, dev |-> sess[op[c].sid].dev]
    OBVIOUS
  <2>3. r \in AuditRecord /\ audit \in Seq(AuditRecord)
    BY <2>1, <2>2 DEF TypeInv, TypeOK, OpOK, At, Op, Session, AuditRecord
  <2>4. audit' = Append(audit, r)
    BY <2>1, <2>2 DEF SaveRollbackRecord
  <2>5. audit'[Len(audit')] = r
    BY <2>3, <2>4
  <2>6. r.from = gens[r.sid]
    BY <2>1, <2>2 DEF FromIsCounter, Loading, At
  <2>7. gens'[r.sid] = r.to \/ faults' > faults
    BY <2>1, <2>2, <2>3 DEF TypeInv, TypeOK, AuditRecord
  <2> QED BY <2>4, <2>5, <2>6, <2>7
<1> QED BY <1>1, <1>2, <1>3, TypeInvariance, PTL
        DEF EngineSpec, AuditMatchesCounter

-----------------------------------------------------------------------------
(***************************************************************************)
(* How many rows a session keeps                                           *)
(***************************************************************************)

\* All but the n highest: what a prune leaves has at most n members, since
\* fewer than n are above its lowest one.
LEMMA KeptBound ==
  ASSUME NEW s, Generations(s) \in SUBSET Nat, IsFiniteSet(Generations(s))
  PROVE  Cardinality(Generations(s) \ Excess(s, Depth)) <= Depth
<1> DEFINE G == Generations(s)
           Above(x) == {h \in G : h > x}
           kept == G \ Excess(s, Depth)
<1>1. \A x \in G : x \in kept <=> ~ (Cardinality(Above(x)) >= Depth)
  BY DEF Excess
<1>2. kept \subseteq G /\ IsFiniteSet(kept) /\ Cardinality(kept) \in Nat
  BY FS_Subset, FS_CardinalityType
<1>3. CASE kept = {}
  BY <1>3, FS_EmptySet, DepthAssumption
<1>4. CASE kept # {}
  <2> DEFINE m == Lowest(kept)
  <2>1. m \in kept /\ \A h \in kept : m <= h
    <3> HIDE DEF kept, G
    <3> kept \in SUBSET Nat
      BY <1>2 DEF G
    <3> QED BY <1>4, LowestIsMember
  <2>2. IsFiniteSet(Above(m)) /\ Cardinality(Above(m)) \in Nat
    BY FS_Subset, FS_CardinalityType
  <2>3. Cardinality(Above(m)) < Depth
    <3> HIDE DEF Above, kept, m
    <3> QED BY <1>1, <1>2, <2>1, <2>2, DepthAssumption
  <2>4. kept \ {m} \subseteq Above(m)
    BY <1>2, <2>1
  <2>5. Cardinality(kept \ {m}) <= Cardinality(Above(m))
    <3> HIDE DEF Above, kept, m
    <3> QED BY <2>2, <2>4, FS_Subset
  <2>6. Cardinality(kept \ {m}) = Cardinality(kept) - 1
    <3> HIDE DEF kept, m
    <3> QED BY <1>2, <2>1, FS_RemoveElement
  <2> HIDE DEF kept, m, Above
  <2>7. Cardinality(kept) <= Depth
    BY <1>2, <2>2, <2>3, <2>5, <2>6, DepthAssumption
  <2> QED BY <2>7 DEF kept
<1> QED BY <1>3, <1>4

\* Between the INSERT of a checkpoint and the end of its prune.
Saving == {"commit", "list_old", "delete_old"}

\* One row more while a checkpoint has inserted and not yet pruned.
SizeAt(s) ==
  /\ IsFiniteSet(Generations(s))
  /\ Cardinality(Generations(s)) <= Depth + faults + 1
  /\ \/ Cardinality(Generations(s)) <= Depth + faults
     \/ \E c \in Coroutines : op[c].pc \in Saving /\ op[c].sid = s

\* The list a prune deletes leaves at most Depth rows.
ListedAt(c) ==
  op[c].pc = "delete_old" =>
     Cardinality(Generations(op[c].sid) \ op[c].set) <= Depth

SizeInv ==
  /\ \A s \in Sessions : SizeAt(s)
  /\ \A c \in Coroutines : ListedAt(c)

\* Rows only go, and who leaves Saving leaves at most Depth rows or has met
\* an error.
LEMMA SizeShrinks ==
  ASSUME TypeInv, SizeInv, faults' \in Nat, faults' >= faults,
         \A z : Generations(z)' \subseteq Generations(z),
         \A c \in Coroutines : ListedAt(c)',
         \A c \in Coroutines : op[c].pc \in Saving =>
            \/ op'[c].pc \in Saving /\ op'[c].sid = op[c].sid
            \/ faults' > faults
            \/ \E s \in Sessions : /\ s = op[c].sid
                                   /\ Cardinality(Generations(s)') <= Depth
  PROVE  SizeInv'
<1> SUFFICES ASSUME NEW s \in Sessions PROVE SizeAt(s)'
  BY DEF SizeInv
<1>1. SizeAt(s) /\ Depth \in Nat /\ faults \in Nat
  BY DepthAssumption DEF SizeInv, TypeInv, TypeOK
<1> DEFINE G == Generations(s)
           H == Generations(s)'
<1>2. IsFiniteSet(G) /\ H \in SUBSET G
  BY <1>1 DEF SizeAt
<1>3. /\ IsFiniteSet(H) /\ Cardinality(H) <= Cardinality(G)
      /\ Cardinality(H) \in Nat /\ Cardinality(G) \in Nat
  <2> HIDE DEF G, H
  <2> QED BY <1>2, FS_Subset, FS_CardinalityType
<1>4. Cardinality(G) <= Depth + faults + 1
  BY <1>1 DEF SizeAt
<1>5. \/ Cardinality(G) <= Depth + faults
      \/ \E c \in Coroutines : op[c].pc \in Saving /\ op[c].sid = s
  BY <1>1 DEF SizeAt
<1>6. \/ Cardinality(H) <= Depth + faults'
      \/ \E c \in Coroutines : op'[c].pc \in Saving /\ op'[c].sid = s
  <2>1. CASE Cardinality(G) <= Depth + faults
    <3> HIDE DEF G, H
    <3> QED BY <1>1, <1>3, <2>1
  <2>2. CASE \E c \in Coroutines : op[c].pc \in Saving /\ op[c].sid = s
    <3>1. PICK c \in Coroutines : op[c].pc \in Saving /\ op[c].sid = s
      BY <2>2
    <3>2. CASE faults' > faults
      <4> HIDE DEF G, H
      <4> QED BY <1>1, <1>3, <1>4, <3>2
    <3>3. CASE Cardinality(H) <= Depth
      <4> HIDE DEF G, H
      <4> QED BY <1>1, <1>3, <3>3
    <3> QED BY <3>1, <3>2, <3>3
  <2> QED BY <1>5, <2>1, <2>2
<1>7. Cardinality(H) <= Depth + faults' + 1
  <2> HIDE DEF G, H
  <2> QED BY <1>1, <1>3, <1>4
<1> QED BY <1>3, <1>6, <1>7 DEF SizeAt

\* A list made for the rows of a session stays good while rows only go.
LEMMA ListShrinks ==
  ASSUME TypeInv, SizeInv, NEW c \in Coroutines, op'[c] = op[c],
         \A z : Generations(z)' \subseteq Generations(z)
  PROVE  ListedAt(c)'
<1> SUFFICES ASSUME op[c].pc = "delete_old" PROVE ListedAt(c)'
  BY DEF ListedAt
<1>1. PICK s \in Sessions : s = op[c].sid
  BY DEF TypeInv, OpOK, At
<1>2. PICK S : S = op[c].set
  OBVIOUS
<1>3. /\ IsFiniteSet(Generations(s) \ S)
      /\ Cardinality(Generations(s) \ S) <= Depth
  BY <1>1, <1>2, FS_Subset DEF SizeInv, SizeAt, ListedAt
<1> DEFINE T == Generations(s)' \ S
           U == Generations(s) \ S
<1>4. T \in SUBSET U
  OBVIOUS
<1>5. Cardinality(T) <= Depth
  <2>1. IsFiniteSet(U) /\ Cardinality(U) <= Depth
    BY <1>3
  <2> HIDE DEF T, U
  <2> QED BY <1>4, <2>1, FS_Subset, FS_CardinalityType, DepthAssumption
<1>6. Generations(op[c].sid)' = Generations(s)' /\ op'[c].set = S
  BY <1>1, <1>2
<1> QED BY <1>5, <1>6 DEF ListedAt

\* Steps that touch no row and take nobody out of Saving or to a prune.
LEMMA SizeUntouched ==
  ASSUME TypeInv, SizeInv, faults' \in Nat, faults' >= faults,
         snapshots' \subseteq snapshots,
         \A c \in Coroutines :
            \/ op'[c] = op[c]
            \/ /\ op'[c].pc # "delete_old"
               /\ \/ op[c].pc \notin Saving
                  \/ op'[c].pc \in Saving /\ op'[c].sid = op[c].sid
                  \/ faults' > faults
  PROVE  SizeInv'
<1>1. \A z : Generations(z)' \subseteq Generations(z)
  BY DEF Generations, RowsOf
<1>2. \A c \in Coroutines : ListedAt(c)'
  BY <1>1, ListShrinks DEF ListedAt
<1> QED BY <1>1, <1>2, SizeShrinks

LEMMA InsertSize ==
  ASSUME TypeInv, SizeInv, NEW c \in Coroutines, Insert(c)
  PROVE  SizeInv'
<1>1. PICK s \in Sessions, g \in Nat :
         /\ op[c].pc = "insert" /\ op[c].sid = s /\ op[c].gen = g
         /\ Alone(c, s)
  BY InsideAlone DEF TypeInv, TypeOK, OpOK, Insert, At, Critical, Op
<1>2. /\ op'[c].pc = "commit" /\ op'[c].sid = s
      /\ \A d \in Coroutines : d # c => op'[d] = op[d]
  BY <1>1 DEF Insert, TypeInv, TypeOK, Op
<1>3. /\ Generations(s)' = Generations(s) \cup {g}
      /\ \A z : z # s => Generations(z)' = Generations(z)
  BY <1>1, InsertedGenerations DEF Insert
<1>4. faults' = faults /\ faults \in Nat /\ Depth \in Nat
  BY DepthAssumption DEF Insert, TypeInv, TypeOK
<1>5. /\ IsFiniteSet(Generations(s))
      /\ Cardinality(Generations(s)) <= Depth + faults
  <2>1. \A d \in Coroutines : op[d].pc \in Saving => op[d].sid # s
    BY <1>1 DEF Alone, Saving, Critical
  <2> QED BY <2>1 DEF SizeInv, SizeAt
<1>6. SizeAt(s)'
  <2> DEFINE G == Generations(s)
             H == Generations(s)'
  <2>1. IsFiniteSet(H) /\ Cardinality(H) <= Depth + faults' + 1
    <3>1. H = G \cup {g} /\ IsFiniteSet(G) /\ Cardinality(G) <= Depth + faults
      BY <1>3, <1>5
    <3> HIDE DEF G, H
    <3> QED BY <1>4, <3>1, FS_AddElement, FS_CardinalityType
  <2> QED BY <1>2, <2>1 DEF SizeAt, Saving
<1>7. ASSUME NEW z \in Sessions, z # s
      PROVE  SizeAt(z)'
  <2>1. Generations(z)' = Generations(z) /\ SizeAt(z)
    BY <1>3, <1>7 DEF SizeInv
  <2>2. \A d \in Coroutines : op[d].pc \in Saving /\ op[d].sid = z =>
           op'[d] = op[d]
    BY <1>1, <1>2, <1>7
  <2> QED BY <1>4, <2>1, <2>2 DEF SizeAt
<1>8. ASSUME NEW d \in Coroutines
      PROVE  ListedAt(d)'
  <2>1. CASE d = c
    BY <1>2, <2>1 DEF ListedAt
  <2>2. CASE d # c /\ op[d].pc = "delete_old"
    <3>1. op'[d] = op[d] /\ op[d].sid # s
      BY <1>1, <1>2, <2>2 DEF Alone, Critical
    <3>2. Generations(op[d].sid)' = Generations(op[d].sid)
      BY <1>3, <3>1
    <3> QED BY <3>1, <3>2 DEF SizeInv, ListedAt
  <2>3. CASE d # c /\ op[d].pc # "delete_old"
    BY <1>2, <2>3 DEF ListedAt
  <2> QED BY <2>1, <2>2, <2>3
<1> QED BY <1>6, <1>7, <1>8 DEF SizeInv

LEMMA ListOldSize ==
  ASSUME TypeInv, SizeInv, NEW c \in Coroutines, ListOld(c)
  PROVE  SizeInv'
<1>1. PICK s \in Sessions : op[c].pc = "list_old" /\ op[c].sid = s
  BY DEF TypeInv, OpOK, ListOld, At
<1>2. PICK S : S = Excess(s, Depth)
  OBVIOUS
<1>3. /\ op'[c].pc = IF S = {} THEN "ckpt_log" ELSE "delete_old"
      /\ op'[c].sid = s /\ op'[c].set = S
      /\ \A d \in Coroutines : d # c => op'[d] = op[d]
  <2>1. op' = [op EXCEPT ![c] = [@ EXCEPT
                 !.pc = IF S = {} THEN "ckpt_log" ELSE "delete_old",
                 !.set = S]]
    BY <1>1, <1>2 DEF ListOld
  <2> QED BY <1>1, <2>1 DEF TypeInv, TypeOK, Op
<1>4. \A z : Generations(z)' = Generations(z)
  BY DEF ListOld, storeVars, Generations, RowsOf
<1>5. faults' = faults /\ faults \in Nat
  BY DEF ListOld, TypeInv, TypeOK
<1>6. Cardinality(Generations(s) \ S) <= Depth
  BY <1>2, KeptBound, GenerationsType DEF SizeInv, SizeAt
<1>7. ListedAt(c)'
  <2>1. Generations(op[c].sid)' = Generations(s)
    BY <1>3, <1>4
  <2> QED BY <1>3, <1>6, <2>1 DEF ListedAt
<1>8. \A d \in Coroutines : ListedAt(d)'
  BY <1>3, <1>4, <1>7, ListShrinks
<1>9. op'[c].pc \in Saving \/ Cardinality(Generations(s)') <= Depth
  <2>1. CASE S = {}
    <3>1. Generations(s)' = Generations(s) \ S
      BY <1>4, <2>1
    <3> QED BY <1>6, <3>1
  <2>2. CASE S # {}
    BY <1>3, <2>2 DEF Saving
  <2> QED BY <2>1, <2>2
<1> QED BY <1>1, <1>3, <1>4, <1>5, <1>8, <1>9, SizeShrinks

LEMMA DeleteOldSize ==
  ASSUME TypeInv, SizeInv, NEW c \in Coroutines, DeleteOld(c)
  PROVE  SizeInv'
<1>1. PICK s \in Sessions : op[c].pc = "delete_old" /\ op[c].sid = s
  BY DEF TypeInv, OpOK, DeleteOld, At
<1>2. PICK S : S = op[c].set
  OBVIOUS
<1>3. op'[c].pc = "ckpt_log" /\ \A d \in Coroutines : d # c => op'[d] = op[d]
  BY DEF DeleteOld, TypeInv, TypeOK, Op
<1>4. /\ Generations(s)' = Generations(s) \ S
      /\ \A z : z # s => Generations(z)' = Generations(z)
  BY <1>1, <1>2, DeletedGenerations DEF DeleteOld
<1>5. faults' = faults /\ faults \in Nat
  BY DEF DeleteOld, TypeInv, TypeOK
<1>6. Cardinality(Generations(s)') <= Depth
  BY <1>1, <1>2, <1>4 DEF SizeInv, ListedAt
<1>7. \A z : Generations(z)' \subseteq Generations(z)
  BY <1>4
<1>8. \A d \in Coroutines : ListedAt(d)'
  BY <1>3, <1>7, ListShrinks DEF ListedAt
<1> QED BY <1>1, <1>3, <1>5, <1>6, <1>7, <1>8, SizeShrinks

LEMMA OpStepSize ==
  ASSUME TypeInv, SizeInv, NEW c \in Coroutines, OpStep(c)
  PROVE  SizeInv'
<1> SUFFICES ASSUME ~ Insert(c), ~ ListOld(c), ~ DeleteOld(c)
             PROVE  SizeInv'
  BY InsertSize, ListOldSize, DeleteOldSize
<1>1. snapshots' = snapshots /\ faults' \in Nat /\ faults' >= faults
  BY DEF OpStep, CheckpointStep, RollbackStep, CheckpointGranted,
     InsertConflicts, SaveFails, SaveFailed, Commit, PruneFails,
     CheckpointEnds, AutoList, AutoSkips, AutoScan, RollbackGranted, Load,
     LoadMissing, SaveAudit, AuditFails, RollbackRaises, RollbackEnds,
     storeVars, TypeInv, TypeOK
<1>2. op \in [Coroutines -> Op] /\ Idle.pc = "idle" /\ faults \in Nat
  BY IdleType DEF TypeInv, TypeOK
<1>3. CASE SaveFails(c) \/ PruneFails(c)
  <2>1. faults' > faults
    BY <1>2, <1>3 DEF SaveFails, PruneFails
  <2>2. /\ op'[c].pc # "delete_old"
        /\ \A d \in Coroutines : d # c => op'[d] = op[d]
    <3>1. CASE SaveFailed(c)
      BY <1>2, <3>1 DEF SaveFailed, Op
    <3>2. CASE EndOp(c)
      BY <1>2, <3>2 DEF EndOp
    <3> QED BY <1>3, <3>1, <3>2 DEF SaveFails, PruneFails
  <2> QED BY <1>1, <2>1, <2>2, SizeUntouched
<1>4. CASE Commit(c)
  <2>1. /\ op'[c].pc = "list_old" /\ op'[c].sid = op[c].sid
        /\ \A d \in Coroutines : d # c => op'[d] = op[d]
    BY <1>2, <1>4 DEF Commit, Goto, Op
  <2> QED BY <1>1, <2>1, SizeUntouched DEF Saving
<1>5. CASE ~ SaveFails(c) /\ ~ PruneFails(c) /\ ~ Commit(c)
  <2>1. op[c].pc \notin Saving
    BY <1>5 DEF OpStep, CheckpointStep, RollbackStep, CheckpointGranted,
       InsertConflicts, CheckpointEnds, AutoList, AutoSkips, AutoScan,
       RollbackGranted, Load, LoadMissing, SaveAudit, AuditFails,
       RollbackEnds, At, Saving
  <2>2. /\ op'[c].pc # "delete_old"
        /\ \A d \in Coroutines : d # c => op'[d] = op[d]
    <3>1. CASE SaveFailed(c)
      BY <1>2, <3>1 DEF SaveFailed, Op
    <3>2. CASE EndOp(c)
      BY <1>2, <3>2 DEF EndOp
    <3>3. CASE CheckpointGranted(c) \/ RollbackGranted(c)
      BY <1>2, <3>3 DEF CheckpointGranted, RollbackGranted, StartSave,
                        StartLoad, NewOp
    <3>4. CASE AutoList(c)
      BY <1>2, <3>4 DEF AutoList, Op
    <3>5. CASE AutoScan(c)
      BY <1>2, <3>5 DEF AutoScan, At, Rollback, StartLoad, NewOp, Op
    <3>6. CASE Goto(c, "audit") \/ Goto(c, "rb_log")
      BY <1>2, <3>6 DEF Goto, Op
    <3> QED BY <1>5, <3>1, <3>2, <3>3, <3>4, <3>5, <3>6
            DEF OpStep, CheckpointStep, RollbackStep, InsertConflicts,
                CheckpointEnds, AutoSkips, Load, LoadMissing, SaveAudit,
                AuditFails, RollbackRaises, RollbackEnds
  <2> QED BY <1>1, <2>1, <2>2, SizeUntouched
<1> QED BY <1>3, <1>4, <1>5

LEMMA SizeStep ==
  ASSUME TypeInv, SizeInv, [EngineNext]_vars
  PROVE  SizeInv'
<1>1. ASSUME NEW c \in Coroutines, op[c].pc \notin Saving,
             op'[c].pc # "delete_old",
             \A d \in Coroutines : d # c => op'[d] = op[d],
             UNCHANGED <<snapshots, faults>>
      PROVE  SizeInv'
  BY <1>1, SizeUntouched DEF TypeInv, TypeOK
<1>2. ASSUME NEW c \in Coroutines, At(c, "idle"), NEW s, NEW v, NEW hold,
             Checkpoint(c, s, v, hold), UNCHANGED <<snapshots, faults>>
      PROVE  SizeInv'
  <2>1. \/ op' = [op EXCEPT ![c] = NewOp("ckpt_lock", s, 0, 0, Nil)]
        \/ op' = [op EXCEPT ![c] = NewOp("insert", s, gens[s] + 1, 0, v)]
    BY <1>2 DEF Checkpoint, StartSave
  <2>2. /\ op'[c].pc # "delete_old" /\ op[c].pc \notin Saving
        /\ \A d \in Coroutines : d # c => op'[d] = op[d]
    BY <1>2, <2>1 DEF NewOp, At, Saving, TypeInv, TypeOK
  <2> QED BY <1>1, <1>2, <2>2
<1>3. ASSUME NEW s \in Sessions, FlushNext(s)
      PROVE  SizeInv'
  BY <1>2, <1>3, MaintIsCoroutine DEF FlushNext, storeVars
<1>4. CASE Wake \/ Purge \/ TimePasses \/ UNCHANGED vars
  BY <1>4, SizeUntouched DEF Wake, Purge, PurgeExpired, TimePasses, vars,
                             storeVars, TypeInv, TypeOK
<1>5. CASE EngineCall
  <2>1. UNCHANGED <<snapshots, faults>>
    BY <1>5 DEF EngineCall, storeVars
  <2>2. ASSUME NEW c \in Tasks, At(c, "idle"), NEW s, NEW g,
               Rollback(c, s, g) \/ StartAuto(c, s)
        PROVE  SizeInv'
    <3>1. /\ op'[c].pc # "delete_old" /\ op[c].pc \notin Saving
          /\ \A d \in Coroutines : d # c => op'[d] = op[d]
      BY <2>2 DEF Rollback, StartLoad, StartAuto, NewOp, At, Saving, TypeInv,
                  TypeOK, Coroutines
    <3> QED BY <1>1, <2>1, <3>1 DEF Coroutines
  <2>3. CASE op' = op
    BY <2>1, <2>3, SizeUntouched DEF TypeInv, TypeOK
  <2> QED BY <1>2, <1>5, <2>1, <2>2, <2>3 DEF EngineCall, Coroutines
<1> QED BY <1>3, <1>4, <1>5, OpStepSize DEF EngineNext, Maintenance

LEMMA SizeInvariance == EngineSpec => []SizeInv
<1>1. EngineInit => SizeInv
  <2> SUFFICES ASSUME EngineInit PROVE SizeInv
    OBVIOUS
  <2>1. \A s \in Sessions : Generations(s) = {} /\ faults = 0
    BY DEF EngineInit, Generations, RowsOf
  <2>2. \A c \in Coroutines : op[c].pc = "idle"
    BY IdleType DEF EngineInit
  <2> QED BY <2>1, <2>2, FS_EmptySet, DepthAssumption
          DEF SizeInv, SizeAt, ListedAt
<1>2. TypeInv /\ SizeInv /\ [EngineNext]_vars => SizeInv'
  BY SizeStep
<1> QED BY <1>1, <1>2, TypeInvariance, PTL DEF EngineSpec

\* max_rollback_depth bounds the rows of a session at rest, up to one for
\* each database error, whatever the callers do and the purge removes
\* (engine.py checkpoint, the prune after the save; store.py
\* delete_old_snapshots).
THEOREM RetentionIsBounded == EngineSpec => []RetentionBound
<1>1. SizeInv => RetentionBound
  <2>1. Saving \subseteq Critical
    BY DEF Saving, Critical
  <2> QED BY <2>1 DEF SizeInv, SizeAt, RetentionBound, Busy, InCritical
<1> QED BY <1>1, SizeInvariance, PTL

-----------------------------------------------------------------------------
(***************************************************************************)
(* Pruning while snapshots expire                                          *)
(***************************************************************************)

\* The rows a session has above generation n, and a set that a prune keeps
\* whole.
Ahead(s, n) == {h \in Generations(s) : h > n}
Few(S) == IsFiniteSet(S) /\ Cardinality(S) < Depth

\* A row that no purge takes before days go by again.
Lasting(s, g) == \E r \in snapshots \ expired : r.sid = s /\ r.gen = g

SafeOp(c) ==
  LET s == op[c].sid
      g == op[c].gen
  IN
  /\ At(c, "insert") => Few(Ahead(s, g - 1))
  /\ op[c].pc \in Saving \cup {"insert"} => gens[s] = g
  /\ op[c].pc \in Saving \cup {"ckpt_log"} => Lasting(s, g)
  /\ At(c, "delete_old") => g \notin op[c].set
  /\ At(c, "audit") => Few(Ahead(s, g))

\* Expiry makes holes below and above the counter, but there are never so many
\* rows above it that a prune reaches down to it.
SafeInv ==
  /\ \A c \in Coroutines : SafeOp(c)
  /\ \A s \in Sessions : Few(Ahead(s, gens[s]))

LEMMA FewShrinks ==
  ASSUME NEW T, Few(T), NEW S \in SUBSET T
  PROVE  Few(S)
<1>1. /\ IsFiniteSet(S) /\ Cardinality(S) \in Nat /\ Cardinality(T) \in Nat
      /\ Cardinality(S) <= Cardinality(T)
  BY FS_Subset, FS_CardinalityType DEF Few
<1> QED BY <1>1, DepthAssumption DEF Few

\* Alone in the critical section, c changes the rows and the counter of s only.
LEMMA SafeFrame ==
  ASSUME TypeInv, SafeInv, NEW c \in Coroutines, NEW s \in Sessions,
         Alone(c, s),
         \A d \in Coroutines : d # c => op'[d] = op[d],
         \A z \in Sessions : z # s =>
            /\ Generations(z)' = Generations(z) /\ gens'[z] = gens[z]
            /\ \A g : Lasting(z, g) => Lasting(z, g)',
         SafeOp(c)', Few(Ahead(s, gens[s]))'
  PROVE  SafeInv'
<1>1. ASSUME NEW d \in Coroutines, d # c
      PROVE  SafeOp(d)'
  <2>1. CASE op[d].pc \in Critical
    <3>1. PICK z \in Sessions : z = op[d].sid /\ z # s
      BY <1>1, <2>1 DEF Alone, TypeInv, OpOK, At, Critical
    <3>2. op'[d] = op[d]
      BY <1>1
    <3>3. /\ Generations(z)' = Generations(z) /\ gens'[z] = gens[z]
          /\ \A g : Lasting(z, g) => Lasting(z, g)'
      BY <3>1
    <3>4. \A n : Ahead(z, n)' = Ahead(z, n)
      BY <3>3 DEF Ahead
    <3>5. PICK g : g = op[d].gen
      OBVIOUS
    <3>6. SafeOp(d)
      BY DEF SafeInv
    <3>7. /\ Ahead(op[d].sid, op[d].gen - 1)' = Ahead(z, g - 1)
          /\ Ahead(op[d].sid, op[d].gen)' = Ahead(z, g)
          /\ Lasting(op[d].sid, op[d].gen)' = Lasting(z, g)'
          /\ gens[op[d].sid]' = gens[z]
      BY <3>1, <3>2, <3>3, <3>4, <3>5
    <3> QED BY <3>1, <3>2, <3>3, <3>5, <3>6, <3>7 DEF SafeOp, At, Few
  <2>2. CASE op[d].pc \notin Critical
    BY <1>1, <2>2 DEF SafeOp, At, Critical, Saving
  <2> QED BY <2>1, <2>2
<1>2. ASSUME NEW z \in Sessions, z # s
      PROVE  Few(Ahead(z, gens[z]))'
  <2>1. Ahead(z, gens[z])' = Ahead(z, gens[z])
    BY <1>2 DEF Ahead
  <2> QED BY <2>1 DEF SafeInv, Few
<1> QED BY <1>1, <1>2 DEF SafeInv

\* A step that leaves the counters alone, removes no row that lasts and moves
\* coroutines to silent labels only.
LEMMA SafeQuiet ==
  ASSUME TypeInv, SafeInv, gens' = gens,
         \A z : Generations(z)' \subseteq Generations(z),
         \A d \in Coroutines :
            \/ op'[d].pc \in Silent
            \/ /\ op'[d] = op[d]
               /\ \A z, g : Lasting(z, g) => Lasting(z, g)'
  PROVE  SafeInv'
<1>1. \A z, n : Ahead(z, n)' \subseteq Ahead(z, n)
  BY DEF Ahead
<1>2. ASSUME NEW d \in Coroutines
      PROVE  SafeOp(d)'
  <2>1. CASE op'[d].pc \in Silent
    BY <2>1 DEF SafeOp, At, Silent, Saving
  <2>2. CASE /\ op'[d] = op[d]
             /\ \A z, g : Lasting(z, g) => Lasting(z, g)'
    <3>1. PICK z, g : z = op[d].sid /\ g = op[d].gen
      OBVIOUS
    <3>2. /\ Ahead(op[d].sid, op[d].gen - 1)' = Ahead(z, g - 1)'
          /\ Ahead(op[d].sid, op[d].gen)' = Ahead(z, g)'
          /\ Lasting(op[d].sid, op[d].gen)' = Lasting(z, g)'
          /\ gens[op[d].sid]' = gens[z]
      BY <2>2, <3>1
    <3>3. SafeOp(d)
      BY DEF SafeInv
    <3>4. op'[d].pc = "insert" => Few(Ahead(z, g - 1)')
      BY <1>1, <2>2, <3>1, <3>3, FewShrinks DEF SafeOp, At
    <3>5. op'[d].pc = "audit" => Few(Ahead(z, g)')
      BY <1>1, <2>2, <3>1, <3>3, FewShrinks DEF SafeOp, At
    <3>6. op'[d].pc \in Saving \cup {"ckpt_log"} => Lasting(z, g)'
      BY <2>2, <3>1, <3>3 DEF SafeOp
    <3>7. /\ op'[d].pc \in Saving \cup {"insert"} => gens[z] = g
          /\ op'[d].pc = "delete_old" => g \notin op'[d].set
      BY <2>2, <3>1, <3>3 DEF SafeOp, At
    <3> QED BY <2>2, <3>1, <3>2, <3>4, <3>5, <3>6, <3>7 DEF SafeOp, At, Few
  <2> QED BY <2>1, <2>2
<1>3. ASSUME NEW z \in Sessions
      PROVE  Few(Ahead(z, gens[z]))'
  <2>1. Ahead(z, gens[z])' \subseteq Ahead(z, gens[z])
    BY <1>1
  <2>2. Few(Ahead(z, gens[z])')
    BY <2>1, FewShrinks DEF SafeInv
  <2> QED BY <2>2 DEF Few
<1> QED BY <1>2, <1>3 DEF SafeInv

LEMMA SafeStartSave ==
  ASSUME TypeInv, SafeInv, NEW c \in Coroutines, NEW s \in Sessions, NEW v,
         Alone(c, s), StartSave(c, s, v), UNCHANGED <<snapshots, expired>>
  PROVE  SafeInv'
<1>1. PICK n \in Nat \cup {-1} : n = gens[s]
  BY DEF TypeInv, TypeOK
<1>2. gens'[s] = n + 1 /\ \A z \in Sessions : z # s => gens'[z] = gens[z]
  BY <1>1 DEF StartSave, TypeInv, TypeOK
<1>3. /\ op'[c].pc = "insert" /\ op'[c].sid = s /\ op'[c].gen = n + 1
      /\ \A d \in Coroutines : d # c => op'[d] = op[d]
  BY <1>1 DEF StartSave, NewOp, TypeInv, TypeOK
<1>4. \A z : Generations(z)' = Generations(z)
  BY DEF Generations, RowsOf
<1>5. Few(Ahead(s, n))
  BY <1>1 DEF SafeInv
<1>6. Few(Ahead(op[c].sid, op[c].gen - 1)')
  <2>1. Ahead(op[c].sid, op[c].gen - 1)' = Ahead(s, n)
    BY <1>1, <1>3, <1>4 DEF Ahead
  <2> QED BY <1>5, <2>1
<1>7. SafeOp(c)'
  BY <1>2, <1>3, <1>6 DEF SafeOp, At, Saving, Few
<1>8. Few(Ahead(s, gens[s])')
  <2>1. Ahead(s, gens[s])' = {h \in Generations(s) : h > n + 1}
    BY <1>2, <1>4 DEF Ahead
  <2>2. Generations(s) \subseteq Nat
    BY GenerationsType
  <2>3. Ahead(s, gens[s])' \subseteq Ahead(s, n)
    BY <1>1, <2>1, <2>2 DEF Ahead
  <2> QED BY <1>5, <2>3, FewShrinks
<1>9. \A z, g : Lasting(z, g)' = Lasting(z, g)
  BY DEF Lasting
<1> QED BY <1>2, <1>3, <1>4, <1>7, <1>8, <1>9, SafeFrame DEF Few

LEMMA SafeCheckpoint ==
  ASSUME TypeInv, SafeInv, NEW c \in Coroutines, NEW s \in Sessions,
         NEW v, NEW hold, Checkpoint(c, s, v, hold),
         UNCHANGED <<snapshots, expired>>
  PROVE  SafeInv'
<1>1. CASE lockq[s] = <<>>
  BY <1>1, FreeAlone, SafeStartSave DEF Checkpoint
<1>2. CASE lockq[s] # <<>>
  <2>1. op'[c].pc \in Silent /\ \A d \in Coroutines : d # c => op'[d] = op[d]
    BY <1>2 DEF Checkpoint, NewOp, TypeInv, TypeOK, Silent
  <2>2. gens' = gens
    BY <1>2 DEF Checkpoint
  <2>3. /\ \A z : Generations(z)' = Generations(z)
        /\ \A z, g : Lasting(z, g)' = Lasting(z, g)
    BY DEF Lasting, Generations, RowsOf
  <2> QED BY <2>1, <2>2, <2>3, SafeQuiet
<1> QED BY <1>1, <1>2

LEMMA SafeInsert ==
  ASSUME TypeInv, SafeInv, NEW c \in Coroutines, Insert(c)
  PROVE  SafeInv'
<1>1. PICK s \in Sessions, g \in Nat :
         /\ op[c].pc = "insert" /\ op[c].sid = s /\ op[c].gen = g
         /\ Alone(c, s)
  BY InsideAlone DEF TypeInv, TypeOK, OpOK, Insert, At, Critical, Op
<1>2. /\ op'[c].pc = "commit" /\ op'[c].sid = s /\ op'[c].gen = g
      /\ \A d \in Coroutines : d # c => op'[d] = op[d]
  BY <1>1 DEF Insert, TypeInv, TypeOK, Op
<1>3. /\ Generations(s)' = Generations(s) \cup {g}
      /\ \A z : z # s => Generations(z)' = Generations(z)
  BY <1>1, InsertedGenerations DEF Insert
<1>4. gens' = gens /\ expired' = expired /\ gens[s] = g
  BY <1>1 DEF Insert, SafeInv, SafeOp
<1>5. PICK v : /\ g \notin Generations(s)
               /\ snapshots' = snapshots \cup {[sid |-> s, gen |-> g, img |-> v]}
  BY <1>1 DEF Insert, InsertSnapshot
<1>6. Lasting(s, g)'
  <2> DEFINE new == [sid |-> s, gen |-> g, img |-> v]
  <2>1. new.sid = s /\ new.gen = g /\ new \in snapshots'
    BY <1>5
  <2> HIDE DEF new
  <2>2. new \notin expired
    BY <1>5, <2>1 DEF Generations, RowsOf, TypeInv, TypeOK
  <2> QED BY <1>4, <2>1, <2>2 DEF Lasting
<1>7. \A z, h : Lasting(z, h) => Lasting(z, h)'
  BY <1>4, <1>5 DEF Lasting
<1>8. SafeOp(c)'
  <2>1. Lasting(op[c].sid, op[c].gen)' = Lasting(s, g)'
    BY <1>2
  <2> QED BY <1>2, <1>4, <1>6, <2>1 DEF SafeOp, At
<1>9. Few(Ahead(s, gens[s])')
  <2>1. Ahead(s, gens[s])' = Ahead(s, gens[s])
    BY <1>3, <1>4 DEF Ahead
  <2> QED BY <2>1 DEF SafeInv
<1> QED BY <1>1, <1>2, <1>3, <1>4, <1>7, <1>8, <1>9, SafeFrame DEF Few

\* The conflict gives the generation back: the counter is where it was.
LEMMA SafeConflict ==
  ASSUME TypeInv, SafeInv, NEW c \in Coroutines, InsertConflicts(c)
  PROVE  SafeInv'
<1>1. PICK s \in Sessions, g \in Nat :
         /\ op[c].pc = "insert" /\ op[c].sid = s /\ op[c].gen = g
         /\ Alone(c, s)
  BY InsideAlone DEF TypeInv, TypeOK, OpOK, InsertConflicts, At, Critical, Op
<1>2. /\ op'[c].pc = "ckpt_err" /\ \A d \in Coroutines : d # c => op'[d] = op[d]
      /\ gens'[s] = g - 1 /\ \A z \in Sessions : z # s => gens'[z] = gens[z]
      /\ UNCHANGED <<snapshots, expired>>
  BY <1>1 DEF InsertConflicts, SaveFailed, storeVars, TypeInv, TypeOK, Op
<1>3. /\ \A z : Generations(z)' = Generations(z)
      /\ \A z, h : Lasting(z, h)' = Lasting(z, h)
  BY <1>2 DEF Lasting, Generations, RowsOf
<1>4. SafeOp(c)'
  BY <1>2 DEF SafeOp, At, Saving
<1>5. Few(Ahead(s, gens[s])')
  <2>1. Ahead(s, gens[s])' = Ahead(s, g - 1)
    BY <1>2, <1>3 DEF Ahead
  <2> QED BY <1>1, <2>1 DEF SafeInv, SafeOp, At
<1> QED BY <1>1, <1>2, <1>3, <1>4, <1>5, SafeFrame DEF Few

\* The list of a prune has not the generation just written: fewer than Depth
\* rows are above it.
LEMMA SafeSaving ==
  ASSUME TypeInv, SafeInv, NEW c \in Coroutines,
         Commit(c) \/ ListOld(c)
  PROVE  SafeInv'
<1>1. PICK s \in Sessions, g \in Nat :
         /\ op[c].pc \in Saving /\ op[c].sid = s /\ op[c].gen = g
         /\ Alone(c, s)
  BY InsideAlone DEF TypeInv, TypeOK, OpOK, Commit, ListOld, At, Saving,
                     Critical, Op
<1>2. /\ gens' = gens /\ gens[s] = g /\ Lasting(s, g)
      /\ UNCHANGED <<snapshots, expired>>
  BY <1>1 DEF Commit, ListOld, storeVars, SafeInv, SafeOp
<1>3. /\ \A z : Generations(z)' = Generations(z)
      /\ \A z, h : Lasting(z, h)' = Lasting(z, h)
  BY <1>2 DEF Lasting, Generations, RowsOf
<1>4. g \notin Excess(s, Depth)
  <2>1. Few(Ahead(s, g))
    BY <1>2 DEF SafeInv
  <2>2. Cardinality(Ahead(s, g)) < Depth /\ Cardinality(Ahead(s, g)) \in Nat
    BY <2>1, FS_CardinalityType DEF Few
  <2>3. ~ (Cardinality(Ahead(s, g)) >= Depth)
    BY <2>2, DepthAssumption
  <2> QED BY <2>3 DEF Excess, Ahead
<1>5. /\ op'[c].pc \in {"list_old", "delete_old", "ckpt_log"}
      /\ op'[c].sid = s /\ op'[c].gen = g
      /\ op'[c].pc = "delete_old" => g \notin op'[c].set
      /\ \A d \in Coroutines : d # c => op'[d] = op[d]
  <2>1. CASE Commit(c)
    BY <1>1, <2>1 DEF Commit, Goto, TypeInv, TypeOK, Op
  <2>2. CASE ListOld(c)
    <3>1. PICK pc \in {"ckpt_log", "delete_old"} :
             op' = [op EXCEPT ![c] = [@ EXCEPT !.pc = pc, !.set = Excess(s, Depth)]]
      BY <1>1, <2>2 DEF ListOld
    <3> QED BY <1>1, <1>4, <3>1 DEF TypeInv, TypeOK, Op
  <2> QED BY <2>1, <2>2
<1>6. SafeOp(c)'
  <2>1. Lasting(op[c].sid, op[c].gen)' = Lasting(s, g)'
    BY <1>5
  <2> QED BY <1>2, <1>3, <1>5, <2>1 DEF SafeOp, At
<1>7. Few(Ahead(s, gens[s])')
  <2>1. Ahead(s, gens[s])' = Ahead(s, gens[s])
    BY <1>2, <1>3 DEF Ahead
  <2> QED BY <2>1 DEF SafeInv
<1> QED BY <1>1, <1>2, <1>3, <1>5, <1>6, <1>7, SafeFrame DEF Few

LEMMA SafeDelete ==
  ASSUME TypeInv, SafeInv, NEW c \in Coroutines, DeleteOld(c)
  PROVE  SafeInv'
<1>1. PICK s \in Sessions, g \in Nat, S \in SUBSET Nat :
         /\ op[c].pc = "delete_old" /\ op[c].sid = s /\ op[c].gen = g
         /\ op[c].set = S /\ Alone(c, s)
  BY InsideAlone DEF TypeInv, TypeOK, OpOK, DeleteOld, At, Critical, Op
<1>2. /\ op'[c].pc = "ckpt_log" /\ op'[c].sid = s /\ op'[c].gen = g
      /\ \A d \in Coroutines : d # c => op'[d] = op[d]
  BY <1>1 DEF DeleteOld, TypeInv, TypeOK, Op
<1>3. /\ Generations(s)' = Generations(s) \ S
      /\ \A z : z # s => Generations(z)' = Generations(z)
  BY <1>1, DeletedGenerations DEF DeleteOld
<1>4. gens' = gens /\ g \notin S /\ Lasting(s, g)
  BY <1>1 DEF DeleteOld, SafeInv, SafeOp, At, Saving
<1>5. /\ snapshots' = {r \in snapshots : r.sid # s \/ r.gen \notin S}
      /\ expired' = expired \cap snapshots'
  BY <1>1 DEF DeleteOld, DeleteSnapshots
<1>6. Lasting(s, g)' /\ \A z, h : z # s /\ Lasting(z, h) => Lasting(z, h)'
  BY <1>4, <1>5 DEF Lasting
<1>7. SafeOp(c)'
  <2>1. Lasting(op[c].sid, op[c].gen)' = Lasting(s, g)'
    BY <1>2
  <2> QED BY <1>2, <1>6, <2>1 DEF SafeOp, At, Saving
<1>8. Few(Ahead(s, gens[s])')
  <2>1. Ahead(s, gens[s])' \subseteq Ahead(s, gens[s])
    BY <1>3, <1>4 DEF Ahead
  <2> QED BY <2>1, FewShrinks DEF SafeInv
<1> QED BY <1>1, <1>2, <1>3, <1>4, <1>6, <1>7, <1>8, SafeFrame DEF Few

\* The target is one of at most Depth rows.
LEMMA SafeLoad ==
  ASSUME TypeInv, SizeInv, faults = 0, SafeInv, NEW c \in Coroutines, Load(c)
  PROVE  SafeInv'
<1>1. PICK s \in Sessions, g \in Nat :
         /\ op[c].pc = "load" /\ op[c].sid = s /\ op[c].gen = g
         /\ g \in Generations(s) /\ Alone(c, s)
  BY InsideAlone DEF TypeInv, TypeOK, OpOK, Load, At, Critical, Op
<1>2. /\ op'[c].pc = "audit" /\ op'[c].sid = s /\ op'[c].gen = g
      /\ \A d \in Coroutines : d # c => op'[d] = op[d]
      /\ UNCHANGED <<snapshots, expired, gens>>
  BY <1>1 DEF Load, Goto, storeVars, TypeInv, TypeOK, Op
<1>3. /\ \A z : Generations(z)' = Generations(z)
      /\ \A z, h : Lasting(z, h)' = Lasting(z, h)
  BY <1>2 DEF Lasting, Generations, RowsOf
<1>4. Few(Ahead(s, g))
  <2> DEFINE G == Generations(s)
             A == Ahead(s, g)
  <2>1. IsFiniteSet(G) /\ Cardinality(G) <= Depth
    <3>1. \A d \in Coroutines : op[d].pc \in Saving => op[d].sid # s
      BY <1>1 DEF Alone, Saving, Critical
    <3>2. Depth + faults = Depth
      BY DepthAssumption
    <3> QED BY <3>1, <3>2 DEF SizeInv, SizeAt
  <2>2. g \in G /\ A \subseteq G \ {g}
    <3>1. G \subseteq Nat
      BY GenerationsType
    <3> QED BY <1>1, <3>1 DEF Ahead
  <2> HIDE DEF G, A
  <2>3. /\ IsFiniteSet(G \ {g}) /\ Cardinality(G \ {g}) = Cardinality(G) - 1
        /\ Cardinality(G) \in Nat
    BY <2>1, <2>2, FS_RemoveElement, FS_CardinalityType
  <2>4. Few(G \ {g})
    BY <2>1, <2>3, DepthAssumption DEF Few
  <2>5. Few(A)
    BY <2>2, <2>4, FewShrinks
  <2> QED BY <2>5 DEF A
<1>5. SafeOp(c)'
  <2>1. Ahead(op[c].sid, op[c].gen)' = Ahead(s, g)
    BY <1>2, <1>3 DEF Ahead
  <2> QED BY <1>2, <1>4, <2>1 DEF SafeOp, At, Saving, Few
<1>6. Few(Ahead(s, gens[s])')
  <2>1. Ahead(s, gens[s])' = Ahead(s, gens[s])
    BY <1>2, <1>3 DEF Ahead
  <2> QED BY <2>1 DEF SafeInv
<1> QED BY <1>1, <1>2, <1>3, <1>5, <1>6, SafeFrame DEF Few

LEMMA SafeAudit ==
  ASSUME TypeInv, SafeInv, NEW c \in Coroutines, SaveAudit(c)
  PROVE  SafeInv'
<1>1. PICK s \in Sessions, g \in Nat :
         /\ op[c].pc = "audit" /\ op[c].sid = s /\ op[c].gen = g
         /\ Alone(c, s)
  BY InsideAlone DEF TypeInv, TypeOK, OpOK, SaveAudit, At, Critical, Op
<1>2. /\ op'[c].pc = "rb_log" /\ \A d \in Coroutines : d # c => op'[d] = op[d]
      /\ gens'[s] = g /\ \A z \in Sessions : z # s => gens'[z] = gens[z]
      /\ UNCHANGED <<snapshots, expired>>
  BY <1>1 DEF SaveAudit, Goto, TypeInv, TypeOK, Op
<1>3. /\ \A z : Generations(z)' = Generations(z)
      /\ \A z, h : Lasting(z, h)' = Lasting(z, h)
  BY <1>2 DEF Lasting, Generations, RowsOf
<1>4. SafeOp(c)'
  BY <1>2 DEF SafeOp, At, Saving
<1>5. Few(Ahead(s, gens[s])')
  <2>1. Ahead(s, gens[s])' = Ahead(s, g)
    BY <1>2, <1>3 DEF Ahead
  <2> QED BY <1>1, <2>1 DEF SafeInv, SafeOp, At
<1> QED BY <1>1, <1>2, <1>3, <1>4, <1>5, SafeFrame DEF Few

\* The steps after which SafeOp says nothing of the coroutine that took them.
LEMMA SafeSilent ==
  ASSUME TypeInv, SafeInv, NEW c \in Coroutines,
         \/ PruneFails(c) \/ CheckpointEnds(c)
         \/ AutoList(c) \/ AutoSkips(c) \/ AutoScan(c)
         \/ RollbackGranted(c) \/ LoadMissing(c) \/ AuditFails(c)
         \/ RollbackEnds(c)
  PROVE  SafeInv'
<1>1. UNCHANGED <<snapshots, expired, gens>>
  BY DEF PruneFails, CheckpointEnds, AutoList, AutoSkips, AutoScan,
         RollbackGranted, LoadMissing, AuditFails, RollbackEnds,
         RollbackRaises, storeVars
<1>2. /\ \A z : Generations(z)' = Generations(z)
      /\ \A z, g : Lasting(z, g)' = Lasting(z, g)
  BY <1>1 DEF Lasting, Generations, RowsOf
<1>3. op'[c].pc \in Silent /\ \A d \in Coroutines : d # c => op'[d] = op[d]
  <2>1. CASE EndOp(c)
    BY <2>1, IdleType DEF EndOp, TypeInv, TypeOK, Silent
  <2>2. CASE AutoList(c)
    BY <2>2 DEF AutoList, TypeInv, TypeOK, Op, Silent
  <2>3. CASE AutoScan(c)
    BY <2>3 DEF AutoScan, At, Rollback, StartLoad, NewOp, TypeInv, TypeOK, Op,
                Silent
  <2>4. CASE RollbackGranted(c)
    BY <2>4 DEF RollbackGranted, StartLoad, NewOp, TypeInv, TypeOK, Op, Silent
  <2> QED BY <2>1, <2>2, <2>3, <2>4
          DEF PruneFails, CheckpointEnds, AutoSkips, LoadMissing, AuditFails,
              RollbackEnds, RollbackRaises
<1> QED BY <1>1, <1>2, <1>3, SafeQuiet

LEMMA SafeOpStep ==
  ASSUME TypeInv, SizeInv, faults = 0, faults' = 0, SafeInv,
         NEW c \in Coroutines, OpStep(c)
  PROVE  SafeInv'
<1>1. ~ SaveFails(c)
  BY DEF SaveFails
<1>2. CASE CheckpointGranted(c)
  <2>1. PICK s \in Sessions : s = op[c].sid
    BY <1>2 DEF TypeInv, OpOK, CheckpointGranted, At
  <2>2. Alone(c, s)
    BY <1>2, <2>1, InsideAlone DEF CheckpointGranted
  <2> QED BY <1>2, <2>1, <2>2, SafeStartSave DEF CheckpointGranted, storeVars
<1> QED BY <1>1, <1>2, SafeInsert, SafeConflict, SafeSaving, SafeDelete,
           SafeLoad, SafeAudit, SafeSilent
        DEF OpStep, CheckpointStep, RollbackStep

LEMMA SafeCall ==
  ASSUME TypeInv, SafeInv, EngineCall
  PROVE  SafeInv'
<1>1. UNCHANGED <<snapshots, expired>>
  BY DEF EngineCall, storeVars
<1>2. /\ \A z : Generations(z)' = Generations(z)
      /\ \A z, g : Lasting(z, g)' = Lasting(z, g)
  BY <1>1 DEF Lasting, Generations, RowsOf
<1>3. ASSUME NEW c \in Tasks, NEW s, NEW g,
             Rollback(c, s, g) \/ StartAuto(c, s), gens' = gens
      PROVE  SafeInv'
  <2>1. op'[c].pc \in Silent /\ \A d \in Coroutines : d # c => op'[d] = op[d]
    BY <1>3 DEF Rollback, StartLoad, StartAuto, NewOp, TypeInv, TypeOK, Silent,
                Coroutines
  <2> QED BY <1>2, <1>3, <2>1, SafeQuiet
<1>4. CASE UNCHANGED <<gens, op>>
  BY <1>2, <1>4, SafeQuiet
<1> QED BY <1>1, <1>3, <1>4, SafeCheckpoint DEF EngineCall, Coroutines

\* A purge takes what is not lasting; days go by when nobody is saving.
LEMMA SafeSweep ==
  ASSUME TypeInv, SafeInv, Wake \/ Purge \/ TimePasses \/ UNCHANGED vars
  PROVE  SafeInv'
<1>1. gens' = gens /\ op' = op
  BY DEF Wake, Purge, TimePasses, vars
<1>2. CASE TimePasses
  <2>1. \A d \in Coroutines : op'[d].pc \in Silent
    BY <1>1, <1>2 DEF TimePasses, At, Silent
  <2>2. \A z : Generations(z)' = Generations(z)
    BY <1>2 DEF TimePasses, Generations, RowsOf
  <2> QED BY <1>1, <2>1, <2>2, SafeQuiet
<1>3. CASE Purge
  <2>1. snapshots' = snapshots \ expired /\ expired' = {}
    BY <1>3 DEF Purge, PurgeExpired
  <2>2. /\ \A z : Generations(z)' \subseteq Generations(z)
        /\ \A z, g : Lasting(z, g) => Lasting(z, g)'
    BY <2>1 DEF Lasting, Generations, RowsOf
  <2> QED BY <1>1, <2>2, SafeQuiet
<1>4. CASE Wake \/ UNCHANGED vars
  <2>1. UNCHANGED <<snapshots, expired>>
    BY <1>4 DEF Wake, vars, storeVars
  <2>2. /\ \A z : Generations(z)' = Generations(z)
        /\ \A z, g : Lasting(z, g)' = Lasting(z, g)
    BY <2>1 DEF Lasting, Generations, RowsOf
  <2> QED BY <1>1, <2>2, SafeQuiet
<1> QED BY <1>2, <1>3, <1>4

LEMMA SafeInit == EngineInit => SafeInv
<1> SUFFICES ASSUME EngineInit PROVE SafeInv
  OBVIOUS
<1>1. \A s \in Sessions : Generations(s) = {}
  BY DEF EngineInit, Generations, RowsOf
<1>2. \A s \in Sessions : Few(Ahead(s, gens[s]))
  <2>1. Few({})
    BY FS_EmptySet, DepthAssumption DEF Few
  <2>2. \A s \in Sessions : Ahead(s, gens[s]) = {}
    BY <1>1 DEF Ahead
  <2> QED BY <2>1, <2>2
<1>3. \A c \in Coroutines : op[c].pc = "idle"
  BY IdleType DEF EngineInit
<1>4. \A c \in Coroutines : SafeOp(c)
  BY <1>3 DEF SafeOp, At, Saving
<1> QED BY <1>2, <1>4 DEF SafeInv

LEMMA FaultsGrow ==
  ASSUME TypeInv, [EngineNext]_vars
  PROVE  faults' = 0 => faults = 0
<1>1. ASSUME NEW c \in Coroutines, OpStep(c)
      PROVE  faults' = faults \/ faults' = faults + 1
  BY <1>1 DEF OpStep, CheckpointStep, RollbackStep, CheckpointGranted, Insert,
     InsertConflicts, SaveFails, Commit, ListOld, DeleteOld, PruneFails,
     CheckpointEnds, AutoList, AutoSkips, AutoScan, RollbackGranted, Load,
     LoadMissing, SaveAudit, AuditFails, RollbackEnds
<1>2. EngineCall \/ Maintenance \/ TimePasses \/ UNCHANGED vars =>
         faults' = faults
  BY DEF EngineCall, Maintenance, Wake, FlushNext, Purge, TimePasses, vars
<1>3. faults' = faults \/ faults' = faults + 1
  BY <1>1, <1>2 DEF EngineNext
<1> QED BY <1>3 DEF TypeInv, TypeOK

LEMMA SafeStep ==
  ASSUME TypeInv, SizeInv, faults = 0 => SafeInv, [EngineNext]_vars
  PROVE  faults' = 0 => SafeInv'
<1> SUFFICES ASSUME faults' = 0 PROVE SafeInv'
  OBVIOUS
<1>1. faults = 0 /\ SafeInv
  BY FaultsGrow
<1>2. CASE \E s \in Sessions : FlushNext(s)
  BY <1>1, <1>2, SafeCheckpoint, MaintIsCoroutine DEF FlushNext, storeVars
<1> QED BY <1>1, <1>2, SafeCall, SafeOpStep, SafeSweep
        DEF EngineNext, Maintenance

\* Although sessions outlive the retention period and the purge takes no lock:
\* until the first database error a checkpoint that is about to return has its
\* row in the table, for any depth and any callers (engine.py checkpoint and
\* maintenance loop; store.py purge_expired_snapshots).
THEOREM NewestSurvivesExpiry ==
  EngineSpec => [](faults = 0 => CheckpointSurvivesPrune)
<1> DEFINE I == faults = 0 => SafeInv
<1>1. EngineInit => I
  BY SafeInit
<1>2. TypeInv /\ SizeInv /\ I /\ [EngineNext]_vars => I'
  BY SafeStep
<1>3. I => (faults = 0 => CheckpointSurvivesPrune)
  BY DEF SafeInv, SafeOp, CheckpointSurvivesPrune, Lasting, Generations,
         RowsOf, At
<1> HIDE DEF I
<1> QED BY <1>1, <1>2, <1>3, TypeInvariance, SizeInvariance, PTL DEF EngineSpec
-----------------------------------------------------------------------------
(***************************************************************************)
(* The queues of the engine locks                                          *)
(***************************************************************************)
Inside == Critical \cup Waiting

\* Who is in a queue.
Queued(q) == {q[i] : i \in DOMAIN q}

NoDuplicates(q) == \A i, j \in DOMAIN q : q[i] = q[j] => i = j

LEMMA JoinQueue ==
  ASSUME NEW q \in Seq(Coroutines), NEW c \in Coroutines,
         NoDuplicates(q), c \notin Queued(q)
  PROVE  /\ Queued(Append(q, c)) = Queued(q) \cup {c}
         /\ NoDuplicates(Append(q, c))
<1> DEFINE n == Len(q)
           p == Append(q, c)
<1>1. /\ n \in Nat /\ DOMAIN q = 1..n /\ DOMAIN p = 1..(n + 1)
      /\ p[n + 1] = c /\ \A i \in 1..n : p[i] = q[i]
  OBVIOUS
<1> HIDE DEF n, p
<1>2. \A i \in 1..(n + 1) : i \in 1..n \/ i = n + 1
  BY <1>1
<1>3. Queued(p) = Queued(q) \cup {c}
  BY <1>1, <1>2 DEF Queued
<1>4. \A i \in 1..n : q[i] # c
  BY <1>1 DEF Queued
<1>5. NoDuplicates(p)
  BY <1>1, <1>2, <1>4 DEF NoDuplicates
<1> QED BY <1>3, <1>5 DEF p

LEMMA LeaveQueue ==
  ASSUME NEW q \in Seq(Coroutines), q # <<>>, NoDuplicates(q)
  PROVE  /\ Queued(Tail(q)) = Queued(q) \ {Head(q)}
         /\ NoDuplicates(Tail(q))
<1> DEFINE n == Len(q)
           p == Tail(q)
<1>1. /\ n \in Nat \ {0} /\ DOMAIN q = 1..n /\ DOMAIN p = 1..(n - 1)
      /\ Head(q) = q[1] /\ \A i \in 1..(n - 1) : p[i] = q[i + 1]
  BY HeadTailProperties
<1> HIDE DEF n, p
<1>2. \A i \in 1..(n - 1) : i + 1 \in 1..n /\ i + 1 # 1
  BY <1>1
<1>3. \A i \in 1..n : i = 1 \/ (i - 1 \in 1..(n - 1) /\ p[i - 1] = q[i])
  <2> SUFFICES ASSUME NEW i \in 1..n, i # 1
               PROVE  i - 1 \in 1..(n - 1) /\ p[i - 1] = q[i]
    OBVIOUS
  <2>1. i - 1 \in 1..(n - 1) /\ (i - 1) + 1 = i
    BY <1>1
  <2> QED BY <1>1, <2>1
<1>4. NoDuplicates(p)
  <2> SUFFICES ASSUME NEW i \in 1..(n - 1), NEW j \in 1..(n - 1), p[i] = p[j]
               PROVE  i = j
    BY <1>1 DEF NoDuplicates
  <2>1. i + 1 = j + 1
    BY <1>1, <1>2 DEF NoDuplicates
  <2> QED BY <2>1
<1>5. 1 \in 1..n
  BY <1>1
<1>6. \A i \in 1..n : q[i] = q[1] => i = 1
  BY <1>1, <1>5 DEF NoDuplicates
<1>7. Queued(p) = Queued(q) \ {Head(q)}
  <2>1. ASSUME NEW i \in 1..(n - 1)
        PROVE  p[i] \in Queued(q) /\ p[i] # q[1]
    BY <1>1, <1>2, <1>6 DEF Queued
  <2>2. ASSUME NEW i \in 1..n, q[i] # q[1]
        PROVE  q[i] \in Queued(p)
    <3>1. i - 1 \in 1..(n - 1) /\ p[i - 1] = q[i]
      BY <1>3, <2>2
    <3> QED BY <1>1, <3>1 DEF Queued
  <2>3. /\ Queued(p) = {p[i] : i \in 1..(n - 1)}
        /\ Queued(q) = {q[i] : i \in 1..n}
    BY <1>1 DEF Queued
  <2>4. Queued(p) \subseteq Queued(q) \ {q[1]}
    BY <2>1, <2>3
  <2>5. Queued(q) \ {q[1]} \subseteq Queued(p)
    BY <2>2, <2>3
  <2> QED BY <1>1, <2>4, <2>5
<1> QED BY <1>4, <1>7 DEF p

\* LocksMatchOperations in these terms.
Owners(s) == {c \in Coroutines : op[c].sid = s /\ op[c].pc \in Inside}

LocksMatch == \A s \in Sessions : Queued(lockq[s]) = Owners(s) /\ NoDuplicates(lockq[s])

LEMMA MatchIsInvariant == TypeOK /\ LocksMatch => LocksMatchOperations
<1> SUFFICES ASSUME TypeOK, LocksMatch, NEW s \in Sessions
             PROVE  /\ \A c \in Coroutines :
                         (\E i \in DOMAIN lockq[s] : lockq[s][i] = c)
                            <=> op[c].sid = s /\ op[c].pc \in Critical \cup Waiting
                    /\ NoDuplicates(lockq[s])
  BY DEF LocksMatchOperations, NoDuplicates
<1>1. Queued(lockq[s]) = Owners(s) /\ NoDuplicates(lockq[s])
  BY DEF LocksMatch
<1>2. \A c : (\E i \in DOMAIN lockq[s] : lockq[s][i] = c) <=> c \in Queued(lockq[s])
  BY DEF Queued
<1> QED BY <1>1, <1>2 DEF Owners, Inside

\* A step of c that neither joins nor leaves a queue.
LEMMA SamePlace ==
  ASSUME LocksMatch, NEW c \in Coroutines, lockq' = lockq,
         \A d \in Coroutines : d # c => op'[d] = op[d],
         op'[c].pc \in Inside <=> op[c].pc \in Inside,
         op'[c].pc \in Inside => op'[c].sid = op[c].sid
  PROVE  LocksMatch'
<1>1. \A s : Owners(s)' = Owners(s)
  BY DEF Owners
<1> QED BY <1>1 DEF LocksMatch

\* A call that takes the lock or goes to the end of its queue.
LEMMA Joins ==
  ASSUME TypeOK, LocksMatch, NEW c \in Coroutines, op[c].pc \notin Inside,
         NEW s \in Sessions, op'[c].sid = s, op'[c].pc \in Inside,
         \A d \in Coroutines : d # c => op'[d] = op[d],
         lockq' = [lockq EXCEPT ![s] = Append(@, c)]
  PROVE  LocksMatch'
<1>1. lockq[s] \in Seq(Coroutines) /\ lockq'[s] = Append(lockq[s], c)
  BY DEF TypeOK
<1>2. \A z \in Sessions : z # s => lockq'[z] = lockq[z] /\ Owners(z)' = Owners(z)
  BY DEF TypeOK, Owners
<1>3. c \notin Queued(lockq[s]) /\ NoDuplicates(lockq[s])
  BY DEF LocksMatch, Owners
<1>4. Queued(lockq'[s]) = Queued(lockq[s]) \cup {c} /\ NoDuplicates(lockq'[s])
  BY <1>1, <1>3, JoinQueue
<1>5. Owners(s)' = Owners(s) \cup {c}
  BY DEF Owners
<1>6. Queued(lockq[s]) = Owners(s)
  BY DEF LocksMatch
<1> QED BY <1>2, <1>4, <1>5, <1>6 DEF LocksMatch

\* A return, an error or an exception that hands the lock on.
LEMMA Leaves ==
  ASSUME TypeInv, LocksMatch, NEW c \in Coroutines, op[c].pc \in Critical,
         EndOp(c), Release(op[c].sid)
  PROVE  LocksMatch'
<1> PICK s : s = op[c].sid
  OBVIOUS
<1>1. /\ s \in Sessions /\ lockq[s] \in Seq(Coroutines)
      /\ lockq[s] # <<>> /\ Head(lockq[s]) = c
  BY DEF TypeInv, TypeOK, OpOK, HolderIsHead, Critical, At
<1>2. op'[c] = Idle /\ \A d \in Coroutines : d # c => op'[d] = op[d]
  BY OpUpdate, IdleType DEF EndOp, TypeInv
<1>3. op'[c].pc \notin Inside
  BY <1>2, IdleType DEF Inside, Critical, Waiting
<1>4. lockq'[s] = Tail(lockq[s])
  BY <1>1 DEF Release, TypeInv, TypeOK
<1>5. \A z \in Sessions : z # s => lockq'[z] = lockq[z]
  BY <1>1 DEF Release, TypeInv, TypeOK
<1>6. /\ Owners(s)' = Owners(s) \ {c}
      /\ \A z : z # s => Owners(z)' = Owners(z)
  BY <1>2, <1>3 DEF Owners
<1>7. Queued(lockq'[s]) = Queued(lockq[s]) \ {c} /\ NoDuplicates(lockq'[s])
  BY <1>1, <1>4, LeaveQueue DEF LocksMatch
<1>8. Queued(lockq[s]) = Owners(s)
  BY <1>1 DEF LocksMatch
<1> QED BY <1>5, <1>6, <1>7, <1>8 DEF LocksMatch

LEMMA LocksRollback ==
  ASSUME TypeInv, LocksMatch, NEW c \in Coroutines, op[c].pc \notin Inside,
         NEW s \in Sessions, NEW g \in Nat, Rollback(c, s, g)
  PROVE  LocksMatch'
<1>1. op[c].pc \notin Critical
  BY DEF Inside
<1>2. PICK o \in Op : /\ op' = [op EXCEPT ![c] = o] /\ o.sid = s
                      /\ o.pc \in {"load", "rb_lock"}
  BY <1>1, RollbackEnters
<1>3. op'[c] = o /\ \A d \in Coroutines : d # c => op'[d] = op[d]
  BY <1>2, OpUpdate DEF TypeInv
<1>4. op'[c].pc \in Inside
  BY <1>2, <1>3 DEF Inside, Critical, Waiting
<1> QED BY <1>2, <1>3, <1>4, Joins DEF Rollback, TypeInv

LEMMA LocksCheckpoint ==
  ASSUME TypeInv, LocksMatch, NEW c \in Coroutines, op[c].pc \notin Inside,
         NEW s \in Sessions, NEW v \in Session,
         NEW hold \in Sessions \cup Session, Checkpoint(c, s, v, hold)
  PROVE  LocksMatch'
<1>1. op[c].pc \notin Critical
  BY DEF Inside
<1>2. PICK o \in Op : /\ op' = [op EXCEPT ![c] = o] /\ o.sid = s
                      /\ o.pc \in {"insert", "ckpt_lock"}
  BY <1>1, CheckpointEnters
<1>3. op'[c] = o /\ \A d \in Coroutines : d # c => op'[d] = op[d]
  BY <1>2, OpUpdate DEF TypeInv
<1>4. op'[c].pc \in Inside
  BY <1>2, <1>3 DEF Inside, Critical, Waiting
<1> QED BY <1>2, <1>3, <1>4, Joins DEF Checkpoint, TypeInv

\* The steps of an operation from one label under the lock to the next.
LEMMA LocksMove ==
  ASSUME TypeInv, LocksMatch, NEW c \in Coroutines,
         \/ CheckpointGranted(c) \/ Insert(c) \/ InsertConflicts(c)
         \/ SaveFails(c) \/ Commit(c) \/ ListOld(c) \/ DeleteOld(c)
         \/ RollbackGranted(c) \/ Load(c) \/ SaveAudit(c)
  PROVE  LocksMatch'
<1>1. op[c] \in Op /\ op \in [Coroutines -> Op]
  BY DEF TypeInv, TypeOK
<1>2. lockq' = lockq
  BY DEF CheckpointGranted, Insert, InsertConflicts, SaveFails, SaveFailed,
         Commit, ListOld, DeleteOld, RollbackGranted, Load, SaveAudit
<1>3. op[c].pc \in Inside
  BY DEF CheckpointGranted, Insert, InsertConflicts, SaveFails, Commit, ListOld,
         DeleteOld, RollbackGranted, Load, SaveAudit, At, Inside, Critical,
         Waiting
<1>4. /\ op'[c].pc \in Inside /\ op'[c].sid = op[c].sid
      /\ \A d \in Coroutines : d # c => op'[d] = op[d]
  <2>1. CASE Insert(c) \/ Commit(c) \/ Load(c) \/ SaveAudit(c)
    BY <1>1, <2>1 DEF Insert, Commit, Load, SaveAudit, Goto, Op, Inside, Critical
  <2>2. CASE InsertConflicts(c) \/ SaveFails(c)
    BY <1>1, <2>2 DEF InsertConflicts, SaveFails, SaveFailed, Op, Inside, Critical
  <2>3. CASE ListOld(c)
    <3>1. op'[c].pc \in {"ckpt_log", "delete_old"} /\ op'[c].sid = op[c].sid
      BY <1>1, <2>3 DEF ListOld, Op
    <3> QED BY <1>1, <2>3, <3>1 DEF ListOld, Inside, Critical
  <2>6. CASE DeleteOld(c)
    BY <1>1, <2>6 DEF DeleteOld, Op, Inside, Critical
  <2>4. CASE CheckpointGranted(c)
    BY <1>1, <2>4 DEF CheckpointGranted, StartSave, NewOp, Inside, Critical
  <2>5. CASE RollbackGranted(c)
    BY <1>1, <2>5 DEF RollbackGranted, StartLoad, NewOp, Inside, Critical
  <2> QED BY <2>1, <2>2, <2>3, <2>4, <2>5, <2>6
<1> QED BY <1>2, <1>3, <1>4, SamePlace

LEMMA LocksEnd ==
  ASSUME TypeInv, LocksMatch, NEW c \in Coroutines,
         \/ PruneFails(c) \/ CheckpointEnds(c)
         \/ LoadMissing(c) \/ AuditFails(c) \/ RollbackEnds(c)
  PROVE  LocksMatch'
<1>1. op[c].pc \in Critical
  BY DEF PruneFails, CheckpointEnds, LoadMissing, AuditFails, RollbackEnds, At,
         Critical
<1>2. EndOp(c) /\ Release(op[c].sid)
  BY DEF PruneFails, CheckpointEnds, LoadMissing, AuditFails, RollbackEnds,
         RollbackRaises
<1> QED BY <1>1, <1>2, Leaves

\* auto_rollback is outside the lock until it calls rollback.
LEMMA LocksAuto ==
  ASSUME TypeInv, LocksMatch, NEW c \in Coroutines,
         AutoList(c) \/ AutoSkips(c) \/ AutoScan(c)
  PROVE  LocksMatch'
<1>1. op[c] \in Op /\ op \in [Coroutines -> Op] /\ op[c].pc \notin Inside
  BY DEF TypeInv, TypeOK, AutoList, AutoSkips, AutoScan, At, Inside, Critical,
         Waiting
<1>2. op[c].sid \in Sessions
  BY DEF TypeInv, OpOK, AutoList, AutoSkips, AutoScan, At
<1>3. CASE AutoList(c) \/ AutoSkips(c)
  <2>1. lockq' = lockq
    BY <1>3 DEF AutoList, AutoSkips
  <2>2. /\ op'[c].pc \in {"auto_scan", "idle"}
        /\ \A d \in Coroutines : d # c => op'[d] = op[d]
    <3>1. CASE AutoList(c)
      <4>1. PICK found, low :
               op' = [op EXCEPT ![c] = [@ EXCEPT !.pc = "auto_scan",
                                                 !.set = found, !.gen = low]]
        BY <3>1 DEF AutoList
      <4> QED BY <1>1, <4>1 DEF Op
    <3>2. CASE AutoSkips(c)
      BY <1>1, <3>2, IdleType DEF AutoSkips, EndOp
    <3> QED BY <1>3, <3>1, <3>2
  <2>3. op'[c].pc \notin Inside
    BY <2>2 DEF Inside, Critical, Waiting
  <2> QED BY <1>1, <2>1, <2>2, <2>3, SamePlace
<1>4. CASE \E g \in Nat : Rollback(c, op[c].sid, g)
  BY <1>1, <1>2, <1>4, LocksRollback
<1>5. CASE /\ op' = [op EXCEPT ![c] = [@ EXCEPT !.set = op[c].set \ {Highest(op[c].set)}]]
           /\ lockq' = lockq
  <2>1. op'[c].pc = op[c].pc /\ \A d \in Coroutines : d # c => op'[d] = op[d]
    BY <1>1, <1>5 DEF Op
  <2> QED BY <1>1, <1>5, <2>1, SamePlace
<1>6. AutoScan(c) => \/ \E g \in Nat : Rollback(c, op[c].sid, g)
                     \/ /\ op' = [op EXCEPT ![c] = [@ EXCEPT !.set = op[c].set \ {Highest(op[c].set)}]]
                        /\ lockq' = lockq
  <2>1. op[c].gen \in Nat
    BY <1>1 DEF Op
  <2>2. \A g : Safe(op[c].sid, g) => g \in Nat
    BY GenerationsType DEF Safe
  <2> QED BY <2>1, <2>2 DEF AutoScan
<1> QED BY <1>3, <1>4, <1>5, <1>6

LEMMA LocksCall ==
  ASSUME TypeInv, LocksMatch, EngineCall
  PROVE  LocksMatch'
<1>1. \A c \in Tasks : At(c, "idle") => c \in Coroutines /\ op[c].pc \notin Inside
  BY DEF Coroutines, At, Inside, Critical, Waiting
<1>2. CASE \E c \in Tasks, s \in Sessions, v \in Session,
              hold \in Sessions \cup Session :
             At(c, "idle") /\ Checkpoint(c, s, v, hold) /\ UNCHANGED dirty
  BY <1>1, <1>2, LocksCheckpoint
<1>3. CASE \E c \in Tasks, s \in Sessions, g \in Targets :
             At(c, "idle") /\ Rollback(c, s, g) /\ UNCHANGED <<gens, dirty>>
  BY <1>1, <1>3, LocksRollback, EngineAssumption
<1>4. CASE \E c \in Tasks, s \in Sessions :
             /\ At(c, "idle") /\ StartAuto(c, s)
             /\ UNCHANGED <<gens, dirty, lockq>>
  <2>1. PICK c \in Tasks, s \in Sessions :
             /\ At(c, "idle") /\ StartAuto(c, s)
             /\ UNCHANGED <<gens, dirty, lockq>>
    BY <1>4
  <2>2. op'[c].pc \notin Inside /\ \A d \in Coroutines : d # c => op'[d] = op[d]
    BY <1>1, <2>1 DEF StartAuto, NewOp, TypeInv, TypeOK, Inside, Critical, Waiting
  <2> QED BY <1>1, <2>1, <2>2, SamePlace
<1>5. CASE UNCHANGED <<gens, lockq, op>>
  BY <1>5 DEF LocksMatch, Owners
<1> QED BY <1>2, <1>3, <1>4, <1>5 DEF EngineCall

LEMMA LocksStep ==
  ASSUME TypeInv, LocksMatch, [EngineNext]_vars
  PROVE  LocksMatch'
<1>1. ASSUME NEW c \in Coroutines, OpStep(c)
      PROVE  LocksMatch'
  BY <1>1, LocksMove, LocksEnd, LocksAuto
     DEF OpStep, CheckpointStep, RollbackStep
<1>2. ASSUME NEW s \in Sessions, FlushNext(s)
      PROVE  LocksMatch'
  <2>1. Maint \in Coroutines /\ op[Maint].pc \notin Inside /\ sess[s] \in Session
    BY <1>2, MaintIsCoroutine
       DEF FlushNext, At, Inside, Critical, Waiting, TypeInv, TypeOK
  <2> QED BY <1>2, <2>1, LocksCheckpoint DEF FlushNext
<1>3. CASE Wake \/ Purge \/ TimePasses \/ UNCHANGED vars
  <2>1. UNCHANGED <<lockq, op>>
    BY <1>3 DEF Wake, Purge, TimePasses, vars
  <2> QED BY <2>1 DEF LocksMatch, Owners
<1> QED BY <1>1, <1>2, <1>3, LocksCall DEF EngineNext, Maintenance

LEMMA LocksInit == EngineInit => LocksMatch
<1> SUFFICES ASSUME EngineInit PROVE LocksMatch
  OBVIOUS
<1>1. \A s \in Sessions : lockq[s] = <<>>
  BY DEF EngineInit
<1>2. \A c \in Coroutines : op[c].pc \notin Inside
  BY IdleType DEF EngineInit, Inside, Critical, Waiting
<1>3. Queued(<<>>) = {} /\ NoDuplicates(<<>>)
  BY DEF Queued, NoDuplicates
<1> QED BY <1>1, <1>2, <1>3 DEF LocksMatch, Owners

\* Every way out of the critical section, the exceptions included, hands the
\* lock on, and whoever is not idle at "async with lock" is in its queue
\* once, for any callers (engine.py, the three uses of _session_locks).
THEOREM LocksAreHandedOn == EngineSpec => []LocksMatchOperations
<1>1. TypeInv /\ LocksMatch /\ [EngineNext]_vars => LocksMatch'
  BY LocksStep
<1>2. TypeInv /\ LocksMatch => LocksMatchOperations
  BY MatchIsInvariant DEF TypeInv
<1> QED BY <1>1, <1>2, LocksInit, TypeInvariance, PTL DEF EngineSpec

-----------------------------------------------------------------------------
(***************************************************************************)
(* The tables are a ledger                                                 *)
(***************************************************************************)

LEMMA InsertAppends ==
  ASSUME TypeInv, RowsInv, NEW c \in Coroutines, Insert(c)
  PROVE  Kept!Appends /\ Kept!Prunes
<1>1. PICK new : /\ new.sid = op[c].sid /\ new.gen = op[c].gen
                 /\ snapshots' = snapshots \cup {new}
  BY DEF Insert, InsertSnapshot
<1>2. ASSUME NEW q \in snapshots, q.sid = new.sid
      PROVE  Kept!Newer(new, q)
  <2>1. q.gen \in Generations(op[c].sid)
    BY <1>1, <1>2 DEF Generations, RowsOf
  <2>2. q.gen < new.gen /\ q.gen \in Nat /\ new.gen \in Nat
    BY <1>1, <2>1, InsertOnTop, GenerationsType DEF TypeInv, TypeOK, Op
  <2> QED BY <1>2, <2>2 DEF Kept!Newer
<1>3. Kept!Appends
  BY <1>1, <1>2 DEF Kept!Appends
<1>4. Kept!Prunes
  BY <1>1 DEF Kept!Prunes
<1> QED BY <1>3, <1>4

LEMMA DeletePrunes ==
  ASSUME TypeInv, RowsInv, NEW c \in Coroutines, DeleteOld(c)
  PROVE  Kept!Appends /\ Kept!Prunes
<1>1. PICK s, g, gone : s = op[c].sid /\ g = op[c].gen /\ gone = op[c].set
  OBVIOUS
<1>2. snapshots' = {r \in snapshots : r.sid # s \/ r.gen \notin gone}
  BY <1>1 DEF DeleteOld, DeleteSnapshots
<1>3. /\ g \in Generations(s) /\ g \notin gone
      /\ \A h \in Generations(s) : h <= g
      /\ \A x \in gone, h \in Generations(s) : h <= x => h \in gone
  BY <1>1 DEF RowsInv, OpRows, DeleteOld, At
<1>4. PICK top \in snapshots : top.sid = s /\ top.gen = g
  BY <1>3 DEF Generations, RowsOf
<1>5. ASSUME NEW r \in snapshots, r \notin snapshots'
      PROVE  /\ \E q \in snapshots' : Kept!Newer(q, r)
             /\ \A q \in snapshots' : q.sid = r.sid => Kept!Newer(q, r)
  <2>1. r.sid = s /\ r.gen \in gone
    BY <1>2, <1>5
  <2>2. \A q \in snapshots : q.sid = s => q.gen \in Generations(s) /\ q.gen \in Nat
    BY GenerationsType DEF Generations, RowsOf
  <2>3. ASSUME NEW q \in snapshots', q.sid = s
        PROVE  Kept!Newer(q, r)
    <3>1. q \in snapshots /\ q.gen \notin gone
      BY <1>2, <2>3
    <3>2. ~ (q.gen <= r.gen)
      BY <1>3, <2>1, <2>2, <2>3, <3>1
    <3>3. q.gen \in Nat /\ r.gen \in Nat
      BY <2>1, <2>2, <2>3, <3>1
    <3>4. q.gen > r.gen
      BY <3>2, <3>3
    <3> QED BY <2>1, <2>3, <3>4 DEF Kept!Newer
  <2>4. top \in snapshots'
    BY <1>2, <1>3, <1>4
  <2> QED BY <1>4, <2>1, <2>3, <2>4
<1>6. Kept!Prunes
  BY <1>5 DEF Kept!Prunes
<1>7. Kept!Appends
  BY <1>2 DEF Kept!Appends
<1> QED BY <1>6, <1>7

\* No other step changes the rows, and none takes an audit record back.
LEMMA RowsKept ==
  ASSUME Ageing = FALSE, TypeInv, RowsInv, [EngineNext]_vars,
         \A c \in Coroutines : ~ Insert(c) /\ ~ DeleteOld(c)
  PROVE  snapshots' = snapshots
<1>1. ASSUME NEW c \in Coroutines, OpStep(c)
      PROVE  snapshots' = snapshots
  BY <1>1 DEF OpStep, CheckpointStep, RollbackStep, CheckpointGranted,
     InsertConflicts, SaveFails, SaveFailed, Commit, ListOld, PruneFails,
     CheckpointEnds, AutoList, AutoSkips, AutoScan, RollbackGranted, Load,
     LoadMissing, SaveAudit, AuditFails, RollbackRaises, RollbackEnds, storeVars
<1>2. Purge => snapshots' = snapshots
  BY DEF Purge, PurgeExpired, RowsInv
<1>3. EngineCall \/ Wake \/ (\E s \in Sessions : FlushNext(s)) \/ TimePasses
        \/ UNCHANGED vars => snapshots' = snapshots
  BY DEF EngineCall, Wake, FlushNext, TimePasses, storeVars, vars
<1> QED BY <1>1, <1>2, <1>3 DEF EngineNext, Maintenance

LEMMA RecordsKept ==
  ASSUME TypeInv, [EngineNext]_vars
  PROVE  {<<i, audit[i]>> : i \in DOMAIN audit}
           \subseteq {<<i, audit'[i]>> : i \in DOMAIN audit'}
<1>1. audit' = audit \/ \E r : audit' = Append(audit, r)
  <2>1. ASSUME NEW c \in Coroutines, OpStep(c)
        PROVE  audit' = audit \/ \E r : audit' = Append(audit, r)
    BY <2>1 DEF OpStep, CheckpointStep, RollbackStep, CheckpointGranted, Insert,
       InsertConflicts, SaveFails, SaveFailed, Commit, ListOld, DeleteOld,
       PruneFails, CheckpointEnds, AutoList, AutoSkips, AutoScan,
       RollbackGranted, Load, LoadMissing, SaveAudit, AuditFails,
       SaveRollbackRecord, RollbackRaises, RollbackEnds, storeVars
  <2>2. EngineCall \/ Maintenance \/ TimePasses \/ UNCHANGED vars => audit' = audit
    BY DEF EngineCall, Maintenance, Wake, FlushNext, Purge, TimePasses,
           storeVars, vars
  <2> QED BY <2>1, <2>2 DEF EngineNext
<1>2. audit \in Seq(AuditRecord)
  BY DEF TypeInv, TypeOK
<1>3. \A i \in DOMAIN audit : i \in DOMAIN audit' /\ audit'[i] = audit[i]
  <2>1. ASSUME NEW r, NEW i \in DOMAIN audit
        PROVE  i \in DOMAIN Append(audit, r) /\ Append(audit, r)[i] = audit[i]
    BY <1>2, <2>1
  <2> QED BY <1>1, <2>1
<1> QED BY <1>3

\* As long as nothing expires, checkpoint, prune and rollback work on the
\* tables the way the ledger allows: a generation is added on top of its
\* session, the lowest are taken and never the highest, records only follow
\* one another (engine.py; store.py save_snapshot, delete_old_snapshots,
\* save_rollback_record).
THEOREM LedgerKept ==
  ASSUME Ageing = FALSE
  PROVE  EngineSpec => KeepsLedger
<1> DEFINE records == {<<i, audit[i]>> : i \in DOMAIN audit}
<1>1. EngineInit => Kept!Init
  BY DEF EngineInit, Kept!Init
<1>2. TypeInv /\ RowsInv /\ [EngineNext]_vars => [Kept!Transaction]_<<snapshots, records>>
  <2> SUFFICES ASSUME TypeInv, RowsInv, [EngineNext]_vars
               PROVE  Kept!Transaction
    OBVIOUS
  <2>1. records \subseteq records'
    BY RecordsKept
  <2>2. snapshots' = snapshots => Kept!Appends /\ Kept!Prunes
    BY DEF Kept!Appends, Kept!Prunes
  <2>3. Kept!Appends /\ Kept!Prunes
    BY <2>2, InsertAppends, DeletePrunes, RowsKept
  <2> QED BY <2>1, <2>3 DEF Kept!Transaction
<1>3. Kept!Spec <=> Kept!Init /\ [][Kept!Transaction]_<<snapshots, records>>
  BY DEF Kept!Spec
<1>4. EngineSpec => []TypeInv /\ []RowsInv
  BY TypeInvariance, RowsInvariance
<1> HIDE DEF records
<1> QED BY <1>1, <1>2, <1>3, <1>4, PTL DEF EngineSpec, KeepsLedger

=============================================================================
