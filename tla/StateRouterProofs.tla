-------------------------- MODULE StateRouterProofs --------------------------
(***************************************************************************)
(* The handlers of StateRouter call the engine the way SnapshotEngine      *)
(* allows its callers to, so all that is proved of the engine for          *)
(* arbitrary callers holds of the program.  What does depend on the        *)
(* handlers, that nobody touches a session while a rollback of it is       *)
(* writing its record, is proved here.                                     *)
(***************************************************************************)
EXTENDS StateRouter, SnapshotEngineProofs

Request == [kind : Kinds, sid : Sessions \cup {Nil}]

\* Where a tool call is while it awaits auto_rollback.
AutoPcs == {"auto_list", "auto_scan", "rb_lock", "load", "audit", "rb_log"}

\* What the kind of request says of the task that serves it.  The handlers
\* that go on after an engine call still hold their session, and the session
\* lock a parked call waits for is never released.
ReqAt(t) ==
  /\ req[t].kind # "none" => req[t].sid \in Sessions
  /\ req[t].kind \in {"genesis", "resume", "auto"} => ref[t] # Nil
  /\ req[t].kind \in {"genesis", "resume"} => At(t, "idle")
  /\ req[t].kind = "auto" => op[t].pc \in AutoPcs
  /\ req[t].kind = "parked" => slock[req[t].sid] # Nil

RouterInv ==
  /\ req \in [Tasks -> Request]
  /\ slock \in [Sessions -> Tasks \cup {Nil}]
  /\ \A t \in Tasks : ReqAt(t)

\* The steps of a handler between its engine calls.
CallerStep(t) == Arrival(t) \/ Genesis(t) \/ Terminate(t) \/ ToolResumes(t)

LEMMA CallerIsIdle ==
  ASSUME NEW t \in Tasks, CallerStep(t)
  PROVE  At(t, "idle")
  BY DEF CallerStep, Arrival, Create, Genesis, Delete, Terminate, ToolParks,
         ToolExhausted, ToolCall, ToolDrifts, ToolResumes, ManualRollback,
         Charge, ArrivesOrWaited, Serves

-----------------------------------------------------------------------------
(***************************************************************************)
(* A step of a handler is a call that EngineCall allows                    *)
(***************************************************************************)

\* An idle task may drop its reference or take a new one.
LEMMA MayChange ==
  ASSUME TypeInv, NEW t \in Tasks, At(t, "idle"),
         sess' \in [Sessions -> Session],
         \/ ref' = ref
         \/ \E x \in {Nil} \cup Sessions \cup Session :
               ref' = [ref EXCEPT ![t] = x]
  PROVE  CallersMayChangeSessions
<1>1. ref' \in [Coroutines -> {Nil} \cup Sessions \cup Session]
  BY DEF TypeInv, TypeOK, Coroutines
<1>2. \A c \in Coroutines : At(c, "ckpt_lock") => ref'[c] = ref[c]
  BY DEF TypeInv, TypeOK, At
<1> QED BY <1>1, <1>2 DEF CallersMayChangeSessions

\* Charging a step stays within the budget.
LEMMA ChargeType ==
  ASSUME TypeInv, NEW t \in Tasks, NEW s \in Sessions, NEW d \in BOOLEAN,
         Charge(t, s, d)
  PROVE  /\ sess' \in [Sessions -> Session]
         /\ sess'[s] \in Session
<1>1. sess \in [Sessions -> Session] /\ sess[s] \in Session
  BY DEF TypeInv, TypeOK
<1>2. sess[s].step + 1 \in 0..MaxSteps
  BY <1>1, StoreAssumption DEF Session, Charge
<1> DEFINE charged == [sess[s] EXCEPT !.step = @ + 1, !.dev = d]
<1>3. charged \in Session
  BY <1>1, <1>2 DEF Session
<1>4. sess' = [sess EXCEPT ![s] = charged]
  BY <1>1 DEF Charge
<1> HIDE DEF charged
<1> QED BY <1>1, <1>3, <1>4

\* What a handler has saved or left dirty, with an object it may hold.
LEMMA SaveIsCall ==
  ASSUME TypeInv, NEW t \in Tasks, At(t, "idle"), NEW s \in Sessions,
         NEW v \in Session, NEW hold \in Sessions \cup Session,
         sess' \in [Sessions -> Session],
         \/ Checkpoint(t, s, v, hold) /\ UNCHANGED dirty
         \/ MaybeCheckpoint(t, s, v, hold),
         UNCHANGED <<storeVars, sweep, todo, faults>>
  PROVE  EngineCall
<1>1. CASE Checkpoint(t, s, v, hold) /\ UNCHANGED dirty
  <2>1. CallersMayChangeSessions
    BY <1>1, MayChange DEF Checkpoint
  <2> QED BY <1>1, <2>1 DEF EngineCall
<1>2. CASE /\ dirty' = dirty \cup {s} /\ ref' = [ref EXCEPT ![t] = Nil]
           /\ UNCHANGED <<gens, lockq, op>>
  <2>1. CallersMayChangeSessions
    BY <1>2, MayChange
  <2> QED BY <1>2, <2>1 DEF EngineCall
<1> QED BY <1>1, <1>2 DEF MaybeCheckpoint

\* A handler that goes on with the object it holds.
LEMMA HeldObject ==
  ASSUME TypeInv, NEW t \in Tasks, ref[t] # Nil
  PROVE  ref[t] \in Sessions \cup Session /\ Deref(t) \in Session
<1>1. ref[t] \in Sessions \cup Session /\ sess \in [Sessions -> Session]
  BY DEF TypeInv, TypeOK, Coroutines
<1>2. CASE ref[t] \in Sessions
  BY <1>1, <1>2 DEF Deref
<1>3. CASE ref[t] \notin Sessions
  BY <1>1, <1>3 DEF Deref
<1> QED BY <1>1, <1>2, <1>3

LEMMA CreateIsCall ==
  ASSUME TypeInv, NEW t \in Tasks, NEW s \in Sessions, Create(t, s)
  PROVE  EngineCall
<1>1. At(t, "idle") /\ ref' = [ref EXCEPT ![t] = s]
  BY DEF Create, Serves
<1>2. sess' \in [Sessions -> Session]
  BY DEF Create, CreateSession, TypeInv, TypeOK, Session, Statuses
<1>3. CallersMayChangeSessions
  BY <1>1, <1>2, MayChange
<1> QED BY <1>3 DEF Create, engineIdle, storeVars, EngineCall

LEMMA TerminateIsCall ==
  ASSUME TypeInv, RouterInv, NEW t \in Tasks, Terminate(t)
  PROVE  EngineCall
<1>1. At(t, "idle") /\ ref' = ref /\ req[t].sid \in Sessions
  BY DEF Terminate, RouterInv, ReqAt
<1>2. sess' \in [Sessions -> Session]
  <2>1. PICK f \in {"COMPLETED", "FAILED"} :
           sess' = [sess EXCEPT ![req[t].sid].status = f]
    BY DEF Terminate, SetTerminal
  <2>2. sess[req[t].sid] \in Session /\ sess \in [Sessions -> Session]
    BY <1>1 DEF TypeInv, TypeOK
  <2>3. [sess[req[t].sid] EXCEPT !.status = f] \in Session
    BY <2>1, <2>2 DEF Session, Statuses
  <2> QED BY <1>1, <2>1, <2>2, <2>3
<1>3. CallersMayChangeSessions
  BY <1>1, <1>2, MayChange
<1> QED BY <1>3 DEF Terminate, engineIdle, storeVars, EngineCall

LEMMA ToolDriftsIsCall ==
  ASSUME TypeInv, NEW t \in Tasks, NEW s \in Sessions, ToolDrifts(t, s)
  PROVE  EngineCall
<1>1. At(t, "idle") /\ ref' = [ref EXCEPT ![t] = s]
  BY DEF ToolDrifts, Charge, ArrivesOrWaited, Serves
<1>2. sess' \in [Sessions -> Session]
  BY ChargeType DEF ToolDrifts
<1>3. CallersMayChangeSessions
  BY <1>1, <1>2, MayChange
<1>4. UNCHANGED <<storeVars, sweep, todo, faults>>
  BY DEF ToolDrifts, engineIdle, storeVars
<1>5. StartAuto(t, s) /\ UNCHANGED <<gens, dirty, lockq>>
  BY DEF ToolDrifts
<1> QED BY <1>1, <1>3, <1>4, <1>5 DEF EngineCall

LEMMA ManualRollbackIsCall ==
  ASSUME TypeInv, NEW t \in Tasks, NEW s \in Sessions, NEW g \in Targets,
         ManualRollback(t, s, g)
  PROVE  EngineCall
<1>1. At(t, "idle") /\ UNCHANGED <<sess, ref>>
  BY DEF ManualRollback, Serves
<1>2. CallersMayChangeSessions
  BY <1>1, MayChange DEF TypeInv, TypeOK
<1> QED BY <1>1, <1>2 DEF ManualRollback, engineIdle, storeVars, EngineCall

LEMMA CallerStepIsCall ==
  ASSUME TypeInv, RouterInv, NEW t \in Tasks, CallerStep(t)
  PROVE  EngineCall \/ UNCHANGED vars
<1>1. At(t, "idle")
  BY CallerIsIdle
<1>2. ASSUME NEW s \in Sessions, Delete(t, s)
      PROVE  EngineCall
  <2>1. sess' = sess /\ sess[s] \in Session /\ sess' \in [Sessions -> Session]
    BY <1>2 DEF Delete, TypeInv, TypeOK
  <2>2. Checkpoint(t, s, sess[s], s) /\ UNCHANGED dirty
    BY <1>2 DEF Delete
  <2>3. UNCHANGED <<storeVars, sweep, todo, faults>>
    BY <1>2 DEF Delete, engineIdle, storeVars
  <2> QED BY <1>1, <2>1, <2>2, <2>3, SaveIsCall
<1>3. ASSUME NEW s \in Sessions, ToolCall(t, s)
      PROVE  EngineCall
  <2>1. sess' \in [Sessions -> Session] /\ sess'[s] \in Session
    BY <1>3, ChargeType DEF ToolCall
  <2>2. MaybeCheckpoint(t, s, sess'[s], s)
    BY <1>3 DEF ToolCall
  <2>3. UNCHANGED <<storeVars, sweep, todo, faults>>
    BY <1>3 DEF ToolCall, engineIdle, storeVars
  <2> QED BY <1>1, <2>1, <2>2, <2>3, SaveIsCall
<1>4. CASE Genesis(t) \/ ToolResumes(t)
  <2>1. ref[t] # Nil /\ req[t].sid \in Sessions
    BY <1>4 DEF Genesis, ToolResumes, Serves, RouterInv, ReqAt
  <2>2. ref[t] \in Sessions \cup Session /\ Deref(t) \in Session
    BY <2>1, HeldObject
  <2>3. \/ Checkpoint(t, req[t].sid, Deref(t), ref[t]) /\ UNCHANGED dirty
        \/ MaybeCheckpoint(t, req[t].sid, Deref(t), ref[t])
    BY <1>4 DEF Genesis, ToolResumes
  <2>4. UNCHANGED <<storeVars, sweep, todo, faults>>
    BY <1>4 DEF Genesis, ToolResumes, engineIdle, storeVars
  <2>5. sess' \in [Sessions -> Session]
    BY <1>4 DEF Genesis, ToolResumes, TypeInv, TypeOK
  <2> QED BY <1>1, <2>1, <2>2, <2>3, <2>4, <2>5, SaveIsCall
<1>5. ASSUME NEW s \in Sessions, ToolParks(t, s) \/ ToolExhausted(t, s)
      PROVE  UNCHANGED vars
  BY <1>5 DEF ToolParks, ToolExhausted
<1> QED BY <1>2, <1>3, <1>4, <1>5, CreateIsCall, TerminateIsCall,
           ToolDriftsIsCall, ManualRollbackIsCall DEF CallerStep, Arrival

LEMMA NextIsEngineNext ==
  ASSUME TypeInv, RouterInv, [Next]_routerVars
  PROVE  [EngineNext]_vars
<1>1. ASSUME NEW t \in Tasks, EngineStep(t)
      PROVE  EngineNext
  BY <1>1 DEF EngineStep, EngineNext, Coroutines
<1>2. CASE Engine
  BY <1>2, MaintIsCoroutine DEF Engine, EngineNext
<1>3. CASE TimePasses
  BY <1>3 DEF EngineNext
<1>4. UNCHANGED routerVars => UNCHANGED vars
  BY DEF routerVars
<1>5. ASSUME NEW t \in Tasks, CallerStep(t)
      PROVE  EngineNext \/ UNCHANGED vars
  BY <1>5, CallerStepIsCall DEF EngineNext
<1> QED BY <1>1, <1>2, <1>3, <1>4, <1>5 DEF Next, Handler, CallerStep

-----------------------------------------------------------------------------
(***************************************************************************)
(* RouterInv is kept                                                       *)
(***************************************************************************)

\* A step of one task, with the tasks it leaves alone.
LEMMA ReqFrame ==
  ASSUME TypeInv, RouterInv, NEW t \in Tasks,
         NEW r \in Request, req' = [req EXCEPT ![t] = r],
         slock' \in [Sessions -> Tasks \cup {Nil}],
         \A s \in Sessions : slock[s] # Nil => slock'[s] # Nil,
         \A u \in Tasks : u # t => op'[u] = op[u],
         \A u \in Tasks : u # t /\ ref[u] # Nil => ref'[u] # Nil,
         ReqAt(t)'
  PROVE  RouterInv'
<1>1. req' \in [Tasks -> Request]
  BY DEF RouterInv
<1>2. ASSUME NEW u \in Tasks, u # t
      PROVE  ReqAt(u)'
  <2>1. req'[u] = req[u] /\ op'[u] = op[u] /\ ReqAt(u)
    BY <1>2 DEF RouterInv
  <2>2. req[u].kind = "parked" => slock'[req[u].sid] # Nil
    BY <2>1 DEF ReqAt
  <2> QED BY <1>2, <2>1, <2>2 DEF ReqAt, At
<1> QED BY <1>1, <1>2 DEF RouterInv

\* A step of the engine that no task takes.
LEMMA ReqUntouched ==
  ASSUME RouterInv, UNCHANGED <<req, slock>>,
         \A u \in Tasks : op'[u] = op[u],
         \A u \in Tasks : ref[u] # Nil => ref'[u] # Nil
  PROVE  RouterInv'
  BY DEF RouterInv, ReqAt, At

\* What a handler does to its own operation and to its reference.
LEMMA CallerFrame ==
  ASSUME TypeInv, RouterInv, NEW t \in Tasks, CallerStep(t)
  PROVE  /\ \A c \in Coroutines : c # t => op'[c] = op[c] /\ ref'[c] = ref[c]
         /\ op'[t].pc \in {"idle", "insert", "ckpt_lock", "load", "rb_lock",
                           "auto_list"}
         /\ snapshots' = snapshots
<1>1. At(t, "idle") /\ op \in [Coroutines -> Op] /\ t \in Coroutines
  BY CallerIsIdle DEF TypeInv, TypeOK, Coroutines
<1>2. ref \in [Coroutines -> {Nil} \cup Sessions \cup Session]
  BY DEF TypeInv, TypeOK
<1>3. ASSUME NEW s, NEW v, NEW hold,
             Checkpoint(t, s, v, hold) \/ MaybeCheckpoint(t, s, v, hold)
      PROVE  /\ \A c \in Coroutines : c # t => op'[c] = op[c] /\ ref'[c] = ref[c]
             /\ op'[t].pc \in {"idle", "insert", "ckpt_lock"}
  <2>1. ref' = [ref EXCEPT ![t] = Nil] \/ ref' = [ref EXCEPT ![t] = hold]
    BY <1>3 DEF Checkpoint, MaybeCheckpoint
  <2>2. \/ op' = op
        \/ op' = [op EXCEPT ![t] = NewOp("ckpt_lock", s, 0, 0, Nil)]
        \/ op' = [op EXCEPT ![t] = NewOp("insert", s, gens[s] + 1, 0, v)]
    BY <1>3 DEF Checkpoint, MaybeCheckpoint, StartSave
  <2> QED BY <1>1, <1>2, <2>1, <2>2 DEF NewOp, At
<1>4. CASE Genesis(t) \/ ToolResumes(t)
  <2>1. snapshots' = snapshots
    BY <1>4 DEF Genesis, ToolResumes, engineIdle
  <2> QED BY <1>3, <1>4, <2>1 DEF Genesis, ToolResumes
<1>5. CASE Terminate(t)
  BY <1>1, <1>5 DEF Terminate, engineIdle, At
<1>6. ASSUME NEW s \in Sessions,
             \/ Create(t, s) \/ ToolParks(t, s) \/ ToolExhausted(t, s)
      PROVE  /\ \A c \in Coroutines : c # t => op'[c] = op[c] /\ ref'[c] = ref[c]
             /\ op' = op
             /\ snapshots' = snapshots
  BY <1>2, <1>6 DEF Create, ToolParks, ToolExhausted, engineIdle, vars
<1>7. ASSUME NEW s \in Sessions, Delete(t, s) \/ ToolCall(t, s)
      PROVE  /\ \A c \in Coroutines : c # t => op'[c] = op[c] /\ ref'[c] = ref[c]
             /\ op'[t].pc \in {"idle", "insert", "ckpt_lock"}
             /\ snapshots' = snapshots
  <2>1. snapshots' = snapshots
    BY <1>7 DEF Delete, ToolCall, engineIdle
  <2> QED BY <1>3, <1>7, <2>1 DEF Delete, ToolCall
<1>8. ASSUME NEW s \in Sessions, ToolDrifts(t, s)
      PROVE  /\ \A c \in Coroutines : c # t => op'[c] = op[c] /\ ref'[c] = ref[c]
             /\ op'[t].pc = "auto_list"
             /\ snapshots' = snapshots
  BY <1>1, <1>2, <1>8 DEF ToolDrifts, StartAuto, NewOp, engineIdle
<1>9. ASSUME NEW s \in Sessions, NEW g \in Targets, ManualRollback(t, s, g)
      PROVE  /\ \A c \in Coroutines : c # t => op'[c] = op[c] /\ ref'[c] = ref[c]
             /\ op'[t].pc \in {"load", "rb_lock"}
             /\ snapshots' = snapshots
  BY <1>1, <1>9 DEF ManualRollback, Rollback, StartLoad, NewOp, engineIdle
<1>10. ASSUME NEW s \in Sessions,
              \/ Create(t, s) \/ ToolParks(t, s) \/ ToolExhausted(t, s)
       PROVE  op'[t].pc = "idle"
  BY <1>1, <1>6, <1>10 DEF At
<1> QED BY <1>4, <1>5, <1>6, <1>7, <1>8, <1>9, <1>10 DEF CallerStep, Arrival

\* What a handler becomes.
LEMMA CallerReq ==
  ASSUME TypeInv, RouterInv, NEW t \in Tasks, CallerStep(t)
  PROVE  RouterInv'
<1>1. At(t, "idle") /\ req[t] \in Request /\ t \in Coroutines
  BY CallerIsIdle DEF RouterInv, Coroutines
<1>2. /\ \A u \in Tasks : u # t => op'[u] = op[u]
      /\ \A u \in Tasks : u # t /\ ref[u] # Nil => ref'[u] # Nil
  BY CallerFrame DEF Coroutines
<1>3. ASSUME NEW k \in {"none", "create", "delete", "tool", "exhausted",
                        "rollback"},
             NEW s \in Sessions \cup {Nil}, k # "none" => s \in Sessions,
             Become(t, k, s), slock' = slock
      PROVE  RouterInv'
  <2> DEFINE r == [kind |-> k, sid |-> s]
  <2>1. r \in Request /\ req' = [req EXCEPT ![t] = r]
    BY <1>3 DEF Request, Kinds, Become
  <2>2. req'[t] = r
    BY <2>1 DEF RouterInv
  <2>3. ReqAt(t)'
    BY <1>3, <2>2 DEF ReqAt
  <2> HIDE DEF r
  <2> QED BY <1>2, <1>3, <2>1, <2>3, ReqFrame DEF RouterInv
<1>4. ASSUME Respond(t), slock' = slock
      PROVE  RouterInv'
  BY <1>3, <1>4 DEF Respond, NoReq, Become
<1>5. ASSUME NEW s \in Sessions, NEW v, NEW hold,
             MaybeCheckpoint(t, s, v, hold), slock' = slock
      PROVE  RouterInv'
  BY <1>3, <1>4, <1>5 DEF MaybeCheckpoint
<1>6. CASE Genesis(t)
  <2>1. req[t].sid \in Sessions
    BY <1>6 DEF Genesis, Serves, RouterInv, ReqAt
  <2> QED BY <1>3, <1>6, <2>1 DEF Genesis
<1>7. CASE Terminate(t)
  BY <1>4, <1>7 DEF Terminate
<1>8. CASE ToolResumes(t)
  <2>1. req[t].sid \in Sessions
    BY <1>8 DEF ToolResumes, Serves, RouterInv, ReqAt
  <2> QED BY <1>5, <1>8, <2>1 DEF ToolResumes
<1>9. ASSUME NEW s \in Sessions, Create(t, s)
      PROVE  RouterInv'
  <2> DEFINE r == [kind |-> "genesis", sid |-> s]
  <2>1. r \in Request /\ req' = [req EXCEPT ![t] = r] /\ slock' = slock
    BY <1>9 DEF Create, Request, Kinds, Become
  <2>2. req'[t] = r
    BY <2>1 DEF RouterInv
  <2>3. ref'[t] = s /\ op' = op
    BY <1>1, <1>9 DEF Create, TypeInv, TypeOK
  <2>4. ReqAt(t)'
    BY <1>1, <2>2, <2>3, StoreAssumption DEF ReqAt, At
  <2> HIDE DEF r
  <2> QED BY <1>2, <2>1, <2>4, ReqFrame DEF RouterInv
<1>10. ASSUME NEW s \in Sessions, ToolParks(t, s)
       PROVE  RouterInv'
  <2> DEFINE r == [kind |-> "parked", sid |-> s]
  <2>1. r \in Request /\ req' = [req EXCEPT ![t] = r] /\ slock' = slock
    BY <1>10 DEF ToolParks, Request, Kinds, Become
  <2>2. req'[t] = r /\ slock'[s] # Nil
    BY <1>10, <2>1 DEF RouterInv, ToolParks
  <2>3. ReqAt(t)'
    BY <2>2 DEF ReqAt
  <2> HIDE DEF r
  <2> QED BY <1>2, <2>1, <2>3, ReqFrame DEF RouterInv
<1>11. ASSUME NEW s \in Sessions, ToolExhausted(t, s)
       PROVE  RouterInv'
  <2> DEFINE r == [kind |-> "exhausted", sid |-> s]
  <2>1. r \in Request /\ req' = [req EXCEPT ![t] = r]
    BY <1>11 DEF ToolExhausted, Request, Kinds, Become
  <2>2. req'[t] = r
    BY <2>1 DEF RouterInv
  <2>3. /\ slock' \in [Sessions -> Tasks \cup {Nil}]
        /\ \A z \in Sessions : slock[z] # Nil => slock'[z] # Nil
    BY <1>11, RouterAssumption DEF ToolExhausted, RouterInv
  <2>4. ReqAt(t)'
    BY <2>2 DEF ReqAt
  <2> HIDE DEF r
  <2> QED BY <1>2, <2>1, <2>3, <2>4, ReqFrame
<1>12. ASSUME NEW s \in Sessions, ToolDrifts(t, s)
       PROVE  RouterInv'
  <2> DEFINE r == [kind |-> "auto", sid |-> s]
  <2>1. r \in Request /\ req' = [req EXCEPT ![t] = r] /\ slock' = slock
    BY <1>12 DEF ToolDrifts, Request, Kinds, Become
  <2>2. req'[t] = r
    BY <2>1 DEF RouterInv
  <2>3. ref'[t] = s /\ op'[t].pc = "auto_list"
    BY <1>1, <1>12 DEF ToolDrifts, StartAuto, NewOp, TypeInv, TypeOK
  <2>4. ReqAt(t)'
    BY <2>2, <2>3, StoreAssumption DEF ReqAt, AutoPcs
  <2> HIDE DEF r
  <2> QED BY <1>2, <2>1, <2>4, ReqFrame DEF RouterInv
<1>13. ASSUME NEW s \in Sessions,
              \/ Delete(t, s) \/ \E g \in Targets : ManualRollback(t, s, g)
       PROVE  RouterInv'
  BY <1>3, <1>13 DEF Delete, ManualRollback
<1>14. ASSUME NEW s \in Sessions, ToolCall(t, s)
       PROVE  RouterInv'
  BY <1>5, <1>14 DEF ToolCall
<1> QED BY <1>6, <1>7, <1>8, <1>9, <1>10, <1>11, <1>12, <1>13, <1>14
        DEF CallerStep, Arrival

\* What a step inside the engine does to those outside.
LEMMA OpStepFrame ==
  ASSUME TypeInv, NEW c \in Coroutines, OpStep(c)
  PROVE  /\ \A d \in Coroutines : d # c => op'[d] = op[d]
         /\ \A d \in Coroutines : d # c /\ ref[d] # Nil => ref'[d] # Nil
<1>1. op \in [Coroutines -> Op]
  BY DEF TypeInv, TypeOK
<1>2. \A d \in Coroutines : d # c => op'[d] = op[d]
  BY <1>1 DEF OpStep, CheckpointStep, RollbackStep, CheckpointGranted,
     StartSave, Insert, InsertConflicts, SaveFails, SaveFailed, Commit, Goto,
     ListOld, DeleteOld, PruneFails, CheckpointEnds, EndOp, AutoList,
     AutoSkips, AutoScan, Rollback, StartLoad, RollbackGranted, Load,
     LoadMissing, RollbackRaises, SaveAudit, AuditFails, RollbackEnds
<1>3. CASE Load(c)
  <2>1. \A s \in Sessions : sess[s] # Nil
    BY StoreAssumption DEF TypeInv, TypeOK
  <2>2. op[c].sid \in Sessions
    BY <1>3 DEF Load, TypeInv, OpOK, At
  <2> QED BY <1>2, <1>3, <2>1, <2>2 DEF Load, RestoreSession
<1>4. CASE ~ Load(c)
  <2>1. ref' = ref \/ ref' = [ref EXCEPT ![c] = Nil]
    BY <1>4 DEF OpStep, CheckpointStep, RollbackStep, CheckpointGranted,
       Insert, InsertConflicts, SaveFails, SaveFailed, Commit, ListOld,
       DeleteOld, PruneFails, CheckpointEnds, AutoList, AutoSkips, AutoScan,
       RollbackGranted, LoadMissing, RollbackRaises, SaveAudit, AuditFails,
       RollbackEnds
  <2> QED BY <1>2, <2>1 DEF TypeInv, TypeOK
<1> QED BY <1>3, <1>4

\* auto_rollback, once entered, goes through the labels of a rollback; it
\* returns with the caller's reference in place or raises.
LEMMA AutoGoesOn ==
  ASSUME TypeInv, NEW t \in Tasks, OpStep(t), op[t].pc \in AutoPcs,
         ref[t] # Nil
  PROVE  \/ op'[t].pc \in AutoPcs /\ ref'[t] # Nil
         \/ op'[t].pc = "idle" /\ (Returns(t) => ref'[t] # Nil)
<1>1. op \in [Coroutines -> Op] /\ t \in Coroutines /\ Idle.pc = "idle"
  BY IdleType DEF TypeInv, TypeOK, Coroutines
<1>2. ~ CheckpointStep(t)
  BY DEF CheckpointStep, CheckpointGranted, Insert, InsertConflicts,
     SaveFails, Commit, ListOld, DeleteOld, PruneFails, CheckpointEnds, At,
     AutoPcs
<1>3. CASE AutoList(t)
  BY <1>1, <1>3 DEF AutoList, AutoPcs, Op
<1>4. CASE AutoScan(t)
  BY <1>1, <1>4 DEF AutoScan, Rollback, StartLoad, NewOp, At, AutoPcs, Op
<1>5. CASE RollbackGranted(t)
  BY <1>1, <1>5 DEF RollbackGranted, StartLoad, NewOp, AutoPcs
<1>6. CASE Load(t)
  <2>1. \A s \in Sessions : sess[s] # Nil
    BY StoreAssumption DEF TypeInv, TypeOK
  <2>2. op[t].sid \in Sessions
    BY <1>1, <1>6 DEF Load, TypeInv, OpOK, At
  <2>3. ref'[t] # Nil
    BY <1>1, <1>6, <2>1, <2>2 DEF Load, RestoreSession
  <2>4. op'[t].pc = "audit"
    BY <1>1, <1>6 DEF Load, Goto, Op
  <2> QED BY <2>3, <2>4 DEF AutoPcs
<1>7. CASE SaveAudit(t)
  BY <1>1, <1>7 DEF SaveAudit, Goto, AutoPcs, Op
<1>8. CASE AutoSkips(t) \/ RollbackEnds(t)
  BY <1>1, <1>8 DEF AutoSkips, RollbackEnds, EndOp
<1>9. CASE LoadMissing(t) \/ AuditFails(t)
  BY <1>1, <1>9 DEF LoadMissing, AuditFails, RollbackRaises, EndOp, At, Returns
<1> QED BY <1>2, <1>3, <1>4, <1>5, <1>6, <1>7, <1>8, <1>9
        DEF OpStep, RollbackStep

LEMMA OpStepIsBusy ==
  ASSUME NEW c \in Coroutines, OpStep(c)
  PROVE  ~ At(c, "idle")
  BY DEF OpStep, CheckpointStep, RollbackStep, CheckpointGranted, Insert,
     InsertConflicts, SaveFails, Commit, ListOld, DeleteOld, PruneFails,
     CheckpointEnds, AutoList, AutoSkips, AutoScan, RollbackGranted, Load,
     LoadMissing, SaveAudit, AuditFails, RollbackEnds, At

LEMMA EngineStepReq ==
  ASSUME TypeInv, RouterInv, NEW t \in Tasks, EngineStep(t)
  PROVE  RouterInv'
<1>1. /\ OpStep(t) /\ t \in Coroutines /\ ~ At(t, "idle")
      /\ req[t] \in Request /\ ReqAt(t) /\ slock' = slock
  BY OpStepIsBusy DEF EngineStep, Coroutines, RouterInv
<1>2. /\ \A u \in Tasks : u # t => op'[u] = op[u]
      /\ \A u \in Tasks : u # t /\ ref[u] # Nil => ref'[u] # Nil
  BY <1>1, OpStepFrame DEF Coroutines
<1> DEFINE r == IF op'[t].pc # "idle" THEN req[t]
                ELSE IF Returns(t) /\ req[t].kind = "delete"
                     THEN [req[t] EXCEPT !.kind = "terminate"]
                ELSE IF Returns(t) /\ req[t].kind = "auto"
                     THEN [req[t] EXCEPT !.kind = "resume"]
                ELSE NoReq
<1>3. r \in Request /\ req' = [req EXCEPT ![t] = r]
  BY <1>1 DEF EngineStep, Request, Kinds, NoReq
<1>4. req'[t] = r
  BY <1>3 DEF RouterInv
<1>5. ReqAt(t)'
  <2>1. CASE req[t].kind = "auto"
    <3>1. ref[t] # Nil /\ op[t].pc \in AutoPcs /\ req[t].sid \in Sessions
      BY <1>1, <2>1 DEF ReqAt
    <3>2. CASE op'[t].pc \in AutoPcs /\ ref'[t] # Nil
      <4>1. req'[t] = req[t]
        BY <1>4, <3>2 DEF AutoPcs
      <4> QED BY <2>1, <3>1, <3>2, <4>1 DEF ReqAt
    <3>3. CASE op'[t].pc = "idle" /\ Returns(t) /\ ref'[t] # Nil
      <4>1. req'[t] = [req[t] EXCEPT !.kind = "resume"]
        BY <1>4, <2>1, <3>3
      <4>2. req'[t].kind = "resume" /\ req'[t].sid = req[t].sid
        BY <1>1, <4>1 DEF Request
      <4> QED BY <3>1, <3>3, <4>2 DEF ReqAt, At
    <3>4. CASE op'[t].pc = "idle" /\ ~ Returns(t)
      <4>1. req'[t].kind = "none"
        BY <1>4, <3>4 DEF NoReq
      <4> QED BY <4>1 DEF ReqAt
    <3> QED BY <1>1, <3>1, <3>2, <3>3, <3>4, AutoGoesOn
  <2>2. CASE req[t].kind # "auto"
    <3>1. \/ req'[t] = req[t]
          \/ req'[t].kind = "terminate" /\ req'[t].sid = req[t].sid
             /\ req[t].kind = "delete"
          \/ req'[t].kind = "none"
      BY <1>1, <1>4, <2>2 DEF NoReq, Request
    <3> QED BY <1>1, <2>2, <3>1 DEF ReqAt
  <2> QED BY <2>1, <2>2
<1> HIDE DEF r
<1> QED BY <1>1, <1>2, <1>3, <1>5, ReqFrame DEF RouterInv

LEMMA RouterStep ==
  ASSUME TypeInv, RouterInv, [Next]_routerVars
  PROVE  RouterInv'
<1>1. CASE OpStep(Maint) /\ UNCHANGED <<req, slock>>
  <2>1. \A u \in Tasks : u # Maint
    BY StoreAssumption
  <2> QED BY <1>1, <2>1, MaintIsCoroutine, OpStepFrame, ReqUntouched
          DEF Coroutines
<1>2. ASSUME NEW s \in Sessions, FlushNext(s), UNCHANGED <<req, slock>>
      PROVE  RouterInv'
  <2>1. \A u \in Tasks : op'[u] = op[u] /\ ref'[u] = ref[u]
    BY <1>2, StoreAssumption DEF FlushNext, Checkpoint, StartSave, TypeInv,
       TypeOK, Coroutines
  <2> QED BY <1>2, <2>1, ReqUntouched
<1>3. CASE (Wake \/ Purge \/ TimePasses) /\ UNCHANGED <<req, slock>>
  BY <1>3, ReqUntouched DEF Wake, Purge, TimePasses
<1>4. CASE UNCHANGED routerVars
  BY <1>4, ReqUntouched DEF routerVars, vars
<1> QED BY <1>1, <1>2, <1>3, <1>4, CallerReq, EngineStepReq
        DEF Next, Handler, CallerStep, Engine, Maintenance

LEMMA RouterInit == Init => TypeInv /\ RouterInv
<1> SUFFICES ASSUME Init PROVE RouterInv
  BY InitType DEF Init
<1>1. NoReq \in Request /\ NoReq.kind = "none"
  BY DEF NoReq, Request, Kinds
<1> QED BY <1>1 DEF Init, RouterInv, ReqAt

LEMMA RouterInvariance == Spec => [](TypeInv /\ RouterInv)
<1>1. TypeInv /\ RouterInv /\ [Next]_routerVars => (TypeInv /\ RouterInv)'
  BY NextIsEngineNext, StepType, RouterStep
<1> QED BY <1>1, RouterInit, PTL DEF Spec

\* The program implements the engine with arbitrary callers: every step of a
\* handler (routes.py) is a call that EngineCall allows, a step of the engine
\* it awaits, or changes nothing the engine knows of.
THEOREM RouterImplementsEngine == Spec => EngineSpec
<1>1. TypeInv /\ RouterInv /\ [Next]_routerVars => [EngineNext]_vars
  BY NextIsEngineNext
<1>2. Init => EngineInit
  BY DEF Init
<1> QED BY <1>1, <1>2, RouterInvariance, PTL DEF Spec, EngineSpec

\* What holds of the engine for arbitrary callers holds of the program: the
\* properties that need no assumption about retention.
THEOREM ProgramInheritsEngine ==
  Spec => /\ []TypeOK
          /\ []OneWriterPerSession
          /\ []LocksMatchOperations
          /\ []RetentionBound
          /\ SnapshotsImmutable
          /\ AuditMatchesCounter
          /\ [](faults = 0 => CheckpointSurvivesPrune)
  BY RouterImplementsEngine, TypeCorrect, MutualExclusion, LocksAreHandedOn,
     RetentionIsBounded, Immutability, AuditTellsTheTruth, NewestSurvivesExpiry

\* ... and those of the tables, as long as nothing expires.
THEOREM ProgramKeepsLedger ==
  ASSUME Ageing = FALSE
  PROVE  Spec => /\ KeepsLedger
                 /\ []ContiguousGenerations
                 /\ []CounterMatchesRows
                 /\ []CheckpointSurvivesPrune
  BY RouterImplementsEngine, LedgerKept, NoHoles, CounterStaysOnRows,
     NewestSurvivesPrune

-----------------------------------------------------------------------------
(***************************************************************************)
(* Between the restore of a rollback and its return                        *)
(***************************************************************************)
Restored == {"audit", "rb_log"}

\* The registered session is the target snapshot, in a status that lets no
\* handler change it.
EffectAt(c) ==
  LET s == op[c].sid IN
  op[c].pc \in Restored =>
     /\ sess[s].status \notin {"ACTIVE", "INITIALIZING"}
     /\ \A r \in RowsOf(s) : r.gen = op[c].gen =>
           sess[s].step = r.img.step /\ sess[s].dev = r.img.dev

EffectInv == \A c \in Coroutines : EffectAt(c)

\* A coroutine that stays where it is, with no new row for its session and
\* nothing but a new status, not an active one, in it.
LEMMA EffectStays ==
  ASSUME EffectInv, NEW c \in Coroutines,
         op'[c].pc \in Restored =>
            /\ op[c].pc \in Restored
            /\ op'[c].sid = op[c].sid /\ op'[c].gen = op[c].gen
            /\ \A r \in snapshots' : r.sid = op[c].sid => r \in snapshots
            /\ sess'[op[c].sid].step = sess[op[c].sid].step
            /\ sess'[op[c].sid].dev = sess[op[c].sid].dev
            /\ sess'[op[c].sid].status \notin {"ACTIVE", "INITIALIZING"}
  PROVE  EffectAt(c)'
  BY DEF EffectInv, EffectAt, RowsOf

\* What a handler does to a session that is neither new nor active.
LEMMA CallerSessions ==
  ASSUME TypeInv, RouterInv, NEW t \in Tasks, CallerStep(t),
         NEW z \in Sessions, sess[z].status \notin {"ACTIVE", "INITIALIZING"}
  PROVE  /\ sess'[z].step = sess[z].step
         /\ sess'[z].dev = sess[z].dev
         /\ sess'[z].status \notin {"ACTIVE", "INITIALIZING"}
<1>1. sess \in [Sessions -> Session]
  BY DEF TypeInv, TypeOK
<1>2. CASE sess' = sess
  BY <1>2
<1>3. ASSUME NEW s \in Sessions, Create(t, s)
      PROVE  sess'[z] = sess[z]
  BY <1>1, <1>3 DEF Create, CreateSession, Registered
<1>4. ASSUME NEW s \in Sessions, NEW d \in BOOLEAN, Charge(t, s, d)
      PROVE  sess'[z] = sess[z]
  <2>1. sess[s].status = "ACTIVE"
    BY <1>4 DEF Charge, ArrivesOrWaited, Serves, RouterInv, ReqAt
  <2> QED BY <1>1, <1>4, <2>1 DEF Charge
<1>5. CASE Terminate(t)
  <2>1. PICK f \in {"COMPLETED", "FAILED"} :
           sess' = [sess EXCEPT ![req[t].sid].status = f]
    BY <1>5 DEF Terminate, SetTerminal
  <2>2. sess[z] \in Session
    BY <1>1
  <2> QED BY <1>1, <2>1, <2>2 DEF Session
<1>6. \/ sess' = sess \/ Terminate(t)
      \/ \E s \in Sessions : Create(t, s)
      \/ \E s \in Sessions, d \in BOOLEAN : Charge(t, s, d)
  BY DEF CallerStep, Arrival, Genesis, ToolResumes, Delete, ToolCall,
         ToolDrifts, ToolParks, ToolExhausted, ManualRollback, vars
<1> QED BY <1>2, <1>3, <1>4, <1>5, <1>6

LEMMA CallerEffect ==
  ASSUME TypeInv, RouterInv, EffectInv, NEW t \in Tasks, CallerStep(t)
  PROVE  EffectInv'
<1> SUFFICES ASSUME NEW c \in Coroutines PROVE EffectAt(c)'
  BY DEF EffectInv
<1>1. op'[t].pc \notin Restored /\ snapshots' = snapshots
  BY CallerFrame DEF Restored
<1>2. op[t].pc \notin Restored
  BY CallerIsIdle DEF At, Restored
<1>3. CASE c = t
  BY <1>1, <1>3 DEF EffectAt
<1>4. CASE c # t
  <2>1. op'[c] = op[c]
    BY <1>4, CallerFrame
  <2>2. CASE op[c].pc \in Restored
    <3>1. op[c].sid \in Sessions /\ EffectAt(c)
      BY <2>2 DEF TypeInv, OpOK, At, Restored, EffectInv
    <3>2. sess[op[c].sid].status \notin {"ACTIVE", "INITIALIZING"}
      BY <2>2, <3>1 DEF EffectAt
    <3> QED BY <1>1, <2>1, <2>2, <3>1, <3>2, CallerSessions, EffectStays
  <2>3. CASE op[c].pc \notin Restored
    BY <2>1, <2>3 DEF EffectAt
  <2> QED BY <2>2, <2>3
<1> QED BY <1>3, <1>4

\* The row a rollback loads is the only one with its key.
LEMMA LoadedRow ==
  ASSUME TypeInv, KeysUnique, NEW s \in Sessions,
         NEW g \in Generations(s), NEW r \in RowsOf(s), r.gen = g
  PROVE  r = RowAt(s, g)
<1>1. RowAt(s, g) \in RowsOf(s) /\ RowAt(s, g).gen = g
  BY DEF RowAt, Generations
<1> QED BY <1>1 DEF KeysUnique, RowsOf

LEMMA LoadEffect ==
  ASSUME TypeInv, KeysUnique, EffectInv, NEW c \in Coroutines, Load(c)
  PROVE  EffectInv'
<1>1. PICK s \in Sessions, g \in Nat :
         /\ op[c].pc = "load" /\ op[c].sid = s /\ op[c].gen = g
         /\ Alone(c, s) /\ g \in Generations(s)
  BY InsideAlone DEF TypeInv, TypeOK, OpOK, Load, At, Critical, Op
<1>2. PICK img : img = RowAt(s, g).img
  OBVIOUS
<1>3. img \in Session
  BY <1>1, <1>2, RowAtIsRow DEF RowsOf, Row, TypeInv, TypeOK
<1>4. /\ op'[c].pc = "audit" /\ op'[c].sid = s /\ op'[c].gen = g
      /\ \A d \in Coroutines : d # c => op'[d] = op[d]
  BY <1>1 DEF Load, Goto, TypeInv, TypeOK, Op
<1>5. sess' = [sess EXCEPT ![s] = [img EXCEPT !.status = "ROLLED_BACK"]]
  BY <1>1, <1>2 DEF Load, RestoreSession
<1>6. snapshots' = snapshots
  BY DEF Load, storeVars
<1>7. EffectAt(c)'
  <2>1. sess'[s] = [img EXCEPT !.status = "ROLLED_BACK"]
    BY <1>5 DEF TypeInv, TypeOK
  <2>2. /\ sess'[s].status = "ROLLED_BACK"
        /\ sess'[s].step = img.step /\ sess'[s].dev = img.dev
    BY <1>3, <2>1 DEF Session
  <2>3. \A r \in RowsOf(s)' : r.gen = g => r.img = img
    BY <1>1, <1>2, <1>6, LoadedRow DEF RowsOf
  <2>4. RowsOf(op[c].sid)' = RowsOf(s)'
    BY <1>4
  <2> QED BY <1>4, <2>2, <2>3, <2>4 DEF EffectAt
<1>8. ASSUME NEW d \in Coroutines, d # c
      PROVE  EffectAt(d)'
  <2>1. op'[d] = op[d]
    BY <1>4, <1>8
  <2>2. CASE op[d].pc \in Restored
    <3>1. op[d].sid \in Sessions /\ op[d].sid # s /\ EffectAt(d)
      BY <1>1, <1>8, <2>2 DEF Alone, Critical, Restored, TypeInv, OpOK, At,
                              EffectInv
    <3>2. sess'[op[d].sid] = sess[op[d].sid]
      BY <1>5, <3>1 DEF TypeInv, TypeOK
    <3>3. sess[op[d].sid].status \notin {"ACTIVE", "INITIALIZING"}
      BY <2>2, <3>1 DEF EffectAt
    <3> QED BY <1>6, <2>1, <2>2, <3>2, <3>3, EffectStays
  <2>3. CASE op[d].pc \notin Restored
    BY <2>1, <2>3 DEF EffectAt
  <2> QED BY <2>2, <2>3
<1> QED BY <1>7, <1>8 DEF EffectInv

\* A step that changes no session, adds no row to one that is being rolled
\* back and takes nobody into a restored state.
LEMMA OtherEffect ==
  ASSUME EffectInv, sess' = sess,
         \A c \in Coroutines : op'[c].pc \in Restored =>
            /\ op[c].pc \in Restored
            /\ op'[c].sid = op[c].sid /\ op'[c].gen = op[c].gen
            /\ \A r \in snapshots' : r.sid = op[c].sid => r \in snapshots
  PROVE  EffectInv'
<1> SUFFICES ASSUME NEW c \in Coroutines PROVE EffectAt(c)'
  BY DEF EffectInv
<1>1. op[c].pc \in Restored =>
         sess[op[c].sid].status \notin {"ACTIVE", "INITIALIZING"}
  BY DEF EffectInv, EffectAt
<1> QED BY <1>1, EffectStays

LEMMA InsertEffect ==
  ASSUME TypeInv, EffectInv, NEW c \in Coroutines, Insert(c)
  PROVE  EffectInv'
<1>1. op[c].pc = "insert" /\ Alone(c, op[c].sid) /\ sess' = sess
  BY InsideAlone DEF Insert, At, Critical
<1>2. op'[c].pc = "commit" /\ \A d \in Coroutines : d # c => op'[d] = op[d]
  BY DEF Insert, TypeInv, TypeOK, Op
<1>3. \A r \in snapshots' : r \in snapshots \/ r.sid = op[c].sid
  BY DEF Insert, InsertSnapshot
<1>4. \A d \in Coroutines : d # c /\ op[d].pc \in Restored =>
         op[d].sid # op[c].sid
  BY <1>1 DEF Alone, Restored, Critical
<1> QED BY <1>1, <1>2, <1>3, <1>4, OtherEffect DEF Restored

LEMMA OpStepEffect ==
  ASSUME TypeInv, KeysUnique, EffectInv, NEW c \in Coroutines, OpStep(c)
  PROVE  EffectInv'
<1> SUFFICES ASSUME ~ Load(c), ~ Insert(c) PROVE EffectInv'
  BY LoadEffect, InsertEffect
<1>1. sess' = sess /\ snapshots' \subseteq snapshots
  BY DEF OpStep, CheckpointStep, RollbackStep, CheckpointGranted,
     InsertConflicts, SaveFails, SaveFailed, Commit, ListOld, DeleteOld,
     DeleteSnapshots, PruneFails, CheckpointEnds, AutoList, AutoSkips,
     AutoScan, RollbackGranted, LoadMissing, SaveAudit, AuditFails,
     RollbackRaises, RollbackEnds, storeVars
<1>2. \A d \in Coroutines : d # c => op'[d] = op[d]
  BY OpStepFrame
<1>3. op \in [Coroutines -> Op] /\ Idle.pc = "idle"
  BY IdleType DEF TypeInv, TypeOK
<1>4. op'[c].pc \in Restored =>
         /\ op[c].pc \in Restored
         /\ op'[c].sid = op[c].sid /\ op'[c].gen = op[c].gen
  <2>1. CASE SaveAudit(c)
    BY <1>3, <2>1 DEF SaveAudit, At, Goto, Restored, Op
  <2>2. CASE EndOp(c)
    BY <1>3, <2>2 DEF EndOp, Restored
  <2>3. CASE CheckpointGranted(c)
    BY <1>3, <2>3 DEF CheckpointGranted, StartSave, NewOp, Restored
  <2>4. CASE SaveFailed(c)
    BY <1>3, <2>4 DEF SaveFailed, Restored, Op
  <2>5. CASE Commit(c)
    BY <1>3, <2>5 DEF Commit, Goto, Restored, Op
  <2>6. CASE ListOld(c)
    <3>1. PICK pc \in {"ckpt_log", "delete_old"} :
             op' = [op EXCEPT ![c] = [@ EXCEPT
                          !.pc = pc, !.set = Excess(op[c].sid, Depth)]]
      BY <2>6 DEF ListOld
    <3> QED BY <1>3, <3>1 DEF Restored, Op
  <2>7. CASE DeleteOld(c)
    BY <1>3, <2>7 DEF DeleteOld, Restored, Op
  <2>8. CASE AutoList(c)
    BY <1>3, <2>8 DEF AutoList, Restored, Op
  <2>9. CASE AutoScan(c)
    BY <1>3, <2>9 DEF AutoScan, At, Rollback, StartLoad, NewOp, Restored, Op
  <2>10. CASE RollbackGranted(c)
    BY <1>3, <2>10 DEF RollbackGranted, StartLoad, NewOp, Restored
  <2> QED BY <2>1, <2>2, <2>3, <2>4, <2>5, <2>6, <2>7, <2>8, <2>9, <2>10
          DEF OpStep, CheckpointStep, RollbackStep, InsertConflicts, SaveFails,
              PruneFails, CheckpointEnds, AutoSkips, LoadMissing, AuditFails,
              RollbackRaises, RollbackEnds
<1> QED BY <1>1, <1>2, <1>4, OtherEffect

LEMMA EffectStep ==
  ASSUME TypeInv, RouterInv, KeysUnique, EffectInv, [Next]_routerVars
  PROVE  EffectInv'
<1>1. ASSUME NEW s \in Sessions, FlushNext(s)
      PROVE  EffectInv'
  <2>1. /\ \A c \in Coroutines : c # Maint => op'[c] = op[c]
        /\ op'[Maint].pc \in {"insert", "ckpt_lock"}
    BY <1>1, MaintIsCoroutine DEF FlushNext, Checkpoint, StartSave, NewOp,
       TypeInv, TypeOK
  <2>2. sess' = sess /\ snapshots' = snapshots
    BY <1>1 DEF FlushNext, storeVars
  <2> QED BY <2>1, <2>2, OtherEffect DEF Restored
<1>2. CASE Wake \/ Purge \/ TimePasses \/ UNCHANGED routerVars
  <2>1. UNCHANGED <<sess, op>> /\ snapshots' \subseteq snapshots
    BY <1>2 DEF Wake, Purge, PurgeExpired, TimePasses, storeVars, routerVars,
                vars
  <2> QED BY <2>1, OtherEffect
<1> QED BY <1>1, <1>2, MaintIsCoroutine, CallerEffect, OpStepEffect
        DEF Next, Handler, CallerStep, Engine, EngineStep, Maintenance,
            Coroutines

\* While a rollback writes its record and returns, the registered session is
\* the target snapshot and not ACTIVE: between the two awaits no handler
\* changes it (engine.py rollback; routes.py, the status check of the tool
\* call and the session lock).
THEOREM RollbackHasEffect == Spec => []RollbackTakesEffect
<1>1. Init => KeysUnique /\ EffectInv
  BY IdleType DEF Init, EngineInit, KeysUnique, EffectInv, EffectAt, Restored
<1>2. TypeInv /\ RouterInv /\ KeysUnique /\ EffectInv /\ [Next]_routerVars
         => KeysUnique' /\ EffectInv'
  BY NextIsEngineNext, KeysUniqueStep, EffectStep
<1>3. EffectInv => RollbackTakesEffect
  BY DEF EffectInv, EffectAt, RollbackTakesEffect, RowsOf, Restored
<1> QED BY <1>1, <1>2, <1>3, RouterInvariance, PTL DEF Spec

-----------------------------------------------------------------------------
(***************************************************************************)
(* Fresh generations, where nothing rolls back and no statement fails      *)
(***************************************************************************)

\* The counter is at or above every row, strictly above until the INSERT.
FreshInv ==
  /\ \A c \in Coroutines : op[c].pc \notin AutoPcs
  /\ \A s \in Sessions : \A g \in Generations(s) : g <= gens[s]
  /\ \A c \in Coroutines : At(c, "insert") =>
        /\ gens[op[c].sid] = op[c].gen
        /\ \A g \in Generations(op[c].sid) : g < op[c].gen

LEMMA FreshQuiet ==
  ASSUME FreshInv, gens' = gens, snapshots' \subseteq snapshots,
         \A c \in Coroutines : \/ op'[c] = op[c]
                               \/ op'[c].pc \notin AutoPcs \cup {"insert"}
  PROVE  FreshInv'
<1>1. \A s : Generations(s)' \subseteq Generations(s)
  BY DEF Generations, RowsOf
<1>2. ASSUME NEW c \in Coroutines, op'[c].pc = "insert"
      PROVE  /\ gens'[op'[c].sid] = op'[c].gen
             /\ \A g \in Generations(op[c].sid)' : g < op'[c].gen
  <2>1. op'[c] = op[c] /\ op[c].pc = "insert"
    BY <1>2
  <2>2. Generations(op[c].sid)' \subseteq Generations(op[c].sid)
    BY <1>1, <2>1
  <2> QED BY <2>1, <2>2 DEF FreshInv, At
<1> QED BY <1>1, <1>2 DEF FreshInv, At

\* The next generation is above every row of the session.
LEMMA FreshStartSave ==
  ASSUME TypeInv, FreshInv, NEW c \in Coroutines, NEW s \in Sessions, NEW v,
         Alone(c, s), StartSave(c, s, v), snapshots' = snapshots
  PROVE  FreshInv'
<1>1. \A z : Generations(z)' = Generations(z)
  BY DEF Generations, RowsOf
<1>2. /\ gens[s] \in Int /\ gens'[s] = gens[s] + 1
      /\ \A z \in Sessions : z # s => gens'[z] = gens[z]
  BY DEF StartSave, TypeInv, TypeOK
<1>3. /\ op'[c].pc = "insert" /\ op'[c].sid = s /\ op'[c].gen = gens[s] + 1
      /\ \A d \in Coroutines : d # c => op'[d] = op[d]
  BY DEF StartSave, NewOp, TypeInv, TypeOK
<1>4. \A z \in Sessions : \A g \in Generations(z) :
         g \in Nat /\ g <= gens[z]
  BY GenerationsType DEF FreshInv
<1>5. \A z \in Sessions : \A g \in Generations(z)' : g <= gens'[z]
  BY <1>1, <1>2, <1>4
<1>6. ASSUME NEW d \in Coroutines, op'[d].pc = "insert"
      PROVE  /\ gens'[op'[d].sid] = op'[d].gen
             /\ \A g \in Generations(op[d].sid)' : g < op'[d].gen
  <2>1. CASE d = c
    <3>1. Generations(op[d].sid)' = Generations(s)
      BY <1>1, <1>3, <2>1
    <3> QED BY <1>2, <1>3, <1>4, <2>1, <3>1
  <2>2. CASE d # c
    <3>1. op'[d] = op[d] /\ op[d].sid \in Sessions /\ op[d].sid # s
      BY <1>3, <1>6, <2>2 DEF Alone, Critical, TypeInv, OpOK, At
    <3>2. Generations(op[d].sid)' = Generations(op[d].sid)
      BY <1>1, <3>1
    <3> QED BY <1>2, <1>6, <3>1, <3>2 DEF FreshInv, At
  <2> QED BY <2>1, <2>2
<1>7. \A d \in Coroutines : op'[d].pc \notin AutoPcs
  BY <1>3 DEF FreshInv, AutoPcs
<1> QED BY <1>5, <1>6, <1>7 DEF FreshInv, At

LEMMA FreshCheckpoint ==
  ASSUME TypeInv, FreshInv, NEW c \in Coroutines, At(c, "idle"),
         NEW s \in Sessions, NEW v, NEW hold,
         Checkpoint(c, s, v, hold), snapshots' = snapshots
  PROVE  FreshInv'
<1>1. CASE lockq[s] = <<>>
  BY <1>1, FreeAlone, FreshStartSave DEF Checkpoint
<1>2. CASE lockq[s] # <<>>
  BY <1>2, FreshQuiet DEF Checkpoint, NewOp, TypeInv, TypeOK, AutoPcs
<1> QED BY <1>1, <1>2

LEMMA FreshInsert ==
  ASSUME TypeInv, FreshInv, NEW c \in Coroutines, Insert(c)
  PROVE  FreshInv'
<1>1. PICK s \in Sessions, g \in Nat :
         /\ op[c].pc = "insert" /\ op[c].sid = s /\ op[c].gen = g
         /\ Alone(c, s)
  BY InsideAlone DEF TypeInv, TypeOK, OpOK, Insert, At, Critical, Op
<1>2. /\ op'[c].pc = "commit" /\ gens' = gens
      /\ \A d \in Coroutines : d # c => op'[d] = op[d]
  BY DEF Insert, TypeInv, TypeOK, Op
<1>3. /\ Generations(s)' = Generations(s) \cup {g}
      /\ \A z : z # s => Generations(z)' = Generations(z)
  BY <1>1, InsertedGenerations DEF Insert
<1>4. gens[s] = g
  BY <1>1 DEF FreshInv, At
<1>5. \A z \in Sessions : \A x \in Generations(z)' : x <= gens'[z]
  BY <1>2, <1>3, <1>4 DEF FreshInv
<1>6. ASSUME NEW d \in Coroutines, op'[d].pc = "insert"
      PROVE  /\ gens'[op'[d].sid] = op'[d].gen
             /\ \A x \in Generations(op[d].sid)' : x < op'[d].gen
  <2>1. op'[d] = op[d] /\ op[d].sid # s
    BY <1>1, <1>2, <1>6 DEF Alone, Critical
  <2>2. Generations(op[d].sid)' = Generations(op[d].sid)
    BY <1>3, <2>1
  <2> QED BY <1>2, <1>6, <2>1, <2>2 DEF FreshInv, At
<1>7. \A d \in Coroutines : op'[d].pc \notin AutoPcs
  BY <1>2 DEF FreshInv, AutoPcs
<1> QED BY <1>5, <1>6, <1>7 DEF FreshInv, At

LEMMA FreshOpStep ==
  ASSUME MaxFaults = 0, TypeInv, FreshInv, NEW c \in Coroutines, OpStep(c)
  PROVE  FreshInv'
<1>1. op \in [Coroutines -> Op] /\ Idle.pc = "idle" /\ faults \in Nat
  BY IdleType DEF TypeInv, TypeOK
<1>2. ~ RollbackStep(c)
  BY DEF RollbackStep, AutoList, AutoSkips, AutoScan, RollbackGranted, Load,
     LoadMissing, SaveAudit, AuditFails, RollbackEnds, At, FreshInv, AutoPcs
<1>3. ~ SaveFails(c) /\ ~ PruneFails(c)
  BY <1>1 DEF SaveFails, PruneFails
<1>4. ~ InsertConflicts(c)
  <2> SUFFICES ASSUME InsertConflicts(c) PROVE FALSE
    OBVIOUS
  <2>1. op[c].gen < op[c].gen /\ op[c].gen \in Nat
    BY <1>1 DEF InsertConflicts, FreshInv, Op
  <2> QED BY <2>1
<1>5. CASE CheckpointGranted(c)
  <2>1. op[c].sid \in Sessions /\ Alone(c, op[c].sid)
    BY <1>5, InsideAlone DEF CheckpointGranted, TypeInv, OpOK, At
  <2> QED BY <1>5, <2>1, FreshStartSave DEF CheckpointGranted, storeVars
<1>6. CASE Commit(c) \/ ListOld(c) \/ DeleteOld(c) \/ CheckpointEnds(c)
  <2>1. gens' = gens /\ snapshots' \subseteq snapshots
    BY <1>6 DEF Commit, ListOld, DeleteOld, DeleteSnapshots, CheckpointEnds,
                storeVars
  <2>2. op'[c].pc \notin AutoPcs \cup {"insert"}
    <3>1. CASE Commit(c)
      BY <1>1, <3>1 DEF Commit, Goto, AutoPcs, Op
    <3>2. CASE ListOld(c)
      <4>1. PICK pc \in {"ckpt_log", "delete_old"} :
               op' = [op EXCEPT ![c] = [@ EXCEPT
                          !.pc = pc, !.set = Excess(op[c].sid, Depth)]]
        BY <3>2 DEF ListOld
      <4> QED BY <1>1, <4>1 DEF AutoPcs, Op
    <3>3. CASE DeleteOld(c)
      BY <1>1, <3>3 DEF DeleteOld, AutoPcs, Op
    <3>4. CASE CheckpointEnds(c)
      BY <1>1, <3>4 DEF CheckpointEnds, EndOp, AutoPcs
    <3> QED BY <1>6, <3>1, <3>2, <3>3, <3>4
  <2> QED BY <2>1, <2>2, OpStepFrame, FreshQuiet
<1> QED BY <1>2, <1>3, <1>4, <1>5, <1>6, FreshInsert
        DEF OpStep, CheckpointStep

LEMMA FreshCaller ==
  ASSUME {"drift", "rollback"} \cap Requests = {}, TypeInv, RouterInv,
         FreshInv, NEW t \in Tasks, CallerStep(t)
  PROVE  FreshInv'
<1>1. At(t, "idle") /\ snapshots' = snapshots /\ t \in Coroutines
  BY CallerIsIdle, CallerFrame DEF Coroutines
<1>2. ASSUME UNCHANGED <<gens, op>>
      PROVE  FreshInv'
  BY <1>1, <1>2, FreshQuiet
<1>3. ASSUME NEW s \in Sessions, NEW v, NEW hold,
             Checkpoint(t, s, v, hold) \/ MaybeCheckpoint(t, s, v, hold)
      PROVE  FreshInv'
  BY <1>1, <1>2, <1>3, FreshCheckpoint DEF MaybeCheckpoint
<1>4. ~ \E s \in Sessions : ToolDrifts(t, s)
  BY DEF ToolDrifts
<1>5. ~ \E s \in Sessions : \E g \in Targets : ManualRollback(t, s, g)
  BY DEF ManualRollback
<1>6. CASE Genesis(t) \/ ToolResumes(t)
  <2>1. req[t].sid \in Sessions
    BY <1>6 DEF Genesis, ToolResumes, Serves, RouterInv, ReqAt
  <2> QED BY <1>3, <1>6, <2>1 DEF Genesis, ToolResumes
<1>7. CASE Terminate(t) \/ \E s \in Sessions :
              Create(t, s) \/ ToolParks(t, s) \/ ToolExhausted(t, s)
  BY <1>2, <1>7 DEF Terminate, Create, ToolParks, ToolExhausted, vars
<1>8. CASE \E s \in Sessions : Delete(t, s) \/ ToolCall(t, s)
  BY <1>3, <1>8 DEF Delete, ToolCall
<1> QED BY <1>4, <1>5, <1>6, <1>7, <1>8 DEF CallerStep, Arrival

LEMMA FreshStep ==
  ASSUME MaxFaults = 0, {"drift", "rollback"} \cap Requests = {}, TypeInv,
         RouterInv, FreshInv, [Next]_routerVars
  PROVE  FreshInv'
<1>1. CASE \E s \in Sessions : FlushNext(s)
  BY <1>1, MaintIsCoroutine, FreshCheckpoint DEF FlushNext, storeVars
<1>2. CASE Wake \/ Purge \/ TimePasses \/ UNCHANGED routerVars
  BY <1>2, FreshQuiet DEF Wake, Purge, PurgeExpired, TimePasses, storeVars,
                          routerVars, vars
<1> QED BY <1>1, <1>2, MaintIsCoroutine, FreshCaller, FreshOpStep
        DEF Next, Handler, CallerStep, Engine, EngineStep, Maintenance,
            Coroutines

\* Without rollbacks and database errors a generation is assigned once, for
\* any number of sessions, handlers and checkpoints (store.py save_snapshot:
\* "generations are monotonically assigned by the engine").
THEOREM FreshGenerations ==
  ASSUME MaxFaults = 0, {"drift", "rollback"} \cap Requests = {}
  PROVE  Spec => []InsertIsFresh
<1>1. Init => FreshInv
  <2> SUFFICES ASSUME Init PROVE FreshInv
    OBVIOUS
  <2>1. \A s \in Sessions : Generations(s) = {}
    BY DEF Init, EngineInit, Generations, RowsOf
  <2>2. \A c \in Coroutines : op[c].pc = "idle"
    BY IdleType DEF Init, EngineInit
  <2> QED BY <2>1, <2>2 DEF FreshInv, At, AutoPcs
<1>2. TypeInv /\ RouterInv /\ FreshInv /\ [Next]_routerVars => FreshInv'
  BY FreshStep
<1>3. TypeInv /\ FreshInv => InsertIsFresh
  <2> SUFFICES ASSUME TypeInv, FreshInv, NEW c \in Coroutines,
                      At(c, "insert"), op[c].gen \in Generations(op[c].sid)
               PROVE  FALSE
    BY DEF InsertIsFresh
  <2>1. op[c].gen < op[c].gen /\ op[c].gen \in Nat
    BY DEF FreshInv, TypeInv, TypeOK, Op
  <2> QED BY <2>1
<1> QED BY <1>1, <1>2, <1>3, RouterInvariance, PTL DEF Spec

=============================================================================
