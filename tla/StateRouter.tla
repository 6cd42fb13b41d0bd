----------------------------- MODULE StateRouter -----------------------------
(***************************************************************************)
(* The route handlers of router/routes.py, composed with the session store *)
(* and the snapshot engine: what the callers of SnapshotEngine really do.  *)
(*                                                                         *)
(* Tasks are the coroutines that serve requests; each takes one request    *)
(* after another.  A request that changes nothing (404, 403, 409, a read)  *)
(* is not a step.  When an engine call returns, the handler goes on in a   *)
(* step of its own.                                                        *)
(***************************************************************************)
EXTENDS SnapshotEngine

CONSTANTS Requests,    \* the kinds of request clients send
          StepCap,     \* clients send no tool call beyond this step_count
          GenCap,      \* no request once the counter is here
          AuditCap     \* no rollback once the log has this many records

ASSUME RouterAssumption ==
  /\ Requests \subseteq {"create", "tool", "drift", "delete", "rollback"}
  /\ StepCap \in Nat /\ GenCap \in Nat /\ AuditCap \in Nat
  /\ Nil \notin Tasks

VARIABLES req,         \* the request each task serves
          slock,       \* holder of SessionStore.session_lock, or Nil
          recent       \* sessions whose entry in _session_last_checkpoint is
                       \* not yet known to be older than the interval

routerVars == <<vars, req, slock, recent>>

\* Kinds of request in progress: "genesis" is create before its checkpoint;
\* "resume" a tool call back from auto_rollback; "terminate" a delete after
\* its checkpoint; "parked" a tool call that waits for the session lock;
\* "exhausted" one that holds it and waits for terminate_session.
NoReq == [kind |-> "none", sid |-> Nil]

Kinds == {"none", "genesis", "create", "parked", "tool", "auto", "resume",
          "exhausted", "delete", "terminate", "rollback"}

Serves(t, kind) == req[t].kind = kind /\ At(t, "idle")
Become(t, kind, s) == req' = [req EXCEPT ![t] = [kind |-> kind, sid |-> s]]
Respond(t) == req' = [req EXCEPT ![t] = NoReq]

\* The bounds of the model on what clients do.
Within(s) == gens[s] < GenCap
MayRollBack == Len(audit) < AuditCap

engineIdle == <<snapshots, expired, audit, sweep, todo, faults>>

-----------------------------------------------------------------------------
(***************************************************************************)
(* POST /sessions                                                          *)
(***************************************************************************)

Create(t, s) ==
  /\ "create" \in Requests
  /\ Serves(t, "none")
  /\ CreateSession(s)
  /\ ref' = [ref EXCEPT ![t] = s]
  /\ Become(t, "genesis", s)
  /\ UNCHANGED <<engineIdle, gens, dirty, lockq, op, slock, recent>>

\* await engine.checkpoint(session)
Genesis(t) ==
  /\ Serves(t, "genesis")
  /\ Checkpoint(t, req[t].sid, Deref(t), ref[t])
  /\ Become(t, "create", req[t].sid)
  /\ UNCHANGED <<engineIdle, sess, dirty, slock, recent>>

-----------------------------------------------------------------------------
(***************************************************************************)
(* DELETE /sessions/{session_id}                                           *)
(***************************************************************************)

Delete(t, s) ==
  /\ "delete" \in Requests
  /\ Serves(t, "none")
  /\ Registered(s)
  /\ Within(s)
  /\ Checkpoint(t, s, sess[s], s)
  /\ Become(t, "delete", s)
  /\ UNCHANGED <<engineIdle, sess, dirty, slock, recent>>

\* terminate_session, for DELETE and for a tool call out of steps.
Terminate(t) ==
  /\ At(t, "idle")
  /\ req[t].kind \in {"terminate", "exhausted"}
  /\ slock[req[t].sid] = Nil
  /\ SetTerminal(req[t].sid, IF req[t].kind = "terminate" THEN "COMPLETED"
                             ELSE "FAILED")
  /\ Respond(t)
  /\ UNCHANGED <<engineIdle, ref, gens, dirty, lockq, op, slock, recent>>

-----------------------------------------------------------------------------
(***************************************************************************)
(* POST /tool-call                                                         *)
(***************************************************************************)

\* Mutant of ArrivesOrWaited: no 409 for a session that is not ACTIVE.
ArrivesAnyStatus(t, s) ==
  \/ /\ {"tool", "drift"} \cap Requests # {}
     /\ Serves(t, "none")
     /\ Registered(s)
     /\ sess[s].step < StepCap
     /\ Within(s)
  \/ Serves(t, "parked") /\ req[t].sid = s

\* A new call on a session it sees ACTIVE, or one that waited for the session
\* lock; the status is not looked at again under the lock.
ArrivesOrWaited(t, s) ==
  \/ /\ {"tool", "drift"} \cap Requests # {}
     /\ Serves(t, "none")
     /\ sess[s].status = "ACTIVE"
     /\ sess[s].step < StepCap
     /\ Within(s)
  \/ Serves(t, "parked") /\ req[t].sid = s

ToolParks(t, s) ==
  /\ Serves(t, "none")
  /\ ArrivesOrWaited(t, s)
  /\ slock[s] # Nil
  /\ Become(t, "parked", s)
  /\ UNCHANGED <<vars, slock, recent>>

\* The step budget is spent: under the session lock the handler calls
\* terminate_session, which takes the same lock.
ToolExhausted(t, s) ==
  /\ ArrivesOrWaited(t, s)
  /\ slock[s] = Nil
  /\ sess[s].step >= MaxSteps
  /\ slock' = [slock EXCEPT ![s] = t]
  /\ Become(t, "exhausted", s)
  /\ UNCHANGED <<vars, recent>>

\* Mutant of Charge: the budget is not looked at.
ChargeWithoutBudget(t, s, d) ==
  /\ ArrivesOrWaited(t, s)
  /\ slock[s] = Nil
  /\ sess' = [sess EXCEPT ![s].step = @ + 1, ![s].dev = d]

\* The region under the session lock never suspends, so the lock is free
\* again when it ends.  d says whether the new score reaches the threshold.
Charge(t, s, d) ==
  /\ ArrivesOrWaited(t, s)
  /\ slock[s] = Nil
  /\ sess[s].step < MaxSteps
  /\ sess' = [sess EXCEPT ![s].step = @ + 1, ![s].dev = d]

\* Mutant of MaybeCheckpoint: it saves without the engine lock.
SavesWithoutLock(t, s, v, hold) ==
  \/ /\ StartSave(t, s, v)
     /\ recent' = recent \ {s}
     /\ ref' = [ref EXCEPT ![t] = Nil]
     /\ Become(t, "tool", s)
     /\ UNCHANGED <<dirty, lockq>>
  \/ /\ s \in recent
     /\ dirty' = dirty \cup {s}
     /\ ref' = [ref EXCEPT ![t] = Nil]
     /\ Respond(t)
     /\ UNCHANGED <<gens, lockq, op, recent>>

\* maybe_checkpoint: the interval has elapsed, which stays so until the next
\* checkpoint, or the session becomes dirty and the handler is done.  A
\* session without an entry has last = 0.0: its interval has elapsed.
MaybeCheckpoint(t, s, v, hold) ==
  \/ /\ Checkpoint(t, s, v, hold)
     /\ recent' = recent \ {s}
     /\ Become(t, "tool", s)
     /\ UNCHANGED dirty
  \/ /\ s \in recent
     /\ dirty' = dirty \cup {s}
     /\ ref' = [ref EXCEPT ![t] = Nil]
     /\ Respond(t)
     /\ UNCHANGED <<gens, lockq, op, recent>>

ToolCall(t, s) ==
  /\ "tool" \in Requests
  /\ Charge(t, s, FALSE)
  /\ MaybeCheckpoint(t, s, sess'[s], s)
  /\ UNCHANGED <<engineIdle, slock>>

\* The score reached the threshold; the handler keeps its session object
\* while the engine rolls back.
ToolDrifts(t, s) ==
  /\ "drift" \in Requests /\ MayRollBack
  /\ Charge(t, s, TRUE)
  /\ StartAuto(t, s)
  /\ ref' = [ref EXCEPT ![t] = s]
  /\ Become(t, "auto", s)
  /\ UNCHANGED <<engineIdle, gens, dirty, lockq, slock, recent>>

\* Step 7 of the handler, after auto_rollback: the session is the object the
\* handler has held since it charged the step.
ToolResumes(t) ==
  /\ Serves(t, "resume")
  /\ MaybeCheckpoint(t, req[t].sid, Deref(t), ref[t])
  /\ UNCHANGED <<engineIdle, sess, slock>>

-----------------------------------------------------------------------------
(***************************************************************************)
(* POST /rollback                                                          *)
(***************************************************************************)

ManualRollback(t, s, g) ==
  /\ "rollback" \in Requests /\ MayRollBack
  /\ Serves(t, "none")
  /\ Registered(s)
  /\ Rollback(t, s, g)
  /\ Become(t, "rollback", s)
  /\ UNCHANGED <<engineIdle, sess, ref, gens, dirty, slock, recent>>

-----------------------------------------------------------------------------
\* Did the engine call that ends in this step return, rather than raise?
Returns(t) == op[t].pc \in {"ckpt_log", "rb_log", "auto_list"}

\* The save of c has returned: _session_last_checkpoint[session_id] is now.
Timestamp(c) ==
  recent' = IF At(c, "commit") /\ At(c, "list_old")'
            THEN recent \cup {op[c].sid} ELSE recent

\* A step of an engine call that a handler awaits.  If the call ends, the
\* handler goes on, answers, or is left by the exception.
EngineStep(t) ==
  /\ OpStep(t)
  /\ req' = [req EXCEPT ![t] =
       IF op'[t].pc # "idle" THEN @
       ELSE IF Returns(t) /\ @.kind = "delete"
            THEN [@ EXCEPT !.kind = "terminate"]
       ELSE IF Returns(t) /\ @.kind = "auto"
            THEN [@ EXCEPT !.kind = "resume"]
       ELSE NoReq]
  /\ Timestamp(t)
  /\ UNCHANGED slock

Engine ==
  \/ OpStep(Maint) /\ Timestamp(Maint) /\ UNCHANGED <<req, slock>>
  \/ Maintenance /\ UNCHANGED <<req, slock, recent>>

Arrival(t) ==
  \E s \in Sessions :
     \/ Create(t, s)
     \/ Delete(t, s)
     \/ ToolCall(t, s)
     \/ ToolDrifts(t, s)
     \/ ToolParks(t, s)
     \/ ToolExhausted(t, s)
     \/ \E g \in Targets : ManualRollback(t, s, g)

Handler(t) == Genesis(t) \/ Terminate(t) \/ ToolResumes(t) \/ EngineStep(t)

Init ==
  /\ EngineInit
  /\ req = [t \in Tasks |-> NoReq]
  /\ slock = [s \in Sessions |-> Nil]
  /\ recent = {}

Next ==
  \/ \E t \in Tasks : Arrival(t) \/ Handler(t)
  \/ Engine
  \/ TimePasses /\ UNCHANGED <<req, slock, recent>>

Spec == Init /\ [][Next]_routerVars

\* The event loop resumes every coroutine whose await is over, statements and
\* log records end, and the sleep of the maintenance loop does.  Clients owe
\* nothing.
Fairness ==
  /\ \A t \in Tasks : WF_routerVars(Handler(t))
  /\ WF_routerVars(Engine)

FairSpec == Spec /\ Fairness

=============================================================================
