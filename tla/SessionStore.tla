---------------------------- MODULE SessionStore ----------------------------
(***************************************************************************)
(* The in-memory registry of agent sessions: router/session_store.py with  *)
(* the AgentSession model of models.py.                                    *)
(*                                                                         *)
(* The store is one Python dict from session_id to a mutable object.  A    *)
(* coroutine that called get_session holds a reference to that object: it  *)
(* sees later mutations, but restore_session puts a NEW object in the dict *)
(* and everyone who still holds the old one keeps a session that nobody    *)
(* updates any more.  ref[c] is what coroutine c holds:                    *)
(*   Nil              no session object that c will use again;             *)
(*   s \in Sessions   the object now registered for s;                     *)
(*   a Session record an object that a rollback has since replaced.        *)
(*                                                                         *)
(* This module has the state and the operations of the store; the modules  *)
(* SnapshotEngine and StateRouter take them into their actions.            *)
(***************************************************************************)
EXTENDS Integers, Sequences

CONSTANTS Sessions,    \* session ids
          Tasks,       \* coroutines that serve HTTP requests
          Maint,       \* the coroutine of _background_maintenance_loop
          MaxSteps,    \* IntentDeclaration.max_steps
          Nil          \* no object

Coroutines == Tasks \cup {Maint}

Statuses == {"INITIALIZING", "ACTIVE", "ROLLED_BACK", "COMPLETED", "FAILED"}

\* dev stands for intent_deviation_score >= intent_deviation_threshold, the
\* only comparison the program makes with the score.
Session == [status : Statuses, step : 0..MaxSteps, dev : BOOLEAN]

ASSUME StoreAssumption ==
  /\ MaxSteps \in Nat \ {0}
  /\ Maint \notin Tasks
  /\ Nil \notin Sessions /\ Nil \notin Session
  /\ Sessions \cap Session = {}

VARIABLES sess,        \* the registered object of each session id
          ref          \* the session object each coroutine holds

Fresh == [status |-> "INITIALIZING", step |-> 0, dev |-> FALSE]

\* session_id in self._sessions.  create_session is the only way in and sets
\* ACTIVE; delete_session, the only way out, has no caller.
Registered(s) == sess[s].status # "INITIALIZING"

\* What the coroutine reads through the object it holds.
Deref(c) == IF ref[c] \in Sessions THEN sess[ref[c]] ELSE ref[c]

CreateSession(s) ==
  /\ ~ Registered(s)
  /\ sess' = [sess EXCEPT ![s].status = "ACTIVE"]

\* The dict entry becomes the decoded snapshot; the object it replaces lives
\* on, frozen, in the coroutines that hold it.
RestoreSession(s, snapshot) ==
  /\ sess' = [sess EXCEPT ![s] = [snapshot EXCEPT !.status = "ROLLED_BACK"]]
  /\ ref' = [c \in Coroutines |-> IF ref[c] = s THEN sess[s] ELSE ref[c]]

\* The body of terminate_session, once it holds the session lock.
SetTerminal(s, final_status) ==
  sess' = [sess EXCEPT ![s].status = final_status]

=============================================================================
