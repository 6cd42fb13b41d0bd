-------------------------- MODULE DocumentedClaims --------------------------
(***************************************************************************)
(* What the documents and comments of the repository say of the system and *)
(* the system does not do.  Each definition quotes its source; one TLC run *)
(* per definition shows the behaviour that contradicts it.  InsertIsFresh  *)
(* of SnapshotEngine is one more of them.                                  *)
(***************************************************************************)
EXTENDS StateRouter

\* No request is in progress and the engine does nothing for s.
Quiet(s) ==
  /\ \A t \in Tasks : req[t] = NoReq
  /\ \A c \in Coroutines : At(c, "idle")
  /\ s \notin todo

\* "Set of session IDs whose state has changed since the last checkpoint"
\* (engine.py, _dirty_sessions): a session that is not in the set has no
\* change that its newest snapshot lacks.
CleanMeansSaved ==
  \A s \in Sessions : Quiet(s) /\ Registered(s) /\ s \notin dirty =>
     \E r \in RowsOf(s) : r.img.step = sess[s].step

\* "Maximum number of tool calls permitted before the session is terminated"
\* (models.py, max_steps): the call that finds the budget spent ends in a
\* FAILED session.
ExhaustionTerminates ==
  \A t \in Tasks, s \in Sessions :
     req[t] = [kind |-> "exhausted", sid |-> s] ~> sess[s].status = "FAILED"

\* "session: The live session to snapshot" (engine.py, checkpoint): what a
\* checkpoint encodes is the session that is registered at that moment.
SnapshotsTheLiveSession ==
  [][\A c \in Coroutines :
       ~ At(c, "insert") /\ At(c, "insert")' =>
          op'[c].img = sess'[op'[c].sid]]_routerVars

=============================================================================
