------------------------------- MODULE Ledger -------------------------------
(***************************************************************************)
(* What the database file promises to whoever opens it next: the           *)
(* "immutable, append-only snapshot and audit ledger" of the program,      *)
(* without connections, transactions, crashes or restarts.  Durability is  *)
(* shown to implement it, and SnapshotEngine as long as nothing expires.   *)
(***************************************************************************)
EXTENDS Integers

VARIABLES rows,        \* "snapshots": records with sid and gen at least
          log          \* "rollback_audit"

Newer(q, r) == q.sid = r.sid /\ q.gen > r.gen

Init == rows = {} /\ log = {}

\* A row that appears is newer than all that its session had, so a key never
\* changes its content and is never used again.
Appends ==
  \A r \in rows' \ rows : \A q \in rows : q.sid = r.sid => Newer(r, q)

\* Rows go oldest first, and the newest of a session stays.
Prunes ==
  \A r \in rows \ rows' :
     /\ \E q \in rows' : Newer(q, r)
     /\ \A q \in rows' : q.sid = r.sid => Newer(q, r)

\* One commit, which may carry the work of several sessions.
Transaction == Appends /\ Prunes /\ log \subseteq log'

Spec == Init /\ [][Transaction]_<<rows, log>>

\* The least of it: a row that goes leaves a newer one, and no record goes.
Keeps ==
  /\ \A r \in rows \ rows' : \E q \in rows' : Newer(q, r)
  /\ log \subseteq log'

=============================================================================
