---------------------------- MODULE RateLimiter ----------------------------
(***************************************************************************)
(* AgentRateLimitMiddleware (router/middleware.py): requests of agents     *)
(* over time, counted in windows.  A window begins with the first request  *)
(* after the last one ended; there is no clock that ends it.  dispatch     *)
(* awaits nothing between its read of _windows and its write, so a request *)
(* is one step.                                                            *)
(*                                                                         *)
(* Time is time.monotonic() in ticks.  The guards that come after this one *)
(* (PayloadSizeLimitMiddleware, the handlers) give nothing back: a request *)
(* they reject is counted like any other.                                  *)
(***************************************************************************)
EXTENDS Integers, Sequences

CONSTANTS Agents,      \* values of X-ASL-Agent-ID, "anonymous" among them
          MaxRpm,      \* max_requests_per_minute
          Window,      \* 60 seconds
          Second,      \* ticks of a second
          TimeCap      \* bound on the time of a behaviour

ASSUME LimiterAssumption ==
  /\ MaxRpm \in Nat \ {0}
  /\ Window \in Nat \ {0} /\ Second \in Nat \ {0} /\ TimeCap \in Nat

VARIABLES now,
          windows,     \* _windows: the start of each agent's window, its count
          admitted,    \* the times of each agent's requests that were passed on
          retryAt      \* when a refused agent was told to come back, or 0

vars == <<now, windows, admitted, retryAt>>

Length == Window * Second

\* self._windows.get(agent_id, (now, 0)): no entry has a count of 0.
Seen(a) ==
  IF windows[a].count = 0 THEN [start |-> now, count |-> 0] ELSE windows[a]

Elapsed(a) == now - Seen(a).start

\* Mutant of Over: a window has no end.
OverNever(a) == FALSE

\* Mutant of Over: the comparison is >=.
OverAtTheEdge(a) == Elapsed(a) >= Length

Over(a) == Elapsed(a) > Length

Full(a) == Seen(a).count >= MaxRpm

\* Mutant of RetryAfter: int() without the second that makes up for it.
RetryTruncated(a) == (Length - Elapsed(a)) \div Second

\* int(60.0 - (now - window_start)) + 1
RetryAfter(a) == (Length - Elapsed(a)) \div Second + 1

Tick ==
  /\ now < TimeCap
  /\ now' = now + 1
  /\ UNCHANGED <<windows, admitted, retryAt>>

\* The request is passed on.
Admit(a) ==
  /\ admitted' = [admitted EXCEPT ![a] = Append(@, now)]
  /\ retryAt' = [retryAt EXCEPT ![a] = 0]
  /\ UNCHANGED now

NewWindow(a) ==
  /\ Over(a)
  /\ windows' = [windows EXCEPT ![a] = [start |-> now, count |-> 1]]
  /\ Admit(a)

Count(a) ==
  /\ ~ Over(a) /\ ~ Full(a)
  /\ windows' = [windows EXCEPT ![a] = [start |-> Seen(a).start,
                                        count |-> Seen(a).count + 1]]
  /\ Admit(a)

\* 429, with a Retry-After header.
Refuse(a) ==
  /\ ~ Over(a) /\ Full(a)
  /\ retryAt' = [retryAt EXCEPT ![a] = now + RetryAfter(a) * Second]
  /\ UNCHANGED <<now, windows, admitted>>

Init ==
  /\ now = 0
  /\ windows = [a \in Agents |-> [start |-> 0, count |-> 0]]
  /\ admitted = [a \in Agents |-> <<>>]
  /\ retryAt = [a \in Agents |-> 0]

Next == Tick \/ \E a \in Agents : NewWindow(a) \/ Count(a) \/ Refuse(a)

Spec == Init /\ [][Next]_vars

-----------------------------------------------------------------------------
(***************************************************************************)
(* Properties                                                              *)
(***************************************************************************)

\* Every variable has its type.
TypeOK ==
  /\ now \in Nat
  /\ windows \in [Agents -> [start : Nat, count : 0..MaxRpm]]
  /\ admitted \in [Agents -> Seq(Nat)]
  /\ retryAt \in [Agents -> Nat]

\* Across the edge of two windows an agent gets at most 2 * MaxRpm - 1
\* requests through in any 60 seconds, ends included.
BurstBound ==
  \A a \in Agents : \A i, j \in 1..Len(admitted[a]) :
     j = i + 2 * MaxRpm - 1 => admitted[a][j] - admitted[a][i] > Length

\* Nobody is refused for less than MaxRpm requests in the 60 seconds before:
\* the limiter is never stricter than its name.
RefusedForCause ==
  \A a \in Agents : ~ Over(a) /\ Full(a) =>
     /\ Len(admitted[a]) >= MaxRpm
     /\ now - admitted[a][Len(admitted[a]) - MaxRpm + 1] <= Length

\* An agent that comes back when the 429 told it to is let through.
RetryAfterWorks ==
  \A a \in Agents : retryAt[a] # 0 /\ now >= retryAt[a] => Over(a)

=============================================================================
