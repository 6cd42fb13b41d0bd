----------------------------- MODULE TokenBudget -----------------------------
(***************************************************************************)
(* The token and step budget of one session: what a sequence of tool calls *)
(* charges, what it reports, and the deviation score that follows.  The    *)
(* calls come one after another; StateRouter has their interleaving.       *)
(*                                                                         *)
(* The score is in units of 1/Scale, rounded down.                         *)
(***************************************************************************)
EXTENDS Integers, Sequences

CONSTANTS Outputs,     \* tool outputs
          Cost,        \* their tokens under each disclosure level
          Requested,   \* levels the callers request
          CallIds,
          TokenLimit,  \* context_budget_override, or the global token_budget
          MaxSteps,
          Window,      \* the window of _detect_and_flag_loop (20 in the code)
          Threshold,   \* intent_deviation_threshold * Scale
          Scale

Tiers == 1..5
Verbatim == 5

\* What the configuration guarantees.
ASSUME BudgetAssumption ==
  /\ Cost \in [Outputs -> [Tiers -> Nat]]
  /\ Requested \subseteq Tiers
  /\ TokenLimit \in Nat \ {0} /\ MaxSteps \in Nat \ {0}
  /\ Window \in Nat \ {0}
  /\ Scale \in Nat \ {0} /\ Threshold \in 0..Scale

VARIABLES session,     \* the counters of the AgentSession
          saved,       \* those of its newest snapshot below the threshold
          active,      \* status = ACTIVE; otherwise ROLLED_BACK
          reply        \* the last filtered output

budgetVars == <<session, saved, active, reply>>

Genesis == [tokens |-> 0, step |-> 0, score |-> 0, history |-> <<>>]

Smaller(a, b) == IF a <= b THEN a ELSE b
Positive(a) == IF a >= 0 THEN a ELSE 0

\* budget_for
Remaining == Positive(TokenLimit - session.tokens)

-----------------------------------------------------------------------------
\* Mutant of Disclose: the loop does not stop at the tier that fits.
DiscloseLast(cost, budget, requested) ==
  IF cost[Verbatim] <= budget THEN requested ELSE Verbatim - 1

\* The tier apply_progressive_disclosure delivers: the requested one when the
\* raw result fits; else the first, from MINIMAL up, that fits; else FULL.
Disclose(cost, budget, requested) ==
  LET fits == {level \in Tiers : cost[level] <= budget} IN
  IF cost[Verbatim] <= budget THEN requested
  ELSE IF fits = {} THEN Verbatim
  ELSE CHOOSE level \in fits : \A other \in fits : level <= other

Filtered(method, output, requested) ==
  LET level == Disclose(Cost[output], Remaining, requested)
      tokens == Cost[output][level]
  IN [method |-> method, output |-> output, level |-> level,
      before |-> Remaining, tokens |-> tokens,
      remaining |-> Positive(Remaining - tokens)]

-----------------------------------------------------------------------------
LastTwo(history) ==
  SubSeq(history, Positive(Len(history) - 2 * Window) + 1, Len(history))

\* _detect_and_flag_loop: the last Window call ids repeat those before them.
Penalty(history) ==
  LET recent == LastTwo(history) IN
  IF /\ Len(recent) = 2 * Window
     /\ \A i \in 1..Window : recent[i] = recent[i + Window]
  THEN Scale \div 5 ELSE 0

\* The shares of the step and of the token budget in the score.
Spent(step, tokens) ==
  (Scale * step) \div (2 * MaxSteps) + (3 * Scale * tokens) \div (10 * TokenLimit)

\* Mutant of DeviationScore: the carry-over counts in full.
CarriesAllOver(step, tokens, before) ==
  Smaller(Scale, Spent(step, tokens) + before)

\* _compute_deviation_score
DeviationScore(step, tokens, before) ==
  Smaller(Scale, Spent(step, tokens) + before \div 5)

\* Mutant of Charged: the raw result is charged.
ChargedRaw(output, tokens, id) ==
  LET step == session.step + 1
      total == session.tokens + Cost[output][Verbatim]
      history == LastTwo(Append(session.history, id))
      flagged == Smaller(Scale, session.score + Penalty(history))
  IN [tokens |-> total, step |-> step, history |-> history,
      score |-> DeviationScore(step, total, flagged)]

\* Step 5 of the handler: counters, history, loop penalty, score.  Of the
\* history only what the next detection can see is kept.
Charged(output, tokens, id) ==
  LET step == session.step + 1
      total == session.tokens + tokens
      history == LastTwo(Append(session.history, id))
      flagged == Smaller(Scale, session.score + Penalty(history))
  IN [tokens |-> total, step |-> step, history |-> history,
      score |-> DeviationScore(step, total, flagged)]

\* Mutant of Drifts: the score has to exceed the threshold by the share of a
\* whole step budget.
DriftsLate(after) == after.score >= Threshold + Scale \div 4

Drifts(after) == after.score >= Threshold

\* POST /tool-call.  A score at the threshold rolls the session back to its
\* newest snapshot below it (generation 0 for want of one); any other call may
\* checkpoint.  The call that finds the step budget spent replies nothing.
ToolCall(output, requested, id) ==
  LET filtered == Filtered("tool_call", output, requested)
      after == Charged(output, filtered.tokens, id)
  IN
  /\ active
  /\ session.step < MaxSteps
  /\ reply' = filtered
  /\ \/ /\ ~ Drifts(after)
        /\ session' = after
        /\ saved' \in {saved, after}
        /\ UNCHANGED active
     \/ /\ Drifts(after)
        /\ session' = saved
        /\ active' = FALSE
        /\ UNCHANGED saved

\* POST /rpc: the same filter, in any status, and nothing is charged.
JsonRpc(output, requested) ==
  /\ reply' = Filtered("rpc", output, requested)
  /\ UNCHANGED <<session, saved, active>>

NoReply == [method |-> "none"]

BudgetInit ==
  /\ session = Genesis
  /\ saved = Genesis
  /\ active = TRUE
  /\ reply = NoReply

BudgetNext ==
  \E output \in Outputs, requested \in Requested :
     \/ \E id \in CallIds : ToolCall(output, requested, id)
     \/ JsonRpc(output, requested)

BudgetSpec == BudgetInit /\ [][BudgetNext]_budgetVars

-----------------------------------------------------------------------------
\* The budget that a tool call reports is the one the next call starts with.
ReportedBudgetHolds ==
  active /\ reply.method = "tool_call" => reply.remaining = Remaining

\* A result that does not fit as it is goes out in a tier that fits, and
\* verbatim only if none does.
DowngradeFits ==
  reply.method # "none" /\ Cost[reply.output][Verbatim] > reply.before =>
     \/ reply.tokens <= reply.before
     \/ /\ reply.level = Verbatim
        /\ \A level \in Tiers : Cost[reply.output][level] > reply.before

\* The score is explained by the budgets spent: carry-over and loop penalties
\* never add up to more than a quarter of it and a twentieth of the scale.
ScoreTracksBudgets ==
  4 * session.score <= 5 * Spent(session.step, session.tokens) + Scale \div 5

\* One call at a time, a threshold of at most one half ends the session by
\* rollback before its step budget is spent: the branch of intercept_tool_call
\* that answers 429 is for concurrent calls and higher thresholds.
RollbackComesFirst ==
  2 * Threshold <= Scale => session.step < MaxSteps

=============================================================================
