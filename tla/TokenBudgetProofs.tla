-------------------------- MODULE TokenBudgetProofs --------------------------
(***************************************************************************)
(* Theorems about TokenBudget: for every set of outputs, every budget,     *)
(* window, scale and threshold the configuration allows.                   *)
(***************************************************************************)
EXTENDS TokenBudget, TLAPS

\* The counters are numbers, whatever the history holds.
Numbers(x) == x.tokens \in Nat /\ x.step \in Nat /\ x.score \in Nat

ScoreBound(x) == 4 * x.score <= 5 * Spent(x.step, x.tokens) + Scale \div 5

StepsLeft(x) == 2 * Threshold <= Scale => x.step < MaxSteps

\* The inductive invariant: a rollback brings back what was saved, so the
\* snapshot obeys the same bounds as the session.
BudgetInv ==
  /\ Numbers(session) /\ Numbers(saved)
  /\ ScoreBound(session) /\ ScoreBound(saved)
  /\ StepsLeft(session) /\ StepsLeft(saved)
  /\ active \in BOOLEAN
  /\ ReportedBudgetHolds
  /\ DowngradeFits

\* Rounding down is monotonic.
LEMMA DivMonotonic ==
  ASSUME NEW a \in Nat, NEW b \in Nat, NEW d \in Nat \ {0}, a <= b
  PROVE  /\ a \div d \in Nat
         /\ a \div d <= b \div d
  OBVIOUS

\* So is a product of naturals.
LEMMA ProductMonotonic ==
  ASSUME NEW a \in Nat, NEW b \in Nat, NEW c \in Nat, a <= b
  PROVE  /\ c * a \in Nat
         /\ c * a <= c * b
  OBVIOUS

\* What is spent is a number and grows with the steps and with the tokens.
LEMMA SpentMonotonic ==
  ASSUME NEW s \in Nat, NEW t \in Nat, NEW s2 \in Nat, NEW t2 \in Nat,
         s <= s2, t <= t2
  PROVE  /\ Spent(s, t) \in Nat
         /\ Spent(s, t) <= Spent(s2, t2)
<1>1. /\ Scale \in Nat /\ 3 * Scale \in Nat
      /\ 2 * MaxSteps \in Nat \ {0} /\ 10 * TokenLimit \in Nat \ {0}
  BY BudgetAssumption
<1>2. /\ Scale * s \in Nat /\ Scale * s <= Scale * s2 /\ Scale * s2 \in Nat
  BY <1>1, ProductMonotonic
<1>3. /\ 3 * Scale * t \in Nat /\ 3 * Scale * t <= 3 * Scale * t2
      /\ 3 * Scale * t2 \in Nat
  BY <1>1, ProductMonotonic
<1>4. /\ (Scale * s) \div (2 * MaxSteps) \in Nat
      /\ (Scale * s) \div (2 * MaxSteps) <= (Scale * s2) \div (2 * MaxSteps)
  BY <1>1, <1>2, DivMonotonic
<1>5. /\ (3 * Scale * t) \div (10 * TokenLimit) \in Nat
      /\ (3 * Scale * t) \div (10 * TokenLimit)
           <= (3 * Scale * t2) \div (10 * TokenLimit)
  BY <1>1, <1>3, DivMonotonic
<1>6. /\ (Scale * s2) \div (2 * MaxSteps) \in Nat
      /\ (3 * Scale * t2) \div (10 * TokenLimit) \in Nat
  BY <1>1, <1>2, <1>3, DivMonotonic
<1> QED
  BY <1>4, <1>5, <1>6 DEF Spent

\* A quotient is at least t when the divisor goes t times.
LEMMA DivLower ==
  ASSUME NEW a \in Nat, NEW d \in Nat \ {0}, NEW t \in Nat, d * t <= a
  PROVE  t <= a \div d
  OBVIOUS

\* All the steps together weigh one half.
LEMMA AllSteps ==
  ASSUME 2 * Threshold <= Scale
  PROVE  Threshold <= (Scale * MaxSteps) \div (2 * MaxSteps)
<1>1. Scale \in Nat /\ Threshold \in Nat /\ MaxSteps \in Nat \ {0}
  BY BudgetAssumption
<1>2. MaxSteps * (2 * Threshold) <= MaxSteps * Scale
  BY <1>1, ProductMonotonic
<1>3. (2 * MaxSteps) * Threshold <= Scale * MaxSteps
  BY <1>1, <1>2
<1>4. Scale * MaxSteps \in Nat /\ 2 * MaxSteps \in Nat \ {0}
  BY <1>1
<1> QED
  BY <1>1, <1>3, <1>4, DivLower

\* The next score: a number, bounded, and at the threshold at the latest when
\* the last step is spent.
LEMMA NextScore ==
  ASSUME NEW s \in Nat, NEW t \in Nat, NEW score \in Nat, NEW tokens \in Nat,
         NEW penalty \in {0, Scale \div 5},
         4 * score <= 5 * Spent(s, t) + Scale \div 5
  PROVE  LET next == DeviationScore(s + 1, t + tokens,
                                    Smaller(Scale, score + penalty)) IN
         /\ next \in Nat
         /\ 4 * next <= 5 * Spent(s + 1, t + tokens) + Scale \div 5
         /\ s + 1 = MaxSteps /\ 2 * Threshold <= Scale => next >= Threshold
<1> DEFINE fifth == Scale \div 5
           flagged == Smaller(Scale, score + penalty)
           carry == flagged \div 5
           old == Spent(s, t)
           new == Spent(s + 1, t + tokens)
           next == DeviationScore(s + 1, t + tokens, flagged)
<1>1. Scale \in Nat /\ Threshold \in Nat /\ Threshold <= Scale
  BY BudgetAssumption
<1>2. fifth \in Nat
  BY <1>1
<1>3. flagged \in Nat /\ flagged <= score + fifth
  BY <1>1, <1>2 DEF Smaller
<1>4. carry \in Nat /\ 5 * carry <= flagged
  BY <1>3
<1>5. old \in Nat /\ new \in Nat /\ old <= new
  <2>1. s + 1 \in Nat /\ t + tokens \in Nat /\ s <= s + 1 /\ t <= t + tokens
         /\ s + 1 <= s + 1 /\ t + tokens <= t + tokens
    OBVIOUS
  <2> HIDE DEF old, new
  <2>2. old \in Nat /\ old <= new
    BY <2>1, SpentMonotonic DEF old, new
  <2>3. new \in Nat
    BY <2>1, SpentMonotonic DEF new
  <2> QED
    BY <2>2, <2>3
<1>6. next = Smaller(Scale, new + carry)
  BY DEF DeviationScore
<1>7. 4 * score <= 5 * old + fifth
  OBVIOUS
<1>8. s + 1 = MaxSteps /\ 2 * Threshold <= Scale => Threshold <= new
  <2> SUFFICES ASSUME s + 1 = MaxSteps, 2 * Threshold <= Scale
               PROVE  Threshold <= new
    OBVIOUS
  <2> DEFINE steps == (Scale * (s + 1)) \div (2 * MaxSteps)
             share == (3 * Scale * (t + tokens)) \div (10 * TokenLimit)
  <2>1. Threshold <= steps
    BY AllSteps
  <2>2. steps \in Nat
    <3>1. Scale * (s + 1) \in Nat /\ 2 * MaxSteps \in Nat \ {0}
      BY <1>1, ProductMonotonic, BudgetAssumption
    <3> QED
      BY <3>1, DivMonotonic
  <2>3. share \in Nat
    <3>1. 3 * Scale * (t + tokens) \in Nat /\ 10 * TokenLimit \in Nat \ {0}
      BY <1>1, ProductMonotonic, BudgetAssumption
    <3> QED
      BY <3>1, DivMonotonic
  <2>4. new = steps + share
    BY DEF Spent
  <2> HIDE DEF steps, share, new
  <2> QED
    BY <1>1, <2>1, <2>2, <2>3, <2>4
<1> HIDE DEF fifth, flagged, carry, old, new, next
<1>9. next \in Nat
  BY <1>1, <1>4, <1>5, <1>6 DEF Smaller
<1>10. 4 * next <= 5 * new + fifth
  BY <1>1, <1>2, <1>3, <1>4, <1>5, <1>6, <1>7 DEF Smaller
<1>11. s + 1 = MaxSteps /\ 2 * Threshold <= Scale => next >= Threshold
  BY <1>1, <1>4, <1>5, <1>6, <1>8 DEF Smaller
<1> QED
  BY <1>9, <1>10, <1>11 DEF next, new, fifth, flagged

-----------------------------------------------------------------------------
\* The delivered tier is a tier; when the raw result does not fit, it is one
\* that fits, or FULL for want of one.
LEMMA DiscloseFits ==
  ASSUME NEW cost \in [Tiers -> Nat], NEW budget \in Nat,
         NEW requested \in Tiers
  PROVE  LET level == Disclose(cost, budget, requested) IN
         /\ level \in Tiers
         /\ cost[Verbatim] > budget =>
              \/ cost[level] <= budget
              \/ level = Verbatim /\ \A other \in Tiers : cost[other] > budget
<1> DEFINE fits == {level \in Tiers : cost[level] <= budget}
<1>1. CASE cost[Verbatim] <= budget
  BY <1>1 DEF Disclose, Tiers, Verbatim
<1>2. CASE ~ (cost[Verbatim] <= budget) /\ fits = {}
  BY <1>2 DEF Disclose, Tiers, Verbatim
<1>3. CASE ~ (cost[Verbatim] <= budget) /\ fits # {}
  <2>1. \E level \in fits : \A other \in fits : level <= other
    BY <1>3 DEF Tiers
  <2>2. Disclose(cost, budget, requested)
          = CHOOSE level \in fits : \A other \in fits : level <= other
    BY <1>3 DEF Disclose
  <2>3. Disclose(cost, budget, requested) \in fits
    BY <2>1, <2>2
  <2> QED
    BY <2>3
<1> QED
  BY <1>1, <1>2, <1>3

\* What a call replies: a price that is a number, and never one above the
\* budget when a tier fits.
LEMMA FilteredFits ==
  ASSUME Numbers(session),
         NEW method, NEW output \in Outputs, NEW requested \in Requested
  PROVE  LET filtered == Filtered(method, output, requested) IN
         /\ filtered.tokens \in Nat
         /\ filtered.before = Remaining
         /\ filtered.remaining = Positive(Remaining - filtered.tokens)
         /\ filtered.method = method
         /\ filtered.output = output
         /\ Cost[output][Verbatim] > filtered.before =>
              \/ filtered.tokens <= filtered.before
              \/ /\ filtered.level = Verbatim
                 /\ \A level \in Tiers : Cost[output][level] > filtered.before
<1> DEFINE level == Disclose(Cost[output], Remaining, requested)
<1>1. Cost[output] \in [Tiers -> Nat] /\ requested \in Tiers
  BY BudgetAssumption
<1>2. Remaining \in Nat
  BY BudgetAssumption DEF Remaining, Positive, Numbers
<1>3. /\ level \in Tiers
      /\ Cost[output][Verbatim] > Remaining =>
           \/ Cost[output][level] <= Remaining
           \/ level = Verbatim /\ \A other \in Tiers : Cost[output][other] > Remaining
  BY <1>1, <1>2, DiscloseFits
<1>4. Filtered(method, output, requested)
        = [method |-> method, output |-> output, level |-> level,
           before |-> Remaining, tokens |-> Cost[output][level],
           remaining |-> Positive(Remaining - Cost[output][level])]
  BY DEF Filtered
<1> HIDE DEF level
<1> QED
  BY <1>1, <1>3, <1>4

-----------------------------------------------------------------------------
\* A tool call keeps the invariant.
LEMMA ToolCallKeeps ==
  ASSUME BudgetInv,
         NEW output \in Outputs, NEW requested \in Requested, NEW id \in CallIds,
         ToolCall(output, requested, id)
  PROVE  BudgetInv'
<1> DEFINE filtered == Filtered("tool_call", output, requested)
           after == Charged(output, filtered.tokens, id)
           penalty == Penalty(LastTwo(Append(session.history, id)))
<1>1. /\ filtered.tokens \in Nat
      /\ filtered.remaining = Positive(Remaining - filtered.tokens)
      /\ filtered.before = Remaining
      /\ filtered.output = output
      /\ Cost[output][Verbatim] > filtered.before =>
           \/ filtered.tokens <= filtered.before
           \/ /\ filtered.level = Verbatim
              /\ \A level \in Tiers : Cost[output][level] > filtered.before
  BY FilteredFits DEF BudgetInv
<1>2. reply' = filtered /\ active /\ session.step < MaxSteps
  BY DEF ToolCall
<1>3. /\ after.tokens = session.tokens + filtered.tokens
      /\ after.step = session.step + 1
      /\ after.score = DeviationScore(session.step + 1,
                                      session.tokens + filtered.tokens,
                                      Smaller(Scale, session.score + penalty))
  BY DEF Charged
<1>4. penalty \in {0, Scale \div 5}
  BY DEF Penalty
<1> HIDE DEF filtered, penalty, after
<1>5. /\ Numbers(after)
      /\ ScoreBound(after)
      /\ after.step = MaxSteps /\ 2 * Threshold <= Scale => Drifts(after)
  <2>1. /\ session.step \in Nat /\ session.tokens \in Nat
        /\ session.score \in Nat
        /\ 4 * session.score
             <= 5 * Spent(session.step, session.tokens) + Scale \div 5
    BY DEF BudgetInv, Numbers, ScoreBound
  <2> DEFINE next == DeviationScore(session.step + 1,
                                    session.tokens + filtered.tokens,
                                    Smaller(Scale, session.score + penalty))
  <2>2. /\ next \in Nat
        /\ 4 * next <= 5 * Spent(session.step + 1,
                                 session.tokens + filtered.tokens)
                        + Scale \div 5
        /\ session.step + 1 = MaxSteps /\ 2 * Threshold <= Scale
             => next >= Threshold
    BY <1>1, <1>4, <2>1, NextScore
  <2>3. after.score = next
    BY <1>3
  <2> HIDE DEF next
  <2> QED
    BY <1>1, <1>3, <2>1, <2>2, <2>3 DEF Numbers, ScoreBound, Drifts
<1>6. session.step + 1 <= MaxSteps /\ MaxSteps \in Nat
  BY <1>2, BudgetAssumption DEF BudgetInv, Numbers
<1>7. ~ Drifts(after) => StepsLeft(after)
  BY <1>3, <1>5, <1>6 DEF StepsLeft, Numbers
<1>8. DowngradeFits'
  BY <1>1, <1>2 DEF DowngradeFits
<1>9. CASE ~ Drifts(after) /\ session' = after /\ saved' \in {saved, after}
           /\ UNCHANGED active
  <2>1. Remaining' = Positive(Remaining - filtered.tokens)
    <3>1. session'.tokens = session.tokens + filtered.tokens
      BY <1>3, <1>9
    <3>2. session.tokens \in Nat /\ TokenLimit \in Nat
      BY BudgetAssumption DEF BudgetInv, Numbers
    <3> QED
      BY <1>1, <3>1, <3>2 DEF Remaining, Positive
  <2>2. ReportedBudgetHolds'
    BY <1>1, <1>2, <2>1 DEF ReportedBudgetHolds
  <2>3. (Numbers(session) /\ ScoreBound(session) /\ StepsLeft(session))'
    BY <1>5, <1>7, <1>9 DEF Numbers, ScoreBound, StepsLeft
  <2>4. (Numbers(saved) /\ ScoreBound(saved) /\ StepsLeft(saved))'
    BY <1>5, <1>7, <1>9 DEF BudgetInv, Numbers, ScoreBound, StepsLeft
  <2> QED
    BY <1>8, <1>9, <2>2, <2>3, <2>4 DEF BudgetInv
<1>10. CASE session' = saved /\ active' = FALSE /\ UNCHANGED saved
  <2>1. ReportedBudgetHolds'
    BY <1>10 DEF ReportedBudgetHolds
  <2> QED
    BY <1>8, <1>10, <2>1 DEF BudgetInv, Numbers, ScoreBound, StepsLeft
<1> QED
  BY <1>9, <1>10 DEF ToolCall, filtered, after

\* So does a call of the JSON-RPC endpoint.
LEMMA JsonRpcKeeps ==
  ASSUME BudgetInv,
         NEW output \in Outputs, NEW requested \in Requested,
         JsonRpc(output, requested)
  PROVE  BudgetInv'
<1> DEFINE filtered == Filtered("rpc", output, requested)
<1>1. /\ filtered.method = "rpc" /\ filtered.output = output
      /\ Cost[output][Verbatim] > filtered.before =>
           \/ filtered.tokens <= filtered.before
           \/ /\ filtered.level = Verbatim
              /\ \A level \in Tiers : Cost[output][level] > filtered.before
  BY FilteredFits DEF BudgetInv
<1>2. reply' = filtered /\ UNCHANGED <<session, saved, active>>
  BY DEF JsonRpc
<1> HIDE DEF filtered
<1>3. ReportedBudgetHolds'
  BY <1>1, <1>2 DEF ReportedBudgetHolds
<1>4. DowngradeFits'
  BY <1>1, <1>2 DEF DowngradeFits
<1> QED
  BY <1>2, <1>3, <1>4 DEF BudgetInv, Numbers, ScoreBound, StepsLeft

\* A new session obeys the bounds.
LEMMA GenesisKeeps ==
  ASSUME BudgetInit
  PROVE  BudgetInv
<1>1. Numbers(Genesis)
  BY DEF Numbers, Genesis
<1>2. ScoreBound(Genesis)
  <2>1. Spent(0, 0) \in Nat
    BY SpentMonotonic
  <2>2. Scale \div 5 \in Nat
    BY BudgetAssumption
  <2> QED
    BY <2>1, <2>2 DEF ScoreBound, Genesis
<1>3. StepsLeft(Genesis)
  BY BudgetAssumption DEF StepsLeft, Genesis
<1> QED
  BY <1>1, <1>2, <1>3 DEF BudgetInit, BudgetInv, ReportedBudgetHolds,
                          DowngradeFits, NoReply

\* The invariant holds in every reachable state.
THEOREM BudgetInvariance ==
  BudgetSpec => []BudgetInv
<1>1. BudgetInit => BudgetInv
  BY GenesisKeeps
<1>2. BudgetInv /\ [BudgetNext]_budgetVars => BudgetInv'
  <2> SUFFICES ASSUME BudgetInv, [BudgetNext]_budgetVars PROVE BudgetInv'
    OBVIOUS
  <2>1. CASE BudgetNext
    BY <2>1, ToolCallKeeps, JsonRpcKeeps DEF BudgetNext
  <2>2. CASE UNCHANGED budgetVars
    BY <2>2 DEF budgetVars, BudgetInv, Numbers, ScoreBound, StepsLeft,
                ReportedBudgetHolds, DowngradeFits, Remaining
  <2> QED
    BY <2>1, <2>2
<1> QED
  BY <1>1, <1>2, PTL DEF BudgetSpec

\* The budget a tool call reports is the one the next call starts with,
\* whatever the transformations cost.
THEOREM ReportedBudgetIsRight ==
  BudgetSpec => []ReportedBudgetHolds
<1>1. BudgetInv => ReportedBudgetHolds
  BY DEF BudgetInv
<1> QED
  BY <1>1, BudgetInvariance, PTL

\* A result that does not fit is delivered in a tier that does, if there is
\* one.
THEOREM DowngradesFit ==
  BudgetSpec => []DowngradeFits
<1>1. BudgetInv => DowngradeFits
  BY DEF BudgetInv
<1> QED
  BY <1>1, BudgetInvariance, PTL

\* The score stays near what the budgets explain, for calls of any length and
\* any number of loop penalties.
THEOREM ScoreIsExplained ==
  BudgetSpec => []ScoreTracksBudgets
<1>1. BudgetInv => ScoreTracksBudgets
  BY DEF BudgetInv, ScoreBound, ScoreTracksBudgets
<1> QED
  BY <1>1, BudgetInvariance, PTL

\* With a threshold of at most one half, sequential calls never spend the step
\* budget.
THEOREM RollbackPrecedesExhaustion ==
  BudgetSpec => []RollbackComesFirst
<1>1. BudgetInv => RollbackComesFirst
  BY DEF BudgetInv, StepsLeft, RollbackComesFirst
<1> QED
  BY <1>1, BudgetInvariance, PTL

=============================================================================
