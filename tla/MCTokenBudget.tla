---------------------------- MODULE MCTokenBudget ----------------------------
(***************************************************************************)
(* TokenBudget with the transformations of ContextFilter, for TLC.         *)
(***************************************************************************)
EXTENDS TokenBudget, ContextFilter

Row == Dict(<<Run(1, Number(2)), Run(1, Text(7))>>)

Payloads ==
  <<Text(3000),
    List(<<>>),
    List(<<Run(4, Number(1))>>),
    List(<<Run(60, Row)>>),
    Dict(<<Run(1, Text(700)), Run(1, List(<<Run(12, Number(2))>>))>>),
    Dict(<<Run(1, Blob(5000)), Run(1, Row)>>),
    Dict(<<Run(1, List(<<Run(200, Text(500))>>))>>)>>

MCOutputs == DOMAIN Payloads

\* A constant of its own, built by Append, so that TLC evaluates it once.
Prices == FoldLeft(LAMBDA costs, p : Append(costs, CostOf(p)), <<>>, Payloads)

MCCost == Prices

Elements(p) == {p.runs[i].v : i \in DOMAIN p.runs}

\* A payload and what is nested in it, as deep as payloads are.
Parts(p) ==
  LET below(S) == S \cup UNION {Elements(q) : q \in S}
  IN below(below(below({p})))

\* No string of payload is longer than chars and the ellipsis of a cut, and no
\* list has more than items elements and the trailer of a cut.
Within(payload, chars, items) ==
  \A q \in Parts(payload) :
     /\ IsText(q) => q.n <= chars \/ q.n = chars + 1
     /\ q.kind = "list" => Count(q) <= items \/ Count(q) = items + 1

\* What is delivered in STANDARD obeys its caps at every depth (10 elements
\* and a trailer, 512 characters and an ellipsis); a MINIMAL summary is flat.
DeliveredWithinCaps ==
  reply.method # "none" =>
     LET delivered == Transform(Payloads[reply.output], reply.level) IN
     /\ reply.level = STANDARD => Within(delivered, 512, 10)
     /\ reply.level = MINIMAL =>
          \A i \in DOMAIN delivered.runs : delivered.runs[i].v.runs = <<>>

=============================================================================
