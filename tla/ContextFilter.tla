---------------------------- MODULE ContextFilter ----------------------------
(***************************************************************************)
(* The transformations of router/context_filter.py and the tokens their    *)
(* results cost.                                                           *)
(*                                                                         *)
(* A payload is kept up to what the transformations and the token count    *)
(* tell apart: lengths.  A string, a blob (a string that matches the       *)
(* base64 pattern) and a number, boolean or null have n characters; a list *)
(* or dict has runs of k elements that are alike.  Keys have one character *)
(* and the elements of an input list are alike.                            *)
(***************************************************************************)
EXTENDS Integers, SequencesExt

MINIMAL == 1
CONDENSED == 2
STANDARD == 3
EXPANDED == 4
FULL == 5
Levels == MINIMAL..FULL

\* Payloads with elements from S, and those nested up to three deep.
Node(S) ==
  {p \in [kind : {"str", "blob", "num", "list", "dict"}, n : Nat,
          runs : Seq([k : Nat, v : S])] :
     p.kind \in {"list", "dict"} \/ p.runs = <<>>}
Payload == Node(Node(Node(Node({}))))

Leaf(kind, n) == [kind |-> kind, n |-> n, runs |-> <<>>]
Text(n) == Leaf("str", n)
Number(n) == Leaf("num", n)
Blob(n) == Leaf("blob", n)
Run(k, v) == [k |-> k, v |-> v]
List(runs) == [kind |-> "list", n |-> 0, runs |-> runs]
Dict(runs) == [kind |-> "dict", n |-> 0, runs |-> runs]

IsText(p) == p.kind \in {"str", "blob"}
Count(p) == FoldLeft(LAMBDA acc, r : acc + r.k, 0, p.runs)
MapRuns(p, F(_)) == [i \in DOMAIN p.runs |-> Run(p.runs[i].k, F(p.runs[i].v))]

\* len(str(n)), below 10^9.
Digits(n) == 1 + Cardinality({d \in 1..8 : n >= 10^d})

\* len of the sentinels "[N items]", "{N keys}" and "<binary blob ~N bytes>",
\* and of the words of the trailers "... N more" and "... N more items" (with a
\* one-character ellipsis).
ItemsSentinel(n) == Text(8 + Digits(n))
KeysSentinel(n) == Text(7 + Digits(n))
BlobSentinel(n) == Text(21 + Digits(n))
MoreTrailer == 7
MoreItemsTrailer == 13

Truncate(p, cap) == IF IsText(p) /\ p.n > cap THEN Text(cap + 1) ELSE p

\* The first cap elements and a trailer for the rest.
CapList(p, cap, trailer) ==
  IF Count(p) <= cap THEN p
  ELSE List(<<Run(cap, p.runs[1].v),
              Run(1, Text(trailer + Digits(Count(p) - cap)))>>)

-----------------------------------------------------------------------------
ApplyMinimal(p) ==
  LET summary(v) == CASE v.kind = "list" -> ItemsSentinel(Count(v))
                      [] v.kind = "dict" -> KeysSentinel(Count(v))
                      [] OTHER -> Truncate(v, 256)
  IN CASE p.kind = "dict" -> Dict(MapRuns(p, summary))
       [] p.kind = "list" -> ItemsSentinel(Count(p))
       [] OTHER -> Truncate(Text(p.n), 256)

\* A long string is truncated as a value of a dict only.
ApplyCondensed(p) ==
  LET condense(v) == CASE v.kind = "list" -> CapList(v, 3, MoreTrailer)
                       [] v.kind = "dict" -> KeysSentinel(Count(v))
                       [] OTHER -> Truncate(v, 512)
  IN CASE p.kind = "dict" -> Dict(MapRuns(p, condense))
       [] p.kind = "list" -> CapList(p, 3, MoreTrailer)
       [] OTHER -> p

ApplyStandard[p \in Payload] ==
  CASE p.kind = "dict" -> Dict(MapRuns(p, LAMBDA v : ApplyStandard[v]))
    [] p.kind = "list" ->
         CapList(List(MapRuns(p, LAMBDA v : ApplyStandard[v])), 10,
                 MoreItemsTrailer)
    [] OTHER -> Truncate(p, 512)

ApplyExpanded[p \in Payload] ==
  CASE p.kind = "dict" -> Dict(MapRuns(p, LAMBDA v : ApplyExpanded[v]))
    [] p.kind = "list" ->
         CapList(List(MapRuns(p, LAMBDA v : ApplyExpanded[v])), 50,
                 MoreItemsTrailer)
    [] p.kind = "blob" /\ p.n > 4096 -> BlobSentinel((p.n * 3) \div 4)
    [] OTHER -> p

\* Mutant of Transform: two entries of _LEVEL_TRANSFORMS are swapped.
SwapsTiers(p, level) ==
  CASE level = MINIMAL -> ApplyMinimal(p)
    [] level = CONDENSED -> ApplyCondensed(p)
    [] level = STANDARD -> ApplyExpanded[p]
    [] level = EXPANDED -> ApplyStandard[p]
    [] level = FULL -> p

Transform(p, level) ==
  CASE level = MINIMAL -> ApplyMinimal(p)
    [] level = CONDENSED -> ApplyCondensed(p)
    [] level = STANDARD -> ApplyStandard[p]
    [] level = EXPANDED -> ApplyExpanded[p]
    [] level = FULL -> p

-----------------------------------------------------------------------------
\* Characters of the JSON text: quotes, brackets, commas and, in a dict, a
\* quoted key with its colon.
JsonLength[p \in Payload] ==
  LET perElement == IF p.kind = "dict" THEN 5 ELSE 1
      body == FoldLeft(LAMBDA acc, r : acc + r.k * (perElement + JsonLength[r.v]),
                       0, p.runs)
  IN CASE IsText(p) -> p.n + 2
       [] p.kind = "num" -> p.n
       [] OTHER -> IF p.runs = <<>> THEN 2 ELSE body + 1

\* estimate_tokens(_payload_to_text(p)), char_approx: a payload that is a
\* string is its own text; ceil(len / 4).
EstimateTokens(p) ==
  ((IF IsText(p) THEN p.n ELSE JsonLength[p]) + 3) \div 4

CostOf(p) == <<EstimateTokens(Transform(p, MINIMAL)),
               EstimateTokens(Transform(p, CONDENSED)),
               EstimateTokens(Transform(p, STANDARD)),
               EstimateTokens(Transform(p, EXPANDED)),
               EstimateTokens(Transform(p, FULL))>>

=============================================================================
