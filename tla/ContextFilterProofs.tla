------------------------- MODULE ContextFilterProofs -------------------------
(***************************************************************************)
(* Theorems about the transformations of ContextFilter, for every payload, *)
(* and about what TokenBudget delivers of the payloads of MCTokenBudget.   *)
(*                                                                         *)
(* Payloads nest no deeper than Payload says, so the recursive transform   *)
(* is built level by level: that is how it is shown to be well defined.    *)
(***************************************************************************)
EXTENDS MCTokenBudget, TLAPS, FiniteSetTheorems, SequenceTheorems

N1 == Node({})
N2 == Node(N1)
N3 == Node(N2)

LEMMA PayloadIsLevel == Payload = Node(N3)
  BY DEF Payload, N1, N2, N3

LEMMA ElementsOfNode ==
  ASSUME NEW S, NEW p \in Node(S)
  PROVE  /\ Elements(p) \subseteq S
         /\ p.runs \in Seq([k : Nat, v : S])
<1>1. p.runs \in Seq([k : Nat, v : S])
  BY DEF Node
<1>2. \A i \in DOMAIN p.runs : p.runs[i] \in [k : Nat, v : S]
  BY <1>1, LenProperties
<1> QED BY <1>1, <1>2 DEF Elements

\* Deeper payloads include the shallow ones.
LEMMA NodeMonotonic ==
  ASSUME NEW S, NEW T, S \subseteq T
  PROVE  Node(S) \subseteq Node(T)
<1> SUFFICES ASSUME NEW p \in Node(S) PROVE p \in Node(T)
  OBVIOUS
<1>1. p.runs \in Seq([k : Nat, v : S])
  BY ElementsOfNode
<1>2. [k : Nat, v : S] \subseteq [k : Nat, v : T]
  OBVIOUS
<1>3. p.runs \in Seq([k : Nat, v : T])
  BY <1>1, <1>2, SeqMonotonic
<1> QED BY <1>3 DEF Node

LEMMA Nesting == N1 \subseteq N2 /\ N2 \subseteq N3 /\ N3 \subseteq Payload
<1>1. N1 \subseteq N2
  BY NodeMonotonic DEF N1, N2
<1>2. N2 \subseteq N3
  BY <1>1, NodeMonotonic DEF N2, N3
<1>3. N3 \subseteq Payload
  BY <1>2, NodeMonotonic, PayloadIsLevel DEF N3
<1> QED BY <1>1, <1>2, <1>3

LEMMA ElementsOfPayload ==
  ASSUME NEW p \in Payload
  PROVE  Elements(p) \subseteq Payload
  BY PayloadIsLevel, ElementsOfNode, Nesting

-----------------------------------------------------------------------------
(***************************************************************************)
(* ApplyStandard is well defined                                           *)
(***************************************************************************)

\* One call of apply_standard, with f for the calls it makes.
StandardOf(f, p) ==
  CASE p.kind = "dict" -> Dict(MapRuns(p, LAMBDA v : f[v]))
    [] p.kind = "list" ->
         CapList(List(MapRuns(p, LAMBDA v : f[v])), 10, MoreItemsTrailer)
    [] OTHER -> Truncate(p, 512)

Unfold(f) == [p \in Payload |-> StandardOf(f, p)]

LEMMA SameElements ==
  ASSUME NEW f, NEW g, NEW p, \A v \in Elements(p) : f[v] = g[v]
  PROVE  StandardOf(f, p) = StandardOf(g, p)
<1>1. MapRuns(p, LAMBDA v : f[v]) = MapRuns(p, LAMBDA v : g[v])
  <2>1. \A i \in DOMAIN p.runs : f[p.runs[i].v] = g[p.runs[i].v]
    BY DEF Elements
  <2> QED BY <2>1 DEF MapRuns
<1> QED BY <1>1 DEF StandardOf

LEMMA NextLevel ==
  ASSUME NEW f, NEW g, NEW S, Node(S) \subseteq Payload,
         \A v \in S : f[v] = g[v]
  PROVE  \A p \in Node(S) : Unfold(f)[p] = Unfold(g)[p]
<1> SUFFICES ASSUME NEW p \in Node(S) PROVE Unfold(f)[p] = Unfold(g)[p]
  OBVIOUS
<1>1. p \in Payload /\ \A v \in Elements(p) : f[v] = g[v]
  BY ElementsOfNode
<1>2. StandardOf(f, p) = StandardOf(g, p)
  BY <1>1, SameElements
<1> QED BY <1>1, <1>2 DEF Unfold

LEMMA FixpointExists == \E f : f = Unfold(f)
<1> DEFINE g0 == [p \in Payload |-> p]
           g1 == Unfold(g0)
           g2 == Unfold(g1)
           g3 == Unfold(g2)
           g4 == Unfold(g3)
<1>1. \A p \in N1 : g1[p] = g2[p]
  <2> HIDE DEF g0, g1
  <2>1. \A p \in Node({}) : Unfold(g0)[p] = Unfold(g1)[p]
    BY NextLevel, Nesting DEF N1
  <2> QED BY <2>1 DEF N1, g1
<1>2. \A p \in N2 : g2[p] = g3[p]
  <2> HIDE DEF g1, g2
  <2>1. \A p \in Node(N1) : Unfold(g1)[p] = Unfold(g2)[p]
    BY <1>1, NextLevel, Nesting DEF N2
  <2> QED BY <2>1 DEF N2, g2
<1>3. \A p \in N3 : g3[p] = g4[p]
  <2> HIDE DEF g2, g3
  <2>1. \A p \in Node(N2) : Unfold(g2)[p] = Unfold(g3)[p]
    BY <1>2, NextLevel, Nesting DEF N3
  <2> QED BY <2>1 DEF N3, g3
<1>4. \A p \in Payload : g4[p] = Unfold(g4)[p]
  <2> HIDE DEF g3, g4
  <2>1. \A p \in Node(N3) : Unfold(g3)[p] = Unfold(g4)[p]
    BY <1>3, NextLevel, PayloadIsLevel
  <2> QED BY <2>1, PayloadIsLevel DEF g4
<1>5. g4 = Unfold(g4)
  <2> HIDE DEF g3
  <2>1. g4 = [p \in Payload |-> g4[p]]
    BY DEF Unfold
  <2> HIDE DEF g4
  <2> QED BY <1>4, <2>1 DEF Unfold
<1> HIDE DEF g4
<1> QED BY <1>5

LEMMA StandardUnfolds ==
  \A p \in Payload : ApplyStandard[p] = StandardOf(ApplyStandard, p)
<1>1. ApplyStandard = CHOOSE f : f = Unfold(f)
  BY DEF ApplyStandard, Unfold, StandardOf
<1>2. ApplyStandard = Unfold(ApplyStandard)
  BY <1>1, FixpointExists
<1> HIDE DEF ApplyStandard
<1> QED BY <1>2 DEF Unfold

-----------------------------------------------------------------------------
(***************************************************************************)
(* The number of elements, and of digits                                   *)
(***************************************************************************)
FoldStep(runs, f) ==
  [s \in SUBSET DOMAIN runs |->
     IF s = {} THEN 0 ELSE f[s \ {Max(s)}] + runs[Max(s)].k]

LEMMA CountFolds ==
  ASSUME NEW p
  PROVE  Count(p) = (CHOOSE f : f = FoldStep(p.runs, f))[DOMAIN p.runs]
  BY DEF Count, FoldLeft, MapThenFoldSet, FoldStep

LEMMA CountOfNone ==
  ASSUME NEW p, p.runs = <<>>
  PROVE  Count(p) = 0
<1> DEFINE h == [s \in SUBSET {} |-> 0]
<1>1. DOMAIN p.runs = {}
  OBVIOUS
<1>2. h = FoldStep(p.runs, h)
  BY <1>1 DEF FoldStep
<1> DEFINE f == CHOOSE f : f = FoldStep(p.runs, f)
<1>3. f = FoldStep(p.runs, f)
  BY <1>2
<1>4. f[{}] = 0
  <2> HIDE DEF f
  <2> QED BY <1>1, <1>3 DEF FoldStep
<1> QED BY <1>1, <1>4, CountFolds

LEMMA CountOfTwo ==
  ASSUME NEW a \in Nat, NEW b \in Nat, NEW x, NEW y,
         NEW p, p.runs = <<Run(a, x), Run(b, y)>>
  PROVE  Count(p) = a + b
<1> DEFINE runs == p.runs
           h == [s \in SUBSET {1, 2} |->
                   (IF 1 \in s THEN a ELSE 0) + (IF 2 \in s THEN b ELSE 0)]
           f == CHOOSE f : f = FoldStep(runs, f)
<1>1. DOMAIN runs = {1, 2} /\ runs[1].k = a /\ runs[2].k = b
  BY DEF Run
<1> HIDE DEF runs
<1>2. Max({1}) = 1
  BY DEF Max
<1>3. \A s \in SUBSET {1, 2} : 2 \in s => Max(s) = 2
  BY DEF Max
<1>4. h = FoldStep(runs, h)
  <2>1. ASSUME NEW s \in SUBSET {1, 2}
        PROVE  h[s] = IF s = {} THEN 0 ELSE h[s \ {Max(s)}] + runs[Max(s)].k
    <3>1. CASE s = {}
      BY <3>1
    <3>2. CASE 2 \in s
      <4>1. /\ s \ {2} \in SUBSET {1, 2} /\ 2 \notin s \ {2} /\ s # {}
            /\ 1 \in s \ {2} <=> 1 \in s
        BY <3>2
      <4>2. h[s \ {2}] = IF 1 \in s THEN a ELSE 0
        BY <4>1
      <4>3. h[s] = (IF 1 \in s THEN a ELSE 0) + b
        BY <3>2
      <4> HIDE DEF h
      <4> QED BY <1>1, <1>3, <3>2, <4>1, <4>2, <4>3
    <3>3. CASE s = {1}
      BY <1>1, <1>2, <3>3
    <3>4. s = {} \/ 2 \in s \/ s = {1}
      OBVIOUS
    <3> QED BY <3>1, <3>2, <3>3, <3>4
  <2>2. h = [s \in SUBSET {1, 2} |-> h[s]]
    OBVIOUS
  <2> HIDE DEF h
  <2> QED BY <1>1, <2>1, <2>2 DEF FoldStep
<1>5. f = FoldStep(runs, f)
  <2> HIDE DEF h
  <2> QED BY <1>4
<1> HIDE DEF f
<1>6. \A s \in SUBSET {1, 2} :
         f[s] = IF s = {} THEN 0 ELSE f[s \ {Max(s)}] + runs[Max(s)].k
  BY <1>1, <1>5 DEF FoldStep
<1>7. f[{}] = 0
  BY <1>6
<1>8. f[{1}] = a
  <2>1. {1} \ {1} = {} /\ {1} # {} /\ {1} \in SUBSET {1, 2}
    OBVIOUS
  <2>2. f[{1}] = f[{1} \ {Max({1})}] + runs[Max({1})].k
    BY <1>6, <2>1
  <2> QED BY <1>1, <1>2, <1>7, <2>1, <2>2
<1>9. f[{1, 2}] = a + b
  <2>1. {1, 2} \ {2} = {1} /\ {1, 2} # {} /\ {1, 2} \in SUBSET {1, 2}
    OBVIOUS
  <2>2. f[{1, 2}] = f[{1, 2} \ {Max({1, 2})}] + runs[Max({1, 2})].k
    BY <1>6, <2>1
  <2>3. Max({1, 2}) = 2
    BY <1>3
  <2> QED BY <1>1, <1>8, <2>1, <2>2, <2>3
<1> QED BY <1>1, <1>9, CountFolds DEF f, runs

LEMMA DigitsBound ==
  ASSUME NEW n
  PROVE  Digits(n) \in 1..9
<1> DEFINE S == {d \in 1..8 : n >= 10^d}
<1>1. S \subseteq 1..8
  OBVIOUS
<1>2. IsFiniteSet(1..8) /\ Cardinality(1..8) = 8
  <2>1. ASSUME NEW m \in Nat
        PROVE  IsFiniteSet(1..m) /\ Cardinality(1..m) = m
    <3>1. Cardinality(1..m) = IF 1 > m THEN 0 ELSE m - 1 + 1
      BY FS_Interval
    <3>2. IsFiniteSet(1..m)
      BY FS_Interval
    <3> QED BY <3>1, <3>2
  <2> QED BY <2>1
<1>3. Digits(n) = 1 + Cardinality(S)
  BY DEF Digits
<1> HIDE DEF S
<1>4. IsFiniteSet(S) /\ Cardinality(S) <= 8 /\ Cardinality(S) \in Nat
  BY <1>1, <1>2, FS_Subset, FS_CardinalityType
<1> QED BY <1>3, <1>4

-----------------------------------------------------------------------------
(***************************************************************************)
(* What STANDARD delivers                                                  *)
(***************************************************************************)

\* What the transform of a payload can hold: transformed payloads, and texts
\* that it made.
Delivered == {ApplyStandard[p] : p \in Payload} \cup {Text(n) : n \in 0..513}

Capped(q) ==
  /\ IsText(q) => q.n <= 512 \/ q.n = 513
  /\ q.kind = "list" => Count(q) <= 10 \/ Count(q) = 11

LEMMA TextIsCapped ==
  ASSUME NEW n \in 0..513
  PROVE  Capped(Text(n)) /\ Elements(Text(n)) = {}
  BY DEF Capped, Text, Leaf, IsText, Elements

\* A list that is cut has ten elements and a trailer.
LEMMA CutList ==
  ASSUME NEW q, q.kind = "list", ~ (Count(q) <= 10)
  PROVE  LET cut == CapList(q, 10, MoreItemsTrailer) IN
         /\ cut.kind = "list" /\ Count(cut) = 11
         /\ \E n \in 0..513 :
               Elements(cut) = {q.runs[1].v, Text(n)}
<1> DEFINE n == MoreItemsTrailer + Digits(Count(q) - 10)
           cut == List(<<Run(10, q.runs[1].v), Run(1, Text(n))>>)
<1>1. n \in 0..513
  <2>1. Digits(Count(q) - 10) \in 1..9
    BY DigitsBound
  <2> QED BY <2>1 DEF MoreItemsTrailer
<1>2. CapList(q, 10, MoreItemsTrailer) = cut
  BY DEF CapList
<1> HIDE DEF n
<1>3. cut.kind = "list" /\ cut.runs = <<Run(10, q.runs[1].v), Run(1, Text(n))>>
  BY DEF List
<1> HIDE DEF cut
<1>4. Count(cut) = 11
  <2>1. Count(cut) = 10 + 1
    BY <1>3, CountOfTwo
  <2> QED BY <2>1
<1>5. Elements(cut) = {q.runs[1].v, Text(n)}
  <2>1. DOMAIN cut.runs = {1, 2}
    BY <1>3
  <2>2. cut.runs[1].v = q.runs[1].v /\ cut.runs[2].v = Text(n)
    BY <1>3 DEF Run
  <2> QED BY <2>1, <2>2 DEF Elements
<1> QED BY <1>1, <1>2, <1>3, <1>4, <1>5

\* The elements of a mapped payload.
LEMMA MappedElements ==
  ASSUME NEW p \in Payload, NEW q, q.runs = MapRuns(p, LAMBDA v : ApplyStandard[v])
  PROVE  /\ Elements(q) \subseteq Delivered
         /\ q.runs # <<>> => q.runs[1].v \in Delivered
<1> HIDE DEF ApplyStandard
<1>1. p.runs \in Seq([k : Nat, v : N3])
  BY PayloadIsLevel, ElementsOfNode
<1>2. /\ DOMAIN q.runs = DOMAIN p.runs
      /\ \A i \in DOMAIN p.runs : q.runs[i].v = ApplyStandard[p.runs[i].v]
  BY DEF MapRuns, Run
<1>3. \A i \in DOMAIN p.runs : p.runs[i].v \in Payload
  BY ElementsOfPayload DEF Elements
<1>4. \A i \in DOMAIN q.runs : q.runs[i].v \in Delivered
  BY <1>2, <1>3 DEF Delivered
<1>5. q.runs # <<>> => 1 \in DOMAIN q.runs
  <2>1. Len(p.runs) \in Nat /\ DOMAIN p.runs = 1..Len(p.runs)
    BY <1>1, LenProperties
  <2>2. CASE Len(p.runs) = 0
    <3>1. q.runs = <<>>
      BY <2>1, <2>2 DEF MapRuns
    <3> QED BY <3>1
  <2>3. CASE Len(p.runs) # 0
    BY <1>2, <2>1, <2>3
  <2> QED BY <2>2, <2>3
<1> QED BY <1>4, <1>5 DEF Elements

LEMMA DeliveredIsCapped ==
  ASSUME NEW q \in Delivered
  PROVE  Capped(q) /\ Elements(q) \subseteq Delivered
<1> HIDE DEF ApplyStandard
<1>1. CASE q \in {Text(n) : n \in 0..513}
  BY <1>1, TextIsCapped
<1>2. CASE q \in {ApplyStandard[p] : p \in Payload}
  <2>1. PICK p \in Payload : q = StandardOf(ApplyStandard, p)
    BY <1>2, StandardUnfolds
  <2>2. CASE p.kind = "dict"
    <3>1. q = Dict(MapRuns(p, LAMBDA v : ApplyStandard[v]))
      BY <2>1, <2>2 DEF StandardOf
    <3>2. q.kind = "dict" /\ q.runs = MapRuns(p, LAMBDA v : ApplyStandard[v])
      BY <3>1 DEF Dict
    <3> QED BY <3>2, MappedElements DEF Capped, IsText
  <2>3. CASE p.kind = "list"
    <3> DEFINE full == List(MapRuns(p, LAMBDA v : ApplyStandard[v]))
    <3>1. full.kind = "list" /\ full.runs = MapRuns(p, LAMBDA v : ApplyStandard[v])
      BY DEF List
    <3>2. q = CapList(full, 10, MoreItemsTrailer)
      BY <2>1, <2>3 DEF StandardOf
    <3> HIDE DEF full
    <3>3. CASE Count(full) <= 10
      <4>1. q = full
        BY <3>2, <3>3 DEF CapList
      <4> QED BY <3>1, <3>3, <4>1, MappedElements DEF Capped, IsText
    <3>4. CASE ~ (Count(full) <= 10)
      <4>1. PICK n \in 0..513 :
               /\ q.kind = "list" /\ Count(q) = 11
               /\ Elements(q) = {full.runs[1].v, Text(n)}
        BY <3>1, <3>2, <3>4, CutList
      <4>2. full.runs # <<>>
        BY <3>4, CountOfNone
      <4>3. full.runs[1].v \in Delivered
        BY <3>1, <4>2, MappedElements
      <4>4. Text(n) \in Delivered
        BY DEF Delivered
      <4> QED BY <4>1, <4>3, <4>4 DEF Capped, IsText
    <3> QED BY <3>3, <3>4
  <2>4. CASE p.kind \notin {"dict", "list"}
    <3>1. q = Truncate(p, 512)
      BY <2>1, <2>4 DEF StandardOf
    <3>2. p.runs = <<>> /\ p.n \in Nat
      BY <2>4, PayloadIsLevel DEF Node
    <3>3. CASE IsText(p) /\ p.n > 512
      <4>1. q = Text(513)
        BY <3>1, <3>3 DEF Truncate
      <4>2. Capped(Text(513)) /\ Elements(Text(513)) = {}
        BY TextIsCapped
      <4> QED BY <4>1, <4>2
    <3>4. CASE ~ (IsText(p) /\ p.n > 512)
      <4>1. q = p
        BY <3>1, <3>4 DEF Truncate
      <4> QED BY <2>4, <3>2, <3>4, <4>1 DEF Capped, Elements
    <3> QED BY <3>3, <3>4
  <2> QED BY <2>2, <2>3, <2>4
<1> QED BY <1>1, <1>2 DEF Delivered

LEMMA PartsDelivered ==
  ASSUME NEW q \in Delivered
  PROVE  Parts(q) \subseteq Delivered
  BY DeliveredIsCapped DEF Parts

\* At every depth of every payload, STANDARD leaves no string longer than 512
\* characters and an ellipsis and no list longer than ten elements and a
\* trailer, the trailers included (context_filter.py, apply_standard).
THEOREM StandardCaps == \A p \in Payload : Within(ApplyStandard[p], 512, 10)
<1> HIDE DEF ApplyStandard
<1> TAKE p \in Payload
<1>1. ApplyStandard[p] \in Delivered
  BY DEF Delivered
<1>2. \A q \in Parts(ApplyStandard[p]) : Capped(q)
  BY <1>1, PartsDelivered, DeliveredIsCapped
<1> QED BY <1>2 DEF Within, Capped

-----------------------------------------------------------------------------
(***************************************************************************)
(* What MINIMAL delivers                                                   *)
(***************************************************************************)

Flat(p) == \A i \in DOMAIN p.runs : p.runs[i].v.runs = <<>>

\* A MINIMAL summary has no nested data, whatever the payload
\* (context_filter.py, apply_minimal).
THEOREM MinimalIsFlat == \A p \in Payload : Flat(ApplyMinimal(p))
<1> TAKE p \in Payload
<1> DEFINE summary(v) == CASE v.kind = "list" -> ItemsSentinel(Count(v))
                           [] v.kind = "dict" -> KeysSentinel(Count(v))
                           [] OTHER -> Truncate(v, 256)
<1>1. \A n : Text(n).runs = <<>>
  BY DEF Text, Leaf
<1>2. \A v \in Payload : summary(v).runs = <<>>
  <2>1. \A v \in Payload : v.kind \notin {"list", "dict"} => v.runs = <<>>
    BY PayloadIsLevel DEF Node
  <2> QED BY <1>1, <2>1 DEF ItemsSentinel, KeysSentinel, Truncate
<1> HIDE DEF summary
<1>3. CASE p.kind = "dict"
  <2>1. ApplyMinimal(p).runs = [i \in DOMAIN p.runs |-> Run(p.runs[i].k, summary(p.runs[i].v))]
    BY <1>3 DEF ApplyMinimal, Dict, MapRuns, summary
  <2>2. \A i \in DOMAIN p.runs : p.runs[i].v \in Payload
    BY ElementsOfPayload DEF Elements
  <2> QED BY <1>2, <2>1, <2>2 DEF Flat, Run
<1>4. CASE p.kind # "dict"
  <2>1. \E n : ApplyMinimal(p) = Text(n)
    BY <1>4 DEF ApplyMinimal, ItemsSentinel, Truncate
  <2> QED BY <1>1, <2>1 DEF Flat
<1> QED BY <1>3, <1>4

-----------------------------------------------------------------------------
(***************************************************************************)
(* What the replies deliver                                                *)
(***************************************************************************)

LEMMA LeafIsPayload ==
  ASSUME NEW kind \in {"str", "blob", "num"}, NEW n \in Nat, NEW S
  PROVE  Leaf(kind, n) \in Node(S)
<1>1. <<>> \in Seq([k : Nat, v : S])
  BY EmptySeq
<1> QED BY <1>1 DEF Leaf, Node

LEMMA LeavesAreN1 ==
  ASSUME NEW n \in Nat
  PROVE  Text(n) \in N1 /\ Number(n) \in N1 /\ Blob(n) \in N1
  BY LeafIsPayload DEF N1, Text, Number, Blob

LEMMA ContainerIsPayload ==
  ASSUME NEW S, NEW runs \in Seq([k : Nat, v : S])
  PROVE  List(runs) \in Node(S) /\ Dict(runs) \in Node(S)
  BY DEF List, Dict, Node

\* One or two runs.
LEMMA ShortRuns ==
  ASSUME NEW S, NEW a \in Nat, NEW b \in Nat, NEW x \in S, NEW y \in S
  PROVE  /\ <<>> \in Seq([k : Nat, v : S])
         /\ <<Run(a, x)>> \in Seq([k : Nat, v : S])
         /\ <<Run(a, x), Run(b, y)>> \in Seq([k : Nat, v : S])
<1> DEFINE R == [k : Nat, v : S]
<1>1. Run(a, x) \in R /\ Run(b, y) \in R
  BY DEF Run
<1> HIDE DEF R
<1> QED BY <1>1, EmptySeq DEF R

\* Containers of at most two runs.
LEMMA NoRun == \A S : List(<<>>) \in Node(S)
<1> TAKE S
<1> QED BY EmptySeq, ContainerIsPayload

LEMMA OneRun ==
  \A S : \A a \in Nat : \A x \in S :
     List(<<Run(a, x)>>) \in Node(S) /\ Dict(<<Run(a, x)>>) \in Node(S)
<1> TAKE S
<1> TAKE a \in Nat
<1> TAKE x \in S
<1>1. <<Run(a, x)>> \in Seq([k : Nat, v : S])
  BY ShortRuns
<1> QED BY <1>1, ContainerIsPayload

LEMMA TwoRuns ==
  \A S : \A a \in Nat : \A b \in Nat : \A x \in S : \A y \in S :
     Dict(<<Run(a, x), Run(b, y)>>) \in Node(S)
<1> TAKE S
<1> TAKE a \in Nat
<1> TAKE b \in Nat
<1> TAKE x \in S
<1> TAKE y \in S
<1>1. <<Run(a, x), Run(b, y)>> \in Seq([k : Nat, v : S])
  BY ShortRuns
<1> QED BY <1>1, ContainerIsPayload

LEMMA PayloadsAreTyped == \A i \in DOMAIN Payloads : Payloads[i] \in Payload
<1>1. /\ Number(1) \in N1 /\ Number(2) \in N1 /\ Text(7) \in N1
      /\ Text(500) \in N1 /\ Text(700) \in N1 /\ Text(3000) \in N1
      /\ Blob(5000) \in N1
  BY LeavesAreN1
<1>2. Row \in N2
  BY <1>1, TwoRuns DEF N2, Row
<1>3. List(<<>>) \in N2
  BY NoRun DEF N2
<1>4. List(<<Run(4, Number(1))>>) \in N2
  BY <1>1, OneRun DEF N2
<1>5. List(<<Run(12, Number(2))>>) \in N2
  BY <1>1, OneRun DEF N2
<1>6. List(<<Run(200, Text(500))>>) \in N2
  BY <1>1, OneRun DEF N2
<1>7. List(<<Run(60, Row)>>) \in N3
  BY <1>2, OneRun DEF N3
<1>8. Dict(<<Run(1, Text(700)), Run(1, List(<<Run(12, Number(2))>>))>>) \in N3
  <2>1. Text(700) \in N2
    BY <1>1, Nesting
  <2> QED BY <1>5, <2>1, TwoRuns DEF N3
<1>9. Dict(<<Run(1, Blob(5000)), Run(1, Row)>>) \in N3
  <2>1. Blob(5000) \in N2
    BY <1>1, Nesting
  <2> QED BY <1>2, <2>1, TwoRuns DEF N3
<1>10. Dict(<<Run(1, List(<<Run(200, Text(500))>>))>>) \in N3
  BY <1>6, OneRun DEF N3
<1>11. \A i \in 1..7 : Payloads[i] \in Payload
  BY <1>1, <1>3, <1>4, <1>7, <1>8, <1>9, <1>10, Nesting DEF Payloads
<1>12. DOMAIN Payloads = 1..7
  BY DEF Payloads
<1> QED BY <1>11, <1>12

\* A reply is about an output of the tools.
ReplyInv == reply.method # "none" => reply.output \in Outputs

LEMMA ReplyInvariance == BudgetSpec => []ReplyInv
<1>1. BudgetInit => ReplyInv
  BY DEF BudgetInit, NoReply, ReplyInv
<1>2. ReplyInv /\ [BudgetNext]_budgetVars => ReplyInv'
  BY DEF BudgetNext, ToolCall, JsonRpc, Filtered, ReplyInv, budgetVars
<1> QED BY <1>1, <1>2, PTL DEF BudgetSpec

\* Whatever was called before, at whatever budget: what a reply delivers in
\* STANDARD or MINIMAL obeys the caps of its level.
THEOREM CapsHold ==
  ASSUME Outputs \subseteq MCOutputs
  PROVE  BudgetSpec => []DeliveredWithinCaps
<1> HIDE DEF ApplyStandard
<1>1. ASSUME ReplyInv PROVE DeliveredWithinCaps
  <2> SUFFICES ASSUME reply.method # "none"
               PROVE  LET delivered == Transform(Payloads[reply.output], reply.level) IN
                      /\ reply.level = STANDARD => Within(delivered, 512, 10)
                      /\ reply.level = MINIMAL => Flat(delivered)
    BY DEF DeliveredWithinCaps, Flat
  <2>1. PICK p \in Payload : p = Payloads[reply.output]
    BY <1>1, PayloadsAreTyped DEF ReplyInv, MCOutputs
  <2>2. reply.level = STANDARD => Transform(p, reply.level) = ApplyStandard[p]
    BY DEF Transform, STANDARD, MINIMAL, CONDENSED, EXPANDED, FULL
  <2>3. reply.level = MINIMAL => Transform(p, reply.level) = ApplyMinimal(p)
    BY DEF Transform, STANDARD, MINIMAL, CONDENSED, EXPANDED, FULL
  <2> QED BY <2>1, <2>2, <2>3, StandardCaps, MinimalIsFlat
<1> QED BY <1>1, ReplyInvariance, PTL

=============================================================================
