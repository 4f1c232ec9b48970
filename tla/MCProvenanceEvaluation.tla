------------------------ MODULE MCProvenanceEvaluation -----------------------
(***************************************************************************)
(* Small circuits for the evaluation: sums, products and differences with  *)
(* repeated wires and constants, and comparisons of every aggregate over   *)
(* private, joined, united and repeated contributors.                      *)
(***************************************************************************)
EXTENDS ProvenanceEvaluation

Label(x) == {{x}}
Monomial(x) == SetToBag({SetToBag({x})})

Named(name, leaf) == [name |-> name, leaf |-> leaf, unmapped |-> {}, points |-> 0..3]

MCboolean == Named("boolean", <<TRUE, FALSE>>)
MCcounting == Named("counting", <<2, 1, 3>>)
MCtropical == Named("tropical", <<<<-1>>, <<2>>, <<1>>>>)
MCtropical_nonneg == Named("tropical_nonneg", <<<<1>>, <<2>>, <<0>>>>)
MCviterbi == Named("viterbi", <<<<1, 2>>, <<1, 3>>>>)
MClukasiewicz == Named("lukasiewicz", <<<<1, 2>>, <<3, 4>>>>)
MCminmax == Named("minmax", <<0, 1, 2>>)
MCmaxmin == Named("maxmin", <<0, 1, 2>>)
MCwhy == Named("why", <<Label("x"), Label("y"), Label("z")>>)
MCwhich == Named("which", <<Label("x"), Label("y"), Label("z")>>)
MChow == Named("how", <<Monomial("x"), Monomial("y")>>)
MCinterval == Named("interval_union", <<{0, 1}, {1, 2}, {2, 3}>>)

Every == {MCboolean, MCcounting, MCtropical, MCtropical_nonneg, MCviterbi, MClukasiewicz,
          MCminmax, MCmaxmin, MCwhy, MCwhich, MChow, MCinterval}
SetLike == {MCboolean, MCinterval}
Partly == {[MCcounting EXCEPT !.unmapped = {1}], MCboolean, MCtropical_nonneg, MCwhy}

In(p) == [Gate("input", <<>>) EXCEPT !.prob = p]
Half == In(<<1, 2>>)
Third == In(<<1, 3>>)
Plus_(w) == Gate("plus", w)
Times_(w) == Gate("times", w)
Monus_(w) == Gate("monus", w)
Assumed(x, on) == [Gate("assumed", <<on>>) EXCEPT !.op = x]

-----------------------------------------------------------------------------
(* Circuits without a comparison.                                          *)
Inner == {Plus_(<<1, 2>>), Plus_(<<1, 1>>), Plus_(<<1, 3>>), Plus_(<<2, 4>>), Plus_(<<1, 6>>),
          Times_(<<1, 2>>), Times_(<<1, 1>>), Times_(<<1, 3>>), Times_(<<2, 4>>)}
Outer == {Gate(t, w) : t \in {"plus", "times", "monus"}, w \in {<<5, 1>>, <<5, 5>>, <<1, 5>>}}
Root == {Gate(t, w) : t \in {"plus", "times"}, w \in {<<7, 2>>, <<7, 5>>}}

FoldCircuits ==
  {Circuit(<<Half, Third, Gate("one", <<>>), Gate("zero", <<>>), i, Times_(<<1, 2>>), o, r>>, 8) :
     i \in Inner, o \in Outer, r \in Root}

AssumedCircuits ==
  {Circuit(<<Half, Third, Plus_(<<1, 2>>), Assumed(x, 3), Times_(<<4, 1>>)>>, 5) :
     x \in {"boolean", "absorptive"}}

-----------------------------------------------------------------------------
(* A comparison over the contributors "ks" among the gates "base".         *)
Agg(kind, aggtype, scalar) == [kind |-> kind, aggtype |-> aggtype, scalar |-> scalar]
Int_(n) == <<<<n, 0>>>>

Value(extra) == [Gate("value", <<>>) EXCEPT !.extra = extra]
CmpGate(op, l, r) == [Gate("cmp", <<l, r>>) EXCEPT !.op = op]

\* the aggregate is the last gate
WithAgg(base, ks, agg, vals) ==
  LET n == Len(base)
      m == Len(ks)
      values == [i \in 1..m |-> Value(vals[i])]
      semimods == [i \in 1..m |-> Gate("semimod", <<ks[i], n + i>>)]
  IN  base \o values \o semimods \o
      <<[Gate("agg", [i \in 1..m |-> n + m + i]) EXCEPT !.op = agg.kind, !.aggtype = agg.aggtype,
                                                       !.scalar = agg.scalar]>>

\* compared with a constant, on the right or on the left
Having(base, ks, agg, vals, op, C, flip) ==
  LET g == WithAgg(base, ks, agg, vals)
      n == Len(g)
      const == <<Gate("one", <<>>), Value(C), Gate("semimod", <<n + 1, n + 2>>)>>
  IN  Circuit(g \o const \o <<IF flip THEN CmpGate(flip_op(op), n + 3, n)
                              ELSE CmpGate(op, n, n + 3)>>, n + 4)

Ops == {"=", "<>", "<", "<=", ">", ">="}
Bases ==
  [private |-> [base |-> <<Half, Third, Half>>, ks |-> <<1, 2, 3>>],
   joined  |-> [base |-> <<Half, Third, Half, Times_(<<1, 2>>), Times_(<<1, 3>>)>>, ks |-> <<4, 5>>],
   grid    |-> [base |-> <<Half, Third, Half, Third, Times_(<<1, 3>>), Times_(<<1, 4>>),
                           Times_(<<2, 3>>), Times_(<<2, 4>>)>>, ks |-> <<5, 6, 7, 8>>],
   partial |-> [base |-> <<Half, Third, Half, Third, Times_(<<1, 3>>), Times_(<<1, 4>>),
                           Times_(<<2, 3>>)>>, ks |-> <<5, 6, 7>>],
   united  |-> [base |-> <<Half, Third, Half, Third, Plus_(<<1, 2>>), Monus_(<<3, 4>>)>>,
                ks |-> <<5, 6>>],
   mixed   |-> [base |-> <<Half, Third, Half, Third, Plus_(<<1, 2>>), Times_(<<1, 4>>)>>,
                ks |-> <<5, 3, 6>>],
   certain |-> [base |-> <<Half, Gate("one", <<>>), Third>>, ks |-> <<1, 2, 3>>],
   twice   |-> [base |-> <<Half, Third>>, ks |-> <<1, 1, 2>>],
   repaired |-> [base |-> <<Half, [Gate("mulinput", <<1>>) EXCEPT !.prob = <<1, 4>>],
                            [Gate("mulinput", <<1>>) EXCEPT !.prob = <<1, 2>>], Third>>,
                 ks |-> <<2, 3, 4>>]]

Ones(b) == [i \in DOMAIN Bases[b].ks |-> Int_(1)]
Values(b) == [i \in DOMAIN Bases[b].ks |-> Int_(<<2, 1, 3, 2>>[i])]
Flags(b) == [i \in DOMAIN Bases[b].ks |-> Int_(<<1, 0, 1, 1>>[i])]

On(b, agg, vals, op, C, flip) == Having(Bases[b].base, Bases[b].ks, agg, vals, op, C, flip)

Case(circuit, semirings) == [circuit |-> circuit, semirings |-> semirings]
SemiringsOf(b) == IF b \in {"twice", "mixed"} THEN SetLike
                  ELSE IF b = "repaired" THEN {}
                  ELSE IF b = "private" THEN Every
                  ELSE {MCboolean, MCcounting, MClukasiewicz, MCwhich}

CountCases ==
  {Case(On(b, Agg("count", "int", scalar), Ones(b), op, Int_(C), FALSE), SemiringsOf(b)) :
     b \in DOMAIN Bases, op \in Ops, C \in {0, 2}, scalar \in BOOLEAN}

(* Every two inputs of different factors meet, and half of the             *)
(* combinations are missing.                                               *)
Latin == Having(<<Half, Third, Half, Third, Half, Third, Times_(<<1, 3, 5>>), Times_(<<1, 4, 6>>),
                  Times_(<<2, 3, 6>>), Times_(<<2, 4, 5>>)>>,
                <<7, 8, 9, 10>>, Agg("count", "int", FALSE), [i \in 1..4 |-> Int_(1)],
                ">=", Int_(2), FALSE)

(* The values of a sum set apart by "<>" are not asked of the semirings    *)
(* that absorb, nor over the four contributors of the grid: see README.    *)
NonAbsorptive == {MCboolean, MCinterval, MCcounting, MCtropical, MCwhy, MCwhich, MChow}
SumSemirings(b, op) == SemiringsOf(b) \cap (IF op = "<>" THEN NonAbsorptive ELSE Every)
SumOps(b) == IF b = "grid" THEN Ops \ {"<>"} ELSE Ops

SumCases ==
  UNION {{Case(On(b, Agg(kind, "int", FALSE), Values(b), op, Int_(3), flip), SumSemirings(b, op)) :
            kind \in {"sum", "avg"}, op \in SumOps(b), flip \in BOOLEAN} : b \in DOMAIN Bases}
FlagCases ==
  UNION {{Case(On(b, Agg("count", "int", FALSE), Flags(b), op, Int_(C), FALSE), SumSemirings(b, op)) :
            op \in SumOps(b), C \in {0, 1}} : b \in DOMAIN Bases}

ExtremeCases ==
  {Case(On(b, Agg(kind, "int", FALSE), Values(b), op, Int_(2), FALSE), SemiringsOf(b)) :
     b \in DOMAIN Bases, kind \in {"min", "max"}, op \in Ops}

\* two decimals of different scales
Decimals == <<<<<<15, 1>>>>, <<<<-150, 2>>>>, <<<<2, 0>>>>>>
DecimalCases ==
  {Case(On("private", Agg(kind, "numeric", FALSE), Decimals, op, <<<<C, 2>>>>, FALSE), Every) :
     kind \in {"sum", "max", "min", "avg", "choose"}, op \in {">=", "<", "="}, C \in {50, 150}}

-----------------------------------------------------------------------------
(* Aggregates of other types, and arithmetic over aggregates.              *)
Text(code) == <<<<code, -1>>>>
Telescoping == {MCboolean, MCinterval, MCtropical_nonneg, MCviterbi, MCmaxmin, MCminmax}

TextCases ==
  {Case(On(b, Agg("choose", "text", FALSE), <<Text(1), Text(2), Text(1)>>, op, Text(C), FALSE),
        Telescoping \cap SemiringsOf(b)) :
     b \in {"private", "certain", "mixed"}, op \in {"=", "<>"}, C \in {1, 2}}

TruthCases ==
  {Case(On(b, Agg(kind, "bool", FALSE), <<<<TrueText>>, <<FalseText>>, <<TrueText>>>>, op, <<C>>, FALSE),
        Telescoping \cap SemiringsOf(b)) :
     b \in {"private", "certain", "mixed"}, kind \in {"bool_or", "bool_and"}, op \in {"=", "<>"},
     C \in {TrueText, FalseText}}

ArrayCases ==
  {Case(On(b, Agg("array_agg", "int", FALSE), Values(b), op, <<<<2, 0>>, <<3, 0>>>>, FALSE),
        SemiringsOf(b)) : b \in {"private", "certain", "mixed"}, op \in {"=", "<>"}}

\* sum(x) - C, or sum(x) / C, compared with 1
ArithOf(b, arith, op) ==
  LET g == WithAgg(Bases[b].base, Bases[b].ks, Agg("sum", "int", FALSE), Values(b))
      n == Len(g)
  IN  Circuit(g \o <<Value(Int_(2)), [Gate("arith", <<n, n + 1>>) EXCEPT !.op = arith],
                     Value(Int_(1)), CmpGate(op, n + 2, n + 3)>>, n + 4)

\* sum(x) compared with a count over the same contributors
TwoAggs(b, op) ==
  LET g == WithAgg(Bases[b].base, Bases[b].ks, Agg("sum", "int", FALSE), Values(b))
      h == WithAgg(g, Bases[b].ks, Agg("count", "int", FALSE), Ones(b))
  IN  Circuit(Append(h, CmpGate(op, Len(g), Len(h))), Len(h) + 1)

ArithCases ==
  {Case(ArithOf(b, arith, op), SemiringsOf(b)) :
     b \in {"private", "united", "mixed"}, arith \in {"minus", "div"}, op \in Ops} \cup
  {Case(TwoAggs(b, op), SemiringsOf(b)) : b \in {"private", "united", "mixed"}, op \in Ops}

(* A comparison in a product with an input it is over, or with another.    *)
Within(c, g) == Circuit(c.gates \o <<Times_(<<c.root, g>>), Plus_(<<Len(c.gates) + 1, g>>)>>,
                        Len(c.gates) + 2)
WithinCases ==
  {Case(Within(On(b, Agg(kind, "int", FALSE), IF kind = "count" THEN Ones(b) ELSE Values(b), op,
                  Int_(2), FALSE), 1), SemiringsOf(b)) :
     b \in {"private", "joined", "united"}, kind \in {"count", "sum", "max"}, op \in {"=", ">=", "<"}}

Folding == {MCboolean, MCcounting, MCtropical_nonneg, MClukasiewicz, MCwhich, MChow}

MCCases ==
  LET of(circuits, parts) == {Case(c, parts) : c \in circuits}
  IN  of({Latin}, SetLike) \cup of(FoldCircuits, Folding) \cup of(AssumedCircuits, Every \cup Partly)
        \cup CountCases \cup SumCases \cup FlagCases \cup ExtremeCases \cup DecimalCases
        \cup TextCases \cup TruthCases \cup ArrayCases \cup ArithCases \cup WithinCases

-----------------------------------------------------------------------------
(* The circuits of the run that ends in a violation: a sum compared with a *)
(* constant over four contributors.                                        *)
Four == <<Half, Third, Half, Third>>
FourValues == <<Int_(2), Int_(1), Int_(3), Int_(2)>>
MCUpset ==
  LET sum == Agg("sum", "int", FALSE)
  IN  {Case(Having(Four, <<1, 2, 3, 4>>, sum, FourValues, op, Int_(C), FALSE), SetLike) : op \in Ops, C \in 2..4}
=============================================================================
