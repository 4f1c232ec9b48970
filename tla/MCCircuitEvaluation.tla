------------------------- MODULE MCCircuitEvaluation ------------------------
EXTENDS CircuitEvaluation

Half == Q(1, 2)
In(u, p) == NewGate("IN", <<>>, p, u)
Op(type, ws) == NewGate(type, ws, Q1, 0)
Cert(type, ws) == [Op(type, ws) EXCEPT !.info = DNNF_CERT_INFO]
Mulvar == NewGate("IN", <<>>, Q1, 9)
Mulin(var, p, i) == [NewGate("MULIN", <<var>>, p, 0) EXCEPT !.info = i]

AndOr == {"AND", "OR"}
Circuit(gates) == [gates |-> gates, root |-> Len(gates)]

(* Three inputs, certain ones included, and three gates: the first over    *)
(* the first inputs, the second over any pair below, the last over the     *)
(* second and any other.                                                   *)
Uncertain == <<In(1, Half), In(2, Q(1, 3)), In(3, Q(2, 5))>>
PartlyCertain == <<In(1, Q1), In(2, Q(1, 3)), In(3, Q0)>>

First == {Op("AND", <<1, 2>>), Op("OR", <<1, 2>>)}
Second == {Op(t, <<2, 3>>) : t \in AndOr} \cup {Op(t, <<3, 4>>) : t \in AndOr} \cup {Op("NOT", <<4>>)}
RootGate == {Op(t, <<a, 5>>) : t \in AndOr, a \in {1, 4}} \cup {Op("NOT", <<5>>)}

Plain == {Circuit(Uncertain \o <<g, h, r>>) : g \in First, h \in Second, r \in RootGate}
Certainly == {Circuit(PartlyCertain \o <<g, h, Op("OR", <<1, 5>>)>>) :
                g \in First, h \in Second}

(* A block of two alternatives of total below 1, one of three of total 1,  *)
(* and an input.                                                           *)
Block2 == <<Mulvar, Mulin(1, Q(1, 3), 1), Mulin(1, Half, 2), In(1, Q(2, 5))>>
Block3 == <<Mulvar, Mulin(1, Q(1, 3), 1), Mulin(1, Half, 2), Mulin(1, Q(1, 6), 3)>>
Multivalued ==
  {Circuit(b \o <<Op("OR", <<2, 3>>), Op(t, <<4, 5>>)>>) : b \in {Block2, Block3}, t \in AndOr}
  \cup {Circuit(Block3 \o <<Op("OR", <<2, 3, 4>>), Op("NOT", <<5>>)>>),
        Circuit(Block2 \o <<Op("OR", <<2, 3, 4>>), Op("AND", <<2, 5>>)>>)}

(* Certified decisions on x, over branches that may share inputs.          *)
Decision(x, hi, lo) ==      \* gates 4..7
  <<Op("NOT", <<x>>), Cert("AND", <<x, hi>>), Cert("AND", <<4, lo>>), Cert("OR", <<5, 6>>)>>
Certified ==
  {Circuit(Uncertain \o Decision(1, 2, b) \o <<Op("AND", <<a, 7>>)>>) :
     a \in {1, 3}, b \in {2, 3}}
  \cup {Circuit(Uncertain \o Decision(1, 2, 3))}

(* More inputs than the worlds may be enumerated for.                      *)
Larger == {Circuit(Uncertain \o <<In(4, Half), Op("AND", <<1, 2>>), Op("NOT", <<5>>),
                                  Op(t, <<3, 4, 5>>), Op("OR", <<1, 6, 7>>)>>) : t \in AndOr}

MCCircuits == Larger \cup Plain \cup Certainly \cup Multivalued \cup Certified
MCTolerances == {[kind |-> "exact", eps |-> Q0, sampled |-> FALSE],
                 [kind |-> "additive", eps |-> Q(1, 10), sampled |-> FALSE],
                 [kind |-> "relative", eps |-> Q(1, 5), sampled |-> TRUE]}

-----------------------------------------------------------------------------
(* Edge relations: a cycle, a diamond, a block, a token for both           *)
(* directions with a self-loop, a path, a star with a chord, and what is   *)
(* refused: a token on two edges, a relation too wide.                     *)
Prob(t) == Q(1, 1 + t)
Edge(u, v, t) == [src |-> u, dst |-> v, token |-> t, prob |-> Prob(t), block |-> 0, index |-> 0]
Alt(u, v, t, k, i) == [Edge(u, v, t) EXCEPT !.block = k, !.index = i, !.prob = Q(1, 3)]
SourceAt(v, t) == [vertex |-> v, token |-> t, prob |-> IF t = 0 THEN Q1 ELSE Prob(t)]
Pairs(k) == SortedSeq({<<i, j>> \in (1..k) \X (1..k) : i < j},
                      LAMBDA a, b : 10 * a[1] + a[2] < 10 * b[1] + b[2])
Clique(k) == [n \in DOMAIN Pairs(k) |-> Edge(Pairs(k)[n][1], Pairs(k)[n][2], n)]

Loose ==
  {<<Edge(1, 2, 1), Edge(2, 3, 2), Edge(3, 1, 3)>>,
   <<Edge(1, 2, 1), Edge(1, 3, 2), Edge(2, 4, 3), Edge(3, 4, 4)>>,
   <<Edge(1, 2, 1), Edge(2, 1, 1), Edge(2, 2, 2), Edge(2, 3, 3)>>,
   <<Edge(1, 2, 1), Edge(2, 3, 2), Edge(3, 4, 3), Edge(4, 5, 4)>>,
   <<Edge(1, 2, 1), Edge(1, 3, 2), Edge(1, 4, 3), Edge(4, 3, 4)>>}
Blocked == {<<Alt(1, 2, 1, 9, 1), Alt(1, 3, 2, 9, 2), Edge(3, 2, 3), Edge(2, 4, 4)>>}
Unfit == {<<Edge(1, 2, 1), Edge(2, 3, 1)>>, Clique(6)}

Sources == {<<SourceAt(1, 0), SourceAt(4, 7)>>, <<SourceAt(2, 6), SourceAt(1, 7)>>}

Query(kind, rows, from, directed, limit) ==
  [kind |-> kind, rows |-> rows, sources |-> from, target |-> 3, directed |-> directed,
   sets |-> <<{3}, {2, 4}, {3, 7}>>, bound |-> IF kind = "hops" THEN 3 ELSE 0, limit |-> limit]

MCQueries ==
  {Query(kind, rows, from, directed, 50) : kind \in {"all", "hops", "any", "cover"},
     rows \in Loose \cup Blocked, from \in Sources, directed \in BOOLEAN}
  \cup {Query("one", rows, <<SourceAt(1, 0)>>, directed, limit) :
           rows \in Loose \cup Unfit, directed \in BOOLEAN, limit \in {2, 50}}
=============================================================================
