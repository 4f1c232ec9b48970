-------------------------- MODULE TreeDecomposition -------------------------
(***************************************************************************)
(* A tree decomposition of the graph of a circuit by greedy elimination,   *)
(* its transformation into a friendly one, and the d-DNNF built bottom-up  *)
(* over it: for every bag, one gate per pair of a valuation of the bag and *)
(* a set of gates whose value something below already justifies.           *)
(***************************************************************************)
EXTENDS DDNNF

CONSTANT MAX_TREEWIDTH

ASSUME WidthAssumption == MAX_TREEWIDTH \in Nat

(* The undirected graph of the wires.                                      *)
Graph(c) ==
  LET nodes == {g \in DOMAIN c : c[g].type # "MULVAR"}
      edge(a, b) == \E i \in DOMAIN c[a].wires : c[a].wires[i] = b
  IN  Computed([n \in nodes |-> {m \in nodes \ {n} : edge(n, m) \/ edge(m, n)}])

(* Degeneracy: repeatedly remove a node of smallest degree; the largest    *)
(* degree met.  A lower bound of the treewidth.                            *)
RECURSIVE degeneracyLowerBound(_)
degeneracyLowerBound(graph) ==
  LET deg(n) == Cardinality(graph[n])
      v == CHOOSE n \in DOMAIN graph :
             \A m \in DOMAIN graph : deg(n) < deg(m) \/ (deg(n) = deg(m) /\ n <= m)
  IN  IF DOMAIN graph = {} THEN 0
      ELSE Max({deg(v), degeneracyLowerBound(
                          Computed([n \in DOMAIN graph \ {v} |-> graph[n] \ {v}]))})

(* Eliminate the node of smallest degree, smallest id first: its bag is    *)
(* itself and its neighbours, which become a clique.                       *)
get_next(graph) ==
  CHOOSE n \in DOMAIN graph : \A m \in DOMAIN graph :
    \/ Cardinality(graph[n]) < Cardinality(graph[m])
    \/ Cardinality(graph[n]) = Cardinality(graph[m]) /\ n <= m

fill(graph, node) ==
  Computed([n \in DOMAIN graph \ {node} |->
     (IF n \in graph[node] THEN graph[n] \cup graph[node] ELSE graph[n]) \ {node, n}])

RECURSIVE Eliminate(_, _, _, _)
Eliminate(graph, bags, nodes, width) ==
  LET node == get_next(graph)
      w == Max({width, Cardinality(graph[node])})
  IN  IF width >= Cardinality(DOMAIN graph) \/ DOMAIN graph = {}
        THEN [bags |-> IF DOMAIN graph = {} THEN bags ELSE Append(bags, DOMAIN graph),
              nodes |-> nodes, bad |-> Cardinality(DOMAIN graph) > MAX_TREEWIDTH]
      ELSE IF w > MAX_TREEWIDTH THEN [bags |-> <<>>, nodes |-> <<>>, bad |-> TRUE]
      ELSE Eliminate(fill(graph, node), Append(bags, graph[node] \cup {node}),
                     Append(nodes, node), w)

(* The parent of a bag: the earliest later-eliminated node of the bag, or  *)
(* the last bag, which is the root.                                        *)
Decompose(graph) ==
  LET e == Eliminate(graph, <<>>, <<>>, 0)
      n == Len(e.bags)
      id(x) == CHOOSE i \in DOMAIN e.nodes : e.nodes[i] = x
      up(i) == Min({n} \cup {id(x) : x \in (e.bags[i] \cap ToSet(e.nodes)) \ {e.nodes[i]}})
      parent == Listed([i \in 1..n |-> IF i = n THEN n ELSE up(i)])
  IN  [bags |-> e.bags, parent |-> parent, root |-> n, bad |-> e.bad,
       children |-> Listed([p \in 1..n |-> SelectSeq([i \in 1..(n - 1) |-> i],
                                                     LAMBDA i : parent[i] = p)])]

-----------------------------------------------------------------------------
(* Friendly decompositions: at most two children, leaves with one gate,    *)
(* every gate of an inner bag in a child, and the root bag {root gate}.    *)

addEmptyBag(td, p, ch) ==
  LET id == Len(td.bags) + 1
      linked == [td EXCEPT !.bags = Append(@, {}), !.parent = Append(@, p),
                           !.children = Append([@ EXCEPT ![p] = Append(@, id)], ch)]
      Adopt(t, b) ==
        LET freed == IF b = t.root THEN t
                     ELSE [t EXCEPT !.children[t.parent[b]] = Remove(@, b)]
        IN  [freed EXCEPT !.parent[b] = id]
  IN  Steps(Adopt, linked, ch)

NewBag(td) == Len(td.bags) + 1

addGateToBag(td, g, b) == [td EXCEPT !.bags[b] = @ \cup {g}]

(* Reverse the parent links from the bag to the old root.                  *)
RECURSIVE RootPath(_, _)
RootPath(td, b) == IF b = td.root THEN <<b>> ELSE <<b>> \o RootPath(td, td.parent[b])

reroot(td, bag) ==
  LET path == RootPath(td, bag)
      pos(b) == CHOOSE i \in DOMAIN path : path[i] = b
      onPath == ToSet(path)
      Kids(b) == IF b \notin onPath THEN td.children[b]
                 ELSE LET below == IF pos(b) = 1 THEN td.children[b]
                                   ELSE Remove(td.children[b], path[pos(b) - 1])
                      IN  IF pos(b) = Len(path) THEN below
                          ELSE Append(below, path[pos(b) + 1])
  IN  [td EXCEPT !.root = bag,
         !.parent = Listed([b \in DOMAIN @ |-> IF b \notin onPath THEN @[b]
                             ELSE IF b = bag THEN bag ELSE path[pos(b) - 1]]),
         !.children = Listed([b \in DOMAIN @ |-> Kids(b)])]

findGateConnection(td, v) ==
  IF \E b \in DOMAIN td.bags : v \in td.bags[b]
    THEN Min({b \in DOMAIN td.bags : v \in td.bags[b]}) ELSE td.root

(* A bag with k > 2 children: k - 2 copies of it above, one child each.    *)
BinariseBag(td, i) ==
  LET cc == td.children[i]
      Above(s, j) ==
        LET t == addEmptyBag(s.td, s.td.parent[s.at], <<s.at, cc[j]>>)
        IN  [td |-> [t EXCEPT !.bags[NewBag(s.td)] = td.bags[i]], at |-> NewBag(s.td)]
  IN  IF Len(cc) <= 2 THEN td
      ELSE Steps(Above, [td |-> td, at |-> i], Reverse([j \in 1..(Len(cc) - 2) |-> j])).td

(* A leaf with several gates: a chain of bags below, one gate fewer each.  *)
LeafChain(td, i) ==
  LET gs == SortedSeq(td.bags[i], <)
      Below(s, j) ==
        LET t == addEmptyBag(s.td, s.at, <<>>)
        IN  [td |-> [t EXCEPT !.bags[NewBag(s.td)] = {gs[k] : k \in 1..(Len(gs) - j)}],
             at |-> NewBag(s.td)]
  IN  IF td.children[i] # <<>> THEN td
      ELSE Steps(Below, [td |-> td, at |-> i], [j \in 1..(Len(gs) - 1) |-> j]).td

(* Gates of an inner bag that are in no child get a leaf of their own.     *)
IntroduceExtra(td, i, inChildren) ==
  LET extra == SortedSeq(td.bags[i] \ inChildren, <)
      inter == td.bags[i] \cap inChildren
      cut == [td EXCEPT !.bags[i] = inter]
      lone == Len(td.children[i]) = 1 /\ Cardinality(inter) = Cardinality(inChildren)
      last == extra[Len(extra)]
      leafed == addGateToBag(addGateToBag(addEmptyBag(cut, i, <<>>), last, NewBag(cut)), last, i)
      Above(s, g) ==
        LET a == addEmptyBag(s.td, s.td.parent[s.at], <<s.at>>)
            id == NewBag(s.td)
            b == addEmptyBag([a EXCEPT !.bags[id] = a.bags[s.at] \cup {g}], id, <<>>)
        IN  [td |-> addGateToBag(b, g, NewBag(a)), at |-> id]
  IN  IF extra = <<>> \/ td.children[i] = <<>> THEN td
      ELSE IF lone THEN Steps(Above, [td |-> leafed, at |-> i], Front(extra)).td
      ELSE Steps(Above, [td |-> cut, at |-> i], extra).td

OverBags(td, Op(_, _)) == Steps(Op, td, [i \in DOMAIN td.bags |-> i])

makeFriendly(td0, v) ==
  LET top == addEmptyBag(td0, findGateConnection(td0, v), <<>>)
      rooted == reroot(addGateToBag(top, v, NewBag(td0)), NewBag(td0))
      binary == OverBags(rooted, BinariseBag)
      chained == OverBags(binary, LeafChain)
      inChildren == Listed([i \in DOMAIN chained.bags |->
                       UNION {chained.bags[chained.children[i][k]] :
                                k \in DOMAIN chained.children[i]}])
  IN  OverBags(chained, LAMBDA t, i : IntroduceExtra(t, i, inChildren[i]))

-----------------------------------------------------------------------------
(* The d-DNNF.  b = [gates, in, neg]: gates made so far, and the positive  *)
(* and negated literal of every input of the source circuit.               *)

isStrong(type, value) ==
  CASE type = "OR" -> value [] type = "AND" -> ~ value
    [] type = "IN" -> FALSE [] OTHER -> TRUE

circuitHasWire(c, f, t) == \E i \in DOMAIN c[f].wires : c[f].wires[i] = t

isConnectible_Always(suspicious, bag) == TRUE

isConnectible(suspicious, bag) == suspicious \subseteq bag

isAlmostValuation(c, val) ==
  \A p, q \in DOMAIN val :
    p # q /\ isStrong(c[p].type, val[q]) /\ circuitHasWire(c, p, q) =>
      /\ c[p].type \in {"AND", "OR"} => val[p] = val[q]
      /\ c[p].type = "NOT" => val[p] # val[q]

getInnocent(c, val, innocent) ==
  innocent \cup {g \in DOMAIN val :
    \/ ~ isStrong(c[g].type, val[g])
    \/ \E h \in DOMAIN val \ {g} : circuitHasWire(c, g, h) /\ isStrong(c[g].type, val[h])}

IsTrueGate(gates, g) == gates[g].type = "AND" /\ gates[g].wires = <<>>

(* The gates of a leaf bag: the literals of an input in its own leaf, TRUE *)
(* for each value of any other gate, FALSE excluded for the root.          *)
builddDNNFLeaf(c, root, td, b, bag) ==
  LET g == CHOOSE x \in td.bags[bag] : TRUE
      responsible == c[g].type = "IN" /\ \A i \in DOMAIN td.bags :
                       td.bags[i] = {g} /\ td.children[i] = <<>> => i <= bag
      n == Len(b.gates)
      values == IF g = root THEN <<TRUE>> ELSE <<TRUE, FALSE>>
      Val(v) == [x \in {g} |-> v]
  IN  IF td.bags[bag] = {} THEN [b |-> b, out |-> <<>>]
      ELSE IF responsible
        THEN [b |-> b, out |-> <<[id |-> b.in[g], val |-> Val(TRUE), sus |-> {}],
                                 [id |-> b.neg[g], val |-> Val(FALSE), sus |-> {}]>>]
      ELSE [b |-> [b EXCEPT !.gates = @ \o [i \in DOMAIN values |->
                                              NewGate("AND", <<>>, Q1, 0)]],
            out |-> [i \in DOMAIN values |->
                       [id |-> n + i, val |-> Val(values[i]),
                        sus |-> IF isStrong(c[g].type, values[i]) THEN {g} ELSE {}]]]

(* Conjunction of two gates, leaving out a TRUE.                           *)
Conjoin(b, g, h) ==
  CASE IsTrueGate(b.gates, g) /\ IsTrueGate(b.gates, h) -> [b |-> b, g |-> g]
    [] IsTrueGate(b.gates, g) /\ ~ IsTrueGate(b.gates, h) -> [b |-> b, g |-> h]
    [] ~ IsTrueGate(b.gates, g) /\ IsTrueGate(b.gates, h) -> [b |-> b, g |-> g]
    [] OTHER -> [b |-> [b EXCEPT !.gates = Append(@, NewGate("AND", <<g, h>>, Q1, 0))],
                 g |-> Len(b.gates) + 1]

(* Join the gates of one child into the partial result of the bag: entries *)
(* [val, inn] -> set of gates.                                             *)
AddTo(m, key, g) ==
  Computed([k \in DOMAIN m \cup {key} |-> (IF k \in DOMAIN m THEN m[k] ELSE {})
                                          \cup (IF k = key THEN {g} ELSE {})])

collectGatesToOr(c, b, bag, childGates, partial) ==
  LET entries == ListOf(DOMAIN partial)
      JoinEntry(g, s, e) ==
        LET common == DOMAIN e.val \cap DOMAIN g.val
            mine == DOMAIN g.val \cap bag
            val == Computed([x \in DOMAIN e.val \cup mine |->
                               IF x \in DOMAIN e.val THEN e.val[x] ELSE g.val[x]])
            key == [val |-> val, inn |-> getInnocent(c, val, e.inn \cup (mine \ g.sus))]
            gates2 == SortedSeq(partial[e], <)
            One(t, h) == LET r == Conjoin(t.b, g.id, h)
                         IN  [b |-> r.b, m |-> AddTo(t.m, key, r.g)]
        IN  IF (\E x \in common : e.val[x] # g.val[x]) \/ ~ isAlmostValuation(c, val) THEN s
            ELSE IF partial[e] = {} THEN [s EXCEPT !.m = AddTo(@, key, g.id)]
            ELSE Steps(One, s, gates2)
      JoinGate(s, g) == IF ~ isConnectible(g.sus, bag) THEN s
                        ELSE Steps(LAMBDA t, e : JoinEntry(g, t, e), s, entries)
  IN  Steps(JoinGate, [b |-> b, m |-> <<>>], childGates)

NoValuation == [x \in {} |-> TRUE]

RECURSIVE builddDNNF(_, _, _, _, _)
builddDNNF(c, root, td, b, bag) ==
  LET start == [b |-> b, m |-> [k \in {[val |-> NoValuation, inn |-> {}]} |-> {}]]
      Join(s, ch) == LET r == builddDNNF(c, root, td, s.b, ch)
                     IN  collectGatesToOr(c, r.b, td.bags[bag], r.out, s.m)
      joined == Steps(Join, start, td.children[bag])
      Close(s, k) ==
        LET gs == joined.m[k]
            one == Cardinality(gs) = 1
        IN  [b |-> IF one THEN s.b
                   ELSE [s.b EXCEPT !.gates = Append(@,
                           NewGate("OR", SortedSeq(gs, <), Q1, 0))],
             out |-> Append(s.out,
                       [id |-> IF one THEN Min(gs) ELSE Len(s.b.gates) + 1,
                        val |-> k.val, sus |-> DOMAIN k.val \ k.inn])]
  IN  IF td.children[bag] = <<>> THEN builddDNNFLeaf(c, root, td, b, bag)
      ELSE Steps(Close, [b |-> joined.b, out |-> <<>>], ListOf(DOMAIN joined.m))

(* The literals of all inputs, then the gates, then an OR over the gate    *)
(* of the root bag in which the root is true and justified, if any.        *)
build(c, root, td0) ==
  LET td == makeFriendly(td0, root)
      ins == SortedSeq(Inputs(c), <)
      pos(g) == 2 * (CHOOSE i \in DOMAIN ins : ins[i] = g) - 1
      lits == Listed([k \in 1..(2 * Len(ins)) |->
                 LET g == ins[(k + 1) \div 2]
                 IN  IF k % 2 = 1 THEN NewGate("IN", <<>>, c[g].prob, g)
                     ELSE NewGate("NOT", <<k - 1>>, Q1, 0)])
      b == [gates |-> lits, in |-> [g \in Inputs(c) |-> pos(g)],
            neg |-> [g \in Inputs(c) |-> pos(g) + 1]]
      r == builddDNNF(c, root, td, b, td.root)
      good == {i \in DOMAIN r.out : r.out[i].sus = {} /\ r.out[i].val[root]}
      ws == IF good = {} THEN <<>> ELSE <<r.out[Min(good)].id>>
  IN  simplify([gates |-> Append(r.b.gates, NewGate("OR", ws, Q1, 0)),
                root |-> Len(r.b.gates) + 1])

treeDecompositionDD(c, root) ==
  LET td == Decompose(Graph(c)) IN IF td.bad THEN NoDD ELSE build(c, root, td)

-----------------------------------------------------------------------------
(* Reference: what makes bags and links a decomposition of a graph, and    *)
(* what the builder needs of a friendly one.                               *)
RECURSIVE Below(_, _)
Below(td, b) == {b} \cup UNION {Below(td, td.children[b][k]) : k \in DOMAIN td.children[b]}

IsDecomposition(td, graph) ==
  /\ Below(td, td.root) = DOMAIN td.bags
  /\ \A b \in DOMAIN td.bags : \A k \in DOMAIN td.children[b] : td.parent[td.children[b][k]] = b
  /\ \A n \in DOMAIN graph : \A m \in graph[n] : \E b \in DOMAIN td.bags : {n, m} \subseteq td.bags[b]
  /\ \A n \in DOMAIN graph : \* the bags of a gate are connected: one of them is on top
       Cardinality({b \in DOMAIN td.bags : n \in td.bags[b]
                      /\ (b = td.root \/ n \notin td.bags[td.parent[b]])}) = 1

IsFriendly(td, root) ==
  /\ td.bags[td.root] = {root}
  /\ \A b \in DOMAIN td.bags :
       /\ Len(td.children[b]) <= 2
       /\ td.children[b] = <<>> => Cardinality(td.bags[b]) <= 1
       /\ td.children[b] # <<>> =>
            td.bags[b] \subseteq UNION {td.bags[td.children[b][k]] : k \in DOMAIN td.children[b]}
=============================================================================
