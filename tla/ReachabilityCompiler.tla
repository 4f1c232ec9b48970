------------------------ MODULE ReachabilityCompiler ------------------------
(***************************************************************************)
(* Reachability over an uncertain edge relation, compiled along a tree     *)
(* decomposition of the data.  A node of the decomposition has a table     *)
(* from states to gates: the gate is true in the worlds in which the       *)
(* edges below (or above) the node put its vertices in that state.  The    *)
(* states of a table partition the worlds and every edge is introduced at  *)
(* one node, so the circuit is a d-D by construction.                      *)
(*                                                                         *)
(* A query is [kind, rows, sources, target, sets, directed, bound, limit]: *)
(* "one" target from one source vertex, "all" vertices, "hops" (walks of   *)
(* each length up to the bound), "any" or "cover": some or every member of *)
(* each set, from sources.  A row is [src, dst, token, prob, block, index],*)
(* block 0 for an independent one; a source [vertex, token, prob], token 0 *)
(* for a certain one.  The error of any stage is the value NoCircuit.      *)
(*                                                                         *)
(* A state is [rel, marked, pending]: the walks between the vertices of    *)
(* the domain with their lengths (all 0 unless hops are asked), those that *)
(* reach a member ("any"), and for each member left behind unreached the   *)
(* vertices it can still be reached from ("cover").  Vertices stand for    *)
(* their positions in the sorted domain.                                   *)
(***************************************************************************)
EXTENDS TreeDecomposition

tracks_lengths(q) == q.kind = "hops"
multi_sources(q) == q.kind # "one"

(* The virtual source, above every vertex, or the one vertex given.        *)
SourceOf(q) ==
  IF ~ multi_sources(q) THEN q.sources[1].vertex
  ELSE 1 + Max({0} \cup UNION {{q.rows[i].src, q.rows[i].dst} : i \in DOMAIN q.rows}
                   \cup {q.sources[i].vertex : i \in DOMAIN q.sources})

Both(u, v) == {<<u, v>>, <<v, u>>}

(* The arcs of a row: a self-loop matters to lengths only.                 *)
ArcsOf(q, r) ==
  IF r.src = r.dst THEN (IF tracks_lengths(q) THEN {<<r.src, r.dst>>} ELSE {})
  ELSE IF q.directed THEN {<<r.src, r.dst>>} ELSE Both(r.src, r.dst)

Alternatives_(q) == SelectSeq(q.rows, LAMBDA r : r.block # 0)
BlockTokens(q) == {Alternatives_(q)[i].token : i \in DOMAIN Alternatives_(q)}

(* Blocks of exclusive alternatives, in the order of their first row.      *)
EdgeBlocks(q) ==
  LET Group(s, r) ==
        LET mine == {i \in DOMAIN s : s[i].key = r.block}
            alt == [token |-> r.token, prob |-> r.prob, index |-> r.index, arcs |-> ArcsOf(q, r)]
        IN  IF mine = {} THEN Append(s, [key |-> r.block, alts |-> <<alt>>])
            ELSE [s EXCEPT ![Min(mine)].alts = Append(@, alt)]
  IN  Steps(Group, <<>>, Alternatives_(q))

endpoints(block) ==
  UNION {ToSet(a) : a \in UNION {block.alts[i].arcs : i \in DOMAIN block.alts}}

(* One variable per token: the two directions of an edge may share one,    *)
(* any other sharing is refused.  s = [found, bad].                        *)
NewVariable(u, v, arcs, token, p, weight) ==
  [u |-> u, v |-> v, arcs |-> arcs, token |-> token, prob |-> p, weight |-> weight]

GroupEdge(q, s, r) ==
  LET mine == {i \in DOMAIN s.found : s.found[i].token = r.token}
      i == Min(mine)
      ends == <<s.found[i].u, s.found[i].v>>
      new == NewVariable(r.src, r.dst, ArcsOf(q, r), r.token, r.prob,
                         IF tracks_lengths(q) THEN 1 ELSE 0)
  IN  CASE r.token \in BlockTokens(q) -> [s EXCEPT !.bad = TRUE]
        [] r.token \notin BlockTokens(q) /\ mine = {} -> [s EXCEPT !.found = Append(@, new)]
        [] r.token \notin BlockTokens(q) /\ mine # {} ->
             IF ends = <<r.src, r.dst>> THEN s
             ELSE IF ends = <<r.dst, r.src>> THEN [s EXCEPT !.found[i].arcs = Both(r.src, r.dst)]
             ELSE [s EXCEPT !.bad = TRUE]

EdgeVariables(q) ==
  Steps(LAMBDA s, r : GroupEdge(q, s, r), [found |-> <<>>, bad |-> FALSE],
        SelectSeq(q.rows, LAMBDA r : r.block = 0 /\ (r.src # r.dst \/ tracks_lengths(q))))

(* An arc of length 0 from the virtual source to each source.              *)
GroupSource(q, edges, s, a) ==
  LET mine == {i \in DOMAIN s.found : s.found[i].token = a.token
                                      /\ (a.token = 0 => s.found[i].v = a.vertex)}
      from == SourceOf(q)
      new == NewVariable(from, a.vertex, {<<from, a.vertex>>}, a.token, a.prob, 0)
  IN  IF a.token # 0 /\ (\/ \E i \in DOMAIN edges : edges[i].token = a.token
                         \/ \E i \in mine : s.found[i].v # a.vertex)
        THEN [s EXCEPT !.bad = TRUE]
      ELSE IF mine # {} THEN s ELSE [s EXCEPT !.found = Append(@, new)]

SourceVariables(q, edges) ==
  IF ~ multi_sources(q) THEN [found |-> <<>>, bad |-> FALSE]
  ELSE Steps(LAMBDA s, a : GroupSource(q, edges, s, a), [found |-> <<>>, bad |-> FALSE], q.sources)

(* The graph of the data: the endpoints of a block are a clique, so that   *)
(* some bag holds them all.                                                *)
DataGraph(q, variables, blocks) ==
  LET links == {{variables[i].u, variables[i].v} : i \in DOMAIN variables}
               \cup {endpoints(blocks[i]) : i \in DOMAIN blocks}
      nodes == {SourceOf(q)} \cup UNION links \cup (IF q.kind = "one" THEN {q.target} ELSE {})
  IN  Computed([n \in nodes |-> UNION {l \in links : n \in l} \ {n}])

(* What the sweeps share.  A vertex is eliminated into the last bag that   *)
(* holds it; a variable or a block is introduced at the bag of the first   *)
(* of its endpoints to go.  A domain is a bag and the source.              *)
Prelude(q) ==
  LET blocks == EdgeBlocks(q)
      edges == EdgeVariables(q)
      arcs == SourceVariables(q, edges.found)
      variables == edges.found \o arcs.found
      graph == DataGraph(q, variables, blocks)
      td == Decompose(graph)
      home == Computed([v \in DOMAIN graph |->
                          Max({0} \cup {b \in DOMAIN td.bags : v \in td.bags[b]})])
      First(vs) == Min({home[v] : v \in vs})
  IN  [q |-> q, td |-> td, source |-> SourceOf(q), home |-> home,
       bad |-> \/ edges.bad \/ arcs.bad \/ td.bad
               \/ Cardinality(BlockTokens(q)) # Len(Alternatives_(q)),
       domain |-> Listed([b \in DOMAIN td.bags |-> td.bags[b] \cup {SourceOf(q)}]),
       variables |-> Listed([b \in DOMAIN td.bags |->
                        SelectSeq(variables, LAMBDA x : First({x.u, x.v}) = b)]),
       blocks |-> Listed([b \in DOMAIN td.bags |->
                     SelectSeq(blocks, LAMBDA k : endpoints(k) # {} /\ First(endpoints(k)) = b)])]

-----------------------------------------------------------------------------
(* Gates.  b = [c, many, over]: the circuit, whether several sets share it *)
(* (AND and OR gates are then made once per content), and whether a table  *)
(* grew over the limit.  A literal is made when it is first needed.        *)
TrueGate == 1

Certify(type, ws) == [NewGate(type, ws, Q1, 0) EXCEPT !.info = DNNF_CERT_INFO]

Fresh(b, gate) == [b |-> [b EXCEPT !.c = Append(@, gate)], g |-> Len(b.c) + 1]

Once(b, gate) ==
  LET same == {g \in DOMAIN b.c : b.c[g] = gate}
  IN  IF same = {} THEN Fresh(b, gate) ELSE [b |-> b, g |-> Min(same)]

Shared(b, type, ws) ==
  IF b.many THEN Once(b, Certify(type, SortSeq(ws, <))) ELSE Fresh(b, Certify(type, ws))

inGate(b, x) == Once(b, NewGate("IN", <<>>, x.prob, x.token))

notGate(b, x) == LET i == inGate(b, x) IN Once(i.b, NewGate("NOT", <<i.g>>, Q1, 0))

mulinGate(b, key, alt) ==
  LET var == Once(b, NewGate("MULVAR", <<>>, Q1, key))
  IN  Once(var.b, [NewGate("MULIN", <<var.g>>, alt.prob, alt.token) EXCEPT !.info = alt.index])

(* No alternative is drawn.                                                *)
noneGate(b, block) ==
  LET Add(s, alt) == LET m == mulinGate(s.b, block.key, alt) IN [b |-> m.b, ws |-> Append(s.ws, m.g)]
      all == Steps(Add, [b |-> b, ws |-> <<>>], block.alts)
      some == Once(all.b, Certify("OR", all.ws))
  IN  Once(some.b, NewGate("NOT", <<some.g>>, Q1, 0))

andGate(b, g, h) ==
  IF g = TrueGate THEN [b |-> b, g |-> h]
  ELSE IF h = TrueGate THEN [b |-> b, g |-> g]
  ELSE Shared(b, "AND", <<g, h>>)

-----------------------------------------------------------------------------
(* States.                                                                 *)
Walk(s, u, v) == \E x \in s.rel : x[1] = u /\ x[2] = v

identity(d) == {<<v, v, 0>> : v \in d}

Seeds(q, targets, d) == IF q.kind = "any" THEN targets \cap d ELSE {}

trivialState(p, d) ==
  [rel |-> identity(d), marked |-> Seeds(p.q, p.targets, d), pending |-> {}]

(* The lengths of the walks around a loop any number of times.             *)
RECURSIVE star(_, _, _)
star(loops, bound, s) ==
  LET more == s \cup {n \in {a + l : a \in s, l \in loops} : n <= bound}
  IN  IF more = s THEN s ELSE star(loops, bound, more)

(* All walks through vertex k, around its loops as often as may be.        *)
Pivot(bound, rel, k) ==
  LET around == star({x[3] : x \in {y \in rel : y[1] = k /\ y[2] = k}}, bound, {0})
      in == {x \in rel : x[2] = k}
      out == {x \in rel : x[1] = k}
  IN  rel \cup {w \in {<<x[1], y[2], x[3] + n + y[3]>> : x \in in, n \in around, y \in out} :
                  w[3] <= bound}

Pivot_Once(bound, rel, k) ==
  rel \cup {w \in {<<x[1], y[2], x[3] + y[3]>> : x \in {z \in rel : z[2] = k},
                                                 y \in {z \in rel : z[1] = k}} : w[3] <= bound}

close(p, s, d) ==
  LET rel == Steps(LAMBDA r, k : Pivot(p.q.bound, r, k), s.rel, SortedSeq(d, <))
  IN  [s EXCEPT !.rel = rel, !.marked = {u \in d : \E x \in rel : x[1] = u /\ x[2] \in s.marked}]

(* What can still save a member grows backwards; it is saved once the      *)
(* source is among it; only the smallest sets matter.                      *)
normalize(p, s, d) ==
  LET grown == {{u \in d : \E w \in m : Walk(s, u, w)} : m \in s.pending}
      kept == {m \in grown : p.source \notin m}
  IN  [s EXCEPT !.pending = {m \in kept : \A k \in kept : k \subseteq m => k = m}]

unite(s, t) == [rel |-> s.rel \cup t.rel, marked |-> s.marked \cup t.marked,
                pending |-> s.pending \cup t.pending]

addArcs(p, s, d, arcs, weight) ==
  LET new == {<<a[1], a[2], weight>> : a \in IF weight <= p.q.bound THEN arcs ELSE {}}
  IN  normalize(p, close(p, [s EXCEPT !.rel = @ \cup new], d), d)

(* Over another domain: a member that leaves unreached waits for one of    *)
(* the vertices that reach it and stay.                                    *)
liftState(p, s, from, to) ==
  LET left == IF p.q.kind = "cover" THEN p.targets \cap (from \ to) ELSE {}
      waiting == {v \in left : ~ Walk(s, p.source, v)}
      moved == [rel |-> identity(to) \cup {x \in s.rel : x[1] \in to /\ x[2] \in to},
                marked |-> Seeds(p.q, p.targets, to) \cup (s.marked \cap to),
                pending |-> {m \cap to : m \in s.pending}
                            \cup {{u \in from \cap to : Walk(s, u, v)} : v \in waiting}]
  IN  normalize(p, moved, to)

-----------------------------------------------------------------------------
(* Tables, functions from states to gates; r = [b, t].  An accumulator has *)
(* the gates that lead to each state.                                      *)
trivialTable(p, d) == trivialState(p, d) :> TrueGate

Lead(acc, s, g) ==
  [acc EXCEPT !.t = (s :> Append(IF s \in DOMAIN @ THEN @[s] ELSE <<>>, g)) @@ @]

LeadAnd(acc, s, g, literal) ==
  LET a == andGate(literal.b, g, literal.g) IN Lead([acc EXCEPT !.b = a.b], s, a.g)

finalize(p, acc) ==
  LET Or(r, s) ==
        LET gs == acc.t[s]
            o == Shared(r.b, "OR", gs)
        IN  IF Len(gs) = 1 THEN [r EXCEPT !.t = (s :> gs[1]) @@ @]
            ELSE [b |-> o.b, t |-> (s :> o.g) @@ r.t]
      done == Steps(Or, [b |-> acc.b, t |-> <<>>], ListOf(DOMAIN acc.t))
  IN  [done EXCEPT !.b.over = @ \/ Cardinality(DOMAIN acc.t) > p.q.limit]

(* Each entry of a table led to where op says.                             *)
Branch(p, r, op(_, _, _)) ==
  finalize(p, Steps(LAMBDA acc, s : op(acc, s, r.t[s]), [b |-> r.b, t |-> <<>>],
                    ListOf(DOMAIN r.t)))

lift(p, b, t, from, to) ==
  IF from = to THEN [b |-> b, t |-> t]
  ELSE Branch(p, [b |-> b, t |-> t],
              LAMBDA acc, s, g : Lead(acc, liftState(p, s, from, to), g))

(* Two parts with no edge in common: walks alternate between them.         *)
join(p, b, t1, t2, d) ==
  LET Meet(s1, s2) == normalize(p, close(p, unite(s1, s2), d), d)
      Pair(acc, s1, g) ==
        Steps(LAMBDA a, s2 : LeadAnd(a, Meet(s1, s2), g, [b |-> a.b, g |-> t2[s2]]),
              acc, ListOf(DOMAIN t2))
  IN  IF t1 = trivialTable(p, d) THEN [b |-> b, t |-> t2]
      ELSE IF t2 = trivialTable(p, d) THEN [b |-> b, t |-> t1]
      ELSE Branch(p, [b |-> b, t |-> t1], Pair)

(* An edge that cannot change a state is not branched on there.            *)
Introduce(p, d, r, x) ==
  LET Choose(acc, s, g) ==
        LET present == addArcs(p, s, d, x.arcs, x.weight)
            with == LeadAnd(acc, present, g, inGate(acc.b, x))
        IN  IF x.token = 0 THEN Lead(acc, present, g)
            ELSE IF present = s THEN Lead(acc, s, g)
            ELSE LeadAnd(with, s, g, notGate(with.b, x))
  IN  Branch(p, r, Choose)

IntroduceBlock(p, d, r, block) ==
  LET weight == IF tracks_lengths(p.q) THEN 1 ELSE 0
      Outcome(s, alt) == addArcs(p, s, d, alt.arcs, weight)
      Choose(acc, s, g) ==
        IF \A i \in DOMAIN block.alts : Outcome(s, block.alts[i]) = s THEN Lead(acc, s, g)
        ELSE Steps(LAMBDA a, alt : LeadAnd(a, Outcome(s, alt), g, mulinGate(a.b, block.key, alt)),
                   LeadAnd(acc, s, g, noneGate(acc.b, block)), block.alts)
  IN  Branch(p, r, Choose)

applyEdges(p, b, t, bag) ==
  LET edges == Steps(LAMBDA r, x : Introduce(p, p.domain[bag], r, x),
                     [b |-> b, t |-> t], p.variables[bag])
  IN  Steps(LAMBDA r, k : IntroduceBlock(p, p.domain[bag], r, k), edges, p.blocks[bag])

-----------------------------------------------------------------------------
(* The sweeps.  s = [b, below]: the tables of the bags done.               *)
RECURSIVE runBottomUp(_, _, _)
runBottomUp(p, s, bag) ==
  LET d == p.domain[bag]
      Merge(acc, child) ==
        LET sub == runBottomUp(p, [b |-> acc.b, below |-> acc.below], child)
            up == lift(p, sub.b, sub.below[child], p.domain[child], d)
            met == join(p, up.b, acc.t, up.t, d)
        IN  [b |-> met.b, below |-> sub.below, t |-> met.t]
      kids == Steps(Merge, [b |-> s.b, below |-> s.below, t |-> trivialTable(p, d)],
                    p.td.children[bag])
      r == applyEdges(p, kids.b, kids.t, bag)
  IN  [b |-> r.b, below |-> (bag :> r.t) @@ kids.below]

(* At the bag a vertex is eliminated into, a state from below and one from *)
(* above give what the whole data does to it.  acc.t: gates of each key.   *)
ReadsAt(p, bag) ==
  {v \in p.domain[bag] : /\ p.home[v] = bag
                         /\ multi_sources(p.q) => v # p.source
                         /\ p.q.kind = "one" => v = p.q.target}

ReadPair(p, bag, acc, s, g, a, h) ==
  LET whole == close(p, unite(s, a), p.domain[bag])
      keys == {IF tracks_lengths(p.q) THEN <<x[2], x[3]>> ELSE <<x[2]>> :
                 x \in {y \in whole.rel : y[1] = p.source /\ y[2] \in ReadsAt(p, bag)}}
      within == {<<k[1]>> : k \in keys}
      both == andGate(acc.b, g, h)
  IN  IF keys = {} THEN acc
      ELSE Steps(LAMBDA r, k : Lead(r, k, both.g), [acc EXCEPT !.b = both.b],
                 ListOf(keys \cup within))

ReadBag(p, below, acc, bag, above) ==
  IF ReadsAt(p, bag) = {} THEN acc
  ELSE Steps(LAMBDA r, s :
               Steps(LAMBDA x, a : ReadPair(p, bag, x, s, below[bag][s], a, above[a]),
                     r, ListOf(DOMAIN above)),
             acc, ListOf(DOMAIN below[bag]))

(* A child's table from above: what is above its parent, its siblings and  *)
(* the edges of the parent.  Siblings are joined from both ends.           *)
RECURSIVE runTopDown(_, _, _, _, _)
runTopDown(p, below, acc, bag, above) ==
  LET d == p.domain[bag]
      kids == p.td.children[bag]
      Up(r, k) == LET u == lift(p, r.b, below[k], p.domain[k], d)
                  IN  [b |-> u.b, ts |-> Append(r.ts, u.t)]
      lifted == Steps(Up, [b |-> acc.b, ts |-> <<>>], kids)
      Ends(b, ts) ==
        Steps(LAMBDA r, t : LET j == join(p, r.b, Last(r.ts), t, d)
                            IN  [b |-> j.b, ts |-> Append(r.ts, j.t)],
              [b |-> b, ts |-> <<trivialTable(p, d)>>], ts)
      prefix == Ends(lifted.b, lifted.ts)
      suffix == Ends(prefix.b, Reverse(lifted.ts))
      Descend(r, i) ==
        LET siblings == join(p, r.b, prefix.ts[i], suffix.ts[Len(kids) - i + 1], d)
            around == join(p, siblings.b, above, siblings.t, d)
            whole == applyEdges(p, around.b, around.t, bag)
            down == lift(p, whole.b, whole.t, d, p.domain[kids[i]])
        IN  runTopDown(p, below, [r EXCEPT !.b = down.b], kids[i], down.t)
      read == ReadBag(p, below, [acc EXCEPT !.b = suffix.b], bag, above)
  IN  Steps(Descend, read, [i \in DOMAIN kids |-> i])

finalizeRoot(b, gs) ==
  IF Len(gs) = 1 THEN [b |-> b, g |-> gs[1]] ELSE Fresh(b, Certify("OR", gs))

(* Roots of the keys an accumulator has gates for; those asked for without *)
(* one are false.                                                          *)
RootsOf(acc, asked) ==
  LET One(r, k) == LET o == finalizeRoot(r.b, IF k \in DOMAIN acc.t THEN acc.t[k] ELSE <<>>)
                   IN  [b |-> o.b, t |-> (k :> o.g) @@ r.t]
  IN  Steps(One, [b |-> acc.b, t |-> <<>>], ListOf(DOMAIN acc.t \cup asked))

NoCircuit == [c |-> <<>>, roots |-> <<>>]

ResultOf(p, r) == IF p.bad \/ r.b.over THEN NoCircuit ELSE [c |-> r.b.c, roots |-> r.t]

EmptyCircuit(many) == [c |-> <<Certify("AND", <<>>)>>, many |-> many, over |-> FALSE]

(* compile, compileAll and compileAllHops.                                 *)
compileAll(q) ==
  LET p == Prelude(q) @@ [targets |-> {}]
      up == runBottomUp(p, [b |-> EmptyCircuit(FALSE), below |-> <<>>], p.td.root)
      read == runTopDown(p, up.below, [b |-> up.b, t |-> <<>>], p.td.root,
                         trivialTable(p, p.domain[p.td.root]))
  IN  IF p.bad THEN NoCircuit
      ELSE ResultOf(p, RootsOf(read, IF q.kind = "one" THEN {<<q.target>>} ELSE {}))

(* compileAnyReachAll and compileCoverReachAll: one sweep per set.  An     *)
(* absent member is never reached: "any" drops it, "cover" gives up.       *)
Universe(q) ==
  LET seen == {i \in DOMAIN q.rows : q.kind = "any" \/ q.rows[i].src # q.rows[i].dst}
  IN  UNION {{q.rows[i].src, q.rows[i].dst} : i \in seen}
      \cup {q.sources[i].vertex : i \in DOMAIN q.sources}

SweepSet(p0, acc, i) ==
  LET p == p0 @@ [targets |-> p0.q.sets[i] \cap Universe(p0.q)]
      up == runBottomUp(p, [b |-> acc.b, below |-> <<>>], p.td.root)
      cover == p.q.kind = "cover"
      final == IF cover THEN lift(p, up.b, up.below[p.td.root], p.domain[p.td.root], {p.source})
               ELSE [b |-> up.b, t |-> up.below[p.td.root]]
      accepting == {s \in DOMAIN final.t :
                      IF cover THEN s.pending = {} /\ p.q.sets[i] \subseteq Universe(p.q)
                      ELSE p.source \in s.marked}
  IN  Steps(LAMBDA r, s : Lead(r, <<i>>, final.t[s]), [acc EXCEPT !.b = final.b], ListOf(accepting))

compileSets(q) ==
  LET p == Prelude(q)
      all == Steps(LAMBDA acc, i : SweepSet(p, acc, i),
                   [b |-> EmptyCircuit(Len(q.sets) > 1), t |-> <<>>], [i \in DOMAIN q.sets |-> i])
  IN  IF p.bad THEN NoCircuit ELSE ResultOf(p, RootsOf(all, {<<i>> : i \in DOMAIN q.sets}))

compileReachability(q) ==
  LET by_sets == q.kind \in {"any", "cover"}
  IN  IF by_sets THEN compileSets(q) ELSE compileAll(q)

-----------------------------------------------------------------------------
(* Reference: the worlds of the data, and the walks in each.               *)
Elements(q) == ToSet(q.rows) \cup {[token |-> a.token, prob |-> a.prob, block |-> 0] :
                                     a \in ToSet(q.sources)}
Independent(q) == {x.token : x \in {y \in Elements(q) : y.block = 0}} \ {0}
BlockKeys(q) == {r.block : r \in ToSet(q.rows)} \ {0}
TokensOf(q, key) == {r.token : r \in {y \in ToSet(q.rows) : y.block = key}}
TokenProb(q, t) == (CHOOSE x \in Elements(q) : x.token = t).prob

Worlds(q) ==
  {w \in SUBSET (Independent(q) \cup UNION {TokensOf(q, k) : k \in BlockKeys(q)}) :
     \A k \in BlockKeys(q) : Cardinality(w \cap TokensOf(q, k)) <= 1}

ProbOfWorld(q, w) ==
  LET Block(k) == LET drawn == w \cap TokensOf(q, k)
                      some == QSumOver(TokensOf(q, k), LAMBDA t : TokenProb(q, t))
                  IN  IF drawn = {} THEN QNot(some) ELSE TokenProb(q, Max(drawn))
      Token(t) == IF t \in w THEN TokenProb(q, t) ELSE QNot(TokenProb(q, t))
  IN  QMul(QProdOver(Independent(q), Token), QProdOver(BlockKeys(q), Block))

Vertices(q) ==
  UNION {{r.src, r.dst} : r \in ToSet(q.rows)} \cup {a.vertex : a \in ToSet(q.sources)}
  \cup UNION ToSet(q.sets) \cup {q.target}

(* The vertices at the end of a walk of n edges from a source.             *)
WalksOf(q, w, most) ==
  LET arcs == UNION {IF q.directed THEN {<<r.src, r.dst>>} ELSE Both(r.src, r.dst) :
                       r \in {y \in ToSet(q.rows) : y.token \in w}}
      at[n \in 0..most] ==
        IF n = 0 THEN {a.vertex : a \in {y \in ToSet(q.sources) : y.token \in w \cup {0}}}
        ELSE {a[2] : a \in {y \in arcs : y[1] \in at[n - 1]}}
  IN  at

Keys(q) ==
  CASE q.kind = "one" -> {<<q.target>>}
    [] q.kind = "all" -> {<<v>> : v \in Vertices(q)}
    [] q.kind = "hops" -> {<<v>> : v \in Vertices(q)} \cup (Vertices(q) \X (0..q.bound))
    [] OTHER -> {<<i>> : i \in DOMAIN q.sets}

TrueKeys(q, w) ==
  LET most == IF q.kind = "hops" THEN q.bound ELSE Cardinality(Vertices(q))
      at == WalksOf(q, w, most)
      reached == UNION {at[n] : n \in 0..most}
  IN  {k \in Keys(q) :
         CASE q.kind = "any" -> q.sets[k[1]] \cap reached # {}
           [] q.kind = "cover" -> q.sets[k[1]] \subseteq reached
           [] OTHER -> IF Len(k) = 2 THEN k[1] \in at[k[2]] ELSE k[1] \in reached}

(* The values of all gates in a world, and the variables below each.       *)
Truth(c, w) ==
  LET Value(v, g) ==
        CASE g.type \in {"IN", "MULIN"} -> g.uuid \in w
          [] g.type = "MULVAR" -> FALSE
          [] g.type = "NOT" -> ~ v[g.wires[1]]
          [] g.type = "AND" -> \A i \in DOMAIN g.wires : v[g.wires[i]]
          [] g.type = "OR"  -> \E i \in DOMAIN g.wires : v[g.wires[i]]
  IN  Steps(LAMBDA v, g : Append(v, Value(v, g)), <<>>, c)

Variables(c) ==
  LET Under(v, g) == IF g.type \in {"IN", "MULVAR"} THEN {g.uuid}
                     ELSE UNION {v[g.wires[i]] : i \in DOMAIN g.wires}
  IN  Steps(LAMBDA v, g : Append(v, Under(v, g)), <<>>, c)

(* The circuit is decomposable and deterministic, its roots are those of   *)
(* the keys that can be true and have their function, and reading it as a  *)
(* certified circuit gives each its probability.                           *)
CompilesReachability(q, r) ==
  LET under == Variables(r.c)
      value == Computed([w \in Worlds(q) |-> Truth(r.c, w)])
      true == Computed([w \in Worlds(q) |-> TrueKeys(q, w)])
      Apart2(ws) == \A i, j \in DOMAIN ws : i < j => under[ws[i]] \cap under[ws[j]] = {}
      OneOf(v, ws) == \A i, j \in DOMAIN ws : i < j => ~ (v[ws[i]] /\ v[ws[j]])
  IN  /\ \A g \in DOMAIN r.c :
           /\ r.c[g].type = "AND" => Apart2(r.c[g].wires)
           /\ r.c[g].type = "OR" => \A w \in Worlds(q) : OneOf(value[w], r.c[g].wires)
      /\ \A w \in Worlds(q) : \A k \in Keys(q) :
           (k \in true[w]) <=> (k \in DOMAIN r.roots /\ value[w][r.roots[k]])
      /\ \A k \in DOMAIN r.roots :
           independentEvaluation(r.c, r.roots[k]) =
             QSumOver({w \in Worlds(q) : k \in true[w]}, LAMBDA w : ProbOfWorld(q, w))
=============================================================================
