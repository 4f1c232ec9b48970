------------------------------- MODULE DDNNF --------------------------------
(***************************************************************************)
(* d-DNNF circuits: reading a circuit as one, simplification, smoothing,   *)
(* binarisation, conditioning, and the linear-time evaluations over them   *)
(* (probability, expected Shapley and Banzhaf values).                     *)
(* A d-DNNF is [gates, root]; the uuid of an input is its gate in the      *)
(* source circuit.                                                         *)
(***************************************************************************)
EXTENDS BooleanCircuit

Wires(d, g) == d.gates[g].wires
Type(d, g)  == d.gates[g].type
NW(d, g)    == Len(Wires(d, g))

vars(d, g) == {x \in Reachable(d.gates, g) : Type(d, x) = "IN"}

(* A constant: an AND or an OR without children.                           *)
IsConst(d, g, type) == Type(d, g) = type /\ NW(d, g) = 0

(* Children before parents: the gates whose children are all done, layer   *)
(* by layer.                                                               *)
RECURSIVE TopologicalFrom(_, _)
TopologicalFrom(d, done) ==
  LET ready == {g \in DOMAIN d.gates \ done : ToSet(Wires(d, g)) \subseteq done}
  IN  IF ready = {} THEN <<>> ELSE ListOf(ready) \o TopologicalFrom(d, done \cup ready)

topological_order(d) == TopologicalFrom(d, {})

Dual(type) == IF type = "AND" THEN "OR" ELSE "AND"

BecomeConst(d, g, type) == [d EXCEPT !.gates[g].type = type, !.gates[g].wires = <<>>]

(* A gate with one child left disappears in favour of the child.           *)
Collapse(d, g, child) ==
  LET moved == IF g = d.root THEN [d EXCEPT !.root = child]
               ELSE [d EXCEPT !.gates = Listed([p \in DOMAIN @ |->
                       [@[p] EXCEPT !.wires = ReplaceAll(@, g, child)]])]
  IN  [moved EXCEPT !.gates[g].wires = <<>>]

SimplifyGate(d, g) ==
  LET t == Type(d, g)
      w == Wires(d, g)
      kept == IF Len(w) > 1 THEN SelectSeq(w, LAMBDA x : ~ IsConst(d, x, t)) ELSE w
  IN  CASE t = "NOT" ->
             IF IsConst(d, w[1], "AND") THEN BecomeConst(d, g, "OR")
             ELSE IF IsConst(d, w[1], "OR") THEN BecomeConst(d, g, "AND") ELSE d
        [] t \in {"AND", "OR"} ->
             IF Len(w) > 1 /\ \E i \in DOMAIN w : IsConst(d, w[i], Dual(t))
               THEN BecomeConst(d, g, Dual(t))
             ELSE IF Len(kept) = 1 THEN Collapse(d, g, kept[1])
             ELSE [d EXCEPT !.gates[g].wires = kept]
        [] OTHER -> d

(* Unreachable gates are dropped and the others renumbered.                *)
Relabel(d) ==
  LET used == Reachable(d.gates, d.root)
      new(g) == Cardinality({x \in used : x <= g})
      old == SortedSeq(used, <)
  IN  [gates |-> Listed([i \in DOMAIN old |->
         LET g == d.gates[old[i]]
         IN  [g EXCEPT !.wires = Listed([j \in DOMAIN g.wires |-> new(g.wires[j])])]]),
       root |-> new(d.root)]

simplify(d) == Relabel(Steps(SimplifyGate, d, topological_order(d)))

-----------------------------------------------------------------------------
(* Reading a circuit as a d-D: an OR of independent children becomes       *)
(* NOT AND NOT, a certified gate is copied, an input may be read once.     *)
(* r = [d, g, seen, bad]: the circuit so far, the gate made, inputs read.  *)

Emit(r, type, ws, p, u) ==
  LET n == setGate(r.gates, type, ws, p, u)
  IN  [r EXCEPT !.gates = n.c, !.g = n.g]

RECURSIVE interpretAsDDInternal(_, _, _)
RECURSIVE interpretCertifiedIsland(_, _, _)

ReadInput(c, g, r) ==
  IF g \in r.seen THEN [r EXCEPT !.bad = TRUE]
  ELSE Emit([r EXCEPT !.seen = @ \cup {g}], "IN", <<>>, c[g].prob, g)

(* The children in order; negated says whether each gets a NOT above it.   *)
ReadChildren(c, ws, r, negated) ==
  Steps(LAMBDA acc, w :
             LET x == interpretAsDDInternal(c, w, acc.r)
                 y == IF negated THEN Emit(x, "NOT", <<x.g>>, Q1, 0) ELSE x
             IN  IF acc.r.bad THEN acc
                 ELSE [r |-> y, ws |-> Append(acc.ws, y.g)],
           [r |-> r, ws |-> <<>>], ws)

interpretAsDDInternal(c, g, r) ==
  LET all == ReadChildren(c, c[g].wires, r, c[g].type = "OR")
      conj == Emit(all.r, "AND", all.ws, Q1, 0)
  IN  CASE isDNNFCertified(c, g) ->
             LET v == interpretCertifiedIsland(c, g, [r |-> r, val |-> <<>>])
             IN  IF v.r.bad THEN v.r ELSE [v.r EXCEPT !.g = v.val[g]]
        [] c[g].type = "IN" -> ReadInput(c, g, r)
        [] c[g].type \in {"MULIN", "MULVAR"} -> [r EXCEPT !.bad = TRUE]
        [] c[g].type = "NOT" -> Emit(all.r, "NOT", all.ws, Q1, 0)
        [] c[g].type = "AND" /\ ~ isDNNFCertified(c, g) -> conj
        [] c[g].type = "OR"  /\ ~ isDNNFCertified(c, g) -> Emit(conj, "NOT", <<conj.g>>, Q1, 0)

(* s = [r, val]: val maps the island's gates already copied.               *)
interpretCertifiedIsland(c, g, s) ==
  LET below == Steps(LAMBDA acc, w : interpretCertifiedIsland(c, w, acc), s, c[g].wires)
      ws == [i \in DOMAIN c[g].wires |-> below.val[c[g].wires[i]]]
      copy == Emit(below.r, c[g].type, ws, Q1, 0)
      cert == IF c[g].type = "NOT" THEN copy
              ELSE [copy EXCEPT !.gates[copy.g].info = DNNF_CERT_INFO]
      leaf == IF c[g].type = "IN" THEN ReadInput(c, g, s.r)
              ELSE interpretAsDDInternal(c, g, s.r)
      Done(st, r) == [r |-> r, val |-> Computed([x \in DOMAIN st.val \cup {g} |->
                                          IF x = g THEN r.g ELSE st.val[x]])]
  IN  IF s.r.bad \/ g \in DOMAIN s.val THEN s
      ELSE IF c[g].type # "NOT" /\ ~ isDNNFCertified(c, g) THEN Done(s, leaf)
      ELSE IF below.r.bad THEN below ELSE Done(below, cert)

NoDD == [gates |-> <<>>, root |-> 0]

interpretAsDD(c, g) ==
  LET r == interpretAsDDInternal(c, g, [gates |-> <<>>, g |-> 0, seen |-> {}, bad |-> FALSE])
  IN  IF r.bad THEN NoDD ELSE simplify([gates |-> r.gates, root |-> r.g])

-----------------------------------------------------------------------------
(* Smoothing: below an OR, a child that does not mention a variable of the *)
(* OR gets a conjunct (v OR NOT v).  The child is wrapped in an AND first  *)
(* if it is not one -- for each variable, the first such child only.       *)

SmoothChild(d, g, i, v, wrap) ==
  LET child == Wires(d, g)[i]
      n == Len(d.gates)
      doWrap == wrap /\ Type(d, child) # "AND"
      w == IF doWrap THEN [d EXCEPT !.gates = Append([@ EXCEPT ![g].wires[i] = n + 1],
                                                     NewGate("AND", <<child>>, Q1, 0))]
                     ELSE d
      m == Len(w.gates)
      grown == [w EXCEPT !.gates = @ \o <<NewGate("OR", <<v, m + 2>>, Q1, 0),
                                          NewGate("NOT", <<v>>, Q1, 0)>>]
  IN  [grown EXCEPT !.gates = addWire(@, Wires(grown, g)[i], m + 1)]

SmoothVar(d, g, varss, v) ==
  LET missing == SortedSeq({i \in DOMAIN varss : v \notin varss[i]}, <)
  IN  FoldLeftDomain(LAMBDA acc, k : SmoothChild(acc, g, missing[k], v, k = 1), d, missing)

SmoothGate_Skip(d, g) == d

SmoothGate(d, g) ==
  LET varss == [i \in 1..NW(d, g) |-> vars(d, Wires(d, g)[i])]
      all == UNION {varss[i] : i \in DOMAIN varss}
  IN  IF Type(d, g) # "OR" \/ NW(d, g) <= 1 THEN d
      ELSE Steps(LAMBDA acc, v : SmoothVar(acc, g, varss, v), d, SortedSeq(all, <))

makeSmooth(d) == Steps(SmoothGate, d, [g \in 1..Len(d.gates) |-> g])

(* Splitting gates of a type with more than two children.                  *)
RECURSIVE BinariseFrom(_, _, _)
BinariseFrom(d, type, g) ==
  LET w == Wires(d, g)
      k == Len(w)
      n == Len(d.gates)
      half == k \div 2
      split == IF k = 3
        THEN [d EXCEPT !.gates = Append([@ EXCEPT ![g].wires = <<w[1], n + 1>>],
                                        NewGate(type, <<w[2], w[3]>>, Q1, 0))]
        ELSE [d EXCEPT !.gates = [@ EXCEPT ![g].wires = <<n + 1, n + 2>>]
                 \o <<NewGate(type, SubSeq(w, 1, half), Q1, 0),
                      NewGate(type, SubSeq(w, half + 1, k), Q1, 0)>>]
  IN  IF g > n THEN d
      ELSE BinariseFrom(IF Type(d, g) = type /\ k > 2 THEN split ELSE d, type, g + 1)

makeGatesBinary(d, type) == BinariseFrom(d, type, 1)

(* Fixing an input: it becomes the constant.                               *)
condition(d, v, value) ==
  [d EXCEPT !.gates[v].type = IF value THEN "AND" ELSE "OR", !.gates[v].uuid = 0]

-----------------------------------------------------------------------------
(* Probability: product at AND, sum at OR, complement at NOT.              *)
RECURSIVE DDProb(_, _)
DDProb(d, g) ==
  LET ps == Listed([i \in 1..NW(d, g) |-> DDProb(d, Wires(d, g)[i])])
  IN  CASE Type(d, g) = "IN"  -> d.gates[g].prob
        [] Type(d, g) = "NOT" -> QNot(ps[1])
        [] Type(d, g) = "AND" -> QProd(ps)
        [] Type(d, g) = "OR"  -> QSum(ps)

probabilityEvaluation(d) == IF d.gates = <<>> THEN Q0 ELSE DDProb(d, d.root)

(* Banzhaf: [r, one] at every gate, the second the product of 1 + p over   *)
(* the variables below, taken at an OR from its first child.               *)
RECURSIVE banzhaf_internal(_, _)
banzhaf_internal(d, g) ==
  LET p == d.gates[g].prob
      ch == Listed([i \in 1..NW(d, g) |-> banzhaf_internal(d, Wires(d, g)[i])])
      rs == [i \in DOMAIN ch |-> ch[i].r]
      ones == [i \in DOMAIN ch |-> ch[i].one]
  IN  CASE Type(d, g) = "IN"  -> [r |-> p, one |-> QAdd(Q1, p)]
        [] Type(d, g) = "NOT" -> [r |-> QSub(ch[1].one, ch[1].r), one |-> ch[1].one]
        [] Type(d, g) = "OR"  -> [r |-> QSum(rs), one |-> IF ch = <<>> THEN Q1 ELSE ones[1]]
        [] Type(d, g) = "AND" -> [r |-> QProd(rs), one |-> QProd(ones)]

banzhaf(d, v) ==
  QMul(d.gates[v].prob,
       QSub(banzhaf_internal(condition(d, v, TRUE), d.root).r,
            banzhaf_internal(condition(d, v, FALSE), d.root).r))

(* delta[k]: probability that k of the variables below are drawn;          *)
(* alpha[k][l]: the same, summed over the sets of l of the drawn variables *)
(* that make the gate true.  Functions over 0..n.                          *)
Convolve(f, g, n1, n2) ==
  [k \in 0..(n1 + n2) |->
     QSumOver(Max({0, k - n2})..Min({k, n1}), LAMBDA i : QMul(f[i], g[k - i]))]

Size(f) == Cardinality(DOMAIN f) - 1

Const(v) == [k \in {0} |-> v]

RECURSIVE shapley_delta(_, _)
shapley_delta(d, g) ==
  LET p == d.gates[g].prob
      ch == Listed([i \in 1..NW(d, g) |-> shapley_delta(d, Wires(d, g)[i])])
  IN  IF Type(d, g) = "IN" THEN [k \in 0..1 |-> IF k = 0 THEN QNot(p) ELSE p]
      ELSE IF NW(d, g) = 0 THEN Const(Q1)
      ELSE IF Type(d, g) # "AND" \/ NW(d, g) = 1 THEN ch[1]
      ELSE Convolve(ch[1], ch[2], Size(ch[1]), Size(ch[2]))

comb[n \in Nat, k \in Nat] ==
  IF k = 0 THEN 1
  ELSE IF k > n \div 2 THEN comb[n, n - k]
  ELSE (n * comb[n - 1, k - 1]) \div k

RECURSIVE shapley_alpha(_, _)
shapley_alpha(d, g) ==
  LET p == d.gates[g].prob
      ch == Listed([i \in 1..NW(d, g) |-> shapley_alpha(d, Wires(d, g)[i])])
      delta == shapley_delta(d, g)
      Add(f, h) == [k \in DOMAIN f |-> [l \in 0..k |->
                      IF k \in DOMAIN h THEN QAdd(f[k][l], h[k][l]) ELSE f[k][l]]]
      And(f, h, n1, n2) == [k \in 0..(n1 + n2) |-> [l \in 0..k |->
         QSumOver({<<k1, l1>> \in (0..k) \X (0..l) :
                     k1 <= n1 /\ k - k1 <= n2 /\ l1 <= k1 /\ l - l1 <= k - k1},
                  LAMBDA x : QMul(f[x[1]][x[2]], h[k - x[1]][l - x[2]]))]]
  IN  CASE Type(d, g) = "IN" ->
             [k \in 0..1 |-> [l \in 0..k |-> IF l = 1 THEN p ELSE Q0]]
        [] Type(d, g) = "NOT" ->
             [k \in DOMAIN ch[1] |-> [l \in 0..k |->
                QSub(QMul(Q(comb[k, l], 1), delta[k]), ch[1][k][l])]]
        [] Type(d, g) \in {"AND", "OR"} /\ NW(d, g) = 0 ->
             Const(Const(IF Type(d, g) = "AND" THEN Q1 ELSE Q0))
        [] Type(d, g) = "OR" /\ NW(d, g) > 0 ->
             Steps(Add, ch[1], Tail(ch))
        [] Type(d, g) = "AND" /\ NW(d, g) = 1 -> ch[1]
        [] Type(d, g) = "AND" /\ NW(d, g) > 1 -> And(ch[1], ch[2], Size(ch[1]), Size(ch[2]))

(* With every probability 1 the code keeps the rows k = n only, the ones   *)
(* the others would add being 0.                                           *)
shapley(d, v) ==
  LET pos == shapley_alpha(condition(d, v, TRUE), d.root)
      neg == shapley_alpha(condition(d, v, FALSE), d.root)
      Row(k) == QSumOver(0..k, LAMBDA l :
                  QDiv(QSub(pos[k][l], neg[k][l]), Q(comb[k, l] * (k + 1), 1)))
  IN  QMul(d.gates[v].prob, QSumOver(DOMAIN pos, Row))

(* shapley() and banzhaf(): smooth, binarise (Shapley only), evaluate.  An *)
(* input the d-DNNF does not mention becomes a gate of its own without     *)
(* effect on the root.                                                     *)
shapley_internal(dd, u, isBanzhaf) ==
  LET sm == makeSmooth(dd)
      b == IF isBanzhaf THEN sm ELSE makeGatesBinary(sm, "AND")
      gs == {g \in DOMAIN b.gates : b.gates[g].uuid = u}
      v == CHOOSE g \in gs : TRUE
  IN  IF gs = {} THEN Q0
      ELSE IF isBanzhaf THEN banzhaf(b, v) ELSE shapley(b, v)

-----------------------------------------------------------------------------
(* References.                                                             *)

(* The function of a d-DNNF, on the source inputs that are true.           *)
DDValue(d, s) ==
  evaluate(d.gates, d.root, {g \in DOMAIN d.gates : d.gates[g].uuid \in s})

(* AND children share no variable, OR children are never true together.    *)
IsDDNNF(d) ==
  LET kids(g) == DOMAIN Wires(d, g)
      ins == {g \in DOMAIN d.gates : Type(d, g) = "IN"}
  IN  \A g \in Reachable(d.gates, d.root) : \A i, j \in kids(g) : i # j =>
        LET a == Wires(d, g)[i]
            b == Wires(d, g)[j]
        IN  /\ Type(d, g) = "AND" => vars(d, a) \cap vars(d, b) = {}
            /\ Type(d, g) = "OR" =>
                 \A s \in SUBSET ins : ~ (evaluate(d.gates, a, s) /\ evaluate(d.gates, b, s))

Factorial[n \in Nat] == IF n = 0 THEN 1 ELSE n * Factorial[n - 1]

(* What input x adds to the inputs E, and its expectation over the sets Z  *)
(* of inputs drawn with x in Z of a value x has in the game Z plays.       *)
Gain(c, root, x, E) == (IF evaluate(c, root, E \cup {x}) THEN 1 ELSE 0)
                     - (IF evaluate(c, root, E) THEN 1 ELSE 0)

Expected(c, x, players, valueIn(_)) ==
  QSumOver({Z \in SUBSET players : x \in Z}, LAMBDA Z : QMul(WorldProb(c, players, Z), valueIn(Z)))

(* The average over the orderings of Z, and the average over the subsets   *)
(* of the other inputs of Z.                                               *)
ShapleyIn(c, root, x, Z) ==
  QSumOver(SUBSET (Z \ {x}), LAMBDA E :
    Q(Gain(c, root, x, E) * Factorial[Cardinality(E)] * Factorial[Cardinality(Z) - Cardinality(E) - 1],
      Factorial[Cardinality(Z)]))

BanzhafIn(c, root, x, Z) ==
  QSumOver(SUBSET (Z \ {x}), LAMBDA E : Q(Gain(c, root, x, E), 2 ^ (Cardinality(Z) - 1)))

-----------------------------------------------------------------------------
(* The builder behind inversion-free queries: a monotone circuit is        *)
(* expanded into a DNF over ranked variables, which is compiled by         *)
(* splitting disjoint disjuncts (a chain through a false sink), exact      *)
(* products, and the smallest variable.  A DNF is a set of terms, a term a *)
(* set of ranks; here the rank of an input is its gate.                    *)
(* Absorption; a DNF with an empty term is TRUE.                           *)
canonical(d) == {t \in d : \A u \in d : u \subseteq t => u = t}

conditionDNF(d, v, value) ==
  canonical(IF value THEN {t \ {v} : t \in d} ELSE {t \in d : v \notin t})

(* Partition of the points of a set by the closure of a relation.          *)
RECURSIVE Closure(_, _)
Closure(S, R) ==
  LET more == S \cup {e[1] : e \in {e \in R : e[2] \in S}}
                \cup {e[2] : e \in {e \in R : e[1] \in S}}
  IN  IF more = S THEN S ELSE Closure(more, R)

Blocks(pts, rel(_, _)) ==
  LET R == {e \in pts \X pts : rel(e[1], e[2])} IN {Closure({x}, R) : x \in pts}

(* Variables are put together unless their projection on the pair is the   *)
(* product of the single ones; the product of the projections on the       *)
(* blocks must have as many terms as the DNF.                              *)
andDecompose(d) ==
  LET V == UNION d
      Proj(B) == {t \cap B : t \in d}
      dep(u, w) == u # w /\ Cardinality(Proj({u, w})) # Cardinality(Proj({u})) * Cardinality(Proj({w}))
      blocks == Blocks(V, dep)
      prod == FoldSet(LAMBDA B, n : n * Cardinality(Proj(B)), 1, blocks)
  IN  IF Cardinality(V) <= 1 \/ Cardinality(blocks) <= 1 \/ prod # Cardinality(d) THEN {d}
      ELSE {canonical(Proj(B)) : B \in blocks}

(* Groups of terms that share no variable, by smallest variable.           *)
orDecompose(d) ==
  LET share(u, w) == \E t \in d : u \in t /\ w \in t
      comps == {{t \in d : t \subseteq B} : B \in Blocks(UNION d, share)}
  IN  SortedSeq(comps, LAMBDA a, b : Min(UNION a) < Min(UNION b))

(* The DNF of a gate; NOT and multivalued inputs are refused.              *)
RECURSIVE extract(_, _)
extract(c, g) ==
  LET ds == [i \in DOMAIN c[g].wires |-> extract(c, c[g].wires[i])]
  IN  CASE c[g].type = "IN" -> {{g}}
        [] c[g].type = "AND" ->
             Steps(LAMBDA acc, d : canonical({a \cup b : <<a, b>> \in acc \X d}), {{}}, ds)
        [] c[g].type = "OR" -> canonical(UNION {ds[i] : i \in DOMAIN ds})

Extractable(c, g) == \A x \in Reachable(c, g) : c[x].type \in {"IN", "AND", "OR"}

-----------------------------------------------------------------------------
(* s = [gates, memo, g]; gate 1 is TRUE, gate 2 is FALSE.                  *)
TRUEGATE == 1
FALSEGATE == 2

mkLit(c, s, v) ==
  LET n == setGate(s.gates, "IN", <<>>, c[v].prob, v) IN [s EXCEPT !.gates = n.c, !.g = n.g]

mkNeg(c, s, v) ==
  LET l == mkLit(c, s, v)
      old == {g \in DOMAIN l.gates : l.gates[g].type = "NOT" /\ l.gates[g].wires = <<l.g>>}
  IN  IF old # {} THEN [l EXCEPT !.g = Min(old)]
      ELSE [l EXCEPT !.gates = Append(@, NewGate("NOT", <<l.g>>, Q1, 0)), !.g = Len(l.gates) + 1]

mkAnd(s, children) ==
  LET real == SelectSeq(children, LAMBDA x : x # TRUEGATE)
  IN  IF \E i \in DOMAIN children : children[i] = FALSEGATE THEN [s EXCEPT !.g = FALSEGATE]
      ELSE IF real = <<>> THEN [s EXCEPT !.g = TRUEGATE]
      ELSE IF Len(real) = 1 THEN [s EXCEPT !.g = real[1]]
      ELSE [s EXCEPT !.gates = Append(@, NewGate("AND", real, Q1, 0)), !.g = Len(s.gates) + 1]

RECURSIVE buildDNF(_, _, _, _)

(* Shannon expansion on the smallest variable.                             *)
Decide(c, s, d, sink) ==
  LET v == Min(UNION d)
      hi == buildDNF(c, s, conditionDNF(d, v, TRUE), sink)
      lo == buildDNF(c, hi, conditionDNF(d, v, FALSE), sink)
      pl == mkLit(c, lo, v)
      ah == mkAnd(pl, <<pl.g, hi.g>>)
      nl == mkNeg(c, ah, v)
      al == mkAnd(nl, <<nl.g, lo.g>>)
      ws == SelectSeq(<<ah.g, al.g>>, LAMBDA x : x # FALSEGATE)
  IN  IF hi.g = lo.g THEN lo
      ELSE [al EXCEPT !.gates = Append(@, NewGate("OR", ws, Q1, 0)), !.g = Len(al.gates) + 1]

(* A gate for d OR sink.  Products only where the sink is FALSE.           *)
buildDNF(c, s, d0, sink) ==
  LET d == canonical(d0)
      key == <<d, sink>>
      comps == orDecompose(d)
      parts == SortedSeq(IF sink = FALSEGATE THEN andDecompose(d) ELSE {d},
                            LAMBDA a, b : Min(UNION a) < Min(UNION b))
      chain == Steps(LAMBDA acc, x : buildDNF(c, acc, x, acc.g), [s EXCEPT !.g = sink],
                        Reverse(comps))
      each == Steps(LAMBDA acc, x : LET r == buildDNF(c, acc.s, x, FALSEGATE)
                                       IN  [s |-> r, gs |-> Append(acc.gs, r.g)],
                       [s |-> s, gs |-> <<>>], parts)
      res == IF Len(comps) > 1 THEN chain
             ELSE IF Len(parts) > 1 THEN mkAnd(each.s, each.gs)
             ELSE Decide(c, s, d, sink)
  IN  IF d = {} THEN [s EXCEPT !.g = sink]
      ELSE IF d = {{}} THEN [s EXCEPT !.g = TRUEGATE]
      ELSE IF \E e \in s.memo : e[1] = key
        THEN [s EXCEPT !.g = (CHOOSE e \in s.memo : e[1] = key)[2]]
      ELSE [res EXCEPT !.memo = @ \cup {<<key, res.g>>}]

structuredDNNF(c, root) ==
  LET s0 == [gates |-> <<NewGate("AND", <<>>, Q1, 0), NewGate("OR", <<>>, Q1, 0)>>,
             memo |-> {}, g |-> 0]
      s == buildDNF(c, s0, extract(c, root), FALSEGATE)
  IN  IF Extractable(c, root) THEN simplify([gates |-> s.gates, root |-> s.g]) ELSE NoDD
=============================================================================
