-------------------------- MODULE MCCircuitCleanup --------------------------
(* A constant, a leaf with a probability and a string, a gate over it whose    *)
(* token is in a row, and an orphan; see CircuitCleanup.                       *)
EXTENDS CircuitCleanup, TLC

CONSTANTS z, a, p, o, x

MCContent ==
    [t \in {z, a, p, o} |->
        [type |-> CASE t = z -> "one" [] t = p -> "times" [] OTHER -> "input",
         children |-> IF t = p THEN <<a>> ELSE <<>>]]

Gate(type, nb, idx, prob, xidx, xlen) ==
    [type |-> type, nb_children |-> nb, children_idx |-> idx, prob |-> prob,
     extra_idx |-> xidx, extra_len |-> xlen]

\* The orphan comes first, so that every index, wire and string of the others moves.
HealthyStore(version) ==
    [mapping |-> [t \in {z, a, p, o} |-> CASE t = o -> 0 [] t = a -> 1 [] t = p -> 2 [] t = z -> 3],
     gates |-> [version |-> version,
                recs |-> <<Gate("input", 0, 0, NaN, 0, 1), Gate("input", 0, 0, One, 1, 1),
                           Gate("times", 1, 0, NaN, 0, 0), Gate("one", 0, 1, NaN, 0, 0)>>],
     wires |-> <<a>>, extra |-> <<x, x>>]

\* An unreferenced record, a torn one and a dangling index.
DamagedStore ==
    [mapping |-> [t \in {z, a, p, o} |-> CASE t = o -> 7 [] t = a -> 1 [] t = p -> 2 [] t = z -> NOTHING],
     gates |-> [version |-> 2,
                recs |-> <<Gate("input", 0, 0, NaN, 0, 0), Gate("input", 0, 0, One, 0, 1),
                           Gate("times", 1, 3, NaN, 0, 2)>>],
     wires |-> <<a>>, extra |-> <<x>>]

\* After a crash of the machine an old entry may lead to a newer record: two tokens
\* of one record.
SharedStore == [HealthyStore(2) EXCEPT !.mapping[o] = 1]

MCStores == {HealthyStore(1), HealthyStore(2), DamagedStore, SharedStore}
Swap == Permutations(Sessions)
=============================================================================
