-------------------------- MODULE MCMMappedCircuit --------------------------
(***************************************************************************)
(* A small store: a plus gate over a times gate and an input, whose gates  *)
(* may be created in any order, so that the children are lazy-added before *)
(* they are created, annotated before they are created, or neither.        *)
(***************************************************************************)
EXTENDS MMappedCircuit

CONSTANTS p1, p2, a

MCTokens == {"sum", "product", "leaf"}
MCContent ==
    [t \in MCTokens |->
        CASE t = "sum"     -> [type |-> "gate_plus",  children |-> <<"product", "leaf">>]
          [] t = "product" -> [type |-> "gate_times", children |-> <<"leaf">>]
          [] t = "leaf"    -> [type |-> "gate_input", children |-> <<>>]]
MCGateTypes == {"gate_input", "gate_update", "gate_mulinput", "gate_plus", "gate_times"}
Creates ==
    {[op |-> "C", token |-> t, type |-> MCContent[t].type,
      children |-> MCContent[t].children] : t \in MCTokens}

\* Every kind of message, on the gates that are created in several orders.
MCOffered ==
    Creates
    \cup [op : {"P"}, token : {"leaf"}, prob : Probs \cup {NaN}]
    \cup [op : {"P"}, token : {"product"}, prob : {p1}]
    \cup {[op |-> "I", token |-> "product", info1 |-> i[1], info2 |-> i[2]] :
             i \in {<<1, 0>>, <<2, 1>>}}
    \cup [op : {"E"}, token : {"product"}, str : Extras]

MCExtras == {<<a>>, <<a, a>>}
=============================================================================
