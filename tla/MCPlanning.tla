----------------------------- MODULE MCPlanning -----------------------------
(***************************************************************************)
(* A small instance of Planning for TLC.                                   *)
(***************************************************************************)
EXTENDS Planning, TLC

IdsAreAlike == Permutations(Orders) \cup Permutations(Lines) \cup Permutations(Plans)

(* Bound: either one purchase order by hand, with freight and any prices   *)
(* of the first product, the other at its standard cost;                   *)
(* or planning, with orders of one line each for one product, no freight   *)
(* and no edit after a receipt; one piece of it is consumed, and the       *)
(* planned orders for the other product are left alone.                    *)
ByHand ==
    /\ Cardinality({p \in Orders : po[p].status # "unused"}) <= 1
    /\ \A l \in Lines : line[l].po # NoOrder /\ line[l].item # AnyItem => line[l].cost = StandardCost
    /\ demand = [i \in Items |-> 0] /\ plan = [k \in Plans |-> FreePlan]
    /\ issued = [i \in Items |-> 0]

ByPlan ==
    /\ \A p \in Orders : po[p].freight = 0 /\ po[p].steady /\ Cardinality(LinesOf(p)) <= 1
    /\ \A l \in Lines : line[l].po # NoOrder => line[l].cost = StandardCost /\ line[l].item = AnyItem
    /\ \A i \in Items : issued[i] <= 1
    /\ \A k \in Plans : plan[k].item # AnyItem => plan[k].status = "planned"

SmallInstance == ByHand \/ ByPlan
=============================================================================
