------------------------------ MODULE Planning ------------------------------
(***************************************************************************)
(* Material planning on top of Purchasing: a run nets what production asks *)
(* for against stock and open purchase orders and plans an order for each  *)
(* shortage; planners firm, cancel and release the planned orders, whole   *)
(* or in parts, into draft purchase orders.                                *)
(*                                                                         *)
(* The planned products are bought; their demand, which the code explodes  *)
(* from the bills of material of the open orders, and their consumption    *)
(* are the environment's.                                                  *)
(***************************************************************************)
EXTENDS Purchasing

CONSTANTS
    Plans,       \* the ids planned orders get
    SafetyStock, \* of every product
    MinOrder,    \* the minimum order quantity of every product
    StandardCost,\* what a released order is priced at
    MaxDemand,   \* bound: demand of a product
    MaxPlan      \* bound: the quantity of a planned order

ASSUME PlanningAssumption ==
    /\ SafetyStock \in Nat
    /\ MinOrder \in Nat
    /\ StandardCost \in Nat
    /\ MaxDemand \in Nat
    /\ MaxPlan \in Nat

VARIABLES
    plan,    \* planned_orders
    demand,  \* the gross requirement of a product
    issued   \* what production took of it

planning == <<plan, demand, issued>>
vars == <<po, line, booked, plan, demand, issued>>

PlanStatuses == {"unused", "planned", "firmed", "released", "cancelled"}
Plan == [status: PlanStatuses, item: Items, qty: Nat,
         asked: Nat,        \* history: the quantity the run asked for
         ordered: Nat]      \* history: the quantity put on purchase orders

TypeOK ==
    /\ PurchasingTypeOK
    /\ plan \in [Plans -> Plan]
    /\ demand \in [Items -> Nat]
    /\ issued \in [Items -> Nat]

-----------------------------------------------------------------------------

NewPlan(s, i, q) == [status |-> s, item |-> i, qty |-> q, asked |-> q, ordered |-> 0]
FreePlan == NewPlan("unused", AnyItem, 0)

OnHand(i) == booked[i] - issued[i]
(* Shipped orders are not among the open ones.                             *)
Incoming(i) ==
    LET due == {l \in Lines : line[l].item = i /\ line[l].po # NoOrder
                              /\ po[line[l].po].status \in {"draft", "ordered"}}
    IN  SumFunction([l \in due |-> Open(l)])

Shortage(i) == Max({0, demand[i] + SafetyStock - OnHand(i) - Incoming(i)})
Lot(i) == Max({Shortage(i), MinOrder})

(* A run.  Planned orders that are not firm go first, if asked; a product  *)
(* gets a new one when it is short.  The orders for some products only,    *)
(* and the deletions, stay when the run fails: it commits what it did.     *)
RunMRP(regenerate, new) ==
    LET kept == [k \in Plans |-> IF regenerate /\ plan[k].status = "planned" THEN FreePlan
                                 ELSE plan[k]]
        short == {i \in Items : demand[i] > 0 /\ Shortage(i) > 0}
    IN  /\ DOMAIN new \subseteq short
        /\ \A i \in DOMAIN new : Lot(i) \in 1..MaxPlan
        /\ \A i, j \in DOMAIN new : new[i] = new[j] => i = j
        /\ \A i \in DOMAIN new : kept[new[i]].status = "unused"
        /\ plan' = [k \in Plans |->
                      IF \E i \in DOMAIN new : new[i] = k
                      THEN LET i == CHOOSE i \in DOMAIN new : new[i] = k
                           IN  NewPlan("planned", i, Lot(i))
                      ELSE kept[k]]
        /\ UNCHANGED <<po, line, booked, demand, issued>>

FirmPlannedOrder(k) ==
    /\ plan[k].status = "planned"
    /\ plan' = [plan EXCEPT ![k].status = "firmed"]
    /\ UNCHANGED <<po, line, booked, demand, issued>>

CancelPlannedOrder(k) ==
    /\ plan[k].status \in {"planned", "firmed", "cancelled"}
    /\ plan' = [plan EXCEPT ![k].status = "cancelled"]
    /\ UNCHANGED <<po, line, booked, demand, issued>>

(* Mutant of Released: a released part stays on the planned order.         *)
ReleasedWhole(k, q) ==
    [plan EXCEPT ![k].ordered = @ + q,
                 ![k].status = IF q < plan[k].qty THEN @ ELSE "released"]

(* The planned order after q of it was released.                           *)
Released(k, q) ==
    IF q < plan[k].qty THEN [plan EXCEPT ![k].qty = @ - q, ![k].ordered = @ + q]
    ELSE [plan EXCEPT ![k].status = "released", ![k].ordered = @ + q]

(* All or a part of a planned order becomes a draft with one line.         *)
ReleasePlannedOrder(k, q, p, l) ==
    /\ plan[k].status \in {"planned", "firmed"}
    /\ q <= plan[k].qty
    /\ po[p].status = "unused"
    /\ l \in FreeLines
    /\ po' = [po EXCEPT ![p] = NewOrder("draft", 0)]
    /\ line' = [line EXCEPT ![l] = NewLine(p, plan[k].item, q, StandardCost)]
    /\ plan' = Released(k, q)
    /\ UNCHANGED <<booked, demand, issued>>

(* The environment: production orders come and go, and take material.      *)
ChangeDemand(i, d) ==
    /\ demand' = [demand EXCEPT ![i] = d]
    /\ UNCHANGED <<po, line, booked, plan, issued>>

IssueMaterial(i) ==
    /\ OnHand(i) > 0
    /\ issued' = [issued EXCEPT ![i] = @ + 1]
    /\ UNCHANGED <<po, line, booked, plan, demand>>

-----------------------------------------------------------------------------

Init ==
    /\ PurchasingInit
    /\ plan = [k \in Plans |-> FreePlan]
    /\ demand = [i \in Items |-> 0]
    /\ issued = [i \in Items |-> 0]

Next ==
    \/ PurchasingNext /\ UNCHANGED planning
    \/ \E regenerate \in BOOLEAN, is \in SUBSET Items :
         \E new \in [is -> Plans] : RunMRP(regenerate, new)
    \/ \E k \in Plans : FirmPlannedOrder(k) \/ CancelPlannedOrder(k)
    \/ \E k \in Plans, q \in Quantities, p \in Orders, l \in Lines : ReleasePlannedOrder(k, q, p, l)
    \/ \E i \in Items, d \in 0..MaxDemand : ChangeDemand(i, d)
    \/ \E i \in Items : IssueMaterial(i)

Spec == Init /\ [][Next]_vars

-----------------------------------------------------------------------------
(* Properties.                                                             *)

(* A planned quantity is ordered once: what is still planned and what was  *)
(* put on purchase orders, in parts or whole, is what the run asked for.   *)
PlannedOnce ==
    \A k \in Plans :
        /\ plan[k].status \in {"planned", "firmed"} => plan[k].qty + plan[k].ordered = plan[k].asked
        /\ plan[k].status = "released" => plan[k].ordered = plan[k].asked
=============================================================================
