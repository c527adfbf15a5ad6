-------------------------- MODULE MCSalesFulfilment -------------------------
(***************************************************************************)
(* A small instance of SalesFulfilment for TLC.                            *)
(***************************************************************************)
EXTENDS SalesFulfilment, TLC

(* Ids are given out on demand and never compared.                         *)
IdsAreAlike == Permutations(Orders) \cup Permutations(WorkOrders)

UsedOrders == {o \in Orders : so[o].status # "unused"}
UsedWork == {w \in WorkOrders : wo[w].status # "unused"}

(* Bound: two pieces in the lines of an order with work, and in all work.  *)
FewPieces ==
    UsedWork # {} =>
        Total(Lines) <= 2 /\ SumFunction([w \in UsedWork |-> wo[w].qty]) <= 2

Aside == {"on_hold", "pending_confirmation", "deleted", "delivered", "completed"}
LegacyOnly == {"printed", "completed", "qc_failed"}

(* Bound: two orders at once are shipped from the opening stock.           *)
TwoOrders ==
    /\ UsedWork = {}
    /\ \A o \in Orders : so[o].status \notin Aside

(* Bound: an order with work does not leave the main path; it is of one    *)
(* line, made for by one piece, when it is shipped again.                  *)
OrderWithWork(o) ==
    /\ so[o].status \notin Aside \ {"on_hold"} /\ ~goods[o].everHeld
    /\ so[o].status = "on_hold" =>
         \/ so[o].reopened
         \/ \A w \in UsedWork : wo[w].status \in {"complete", "cancelled"}
    /\ so[o].shippedAt =>
         \A w \in UsedWork : wo[w].status \in {"in_progress", "complete", "cancelled"} \cup LegacyOnly
    /\ so[o].reopened =>
         /\ Cardinality(LinesOf(o)) <= 1
         /\ so[o].status \in {"ready_to_ship", "shipped", "on_hold"}
         /\ \A w \in UsedWork : wo[w].qty <= 1 /\ wo[w].status \in {"completed", "cancelled"}

(* A work order with reported operations that are scheduled again.         *)
TakenUpAgain(w) == wo[w].lowered \/ (wo[w].open /\ (wo[w].ended \/ wo[w].done > 0))

(* Bound: one work order alone does not come back after a cancellation; it *)
(* is taken up again for the one line of an order on its way to shipment.  *)
OneWorkOrder ==
    /\ fg <= 3
    /\ \A w \in UsedWork :
         /\ wo[w].source # "revived"
         /\ TakenUpAgain(w) =>
              /\ Cardinality(UsedOrders) = 1 /\ wo[w].line # NoLine /\ LinesOf(wo[w].so) = {wo[w].line}
              /\ so[wo[w].so].status \in {"in_production", "ready_to_ship"}
              /\ wo[w].status \in {"released", "in_progress", "short", "complete"}

Straight(w) ==
    /\ wo[w].status \in {"draft", "released", "in_progress", "complete"}
    /\ wo[w].source # "revived" /\ wo[w].done \in {0, wo[w].qty}

(* Bound: two work orders are followed up to the first shipment, and one   *)
(* of them runs straight through the new handlers.                         *)
TwoWorkOrders ==
    /\ fg >= 2
    /\ \A o \in UsedOrders :
         /\ so[o].status \in {"confirmed", "in_production", "ready_to_ship"}
         /\ so[o].kind = "lines" /\ ~so[o].shippedAt /\ ~so[o].closedShort
    /\ \A w \in UsedWork :
         wo[w].status \notin LegacyOnly /\ wo[w].so # NoOrder /\ ~TakenUpAgain(w)
    /\ \E w \in UsedWork : wo[w].source # "other"
    /\ \E w \in UsedWork : Straight(w)

SmallInstance ==
    /\ FewPieces
    /\ Cardinality(UsedOrders) > 1 => TwoOrders
    /\ UsedWork # {} => \A o \in UsedOrders : OrderWithWork(o)
    /\ Cardinality(UsedWork) = 1 => OneWorkOrder
    /\ Cardinality(UsedWork) > 1 => TwoWorkOrders
=============================================================================
