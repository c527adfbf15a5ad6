------------------------- MODULE MCProductionOrders -------------------------
(***************************************************************************)
(* Small instances of ProductionOrders for TLC.                            *)
(***************************************************************************)
EXTENDS ProductionOrders, TLC

(* Orders are created on demand and never compared: any two are alike.     *)
OrdersAreAlike == Permutations(Orders)

(* Bound of the split run: at most one order has left planning, the other  *)
(* is a draft that nobody works on, or not created.                        *)
OneOnTheFloor ==
    Cardinality({o \in Orders :
        \/ order[o].status \notin {"unused", "draft"}
        \/ \E i \in Ops : op[o][i].status # "pending"}) <= 1

(* Bound of the planning run: nothing is reported, scrapped or closed yet. *)
StillPlanned ==
    \A o \in Orders :
        /\ order[o].status \in
             {"unused", "draft", "released", "on_hold", "in_progress"}
        /\ order[o].scrapped = 0
        /\ \A i \in Ops : op[o][i].status \notin {"complete", "skipped"} /\ op[o][i].bad = 0

(* Bound of the routed and competing runs: no order is scrapped more than  *)
(* once over.                                                              *)
ScrappedOnce == \A o \in Orders : order[o].scrapped <= order[o].ordered

(* Bound of the routed run: the reservations of an order are released once *)
(* over.  A cancelled order can be started and cancelled again without     *)
(* end, and every cancellation writes its releases again.                  *)
ReleasedOnce == \A o \in Orders : txn[o].released <= NumOps * order[o].ordered

(* Bound of the competing run: twice over.                                 *)
ReleasedTwice == \A o \in Orders : txn[o].released <= 2 * NumOps * MaxQty

(* Bound of the routed run: an order that is taken up again is neither     *)
(* scrapped nor inspected, and nothing that its rows had held is approved  *)
(* or rejected unless they were replaced.                                  *)
ReopenedPlainly ==
    \A o \in Orders : order[o].reopened > 0 =>
        /\ order[o].scrapped = 0 /\ order[o].inspections = 0
        /\ \A i \in Ops : op[o][i].bad = 0 /\ mat[o][i].posting \notin {"approved", "voided"}
=============================================================================
