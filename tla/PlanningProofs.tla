--------------------------- MODULE PlanningProofs ---------------------------
(***************************************************************************)
(* No line is over-received, a received order has nothing left to come, a  *)
(* planned quantity is ordered once, stock is what the lines show, and the *)
(* freight of an order is in the cost of its goods once: for any number of *)
(* orders, lines and plans, and any prices.                                *)
(*                                                                         *)
(* The first three need only the status of an order and its lines          *)
(* (ReceiptInv, PlansInv).  The other two take the handlers but the        *)
(* receipt and the change of status together (Revised): each changes one   *)
(* order, and lines nothing has come for.  Freight is tracked to half a    *)
(* unit for each piece received until the receipt that completes the order *)
(* settles it (FreightInv).                                                *)
(***************************************************************************)
EXTENDS Planning, FiniteLemmas, TLAPS

(* What is known of the table of purchase orders.                          *)
OrdersOK ==
    /\ DOMAIN po = Orders
    /\ \A p \in Orders : "status" \in DOMAIN po[p] /\ po[p].status \in Statuses

LinesOK == line \in [Lines -> OrderLine]

ReceiptInv == OrdersOK /\ LinesOK /\ ReceivedWithinOrdered /\ ReceivedIsFull

PlansInv == plan \in [Plans -> Plan] /\ PlannedOnce

(* A line that belongs to nobody, as a new order finds it, is a line.      *)
LEMMA FreeLineOK == FreeLine \in OrderLine /\ AnyItem \in Items
<1>1. AnyItem \in Items
  BY PurchasingAssumption DEF AnyItem
<1> QED
  BY <1>1 DEF FreeLine, NewLine, OrderLine

(* So is one that is new on an order.                                      *)
LEMMA NewLineOK ==
  ASSUME NEW p \in Orders, NEW i \in Items, NEW q \in Nat, NEW c \in Nat
  PROVE  /\ NewLine(p, i, q, c) \in OrderLine
         /\ NewLine(p, i, q, c).po = p
         /\ NewLine(p, i, q, c).ordered = q
         /\ NewLine(p, i, q, c).received = 0
  BY DEF NewLine, OrderLine

(* There are no orders at the start.                                       *)
LEMMA ReceiptInvInit == ASSUME PurchasingInit PROVE ReceiptInv
<1>1. OrdersOK
  BY DEF PurchasingInit, OrdersOK, NewOrder, Statuses
<1>2. LinesOK
  BY FreeLineOK DEF PurchasingInit, LinesOK
<1>3. \A l \in Lines : line[l].received = 0 /\ line[l].ordered = 0
  BY DEF PurchasingInit, FreeLine, NewLine
<1>4. ReceivedWithinOrdered
  BY <1>3 DEF ReceivedWithinOrdered
<1>5. ReceivedIsFull
  BY DEF PurchasingInit, ReceivedIsFull, NewOrder
<1> QED
  BY <1>1, <1>2, <1>4, <1>5 DEF ReceiptInv

(* The step of an order that is not received, to one that is not either:   *)
(* the lines of the others are left alone, and its own are not             *)
(* over-received.                                                          *)
LEMMA OpenOrderStep ==
  ASSUME ReceiptInv, NEW p \in Orders,
         OrdersOK', LinesOK',
         po'[p].status \notin {"received", "closed"},
         \A q \in Orders \ {p} : po'[q] = po[q],
         \A l \in Lines : line'[l] = line[l] \/ (line'[l].po \in {p, NoOrder}
                                                 /\ line'[l].received <= line'[l].ordered)
  PROVE  ReceiptInv'
<1> USE DEF ReceiptInv
<1>1. ReceivedWithinOrdered'
  BY DEF ReceivedWithinOrdered
<1>2. ReceivedIsFull'
  <2> SUFFICES ASSUME NEW q \in Orders, po'[q].status \in {"received", "closed"},
                      NEW l \in Lines, line'[l].po = q
               PROVE  Open(l)' = 0
    BY DEF ReceivedIsFull, LinesOf
  <2>1. q # p /\ po'[q] = po[q] /\ q # NoOrder
    BY PurchasingAssumption
  <2>2. line'[l] = line[l]
    BY <2>1
  <2> QED
    BY <2>1, <2>2 DEF ReceivedIsFull, LinesOf, Open
<1> QED
  BY <1>1, <1>2

(* A status that is set.                                                   *)
LEMMA StatusSet ==
  ASSUME OrdersOK, NEW p \in Orders, NEW s \in Statuses, SetStatus(p, s)
  PROVE  /\ OrdersOK'
         /\ po'[p].status = s
         /\ \A q \in Orders \ {p} : po'[q] = po[q]
<1>1. po' = [po EXCEPT ![p] = [po[p] EXCEPT !.status = s]]
  BY DEF SetStatus
<1>2. \A q \in Orders \ {p} : po'[q] = po[q]
  BY <1>1 DEF OrdersOK
<1>3. po'[p].status = s /\ "status" \in DOMAIN po'[p]
  BY <1>1 DEF OrdersOK
<1>4. DOMAIN po' = Orders
  BY <1>1 DEF OrdersOK
<1> QED
  BY <1>2, <1>3, <1>4 DEF OrdersOK

(* The status outlives every edit of a line.                               *)
LEMMA EditedKeepsStatus ==
  ASSUME OrdersOK, NEW p \in Orders, Edited(p)
  PROVE  /\ OrdersOK'
         /\ po'[p].status = po[p].status
         /\ \A q \in Orders \ {p} : po'[q] = po[q]
<1> DEFINE steady == po[p].steady /\ \A l \in LinesOf(p) : line[l].received = 0
<1>1. po' = [po EXCEPT ![p] = [po[p] EXCEPT !.steady = steady]]
  BY DEF Edited
<1> HIDE DEF steady
<1>2. \A q \in Orders \ {p} : po'[q] = po[q]
  BY <1>1 DEF OrdersOK
<1>3. po'[p].status = po[p].status /\ "status" \in DOMAIN po'[p]
  BY <1>1 DEF OrdersOK
<1>4. DOMAIN po' = Orders
  BY <1>1 DEF OrdersOK
<1> QED
  BY <1>2, <1>3, <1>4 DEF OrdersOK

(* A new order.                                                            *)
LEMMA OrderSet ==
  ASSUME OrdersOK, NEW p \in Orders, NEW s \in Statuses, NEW f,
         po' = [po EXCEPT ![p] = NewOrder(s, f)]
  PROVE  /\ OrdersOK'
         /\ po'[p].status = s
         /\ \A q \in Orders \ {p} : po'[q] = po[q]
  BY DEF OrdersOK, NewOrder

-----------------------------------------------------------------------------

(* The handlers that make, edit and delete orders and lines.               *)
LEMMA OrderKeeps ==
  ASSUME ReceiptInv, NEW p \in Orders, NEW f \in Freights,
         \/ \E ls \in SUBSET Lines :
              \E i \in [ls -> Items], q \in [ls -> Quantities], c \in [ls -> Costs] :
                CreateOrder(p, f, ls, i, q, c)
         \/ UpdateOrder(p, f)
  PROVE  ReceiptInv'
<1> USE DEF ReceiptInv
<1>1. ASSUME NEW ls \in SUBSET Lines, NEW i \in [ls -> Items], NEW q \in [ls -> Quantities],
             NEW c \in [ls -> Costs], CreateOrder(p, f, ls, i, q, c)
      PROVE  ReceiptInv'
  <2>1. OrdersOK' /\ po'[p].status = "draft" /\ \A r \in Orders \ {p} : po'[r] = po[r]
    BY <1>1, OrderSet DEF CreateOrder, Statuses
  <2>2. \A l \in ls : /\ i[l] \in Items /\ q[l] \in Nat /\ c[l] \in Nat /\ 0 <= q[l]
                      /\ line'[l] = NewLine(p, i[l], q[l], c[l])
    <3>1. \A l \in ls : i[l] \in Items /\ q[l] \in Nat /\ c[l] \in Nat /\ 0 <= q[l]
      <4>1. \A n \in Quantities : n \in Nat /\ 0 <= n
        BY PurchasingAssumption DEF Quantities
      <4>2. \A l \in ls : i[l] \in Items /\ q[l] \in Quantities /\ c[l] \in Costs
        OBVIOUS
      <4> QED
        BY <4>1, <4>2, PurchasingAssumption
    <3>2. \A l \in ls : line'[l] = NewLine(p, i[l], q[l], c[l])
      <4>1. line' = [l \in Lines |-> IF l \in ls THEN NewLine(p, i[l], q[l], c[l]) ELSE line[l]]
        BY <1>1, Zenon DEF CreateOrder
      <4> QED
        BY <4>1, Zenon
    <3> QED
      BY <3>1, <3>2
  <2>3. \A l \in ls : /\ line'[l] \in OrderLine /\ line'[l].po = p
                      /\ line'[l].received <= line'[l].ordered
    BY <2>2, NewLineOK
  <2>4. \A l \in Lines \ ls : line'[l] = line[l]
    BY <1>1 DEF CreateOrder
  <2>5. LinesOK'
    BY <1>1, <2>3, <2>4 DEF CreateOrder, LinesOK
  <2> QED
    BY <2>1, <2>3, <2>4, <2>5, OpenOrderStep
<1>2. CASE UpdateOrder(p, f)
  <2>1. po[p].status \in {"draft", "ordered", "shipped"} /\ line' = line
    BY <1>2 DEF UpdateOrder
  <2>2. OrdersOK' /\ po'[p].status = po[p].status /\ \A q \in Orders \ {p} : po'[q] = po[q]
    <3> DEFINE steady == po[p].steady /\ \A l \in LinesOf(p) : line[l].received = 0
    <3>1. po' = [po EXCEPT ![p] = [[po[p] EXCEPT !.freight = f] EXCEPT !.steady = steady]]
      BY <1>2 DEF UpdateOrder, OrdersOK
    <3> HIDE DEF steady
    <3> QED
      BY <3>1 DEF OrdersOK
  <2> QED
    BY <2>1, <2>2, OpenOrderStep DEF LinesOK
<1> QED
  BY <1>1, <1>2

(* What every edit of a line is: its order was open and stays so.          *)
LEMMA EditKeeps ==
  ASSUME ReceiptInv, NEW p \in Orders, NEW l \in Lines, Editable(p), Edited(p),
         NEW r \in OrderLine, r.po \in {p, NoOrder}, r.received <= r.ordered,
         line' = [line EXCEPT ![l] = r]
  PROVE  ReceiptInv'
<1>1. po[p].status \in {"draft", "ordered"}
  BY DEF Editable
<1>2. OrdersOK' /\ po'[p].status = po[p].status /\ \A q \in Orders \ {p} : po'[q] = po[q]
  BY EditedKeepsStatus DEF ReceiptInv
<1>3. LinesOK' /\ line'[l] = r /\ \A m \in Lines \ {l} : line'[m] = line[m]
  BY DEF ReceiptInv, LinesOK
<1> QED
  BY <1>1, <1>2, <1>3, OpenOrderStep

(* Lines are added and edited, not below what was received.                *)
LEMMA LineKeeps ==
  ASSUME ReceiptInv, NEW l \in Lines, NEW q \in Quantities, NEW c \in Costs,
         \/ \E p \in Orders, i \in Items : AddLine(p, l, i, q, c)
         \/ UpdateLine(l, q, c)
  PROVE  ReceiptInv'
<1>1. q \in Nat /\ c \in Nat /\ 0 <= q
  BY PurchasingAssumption DEF Quantities
<1>2. line[l] \in OrderLine
  BY DEF ReceiptInv, LinesOK
<1>3. ASSUME NEW p \in Orders, NEW i \in Items, AddLine(p, l, i, q, c)
      PROVE  ReceiptInv'
  <2> DEFINE r == NewLine(p, i, q, c)
  <2>1. r \in OrderLine /\ r.po = p /\ r.received <= r.ordered
    BY <1>1, NewLineOK
  <2>2. Editable(p) /\ Edited(p) /\ line' = [line EXCEPT ![l] = r]
    BY <1>3 DEF AddLine
  <2> HIDE DEF r
  <2> QED
    BY <2>1, <2>2, EditKeeps
<1>4. CASE UpdateLine(l, q, c)
  <2> DEFINE r == [line[l] EXCEPT !.ordered = q, !.cost = c]
  <2>1. /\ line[l].po \in Orders /\ Editable(line[l].po) /\ Edited(line[l].po)
        /\ line[l].received <= q
        /\ line' = [line EXCEPT ![l] = r]
    BY <1>1, <1>2, <1>4 DEF UpdateLine, OrderLine, ReceiptInv, LinesOK
  <2>2. r \in OrderLine /\ r.po = line[l].po /\ r.received = line[l].received /\ r.ordered = q
    BY <1>1, <1>2 DEF OrderLine
  <2> HIDE DEF r
  <2> QED
    BY <2>1, <2>2, EditKeeps
<1> QED
  BY <1>3, <1>4

(* A deletion leaves lines that belong to nobody.                          *)
LEMMA DeletionKeeps ==
  ASSUME ReceiptInv,
         (\E p \in Orders : DeleteOrder(p)) \/ (\E l \in Lines : DeleteLine(l))
  PROVE  ReceiptInv'
<1>1. FreeLine.po = NoOrder /\ FreeLine.received = 0 /\ FreeLine.ordered = 0
  BY DEF FreeLine, NewLine
<1>2. ASSUME NEW p \in Orders, DeleteOrder(p) PROVE ReceiptInv'
  <2>1. OrdersOK' /\ po'[p].status = "unused" /\ \A r \in Orders \ {p} : po'[r] = po[r]
    BY <1>2, OrderSet DEF DeleteOrder, ReceiptInv, Statuses
  <2>2. \A l \in Lines : line'[l] = line[l] \/ line'[l] = FreeLine
    BY <1>2 DEF DeleteOrder
  <2>3. LinesOK'
    BY <1>2, FreeLineOK DEF DeleteOrder, ReceiptInv, LinesOK
  <2> QED
    BY <1>1, <2>1, <2>2, <2>3, OpenOrderStep
<1>3. ASSUME NEW l \in Lines, DeleteLine(l) PROVE ReceiptInv'
  <2>1. line[l] \in OrderLine
    BY DEF ReceiptInv, LinesOK
  <2>2. line[l].po \in Orders
    BY <1>3, <2>1 DEF DeleteLine, OrderLine
  <2>3. FreeLine.received <= FreeLine.ordered
    BY <1>1
  <2> QED
    BY <1>1, <1>3, <2>2, <2>3, FreeLineOK, EditKeeps DEF DeleteLine
<1> QED
  BY <1>2, <1>3

(* A status a user asks for: none leads to received, and only a received   *)
(* order is closed.                                                        *)
LEMMA StatusKeeps ==
  ASSUME ReceiptInv, NEW p \in Orders, NEW s \in Statuses, UpdateStatus(p, s)
  PROVE  ReceiptInv'
<1>1. line' = line /\ SetStatus(p, s)
  BY DEF UpdateStatus
<1>2. s # "received" /\ (s = "closed" => po[p].status = "received")
  BY DEF UpdateStatus, Transitions
<1>3. OrdersOK' /\ po'[p].status = s /\ \A q \in Orders \ {p} : po'[q] = po[q]
  BY <1>1, StatusSet DEF ReceiptInv
<1>4. LinesOK' /\ ReceivedWithinOrdered'
  BY <1>1 DEF ReceiptInv, LinesOK, ReceivedWithinOrdered
<1>5. \A q \in Orders : po'[q].status \in {"received", "closed"} =>
                          po[q].status \in {"received", "closed"}
  BY <1>2, <1>3
<1>6. ReceivedIsFull'
  BY <1>1, <1>5 DEF ReceiptInv, ReceivedIsFull, LinesOf, Open
<1> QED
  BY <1>3, <1>4, <1>6 DEF ReceiptInv

(* A receipt takes no more of a line than is open, and completes the order *)
(* only when it leaves none of them open.                                  *)
LEMMA ReceiveKeeps ==
  ASSUME ReceiptInv, NEW p \in Orders, NEW ls \in SUBSET Lines, NEW got \in [ls -> Quantities],
         NEW last, Receive(p, got, last)
  PROVE  ReceiptInv'
<1> DEFINE shares == Shares(p, got, last)
           a == po[p].allocated + SumFunction(shares)
           c == po[p].capitalised + SumFunctionOnSet(shares, {l \in DOMAIN got : shares[l] > 0})
           s == IF Completes(p, got) THEN "received" ELSE po[p].status
<1>1. DOMAIN got = ls /\ \A l \in ls : got[l] \in Nat
  BY PurchasingAssumption DEF Quantities
<1>2. /\ po[p].status \in {"ordered", "shipped"}
      /\ \A l \in ls : got[l] <= Open(l)
  BY <1>1 DEF Receive
<1>3. po' = [po EXCEPT ![p] = [[[po[p] EXCEPT !.allocated = a]
                                  EXCEPT !.capitalised = c] EXCEPT !.status = s]]
  BY DEF Receive, ReceiptInv, OrdersOK
<1>4. line' = [l \in Lines |-> IF l \in ls THEN [line[l] EXCEPT !.received = @ + got[l]]
                               ELSE line[l]]
  BY <1>1, Zenon DEF Receive
<1> HIDE DEF a, c
<1>5. OrdersOK' /\ po'[p].status = s /\ \A q \in Orders \ {p} : po'[q] = po[q]
  BY <1>2, <1>3 DEF ReceiptInv, OrdersOK, Statuses
<1>6. LinesOK'
  <2>1. \A l \in Lines : line[l] \in OrderLine /\ line'[l] \in OrderLine
    BY <1>1, <1>4 DEF ReceiptInv, LinesOK, OrderLine
  <2> QED
    BY <1>4, <2>1 DEF LinesOK
<1>7. \A l \in Lines :
        /\ line[l].received \in Nat /\ line[l].ordered \in Nat
        /\ line'[l].po = line[l].po /\ line'[l].ordered = line[l].ordered
        /\ line'[l].received = IF l \in ls THEN line[l].received + got[l] ELSE line[l].received
  BY <1>1, <1>4 DEF ReceiptInv, LinesOK, OrderLine
<1>8. ReceivedWithinOrdered'
  BY <1>1, <1>2, <1>7 DEF ReceiptInv, ReceivedWithinOrdered, Open
<1>9. ReceivedIsFull'
  <2> SUFFICES ASSUME NEW q \in Orders, po'[q].status \in {"received", "closed"},
                      NEW l \in Lines, line'[l].po = q
               PROVE  Open(l)' = 0
    BY DEF ReceivedIsFull, LinesOf
  <2>1. CASE q = p
    <3>1. Completes(p, got) /\ l \in LinesOf(p)
      BY <1>2, <1>5, <1>7, <2>1 DEF LinesOf
    <3>2. line'[l].received >= line[l].ordered
      BY <1>1, <1>7, <3>1 DEF Completes
    <3> QED
      BY <1>1, <1>7, <1>8, <3>2 DEF ReceivedWithinOrdered, Open
  <2>2. CASE q # p
    <3>1. l \in LinesOf(q) /\ l \notin LinesOf(p) /\ po'[q] = po[q]
      BY <1>5, <1>7, <2>2 DEF LinesOf
    <3>2. l \notin ls
      BY <1>1, <3>1 DEF Receive
    <3> QED
      BY <1>7, <3>1, <3>2 DEF ReceiptInv, ReceivedIsFull, Open
  <2> QED
    BY <2>1, <2>2
<1> QED
  BY <1>5, <1>6, <1>8, <1>9 DEF ReceiptInv

(* A released part is a line of a new draft.                               *)
LEMMA ReleaseKeeps ==
  ASSUME ReceiptInv, plan \in [Plans -> Plan], NEW k \in Plans, NEW q \in Quantities,
         NEW p \in Orders, NEW l \in Lines, ReleasePlannedOrder(k, q, p, l)
  PROVE  ReceiptInv'
<1> DEFINE r == NewLine(p, plan[k].item, q, StandardCost)
<1>1. q \in Nat /\ 0 <= q /\ plan[k].item \in Items
  BY PurchasingAssumption DEF Quantities, Plan
<1>2. r \in OrderLine /\ r.po = p /\ r.received <= r.ordered
  BY <1>1, NewLineOK, PlanningAssumption
<1>3. po' = [po EXCEPT ![p] = NewOrder("draft", 0)] /\ line' = [line EXCEPT ![l] = r]
  BY DEF ReleasePlannedOrder
<1> HIDE DEF r
<1>4. OrdersOK' /\ po'[p].status = "draft" /\ \A o \in Orders \ {p} : po'[o] = po[o]
  BY <1>3, OrderSet DEF ReceiptInv, Statuses
<1>5. LinesOK' /\ line'[l] = r /\ \A m \in Lines \ {l} : line'[m] = line[m]
  BY <1>2, <1>3 DEF ReceiptInv, LinesOK
<1> QED
  BY <1>2, <1>4, <1>5, OpenOrderStep

(* Every step keeps what is known of orders and lines.                     *)
LEMMA ReceiptInvNext ==
  ASSUME ReceiptInv, plan \in [Plans -> Plan], [Next]_vars
  PROVE  ReceiptInv'
<1>1. CASE UNCHANGED <<po, line>>
  BY <1>1 DEF ReceiptInv, OrdersOK, LinesOK, ReceivedWithinOrdered, ReceivedIsFull, LinesOf, Open
<1>2. CASE PurchasingNext
  <2>1. CASE \E p \in Orders, f \in Freights, ls \in SUBSET Lines :
               \E i \in [ls -> Items], q \in [ls -> Quantities], c \in [ls -> Costs] :
                 CreateOrder(p, f, ls, i, q, c)
    BY <2>1, OrderKeeps
  <2>2. CASE \E p \in Orders, f \in Freights : UpdateOrder(p, f)
    BY <2>2, OrderKeeps
  <2>3. CASE (\E p \in Orders : DeleteOrder(p)) \/ (\E l \in Lines : DeleteLine(l))
    BY <2>3, DeletionKeeps
  <2>4. CASE \E l \in Lines, q \in Quantities, c \in Costs :
               UpdateLine(l, q, c) \/ \E p \in Orders, i \in Items : AddLine(p, l, i, q, c)
    BY <2>4, LineKeeps
  <2>5. CASE \E p \in Orders, s \in Statuses : UpdateStatus(p, s)
    BY <2>5, StatusKeeps
  <2>6. CASE \E p \in Orders, ls \in SUBSET Lines :
               \E got \in [ls -> Quantities], last \in Lines : Receive(p, got, last)
    BY <2>6, ReceiveKeeps
  <2> QED
    BY <1>2, <2>1, <2>2, <2>3, <2>4, <2>5, <2>6 DEF PurchasingNext
<1>3. CASE \E k \in Plans, q \in Quantities, p \in Orders, l \in Lines :
             ReleasePlannedOrder(k, q, p, l)
  BY <1>3, ReleaseKeeps
<1>4. CASE \/ \E regenerate \in BOOLEAN, is \in SUBSET Items :
                \E new \in [is -> Plans] : RunMRP(regenerate, new)
           \/ \E k \in Plans : FirmPlannedOrder(k) \/ CancelPlannedOrder(k)
           \/ \E i \in Items, d \in 0..MaxDemand : ChangeDemand(i, d)
           \/ \E i \in Items : IssueMaterial(i)
  <2>1. UNCHANGED <<po, line>>
    BY <1>4 DEF RunMRP, FirmPlannedOrder, CancelPlannedOrder, ChangeDemand, IssueMaterial
  <2> QED
    BY <1>1, <2>1
<1>5. CASE UNCHANGED vars
  BY <1>1, <1>5 DEF vars
<1> QED
  BY <1>2, <1>3, <1>4, <1>5 DEF Next

-----------------------------------------------------------------------------
(* Planned orders.                                                         *)

(* Nothing is planned at the start.                                        *)
LEMMA PlansInvInit == ASSUME Init PROVE PlansInv
<1>1. FreePlan \in Plan
  BY FreeLineOK DEF FreePlan, NewPlan, Plan, PlanStatuses
<1>2. plan = [k \in Plans |-> FreePlan] /\ FreePlan.status = "unused"
  BY DEF Init, FreePlan, NewPlan
<1> QED
  BY <1>1, <1>2 DEF PlansInv, PlannedOnce

(* What a run plans: an order of the lot it computed, or none, or one that *)
(* was there.                                                              *)
LEMMA RunKeeps ==
  ASSUME PlansInv, NEW regenerate \in BOOLEAN, NEW is \in SUBSET Items,
         NEW new \in [is -> Plans], RunMRP(regenerate, new)
  PROVE  PlansInv'
<1> DEFINE kept == [k \in Plans |-> IF regenerate /\ plan[k].status = "planned" THEN FreePlan
                                    ELSE plan[k]]
           of(k) == CHOOSE i \in DOMAIN new : new[i] = k
<1>1. DOMAIN new = is
  OBVIOUS
<1>2. \A i \in is : Lot(i) \in Nat
  BY <1>1, PlanningAssumption DEF RunMRP
<1>3. plan' = [k \in Plans |-> IF \E i \in DOMAIN new : new[i] = k
                               THEN NewPlan("planned", of(k), Lot(of(k))) ELSE kept[k]]
  BY Zenon DEF RunMRP
<1>4. ASSUME NEW k \in Plans
      PROVE  \/ plan'[k] = plan[k]
             \/ plan'[k] = FreePlan
             \/ \E i \in is : plan'[k] = NewPlan("planned", i, Lot(i))
  <2>1. CASE \E i \in DOMAIN new : new[i] = k
    <3>1. of(k) \in is
      BY <1>1, <2>1
    <3>2. plan'[k] = NewPlan("planned", of(k), Lot(of(k)))
      BY <1>3, <2>1, Zenon
    <3> QED
      BY <3>1, <3>2, Zenon
  <2>2. CASE ~ \E i \in DOMAIN new : new[i] = k
    <3>1. plan'[k] = kept[k]
      BY <1>3, <2>2, Zenon
    <3> QED
      BY <3>1
  <2> QED
    BY <2>1, <2>2
<1>5. \A i \in is : /\ NewPlan("planned", i, Lot(i)) \in Plan
                    /\ NewPlan("planned", i, Lot(i)).status = "planned"
                    /\ NewPlan("planned", i, Lot(i)).qty = Lot(i)
                    /\ NewPlan("planned", i, Lot(i)).asked = Lot(i)
                    /\ NewPlan("planned", i, Lot(i)).ordered = 0
  BY <1>2 DEF NewPlan, Plan, PlanStatuses
<1>6. FreePlan \in Plan /\ FreePlan.status = "unused"
  BY FreeLineOK DEF FreePlan, NewPlan, Plan, PlanStatuses
<1>7. plan' \in [Plans -> Plan]
  <2>1. \A k \in Plans : plan'[k] \in Plan
    BY <1>4, <1>5, <1>6 DEF PlansInv
  <2>2. plan' = [k \in Plans |-> plan'[k]]
    BY <1>3
  <2> QED
    BY <2>1, <2>2
<1>8. PlannedOnce'
  <2> SUFFICES ASSUME NEW k \in Plans
      PROVE /\ plan'[k].status \in {"planned", "firmed"} =>
                 plan'[k].qty + plan'[k].ordered = plan'[k].asked
            /\ plan'[k].status = "released" => plan'[k].ordered = plan'[k].asked
    BY DEF PlannedOnce
  <2> HIDE DEF kept, of
  <2>1. CASE plan'[k] = plan[k]
    BY <2>1 DEF PlansInv, PlannedOnce
  <2>2. CASE plan'[k] = FreePlan
    BY <1>6, <2>2
  <2>3. CASE \E i \in is : plan'[k] = NewPlan("planned", i, Lot(i))
    BY <1>2, <1>5, <2>3
  <2> QED
    BY <1>4, <2>1, <2>2, <2>3
<1> QED
  BY <1>7, <1>8 DEF PlansInv

(* A status that a planner sets; releasing takes more than that.           *)
LEMMA PlannerKeeps ==
  ASSUME PlansInv, NEW k \in Plans, FirmPlannedOrder(k) \/ CancelPlannedOrder(k)
  PROVE  PlansInv'
<1>1. PICK s \in {"firmed", "cancelled"} :
        /\ s = "firmed" => plan[k].status = "planned"
        /\ plan' = [plan EXCEPT ![k].status = s]
  BY DEF FirmPlannedOrder, CancelPlannedOrder
<1> QED
  BY <1>1 DEF PlansInv, PlannedOnce, Plan, PlanStatuses

(* A released part leaves the planned order for a purchase order.          *)
LEMMA PartKeeps ==
  ASSUME PlansInv, NEW k \in Plans, NEW q \in Quantities, NEW p \in Orders, NEW l \in Lines,
         ReleasePlannedOrder(k, q, p, l)
  PROVE  PlansInv'
<1>1. q \in Nat /\ 0 < q
  BY PurchasingAssumption DEF Quantities
<1>2. plan[k].status \in {"planned", "firmed"} /\ q <= plan[k].qty /\ plan' = Released(k, q)
  BY DEF ReleasePlannedOrder
<1>3. CASE q < plan[k].qty
  <2>1. plan' = [plan EXCEPT ![k].qty = @ - q, ![k].ordered = @ + q]
    BY <1>2, <1>3 DEF Released
  <2> QED
    BY <1>1, <1>2, <1>3, <2>1 DEF PlansInv, PlannedOnce, Plan
<1>4. CASE ~(q < plan[k].qty)
  <2>1. plan' = [plan EXCEPT ![k].status = "released", ![k].ordered = @ + q]
    BY <1>2, <1>4 DEF Released
  <2> QED
    BY <1>1, <1>2, <1>4, <2>1 DEF PlansInv, PlannedOnce, Plan, PlanStatuses
<1> QED
  BY <1>3, <1>4

(* Every step keeps what is known of planned orders.                       *)
LEMMA PlansInvNext == ASSUME PlansInv, [Next]_vars PROVE PlansInv'
<1>1. CASE UNCHANGED plan
  BY <1>1 DEF PlansInv, PlannedOnce
<1>2. CASE \/ PurchasingNext /\ UNCHANGED planning
           \/ \E i \in Items, d \in 0..MaxDemand : ChangeDemand(i, d)
           \/ \E i \in Items : IssueMaterial(i)
           \/ UNCHANGED vars
  BY <1>1, <1>2 DEF planning, vars, ChangeDemand, IssueMaterial
<1>3. CASE \E k \in Plans : FirmPlannedOrder(k) \/ CancelPlannedOrder(k)
  BY <1>3, PlannerKeeps
<1>4. CASE \E regenerate \in BOOLEAN, is \in SUBSET Items :
             \E new \in [is -> Plans] : RunMRP(regenerate, new)
  BY <1>4, RunKeeps
<1>5. CASE \E k \in Plans, q \in Quantities, p \in Orders, l \in Lines :
             ReleasePlannedOrder(k, q, p, l)
  BY <1>5, PartKeeps
<1> QED
  BY <1>2, <1>3, <1>4, <1>5 DEF Next

-----------------------------------------------------------------------------

(* Both invariants, of every reachable state.                              *)
LEMMA PurchasingSafe == Spec => [](ReceiptInv /\ PlansInv)
<1>1. Init => ReceiptInv /\ PlansInv
  BY ReceiptInvInit, PlansInvInit DEF Init
<1>2. ReceiptInv /\ PlansInv /\ [Next]_vars => (ReceiptInv /\ PlansInv)'
  BY ReceiptInvNext, PlansInvNext DEF PlansInv
<1> QED
  BY <1>1, <1>2, PTL DEF Spec

(* No line is over-received, however receipts, edits of the quantity and   *)
(* releases of planned orders follow each other (update_po_line and        *)
(* receive_purchase_order of purchase_order_service.py).                   *)
THEOREM NeverOverReceived == Spec => []ReceivedWithinOrdered
<1>1. ReceiptInv /\ PlansInv => ReceivedWithinOrdered
  BY DEF ReceiptInv
<1> QED
  BY <1>1, PurchasingSafe, PTL

(* A received or closed order has nothing left to come: the receipt that   *)
(* sets the status, and the handlers that edit lines afterwards.           *)
THEOREM NothingLeftToCome == Spec => []ReceivedIsFull
<1>1. ReceiptInv /\ PlansInv => ReceivedIsFull
  BY DEF ReceiptInv
<1> QED
  BY <1>1, PurchasingSafe, PTL

(* A planned quantity is put on purchase orders once, released in whatever *)
(* parts (release_planned_order and resolve_release_quantity).             *)
THEOREM OrderedOnce == Spec => []PlannedOnce
<1>1. ReceiptInv /\ PlansInv => PlannedOnce
  BY DEF PlansInv
<1> QED
  BY <1>1, PurchasingSafe, PTL

-----------------------------------------------------------------------------
(* Goods and freight: what the handlers that book nothing have in common.  *)

Typed == po \in [Orders -> Order] /\ booked \in [Items -> Nat]

(* Nothing has come for a line on no order, or on a draft.                 *)
NothingCameYet ==
    \A l \in Lines : line[l].po = NoOrder \/ po[line[l].po].status \in {"unused", "draft"} =>
        line[l].received = 0

Untouched(o) == o.allocated = 0 /\ o.capitalised = 0

NoneCame(p) == \A l \in LinesOf(p) : line[l].received = 0

(* Only p and lines without receipts change.  If p still has the terms of  *)
(* its first receipt, there was none.                                      *)
Revised(p) ==
    /\ booked' = booked
    /\ po' \in [Orders -> Order] /\ \A q \in Orders \ {p} : po'[q] = po[q]
    /\ po'[p].status \in {"unused", "draft", "ordered", "shipped"}
    /\ \/ po'[p].status = po[p].status /\ po[p].status # "unused"
       \/ {po[p].status, po'[p].status} \subseteq {"unused", "draft"}
    /\ po'[p].status = "unused" => \A l \in Lines : line'[l].po # p
    /\ \A l \in Lines : \/ line'[l] = line[l]
                        \/ /\ line[l].po \in {p, NoOrder} /\ line'[l].po \in {p, NoOrder}
                           /\ line'[l].po = p => line'[l].ordered >= 1
    /\ \A l \in Lines : line'[l].received = line[l].received
    /\ \A l \in Lines : line[l].received # 0 =>
                          line'[l].item = line[l].item /\ line'[l].po = line[l].po
    /\ po'[p].steady =>
         /\ \A l \in Lines : line'[l].po = p => line'[l].received = 0
         /\ \/ Untouched(po'[p])
            \/ /\ po[p].steady /\ NoneCame(p)
               /\ po'[p].allocated = po[p].allocated /\ po'[p].capitalised = po[p].capitalised

GoodsTyped == Typed /\ LinesOK /\ NothingCameYet

(* A new order.                                                            *)
LEMMA NewOrderOK ==
  ASSUME NEW s \in Statuses, NEW f \in Nat
  PROVE  /\ NewOrder(s, f) \in Order /\ NewOrder(s, f).status = s
         /\ Untouched(NewOrder(s, f))
  BY DEF NewOrder, Order, Untouched

(* What is known of a record in the table of orders when one is replaced.  *)
LEMMA OrderReplaced ==
  ASSUME Typed, NEW p \in Orders, NEW o \in Order, po' = [po EXCEPT ![p] = o]
  PROVE  po' \in [Orders -> Order] /\ po'[p] = o /\ \A q \in Orders \ {p} : po'[q] = po[q]
  BY DEF Typed

(* The same of a line.                                                     *)
LEMMA LineReplaced ==
  ASSUME LinesOK, NEW l \in Lines, NEW r, line' = [line EXCEPT ![l] = r]
  PROVE  line'[l] = r /\ \A m \in Lines \ {l} : line'[m] = line[m]
  BY DEF LinesOK

LEMMA CreateRevises ==
  ASSUME GoodsTyped, NEW p \in Orders, NEW f \in Freights, NEW ls \in SUBSET Lines,
         NEW i \in [ls -> Items], NEW q \in [ls -> Quantities], NEW c \in [ls -> Costs],
         (\A l \in Lines : line[l].po = p => po[p].status # "unused"),
         CreateOrder(p, f, ls, i, q, c)
  PROVE  Revised(p)
<1>1. /\ po[p].status = "unused" /\ \A l \in ls : line[l].po = NoOrder
      /\ po' = [po EXCEPT ![p] = NewOrder("draft", f)]
      /\ booked' = booked
  BY DEF CreateOrder, FreeLines
<1>2. f \in Nat /\ "draft" \in Statuses
  BY PurchasingAssumption DEF Statuses
<1>3. /\ po' \in [Orders -> Order] /\ \A r \in Orders \ {p} : po'[r] = po[r]
      /\ po'[p].status = "draft" /\ Untouched(po'[p])
  BY <1>1, <1>2, NewOrderOK, OrderReplaced DEF GoodsTyped
<1>4. \A l \in ls : line'[l] = NewLine(p, i[l], q[l], c[l])
  <2>1. line' = [l \in Lines |-> IF l \in ls THEN NewLine(p, i[l], q[l], c[l]) ELSE line[l]]
    BY Zenon DEF CreateOrder
  <2> QED
    BY <2>1, Zenon
<1>5. \A l \in Lines \ ls : line'[l] = line[l]
  BY DEF CreateOrder
<1>6. \A l \in ls : q[l] \in Nat /\ q[l] >= 1
  <2>1. \A n \in Quantities : n \in Nat /\ n >= 1
    BY PurchasingAssumption DEF Quantities
  <2>2. \A l \in ls : q[l] \in Quantities
    OBVIOUS
  <2> QED
    BY <2>1, <2>2
<1>7. \A l \in ls : line'[l].po = p /\ line'[l].ordered = q[l] /\ line'[l].received = 0
  <2> TAKE l \in ls
  <2>1. line'[l] = NewLine(p, i[l], q[l], c[l])
    BY <1>4, Zenon
  <2> QED
    BY <2>1 DEF NewLine
<1>8. \A l \in ls : line[l].received = 0
  BY <1>1 DEF GoodsTyped, NothingCameYet
<1>9. \A l \in Lines : line'[l].po = p => line'[l].received = 0
  BY <1>1, <1>5, <1>7
<1> QED
  BY <1>1, <1>3, <1>5, <1>6, <1>7, <1>8, <1>9 DEF Revised

LEMMA UpdateRevises ==
  ASSUME GoodsTyped, NEW p \in Orders, NEW f \in Freights, UpdateOrder(p, f)
  PROVE  Revised(p)
<1> DEFINE steady == po[p].steady /\ NoneCame(p)
           o == [[po[p] EXCEPT !.freight = f] EXCEPT !.steady = steady]
<1>1. po[p] \in Order /\ f \in Nat
  BY PurchasingAssumption DEF GoodsTyped, Typed
<1>2. po' = [po EXCEPT ![p] = o] /\ line' = line /\ booked' = booked
  BY DEF UpdateOrder, NoneCame, GoodsTyped, Typed
<1>3. po[p].status \in {"draft", "ordered", "shipped"}
  BY DEF UpdateOrder
<1>4. steady \in BOOLEAN /\ (steady => po[p].steady /\ NoneCame(p))
  BY <1>1 DEF Order
<1> HIDE DEF steady
<1>5. /\ o \in Order /\ o.status = po[p].status /\ o.allocated = po[p].allocated
      /\ o.capitalised = po[p].capitalised
  BY <1>1, <1>4 DEF Order
<1>6. o.steady => steady
  BY <1>1 DEF Order
<1> HIDE DEF o
<1>7. po' \in [Orders -> Order] /\ po'[p] = o /\ \A q \in Orders \ {p} : po'[q] = po[q]
  BY <1>2, <1>5, OrderReplaced DEF GoodsTyped
<1>8. o.steady => \A l \in Lines : line[l].po = p => line[l].received = 0
  BY <1>4, <1>6 DEF NoneCame, LinesOf
<1> QED
  BY <1>2, <1>3, <1>4, <1>5, <1>6, <1>7, <1>8 DEF Revised

LEMMA DeleteRevises ==
  ASSUME GoodsTyped, NEW p \in Orders, DeleteOrder(p)
  PROVE  Revised(p)
<1>1. po[p].status = "draft" /\ po' = [po EXCEPT ![p] = NewOrder("unused", 0)] /\ booked' = booked
  BY DEF DeleteOrder
<1>2. /\ po' \in [Orders -> Order] /\ \A r \in Orders \ {p} : po'[r] = po[r]
      /\ po'[p].status = "unused" /\ Untouched(po'[p])
  <2>1. 0 \in Nat /\ "unused" \in Statuses
    BY DEF Statuses
  <2> QED
    BY <1>1, <2>1, NewOrderOK, OrderReplaced DEF GoodsTyped
<1>3. \A l \in Lines : line'[l] = IF line[l].po = p THEN FreeLine ELSE line[l]
  BY DEF DeleteOrder, LinesOf
<1>4. FreeLine.po = NoOrder /\ FreeLine.received = 0 /\ NoOrder # p
  BY PurchasingAssumption DEF FreeLine, NewLine
<1>5. \A l \in Lines : line[l].po = p => line[l].received = 0
  BY <1>1 DEF GoodsTyped, NothingCameYet
<1> QED
  BY <1>1, <1>2, <1>3, <1>4, <1>5 DEF Revised

(* What every edit of a line is.                                           *)
LEMMA EditRevises ==
  ASSUME GoodsTyped, NEW p \in Orders, NEW l \in Lines, Editable(p), Edited(p),
         NEW r, line' = [line EXCEPT ![l] = r], booked' = booked,
         line[l].po \in {p, NoOrder}, r.po \in {p, NoOrder}, r.po = p => r.ordered >= 1,
         r.received = line[l].received,
         line[l].received # 0 => r.item = line[l].item /\ r.po = line[l].po
  PROVE  Revised(p)
<1> DEFINE steady == po[p].steady /\ NoneCame(p)
           o == [po[p] EXCEPT !.steady = steady]
<1>1. po[p] \in Order
  BY DEF GoodsTyped, Typed
<1>2. po' = [po EXCEPT ![p] = o]
  BY DEF Edited, NoneCame, GoodsTyped, Typed
<1>3. po[p].status \in {"draft", "ordered"}
  BY DEF Editable
<1>4. steady \in BOOLEAN /\ (steady => po[p].steady /\ NoneCame(p))
  BY <1>1 DEF Order
<1> HIDE DEF steady
<1>5. /\ o \in Order /\ o.status = po[p].status /\ o.allocated = po[p].allocated
      /\ o.capitalised = po[p].capitalised
  BY <1>1, <1>4 DEF Order
<1>6. o.steady => steady
  BY <1>1 DEF Order
<1> HIDE DEF o
<1>7. po' \in [Orders -> Order] /\ po'[p] = o /\ \A q \in Orders \ {p} : po'[q] = po[q]
  BY <1>2, <1>5, OrderReplaced DEF GoodsTyped
<1>8. line'[l] = r /\ \A m \in Lines \ {l} : line'[m] = line[m]
  BY LineReplaced DEF GoodsTyped
<1>9. p # NoOrder
  BY PurchasingAssumption
<1>10. \A m \in Lines : line'[m].received = line[m].received
  BY <1>8
<1>11. \A m \in Lines : line[m].received # 0 => line'[m].item = line[m].item
                                                /\ line'[m].po = line[m].po
  BY <1>8
<1>12. o.steady => \A m \in Lines : line'[m].po = p => line'[m].received = 0
  <2> SUFFICES ASSUME o.steady, NEW m \in Lines, line'[m].po = p
               PROVE  line[m].received = 0
    BY <1>10
  <2>1. CASE line[m].po = p
    BY <1>4, <1>6, <2>1 DEF NoneCame, LinesOf
  <2>2. CASE line[m].po # p
    <3>1. m = l /\ line[m].po = NoOrder
      BY <1>8, <2>2
    <3> QED
      BY <3>1 DEF GoodsTyped, NothingCameYet
  <2> QED
    BY <2>1, <2>2
<1>13. \A m \in Lines : \/ line'[m] = line[m]
                        \/ /\ line[m].po \in {p, NoOrder} /\ line'[m].po \in {p, NoOrder}
                           /\ line'[m].po = p => line'[m].ordered >= 1
  BY <1>8
<1> QED
  BY <1>3, <1>4, <1>5, <1>6, <1>7, <1>10, <1>11, <1>12, <1>13 DEF Revised

(* The handlers that edit a line, and a release, revise one order.         *)
LEMMA LineRevises ==
  ASSUME GoodsTyped, NEW l \in Lines, NEW q \in Quantities, NEW c \in Costs,
         \/ \E p \in Orders, i \in Items : AddLine(p, l, i, q, c)
         \/ UpdateLine(l, q, c)
  PROVE  \E p \in Orders : Revised(p)
<1>1. q \in Nat /\ q >= 1 /\ c \in Nat
  BY PurchasingAssumption DEF Quantities
<1>2. line[l] \in OrderLine
  BY DEF GoodsTyped, LinesOK
<1>3. ASSUME NEW p \in Orders, NEW i \in Items, AddLine(p, l, i, q, c)
      PROVE  Revised(p)
  <2> DEFINE r == NewLine(p, i, q, c)
  <2>1. /\ Editable(p) /\ Edited(p) /\ line' = [line EXCEPT ![l] = r] /\ booked' = booked
        /\ line[l].po = NoOrder
    BY <1>3 DEF AddLine, FreeLines
  <2>2. r.po = p /\ r.ordered >= 1 /\ r.received = 0
    BY <1>1, NewLineOK
  <2>3. line[l].received = 0
    BY <2>1 DEF GoodsTyped, NothingCameYet
  <2> HIDE DEF r
  <2> QED
    BY <2>1, <2>2, <2>3, EditRevises
<1>4. ASSUME UpdateLine(l, q, c) PROVE line[l].po \in Orders /\ Revised(line[l].po)
  <2> DEFINE r == [line[l] EXCEPT !.ordered = q, !.cost = c]
  <2>1. /\ line[l].po \in Orders /\ Editable(line[l].po) /\ Edited(line[l].po)
        /\ line' = [line EXCEPT ![l] = r] /\ booked' = booked
    BY <1>2, <1>4 DEF UpdateLine, OrderLine, GoodsTyped, LinesOK
  <2>2. r.po = line[l].po /\ r.received = line[l].received /\ r.ordered = q /\ r.item = line[l].item
    BY <1>2 DEF OrderLine
  <2> HIDE DEF r
  <2> QED
    BY <1>1, <2>1, <2>2, EditRevises
<1> QED
  BY <1>3, <1>4

(* So does the deletion of a line.                                         *)
LEMMA DeletionRevises ==
  ASSUME GoodsTyped, NEW l \in Lines, DeleteLine(l)
  PROVE  \E p \in Orders : Revised(p)
<1>1. line[l] \in OrderLine
  BY DEF GoodsTyped, LinesOK
<1>2. /\ line[l].po \in Orders /\ Editable(line[l].po) /\ Edited(line[l].po)
      /\ line' = [line EXCEPT ![l] = FreeLine] /\ booked' = booked /\ line[l].received = 0
  BY <1>1 DEF DeleteLine, OrderLine
<1>3. FreeLine.po = NoOrder /\ FreeLine.received = 0
  BY DEF FreeLine, NewLine
<1>4. NoOrder # line[l].po
  BY <1>2, PurchasingAssumption
<1> QED
  BY <1>2, <1>3, <1>4, EditRevises

(* So does the release of a planned order into a draft.                    *)
LEMMA ReleaseRevises ==
  ASSUME GoodsTyped, NEW k \in Plans, NEW q \in Quantities, NEW p \in Orders, NEW l \in Lines,
         (\A m \in Lines : line[m].po = p => po[p].status # "unused"),
         ReleasePlannedOrder(k, q, p, l)
  PROVE  Revised(p)
<1> DEFINE r == NewLine(p, plan[k].item, q, StandardCost)
<1>1. q \in Nat /\ q >= 1
  BY PurchasingAssumption DEF Quantities
<1>2. r.po = p /\ r.ordered = q /\ r.received = 0
  BY DEF NewLine
<1>3. /\ po[p].status = "unused" /\ line[l].po = NoOrder /\ booked' = booked
      /\ po' = [po EXCEPT ![p] = NewOrder("draft", 0)] /\ line' = [line EXCEPT ![l] = r]
  BY DEF ReleasePlannedOrder, FreeLines
<1> HIDE DEF r
<1>4. /\ po' \in [Orders -> Order] /\ \A o \in Orders \ {p} : po'[o] = po[o]
      /\ po'[p].status = "draft" /\ Untouched(po'[p])
  <2>1. 0 \in Nat /\ "draft" \in Statuses
    BY DEF Statuses
  <2> QED
    BY <1>3, <2>1, NewOrderOK, OrderReplaced DEF GoodsTyped
<1>5. line'[l] = r /\ \A m \in Lines \ {l} : line'[m] = line[m]
  BY <1>3, LineReplaced DEF GoodsTyped
<1>6. line[l].received = 0
  BY <1>3 DEF GoodsTyped, NothingCameYet
<1>7. \A m \in Lines : line'[m].po = p => line'[m].received = 0
  BY <1>2, <1>3, <1>5
<1>8. \A m \in Lines : line'[m].received = line[m].received
  BY <1>2, <1>5, <1>6
<1>9. \A m \in Lines : \/ line'[m] = line[m]
                       \/ /\ line[m].po \in {p, NoOrder} /\ line'[m].po \in {p, NoOrder}
                          /\ line'[m].po = p => line'[m].ordered >= 1
  BY <1>1, <1>2, <1>3, <1>5
<1> QED
  BY <1>2, <1>3, <1>4, <1>5, <1>6, <1>7, <1>8, <1>9 DEF Revised

(* An order that nobody made has no lines.                                 *)
UnusedIsEmpty == \A p \in Orders : po[p].status = "unused" => \A l \in Lines : line[l].po # p

(* What a step does to orders, lines and stock.                            *)
LEMMA StepIs ==
  ASSUME GoodsTyped, UnusedIsEmpty, [Next]_vars
  PROVE  \/ UNCHANGED <<po, line, booked>>
         \/ \E p \in Orders : Revised(p)
         \/ \E p \in Orders, s \in Statuses : UpdateStatus(p, s)
         \/ \E p \in Orders, ls \in SUBSET Lines : \E got \in [ls -> Quantities], last \in Lines :
              (ls # {} => last \in ls) /\ Receive(p, got, last)
<1>1. CASE PurchasingNext
  <2>1. CASE \E p \in Orders, f \in Freights, ls \in SUBSET Lines :
               \E i \in [ls -> Items], q \in [ls -> Quantities], c \in [ls -> Costs] :
                 CreateOrder(p, f, ls, i, q, c)
    BY <2>1, CreateRevises DEF UnusedIsEmpty
  <2>2. CASE \E p \in Orders, f \in Freights : UpdateOrder(p, f)
    BY <2>2, UpdateRevises
  <2>3. CASE \E p \in Orders : DeleteOrder(p)
    BY <2>3, DeleteRevises
  <2>4. CASE \E l \in Lines, q \in Quantities, c \in Costs :
               UpdateLine(l, q, c) \/ \E p \in Orders, i \in Items : AddLine(p, l, i, q, c)
    BY <2>4, LineRevises
  <2>5. CASE \E l \in Lines : DeleteLine(l)
    BY <2>5, DeletionRevises
  <2>6. CASE \E p \in Orders, s \in Statuses : UpdateStatus(p, s)
    BY <2>6
  <2>7. CASE \E p \in Orders, ls \in SUBSET Lines :
               \E got \in [ls -> Quantities], last \in Lines :
                 (ls # {} => last \in ls) /\ Receive(p, got, last)
    BY <2>7
  <2> QED
    BY <1>1, <2>1, <2>2, <2>3, <2>4, <2>5, <2>6, <2>7 DEF PurchasingNext
<1>2. CASE \E k \in Plans, q \in Quantities, p \in Orders, l \in Lines :
             ReleasePlannedOrder(k, q, p, l)
  BY <1>2, ReleaseRevises DEF UnusedIsEmpty
<1>3. CASE \/ \E regenerate \in BOOLEAN, is \in SUBSET Items :
                \E new \in [is -> Plans] : RunMRP(regenerate, new)
           \/ \E k \in Plans : FirmPlannedOrder(k) \/ CancelPlannedOrder(k)
           \/ \E i \in Items, d \in 0..MaxDemand : ChangeDemand(i, d)
           \/ \E i \in Items : IssueMaterial(i)
  BY <1>3 DEF RunMRP, FirmPlannedOrder, CancelPlannedOrder, ChangeDemand, IssueMaterial
<1>4. CASE UNCHANGED vars
  BY <1>4 DEF vars
<1> QED
  BY <1>1, <1>2, <1>3, <1>4 DEF Next

-----------------------------------------------------------------------------
(* Rounding, and the shares of a receipt.                                  *)

(* A rounded quotient is at most half a unit off, on the side of zero or   *)
(* beyond it, never across.                                                *)
LEMMA RoundedIs ==
  ASSUME NEW n \in Int, NEW d \in Nat, d > 0
  PROVE  /\ Rounded(n, d) \in Int
         /\ 2 * (d * Rounded(n, d)) <= 2 * n + d
         /\ 2 * n <= 2 * (d * Rounded(n, d)) + d
         /\ n >= 0 => Rounded(n, d) >= 0
         /\ n <= 0 => Rounded(n, d) <= 0
<1> DEFINE q == n \div d
           r == n % d
<1>1. q \in Int /\ r \in Int /\ 0 <= r /\ r < d /\ n = d * q + r
  OBVIOUS
<1>2. Rounded(n, d) = q \/ (Rounded(n, d) = q + 1 /\ 2 * r >= d)
  BY <1>1 DEF Rounded
<1>3. Rounded(n, d) = q => 2 * r <= d
  BY <1>1 DEF Rounded
<1> HIDE DEF q, r
<1>4. d * (q + 1) = d * q + d
  BY <1>1
<1>5. Rounded(n, d) \in Int
  BY <1>1, <1>2
<1>6. /\ 2 * (d * Rounded(n, d)) <= 2 * n + d
      /\ 2 * n <= 2 * (d * Rounded(n, d)) + d
  <2>1. d * q \in Int
    BY <1>1
  <2> QED
    BY <1>1, <1>2, <1>3, <1>4, <2>1
<1>7. n >= 0 => q >= 0
  <2> SUFFICES ASSUME n >= 0, q <= -1 PROVE FALSE
    BY <1>1
  <2>1. d * q <= -d
    BY <1>1
  <2> QED
    BY <1>1, <2>1
<1>8. n <= 0 => q < 0 \/ (q = 0 /\ r = 0)
  <2> SUFFICES ASSUME n <= 0, q >= 0 PROVE q = 0 /\ r = 0
    BY <1>1
  <2>1. d * q >= q
    BY <1>1
  <2> QED
    BY <1>1, <2>1
<1>9. n >= 0 => Rounded(n, d) >= 0
  BY <1>1, <1>2, <1>7
<1>10. n <= 0 => Rounded(n, d) <= 0
  BY <1>1, <1>2, <1>8
<1> QED
  BY <1>5, <1>6, <1>9, <1>10

(* The rounded parts of some pieces are together at most half a unit off   *)
(* for each piece.                                                         *)
LEMMA RoundedParts ==
  ASSUME NEW D, IsFiniteSet(D), NEW n, NEW g, NEW s, NEW d \in Nat, d > 0,
         \A x \in D : n[x] \in Int /\ g[x] \in Nat /\ g[x] >= 1 /\ s[x] = Rounded(n[x], d)
  PROVE  /\ SumFunctionOnSet(s, D) \in Int
         /\ 2 * (d * SumFunctionOnSet(s, D))
              <= 2 * SumFunctionOnSet(n, D) + d * SumFunctionOnSet(g, D)
         /\ 2 * SumFunctionOnSet(n, D)
              <= 2 * (d * SumFunctionOnSet(s, D)) + d * SumFunctionOnSet(g, D)
<1> DEFINE ds == [x \in D |-> d * s[x]]
           ds2 == [x \in D |-> 2 * ds[x]]
           n2 == [x \in D |-> 2 * n[x]]
           dg == [x \in D |-> d * g[x]]
           hi == [x \in D |-> n2[x] + dg[x]]
           lo == [x \in D |-> ds2[x] + dg[x]]
<1>1. \A x \in D : /\ s[x] \in Int
                   /\ 2 * (d * s[x]) <= 2 * n[x] + d
                   /\ 2 * n[x] <= 2 * (d * s[x]) + d
  BY RoundedIs
<1>2. \A x \in D : d * g[x] \in Int /\ d <= d * g[x] /\ d * s[x] \in Int
  BY <1>1
<1>3. \A x \in D : /\ ds[x] \in Int /\ ds[x] = d * s[x]
                   /\ ds2[x] \in Int /\ ds2[x] = 2 * ds[x]
                   /\ n2[x] \in Int /\ n2[x] = 2 * n[x]
                   /\ dg[x] \in Int /\ dg[x] = d * g[x]
                   /\ hi[x] \in Int /\ hi[x] = n2[x] + dg[x]
                   /\ lo[x] \in Int /\ lo[x] = ds2[x] + dg[x]
                   /\ ds2[x] <= hi[x] /\ n2[x] <= lo[x]
  BY <1>1, <1>2
<1> HIDE DEF ds, ds2, n2, dg, hi, lo
<1>4. \A x \in D : s[x] \in Int /\ n[x] \in Int /\ g[x] \in Int
  BY <1>1
<1>5. /\ SumFunctionOnSet(s, D) \in Int /\ SumFunctionOnSet(n, D) \in Int
      /\ SumFunctionOnSet(g, D) \in Int
  BY <1>4, SumType
<1>6. SumFunctionOnSet(ds, D) = d * SumFunctionOnSet(s, D)
  BY <1>3, <1>4, SumScale
<1>7. SumFunctionOnSet(dg, D) = d * SumFunctionOnSet(g, D)
  BY <1>3, <1>4, SumScale
<1>8. SumFunctionOnSet(n2, D) = 2 * SumFunctionOnSet(n, D)
  BY <1>3, <1>4, SumScale
<1>9. SumFunctionOnSet(ds2, D) = 2 * SumFunctionOnSet(ds, D)
  BY <1>3, SumScale
<1>10. SumFunctionOnSet(hi, D) = SumFunctionOnSet(n2, D) + SumFunctionOnSet(dg, D)
  BY <1>3, SumPlus
<1>11. SumFunctionOnSet(lo, D) = SumFunctionOnSet(ds2, D) + SumFunctionOnSet(dg, D)
  BY <1>3, SumPlus
<1>12. SumFunctionOnSet(ds2, D) <= SumFunctionOnSet(hi, D)
  BY <1>3, SumMonotone
<1>13. SumFunctionOnSet(n2, D) <= SumFunctionOnSet(lo, D)
  BY <1>3, SumMonotone
<1> QED
  BY <1>5, <1>6, <1>7, <1>8, <1>9, <1>10, <1>11, <1>12, <1>13

(* Shares that are rounded, but for the last, which gets the rest of a     *)
(* target: k are the parts they are for, of g pieces, at base / d each.    *)
Parted(D, g, k, s, base, d, target, last) ==
    /\ IsFiniteSet(D) /\ last \in D
    /\ base \in Int /\ d \in Nat /\ d > 0 /\ target \in Int
    /\ \A x \in D : g[x] \in Nat /\ g[x] >= 1 /\ k[x] \in Nat
    /\ \A x \in D \ {last} : s[x] = Rounded(base * k[x], d)
    /\ s[last] = target - SumFunctionOnSet(s, D \ {last})
    /\ 2 * (base * SumFunctionOnSet(k, D)) <= 2 * (d * target) + d
    /\ 2 * (d * target) <= 2 * (base * SumFunctionOnSet(k, D)) + d

(* Together they are the target.  The last one is off by at most half a    *)
(* unit for each piece.                                                    *)
LEMMA LastShare ==
  ASSUME NEW D, NEW g, NEW k, NEW s, NEW base, NEW d, NEW target, NEW last,
         Parted(D, g, k, s, base, d, target, last)
  PROVE  /\ \A x \in D : s[x] \in Int
         /\ SumFunctionOnSet(s, D) = target
         /\ SumFunctionOnSet(g, D) \in Nat
         /\ base >= 0 => -SumFunctionOnSet(g, D) <= 2 * s[last]
         /\ base <= 0 => 2 * s[last] <= SumFunctionOnSet(g, D)
<1> DEFINE R == D \ {last}
           n == [x \in D |-> base * k[x]]
           G == SumFunctionOnSet(g, D)
           K == SumFunctionOnSet(k, D)
           G0 == SumFunctionOnSet(g, R)
           K0 == SumFunctionOnSet(k, R)
           S0 == SumFunctionOnSet(s, R)
<1>1. /\ IsFiniteSet(D) /\ last \in D /\ IsFiniteSet(R) /\ R \subseteq D
      /\ base \in Int /\ d \in Nat /\ d > 0 /\ target \in Int
      /\ \A x \in D : g[x] \in Nat /\ g[x] >= 1 /\ k[x] \in Nat
      /\ \A x \in R : s[x] = Rounded(base * k[x], d)
      /\ s[last] = target - S0
      /\ 2 * (base * K) <= 2 * (d * target) + d
      /\ 2 * (d * target) <= 2 * (base * K) + d
  BY FS_RemoveElement DEF Parted
<1>2. \A x \in D : base * k[x] \in Int
  BY <1>1
<1>3. \A x \in R : s[x] \in Int
  BY <1>1, <1>2, RoundedIs
<1>4. /\ S0 \in Int
      /\ 2 * (d * S0) <= 2 * SumFunctionOnSet(n, R) + d * G0
      /\ 2 * SumFunctionOnSet(n, R) <= 2 * (d * S0) + d * G0
  <2>1. \A x \in R : n[x] \in Int /\ g[x] \in Nat /\ g[x] >= 1 /\ s[x] = Rounded(n[x], d)
    BY <1>1, <1>2
  <2> HIDE DEF n, R
  <2> QED
    BY <1>1, <2>1, RoundedParts
<1>5. SumFunctionOnSet(n, R) = base * K0
  <2>1. \A x \in R : k[x] \in Int /\ n[x] = base * k[x]
    BY <1>1
  <2> HIDE DEF n, R
  <2> QED
    BY <1>1, <2>1, SumScale
<1>6. G = g[last] + G0 /\ K = k[last] + K0
  <2>1. \A x \in D : g[x] \in Int /\ k[x] \in Int
    BY <1>1
  <2> QED
    BY <1>1, <2>1, SumRemove
<1>7. G0 \in Nat /\ K0 \in Nat /\ g[last] \in Nat /\ g[last] >= 1 /\ k[last] \in Nat
  <2>1. \A x \in R : g[x] \in Nat /\ k[x] \in Nat
    BY <1>1
  <2> HIDE DEF R
  <2> QED
    BY <1>1, <2>1, SumNat
<1>8. \A x \in D : s[x] \in Int
  BY <1>1, <1>3, <1>4
<1>9. SumFunctionOnSet(s, D) = target
  <2>1. SumFunctionOnSet(s, D) = s[last] + S0
    BY <1>1, <1>8, SumRemove
  <2> HIDE DEF S0
  <2> QED
    BY <1>1, <1>4, <2>1
<1> DEFINE b == s[last]
<1>10. b \in Int /\ b = target - S0
  BY <1>1, <1>8
<1> HIDE DEF R, n, G, K, G0, K0, S0, b
<1>11. base * K = base * k[last] + base * K0
  BY <1>1, <1>6, <1>7
<1>12. d * b = d * target - d * S0
  BY <1>1, <1>4, <1>10
<1>13. d * G = d * g[last] + d * G0 /\ d * g[last] >= d
  BY <1>1, <1>6, <1>7
<1>14. /\ base * K0 \in Int /\ base * k[last] \in Int /\ d * target \in Int /\ d * S0 \in Int
       /\ d * G0 \in Int /\ d * g[last] \in Int
  BY <1>1, <1>4, <1>7
<1>15. G \in Nat
  BY <1>6, <1>7
<1>16. ASSUME base >= 0 PROVE -G <= 2 * b
  <2>1. base * k[last] >= 0
    BY <1>1, <1>7, <1>16
  <2>2. 2 * (d * b) >= -(d * G)
    BY <1>1, <1>4, <1>5, <1>11, <1>12, <1>13, <1>14, <2>1
  <2> SUFFICES ASSUME 2 * b + G <= -1 PROVE FALSE
    BY <1>10, <1>15
  <2>3. d * (2 * b + G) <= -d
    BY <1>1, <1>10, <1>15
  <2>4. d * (2 * b + G) = 2 * (d * b) + d * G
    BY <1>1, <1>10, <1>15
  <2>5. d * b \in Int /\ d * G \in Int
    BY <1>1, <1>10, <1>15
  <2> QED
    BY <1>1, <2>2, <2>3, <2>4, <2>5
<1>17. ASSUME base <= 0 PROVE 2 * b <= G
  <2>1. base * k[last] <= 0
    BY <1>1, <1>7, <1>17
  <2>2. 2 * (d * b) <= d * G
    BY <1>1, <1>4, <1>5, <1>11, <1>12, <1>13, <1>14, <2>1
  <2> SUFFICES ASSUME 2 * b - G >= 1 PROVE FALSE
    BY <1>10, <1>15
  <2>3. d * (2 * b - G) >= d
    BY <1>1, <1>10, <1>15
  <2>4. d * (2 * b - G) = 2 * (d * b) - d * G
    BY <1>1, <1>10, <1>15
  <2>5. d * b \in Int /\ d * G \in Int
    BY <1>1, <1>10, <1>15
  <2> QED
    BY <1>1, <2>2, <2>3, <2>4, <2>5
<1> QED
  BY <1>8, <1>9, <1>15, <1>16, <1>17 DEF G, b

(* What the positive shares come to: at most half a unit for each piece    *)
(* above the target; or at most that, when the target is to be taken back. *)
LEMMA PositiveShares ==
  ASSUME NEW D, NEW g, NEW k, NEW s, NEW base, NEW d, NEW target, NEW last,
         Parted(D, g, k, s, base, d, target, last),
         NEW P, P = {x \in D : s[x] > 0}
  PROVE  /\ SumFunctionOnSet(s, P) \in Nat
         /\ base >= 0 => /\ target <= SumFunctionOnSet(s, P)
                         /\ 2 * (SumFunctionOnSet(s, P) - target) <= SumFunctionOnSet(g, D)
         /\ base < 0 => 2 * SumFunctionOnSet(s, P) <= SumFunctionOnSet(g, D)
<1> DEFINE R == D \ {last}
           pos == SumFunctionOnSet(s, P)
           G == SumFunctionOnSet(g, D)
<1>1. /\ IsFiniteSet(D) /\ last \in D /\ IsFiniteSet(R) /\ IsFiniteSet(P) /\ P \subseteq D
      /\ base \in Int /\ d \in Nat /\ d > 0 /\ target \in Int
      /\ \A x \in R : s[x] = Rounded(base * k[x], d) /\ k[x] \in Nat
      /\ s[last] = target - SumFunctionOnSet(s, R)
  BY FS_RemoveElement, FS_Subset DEF Parted
<1>2. /\ \A x \in D : s[x] \in Int
      /\ SumFunctionOnSet(s, D) = target
      /\ G \in Nat
      /\ base >= 0 => -G <= 2 * s[last]
      /\ base <= 0 => 2 * s[last] <= G
  BY LastShare
<1>3. \A x \in R : /\ base >= 0 => s[x] >= 0
                   /\ base <= 0 => s[x] <= 0
  <2> TAKE x \in R
  <2>1. base * k[x] \in Int /\ (base >= 0 => base * k[x] >= 0) /\ (base <= 0 => base * k[x] <= 0)
    BY <1>1
  <2> QED
    BY <1>1, <2>1, RoundedIs
<1>4. pos \in Nat
  <2>1. \A x \in P : s[x] \in Nat
    BY <1>2
  <2> QED
    BY <1>1, <2>1, SumNat
<1>5. s[last] \in Int
  BY <1>1, <1>2
<1>6. ASSUME base >= 0, s[last] >= 0 PROVE pos = target
  <2>1. \A x \in D \ P : s[x] = 0
    BY <1>1, <1>2, <1>3, <1>6
  <2> QED
    BY <1>1, <1>2, <2>1, SumRestrict
<1>7. ASSUME base >= 0, s[last] < 0 PROVE pos = target - s[last]
  <2>1. P \subseteq R /\ (\A x \in R \ P : s[x] = 0) /\ (\A x \in R : s[x] \in Int)
    BY <1>1, <1>2, <1>3, <1>7
  <2>2. pos = SumFunctionOnSet(s, R)
    <3> HIDE DEF R
    <3> QED BY <1>1, <2>1, SumRestrict
  <2> HIDE DEF pos, R
  <2> QED
    BY <1>1, <1>4, <1>5, <2>2
<1>8. ASSUME base < 0, s[last] > 0 PROVE pos = s[last]
  <2>1. P = {last}
    BY <1>1, <1>2, <1>3, <1>8
  <2>2. SumFunctionOnSet(s, {last}) = s[last] + SumFunctionOnSet(s, {last} \ {last})
    <3>1. IsFiniteSet({last}) /\ \A x \in {last} : s[x] \in Int
      BY <1>1, <1>2, FS_Singleton
    <3> QED
      BY <3>1, SumRemove
  <2>3. {last} \ {last} = {}
    OBVIOUS
  <2>4. SumFunctionOnSet(s, {last}) = s[last]
    BY <1>5, <2>2, <2>3, SumEmpty
  <2> QED
    BY <2>1, <2>4
<1>9. ASSUME base < 0, s[last] <= 0 PROVE pos = 0
  <2>1. P = {}
    BY <1>1, <1>2, <1>3, <1>9
  <2> QED
    BY <2>1, SumEmpty
<1> HIDE DEF pos, G, R
<1>10. base >= 0 => target <= pos /\ 2 * (pos - target) <= G
  BY <1>1, <1>2, <1>4, <1>5, <1>6, <1>7
<1>11. base < 0 => 2 * pos <= G
  BY <1>1, <1>2, <1>4, <1>5, <1>8, <1>9
<1> QED
  BY <1>4, <1>10, <1>11 DEF pos, G

-----------------------------------------------------------------------------
(* A receipt.                                                              *)

(* What the goods of a receipt, of an order and of its receipts so far are *)
(* worth, by the weights that share the freight out.                       *)
Parts(p, got) == [l \in DOMAIN got |-> got[l] * Weight(p, l)]
Value(p) == SumFunction([l \in LinesOf(p) |-> line[l].ordered * Weight(p, l)])
Arrived(p) == SumFunction([l \in LinesOf(p) |-> line[l].received * Weight(p, l)])
Received(p) == SumFunctionOnSet([l \in Lines |-> line[l].received], LinesOf(p))

(* The goods on the payload of a receipt.                                  *)
Delivery(p, got, last) ==
    /\ DOMAIN got \subseteq LinesOf(p)
    /\ \A l \in DOMAIN got : got[l] \in Nat /\ got[l] >= 1 /\ got[l] <= Open(l)
    /\ DOMAIN got # {} => last \in DOMAIN got

LEMMA WeightIs ==
  ASSUME LinesOK, NEW p \in Orders, NEW l \in Lines
  PROVE  Weight(p, l) \in Nat
<1>1. line[l].cost \in Nat
  BY DEF LinesOK, OrderLine
<1> QED
  BY <1>1 DEF Weight

(* The sum of a function is that over its domain.                          *)
LEMMA SumOfFunction == ASSUME NEW f PROVE SumFunction(f) = SumFunctionOnSet(f, DOMAIN f)
BY DEF SumFunction

(* A delivery is worth no more than the order, and each order and delivery *)
(* is worth something or nothing.                                          *)
LEMMA Worth ==
  ASSUME LinesOK, NEW p \in Orders, NEW got, NEW last, Delivery(p, got, last)
  PROVE  /\ IsFiniteSet(DOMAIN got) /\ IsFiniteSet(LinesOf(p))
         /\ SumFunction(Parts(p, got)) \in Nat
         /\ Value(p) \in Nat
         /\ SumFunction(Parts(p, got)) <= Value(p)
<1> DEFINE G == LinesOf(p)
           D == DOMAIN got
           k == Parts(p, got)
           v == [l \in G |-> line[l].ordered * Weight(p, l)]
           k0 == [l \in G |-> IF l \in D THEN k[l] ELSE 0]
<1>1. /\ IsFiniteSet(G) /\ IsFiniteSet(D) /\ D \subseteq G
      /\ \A l \in D : got[l] \in Nat /\ got[l] <= Open(l)
  BY PurchasingAssumption, FS_Subset DEF Delivery, LinesOf
<1>2. \A l \in G : /\ Weight(p, l) \in Nat
                   /\ line[l].ordered \in Nat /\ line[l].received \in Nat
  BY WeightIs DEF LinesOK, OrderLine, LinesOf
<1>3. \A l \in D : k[l] = got[l] * Weight(p, l) /\ k[l] \in Nat
  BY <1>1, <1>2 DEF Parts
<1>4. \A l \in G : v[l] \in Nat /\ v[l] = line[l].ordered * Weight(p, l)
  BY <1>2
<1>5. \A l \in D : k[l] <= v[l]
  <2> TAKE l \in D
  <2>1. got[l] <= line[l].ordered
    BY <1>1, <1>2 DEF Open
  <2>2. \A a, b, c \in Nat : a <= b => a * c <= b * c
    OBVIOUS
  <2>3. got[l] * Weight(p, l) <= line[l].ordered * Weight(p, l)
    BY <1>1, <1>2, <2>1, <2>2
  <2>4. k[l] = got[l] * Weight(p, l) /\ v[l] = line[l].ordered * Weight(p, l)
    BY <1>1, <1>3, <1>4
  <2> HIDE DEF k, v
  <2> QED
    BY <2>3, <2>4
<1>6. SumFunction(k) = SumFunctionOnSet(k, D) /\ Value(p) = SumFunctionOnSet(v, G)
  BY SumOfFunction DEF Value, Parts
<1> HIDE DEF k, v
<1>7. SumFunctionOnSet(k, D) \in Nat /\ SumFunctionOnSet(v, G) \in Nat
  BY <1>1, <1>3, <1>4, SumNat
<1>8. SumFunctionOnSet(k, D) = SumFunctionOnSet(k0, D)
  <2>1. \A l \in D : k[l] = k0[l]
    BY <1>1
  <2> HIDE DEF k0
  <2> QED
    BY <1>1, <2>1, SumSame
<1>9. \A l \in G : k0[l] \in Int /\ v[l] \in Int /\ k0[l] <= v[l]
  BY <1>1, <1>3, <1>4, <1>5
<1>10. \A l \in G \ D : k0[l] = 0
  OBVIOUS
<1> HIDE DEF k0
<1>11. SumFunctionOnSet(k0, G) = SumFunctionOnSet(k0, D)
  BY <1>1, <1>9, <1>10, SumRestrict
<1>12. SumFunctionOnSet(k0, G) <= SumFunctionOnSet(v, G)
  BY <1>1, <1>9, SumMonotone
<1>13. SumFunction(k) \in Nat /\ Value(p) \in Nat /\ SumFunction(k) <= Value(p)
  BY <1>6, <1>7, <1>8, <1>11, <1>12
<1> QED
  BY <1>1, <1>13 DEF k

(* The base, the divisor and the target of the shares.                     *)
Base(p, got) == IF Completes(p, got) THEN po[p].freight - po[p].allocated ELSE po[p].freight
Divisor(p, got) == IF Completes(p, got) THEN SumFunction(Parts(p, got)) ELSE Value(p)
Target(p, got) ==
    IF Completes(p, got) THEN po[p].freight - po[p].allocated
    ELSE Rounded(po[p].freight * SumFunction(Parts(p, got)), Value(p))

(* What Shares computes.                                                   *)
LEMMA SharesAre ==
  ASSUME Typed, LinesOK, NEW p \in Orders, NEW got, NEW last, Delivery(p, got, last)
  PROVE  /\ DOMAIN Shares(p, got, last) = DOMAIN got
         /\ po[p].freight = 0 \/ SumFunction(Parts(p, got)) = 0 =>
              \A l \in DOMAIN got : Shares(p, got, last)[l] = 0
         /\ po[p].freight # 0 /\ SumFunction(Parts(p, got)) # 0 =>
              Parted(DOMAIN got, got, Parts(p, got), Shares(p, got, last),
                     Base(p, got), Divisor(p, got), Target(p, got), last)
<1> DEFINE D == DOMAIN got
           k == Parts(p, got)
           part == SumFunction(Parts(p, got))
           base == Base(p, got)
           d == Divisor(p, got)
           target == Target(p, got)
           s == Shares(p, got, last)
           share(l) == Rounded(base * got[l] * Weight(p, l), d)
           others == [m \in D \ {last} |-> share(m)]
<1>1. s = IF po[p].freight = 0 \/ part = 0 THEN [l \in D |-> 0]
          ELSE [l \in D |-> IF l # last THEN share(l) ELSE target - SumFunction(others)]
  <2>1. target = IF Completes(p, got) THEN base
                 ELSE Rounded(base * part, d)
    BY DEF Target, Base, Divisor
  <2> QED
    BY <2>1, Zenon DEF Shares, Base, Divisor, Parts, Value
<1> HIDE DEF base, d, target, s, part
<1>2. DOMAIN s = D
  BY <1>1
<1>3. po[p].freight = 0 \/ part = 0 => \A l \in D : s[l] = 0
  BY <1>1
<1>4. ASSUME po[p].freight # 0, part # 0
      PROVE  Parted(D, got, k, s, base, d, target, last)
  <2>1. /\ IsFiniteSet(D) /\ D \subseteq Lines
        /\ \A l \in D : got[l] \in Nat /\ got[l] >= 1
        /\ part \in Nat /\ Value(p) \in Nat /\ part <= Value(p)
    BY Worth DEF Delivery, LinesOf, part
  <2>2. D # {}
    <3> SUFFICES ASSUME D = {} PROVE FALSE
      OBVIOUS
    <3>1. part = SumFunctionOnSet(Parts(p, got), {})
      BY SumOfFunction DEF part, Parts
    <3> QED
      BY <1>4, <3>1, SumEmpty
  <2>3. last \in D
    BY <2>2 DEF Delivery
  <2>4. \A l \in D : Weight(p, l) \in Nat /\ k[l] = got[l] * Weight(p, l) /\ k[l] \in Nat
    BY <2>1, WeightIs DEF Parts
  <2>5. po[p].freight \in Nat /\ po[p].allocated \in Int
    BY DEF Typed, Order
  <2>6. base \in Int /\ d \in Nat /\ d > 0
    BY <1>4, <2>1, <2>5 DEF base, d, part, Base, Divisor
  <2>7. /\ target \in Int
        /\ 2 * (base * part) <= 2 * (d * target) + d
        /\ 2 * (d * target) <= 2 * (base * part) + d
    <3>1. CASE Completes(p, got)
      <4>1. base = target /\ d = part /\ base \in Int
        BY <2>5, <3>1 DEF base, d, part, target, Base, Divisor, Target
      <4>2. base * part = d * target /\ base * part \in Int
        BY <2>1, <4>1
      <4> QED
        BY <2>6, <4>1, <4>2
    <3>2. CASE ~Completes(p, got)
      <4>1. target = Rounded(base * part, d)
        BY <3>2 DEF base, d, part, target, Base, Divisor, Target
      <4>2. base * part \in Int
        BY <2>1, <2>6
      <4> QED
        BY <2>6, <4>1, <4>2, RoundedIs
    <3> QED
      BY <3>1, <3>2
  <2>8. s = [l \in D |-> IF l # last THEN share(l) ELSE target - SumFunction(others)]
    BY <1>1, <1>4
  <2>9. \A l \in D \ {last} : s[l] = Rounded(base * k[l], d)
    <3> TAKE l \in D \ {last}
    <3>1. s[l] = share(l)
      BY <2>8
    <3>2. \A a \in Int : \A b, c \in Nat : a * b * c = a * (b * c)
      OBVIOUS
    <3>3. base * got[l] * Weight(p, l) = base * (got[l] * Weight(p, l))
      BY <2>1, <2>4, <2>6, <3>2
    <3>4. k[l] = got[l] * Weight(p, l)
      BY <2>4
    <3> HIDE DEF k
    <3> QED
      BY <3>1, <3>3, <3>4
  <2>10. s[last] = target - SumFunctionOnSet(s, D \ {last})
    <3>1. s[last] = target - SumFunction(others)
      BY <2>3, <2>8
    <3>2. SumFunction(others) = SumFunctionOnSet(others, D \ {last})
      BY SumOfFunction
    <3>3. IsFiniteSet(D \ {last}) /\ \A l \in D \ {last} : others[l] = s[l]
      BY <2>1, <2>8, FS_Subset
    <3> HIDE DEF others
    <3>4. SumFunctionOnSet(others, D \ {last}) = SumFunctionOnSet(s, D \ {last})
      BY <3>3, SumSame
    <3> QED
      BY <3>1, <3>2, <3>4
  <2>11. part = SumFunctionOnSet(k, D)
    BY SumOfFunction DEF part, Parts
  <2> HIDE DEF k
  <2> QED
    BY <2>1, <2>3, <2>4, <2>6, <2>7, <2>9, <2>10, <2>11 DEF Parted
<1> QED
  BY <1>2, <1>3, <1>4 DEF base, d, target, s, part

(* The payload of a receipt is a delivery.                                 *)
LEMMA ReceiveDelivers ==
  ASSUME NEW p \in Orders, NEW ls \in SUBSET Lines, NEW got \in [ls -> Quantities], NEW last,
         ls # {} => last \in ls, Receive(p, got, last)
  PROVE  Delivery(p, got, last) /\ DOMAIN got = ls
<1>1. \A n \in Quantities : n \in Nat /\ n >= 1
  BY PurchasingAssumption DEF Quantities
<1>2. DOMAIN got = ls /\ \A l \in ls : got[l] \in Quantities
  OBVIOUS
<1>3. DOMAIN got \subseteq LinesOf(p) /\ \A l \in DOMAIN got : got[l] <= Open(l)
  BY DEF Receive
<1> QED
  BY <1>1, <1>2, <1>3 DEF Delivery

(* The goods whose unit cost a receipt raises.                             *)
Raised(p, got, last) == {l \in DOMAIN got : Shares(p, got, last)[l] > 0}

(* What a receipt changes: the freight of its order and the quantities of  *)
(* its lines.                                                              *)
LEMMA ReceiptIs ==
  ASSUME Typed, LinesOK, NEW p \in Orders, NEW got, NEW last, Delivery(p, got, last),
         Receive(p, got, last)
  PROVE  /\ po' \in [Orders -> Order] /\ \A q \in Orders \ {p} : po'[q] = po[q]
         /\ po'[p].status = IF Completes(p, got) THEN "received" ELSE po[p].status
         /\ po'[p].freight = po[p].freight
         /\ po'[p].steady => po[p].steady
         /\ po'[p].allocated = po[p].allocated + SumFunction(Shares(p, got, last))
         /\ po'[p].capitalised
              = po[p].capitalised + SumFunctionOnSet(Shares(p, got, last), Raised(p, got, last))
         /\ \A l \in Lines :
              /\ line'[l].po = line[l].po /\ line'[l].ordered = line[l].ordered
              /\ line'[l].cost = line[l].cost /\ line'[l].item = line[l].item
              /\ line'[l].received = line[l].received + IF l \in DOMAIN got THEN got[l] ELSE 0
<1> DEFINE D == DOMAIN got
           s == Shares(p, got, last)
           a == po[p].allocated + SumFunction(s)
           c == po[p].capitalised + SumFunctionOnSet(s, {l \in D : s[l] > 0})
           t == IF Completes(p, got) THEN "received" ELSE po[p].status
           o == [[[po[p] EXCEPT !.allocated = a] EXCEPT !.capitalised = c] EXCEPT !.status = t]
<1>1. po' = [po EXCEPT ![p] = o]
  BY DEF Receive, Typed
<1>2. po[p] \in Order
  BY DEF Typed
<1>3. IsFiniteSet(D) /\ DOMAIN s = D /\ \A l \in D : s[l] \in Int
  <2>1. IsFiniteSet(D)
    BY Worth
  <2>2. CASE po[p].freight = 0 \/ SumFunction(Parts(p, got)) = 0
    <3>1. DOMAIN s = D /\ \A l \in D : s[l] = 0
      BY <2>2, SharesAre
    <3> HIDE DEF s
    <3> QED
      BY <2>1, <3>1
  <2>3. CASE ~(po[p].freight = 0 \/ SumFunction(Parts(p, got)) = 0)
    <3>1. /\ DOMAIN s = D
          /\ Parted(D, got, Parts(p, got), s, Base(p, got), Divisor(p, got), Target(p, got), last)
      BY <2>3, SharesAre
    <3> HIDE DEF s, D
    <3> QED
      BY <2>1, <3>1, LastShare
  <2> QED
    BY <2>2, <2>3
<1>4. SumFunction(s) \in Int
  <2>1. SumFunction(s) = SumFunctionOnSet(s, D)
    BY <1>3, SumOfFunction
  <2> HIDE DEF s
  <2> QED
    BY <1>3, <2>1, SumType
<1>5. SumFunctionOnSet(s, {l \in D : s[l] > 0}) \in Nat
  <2> DEFINE P == {l \in D : s[l] > 0}
  <2>1. IsFiniteSet(P) /\ \A l \in P : s[l] \in Nat
    BY <1>3, FS_Subset
  <2> HIDE DEF P, s
  <2>2. SumFunctionOnSet(s, P) \in Nat
    BY <2>1, SumNat
  <2> QED
    BY <2>2 DEF P
<1>6. a \in Int /\ c \in Nat /\ t \in Statuses
  BY <1>2, <1>4, <1>5 DEF Order, Statuses
<1> HIDE DEF a, c, t, s
<1>7. /\ o \in Order /\ o.status = t /\ o.freight = po[p].freight
      /\ o.allocated = a /\ o.capitalised = c
  BY <1>2, <1>6 DEF Order
<1>8. o.steady => po[p].steady
  BY <1>2 DEF Order
<1> HIDE DEF o
<1>9. po' \in [Orders -> Order] /\ po'[p] = o /\ \A q \in Orders \ {p} : po'[q] = po[q]
  BY <1>1, <1>7, OrderReplaced
<1>10. \A l \in Lines :
         /\ line'[l].po = line[l].po /\ line'[l].ordered = line[l].ordered
         /\ line'[l].cost = line[l].cost /\ line'[l].item = line[l].item
         /\ line'[l].received = line[l].received + IF l \in D THEN got[l] ELSE 0
  <2>1. line' = [l \in Lines |-> IF l \in D THEN [line[l] EXCEPT !.received = @ + got[l]]
                                 ELSE line[l]]
    BY Zenon DEF Receive
  <2>2. \A l \in Lines : line[l] \in OrderLine
    BY DEF LinesOK
  <2> TAKE l \in Lines
  <2>3. line[l].received \in Nat
    BY <2>2 DEF OrderLine
  <2>4. CASE l \in D
    <3>1. line'[l] = [line[l] EXCEPT !.received = line[l].received + got[l]]
      BY <2>1, <2>4
    <3> QED
      BY <2>2, <2>4, <3>1 DEF OrderLine
  <2>5. CASE l \notin D
    BY <2>1, <2>3, <2>5
  <2> QED
    BY <2>4, <2>5
<1> QED
  BY <1>7, <1>8, <1>9, <1>10 DEF a, c, t, s, Raised

(* A status that a user asks for.                                          *)
LEMMA StatusIs ==
  ASSUME Typed, NEW p \in Orders, NEW s \in Statuses, UpdateStatus(p, s)
  PROVE  /\ po' \in [Orders -> Order] /\ \A q \in Orders \ {p} : po'[q] = po[q]
         /\ po'[p].status = s /\ po'[p].freight = po[p].freight
         /\ po'[p].steady => po[p].steady
         /\ po'[p].allocated = po[p].allocated /\ po'[p].capitalised = po[p].capitalised
         /\ line' = line /\ booked' = booked
         /\ po[p].status \in {"draft", "ordered", "shipped", "received"}
         /\ \/ s \in {"ordered", "shipped"} /\ po[p].status \in {"draft", "ordered"}
            \/ s = "cancelled"
            \/ s = "closed" /\ po[p].status = "received"
<1> DEFINE o == [po[p] EXCEPT !.status = s]
<1>1. po' = [po EXCEPT ![p] = o] /\ line' = line /\ booked' = booked
  BY DEF UpdateStatus, SetStatus
<1>2. po[p] \in Order
  BY DEF Typed
<1>3. /\ o \in Order /\ o.status = s /\ o.freight = po[p].freight
      /\ o.allocated = po[p].allocated /\ o.capitalised = po[p].capitalised
  BY <1>2 DEF Order
<1>4. o.steady => po[p].steady
  BY <1>2 DEF Order
<1> HIDE DEF o
<1>5. po' \in [Orders -> Order] /\ po'[p] = o /\ \A q \in Orders \ {p} : po'[q] = po[q]
  BY <1>1, <1>3, OrderReplaced
<1>6. /\ po[p].status \in {"draft", "ordered", "shipped", "received"}
      /\ \/ s \in {"ordered", "shipped"} /\ po[p].status \in {"draft", "ordered"}
         \/ s = "cancelled"
         \/ s = "closed" /\ po[p].status = "received"
  BY DEF UpdateStatus, Transitions
<1> QED
  BY <1>1, <1>3, <1>4, <1>5, <1>6

-----------------------------------------------------------------------------
(* Stock.                                                                  *)

GoodsInv == Typed /\ NothingCameYet /\ UnusedIsEmpty /\ StockIsReceived

LEMMA GoodsInvInit == ASSUME PurchasingInit PROVE GoodsInv
<1>1. Typed
  <2>1. 0 \in Nat /\ "unused" \in Statuses
    BY DEF Statuses
  <2>2. NewOrder("unused", 0) \in Order
    BY <2>1, NewOrderOK
  <2> QED
    BY <2>2 DEF PurchasingInit, Typed
<1>2. \A l \in Lines : line[l].po = NoOrder /\ line[l].received = 0
  BY DEF PurchasingInit, FreeLine, NewLine
<1>3. NothingCameYet /\ UnusedIsEmpty
  <2>1. \A p \in Orders : p # NoOrder
    BY PurchasingAssumption
  <2>2. UnusedIsEmpty
    BY <1>2, <2>1, Zenon DEF UnusedIsEmpty
  <2>3. NothingCameYet
    BY <1>2, Zenon DEF NothingCameYet
  <2> QED
    BY <2>2, <2>3
<1>4. StockIsReceived
  <2> SUFFICES ASSUME NEW i \in Items
               PROVE  booked[i] = SumFunctionOnSet([l \in Lines |-> line[l].received],
                                                   {l \in Lines : line[l].item = i})
    BY DEF StockIsReceived
  <2> DEFINE rec == [l \in Lines |-> line[l].received]
             T == {l \in Lines : line[l].item = i}
  <2>1. IsFiniteSet(T) /\ \A l \in T : rec[l] = 0
    BY <1>2, PurchasingAssumption, FS_Subset
  <2>2. SumFunctionOnSet(rec, T) = 0
    <3> HIDE DEF rec, T
    <3> QED BY <2>1, SumZero
  <2>3. booked[i] = 0
    BY DEF PurchasingInit
  <2> QED
    BY <2>2, <2>3
<1> QED
  BY <1>1, <1>3, <1>4 DEF GoodsInv

(* Stock stays what was received while no receipt changes and no received  *)
(* line changes its product.                                               *)
LEMMA StockStays ==
  ASSUME StockIsReceived, LinesOK, booked' = booked,
         \A l \in Lines : line'[l].received = line[l].received,
         \A l \in Lines : line[l].received # 0 => line'[l].item = line[l].item,
         LinesOK'
  PROVE  StockIsReceived'
<1> SUFFICES ASSUME NEW i \in Items
             PROVE  booked'[i] = SumFunctionOnSet([l \in Lines |-> line'[l].received],
                                                  {l \in Lines : line'[l].item = i})
  BY DEF StockIsReceived
<1> DEFINE rec == [l \in Lines |-> line[l].received]
           T == {l \in Lines : line[l].item = i}
           U == {l \in Lines : line'[l].item = i}
           C == {l \in Lines : line[l].item = i /\ line[l].received # 0}
<1>1. [l \in Lines |-> line'[l].received] = rec
  OBVIOUS
<1>2. \A l \in Lines : rec[l] \in Int
  BY DEF LinesOK, OrderLine
<1>3. /\ IsFiniteSet(T) /\ IsFiniteSet(U) /\ T \subseteq Lines /\ U \subseteq Lines
      /\ C \subseteq T /\ \A l \in T \ C : rec[l] = 0
  BY PurchasingAssumption, FS_Subset
<1>4. C \subseteq U /\ \A l \in U \ C : rec[l] = 0
  OBVIOUS
<1>5. booked[i] = SumFunctionOnSet(rec, T)
  BY DEF StockIsReceived
<1> HIDE DEF rec, T, U, C
<1>6. SumFunctionOnSet(rec, T) = SumFunctionOnSet(rec, C)
  BY <1>2, <1>3, SumRestrict
<1>7. SumFunctionOnSet(rec, U) = SumFunctionOnSet(rec, C)
  BY <1>2, <1>3, <1>4, SumRestrict
<1> QED
  BY <1>1, <1>5, <1>6, <1>7 DEF U

(* A receipt books for each product what it adds to its lines.             *)
LEMMA StockReceived ==
  ASSUME Typed, StockIsReceived, LinesOK, NEW p \in Orders, NEW got, NEW last,
         Delivery(p, got, last), Receive(p, got, last)
  PROVE  StockIsReceived' /\ booked' \in [Items -> Nat]
<1> DEFINE D == DOMAIN got
           rec == [l \in Lines |-> line[l].received]
           rec2 == [l \in Lines |-> line'[l].received]
           add == [l \in Lines |-> IF l \in D THEN got[l] ELSE 0]
<1>1. D \subseteq Lines /\ \A l \in D : got[l] \in Nat
  BY DEF Delivery, LinesOf
<1>2. \A l \in Lines : /\ line'[l].item = line[l].item
                       /\ line'[l].received = line[l].received + add[l]
  BY ReceiptIs
<1>3. \A l \in Lines : /\ rec[l] \in Int /\ add[l] \in Int /\ rec2[l] = rec[l] + add[l]
  BY <1>1, <1>2 DEF LinesOK, OrderLine
<1>4. booked' = [i \in Items |->
                   booked[i] + SumFunctionOnSet(got, {l \in D : line[l].item = i})]
  BY Zenon DEF Receive
<1>5. ASSUME NEW i \in Items
      PROVE  /\ booked'[i] = SumFunctionOnSet(rec2, {l \in Lines : line'[l].item = i})
             /\ booked'[i] \in Nat
  <2> DEFINE T == {l \in Lines : line[l].item = i}
             U == {l \in D : line[l].item = i}
  <2>1. /\ IsFiniteSet(T) /\ T \subseteq Lines /\ U \subseteq T /\ IsFiniteSet(U) /\ U \subseteq D
        /\ {l \in Lines : line'[l].item = i} = T
    BY <1>1, <1>2, PurchasingAssumption, FS_Subset
  <2>2. (\A l \in T \ U : add[l] = 0) /\ (\A l \in U : add[l] = got[l])
    BY <1>1
  <2>3. booked[i] = SumFunctionOnSet(rec, T) /\ booked[i] \in Nat
    BY DEF StockIsReceived, Typed
  <2>4. booked'[i] = booked[i] + SumFunctionOnSet(got, U)
    BY <1>4
  <2> HIDE DEF rec, rec2, add, T, U, D
  <2>5. SumFunctionOnSet(rec2, T) = SumFunctionOnSet(rec, T) + SumFunctionOnSet(add, T)
    BY <1>3, <2>1, SumPlus
  <2>6. SumFunctionOnSet(add, T) = SumFunctionOnSet(add, U)
    BY <1>3, <2>1, <2>2, SumRestrict
  <2>7. SumFunctionOnSet(add, U) = SumFunctionOnSet(got, U)
    BY <2>1, <2>2, SumSame
  <2>8. SumFunctionOnSet(got, U) \in Nat
    BY <1>1, <2>1, SumNat
  <2>9. booked'[i] = SumFunctionOnSet(rec2, T)
    BY <2>3, <2>4, <2>5, <2>6, <2>7
  <2>10. booked'[i] \in Nat
    BY <2>3, <2>4, <2>8
  <2> QED
    BY <2>1, <2>9, <2>10, Zenon
<1>6. booked' \in [Items -> Nat]
  <2>1. booked' = [i \in Items |-> booked'[i]]
    BY <1>4
  <2> QED
    BY <1>5, <2>1
<1> QED
  BY <1>5, <1>6 DEF StockIsReceived

(* Every step keeps what is known of the goods.                            *)
LEMMA GoodsInvNext ==
  ASSUME GoodsInv, LinesOK, LinesOK', [Next]_vars
  PROVE  GoodsInv'
<1>1. GoodsTyped /\ StockIsReceived
  BY DEF GoodsInv, GoodsTyped
<1>2. CASE UNCHANGED <<po, line, booked>>
  BY <1>2 DEF GoodsInv, Typed, NothingCameYet, UnusedIsEmpty, StockIsReceived
<1>3. ASSUME NEW p \in Orders, Revised(p) PROVE GoodsInv'
  <2>1. Typed'
    BY <1>3 DEF GoodsInv, Typed, Revised
  <2>2. NothingCameYet'
    <3> SUFFICES ASSUME NEW l \in Lines,
                        line'[l].po = NoOrder \/ po'[line'[l].po].status \in {"unused", "draft"}
                 PROVE  line[l].received = 0
      BY <1>3 DEF NothingCameYet, Revised
    <3> SUFFICES ASSUME line[l].received # 0 PROVE FALSE
      OBVIOUS
    <3>1. line'[l].po = line[l].po /\ line[l].po \in Orders \cup {NoOrder}
      BY <1>3 DEF Revised, LinesOK, OrderLine
    <3>2. line[l].po # NoOrder /\ po[line[l].po].status \notin {"unused", "draft"}
      BY DEF GoodsInv, NothingCameYet
    <3> QED
      BY <1>3, <3>1, <3>2 DEF Revised
  <2>3. UnusedIsEmpty'
    <3> SUFFICES ASSUME NEW q \in Orders, po'[q].status = "unused", NEW l \in Lines, line'[l].po = q
                 PROVE  FALSE
      BY DEF UnusedIsEmpty
    <3>1. q # p
      BY <1>3 DEF Revised
    <3>2. po'[q] = po[q] /\ (line'[l] = line[l] \/ line'[l].po \in {p, NoOrder})
      BY <1>3, <3>1 DEF Revised
    <3>3. q # NoOrder
      BY PurchasingAssumption
    <3> QED
      BY <3>1, <3>2, <3>3 DEF GoodsInv, UnusedIsEmpty
  <2>4. StockIsReceived'
    BY <1>1, <1>3, StockStays DEF Revised
  <2> QED
    BY <2>1, <2>2, <2>3, <2>4 DEF GoodsInv
<1>4. ASSUME NEW p \in Orders, NEW s \in Statuses, UpdateStatus(p, s) PROVE GoodsInv'
  <2>1. /\ po' \in [Orders -> Order] /\ \A q \in Orders \ {p} : po'[q] = po[q]
        /\ po'[p].status \notin {"unused", "draft"}
        /\ line' = line /\ booked' = booked
    BY <1>4, StatusIs DEF GoodsInv
  <2>2. Typed'
    BY <2>1 DEF GoodsInv, Typed
  <2>3. NothingCameYet' /\ UnusedIsEmpty'
    <3>1. \A l \in Lines : line[l].po \in Orders \cup {NoOrder}
      BY DEF LinesOK, OrderLine
    <3> QED
      BY <2>1, <3>1 DEF GoodsInv, NothingCameYet, UnusedIsEmpty
  <2>4. StockIsReceived'
    BY <2>1 DEF GoodsInv, StockIsReceived
  <2> QED
    BY <2>2, <2>3, <2>4 DEF GoodsInv
<1>5. ASSUME NEW p \in Orders, NEW ls \in SUBSET Lines, NEW got \in [ls -> Quantities], NEW last,
             ls # {} => last \in ls, Receive(p, got, last)
      PROVE  GoodsInv'
  <2>1. Delivery(p, got, last) /\ DOMAIN got \subseteq LinesOf(p)
    BY <1>5, ReceiveDelivers DEF Delivery
  <2>2. /\ po' \in [Orders -> Order] /\ \A q \in Orders \ {p} : po'[q] = po[q]
        /\ po'[p].status = IF Completes(p, got) THEN "received" ELSE po[p].status
        /\ \A l \in Lines :
             /\ line'[l].po = line[l].po
             /\ line'[l].received = line[l].received + IF l \in DOMAIN got THEN got[l] ELSE 0
    <3>1. Typed
      BY DEF GoodsInv
    <3>2. /\ po' \in [Orders -> Order] /\ \A q \in Orders \ {p} : po'[q] = po[q]
          /\ po'[p].status = IF Completes(p, got) THEN "received" ELSE po[p].status
      BY <1>5, <2>1, <3>1, ReceiptIs, Zenon
    <3>3. \A l \in Lines :
             /\ line'[l].po = line[l].po
             /\ line'[l].received = line[l].received + IF l \in DOMAIN got THEN got[l] ELSE 0
      BY <1>5, <2>1, <3>1, ReceiptIs, Zenon
    <3> QED
      BY <3>2, <3>3
  <2>3. po[p].status \in {"ordered", "shipped"} /\ po'[p].status \notin {"unused", "draft"}
    <3>1. po[p].status \in {"ordered", "shipped"}
      BY <1>5 DEF Receive
    <3> QED
      BY <2>2, <3>1
  <2>4. StockIsReceived' /\ Typed'
    BY <1>5, <2>1, <2>2, StockReceived DEF GoodsInv, Typed
  <2>5. \A l \in Lines : line[l].po \in Orders \cup {NoOrder} /\ line[l].received \in Nat
    BY DEF LinesOK, OrderLine
  <2>6. NothingCameYet'
    <3> SUFFICES ASSUME NEW l \in Lines,
                        line'[l].po = NoOrder \/ po'[line'[l].po].status \in {"unused", "draft"}
                 PROVE  line'[l].received = 0
      BY DEF NothingCameYet
    <3>1. line[l].po # p
      BY <2>2, <2>3, PurchasingAssumption
    <3>2. l \notin DOMAIN got
      BY <2>1, <3>1 DEF LinesOf
    <3>3. line'[l].received = line[l].received
      BY <2>2, <2>5, <3>2
    <3> QED
      BY <2>2, <2>5, <3>1, <3>3 DEF GoodsInv, NothingCameYet
  <2>7. UnusedIsEmpty'
    BY <2>2, <2>3 DEF GoodsInv, UnusedIsEmpty
  <2> QED
    BY <2>4, <2>6, <2>7 DEF GoodsInv
<1> QED
  BY <1>1, <1>2, <1>3, <1>4, <1>5, StepIs DEF GoodsInv

-----------------------------------------------------------------------------
(* Freight.                                                                *)

(* What was allocated so far is the freight of the goods that arrived, and *)
(* what went into unit costs is that, up to half a unit for each piece.    *)
Tracked(p) ==
    /\ 2 * (Value(p) * po[p].allocated)
         <= 2 * (po[p].freight * Arrived(p)) + Value(p) * Received(p)
    /\ 2 * (po[p].freight * Arrived(p))
         <= 2 * (Value(p) * po[p].allocated) + Value(p) * Received(p)
    /\ po[p].allocated <= po[p].capitalised
    /\ 2 * (po[p].capitalised - po[p].allocated) <= Received(p)

(* What FreightOnce says of an order.                                      *)
Settled(p) ==
    /\ {l \in LinesOf(p) : line[l].cost = 0} \in {{}, LinesOf(p)} =>
         po[p].allocated = po[p].freight
    /\ po[p].capitalised - po[p].freight \in -Received(p) .. Received(p)

(* An open order is tracked and has something to come; a received one is   *)
(* settled.                                                                *)
FreightOK(p) ==
    /\ \A l \in LinesOf(p) : line[l].ordered >= 1
    /\ po[p].steady =>
         /\ po[p].freight = 0 \/ NoneCame(p) => Untouched(po[p])
         /\ po[p].status \in {"draft", "ordered", "shipped"} =>
              /\ LinesOf(p) # {} => \E l \in LinesOf(p) : line[l].received < line[l].ordered
              /\ Tracked(p)
         /\ po[p].status \in {"received", "closed"} /\ LinesOf(p) # {} => Settled(p)

FreightInv == \A p \in Orders : FreightOK(p)

(* The sums of an order are natural numbers.                               *)
LEMMA OrderSums ==
  ASSUME LinesOK, NEW p \in Orders
  PROVE  Value(p) \in Nat /\ Arrived(p) \in Nat /\ Received(p) \in Nat
<1> DEFINE G == LinesOf(p)
           v == [l \in G |-> line[l].ordered * Weight(p, l)]
           a == [l \in G |-> line[l].received * Weight(p, l)]
           r == [l \in Lines |-> line[l].received]
<1>1. IsFiniteSet(G) /\ G \subseteq Lines
  BY PurchasingAssumption, FS_Subset DEF LinesOf
<1>2. \A l \in G : /\ Weight(p, l) \in Nat
                   /\ line[l].ordered \in Nat /\ line[l].received \in Nat
  BY WeightIs DEF LinesOK, OrderLine, LinesOf
<1>3. \A l \in G : v[l] \in Nat /\ a[l] \in Nat /\ r[l] \in Nat
  BY <1>1, <1>2
<1>4. Value(p) = SumFunctionOnSet(v, G) /\ Arrived(p) = SumFunctionOnSet(a, G)
  BY SumOfFunction DEF Value, Arrived
<1>5. Received(p) = SumFunctionOnSet(r, G)
  BY DEF Received
<1> HIDE DEF v, a, r, G
<1> QED
  BY <1>1, <1>3, <1>4, <1>5, SumNat

(* What has arrived is worth no more than the order, and the order itself  *)
(* when nothing is open.                                                   *)
LEMMA ArrivedIs ==
  ASSUME LinesOK, ReceivedWithinOrdered, NEW p \in Orders
  PROVE  /\ Arrived(p) <= Value(p)
         /\ (\A l \in LinesOf(p) : line[l].received >= line[l].ordered) => Arrived(p) = Value(p)
<1> DEFINE G == LinesOf(p)
           v == [l \in G |-> line[l].ordered * Weight(p, l)]
           a == [l \in G |-> line[l].received * Weight(p, l)]
<1>1. IsFiniteSet(G) /\ G \subseteq Lines
  BY PurchasingAssumption, FS_Subset DEF LinesOf
<1>2. \A l \in G : /\ Weight(p, l) \in Nat
                   /\ line[l].ordered \in Nat /\ line[l].received \in Nat
                   /\ line[l].received <= line[l].ordered
  BY WeightIs DEF LinesOK, OrderLine, LinesOf, ReceivedWithinOrdered
<1>3. \A l \in G : a[l] \in Int /\ v[l] \in Int /\ a[l] <= v[l]
  <2>1. \A x, y, w \in Nat : x <= y => x * w \in Int /\ y * w \in Int /\ x * w <= y * w
    OBVIOUS
  <2> TAKE l \in G
  <2>2. a[l] = line[l].received * Weight(p, l) /\ v[l] = line[l].ordered * Weight(p, l)
    OBVIOUS
  <2> HIDE DEF v, a
  <2> QED
    BY <1>2, <2>1, <2>2
<1>4. Value(p) = SumFunctionOnSet(v, G) /\ Arrived(p) = SumFunctionOnSet(a, G)
  BY SumOfFunction DEF Value, Arrived
<1>5. ASSUME \A l \in G : line[l].received >= line[l].ordered PROVE \A l \in G : a[l] = v[l]
  <2>1. \A l \in G : line[l].received = line[l].ordered
    BY <1>2, <1>5
  <2> QED
    BY <2>1
<1> HIDE DEF v, a
<1>6. SumFunctionOnSet(a, G) <= SumFunctionOnSet(v, G)
  BY <1>1, <1>3, SumMonotone
<1>7. (\A l \in G : a[l] = v[l]) => SumFunctionOnSet(a, G) = SumFunctionOnSet(v, G)
  BY <1>1, SumSame
<1> QED
  BY <1>4, <1>5, <1>6, <1>7

(* An order whose own row and lines are left alone.                        *)
LEMMA FreightStays ==
  ASSUME NEW p \in Orders, FreightOK(p), po'[p] = po[p],
         \A l \in Lines : line'[l] = line[l] \/ (line[l].po # p /\ line'[l].po # p)
  PROVE  FreightOK(p)'
<1>1. LinesOf(p)' = LinesOf(p) /\ \A l \in LinesOf(p) : line'[l] = line[l]
  BY DEF LinesOf
<1>2. \A l \in LinesOf(p) : Weight(p, l)' = Weight(p, l)
  BY <1>1 DEF Weight
<1>3. Value(p)' = Value(p) /\ Arrived(p)' = Arrived(p)
  BY <1>1, <1>2 DEF Value, Arrived
<1>4. Received(p)' = Received(p)
  <2> DEFINE r == [l \in Lines |-> line[l].received]
             s == [l \in Lines |-> line'[l].received]
  <2>1. IsFiniteSet(LinesOf(p)) /\ \A l \in LinesOf(p) : r[l] = s[l]
    BY <1>1, PurchasingAssumption, FS_Subset DEF LinesOf
  <2>2. Received(p) = SumFunctionOnSet(r, LinesOf(p)) /\ Received(p)' = SumFunctionOnSet(s, LinesOf(p))
    BY <1>1 DEF Received
  <2> HIDE DEF r, s
  <2> QED
    BY <2>1, <2>2, SumSame
<1>5. {l \in LinesOf(p) : line[l].cost = 0}' = {l \in LinesOf(p) : line[l].cost = 0}
  BY <1>1
<1>6. (NoneCame(p)' <=> NoneCame(p)) /\ (Untouched(po[p])' <=> Untouched(po[p]))
  BY <1>1 DEF NoneCame, Untouched
<1>7. (Tracked(p)' <=> Tracked(p)) /\ (Settled(p)' <=> Settled(p))
  BY <1>1, <1>3, <1>4, <1>5 DEF Tracked, Settled
<1> QED
  BY <1>1, <1>6, <1>7 DEF FreightOK

(* An order that is revised.                                               *)
LEMMA FreightRevised ==
  ASSUME NEW p \in Orders, FreightOK(p), LinesOK, LinesOK', Typed', Revised(p)
  PROVE  FreightOK(p)'
<1>1. \A l \in Lines : line'[l].po = p => line'[l].ordered >= 1
  BY DEF Revised, FreightOK, LinesOf
<1>2. ASSUME po'[p].steady
      PROVE  /\ NoneCame(p)' /\ Untouched(po'[p])
             /\ LinesOf(p)' # {} => \E l \in LinesOf(p)' : line'[l].received < line'[l].ordered
             /\ Tracked(p)'
  <2>1. \A l \in Lines : line'[l].po = p => line'[l].received = 0
    BY <1>2 DEF Revised
  <2>2. NoneCame(p)'
    BY <2>1 DEF NoneCame, LinesOf
  <2>3. Untouched(po'[p])
    BY <1>2 DEF Revised, FreightOK, Untouched
  <2>4. LinesOf(p)' # {} => \E l \in LinesOf(p)' : line'[l].received < line'[l].ordered
    <3> SUFFICES ASSUME NEW l \in LinesOf(p)' PROVE line'[l].received < line'[l].ordered
      OBVIOUS
    <3>1. l \in Lines /\ line'[l].po = p /\ line'[l].ordered \in Nat
      BY DEF LinesOf, LinesOK, OrderLine
    <3> QED
      BY <1>1, <2>1, <3>1
  <2>5. Arrived(p)' = 0 /\ Received(p)' = 0
    <3> DEFINE G == {l \in Lines : line'[l].po = p}
               a == [l \in G |-> line'[l].received * Weight(p, l)']
               r == [l \in Lines |-> line'[l].received]
    <3>1. IsFiniteSet(G) /\ LinesOf(p)' = G /\ G \subseteq Lines
      BY PurchasingAssumption, FS_Subset DEF LinesOf
    <3>2. \A l \in G : Weight(p, l)' \in Nat
      <4> TAKE l \in G
      <4>1. line'[l].cost \in Nat
        BY DEF LinesOK, OrderLine
      <4> QED
        BY <4>1 DEF Weight
    <3>3. \A l \in G : a[l] = 0 /\ r[l] = 0
      BY <2>1, <3>2
    <3>4. Arrived(p)' = SumFunctionOnSet(a, G) /\ Received(p)' = SumFunctionOnSet(r, G)
      BY <3>1, SumOfFunction DEF Arrived, Received
    <3> HIDE DEF a, r, G
    <3> QED
      BY <3>1, <3>3, <3>4, SumZero
  <2>6. Value(p)' \in Nat
    <3> DEFINE G == {l \in Lines : line'[l].po = p}
               v == [l \in G |-> line'[l].ordered * Weight(p, l)']
    <3>1. IsFiniteSet(G) /\ LinesOf(p)' = G /\ G \subseteq Lines
      BY PurchasingAssumption, FS_Subset DEF LinesOf
    <3>2. \A l \in G : v[l] \in Nat
      <4> TAKE l \in G
      <4>1. line'[l].cost \in Nat /\ line'[l].ordered \in Nat
        BY DEF LinesOK, OrderLine
      <4>2. Weight(p, l)' \in Nat
        BY <4>1 DEF Weight
      <4> QED
        BY <4>1, <4>2
    <3>3. Value(p)' = SumFunctionOnSet(v, G)
      BY <3>1, SumOfFunction DEF Value
    <3> HIDE DEF v, G
    <3> QED
      BY <3>1, <3>2, <3>3, SumNat
  <2>7. po'[p].freight \in Nat
    BY DEF Typed, Order
  <2>8. Tracked(p)'
    <3>1. /\ po'[p].allocated = 0 /\ po'[p].capitalised = 0
      BY <2>3 DEF Untouched
    <3>2. \A n \in Nat : n * 0 = 0
      OBVIOUS
    <3> QED
      BY <2>5, <2>6, <2>7, <3>1, <3>2 DEF Tracked
  <2> QED
    BY <2>2, <2>3, <2>4, <2>8
<1>3. po'[p].status \notin {"received", "closed"}
  BY DEF Revised
<1> QED
  BY <1>1, <1>2, <1>3 DEF FreightOK, LinesOf

(* An order whose status a user sets.                                      *)
LEMMA FreightStatus ==
  ASSUME NEW p \in Orders, NEW s \in Statuses, FreightOK(p), Typed, UpdateStatus(p, s)
  PROVE  FreightOK(p)'
<1>1. /\ po'[p].status = s /\ po'[p].freight = po[p].freight
      /\ po'[p].steady => po[p].steady
      /\ po'[p].allocated = po[p].allocated /\ po'[p].capitalised = po[p].capitalised
      /\ line' = line
      /\ \/ s \in {"ordered", "shipped"} /\ po[p].status \in {"draft", "ordered"}
         \/ s = "cancelled"
         \/ s = "closed" /\ po[p].status = "received"
  BY StatusIs
<1>2. LinesOf(p)' = LinesOf(p) /\ (\A l \in LinesOf(p) : Weight(p, l)' = Weight(p, l))
  BY <1>1 DEF LinesOf, Weight
<1>3. Value(p)' = Value(p) /\ Arrived(p)' = Arrived(p) /\ Received(p)' = Received(p)
  BY <1>1, <1>2 DEF Value, Arrived, Received
<1>4. (Tracked(p) => Tracked(p)') /\ (Settled(p) => Settled(p)')
  BY <1>1, <1>2, <1>3 DEF Tracked, Settled
<1>5. (NoneCame(p)' <=> NoneCame(p)) /\ (Untouched(po'[p]) <=> Untouched(po[p]))
  BY <1>1, <1>2 DEF NoneCame, Untouched
<1> QED
  BY <1>1, <1>2, <1>4, <1>5 DEF FreightOK

(* What a receipt adds to the sums of its order.                           *)
LEMMA ReceiptSums ==
  ASSUME Typed, LinesOK, NEW p \in Orders, NEW got, NEW last, Delivery(p, got, last),
         Receive(p, got, last)
  PROVE  /\ LinesOf(p)' = LinesOf(p)
         /\ Value(p)' = Value(p)
         /\ Arrived(p)' = Arrived(p) + SumFunction(Parts(p, got))
         /\ Received(p)' = Received(p) + SumFunctionOnSet(got, DOMAIN got)
         /\ SumFunctionOnSet(got, DOMAIN got) \in Nat
<1> DEFINE G == LinesOf(p)
           D == DOMAIN got
           k == Parts(p, got)
           k0 == [l \in G |-> IF l \in D THEN k[l] ELSE 0]
           g0 == [l \in G |-> IF l \in D THEN got[l] ELSE 0]
           a == [l \in G |-> line[l].received * Weight(p, l)]
           a2 == [l \in G |-> line'[l].received * Weight(p, l)']
           r == [l \in Lines |-> line[l].received]
           r2 == [l \in Lines |-> line'[l].received]
<1>1. \A l \in Lines :
        /\ line'[l].po = line[l].po /\ line'[l].ordered = line[l].ordered
        /\ line'[l].cost = line[l].cost
        /\ line'[l].received = line[l].received + IF l \in D THEN got[l] ELSE 0
  BY ReceiptIs, Zenon
<1>2. /\ IsFiniteSet(G) /\ IsFiniteSet(D) /\ D \subseteq G /\ G \subseteq Lines
      /\ \A l \in D : got[l] \in Nat
  BY Worth DEF Delivery, LinesOf
<1>3. \A l \in G : /\ Weight(p, l) \in Nat /\ line[l].received \in Nat
  BY WeightIs DEF LinesOK, OrderLine, LinesOf
<1>4. LinesOf(p)' = G
  BY <1>1 DEF LinesOf
<1>5. \A l \in G : Weight(p, l)' = Weight(p, l)
  <2>1. \A l \in G : line'[l].ordered = line[l].ordered /\ line'[l].cost = line[l].cost
    BY <1>1, <1>2
  <2>2. (\A m \in G : line'[m].ordered * line'[m].cost = 0)
          <=> (\A m \in G : line[m].ordered * line[m].cost = 0)
    BY <2>1
  <2> QED
    BY <1>4, <2>1, <2>2 DEF Weight
<1>6. Value(p)' = Value(p)
  <2>1. \A l \in G : line'[l].ordered = line[l].ordered
    BY <1>1, <1>2
  <2> QED
    BY <1>4, <1>5, <2>1 DEF Value
<1>7. \A l \in D : k[l] = got[l] * Weight(p, l) /\ k[l] \in Nat
  BY <1>2, <1>3 DEF Parts
<1>8. \A l \in G : /\ k0[l] \in Int /\ a[l] \in Int /\ g0[l] \in Int /\ r[l] \in Int
                   /\ a2[l] = a[l] + k0[l]
                   /\ r2[l] = r[l] + g0[l]
  <2> TAKE l \in G
  <2>1. \A x, y, w \in Nat : (x + y) * w = x * w + y * w /\ (x + 0) * w = x * w
    OBVIOUS
  <2>2. a2[l] = line'[l].received * Weight(p, l) /\ a[l] = line[l].received * Weight(p, l)
    BY <1>5
  <2>3. line'[l].received = line[l].received + IF l \in D THEN got[l] ELSE 0
    BY <1>1, <1>2
  <2>4. g0[l] = (IF l \in D THEN got[l] ELSE 0) /\ k0[l] = (IF l \in D THEN k[l] ELSE 0)
    OBVIOUS
  <2>5. r2[l] = line'[l].received /\ r[l] = line[l].received
    BY <1>2
  <2> HIDE DEF k0, g0, a, a2, r, r2, k
  <2>6. CASE l \in D
    BY <1>2, <1>3, <1>7, <2>1, <2>2, <2>3, <2>4, <2>5, <2>6
  <2>7. CASE l \notin D
    BY <1>2, <1>3, <2>1, <2>2, <2>3, <2>4, <2>5, <2>7
  <2> QED
    BY <2>6, <2>7
<1>9. (\A l \in G \ D : k0[l] = 0 /\ g0[l] = 0) /\ (\A l \in D : k0[l] = k[l] /\ g0[l] = got[l])
  BY <1>2
<1>10. /\ Arrived(p) = SumFunctionOnSet(a, G) /\ Arrived(p)' = SumFunctionOnSet(a2, G)
  BY <1>4, SumOfFunction DEF Arrived
<1>11. Received(p) = SumFunctionOnSet(r, G) /\ Received(p)' = SumFunctionOnSet(r2, G)
  BY <1>4 DEF Received
<1>12. SumFunction(k) = SumFunctionOnSet(k, D)
  BY SumOfFunction DEF Parts
<1> HIDE DEF k, k0, g0, a, a2, r, r2
<1>13. SumFunctionOnSet(a2, G) = SumFunctionOnSet(a, G) + SumFunctionOnSet(k0, G)
  BY <1>2, <1>8, SumPlus
<1>14. SumFunctionOnSet(r2, G) = SumFunctionOnSet(r, G) + SumFunctionOnSet(g0, G)
  BY <1>2, <1>8, SumPlus
<1>15. SumFunctionOnSet(k0, G) = SumFunctionOnSet(k0, D) /\ SumFunctionOnSet(g0, G) = SumFunctionOnSet(g0, D)
  BY <1>2, <1>8, <1>9, SumRestrict
<1>16. SumFunctionOnSet(k0, D) = SumFunctionOnSet(k, D)
  BY <1>2, <1>9, SumSame
<1>17. SumFunctionOnSet(g0, D) = SumFunctionOnSet(got, D)
  BY <1>2, <1>9, SumSame
<1>18. SumFunctionOnSet(got, D) \in Nat
  BY <1>2, SumNat
<1> QED
  BY <1>4, <1>6, <1>10, <1>11, <1>12, <1>13, <1>14, <1>15, <1>16, <1>17, <1>18 DEF k

(* A common factor.                                                        *)
LEMMA Cancelled ==
  ASSUME NEW d \in Nat, d > 0, NEW a \in Int, NEW b \in Int, d * a <= d * b
  PROVE  a <= b
<1> SUFFICES ASSUME a >= b + 1 PROVE FALSE
  OBVIOUS
<1>1. d * a >= d * (b + 1)
  OBVIOUS
<1>2. d * (b + 1) = d * b + d /\ d * b \in Int
  OBVIOUS
<1> QED
  BY <1>1, <1>2

(* A rounded share of the freight of an order keeps the track.             *)
LEMMA TrackedOn ==
  ASSUME NEW v \in Nat, NEW f \in Nat, NEW a \in Int, NEW t \in Int, NEW r \in Nat,
         NEW part \in Nat, NEW n \in Nat, NEW g \in Nat, g >= 1,
         2 * (v * a) <= 2 * (f * r) + v * n, 2 * (f * r) <= 2 * (v * a) + v * n,
         2 * (v * t) <= 2 * (f * part) + v, 2 * (f * part) <= 2 * (v * t) + v
  PROVE  /\ 2 * (v * (a + t)) <= 2 * (f * (r + part)) + v * (n + g)
         /\ 2 * (f * (r + part)) <= 2 * (v * (a + t)) + v * (n + g)
<1>1. v * (a + t) = v * a + v * t /\ f * (r + part) = f * r + f * part
  OBVIOUS
<1>2. v * (n + g) = v * n + v * g /\ v * g >= v
  OBVIOUS
<1>3. /\ v * a \in Int /\ v * t \in Int /\ f * r \in Int /\ f * part \in Int
      /\ v * n \in Int /\ v * g \in Int
  OBVIOUS
<1> QED
  BY <1>1, <1>2, <1>3

(* No more than the freight is allocated, up to rounding; all of it, when  *)
(* the goods have arrived.                                                 *)
LEMMA TrackedBound ==
  ASSUME NEW v \in Nat, v > 0, NEW f \in Nat, NEW a \in Int, NEW r \in Nat, r <= v, NEW n \in Nat,
         2 * (v * a) <= 2 * (f * r) + v * n, 2 * (f * r) <= 2 * (v * a) + v * n
  PROVE  /\ 2 * (a - f) <= n
         /\ r = v => 2 * (f - a) <= n
<1>1. f * r <= f * v /\ f * v = v * f /\ v * f \in Int /\ f * r \in Int
  OBVIOUS
<1>2. /\ v * (2 * (a - f)) = 2 * (v * a) - 2 * (v * f)
      /\ v * (2 * (f - a)) = 2 * (v * f) - 2 * (v * a)
      /\ v * a \in Int /\ v * n \in Int
  OBVIOUS
<1>3. v * (2 * (a - f)) <= v * n
  BY <1>1, <1>2
<1>4. r = v => v * (2 * (f - a)) <= v * n
  BY <1>1, <1>2
<1> QED
  BY <1>3, <1>4, Cancelled

(* An order with lines is worth something.                                 *)
LEMMA ValuePositive ==
  ASSUME LinesOK, NEW p \in Orders, LinesOf(p) # {}, \A l \in LinesOf(p) : line[l].ordered >= 1
  PROVE  Value(p) > 0
<1> DEFINE G == LinesOf(p)
           v == [l \in G |-> line[l].ordered * Weight(p, l)]
<1>1. IsFiniteSet(G) /\ G \subseteq Lines
  BY PurchasingAssumption, FS_Subset DEF LinesOf
<1>2. \A l \in G : /\ Weight(p, l) \in Nat
                   /\ line[l].ordered \in Nat /\ line[l].cost \in Nat /\ line[l].ordered >= 1
  BY <1>1, WeightIs DEF LinesOK, OrderLine
<1>3. \A l \in G : v[l] \in Nat /\ v[l] = line[l].ordered * Weight(p, l)
  BY <1>2
<1>4. PICK l \in G : Weight(p, l) >= 1
  <2>1. CASE \A m \in G : line[m].ordered * line[m].cost = 0
    BY <2>1 DEF Weight
  <2>2. CASE ~ \A m \in G : line[m].ordered * line[m].cost = 0
    <3>1. PICK m \in G : line[m].ordered * line[m].cost # 0
      BY <2>2
    <3>2. line[m].cost # 0
      BY <1>2, <3>1
    <3>3. Weight(p, m) = line[m].cost
      BY <2>2 DEF Weight
    <3> QED
      BY <1>2, <3>2, <3>3
  <2> QED
    BY <2>1, <2>2
<1>5. v[l] >= 1
  <2>1. \A x, y \in Nat : x >= 1 /\ y >= 1 => x * y >= 1
    OBVIOUS
  <2> HIDE DEF v
  <2> QED
    BY <1>2, <1>3, <1>4, <2>1
<1>6. Value(p) = SumFunctionOnSet(v, G)
  BY SumOfFunction DEF Value
<1> HIDE DEF v
<1>7. SumFunctionOnSet(v, G) = v[l] + SumFunctionOnSet(v, G \ {l})
  <2>1. \A m \in G : v[m] \in Int
    BY <1>3
  <2> QED
    BY <1>1, <1>4, <2>1, SumRemove
<1>8. SumFunctionOnSet(v, G \ {l}) \in Nat
  <2>1. IsFiniteSet(G \ {l}) /\ \A m \in G \ {l} : v[m] \in Nat
    BY <1>1, <1>3, FS_Subset
  <2> QED
    BY <2>1, SumNat
<1> QED
  BY <1>3, <1>5, <1>6, <1>7, <1>8

(* With the receipt that completes it, all that an order is worth arrived. *)
LEMMA CompleteReceipt ==
  ASSUME Typed, LinesOK, ReceivedWithinOrdered, NEW p \in Orders, NEW got, NEW last,
         Delivery(p, got, last), Receive(p, got, last), Completes(p, got)
  PROVE  Arrived(p)' = Value(p)'
<1> DEFINE G == LinesOf(p)
<1>1. \A l \in Lines :
        /\ line'[l].po = line[l].po /\ line'[l].ordered = line[l].ordered
        /\ line'[l].received = line[l].received + IF l \in DOMAIN got THEN got[l] ELSE 0
  BY ReceiptIs, Zenon
<1>2. LinesOf(p)' = G /\ G \subseteq Lines
  BY <1>1 DEF LinesOf
<1>3. \A l \in G : line'[l].received = line'[l].ordered
  <2> TAKE l \in G
  <2>1. line[l].received \in Nat /\ line[l].ordered \in Nat /\ line[l].received <= line[l].ordered
    BY <1>2 DEF LinesOK, OrderLine, ReceivedWithinOrdered
  <2>2. CASE l \in DOMAIN got
    <3>1. got[l] \in Nat /\ got[l] <= line[l].ordered - line[l].received
      BY <2>2 DEF Delivery, Open
    <3>2. line[l].received + got[l] >= line[l].ordered
      BY <2>2 DEF Completes
    <3> QED
      BY <1>1, <1>2, <2>1, <2>2, <3>1, <3>2
  <2>3. CASE l \notin DOMAIN got
    <3>1. line[l].received + 0 >= line[l].ordered
      BY <2>3 DEF Completes
    <3> QED
      BY <1>1, <1>2, <2>1, <2>3, <3>1
  <2> QED
    BY <2>2, <2>3
<1> QED
  BY <1>2, <1>3 DEF Arrived, Value

(* Nothing is worth nothing, line by line.                                 *)
LEMMA WorthNothing ==
  ASSUME LinesOK, NEW p \in Orders, NEW got, NEW last, Delivery(p, got, last),
         SumFunction(Parts(p, got)) = 0
  PROVE  \A l \in DOMAIN got : Weight(p, l) = 0
<1> DEFINE k == Parts(p, got)
           D == DOMAIN got
<1>1. /\ IsFiniteSet(D) /\ D \subseteq Lines
      /\ \A l \in D : got[l] \in Nat /\ got[l] >= 1
  BY Worth DEF Delivery, LinesOf
<1>2. \A l \in D : Weight(p, l) \in Nat /\ k[l] = got[l] * Weight(p, l) /\ k[l] \in Nat
  BY <1>1, WeightIs DEF Parts
<1>3. SumFunctionOnSet(k, D) = 0
  BY SumOfFunction DEF Parts
<1> HIDE DEF k
<1> SUFFICES ASSUME NEW l \in D PROVE Weight(p, l) = 0
  OBVIOUS
<1>4. SumFunctionOnSet(k, D) = k[l] + SumFunctionOnSet(k, D \ {l})
  <2>1. \A m \in D : k[m] \in Int
    BY <1>2
  <2> QED
    BY <1>1, <2>1, SumRemove
<1>5. SumFunctionOnSet(k, D \ {l}) \in Nat
  <2>1. IsFiniteSet(D \ {l}) /\ \A m \in D \ {l} : k[m] \in Nat
    BY <1>1, <1>2, FS_Subset
  <2> QED
    BY <2>1, SumNat
<1>6. k[l] = 0
  BY <1>2, <1>3, <1>4, <1>5
<1>7. \A x, y \in Nat : x >= 1 /\ x * y = 0 => y = 0
  OBVIOUS
<1> QED
  BY <1>1, <1>2, <1>6, <1>7

(* What the shares of a receipt come to, all of them and the positive      *)
(* ones.                                                                   *)
LEMMA SharesTotal ==
  ASSUME Typed, LinesOK, NEW p \in Orders, NEW got, NEW last, Delivery(p, got, last),
         NEW s, s = Shares(p, got, last), NEW P, P = {l \in DOMAIN got : s[l] > 0}
  PROVE  /\ po[p].freight = 0 \/ SumFunction(Parts(p, got)) = 0 =>
              /\ SumFunction(s) = 0
              /\ SumFunctionOnSet(s, P) = 0
         /\ po[p].freight # 0 /\ SumFunction(Parts(p, got)) # 0 =>
              /\ SumFunction(s) = Target(p, got)
              /\ SumFunctionOnSet(s, P) \in Nat
              /\ Base(p, got) >= 0 =>
                   /\ Target(p, got) <= SumFunctionOnSet(s, P)
                   /\ 2 * (SumFunctionOnSet(s, P) - Target(p, got))
                        <= SumFunctionOnSet(got, DOMAIN got)
              /\ Base(p, got) < 0 =>
                   2 * SumFunctionOnSet(s, P) <= SumFunctionOnSet(got, DOMAIN got)
<1> DEFINE D == DOMAIN got
<1>1. IsFiniteSet(D) /\ DOMAIN s = D
  BY Worth, SharesAre
<1>2. SumFunction(s) = SumFunctionOnSet(s, D)
  BY <1>1, SumOfFunction
<1>3. ASSUME po[p].freight = 0 \/ SumFunction(Parts(p, got)) = 0
      PROVE  SumFunction(s) = 0 /\ SumFunctionOnSet(s, P) = 0
  <2>1. \A l \in D : s[l] = 0
    BY <1>3, SharesAre
  <2>2. P = {}
    BY <2>1
  <2> QED
    BY <1>1, <1>2, <2>1, <2>2, SumZero, SumEmpty
<1>4. ASSUME po[p].freight # 0, SumFunction(Parts(p, got)) # 0
      PROVE  Parted(D, got, Parts(p, got), s, Base(p, got), Divisor(p, got), Target(p, got), last)
  BY <1>4, SharesAre
<1>5. ASSUME po[p].freight # 0, SumFunction(Parts(p, got)) # 0
      PROVE  SumFunction(s) = Target(p, got)
  BY <1>2, <1>4, <1>5, LastShare
<1>6. ASSUME po[p].freight # 0, SumFunction(Parts(p, got)) # 0
      PROVE  /\ SumFunctionOnSet(s, P) \in Nat
             /\ Base(p, got) >= 0 =>
                  /\ Target(p, got) <= SumFunctionOnSet(s, P)
                  /\ 2 * (SumFunctionOnSet(s, P) - Target(p, got)) <= SumFunctionOnSet(got, D)
             /\ Base(p, got) < 0 => 2 * SumFunctionOnSet(s, P) <= SumFunctionOnSet(got, D)
  BY <1>4, <1>6, PositiveShares
<1> QED
  BY <1>3, <1>5, <1>6, Zenon

(* An order that a receipt is for.                                         *)
LEMMA FreightReceipt ==
  ASSUME Typed, LinesOK, ReceivedWithinOrdered, NEW p \in Orders, FreightOK(p), NEW got, NEW last,
         Delivery(p, got, last), Receive(p, got, last)
  PROVE  FreightOK(p)'
<1> DEFINE s == Shares(p, got, last)
           P == Raised(p, got, last)
           D == DOMAIN got
           part == SumFunction(Parts(p, got))
           g == SumFunctionOnSet(got, D)
           f == po[p].freight
           a == po[p].allocated
           c == po[p].capitalised
           v == Value(p)
           r == Arrived(p)
           n == Received(p)
           total == SumFunction(s)
           pos == SumFunctionOnSet(s, P)
           target == Target(p, got)
<1>1. /\ po'[p].status = IF Completes(p, got) THEN "received" ELSE po[p].status
      /\ po'[p].freight = f
      /\ po'[p].steady => po[p].steady
      /\ po'[p].allocated = a + total
      /\ po'[p].capitalised = c + pos
  <2> HIDE DEF s, P
  <2>1. po'[p].status = IF Completes(p, got) THEN "received" ELSE po[p].status
    BY ReceiptIs, Zenon
  <2>2. po'[p].freight = f /\ (po'[p].steady => po[p].steady)
    BY ReceiptIs, Zenon
  <2>3. po'[p].allocated = a + total
    BY ReceiptIs DEF s
  <2>4. po'[p].capitalised = c + pos
    BY ReceiptIs DEF s, P
  <2> QED
    BY <2>1, <2>2, <2>3, <2>4
<1>2. \A l \in Lines :
        /\ line'[l].po = line[l].po /\ line'[l].ordered = line[l].ordered
        /\ line'[l].cost = line[l].cost
        /\ line'[l].received = line[l].received + IF l \in D THEN got[l] ELSE 0
  BY ReceiptIs, Zenon
<1>3. /\ LinesOf(p)' = LinesOf(p) /\ Value(p)' = v
      /\ Arrived(p)' = r + part /\ Received(p)' = n + g /\ g \in Nat
  BY ReceiptSums
<1>4. f \in Nat /\ a \in Int /\ c \in Nat
  BY DEF Typed, Order
<1>5. v \in Nat /\ r \in Nat /\ n \in Nat /\ r <= v
  BY OrderSums, ArrivedIs
<1>6. part \in Nat /\ IsFiniteSet(D) /\ D \subseteq LinesOf(p) /\ D \subseteq Lines
  BY Worth DEF Delivery, LinesOf
<1>7. \A l \in D : got[l] \in Nat /\ got[l] >= 1
  BY DEF Delivery
<1>8. /\ f = 0 \/ part = 0 => total = 0 /\ pos = 0
      /\ f # 0 /\ part # 0 => /\ total = target /\ pos \in Nat
                              /\ Base(p, got) >= 0 => target <= pos /\ 2 * (pos - target) <= g
                              /\ Base(p, got) < 0 => 2 * pos <= g
  <2>1. P = {l \in D : s[l] > 0}
    BY DEF Raised
  <2> QED
    BY <2>1, SharesTotal
<1>9. part # 0 => g >= 1
  <2> SUFFICES ASSUME part # 0 PROVE g >= 1
    OBVIOUS
  <2>1. D # {}
    <3> SUFFICES ASSUME D = {} PROVE FALSE
      OBVIOUS
    <3>1. part = SumFunctionOnSet(Parts(p, got), {})
      BY SumOfFunction DEF Parts
    <3> QED
      BY <3>1, SumEmpty
  <2>2. PICK l \in D : TRUE
    BY <2>1
  <2>3. g = got[l] + SumFunctionOnSet(got, D \ {l})
    <3>1. \A m \in D : got[m] \in Int
      BY <1>7
    <3> HIDE DEF D
    <3> QED
      BY <1>6, <3>1, SumRemove
  <2>4. SumFunctionOnSet(got, D \ {l}) \in Nat
    <3>1. IsFiniteSet(D \ {l}) /\ \A m \in D \ {l} : got[m] \in Nat
      BY <1>6, <1>7, FS_Subset
    <3> HIDE DEF D
    <3> QED
      BY <3>1, SumNat
  <2> QED
    BY <1>7, <2>3, <2>4
<1>10. \A l \in LinesOf(p) : line[l] \in OrderLine /\ l \in Lines
  BY DEF LinesOK, LinesOf
<1>11. \A l \in LinesOf(p)' : line'[l].ordered >= 1
  BY <1>2, <1>3, <1>10 DEF FreightOK
<1> SUFFICES ASSUME po'[p].steady
             PROVE  /\ po'[p].freight = 0 \/ NoneCame(p)' => Untouched(po'[p])
                    /\ po'[p].status \in {"draft", "ordered", "shipped"} =>
                         /\ LinesOf(p)' # {} => \E l \in LinesOf(p)' : line'[l].received < line'[l].ordered
                         /\ Tracked(p)'
                    /\ po'[p].status \in {"received", "closed"} /\ LinesOf(p)' # {} => Settled(p)'
  BY <1>11 DEF FreightOK
<1>12. /\ po[p].steady /\ po[p].status \in {"ordered", "shipped"}
       /\ Tracked(p) /\ (f = 0 \/ NoneCame(p) => a = 0 /\ c = 0)
       /\ LinesOf(p) # {} => \E l \in LinesOf(p) : line[l].received < line[l].ordered
  <2>1. po[p].status \in {"ordered", "shipped"}
    BY DEF Receive
  <2> QED
    BY <1>1, <2>1 DEF FreightOK, Untouched
<1>13. /\ 2 * (v * a) <= 2 * (f * r) + v * n /\ 2 * (f * r) <= 2 * (v * a) + v * n
       /\ a <= c /\ 2 * (c - a) <= n
  BY <1>12 DEF Tracked
<1>14. NoneCame(p)' => part = 0 /\ NoneCame(p)
  <2> SUFFICES ASSUME NoneCame(p)' PROVE part = 0 /\ NoneCame(p)
    OBVIOUS
  <2>1. \A l \in LinesOf(p) : line'[l].received = 0
    BY <1>3 DEF NoneCame
  <2>2. \A l \in LinesOf(p) : line[l].received \in Nat
    BY <1>10 DEF OrderLine
  <2>3. D = {}
    <3> SUFFICES ASSUME NEW l \in D PROVE FALSE
      OBVIOUS
    <3>1. line'[l].received = line[l].received + got[l]
      BY <1>2, <1>6
    <3> QED
      BY <1>6, <1>7, <2>1, <2>2, <3>1
  <2>4. part = SumFunctionOnSet(Parts(p, got), {})
    BY <2>3, SumOfFunction DEF Parts
  <2>5. \A l \in LinesOf(p) : line[l].received = 0
    <3> TAKE l \in LinesOf(p)
    <3>1. line'[l].received = line[l].received + 0
      BY <1>2, <1>10, <2>3
    <3> QED
      BY <2>1, <2>2, <3>1
  <2> QED
    BY <2>4, <2>5, SumEmpty DEF NoneCame
<1> HIDE DEF s, P, D, part, g, total, pos, target, f, a, c, v, r, n
<1>15. po'[p].freight = 0 \/ NoneCame(p)' => Untouched(po'[p])
  <2> SUFFICES ASSUME f = 0 \/ (part = 0 /\ NoneCame(p)) PROVE Untouched(po'[p])
    BY <1>1, <1>14
  <2>1. a = 0 /\ c = 0 /\ total = 0 /\ pos = 0
    BY <1>8, <1>12
  <2> QED
    BY <1>1, <2>1 DEF Untouched
<1>16. ASSUME ~Completes(p, got)
       PROVE  \E l \in LinesOf(p)' : line'[l].received < line'[l].ordered
  <2>1. PICK l \in LinesOf(p) :
          ~(line[l].received + (IF l \in D THEN got[l] ELSE 0) >= line[l].ordered)
    BY <1>16 DEF Completes, D
  <2>2. line[l].received \in Nat /\ line[l].ordered \in Nat /\ l \in Lines
    BY <1>10 DEF OrderLine
  <2> QED
    BY <1>2, <1>3, <1>7, <2>1, <2>2
<1>17. ASSUME ~Completes(p, got) PROVE Tracked(p)'
  <2>1. /\ 2 * (v * (a + total)) <= 2 * (f * (r + part)) + v * (n + g)
        /\ 2 * (f * (r + part)) <= 2 * (v * (a + total)) + v * (n + g)
        /\ a + total <= c + pos /\ 2 * ((c + pos) - (a + total)) <= n + g
    <3>1. CASE f = 0 \/ part = 0
      <4>1. total = 0 /\ pos = 0
        BY <1>8, <3>1
      <4>2. f * (r + part) = f * r
        BY <1>4, <1>5, <1>6, <3>1
      <4>3. v * n <= v * (n + g) /\ v * n \in Int /\ v * (n + g) \in Int
        <5>1. \A x, y, z \in Nat : x * y <= x * (y + z) /\ x * y \in Int /\ x * (y + z) \in Int
          OBVIOUS
        <5> QED
          BY <1>3, <1>5, <5>1
      <4>4. a + total = a /\ c + pos = c
        BY <1>4, <4>1
      <4>5. v * a \in Int /\ f * r \in Int
        BY <1>4, <1>5
      <4> QED
        BY <1>3, <1>4, <1>5, <1>13, <4>2, <4>3, <4>4, <4>5
    <3>2. CASE f # 0 /\ part # 0
      <4>1. total = target /\ pos \in Nat /\ target <= pos /\ 2 * (pos - target) <= g
        <5>1. Base(p, got) = f
          BY <1>17 DEF Base, f
        <5> QED
          BY <1>4, <1>8, <3>2, <5>1
      <4>2. target = Rounded(f * part, v)
        BY <1>17 DEF Target, target, f, part, v
      <4>3. v > 0
        <5>1. part <= v
          BY Worth DEF part, v
        <5> QED
          BY <1>5, <1>6, <3>2, <5>1
      <4>4. f * part \in Int
        BY <1>4, <1>6
      <4>5. /\ target \in Int
            /\ 2 * (v * target) <= 2 * (f * part) + v /\ 2 * (f * part) <= 2 * (v * target) + v
        BY <1>5, <4>2, <4>3, <4>4, RoundedIs
      <4>6. /\ 2 * (v * (a + target)) <= 2 * (f * (r + part)) + v * (n + g)
            /\ 2 * (f * (r + part)) <= 2 * (v * (a + target)) + v * (n + g)
        BY <1>3, <1>4, <1>5, <1>6, <1>9, <1>13, <3>2, <4>5, TrackedOn
      <4>7. a + target <= c + pos /\ 2 * ((c + pos) - (a + target)) <= n + g
        BY <1>3, <1>4, <1>5, <1>13, <4>1, <4>5
      <4> QED
        BY <4>1, <4>6, <4>7
    <3> QED
      BY <3>1, <3>2
  <2> QED
    BY <1>1, <1>3, <2>1 DEF Tracked
<1>18. ASSUME Completes(p, got), LinesOf(p) # {} PROVE Settled(p)'
  <2>1. r + part = v
    BY <1>3, <1>18, CompleteReceipt
  <2>2. v > 0
    BY <1>18, ValuePositive DEF FreightOK, v
  <2>3. f # 0 => 2 * (a - f) <= n /\ (part = 0 => 2 * (f - a) <= n)
    BY <1>4, <1>5, <1>13, <2>1, <2>2, TrackedBound
  <2>4. f # 0 /\ part # 0 => total = f - a /\ Base(p, got) = f - a
    BY <1>8, <1>18 DEF Target, Base, target, f, a
  <2>5. (c + pos) - f \in -(n + g) .. n + g
    <3>1. CASE f = 0
      <4>1. c = 0 /\ pos = 0
        BY <1>8, <1>12, <3>1
      <4> QED
        BY <1>3, <1>5, <3>1, <4>1
    <3>2. CASE f # 0 /\ part = 0
      <4>1. pos = 0
        BY <1>8, <3>2
      <4> QED
        BY <1>3, <1>4, <1>5, <1>13, <2>3, <3>2, <4>1
    <3>3. CASE f # 0 /\ part # 0
      <4>1. pos \in Nat /\ (f - a >= 0 => f - a <= pos /\ 2 * (pos - (f - a)) <= g)
            /\ (f - a < 0 => 2 * pos <= g)
        BY <1>8, <2>4, <3>3
      <4> QED
        BY <1>3, <1>4, <1>5, <1>13, <2>3, <3>3, <4>1
    <3> QED
      BY <3>1, <3>2, <3>3
  <2>6. ASSUME {l \in LinesOf(p) : line[l].cost = 0} \in {{}, LinesOf(p)} PROVE a + total = f
    <3>1. CASE f = 0
      BY <1>8, <1>12, <3>1
    <3>2. CASE f # 0 /\ part # 0
      BY <1>4, <2>4, <3>2
    <3>3. CASE f # 0 /\ part = 0
      <4>1. PICK l \in LinesOf(p) : line[l].received < line[l].ordered
        BY <1>12, <1>18
      <4>2. line[l].received \in Nat /\ line[l].ordered \in Nat
        BY <1>10 DEF OrderLine
      <4>3. l \in D
        <5> SUFFICES ASSUME l \notin D PROVE FALSE
          OBVIOUS
        <5>1. line[l].received + 0 >= line[l].ordered
          BY <1>18 DEF Completes, D
        <5> QED
          BY <4>1, <4>2, <5>1
      <4>4. Weight(p, l) = 0
        BY <3>3, <4>3, WorthNothing DEF part, D
      <4>5. line[l].cost = 0 /\ ~ \A m \in LinesOf(p) : line[m].ordered * line[m].cost = 0
        BY <4>4 DEF Weight
      <4>6. PICK m \in LinesOf(p) : line[m].ordered * line[m].cost # 0
        BY <4>5
      <4>7. line[m].cost # 0
        BY <1>10, <4>6 DEF OrderLine
      <4> QED
        BY <2>6, <4>5, <4>7
    <3> QED
      BY <3>1, <3>2, <3>3
  <2>7. {l \in LinesOf(p) : line[l].cost = 0}' = {l \in LinesOf(p) : line[l].cost = 0}
    BY <1>2, <1>3, <1>10
  <2> QED
    BY <1>1, <1>3, <2>5, <2>6, <2>7 DEF Settled
<1>19. po'[p].status \in {"draft", "ordered", "shipped"} => ~Completes(p, got)
  BY <1>1
<1>20. po'[p].status \in {"received", "closed"} => Completes(p, got)
  BY <1>1, <1>12
<1> QED
  BY <1>3, <1>15, <1>16, <1>17, <1>18, <1>19, <1>20

(* There are no orders and no lines on them at the start.                  *)
LEMMA FreightInvInit == ASSUME PurchasingInit PROVE FreightInv
<1> SUFFICES ASSUME NEW p \in Orders PROVE FreightOK(p)
  BY DEF FreightInv
<1>1. /\ po[p].status = "unused" /\ Untouched(po[p]) /\ po[p].freight = 0
  BY DEF PurchasingInit, NewOrder, Untouched
<1>2. LinesOf(p) = {}
  BY PurchasingAssumption DEF PurchasingInit, FreeLine, NewLine, LinesOf
<1> QED
  BY <1>1, <1>2 DEF FreightOK

(* Every step keeps the freight of every order.                            *)
LEMMA FreightInvNext ==
  ASSUME ReceiptInv, ReceiptInv', GoodsInv, GoodsInv', FreightInv, [Next]_vars
  PROVE  FreightInv'
<1>1. /\ Typed /\ LinesOK /\ Typed' /\ LinesOK' /\ ReceivedWithinOrdered
      /\ GoodsTyped /\ UnusedIsEmpty
  BY DEF ReceiptInv, GoodsInv, GoodsTyped
<1> SUFFICES ASSUME NEW q \in Orders PROVE FreightOK(q)'
  BY DEF FreightInv
<1>2. FreightOK(q) /\ q # NoOrder
  BY PurchasingAssumption DEF FreightInv
<1>3. CASE UNCHANGED <<po, line, booked>>
  BY <1>2, <1>3, FreightStays
<1>4. ASSUME NEW p \in Orders, Revised(p) PROVE FreightOK(q)'
  <2>1. CASE q = p
    BY <1>1, <1>2, <1>4, <2>1, FreightRevised
  <2>2. CASE q # p
    <3>1. /\ po'[q] = po[q]
          /\ \A l \in Lines : line'[l] = line[l] \/ (line[l].po # q /\ line'[l].po # q)
      BY <1>2, <1>4, <2>2 DEF Revised
    <3> QED
      BY <1>2, <3>1, FreightStays
  <2> QED
    BY <2>1, <2>2
<1>5. ASSUME NEW p \in Orders, NEW s \in Statuses, UpdateStatus(p, s) PROVE FreightOK(q)'
  <2>1. CASE q = p
    BY <1>1, <1>2, <1>5, <2>1, FreightStatus
  <2>2. CASE q # p
    <3>1. po'[q] = po[q] /\ line' = line
      BY <1>1, <1>5, <2>2, StatusIs
    <3> QED
      BY <1>2, <3>1, FreightStays
  <2> QED
    BY <2>1, <2>2
<1>6. ASSUME NEW p \in Orders, NEW ls \in SUBSET Lines, NEW got \in [ls -> Quantities], NEW last,
             ls # {} => last \in ls, Receive(p, got, last)
      PROVE  FreightOK(q)'
  <2>1. Delivery(p, got, last)
    BY <1>6, ReceiveDelivers
  <2>2. CASE q = p
    BY <1>1, <1>2, <1>6, <2>1, <2>2, FreightReceipt
  <2>3. CASE q # p
    <3>1. po'[q] = po[q]
      BY <1>1, <1>6, <2>1, <2>3, ReceiptIs, Zenon
    <3>2. \A l \in Lines : line'[l] = line[l] \/ (line[l].po # q /\ line'[l].po # q)
      <4> TAKE l \in Lines
      <4>1. CASE l \in DOMAIN got
        <5>1. line[l].po = p
          BY <2>1, <4>1 DEF Delivery, LinesOf
        <5>2. line'[l].po = line[l].po
          BY <1>1, <1>6, <2>1, ReceiptIs, Zenon
        <5> QED
          BY <2>3, <5>1, <5>2
      <4>2. CASE l \notin DOMAIN got
        <5>1. line' = [m \in Lines |-> IF m \in DOMAIN got
                                       THEN [line[m] EXCEPT !.received = @ + got[m]] ELSE line[m]]
          BY <1>6, Zenon DEF Receive
        <5> QED
          BY <4>2, <5>1
      <4> QED
        BY <4>1, <4>2
    <3> QED
      BY <1>2, <3>1, <3>2, FreightStays
  <2> QED
    BY <2>2, <2>3
<1> QED
  BY <1>1, <1>3, <1>4, <1>5, <1>6, StepIs

(* What is settled is what FreightOnce asks for.                           *)
LEMMA FreightIsOnce == ASSUME FreightInv PROVE FreightOnce
<1> SUFFICES ASSUME NEW p \in Orders, po[p].status \in {"received", "closed"}, po[p].steady,
                    LinesOf(p) # {}
             PROVE  Settled(p)
  BY DEF FreightOnce, Settled, Received
<1> QED
  BY DEF FreightInv, FreightOK

-----------------------------------------------------------------------------

(* Goods and freight, of every reachable state.                            *)
LEMMA GoodsSafe == Spec => [](GoodsInv /\ FreightInv)
<1>1. Init => GoodsInv /\ FreightInv
  BY GoodsInvInit, FreightInvInit DEF Init
<1>2. /\ ReceiptInv /\ PlansInv /\ (ReceiptInv /\ PlansInv)' /\ GoodsInv /\ FreightInv
      /\ [Next]_vars
      => (GoodsInv /\ FreightInv)'
  <2> SUFFICES ASSUME ReceiptInv, ReceiptInv', GoodsInv, FreightInv, [Next]_vars
               PROVE  GoodsInv' /\ FreightInv'
    OBVIOUS
  <2>1. GoodsInv'
    BY GoodsInvNext DEF ReceiptInv
  <2> QED
    BY <2>1, FreightInvNext
<1> QED
  BY <1>1, <1>2, PurchasingSafe, PTL DEF Spec

(* What the receipt movements of a product come to is what its lines show  *)
(* as received: deleting lines and orders, cancelling, and receiving in    *)
(* parts lose no goods (receive_purchase_order and the deletions of        *)
(* purchase_order_service.py).                                             *)
THEOREM StockMatchesLines == Spec => []StockIsReceived
<1>1. GoodsInv /\ FreightInv => StockIsReceived
  BY DEF GoodsInv
<1> QED
  BY <1>1, GoodsSafe, PTL

(* The freight and tax of an order whose terms stay as they were at the    *)
(* first receipt are in the cost of its goods once, for any split into     *)
(* receipts and any prices: exactly in the tracker, when no free line lies *)
(* among priced ones, and in the unit costs to within a unit for each      *)
(* piece (receive_purchase_order and its landed cost allocation).          *)
THEOREM FreightIsSharedOnce == Spec => []FreightOnce
<1>1. GoodsInv /\ FreightInv => FreightOnce
  BY FreightIsOnce
<1> QED
  BY <1>1, GoodsSafe, PTL

(* The tables hold what their columns may: received quantities, the        *)
(* freight that went into unit costs and booked stock are never negative.  *)
THEOREM PlanningTyped == Spec => []TypeOK
<1> DEFINE Environment == demand \in [Items -> Nat] /\ issued \in [Items -> Nat]
<1>1. Init => Environment
  BY DEF Init
<1>2. Environment /\ [Next]_vars => Environment'
  <2> SUFFICES ASSUME Environment, [Next]_vars PROVE Environment'
    OBVIOUS
  <2>1. CASE UNCHANGED <<demand, issued>>
    BY <2>1
  <2>2. ASSUME NEW i \in Items, NEW d \in 0..MaxDemand, ChangeDemand(i, d) PROVE Environment'
    <3>1. d \in Nat
      BY PlanningAssumption
    <3> QED
      BY <2>2, <3>1 DEF ChangeDemand
  <2>3. ASSUME NEW i \in Items, IssueMaterial(i) PROVE Environment'
    BY <2>3 DEF IssueMaterial
  <2>4. CASE PurchasingNext /\ UNCHANGED planning
    BY <2>1, <2>4 DEF planning
  <2>5. CASE \/ \E regenerate \in BOOLEAN, is \in SUBSET Items :
                  \E new \in [is -> Plans] : RunMRP(regenerate, new)
             \/ \E k \in Plans : FirmPlannedOrder(k) \/ CancelPlannedOrder(k)
             \/ \E k \in Plans, q \in Quantities, p \in Orders, l \in Lines :
                  ReleasePlannedOrder(k, q, p, l)
    BY <2>1, <2>5 DEF RunMRP, FirmPlannedOrder, CancelPlannedOrder, ReleasePlannedOrder
  <2>6. CASE UNCHANGED vars
    BY <2>1, <2>6 DEF vars
  <2> QED
    BY <2>2, <2>3, <2>4, <2>5, <2>6 DEF Next
<1>3. ReceiptInv /\ PlansInv /\ GoodsInv /\ Environment => TypeOK
  BY DEF ReceiptInv, LinesOK, PlansInv, GoodsInv, Typed, TypeOK, PurchasingTypeOK
<1> QED
  BY <1>1, <1>2, <1>3, PurchasingSafe, GoodsSafe, PTL DEF Spec
=============================================================================
