-------------------------- MODULE SalesFulfilment --------------------------
(***************************************************************************)
(* Sales orders from their creation to the shipment: their lines, the work *)
(* orders made for them, the finished goods that leave stock, and the cost *)
(* entry that is booked for those goods.  Six handlers ship an order, and  *)
(* two generations of work-order handlers move it.                         *)
(*                                                                         *)
(* All lines are for one product.  One action per request handler; these   *)
(* handlers are async and run one after another.  A refused request is a   *)
(* disabled action.                                                        *)
(***************************************************************************)
EXTENDS Integers, FiniteSets, FiniteSetsExt, Functions

CONSTANTS
    Orders,      \* the ids sales orders get
    Lines,       \* the ids order lines get
    WorkOrders,  \* the ids production orders get
    NoOrder,     \* no sales order
    NoLine,      \* no order line
    LegacyLine,  \* the line of an order imported as completed, or NoLine
    Openings,    \* the free stock of the product to start from
    MaxQty,      \* bound: the quantity of a line
    MaxPieces,   \* bound: no order is entered that takes all lines beyond it
    MaxStock,    \* bound: no receipt takes the free stock beyond it
    MaxShipments \* bound: shipments of an order that is moved back

ASSUME SalesAssumption ==
    /\ NoOrder \notin Orders
    /\ NoLine \notin Lines
    /\ IsFiniteSet(Lines) /\ IsFiniteSet(WorkOrders)
    /\ LegacyLine \in Lines \cup {NoLine}
    /\ Openings \subseteq Int
    /\ MaxQty \in Nat \ {0}
    /\ MaxPieces \in Nat
    /\ MaxStock \in Nat
    /\ MaxShipments \in Nat \ {0}

VARIABLES
    so,     \* sales_orders
    line,   \* sales_order_lines; the header's item for an order without lines
    wo,     \* production_orders, as far as a sales order sees them
    fg,     \* on hand less allocated of the product
    goods   \* shipment movements and the cost entry, summed per order

vars == <<so, line, wo, fg, goods>>

(* line_item orders; quote_based orders whose header names the product; and *)
(* those converted by convert_quote_to_sales_order, whose header does not.  *)
Kinds == {"lines", "header", "portal"}
ShippedFamily == {"shipped", "delivered", "completed"}
SoStatuses == {"unused", "deleted", "pending_confirmation", "pending", "confirmed",
               "in_production", "ready_to_ship", "on_hold", "cancelled"} \cup ShippedFamily
(* "released" stands for scheduled, released and on hold.                  *)
WoStatuses == {"unused", "draft", "released", "in_progress", "short", "complete", "qc_hold",
               "scrapped", "cancelled", "printed", "completed", "qc_failed"}

Quantities == 1..MaxQty
Amounts == 0..MaxQty

SalesOrder == [status: SoStatuses, kind: Kinds, shippedAt: BOOLEAN, closedShort: BOOLEAN,
               checked: BOOLEAN,         \* history: ship_order shipped it last
               reopened: BOOLEAN]        \* history: a legacy QC pass moved a closed order back
OrderLine == [so: Orders \cup {NoOrder}, qty: Amounts, shipped: Amounts, alloc: Nat]
WorkOrder == [status: WoStatuses, so: Orders \cup {NoOrder}, line: Lines \cup {NoLine},
              qty: Amounts, done: Nat,
              open: BOOLEAN,             \* some operation is not reported
              ended: BOOLEAN,            \* actual_end is set
              received: BOOLEAN,         \* its goods were received
              lowered: BOOLEAN,          \* history: completed again with fewer pieces
              source: {"sales_order", "other",
                       "revived"}]       \* history: was cancelled and is live again
Goods == [posted: Nat,                   \* quantity that left stock
          shipments: Nat,                \* handler runs that took it
          held: [Amounts -> Nat],        \* pending held movements by quantity
          everHeld: BOOLEAN,
          costed: Nat]                   \* quantity in the cost entry, 0 without one

TypeOK ==
    /\ so \in [Orders -> SalesOrder]
    /\ line \in [Lines -> OrderLine]
    /\ wo \in [WorkOrders -> WorkOrder]
    /\ fg \in Int
    /\ goods \in [Orders -> Goods]

-----------------------------------------------------------------------------

NewOrder(s, k) == [status |-> s, kind |-> k, shippedAt |-> FALSE, closedShort |-> FALSE,
                   checked |-> FALSE, reopened |-> FALSE]
NewLine(o, q) == [so |-> o, qty |-> q, shipped |-> 0, alloc |-> 0]
FreeLine == NewLine(NoOrder, 0)
NewWorkOrder(s, o, l, q, src) ==
    [status |-> s, so |-> o, line |-> l, qty |-> q, done |-> 0, open |-> TRUE,
     ended |-> FALSE, received |-> FALSE, lowered |-> FALSE, source |-> src]
FreeWorkOrder == NewWorkOrder("unused", NoOrder, NoLine, 0, "other")
NoGoods == [posted |-> 0, shipments |-> 0, held |-> [q \in Amounts |-> 0],
            everHeld |-> FALSE, costed |-> 0]

Exists(o) == so[o].status \notin {"unused", "deleted"}
LinesOf(o) == {l \in Lines : line[l].so = o}
WorkOf(o) == {w \in WorkOrders : wo[w].so = o}
Total(S) == SumFunctionOnSet([l \in Lines |-> line[l].qty], S)
Produced(S) == SumFunctionOnSet([w \in WorkOrders |-> wo[w].done], S)

SetSo(o, s) == so' = [so EXCEPT ![o].status = s]

DoneWo == {"complete", "completed"}

-----------------------------------------------------------------------------
(* Orders and lines.                                                       *)

(* An order by hand (with lines) or from a quote (one item).               *)
CreateOrder(o, k, ls, q) ==
    /\ so[o].status = "unused"
    /\ ls # {} /\ \A l \in ls : line[l].so = NoOrder
    /\ k # "lines" => Cardinality(ls) = 1
    /\ Total(Lines) + SumFunction(q) <= MaxPieces
    /\ so' = [so EXCEPT ![o] = NewOrder("pending", k)]
    /\ line' = [l \in Lines |-> IF l \in ls THEN NewLine(o, q[l]) ELSE line[l]]
    /\ UNCHANGED <<wo, fg, goods>>

(* convert_quote_to_sales_order creates the work order at once, without a  *)
(* link to a line and without looking at the bill.                         *)
ConvertPortalQuote(o, l, w, q) ==
    /\ so[o].status = "unused"
    /\ line[l].so = NoOrder /\ Total(Lines) + q <= MaxPieces
    /\ wo[w].status = "unused"
    /\ so' = [so EXCEPT ![o] = NewOrder("pending", "portal")]
    /\ line' = [line EXCEPT ![l] = NewLine(o, q)]
    /\ wo' = [wo EXCEPT ![w] = NewWorkOrder("released", o, NoLine, q, "sales_order")]
    /\ UNCHANGED <<fg, goods>>

(* An order that another system places waits for confirmation.             *)
PlaceExternalOrder(o, l, q) ==
    /\ so[o].status = "unused"
    /\ line[l].so = NoOrder /\ Total(Lines) + q <= MaxPieces
    /\ so' = [so EXCEPT ![o] = NewOrder("pending_confirmation", "lines")]
    /\ line' = [line EXCEPT ![l] = NewLine(o, q)]
    /\ UNCHANGED <<wo, fg, goods>>

ConfirmExternal(o) ==
    /\ so[o].status = "pending_confirmation"
    /\ SetSo(o, "confirmed")
    /\ UNCHANGED <<line, wo, fg, goods>>

RejectExternal(o) ==
    /\ so[o].status = "pending_confirmation"
    /\ SetSo(o, "cancelled")
    /\ UNCHANGED <<line, wo, fg, goods>>

(* Mutant of NextStatuses: a shipped order can be put on hold.             *)
NextStatusesLoose(s) ==
    CASE s = "pending_confirmation" -> {"confirmed"}
      [] s = "pending"       -> {"confirmed", "on_hold"}
      [] s = "confirmed"     -> {"in_production", "ready_to_ship", "on_hold"}
      [] s = "in_production" -> {"ready_to_ship", "on_hold"}
      [] s = "ready_to_ship" -> {"on_hold"}
      [] s = "on_hold"       -> {"pending", "confirmed", "in_production", "ready_to_ship"}
      [] s = "shipped"       -> {"delivered", "completed", "on_hold"}
      [] OTHER               -> {}

(* The transition table, without the two targets the handler refuses.      *)
NextStatuses(s) ==
    CASE s = "pending_confirmation" -> {"confirmed"}
      [] s = "pending"       -> {"confirmed", "on_hold"}
      [] s = "confirmed"     -> {"in_production", "ready_to_ship", "on_hold"}
      [] s = "in_production" -> {"ready_to_ship", "on_hold"}
      [] s = "ready_to_ship" -> {"on_hold"}
      [] s = "on_hold"       -> {"pending", "confirmed", "in_production", "ready_to_ship"}
      [] s = "shipped"       -> {"delivered", "completed"}
      [] s = "delivered"     -> {"completed"}
      [] OTHER               -> {}

UpdateStatus(o, s) ==
    /\ s \in NextStatuses(so[o].status)
    /\ SetSo(o, s)
    /\ UNCHANGED <<line, wo, fg, goods>>

CancelOrder(o) ==
    /\ so[o].status \in {"pending_confirmation", "pending", "confirmed", "on_hold"}
    /\ \A w \in WorkOf(o) : wo[w].status = "cancelled"
    /\ SetSo(o, "cancelled")
    /\ UNCHANGED <<line, wo, fg, goods>>

(* A line with a work order cannot go: the work order refers to it.        *)
DeleteOrder(o) ==
    /\ so[o].status \in {"cancelled", "pending"}
    /\ \A w \in WorkOf(o) : wo[w].status \in {"cancelled", "draft"}
    /\ \A w \in WorkOrders : wo[w].line \notin LinesOf(o)
    /\ SetSo(o, "deleted")
    /\ line' = [l \in Lines |-> IF l \in LinesOf(o) THEN FreeLine ELSE line[l]]
    /\ wo' = [w \in WorkOrders |-> IF w \in WorkOf(o) THEN [wo[w] EXCEPT !.so = NoOrder] ELSE wo[w]]
    /\ UNCHANGED <<fg, goods>>

Editable == {"pending", "confirmed", "in_production", "on_hold"}

(* Mutant of EditLine: a line may shrink below what was shipped.           *)
EditLineFreely(o, l, q) ==
    /\ so[o].status \in Editable /\ so[o].kind = "lines"
    /\ l \in LinesOf(o)
    /\ line' = [line EXCEPT ![l].qty = q]
    /\ UNCHANGED <<so, wo, fg, goods>>

EditLine(o, l, q) ==
    /\ so[o].status \in Editable /\ so[o].kind = "lines"
    /\ l \in LinesOf(o)
    /\ q >= line[l].shipped
    /\ line' = [line EXCEPT ![l].qty = q]
    /\ UNCHANGED <<so, wo, fg, goods>>

RemoveLine(o, l) ==
    /\ so[o].status \in Editable /\ so[o].kind = "lines"
    /\ l \in LinesOf(o) /\ LinesOf(o) # {l}
    /\ line[l].shipped = 0
    /\ \A w \in WorkOrders : wo[w].line # l
    /\ line' = [line EXCEPT ![l] = FreeLine]
    /\ UNCHANGED <<so, wo, fg, goods>>

(* What a line can still get: what its work orders completed, else what is *)
(* left of the completions linked to no line, else the free stock; never   *)
(* more than it asks for and never less than it has shipped.               *)
Least(a, b) == IF a < b THEN a ELSE b
Most(a, b) == IF a < b THEN b ELSE a

(* Mutant of Achievable: not floored at what was shipped.                  *)
AchievableUnfloored(o, l, bucket) ==
    LET linked   == {w \in WorkOf(o) : wo[w].line = l}
        unlinked == {w \in WorkOf(o) : wo[w].line = NoLine}
        produced == IF linked # {} THEN Produced(linked)
                    ELSE IF unlinked # {} THEN bucket ELSE fg
    IN  Most(Least(produced, line[l].qty), 0)

Achievable(o, l, bucket) ==
    LET linked   == {w \in WorkOf(o) : wo[w].line = l}
        unlinked == {w \in WorkOf(o) : wo[w].line = NoLine}
        produced == IF linked # {} THEN Produced(linked)
                    ELSE IF unlinked # {} THEN bucket ELSE fg
    IN  Most(Least(produced, line[l].qty), line[l].shipped)

(* The lines in the order s of their rows; each takes from the bucket what *)
(* it gets, also when it got it from its own work orders.                  *)
CloseShortQuantities(o, s) ==
    LET unlinked == {w \in WorkOf(o) : wo[w].line = NoLine}
        bucket[i \in DOMAIN s] ==
            IF i = 1 THEN Produced(unlinked)
            ELSE Most(0, bucket[i - 1] - Achievable(o, s[i - 1], bucket[i - 1]))
    IN  [l \in LinesOf(o) |-> Achievable(o, l, bucket[CHOOSE i \in DOMAIN s : s[i] = l])]

RowOrders(ls) == {s \in [1..Cardinality(ls) -> ls] : \A l \in ls : \E i \in DOMAIN s : s[i] = l}
Resolved == {"complete", "completed", "cancelled", "scrapped"}

CloseShort(o) ==
    /\ so[o].kind = "lines" /\ ~so[o].closedShort
    /\ so[o].status \in {"confirmed", "in_production", "ready_to_ship"}
    /\ \A w \in WorkOf(o) : wo[w].status \in Resolved
    /\ \E s \in RowOrders(LinesOf(o)) : \E q \in [LinesOf(o) -> Amounts] :
         /\ \A l \in LinesOf(o) : q[l] = CloseShortQuantities(o, s)[l]
         /\ line' = [l \in Lines |-> IF l \in LinesOf(o) THEN [line[l] EXCEPT !.qty = q[l]]
                                     ELSE line[l]]
    /\ so' = [so EXCEPT ![o].status = "ready_to_ship", ![o].closedShort = TRUE]
    /\ UNCHANGED <<wo, fg, goods>>

-----------------------------------------------------------------------------
(* Work orders for a sales order.                                          *)

Covering(o) == {w \in WorkOf(o) : wo[w].status # "cancelled"}

(* Mutant of Uncovered: a complete work order covers its line no more.     *)
UncoveredByOpenWork(o) ==
    {l \in LinesOf(o) : \A w \in Covering(o) :
        wo[w].status \in DoneWo \/ wo[w].line \notin {l, NoLine}}

(* A work order without a line covers every line of the product.           *)
Uncovered(o) ==
    {l \in LinesOf(o) : \A w \in Covering(o) : wo[w].line \notin {l, NoLine}}

FreshWork(f) == \A l, m \in DOMAIN f : wo[f[l]].status = "unused" /\ (l # m => f[l] # f[m])

(* One work order per line that none covers; the order goes in production. *)
(* The order has to be billed as well; staff may set its payment status at *)
(* will, so that bounds nothing here.                                      *)
GenerateWork(o) ==
    /\ so[o].kind = "lines" /\ so[o].status = "confirmed"
    /\ Uncovered(o) # {}
    /\ \E f \in [Uncovered(o) -> WorkOrders] :
         /\ FreshWork(f)
         /\ wo' = [w \in WorkOrders |->
                     IF \E l \in Uncovered(o) : f[l] = w
                       THEN LET l == CHOOSE k \in Uncovered(o) : f[k] = w
                            IN  NewWorkOrder("draft", o, l, line[l].qty, "sales_order")
                       ELSE wo[w]]
    /\ SetSo(o, "in_production")
    /\ UNCHANGED <<line, fg, goods>>

GenerateHeaderWork(o, w) ==
    /\ so[o].kind # "lines" /\ so[o].status = "confirmed"
    /\ Covering(o) = {}
    /\ wo[w].status = "unused"
    /\ \E l \in LinesOf(o) :
         wo' = [wo EXCEPT ![w] = NewWorkOrder("draft", o, NoLine, line[l].qty, "sales_order")]
    /\ SetSo(o, "in_production")
    /\ UNCHANGED <<line, fg, goods>>

(* A work order by hand, or the remake of a scrapped one: the status of    *)
(* the sales order is not asked.                                           *)
AddWorkOrder(w, o, l, q) ==
    /\ wo[w].status = "unused"
    /\ so[o].status # "unused" /\ so[o].status # "deleted"
    /\ l = NoLine \/ (so[o].kind = "lines" /\ l \in LinesOf(o))
    /\ wo' = [wo EXCEPT ![w] = NewWorkOrder("draft", o, l, q, "other")]
    /\ UNCHANGED <<so, line, fg, goods>>

ReleaseWork(w) ==
    /\ wo[w].status = "draft"
    /\ wo' = [wo EXCEPT ![w].status = "released"]
    /\ UNCHANGED <<so, line, fg, goods>>

(* Part of a planned work order becomes one of its own.                    *)
SplitWork(w, v, q) ==
    /\ wo[w].status \in {"draft", "released"} /\ q < wo[w].qty
    /\ wo[v].status = "unused"
    /\ wo' = [wo EXCEPT ![w].qty = @ - q,
                        ![v] = NewWorkOrder("draft", wo[w].so, wo[w].line, q, "other")]
    /\ UNCHANGED <<so, line, fg, goods>>

(* An operation is scheduled again, whatever its status and that of the    *)
(* work order.                                                             *)
RequeueWork(w) ==
    /\ wo[w].status # "unused" /\ ~wo[w].open
    /\ wo' = [wo EXCEPT ![w].open = TRUE]
    /\ UNCHANGED <<so, line, fg, goods>>

(* A work order started as a whole, or one of its operations: those        *)
(* handlers do not ask for the status of the work order, be it cancelled,  *)
(* scrapped or complete.                                                   *)
StartWork(w) ==
    /\ wo[w].status # "unused"
    /\ wo[w].open \/ wo[w].status \in {"draft", "released"}
    /\ wo' = [wo EXCEPT ![w].status = "in_progress",
                        ![w].source = IF wo[w].status = "cancelled" THEN "revived" ELSE @]
    /\ UNCHANGED <<so, line, fg, goods>>

HoldWork(w) ==
    /\ wo[w].status = "in_progress"
    /\ wo' = [wo EXCEPT ![w].status = "released"]
    /\ UNCHANGED <<so, line, fg, goods>>

CancelWork(w) ==
    /\ wo[w].status \notin {"unused", "cancelled", "complete"}
    /\ wo' = [wo EXCEPT ![w].status = "cancelled"]
    /\ UNCHANGED <<so, line, fg, goods>>

(* sync_on_production_complete for work order w, which becomes r.  `known` *)
(* are the work orders the sum in the database counts; the statuses are    *)
(* those of the session.                                                   *)
SyncSales(w, r, known) ==
    LET o == r.so
        others == WorkOf(o) \ {w}
        ready == /\ r.status \in DoneWo
                 /\ \A v \in others : wo[v].status \in DoneWo
    IN  /\ wo' = [wo EXCEPT ![w] = r]
        /\ line' = IF r.line \in Lines /\ o # NoOrder
                     THEN [line EXCEPT ![r.line].alloc =
                             Produced(known) + (IF w \in known THEN r.done - wo[w].done ELSE 0)]
                     ELSE line
        /\ so' = IF /\ o # NoOrder /\ ready
                    /\ so[o].status \in {"pending", "confirmed", "in_production"}
                   THEN [so EXCEPT ![o].status = "ready_to_ship"] ELSE so

(* Mutant of DoneForLine: whatever line it was made for.                   *)
DoneForAnyLine(l) == {w \in WorkOrders : wo[w].status \in DoneWo}

DoneForLine(l) == {w \in WorkOrders : wo[w].line = l /\ wo[w].status \in DoneWo}

Receive(q) == fg + q <= MaxStock /\ fg' = fg + q

Closed(r) == [r EXCEPT !.open = FALSE, !.ended = TRUE, !.received = TRUE, !.status = "complete"]

(* The last operation is reported; its quantity replaces what the work     *)
(* order had completed.  The first completion flushes the session, so the  *)
(* sum counts this work order, and receives the ordered quantity; one that *)
(* was taken up after it had ended does neither.                           *)
FinishOperations(w, good) ==
    LET last == [wo[w] EXCEPT !.done = good, !.open = FALSE,
                              !.status = IF good < wo[w].qty THEN "short" ELSE "complete",
                              !.lowered = @ \/ good < wo[w].done]
        ends == last.status = "complete" /\ ~wo[w].ended
        r    == IF ends THEN Closed(last) ELSE last
    IN  /\ wo[w].status = "in_progress" /\ wo[w].open
        /\ good <= wo[w].qty
        /\ IF ends
             THEN Receive(r.qty) /\ SyncSales(w, r, DoneForLine(r.line) \cup {w})
             ELSE /\ wo' = [wo EXCEPT ![w] = r]
                  /\ UNCHANGED <<so, line, fg>>
        /\ UNCHANGED goods

(* Bulk completion, which may close short.  Nothing flushes before the sum *)
(* is taken: the work order itself is not in it.                           *)
CompleteWork(w, good) ==
    LET r == [Closed(wo[w]) EXCEPT !.done = @ + good]
    IN  /\ wo[w].status \in {"released", "in_progress"}
        /\ good <= wo[w].qty
        /\ r.done <= MaxQty
        /\ Receive(r.qty)
        /\ SyncSales(w, r, DoneForLine(r.line) \ {w})
        /\ UNCHANGED goods

(* Accept-short does not synchronize the sales order.                      *)
AcceptShort(w) ==
    /\ wo[w].status = "short" /\ wo[w].done > 0 /\ ~wo[w].received
    /\ Receive(wo[w].done)
    /\ wo' = [wo EXCEPT ![w] = Closed(@)]
    /\ UNCHANGED <<so, line, goods>>

CloseScrapped(w) ==
    /\ wo[w].status = "short" /\ wo[w].done = 0 /\ ~wo[w].received
    /\ wo' = [wo EXCEPT ![w].status = "scrapped", ![w].ended = TRUE]
    /\ UNCHANGED <<so, line, fg, goods>>

(* Inspections of finished work orders.                                    *)
FailInspection(w) ==
    /\ wo[w].status \in DoneWo
    /\ wo' = [wo EXCEPT ![w].status = "qc_hold"]
    /\ UNCHANGED <<so, line, fg, goods>>

PassInspection(w) ==
    /\ wo[w].status = "qc_hold"
    /\ SyncSales(w, [wo[w] EXCEPT !.status = "complete"], DoneForLine(wo[w].line))
    /\ UNCHANGED <<fg, goods>>

-----------------------------------------------------------------------------
(* The legacy queue of the admin endpoints.                                *)

QuoteOrders == {o \in Orders : Exists(o) /\ so[o].kind # "lines"}

(* The sales order of a work order: its own, else one whose quote names    *)
(* the product.                                                            *)
SalesOrderOf(w) == IF wo[w].so # NoOrder THEN {wo[w].so}
                   ELSE IF QuoteOrders = {} THEN {NoOrder} ELSE QuoteOrders

LegacyStart(w) ==
    /\ wo[w].status \in {"draft", "released"}
    /\ wo' = [wo EXCEPT ![w].status = "in_progress"]
    /\ \E o \in SalesOrderOf(w) :
         so' = IF o # NoOrder /\ so[o].status = "confirmed"
                 THEN [so EXCEPT ![o].status = "in_production"] ELSE so
    /\ UNCHANGED <<line, fg, goods>>

LegacyCompletePrint(w) ==
    /\ wo[w].status = "in_progress"
    /\ wo' = [wo EXCEPT ![w].status = "printed"]
    /\ UNCHANGED <<so, line, fg, goods>>

(* The sales order becomes ready to ship whatever its status was.          *)
LegacyPassQC(w) ==
    /\ wo[w].status = "printed"
    /\ Receive(wo[w].qty)
    /\ wo' = [wo EXCEPT ![w].status = "completed", ![w].received = TRUE]
    /\ \E o \in SalesOrderOf(w) :
         so' = IF o = NoOrder THEN so
               ELSE [so EXCEPT ![o].status = "ready_to_ship",
                               ![o].reopened = @ \/ so[o].status \in ShippedFamily]
    /\ UNCHANGED <<line, goods>>

(* The pieces are scrapped from finished goods, where they never were.     *)
LegacyFailQC(w) ==
    /\ wo[w].status = "printed"
    /\ wo[w].qty > 0 => fg >= wo[w].qty
    /\ fg' = fg - wo[w].qty
    /\ \/ wo' = [wo EXCEPT ![w].status = "qc_failed"]
       \/ \E v \in WorkOrders :
            /\ wo[v].status = "unused"
            /\ wo' = [wo EXCEPT ![w].status = "qc_failed",
                        ![v] = NewWorkOrder("released", NoOrder, NoLine, wo[w].qty, "other")]
    /\ UNCHANGED <<so, line, goods>>

LegacyBulkUpdate(w, s) ==
    /\ wo[w].status # "unused"
    /\ wo' = [wo EXCEPT ![w].status = s,
                        ![w].source = IF wo[w].status = "cancelled" THEN "revived" ELSE @]
    /\ UNCHANGED <<so, line, fg, goods>>

-----------------------------------------------------------------------------
(* Shipping.  `take` are the items of the order whose movement is posted,  *)
(* `hold` those whose movement waits for approval.                         *)

Times(b, S) == [q \in Amounts |-> b[q] + Cardinality({l \in S : line[l].qty = q})]

(* Mutant of Shipment: the goods of held movements are costed as well.     *)
ShipmentCostingHeld(g, take, hold) ==
    [g EXCEPT !.posted = @ + Total(take),
              !.shipments = IF take = {} THEN @ ELSE @ + 1,
              !.held = Times(@, hold),
              !.everHeld = @ \/ hold # {},
              !.costed = IF @ = 0 THEN Total(take \cup hold) ELSE @]

(* _create_shipment_gl_entry: one cost entry per order, for posted         *)
(* movements only.                                                         *)
Shipment(g, take, hold) ==
    [g EXCEPT !.posted = @ + Total(take),
              !.shipments = IF take = {} THEN @ ELSE @ + 1,
              !.held = Times(@, hold),
              !.everHeld = @ \/ hold # {},
              !.costed = IF @ = 0 THEN Total(take) ELSE @]

MayShip(o) == goods[o].shipments < MaxShipments

Shipped(o, checked) ==
    [so[o] EXCEPT !.status = "shipped", !.shippedAt = TRUE, !.checked = checked]

(* What issue_shipped_goods issues: the lines, or the product of the       *)
(* header; nothing for an order that has neither.                          *)
IssuedItems(o) == IF so[o].kind = "portal" THEN {} ELSE LinesOf(o)

(* Mutant of Available: each item alone is compared with the stock.        *)
AvailableEach(o) == \A l \in IssuedItems(o) : line[l].qty <= fg

Available(o) == IssuedItems(o) # {} => Total(IssuedItems(o)) <= fg

(* The sales screen: all goods at once, compared with the stock first.     *)
(* What each movement does is decided again when it is posted.             *)
ShipOrder(o) ==
    /\ so[o].status = "ready_to_ship" /\ MayShip(o)
    /\ Available(o)
    /\ \E take \in SUBSET IssuedItems(o) :
         LET hold == IssuedItems(o) \ take
         IN  /\ \A l \in hold : fg - Total(take) < line[l].qty
             /\ take # {} => Total(take) <= fg
             /\ fg' = fg - Total(take)
             /\ goods' = [goods EXCEPT ![o] = Shipment(@, take, hold)]
             /\ line' = [l \in Lines |->
                           IF l \in take /\ so[o].kind = "lines"
                             THEN [line[l] EXCEPT !.shipped = line[l].qty] ELSE line[l]]
    /\ so' = [so EXCEPT ![o] = Shipped(o, TRUE)]
    /\ UNCHANGED wo

(* Consolidated label: the goods of two orders, posted as far as the stock *)
(* goes in the order of the requests; the shipped quantity is not recorded. *)
ShipConsolidated(o, p) ==
    LET items == IssuedItems(o) \cup IssuedItems(p)
    IN  /\ o # p /\ so[o].status = "ready_to_ship" /\ so[p].status = "ready_to_ship"
        /\ MayShip(o) /\ MayShip(p)
        /\ \E take \in SUBSET items :
             LET hold == items \ take
             IN  /\ \A l \in hold : fg - Total(take) < line[l].qty
                 /\ take # {} => Total(take) <= fg
                 /\ fg' = fg - Total(take)
                 /\ goods' = [goods EXCEPT
                      ![o] = Shipment(@, take \cap LinesOf(o), hold \cap LinesOf(o)),
                      ![p] = Shipment(@, take \cap LinesOf(p), hold \cap LinesOf(p))]
        /\ so' = [so EXCEPT ![o] = Shipped(o, FALSE), ![p] = Shipped(p, FALSE)]
        /\ UNCHANGED <<line, wo>>

(* Mutant of AlreadyShipped: the guard is gone.                            *)
NeverShipped(o) == FALSE

(* The guard of TransactionService.ship_order: a cost entry, or a posted   *)
(* shipment movement (a held one is of another type).                      *)
AlreadyShipped(o) == goods[o].costed > 0 \/ goods[o].shipments > 0

TakeQuoted(o) ==
    LET items == LinesOf(o)
    IN  /\ fg' = fg - Total(items)
        /\ goods' = [goods EXCEPT ![o] = Shipment(@, items, {})]

(* A label for one order: the goods of a quoted product are taken whatever *)
(* the stock is; an order with lines is shipped without taking anything.   *)
BuyLabel(o) ==
    /\ so[o].status = "ready_to_ship" /\ MayShip(o)
    /\ IF so[o].kind = "lines" THEN UNCHANGED <<fg, goods>>
       ELSE ~AlreadyShipped(o) /\ TakeQuoted(o)
    /\ so' = [so EXCEPT ![o] = Shipped(o, FALSE)]
    /\ UNCHANGED <<line, wo>>

ShipFromStock(o) ==
    /\ Exists(o) /\ so[o].kind # "lines" /\ MayShip(o)
    /\ so[o].status \notin {"shipped", "cancelled", "delivered"}
    /\ Total(LinesOf(o)) <= fg
    /\ ~AlreadyShipped(o) /\ TakeQuoted(o)
    /\ so' = [so EXCEPT ![o] = Shipped(o, FALSE)]
    /\ UNCHANGED <<line, wo>>

(* Marking an order shipped takes the goods of a quoted product and does   *)
(* not ask whether they have been taken before.                            *)
MarkShipped(o) ==
    /\ Exists(o) /\ so[o].status \notin ShippedFamily /\ MayShip(o)
    /\ IF so[o].kind = "lines" THEN UNCHANGED <<fg, goods>> ELSE TakeQuoted(o)
    /\ so' = [so EXCEPT ![o] = Shipped(o, FALSE)]
    /\ UNCHANGED <<line, wo>>

(* A held movement is applied to the stock; no cost entry follows.         *)
(* Rejecting one only stamps it, and a stamped one can still be approved.  *)
ApproveHeld(o, q) ==
    /\ goods[o].held[q] > 0
    /\ fg' = fg - q
    /\ goods' = [goods EXCEPT ![o].held[q] = @ - 1, ![o].posted = @ + q]
    /\ UNCHANGED <<so, line, wo>>

(* Orders imported as shipped, without a trace of the shipment.            *)
Evidence(o) == so[o].shippedAt \/ \E l \in LinesOf(o) : line[l].shipped > 0

LegacyCloseOut(o) ==
    /\ so[o].status \in ShippedFamily /\ ~Evidence(o)
    /\ line' = [l \in Lines |-> IF l \in LinesOf(o) /\ so[o].kind = "lines"
                                  THEN [line[l] EXCEPT !.shipped = line[l].qty] ELSE line[l]]
    /\ so' = [so EXCEPT ![o].shippedAt = TRUE]
    /\ UNCHANGED <<wo, fg, goods>>

LegacyReopen(o) ==
    /\ so[o].status \in ShippedFamily /\ ~Evidence(o)
    /\ SetSo(o, "ready_to_ship")
    /\ UNCHANGED <<line, wo, fg, goods>>

-----------------------------------------------------------------------------

Fresh == [o \in Orders |-> NewOrder("unused", "lines")]

Init ==
    /\ fg \in Openings
    /\ wo = [w \in WorkOrders |-> FreeWorkOrder]
    /\ goods = [o \in Orders |-> NoGoods]
    /\ \/ so = Fresh /\ line = [l \in Lines |-> FreeLine]
       \/ /\ LegacyLine # NoLine
          /\ \E o \in Orders, q \in Quantities :
               /\ so = [Fresh EXCEPT ![o].status = "completed"]
               /\ line = [l \in Lines |-> IF l = LegacyLine THEN NewLine(o, q) ELSE FreeLine]

Entry(o) ==
    \/ \E k \in {"lines", "header"}, ls \in SUBSET Lines :
         \E q \in [ls -> Quantities] : CreateOrder(o, k, ls, q)
    \/ \E l \in Lines, w \in WorkOrders, q \in Quantities : ConvertPortalQuote(o, l, w, q)
    \/ \E l \in Lines, q \in Quantities : PlaceExternalOrder(o, l, q)
    \/ ConfirmExternal(o)
    \/ RejectExternal(o)
    \/ \E s \in SoStatuses : UpdateStatus(o, s)
    \/ CancelOrder(o)
    \/ DeleteOrder(o)
    \/ \E l \in Lines, q \in Quantities : EditLine(o, l, q)
    \/ \E l \in Lines : RemoveLine(o, l)
    \/ CloseShort(o)

Production(w) ==
    \/ \E o \in Orders : GenerateHeaderWork(o, w)
    \/ \E o \in Orders, l \in Lines \cup {NoLine}, q \in Quantities : AddWorkOrder(w, o, l, q)
    \/ ReleaseWork(w)
    \/ \E v \in WorkOrders, q \in Quantities : SplitWork(w, v, q)
    \/ RequeueWork(w)
    \/ StartWork(w)
    \/ HoldWork(w)
    \/ CancelWork(w)
    \/ \E good \in Amounts : FinishOperations(w, good)
    \/ \E good \in Amounts : CompleteWork(w, good)
    \/ AcceptShort(w)
    \/ CloseScrapped(w)
    \/ FailInspection(w)
    \/ PassInspection(w)

LegacyQueue(w) ==
    \/ LegacyStart(w)
    \/ LegacyCompletePrint(w)
    \/ LegacyPassQC(w)
    \/ LegacyFailQC(w)
    \/ \E s \in {"released", "in_progress", "printed", "completed", "cancelled"} :
         LegacyBulkUpdate(w, s)

Shipping(o) ==
    \/ ShipOrder(o)
    \/ \E p \in Orders : ShipConsolidated(o, p)
    \/ BuyLabel(o)
    \/ ShipFromStock(o)
    \/ MarkShipped(o)
    \/ \E q \in Amounts : ApproveHeld(o, q)
    \/ LegacyCloseOut(o)
    \/ LegacyReopen(o)

Next ==
    \/ \E o \in Orders : Entry(o)
    \/ \E o \in Orders : GenerateWork(o)
    \/ \E w \in WorkOrders : Production(w)
    \/ \E w \in WorkOrders : LegacyQueue(w)
    \/ \E o \in Orders : Shipping(o)

Spec == Init /\ [][Next]_vars

-----------------------------------------------------------------------------
(* Properties.                                                             *)

(* The goods of an order leave stock in one shipment, although six         *)
(* handlers ship and three of them do not look at each other's movements:  *)
(* also when the first one held a part of them for approval.  The one way  *)
(* around it is a legacy QC pass that moves a shipped order back.          *)
ShippedOnce == \A o \in Orders : goods[o].shipments > 1 => so[o].reopened

(* The cost entry never covers goods that are still in stock, and it       *)
(* covers all that left unless the order was shipped again (one entry per  *)
(* order) or a movement was held (its approval books no cost).             *)
CostMatchesGoods ==
    \A o \in Orders :
        /\ goods[o].costed <= goods[o].posted
        /\ ~so[o].reopened /\ ~goods[o].everHeld => goods[o].costed = goods[o].posted

(* ship_order compares the sum of all lines with the stock, so that no     *)
(* single movement is held: everything ordered has left.                   *)
ShipOrderTakesAll ==
    \A o \in Orders :
        /\ so[o].checked /\ so[o].status \in ShippedFamily
        /\ so[o].kind # "portal" /\ ~so[o].reopened
        => ~goods[o].everHeld /\ goods[o].posted = Total(LinesOf(o))

(* Work generated from the sales order is not made twice for a line, also  *)
(* after cancellations, splits and a second generation, unless a cancelled *)
(* work order came back to life.                                           *)
LineNotMadeTwice ==
    \A l \in Lines :
        LET live == {w \in WorkOrders : /\ wo[w].line = l /\ wo[w].source # "other"
                                        /\ wo[w].status \notin {"unused", "cancelled"}}
        IN  Cardinality(live) > 1 => \E w \in live : wo[w].source = "revived"

(* What production has allocated to a line, a sum recomputed at some       *)
(* completions only, is at most what its work orders have completed, until *)
(* one of them is taken up again and reported with fewer pieces: nothing   *)
(* is recomputed then.                                                     *)
AllocatedWasProduced ==
    \A l \in Lines :
        LET made == {w \in WorkOrders : wo[w].line = l}
        IN  line[l].alloc <= Produced(made) \/ \E w \in made : wo[w].lowered

(* Neither an edit nor a short close, also of an order that was moved back *)
(* from shipped, leaves a line below what it has shipped.                  *)
ShippedWithinOrdered == \A l \in Lines : line[l].shipped <= line[l].qty

(* The lines of a shipped order are never changed again, whatever the      *)
(* status machine allows, unless the order was moved back.                 *)
LinesFrozen ==
    \A l \in Lines :
        LET o == line[l].so
        IN  o \in Orders /\ so[o].shippedAt /\ ~so'[o].reopened
            => line'[l].so = o /\ line'[l].qty = line[l].qty
ShippedLinesFrozen == [][LinesFrozen]_vars
=============================================================================
