----------------------------- MODULE Purchasing -----------------------------
(***************************************************************************)
(* Purchase orders: their lines, their receipts in parts, and the freight  *)
(* and tax that each receipt folds into the cost of the goods it books.    *)
(*                                                                         *)
(* The endpoints are async: one handler runs at a time, and one action     *)
(* stands for one handler.  A refused request is a disabled action.  Goods *)
(* are bought in the unit they are stocked in; the totals printed on the   *)
(* order and the average cost of the product are left out.                 *)
(***************************************************************************)
EXTENDS Integers, FiniteSets, FiniteSetsExt, Functions

CONSTANTS
    Orders,   \* the ids purchase orders get
    Lines,    \* the ids their lines get
    Items,    \* the products bought
    NoOrder,  \* no purchase order
    Costs,    \* the unit costs quoted
    Freights, \* shipping cost and tax of an order, in the smallest unit booked
    MaxQty    \* bound: the quantity of a line

ASSUME PurchasingAssumption ==
    /\ NoOrder \notin Orders
    /\ IsFiniteSet(Lines)
    /\ Items # {}
    /\ Costs \subseteq Nat
    /\ Freights \subseteq Nat
    /\ MaxQty \in Nat \ {0}

VARIABLES
    po,      \* purchase_orders
    line,    \* purchase_order_lines
    booked   \* the receipt movements of a product, summed

purchasing == <<po, line, booked>>

Statuses == {"unused", "draft", "ordered", "shipped", "received", "closed", "cancelled"}
Quantities == 1..MaxQty

Order == [status: Statuses,
          freight: Nat,       \* shipping_cost + tax_amount
          allocated: Int,     \* landed_cost_allocated
          capitalised: Nat,   \* the freight that went into unit costs
          steady: BOOLEAN]    \* history: terms as they were at the first receipt
OrderLine == [po: Orders \cup {NoOrder}, item: Items, ordered: Nat, received: Nat, cost: Nat]

PurchasingTypeOK ==
    /\ po \in [Orders -> Order]
    /\ line \in [Lines -> OrderLine]
    /\ booked \in [Items -> Nat]

-----------------------------------------------------------------------------

NewOrder(s, f) ==
    [status |-> s, freight |-> f, allocated |-> 0, capitalised |-> 0, steady |-> TRUE]
AnyItem == CHOOSE i \in Items : TRUE
NewLine(p, i, q, c) == [po |-> p, item |-> i, ordered |-> q, received |-> 0, cost |-> c]

LinesOf(p) == {l \in Lines : line[l].po = p}
FreeLine == NewLine(NoOrder, AnyItem, 0, 0)
FreeLines == {l \in Lines : line[l].po = NoOrder}
Open(l) == line[l].ordered - line[l].received

SetStatus(p, s) == po' = [po EXCEPT ![p].status = s]

(* An edit leaves the terms of the first receipt behind.                   *)
Edited(p) == po' = [po EXCEPT ![p].steady = @ /\ \A l \in LinesOf(p) : line[l].received = 0]

-----------------------------------------------------------------------------
(* The order and its lines.                                                *)

CreateOrder(p, f, ls, i, q, c) ==
    /\ po[p].status = "unused"
    /\ ls \subseteq FreeLines
    /\ po' = [po EXCEPT ![p] = NewOrder("draft", f)]
    /\ line' = [l \in Lines |-> IF l \in ls THEN NewLine(p, i[l], q[l], c[l]) ELSE line[l]]
    /\ UNCHANGED booked

(* Freight and tax may change until the order is received.                 *)
UpdateOrder(p, f) ==
    /\ po[p].status \in {"draft", "ordered", "shipped"}
    /\ f # po[p].freight
    /\ po' = [po EXCEPT ![p].freight = f,
                        ![p].steady = @ /\ \A l \in LinesOf(p) : line[l].received = 0]
    /\ UNCHANGED <<line, booked>>

DeleteOrder(p) ==
    /\ po[p].status = "draft"
    /\ po' = [po EXCEPT ![p] = NewOrder("unused", 0)]
    /\ line' = [l \in Lines |-> IF l \in LinesOf(p) THEN FreeLine ELSE line[l]]
    /\ UNCHANGED booked

(* Mutant of Editable: lines change as long as the order may.              *)
EditableInTransit(p) == po[p].status \in {"draft", "ordered", "shipped", "received"}

Editable(p) == po[p].status \in {"draft", "ordered"}

AddLine(p, l, i, q, c) ==
    /\ Editable(p)
    /\ l \in FreeLines
    /\ line' = [line EXCEPT ![l] = NewLine(p, i, q, c)]
    /\ Edited(p)
    /\ UNCHANGED booked

(* Mutant of UpdateLine: the new quantity is not compared.                 *)
UpdateLineFreely(l, q, c) ==
    /\ line[l].po # NoOrder /\ Editable(line[l].po)
    /\ line' = [line EXCEPT ![l].ordered = q, ![l].cost = c]
    /\ line' # line
    /\ Edited(line[l].po)
    /\ UNCHANGED booked

UpdateLine(l, q, c) ==
    /\ line[l].po # NoOrder /\ Editable(line[l].po)
    /\ q >= line[l].received
    /\ line' = [line EXCEPT ![l].ordered = q, ![l].cost = c]
    /\ line' # line
    /\ Edited(line[l].po)
    /\ UNCHANGED booked

(* Mutant of DeleteLine: a line goes although some of it has come.         *)
DeleteLineAnyway(l) ==
    /\ line[l].po # NoOrder /\ Editable(line[l].po)
    /\ line' = [line EXCEPT ![l] = FreeLine]
    /\ Edited(line[l].po)
    /\ UNCHANGED booked

DeleteLine(l) ==
    /\ line[l].po # NoOrder /\ Editable(line[l].po)
    /\ line[l].received = 0
    /\ line' = [line EXCEPT ![l] = FreeLine]
    /\ Edited(line[l].po)
    /\ UNCHANGED booked

(* The transitions a user may ask for; "received" comes from a receipt.    *)
Transitions ==
    [draft |-> {"ordered", "cancelled"}, ordered |-> {"shipped", "cancelled"},
     shipped |-> {"cancelled"}, received |-> {"closed", "cancelled"}]

UpdateStatus(p, s) ==
    /\ po[p].status \in DOMAIN Transitions
    /\ s \in Transitions[po[p].status]
    /\ s = "ordered" => LinesOf(p) # {}
    /\ SetStatus(p, s)
    /\ UNCHANGED <<line, booked>>

-----------------------------------------------------------------------------
(* The receipt.                                                            *)

(* n / d as Decimal.quantize rounds it: half to even.                      *)
Rounded(n, d) ==
    LET q == n \div d
        r == n % d
    IN  IF 2 * r > d \/ (2 * r = d /\ q % 2 = 1) THEN q + 1 ELSE q

(* Freight goes by value, and by quantity when the whole order is free.    *)
Weight(p, l) ==
    IF \A m \in LinesOf(p) : line[m].ordered * line[m].cost = 0 THEN 1 ELSE line[l].cost

Completes(p, got) ==
    \A l \in LinesOf(p) : line[l].received + (IF l \in DOMAIN got THEN got[l] ELSE 0) >= line[l].ordered

(* Mutant of Shares: a completing receipt takes the share of the others.   *)
SharesOfOrder(p, got, last) ==
    LET part == SumFunction([l \in DOMAIN got |-> got[l] * Weight(p, l)])
        open == SumFunction([l \in LinesOf(p) |-> Open(l) * Weight(p, l)])
    IN  IF po[p].freight = 0 \/ part = 0 THEN [l \in DOMAIN got |-> 0]
        ELSE [l \in DOMAIN got |-> Rounded(po[p].freight * got[l] * Weight(p, l), open)]

(* What is allocated to each line: its share of the order, or, when the    *)
(* receipt completes the order, its share of what is left.  The last line  *)
(* of the payload gets the rest.                                           *)
Shares(p, got, last) ==
    LET part == SumFunction([l \in DOMAIN got |-> got[l] * Weight(p, l)])
        whole == SumFunction([l \in LinesOf(p) |-> line[l].ordered * Weight(p, l)])
        base == IF Completes(p, got) THEN po[p].freight - po[p].allocated ELSE po[p].freight
        basis == IF Completes(p, got) THEN part ELSE whole
        share(l) == Rounded(base * got[l] * Weight(p, l), basis)
        sum == IF Completes(p, got) THEN base ELSE Rounded(base * part, basis)
    IN  IF po[p].freight = 0 \/ part = 0 THEN [l \in DOMAIN got |-> 0]
        ELSE [l \in DOMAIN got |-> IF l # last THEN share(l)
                                   ELSE sum - SumFunction([m \in DOMAIN got \ {last} |-> share(m)])]

(* Goods of some lines arrive.  Only a positive share raises a unit cost.  *)
Receive(p, got, last) ==
    LET shares == Shares(p, got, last)
    IN  /\ po[p].status \in {"ordered", "shipped"}
        /\ DOMAIN got \subseteq LinesOf(p)
        /\ \A l \in DOMAIN got : got[l] <= Open(l)
        /\ po' = [po EXCEPT ![p].allocated = @ + SumFunction(shares),
                            ![p].capitalised =
                                @ + SumFunctionOnSet(shares, {l \in DOMAIN got : shares[l] > 0}),
                            ![p].status = IF Completes(p, got) THEN "received" ELSE @]
        /\ line' = [l \in Lines |-> IF l \in DOMAIN got THEN [line[l] EXCEPT !.received = @ + got[l]]
                                    ELSE line[l]]
        /\ booked' = [i \in Items |->
                        booked[i] + SumFunctionOnSet(got, {l \in DOMAIN got : line[l].item = i})]

-----------------------------------------------------------------------------

PurchasingInit ==
    /\ po = [p \in Orders |-> NewOrder("unused", 0)]
    /\ line = [l \in Lines |-> FreeLine]
    /\ booked = [i \in Items |-> 0]

PurchasingNext ==
    \/ \E p \in Orders, f \in Freights, ls \in SUBSET Lines :
         \E i \in [ls -> Items], q \in [ls -> Quantities], c \in [ls -> Costs] :
           CreateOrder(p, f, ls, i, q, c)
    \/ \E p \in Orders, f \in Freights : UpdateOrder(p, f)
    \/ \E p \in Orders : DeleteOrder(p)
    \/ \E p \in Orders, l \in Lines, i \in Items, q \in Quantities, c \in Costs :
         AddLine(p, l, i, q, c)
    \/ \E l \in Lines, q \in Quantities, c \in Costs : UpdateLine(l, q, c)
    \/ \E l \in Lines : DeleteLine(l)
    \/ \E p \in Orders, s \in Statuses : UpdateStatus(p, s)
    \/ \E p \in Orders, ls \in SUBSET Lines :
         \E got \in [ls -> Quantities], last \in Lines :
           /\ ls # {} => last \in ls
           /\ Receive(p, got, last)

-----------------------------------------------------------------------------
(* Properties.                                                             *)

(* No line is over-received, however receipts and edits of the quantity    *)
(* follow each other (the checks of update_po_line and of the receipt).    *)
ReceivedWithinOrdered == \A l \in Lines : line[l].received <= line[l].ordered

(* A received or closed order has nothing left to come: no edit, no        *)
(* receipt and no status change leaves an open line behind.                *)
ReceivedIsFull ==
    \A p \in Orders : po[p].status \in {"received", "closed"} =>
        \A l \in LinesOf(p) : Open(l) = 0

(* The receipt movements of a product are what its lines show as received: *)
(* deleting lines and orders, cancelling and reordering lose no goods.     *)
StockIsReceived ==
    \A i \in Items :
        booked[i] = SumFunctionOnSet([l \in Lines |-> line[l].received],
                                     {l \in Lines : line[l].item = i})

(* An order received in any number of parts, whose terms did not change    *)
(* after the first part, has its freight in the cost of its goods once:    *)
(* exactly in the tracker (when no free line lies among priced ones) and   *)
(* up to the rounding of each receipt in the unit costs.                   *)
FreightOnce ==
    \A p \in Orders :
        LET goods == LinesOf(p)
            free == {l \in goods : line[l].cost = 0}
            pieces == SumFunctionOnSet([l \in Lines |-> line[l].received], goods)
            off == po[p].capitalised - po[p].freight
        IN  po[p].status \in {"received", "closed"} /\ po[p].steady /\ goods # {} =>
                /\ free \in {{}, goods} => po[p].allocated = po[p].freight
                /\ off \in -pieces .. pieces
=============================================================================
