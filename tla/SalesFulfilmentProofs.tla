------------------------ MODULE SalesFulfilmentProofs ------------------------
(***************************************************************************)
(* The goods of an order leave stock once and with their cost, ship_order  *)
(* takes all of them, no line is shipped beyond what it asks for, made     *)
(* twice, or allocated more than was made for it, and the lines of a       *)
(* shipped order stay as they are: for any number of orders, lines and     *)
(* work orders.                                                            *)
(***************************************************************************)
EXTENDS SalesFulfilment, FiniteLemmas, TLAPS

(* An order that is shipped stays so until it is moved back.               *)
OrderOK(x) ==
    /\ x \in SalesOrder
    /\ x.status = "unused" => ~x.shippedAt /\ ~x.reopened
    /\ x.shippedAt /\ ~x.reopened => x.status \in ShippedFamily
    /\ x.checked => x.shippedAt

OrdersOK == so \in [Orders -> SalesOrder] /\ \A o \in Orders : OrderOK(so[o])

(* The goods of an order against its marks: who has taken goods has marked *)
(* the order, and what was taken is costed until goods are held or it is   *)
(* moved back.                                                             *)
IssueOK(x, g) ==
    /\ g.shipments > 0 => x.shippedAt
    /\ g.shipments > 1 => x.reopened
    /\ g.costed <= g.posted
    /\ ~x.reopened /\ ~g.everHeld => g.costed = g.posted
    /\ ~x.shippedAt => g.posted = 0 /\ ~g.everHeld
    /\ \A q \in Amounts : g.held[q] > 0 => g.everHeld

(* What ship_order has shipped last left in full.                          *)
TakenOK(x, g, total) ==
    x.checked /\ x.kind # "portal" /\ ~x.reopened => ~g.everHeld /\ g.posted = total

GoodsOK ==
    /\ goods \in [Orders -> Goods]
    /\ \A o \in Orders :
         IssueOK(so[o], goods[o]) /\ TakenOK(so[o], goods[o], Total(LinesOf(o)))

LineOK(r) == r.shipped <= r.qty

Made(l) == Produced({w \in WorkOrders : wo[w].line = l})

(* Fewer pieces were reported of one of its work orders than before.       *)
Lowered(l) == \E w \in WorkOrders : wo[w].line = l /\ wo[w].lowered

LinesOK ==
    /\ line \in [Lines -> OrderLine]
    /\ \A l \in Lines : LineOK(line[l]) /\ (line[l].alloc <= Made(l) \/ Lowered(l))

(* A work order counts as made for its line unless it was entered by hand. *)
Live(r) == r.status \notin {"unused", "cancelled"} /\ r.source # "other"

PairOK(r, t) ==
    r.line = t.line /\ r.line \in Lines /\ Live(r) /\ Live(t) => "revived" \in {r.source, t.source}

RowOK(r) == r.status = "unused" => r.line = NoLine /\ r.done = 0

Linked(r, f) == r.line \in Lines => r.so \in Orders /\ f[r.line].so = r.so

(* A work order for a line belongs to the line's order.                    *)
WorkOK ==
    /\ wo \in [WorkOrders -> WorkOrder]
    /\ \A w \in WorkOrders : RowOK(wo[w]) /\ Linked(wo[w], line)
    /\ \A w \in WorkOrders : \A v \in WorkOrders \ {w} : PairOK(wo[w], wo[v])

SalesInv == OrdersOK /\ GoodsOK /\ LinesOK /\ WorkOK /\ fg \in Int

-----------------------------------------------------------------------------
(* What a step does to the orders, the goods, the lines and the work.      *)

OrdersMove ==
    /\ so' \in [Orders -> SalesOrder]
    /\ \A o \in Orders : /\ OrderOK(so'[o])
                         /\ so[o].shippedAt => so'[o].shippedAt
                         /\ so[o].reopened => so'[o].reopened

(* No order is marked as shipped by ship_order.                            *)
Keeps(x, y) == y.checked => x.checked /\ y.kind = x.kind
MarksKept == \A o \in Orders : Keeps(so[o], so'[o])

(* A held movement is applied.                                             *)
Approved(o) ==
    /\ so'[o] = so[o]
    /\ \E q \in Amounts :
         /\ goods[o].held[q] > 0
         /\ goods'[o] = [goods[o] EXCEPT !.held[q] = @ - 1, !.posted = @ + q]

(* Goods of an order are taken that were not, or may be taken again.       *)
Issued(o) ==
    \E take \in SUBSET Lines, hold \in SUBSET Lines, c \in BOOLEAN :
        /\ so'[o] = Shipped(o, c)
        /\ goods'[o] = Shipment(goods[o], take, hold)
        /\ so[o].status \notin ShippedFamily \/ ~AlreadyShipped(o)
        /\ c => /\ so[o].status \notin ShippedFamily /\ hold = {}
                /\ so[o].kind # "portal" => Total(take) = Total(LinesOf(o))'

GoodsMove ==
    /\ goods' \in [Orders -> Goods]
    /\ \A o \in Orders :
         \/ goods'[o] = goods[o] /\ Keeps(so[o], so'[o])
         \/ Approved(o)
         \/ Issued(o)

(* A line goes to a new order, or to none, when nothing was made for it.   *)
Handed(l) ==
    /\ line[l].so \notin Orders \/ \A w \in WorkOrders : wo[w].line # l
    /\ line'[l].so \notin Orders \/ so[line'[l].so].status = "unused"

LinesMove ==
    /\ line' \in [Lines -> OrderLine]
    /\ \A l \in Lines :
         /\ LineOK(line'[l])
         /\ \/ line'[l].so = line[l].so /\ line'[l].qty = line[l].qty
            \/ line[l].so \notin Orders
            \/ so[line[l].so].status \notin ShippedFamily
         /\ line'[l].so = line[l].so \/ Handed(l)
         /\ line'[l].alloc <= line[l].alloc \/ line'[l].alloc <= Made(l)'

(* A work order goes on.                                                   *)
Carried(r, t) ==
    /\ t.line = r.line /\ (r.line \in Lines => t.so = r.so)
    /\ t.done >= r.done \/ t.lowered
    /\ r.lowered => t.lowered
    /\ r.source = "revived" => t.source = "revived"
    /\ Live(t) => Live(r) \/ t.source = "revived"

(* A work order is entered; for a line it is generated only when no other  *)
(* one lives.                                                              *)
Entered(w) ==
    /\ wo[w].status = "unused"
    /\ Linked(wo'[w], line')
    /\ wo'[w].line \in Lines /\ Live(wo'[w]) =>
         \A v \in WorkOrders \ {w} : wo'[v].line = wo'[w].line => ~Live(wo'[v])

WorkMove ==
    /\ wo' \in [WorkOrders -> WorkOrder]
    /\ \A w \in WorkOrders : RowOK(wo'[w]) /\ (Carried(wo[w], wo'[w]) \/ Entered(w))

StockMove == fg' \in Int

-----------------------------------------------------------------------------
(* Quantities.                                                             *)

(* The sum over lines.                                                     *)
LEMMA TotalIs ==
  ASSUME LinesOK, NEW S \in SUBSET Lines
  PROVE  /\ Total(S) \in Nat
         /\ S = {} => Total(S) = 0
         /\ \A T \in SUBSET S : Total(S) = Total(T) + Total(S \ T)
         /\ \A l \in S : line[l].qty <= Total(S)
<1> DEFINE f == [l \in Lines |-> line[l].qty]
<1>1. \A l \in Lines : f[l] \in Nat /\ f[l] = line[l].qty
  BY SalesAssumption DEF LinesOK, OrderLine, Amounts
<1>2. IsFiniteSet(S) /\ \A T \in SUBSET S : IsFiniteSet(T) /\ IsFiniteSet(S \ T)
  BY SalesAssumption, FS_Subset
<1>3. \A T : Total(T) = SumFunctionOnSet(f, T)
  BY DEF Total
<1> HIDE DEF f
<1>4. \A T \in SUBSET S : SumFunctionOnSet(f, T) \in Nat /\ SumFunctionOnSet(f, S \ T) \in Nat
  BY <1>1, <1>2, SumNat
<1>5. SumFunctionOnSet(f, {}) = 0
  BY SumEmpty
<1>6. ASSUME NEW T \in SUBSET S
      PROVE  SumFunctionOnSet(f, S) = SumFunctionOnSet(f, T) + SumFunctionOnSet(f, S \ T)
  <2>1. T \cap (S \ T) = {} /\ T \cup (S \ T) = S
    OBVIOUS
  <2>2. \A x \in T \cup (S \ T) : f[x] \in Int
    BY <1>1
  <2>3. SumFunctionOnSet(f, T \cup (S \ T)) = SumFunctionOnSet(f, T) + SumFunctionOnSet(f, S \ T)
    BY <1>2, <2>1, <2>2, SumUnion
  <2> QED
    BY <2>1, <2>3
<1>7. ASSUME NEW l \in S PROVE f[l] <= SumFunctionOnSet(f, S)
  <2>1. SumFunctionOnSet(f, S) = f[l] + SumFunctionOnSet(f, S \ {l})
    BY <1>1, <1>2, SumRemove
  <2>2. SumFunctionOnSet(f, S \ {l}) \in Nat /\ f[l] \in Nat
    BY <1>1, <1>4
  <2> QED
    BY <2>1, <2>2
<1> QED
  BY <1>1, <1>3, <1>4, <1>5, <1>6, <1>7

(* Goods that were taken and held.                                         *)
LEMMA ShipmentIs ==
  ASSUME LinesOK, NEW g \in Goods, NEW take \in SUBSET Lines, NEW hold \in SUBSET Lines
  PROVE  LET h == Shipment(g, take, hold)
         IN  /\ h \in Goods
             /\ h.posted = g.posted + Total(take)
             /\ h.shipments = IF take = {} THEN g.shipments ELSE g.shipments + 1
             /\ h.everHeld <=> g.everHeld \/ hold # {}
             /\ h.costed = IF g.costed = 0 THEN Total(take) ELSE g.costed
             /\ \A q \in Amounts : h.held[q] > 0 => g.held[q] > 0 \/ hold # {}
<1> DEFINE b == Times(g.held, hold)
           n == IF take = {} THEN g.shipments ELSE g.shipments + 1
           d == IF g.costed = 0 THEN Total(take) ELSE g.costed
           e == g.everHeld \/ hold # {}
           h == [posted |-> g.posted + Total(take), shipments |-> n, held |-> b,
                 everHeld |-> e, costed |-> d]
<1>1. Total(take) \in Nat
  BY TotalIs
<1>2. /\ g.posted \in Nat /\ g.shipments \in Nat /\ g.held \in [Amounts -> Nat]
      /\ g.everHeld \in BOOLEAN /\ g.costed \in Nat
  BY DEF Goods
<1>3. \A q : Cardinality({l \in hold : line[l].qty = q}) \in Nat
  BY SalesAssumption, FS_Subset, FS_CardinalityType
<1>4. b = [q \in Amounts |-> g.held[q] + Cardinality({l \in hold : line[l].qty = q})]
  BY DEF Times
<1>5. b \in [Amounts -> Nat]
  <2> DEFINE c(q) == Cardinality({l \in hold : line[l].qty = q})
  <2>1. \A q : c(q) \in Nat
    BY <1>3
  <2>2. b = [q \in Amounts |-> g.held[q] + c(q)]
    BY <1>4
  <2> HIDE DEF b, c
  <2> QED
    BY <1>2, <2>1, <2>2
<1>6. hold = {} => \A q \in Amounts : b[q] = g.held[q]
  <2>1. Cardinality({}) = 0
    BY FS_EmptySet
  <2> SUFFICES ASSUME hold = {}, NEW q \in Amounts PROVE b[q] = g.held[q]
    OBVIOUS
  <2>2. {l \in hold : line[l].qty = q} = {}
    OBVIOUS
  <2>3. b[q] = g.held[q] + Cardinality({})
    BY <1>4, <2>2
  <2> QED
    BY <1>2, <2>1, <2>3
<1> HIDE DEF b
<1>7. Shipment(g, take, hold)
        = [g EXCEPT !.posted = g.posted + Total(take), !.shipments = n, !.held = b,
                    !.everHeld = e, !.costed = d]
  BY DEF Shipment, b
<1>8. n \in Nat /\ d \in Nat /\ e \in BOOLEAN /\ g.posted + Total(take) \in Nat
  BY <1>1, <1>2
<1> HIDE DEF n, d, e
<1>9. Shipment(g, take, hold) = h
  BY <1>7 DEF Goods
<1>10. h \in Goods
  BY <1>5, <1>8 DEF Goods
<1>11. /\ h.posted = g.posted + Total(take) /\ h.shipments = n
       /\ (h.everHeld <=> e) /\ h.costed = d /\ h.held = b
  OBVIOUS
<1> HIDE DEF h
<1> QED
  BY <1>5, <1>6, <1>9, <1>10, <1>11 DEF n, d, e

(* The sum over work orders.                                               *)
LEMMA ProducedIs ==
  ASSUME NEW f \in [WorkOrders -> WorkOrder], NEW S \in SUBSET WorkOrders, NEW T \in SUBSET S
  PROVE  LET F == [w \in WorkOrders |-> f[w].done]
         IN  /\ SumFunctionOnSet(F, S) \in Nat
             /\ SumFunctionOnSet(F, T) <= SumFunctionOnSet(F, S)
<1> DEFINE F == [w \in WorkOrders |-> f[w].done]
<1>1. \A w \in WorkOrders : F[w] \in Nat
  BY DEF WorkOrder
<1>2. IsFiniteSet(S) /\ IsFiniteSet(T) /\ IsFiniteSet(S \ T)
  BY SalesAssumption, FS_Subset
<1>3. T \cap (S \ T) = {} /\ T \cup (S \ T) = S
  OBVIOUS
<1> HIDE DEF F
<1>4. /\ SumFunctionOnSet(F, S) \in Nat
      /\ SumFunctionOnSet(F, T) \in Nat /\ SumFunctionOnSet(F, S \ T) \in Nat
  BY <1>1, <1>2, SumNat
<1>5. \A w \in T \cup (S \ T) : F[w] \in Int
  BY <1>1
<1>6. SumFunctionOnSet(F, T \cup (S \ T)) = SumFunctionOnSet(F, T) + SumFunctionOnSet(F, S \ T)
  BY <1>2, <1>3, <1>5, SumUnion
<1>7. SumFunctionOnSet(F, S) = SumFunctionOnSet(F, T) + SumFunctionOnSet(F, S \ T)
  BY <1>3, <1>6
<1>8. SumFunctionOnSet(F, S) \in Nat /\ SumFunctionOnSet(F, T) <= SumFunctionOnSet(F, S)
  BY <1>4, <1>7
<1> QED
  BY <1>8 DEF F

(* A line keeps its work orders, and the mark of those that were lowered.  *)
LEMMA LineKeepsWork ==
  ASSUME WorkOK, WorkMove, NEW l \in Lines, NEW w \in WorkOrders, wo[w].line = l
  PROVE  Carried(wo[w], wo'[w]) /\ wo'[w].line = l
<1>1. l # NoLine
  BY SalesAssumption
<1>2. RowOK(wo[w]) /\ (Carried(wo[w], wo'[w]) \/ Entered(w))
  BY DEF WorkOK, WorkMove
<1> QED
  BY <1>1, <1>2 DEF RowOK, Entered, Carried

(* No step takes back what was made for a line, unless it is marked so.    *)
LEMMA MadeGrows ==
  ASSUME WorkOK, WorkMove, NEW l \in Lines, ~Lowered(l)'
  PROVE  Made(l) \in Nat /\ Made(l)' \in Nat /\ Made(l) <= Made(l)'
<1> DEFINE F == [w \in WorkOrders |-> wo[w].done]
           G == [w \in WorkOrders |-> wo'[w].done]
           S == {w \in WorkOrders : wo[w].line = l}
           U == {w \in WorkOrders : wo'[w].line = l}
<1>1. wo \in [WorkOrders -> WorkOrder] /\ wo' \in [WorkOrders -> WorkOrder]
  BY DEF WorkOK, WorkMove
<1>3. \A w \in S : w \in U /\ F[w] <= G[w]
  <2> SUFFICES ASSUME NEW w \in WorkOrders, wo[w].line = l
               PROVE  wo'[w].line = l /\ wo[w].done <= wo'[w].done
    OBVIOUS
  <2>1. Carried(wo[w], wo'[w]) /\ wo'[w].line = l
    BY LineKeepsWork
  <2>2. ~wo'[w].lowered /\ wo[w].done \in Nat /\ wo'[w].done \in Nat
    BY <1>1, <2>1 DEF Lowered, WorkOrder
  <2> QED
    BY <2>1, <2>2 DEF Carried
<1>4. \A w \in WorkOrders : F[w] \in Nat /\ G[w] \in Nat
  BY <1>1 DEF WorkOrder
<1>5. Made(l) = SumFunctionOnSet(F, S) /\ Made(l)' = SumFunctionOnSet(G, U)
  BY DEF Made, Produced
<1>6. /\ S \in SUBSET WorkOrders /\ U \in SUBSET WorkOrders /\ S \in SUBSET U
      /\ S \in SUBSET S
  BY <1>3
<1>7. SumFunctionOnSet(F, S) \in Nat
  BY <1>1, <1>6, ProducedIs
<1>8. SumFunctionOnSet(G, U) \in Nat /\ SumFunctionOnSet(G, S) <= SumFunctionOnSet(G, U)
  BY <1>1, <1>6, ProducedIs
<1>9. SumFunctionOnSet(F, S) <= SumFunctionOnSet(G, S) /\ SumFunctionOnSet(G, S) \in Nat
  <2>1. IsFiniteSet(S)
    BY SalesAssumption, FS_Subset
  <2>2. \A w \in S : F[w] \in Nat /\ G[w] \in Nat /\ F[w] <= G[w]
    BY <1>3, <1>4
  <2> HIDE DEF F, G, S
  <2> QED
    BY <2>1, <2>2, SumMonotone, SumNat
<1> HIDE DEF F, G, S, U
<1> QED
  BY <1>5, <1>7, <1>8, <1>9

(* The lines of a shipped order are frozen, and it gets no others.         *)
LEMMA LinesOfShipped ==
  ASSUME SalesInv, OrdersMove, LinesMove, NEW o \in Orders, so[o].shippedAt, ~so'[o].reopened
  PROVE  Total(LinesOf(o))' = Total(LinesOf(o))
<1>1. OrderOK(so[o]) /\ ~so[o].reopened
  BY DEF SalesInv, OrdersOK, OrdersMove
<1>2. so[o].status \in ShippedFamily /\ so[o].status # "unused"
  BY <1>1 DEF OrderOK, ShippedFamily
<1>3. \A l \in Lines : line[l].so = o => line'[l].so = o /\ line'[l].qty = line[l].qty
  BY <1>2 DEF LinesMove
<1>4. \A l \in Lines : line'[l].so = o => line[l].so = o
  BY <1>2 DEF LinesMove, Handed
<1> DEFINE F == [l \in Lines |-> line[l].qty]
           G == [l \in Lines |-> line'[l].qty]
           S == {l \in Lines : line[l].so = o}
<1>5. S = {l \in Lines : line'[l].so = o}
  BY <1>3, <1>4
<1>6. \A l \in S : G[l] = F[l]
  BY <1>3
<1>7. Total(LinesOf(o)) = SumFunctionOnSet(F, S)
  BY DEF Total, LinesOf
<1>8. Total(LinesOf(o))' = SumFunctionOnSet(G, {l \in Lines : line'[l].so = o})
  BY DEF Total, LinesOf
<1>9. IsFiniteSet(S)
  BY SalesAssumption, FS_Subset
<1> HIDE DEF F, G, S
<1> QED
  BY <1>5, <1>6, <1>7, <1>8, <1>9, SumSame

(* The goods of one order.                                                 *)
LEMMA GoodsKept ==
  ASSUME SalesInv, OrdersMove, GoodsMove, LinesMove, NEW o \in Orders
  PROVE  IssueOK(so'[o], goods'[o]) /\ TakenOK(so'[o], goods'[o], Total(LinesOf(o))')
<1> DEFINE x == so[o]
           y == so'[o]
           g == goods[o]
           h == goods'[o]
<1>0. g \in Goods /\ h \in Goods
  BY DEF SalesInv, GoodsOK, GoodsMove
<1>1. /\ OrderOK(x) /\ OrderOK(y) /\ IssueOK(x, g) /\ TakenOK(x, g, Total(LinesOf(o)))
      /\ (x.shippedAt => y.shippedAt) /\ (x.reopened => y.reopened)
  BY DEF SalesInv, OrdersOK, GoodsOK, OrdersMove
<1>2. x.shippedAt /\ ~y.reopened => Total(LinesOf(o))' = Total(LinesOf(o))
  BY LinesOfShipped
<1>3. CASE h = g /\ Keeps(x, y)
  <2>1. IssueOK(y, g)
    BY <1>1 DEF IssueOK
  <2>2. TakenOK(y, g, Total(LinesOf(o))')
    <3> HIDE DEF x, y, g
    <3> QED
      BY <1>1, <1>2, <1>3 DEF TakenOK, Keeps, OrderOK
  <2> QED
    BY <1>3, <2>1, <2>2
<1>4. CASE Approved(o)
  <2>1. PICK q \in Amounts : g.held[q] > 0 /\ h = [g EXCEPT !.held[q] = @ - 1, !.posted = @ + q]
    BY <1>4 DEF Approved
  <2>2. g \in Goods /\ q \in Nat /\ g.everHeld
    BY <1>0, <1>1, <2>1, SalesAssumption DEF IssueOK, Amounts
  <2>3. /\ h.posted = g.posted + q /\ h.shipments = g.shipments
        /\ h.costed = g.costed /\ (h.everHeld <=> g.everHeld)
    <3> DEFINE b == [g.held EXCEPT ![q] = @ - 1]
    <3>1. h = [[g EXCEPT !.held = b] EXCEPT !.posted = g.posted + q]
      BY <2>1, <2>2 DEF Goods
    <3> HIDE DEF b
    <3> QED
      BY <2>2, <3>1 DEF Goods
  <2>4. g.posted \in Nat /\ g.costed \in Nat
    BY <1>0 DEF Goods
  <2>5. y = x
    BY <1>4 DEF Approved
  <2> HIDE DEF x, y, g, h
  <2>6. IssueOK(y, h)
    BY <1>1, <2>2, <2>3, <2>4, <2>5 DEF IssueOK
  <2>7. TakenOK(y, h, Total(LinesOf(o))')
    BY <1>1, <2>2, <2>5 DEF TakenOK
  <2> QED
    BY <2>6, <2>7 DEF y, h
<1>5. CASE Issued(o)
  <2>1. PICK take \in SUBSET Lines, hold \in SUBSET Lines, c \in BOOLEAN :
          /\ y = Shipped(o, c) /\ h = Shipment(g, take, hold)
          /\ x.status \notin ShippedFamily \/ ~AlreadyShipped(o)
          /\ c => /\ x.status \notin ShippedFamily /\ hold = {}
                  /\ x.kind # "portal" => Total(take) = Total(LinesOf(o))'
    BY <1>5 DEF Issued
  <2>2. LinesOK /\ Total(take) \in Nat
    BY TotalIs DEF SalesInv
  <2>3. g \in Goods /\ g.posted \in Nat /\ g.costed \in Nat /\ g.shipments \in Nat
    BY <1>0 DEF Goods
  <2>4. AlreadyShipped(o) <=> g.costed > 0 \/ g.shipments > 0
    BY DEF AlreadyShipped
  <2>5. /\ y.shippedAt /\ (y.reopened <=> x.reopened) /\ (y.checked <=> c) /\ y.kind = x.kind
    <3>1. x \in SalesOrder
      BY <1>1 DEF OrderOK
    <3> QED
      BY <2>1, <3>1 DEF Shipped, SalesOrder
  <2> HIDE DEF x, y, g, h
  <2>6. /\ h.posted = g.posted + Total(take)
        /\ h.shipments = IF take = {} THEN g.shipments ELSE g.shipments + 1
        /\ h.everHeld <=> g.everHeld \/ hold # {}
        /\ h.costed = IF g.costed = 0 THEN Total(take) ELSE g.costed
        /\ \A q \in Amounts : h.held[q] > 0 => g.held[q] > 0 \/ hold # {}
    BY <2>1, <2>2, <2>3, ShipmentIs
  <2>7. ~x.reopened => g.shipments = 0 /\ (~g.everHeld => g.posted = 0 /\ g.costed = 0)
    BY <1>1, <2>1, <2>3, <2>4 DEF OrderOK, IssueOK
  <2>8. IssueOK(y, h)
    <3>1. h.shipments > 1 => y.reopened
      BY <2>3, <2>5, <2>6, <2>7
    <3>2. h.costed <= h.posted
      BY <1>1, <2>2, <2>3, <2>6 DEF IssueOK
    <3>3. ~y.reopened /\ ~h.everHeld => h.costed = h.posted
      BY <2>2, <2>3, <2>5, <2>6, <2>7
    <3>4. \A q \in Amounts : h.held[q] > 0 => h.everHeld
      BY <1>1, <2>6 DEF IssueOK
    <3> QED
      BY <2>5, <2>6, <3>1, <3>2, <3>3, <3>4 DEF IssueOK
  <2>9. TakenOK(y, h, Total(LinesOf(o))')
    <3> SUFFICES ASSUME y.checked, y.kind # "portal", ~y.reopened
                 PROVE  ~h.everHeld /\ h.posted = Total(LinesOf(o))'
      BY DEF TakenOK
    <3>1. c /\ ~x.reopened /\ x.kind # "portal" /\ ~x.shippedAt
      BY <1>1, <2>1, <2>5 DEF OrderOK
    <3>2. ~g.everHeld /\ g.posted = 0 /\ hold = {} /\ Total(take) = Total(LinesOf(o))'
      BY <1>1, <2>1, <3>1 DEF IssueOK
    <3> QED
      BY <2>2, <2>6, <3>2
  <2> QED
    BY <2>8, <2>9 DEF y, h
<1> QED
  BY <1>3, <1>4, <1>5 DEF GoodsMove

(* The work orders.                                                        *)
LEMMA WorkKept ==
  ASSUME WorkOK, WorkMove, LinesMove
  PROVE  WorkOK'
<1>1. \A w \in WorkOrders : RowOK(wo[w]) /\ Linked(wo[w], line)
  BY DEF WorkOK
<1>2. \A w \in WorkOrders : RowOK(wo'[w]) /\ (Carried(wo[w], wo'[w]) \/ Entered(w))
  BY DEF WorkMove
<1>3. ASSUME NEW w \in WorkOrders PROVE Linked(wo'[w], line')
  <2>1. CASE Carried(wo[w], wo'[w])
    <3> SUFFICES ASSUME wo'[w].line \in Lines
                 PROVE  wo'[w].so \in Orders /\ line'[wo'[w].line].so = wo'[w].so
      BY DEF Linked
    <3> DEFINE l == wo[w].line
    <3>1. l \in Lines /\ wo'[w].line = l /\ wo'[w].so = wo[w].so
      BY <2>1 DEF Carried
    <3>2. wo[w].so \in Orders /\ line[l].so = wo[w].so
      BY <1>1, <3>1 DEF Linked
    <3>3. line'[l].so = line[l].so
      BY <3>1, <3>2 DEF LinesMove, Handed
    <3> QED
      BY <3>1, <3>2, <3>3
  <2> QED
    BY <1>2, <2>1 DEF Entered
<1>4. ASSUME NEW w \in WorkOrders, NEW v \in WorkOrders \ {w} PROVE PairOK(wo'[w], wo'[v])
  <2> SUFFICES ASSUME wo'[w].line = wo'[v].line, wo'[w].line \in Lines,
                      Live(wo'[w]), Live(wo'[v])
               PROVE  "revived" \in {wo'[w].source, wo'[v].source}
    BY DEF PairOK
  <2>1. ~Entered(w) /\ ~Entered(v)
    BY DEF Entered
  <2>2. Carried(wo[w], wo'[w]) /\ Carried(wo[v], wo'[v])
    BY <1>2, <2>1
  <2>3. PairOK(wo[w], wo[v])
    BY DEF WorkOK
  <2> QED
    BY <2>2, <2>3 DEF PairOK, Carried
<1>5. wo' \in [WorkOrders -> WorkOrder]
  BY DEF WorkMove
<1> QED
  BY <1>2, <1>3, <1>4, <1>5 DEF WorkOK

(* What the moves promise together.                                        *)
LEMMA MovesKeep ==
  ASSUME SalesInv, OrdersMove, GoodsMove, LinesMove, WorkMove, StockMove
  PROVE  SalesInv' /\ LinesFrozen
<1>1. OrdersOK'
  BY DEF OrdersMove, OrdersOK, OrderOK
<1>2. GoodsOK'
  <2>1. goods' \in [Orders -> Goods]
    BY DEF GoodsMove
  <2>2. \A o \in Orders : IssueOK(so'[o], goods'[o]) /\ TakenOK(so'[o], goods'[o], Total(LinesOf(o))')
    BY GoodsKept
  <2> QED
    BY <2>1, <2>2 DEF GoodsOK
<1>3. LinesOK'
  <2> SUFFICES ASSUME NEW l \in Lines, ~Lowered(l)' PROVE line'[l].alloc <= Made(l)'
    BY DEF LinesMove, LinesOK, LineOK
  <2>0. ~Lowered(l)
    BY LineKeepsWork DEF SalesInv, Lowered, Carried
  <2>1. line[l] \in OrderLine /\ line'[l] \in OrderLine /\ line[l].alloc <= Made(l)
    BY <2>0 DEF SalesInv, LinesOK, LinesMove
  <2>2. line[l].alloc \in Nat /\ line'[l].alloc \in Nat
    BY <2>1 DEF OrderLine
  <2>3. Made(l) \in Nat /\ Made(l)' \in Nat /\ Made(l) <= Made(l)'
    BY MadeGrows DEF SalesInv
  <2> QED
    BY <2>1, <2>2, <2>3 DEF LinesMove
<1>4. LinesFrozen
  <2> SUFFICES ASSUME NEW l \in Lines, line[l].so \in Orders, so[line[l].so].shippedAt,
                      ~so'[line[l].so].reopened
               PROVE  line'[l].so = line[l].so /\ line'[l].qty = line[l].qty
    BY DEF LinesFrozen
  <2>1. so[line[l].so].status \in ShippedFamily
    BY DEF SalesInv, OrdersOK, OrderOK, OrdersMove
  <2> QED
    BY <2>1 DEF LinesMove
<1>5. WorkOK'
  BY WorkKept DEF SalesInv
<1>6. (fg \in Int)'
  BY DEF StockMove
<1> QED
  BY <1>1, <1>2, <1>3, <1>4, <1>5, <1>6 DEF SalesInv

(* Orders that are left alone.                                             *)
LEMMA SameOrders == ASSUME SalesInv, so' = so PROVE OrdersMove /\ MarksKept
  BY DEF SalesInv, OrdersOK, OrdersMove, MarksKept, Keeps

(* Goods that are left alone.                                              *)
LEMMA SameGoods == ASSUME SalesInv, goods' = goods, MarksKept PROVE GoodsMove
  BY DEF SalesInv, GoodsOK, GoodsMove, MarksKept

(* Lines that are left alone.                                              *)
LEMMA SameLines == ASSUME SalesInv, line' = line PROVE LinesMove
<1>1. \A l \in Lines : line[l].alloc \in Nat
  BY DEF SalesInv, LinesOK, OrderLine
<1> QED
  BY <1>1 DEF SalesInv, LinesOK, LinesMove

(* Work orders that are left alone.                                        *)
LEMMA SameWork == ASSUME SalesInv, wo' = wo PROVE WorkMove
<1>1. \A w \in WorkOrders : wo[w].done \in Nat
  BY DEF SalesInv, WorkOK, WorkOrder
<1> QED
  BY <1>1 DEF SalesInv, WorkOK, WorkMove, Carried

(* Stock that is left alone.                                               *)
LEMMA SameStock == ASSUME SalesInv, fg' = fg PROVE StockMove
  BY DEF SalesInv, StockMove

(* One order gets another record.                                          *)
LEMMA OneOrderMoves ==
  ASSUME SalesInv, NEW o, NEW y, so' = [so EXCEPT ![o] = y],
         o \in Orders => /\ OrderOK(y)
                         /\ so[o].shippedAt => y.shippedAt
                         /\ so[o].reopened => y.reopened
  PROVE  OrdersMove
<1>1. \A p \in Orders : so'[p] = IF p = o THEN y ELSE so[p]
  BY DEF SalesInv, OrdersOK
<1>2. \A p \in Orders : OrderOK(so[p])
  BY DEF SalesInv, OrdersOK
<1>3. \A p \in Orders : OrderOK(so'[p])
  BY <1>1, <1>2
<1>4. so' \in [Orders -> SalesOrder]
  BY <1>3 DEF SalesInv, OrdersOK, OrderOK
<1>5. \A p \in Orders : /\ so[p].shippedAt => so'[p].shippedAt
                        /\ so[p].reopened => so'[p].reopened
  BY <1>1
<1> QED
  BY <1>3, <1>4, <1>5 DEF OrdersMove

LEMMA OneOrder ==
  ASSUME SalesInv, NEW o, NEW y, so' = [so EXCEPT ![o] = y],
         o \in Orders => /\ OrderOK(y)
                         /\ so[o].shippedAt => y.shippedAt
                         /\ so[o].reopened => y.reopened
                         /\ Keeps(so[o], y)
  PROVE  OrdersMove /\ MarksKept
<1>1. OrdersMove
  BY OneOrderMoves
<1>2. \A p \in Orders : so'[p] = IF p = o THEN y ELSE so[p]
  BY DEF SalesInv, OrdersOK
<1> QED
  BY <1>1, <1>2 DEF MarksKept, Keeps

(* A status that is set on a record.                                       *)
LEMMA StatusOfRecord ==
  ASSUME NEW x \in SalesOrder, NEW s \in SoStatuses
  PROVE  LET y == [x EXCEPT !.status = s]
         IN  /\ y \in SalesOrder /\ y.status = s /\ y.kind = x.kind
             /\ y.shippedAt = x.shippedAt /\ y.reopened = x.reopened /\ y.checked = x.checked
<1> DEFINE y == [x EXCEPT !.status = s]
<1>1. y \in SalesOrder /\ y.status = s /\ y.kind = x.kind
  BY DEF SalesOrder
<1>2. y.shippedAt = x.shippedAt
  BY DEF SalesOrder
<1>3. y.reopened = x.reopened
  BY DEF SalesOrder
<1>4. y.checked = x.checked
  BY DEF SalesOrder
<1> QED
  BY <1>1, <1>2, <1>3, <1>4

(* A status that is set leaves the shipped ones only where allowed.        *)
LEMMA StatusMove ==
  ASSUME SalesInv, NEW o \in Orders, NEW s \in SoStatuses, s # "unused",
         so[o].status \in ShippedFamily => s \in ShippedFamily \/ ~so[o].shippedAt,
         so' = [so EXCEPT ![o].status = s]
  PROVE  OrdersMove /\ MarksKept
<1> DEFINE y == [so[o] EXCEPT !.status = s]
<1>1. OrderOK(so[o]) /\ so[o] \in SalesOrder
  BY DEF SalesInv, OrdersOK
<1>2. /\ y \in SalesOrder /\ y.status = s /\ y.kind = so[o].kind
      /\ y.shippedAt = so[o].shippedAt /\ y.reopened = so[o].reopened /\ y.checked = so[o].checked
  BY <1>1, StatusOfRecord, Zenon
<1>3. so' = [so EXCEPT ![o] = y]
  OBVIOUS
<1> HIDE DEF y
<1>4. OrderOK(y)
  BY <1>1, <1>2 DEF OrderOK
<1>5. (so[o].shippedAt => y.shippedAt) /\ (so[o].reopened => y.reopened) /\ Keeps(so[o], y)
  BY <1>2, Zenon DEF Keeps
<1> QED
  BY <1>3, <1>4, <1>5, OneOrder

(* One line gets another record.                                           *)
LEMMA OneLine ==
  ASSUME SalesInv, NEW l, NEW r, line' = [line EXCEPT ![l] = r],
         l \in Lines =>
           /\ r \in OrderLine /\ LineOK(r)
           /\ \/ r.so = line[l].so /\ r.qty = line[l].qty
              \/ line[l].so \notin Orders
              \/ so[line[l].so].status \notin ShippedFamily
           /\ r.so = line[l].so \/ Handed(l)
           /\ r.alloc <= line[l].alloc \/ r.alloc <= Made(l)'
  PROVE  LinesMove
<1>1. /\ line \in [Lines -> OrderLine]
      /\ \A m \in Lines : LineOK(line[m])
  BY DEF SalesInv, LinesOK
<1>2. \A m \in Lines : line'[m] = IF m = l THEN r ELSE line[m]
  BY <1>1
<1>3. line' \in [Lines -> OrderLine]
  BY <1>1
<1>4. \A m \in Lines : line[m].alloc <= line[m].alloc
  BY <1>1 DEF OrderLine
<1> QED
  BY <1>1, <1>2, <1>3, <1>4 DEF LinesMove

(* A line that is entered or cleared has shipped nothing.                  *)
LEMMA NewLineOK ==
  ASSUME NEW o \in Orders \cup {NoOrder}, NEW q \in Amounts
  PROVE  /\ NewLine(o, q) \in OrderLine /\ FreeLine \in OrderLine
         /\ LineOK(NewLine(o, q)) /\ LineOK(FreeLine)
         /\ NewLine(o, q).so = o /\ FreeLine.so = NoOrder
         /\ NewLine(o, q).alloc = 0 /\ FreeLine.alloc = 0
<1>1. 0 \in Amounts /\ q >= 0
  BY SalesAssumption DEF Amounts
<1> QED
  BY <1>1 DEF LineOK, NewLine, FreeLine, OrderLine

(* The edits of a line's record.                                           *)
LEMMA LineRecord ==
  ASSUME NEW r \in OrderLine, LineOK(r)
  PROVE  /\ \A q \in Amounts : q >= r.shipped =>
              /\ LineOK([r EXCEPT !.qty = q]) /\ [r EXCEPT !.qty = q] \in OrderLine
              /\ [r EXCEPT !.qty = q].so = r.so /\ [r EXCEPT !.qty = q].alloc = r.alloc
         /\ LET full == [r EXCEPT !.shipped = r.qty]
            IN  /\ LineOK(full) /\ full \in OrderLine
                /\ full.so = r.so /\ full.qty = r.qty /\ full.alloc = r.alloc
         /\ \A a \in Nat : LET given == [r EXCEPT !.alloc = a]
                           IN  /\ LineOK(given) /\ given \in OrderLine
                               /\ given.so = r.so /\ given.qty = r.qty /\ given.alloc = a
  BY SalesAssumption DEF LineOK, OrderLine, Amounts

(* Several lines that are shipped in full.                                 *)
LEMMA FullLinesMove ==
  ASSUME SalesInv, NEW S,
         line' = [l \in Lines |-> IF l \in S THEN [line[l] EXCEPT !.shipped = line[l].qty]
                                  ELSE line[l]]
  PROVE  /\ LinesMove
         /\ \A l \in Lines : line'[l].so = line[l].so /\ line'[l].qty = line[l].qty
<1>1. \A l \in Lines : LineOK(line[l]) /\ line[l] \in OrderLine /\ line[l].alloc \in Nat
  BY DEF SalesInv, LinesOK, OrderLine
<1>2. ASSUME NEW l \in Lines
      PROVE  /\ LineOK(line'[l]) /\ line'[l] \in OrderLine
             /\ line'[l].so = line[l].so /\ line'[l].qty = line[l].qty
             /\ line'[l].alloc = line[l].alloc
  <2> DEFINE full == [line[l] EXCEPT !.shipped = line[l].qty]
  <2>1. /\ LineOK(full) /\ full \in OrderLine
        /\ full.so = line[l].so /\ full.qty = line[l].qty /\ full.alloc = line[l].alloc
    BY <1>1, LineRecord
  <2>2. line'[l] = full \/ line'[l] = line[l]
    OBVIOUS
  <2> HIDE DEF full
  <2> QED
    BY <1>1, <2>1, <2>2
<1>3. line' \in [Lines -> OrderLine]
  BY <1>2
<1>4. \A l \in Lines : line'[l].alloc <= line[l].alloc
  BY <1>1, <1>2
<1> QED
  BY <1>2, <1>3, <1>4 DEF LinesMove

(* One work order gets another record, and goes on or is entered.          *)
LEMMA OneRow ==
  ASSUME SalesInv, NEW w \in WorkOrders, NEW r \in WorkOrder, RowOK(r),
         wo' = [wo EXCEPT ![w] = r], Carried(wo[w], r) \/ Entered(w)
  PROVE  WorkMove
<1>1. wo \in [WorkOrders -> WorkOrder] /\ \A v \in WorkOrders : RowOK(wo[v])
  BY DEF SalesInv, WorkOK
<1>2. /\ wo' \in [WorkOrders -> WorkOrder]
      /\ \A v \in WorkOrders : wo'[v] = IF v = w THEN r ELSE wo[v]
  BY <1>1
<1>3. \A v \in WorkOrders : Carried(wo[v], wo[v])
  BY <1>1 DEF Carried, WorkOrder
<1> QED
  BY <1>1, <1>2, <1>3 DEF WorkMove

(* A new work order.                                                       *)
LEMMA NewRow ==
  ASSUME NEW s \in WoStatuses \ {"unused"}, NEW o \in Orders \cup {NoOrder}, NEW l \in Lines \cup {NoLine},
         NEW q \in Amounts, NEW src \in {"sales_order", "other"}
  PROVE  /\ NewWorkOrder(s, o, l, q, src) \in WorkOrder
         /\ RowOK(NewWorkOrder(s, o, l, q, src))
         /\ NewWorkOrder(s, o, l, q, src).so = o /\ NewWorkOrder(s, o, l, q, src).line = l
         /\ NewWorkOrder(s, o, l, q, src).source = src
  BY DEF NewWorkOrder, WorkOrder, RowOK

(* A work order by hand, or for no line, is entered.                       *)
LEMMA EnteredRow ==
  ASSUME SalesInv, NEW w \in WorkOrders, wo[w].status = "unused",
         NEW s, NEW o, NEW l, NEW q, NEW src, wo'[w] = NewWorkOrder(s, o, l, q, src),
         l \notin Lines \/ src = "other",
         l \in Lines => o \in Orders /\ line'[l].so = o
  PROVE  Entered(w)
<1>1. wo'[w].so = o /\ wo'[w].line = l /\ wo'[w].source = src
  BY DEF NewWorkOrder
<1> QED
  BY <1>1 DEF Entered, Linked, Live

(* One work order goes on and another is entered.                          *)
LEMMA TwoRows ==
  ASSUME SalesInv, NEW w \in WorkOrders, NEW v \in WorkOrders, w # v,
         NEW r \in WorkOrder, NEW t \in WorkOrder, RowOK(r), RowOK(t),
         wo' \in [WorkOrders -> WorkOrder], wo'[w] = r, wo'[v] = t,
         \A u \in WorkOrders \ {w, v} : wo'[u] = wo[u],
         Carried(wo[w], r), Entered(v)
  PROVE  WorkMove
<1>1. wo \in [WorkOrders -> WorkOrder] /\ \A u \in WorkOrders : RowOK(wo[u])
  BY DEF SalesInv, WorkOK
<1>2. \A u \in WorkOrders : Carried(wo[u], wo[u])
  BY <1>1 DEF Carried, WorkOrder
<1> QED
  BY <1>1, <1>2 DEF WorkMove

(* A status that is set on a work order, which lives again only when it is *)
(* marked as revived.                                                      *)
LEMMA RowStatus ==
  ASSUME NEW r \in WorkOrder, RowOK(r), r.status # "unused", NEW s \in WoStatuses \ {"unused"}
  PROVE  /\ LET t == [r EXCEPT !.status = s]
            IN  /\ t \in WorkOrder /\ RowOK(t) /\ t.done = r.done /\ t.line = r.line /\ t.so = r.so
                /\ s = "cancelled" \/ r.status # "cancelled" => Carried(r, t)
         /\ LET t == [r EXCEPT !.status = s, !.source = IF r.status = "cancelled" THEN "revived" ELSE @]
            IN  t \in WorkOrder /\ RowOK(t) /\ Carried(r, t)
<1>1. r.done \in Nat /\ r.source \in {"sales_order", "other", "revived"}
  BY DEF WorkOrder
<1>2. LET t == [r EXCEPT !.status = s]
      IN  /\ t \in WorkOrder /\ RowOK(t) /\ t.done = r.done /\ t.line = r.line /\ t.so = r.so
          /\ s = "cancelled" \/ r.status # "cancelled" => Carried(r, t)
  <2> DEFINE t == [r EXCEPT !.status = s]
  <2>1. t \in WorkOrder /\ t.status = s /\ t.line = r.line /\ t.so = r.so /\ t.done = r.done
        /\ t.source = r.source
    BY DEF WorkOrder
  <2>2. t.lowered = r.lowered
    BY DEF WorkOrder
  <2> HIDE DEF t
  <2>3. RowOK(t)
    BY <2>1, <2>2 DEF RowOK
  <2>4. s = "cancelled" \/ r.status # "cancelled" => Carried(r, t)
    BY <1>1, <2>1, <2>2 DEF Carried, Live
  <2> QED
    BY <2>1, <2>3, <2>4 DEF t
<1>3. LET t == [r EXCEPT !.status = s, !.source = IF r.status = "cancelled" THEN "revived" ELSE @]
      IN  t \in WorkOrder /\ RowOK(t) /\ Carried(r, t)
  <2> DEFINE src == IF r.status = "cancelled" THEN "revived" ELSE r.source
             t == [r EXCEPT !.status = s, !.source = src]
  <2>1. src \in {"sales_order", "other", "revived"} /\ (r.source = "revived" => src = "revived")
        /\ (r.status # "cancelled" => src = r.source) /\ (r.status = "cancelled" => src = "revived")
    BY <1>1
  <2> HIDE DEF src
  <2>2. t \in WorkOrder /\ t.status = s /\ t.line = r.line /\ t.so = r.so /\ t.done = r.done
        /\ t.source = src
    BY <2>1 DEF WorkOrder
  <2>3. t.lowered = r.lowered
    BY DEF WorkOrder
  <2>4. t = [r EXCEPT !.status = s, !.source = IF r.status = "cancelled" THEN "revived" ELSE @]
    BY DEF src
  <2> HIDE DEF t
  <2>5. RowOK(t)
    BY <2>2, <2>3 DEF RowOK
  <2>6. Carried(r, t)
    BY <1>1, <2>1, <2>2, <2>3 DEF Carried, Live
  <2> QED
    BY <2>2, <2>4, <2>5, <2>6
<1> QED
  BY <1>2, <1>3

(* A quantity that is set.                                                 *)
LEMMA RowQuantity ==
  ASSUME NEW r \in WorkOrder, RowOK(r), r.status \notin {"unused", "cancelled"}, NEW q \in Amounts,
         NEW t, t = [r EXCEPT !.qty = q]
  PROVE  t \in WorkOrder /\ RowOK(t) /\ Carried(r, t)
<1>1. /\ t \in WorkOrder /\ t.status = r.status /\ t.line = r.line /\ t.so = r.so /\ t.done = r.done
      /\ t.source = r.source
  BY DEF WorkOrder
<1>2. t.lowered = r.lowered
  BY DEF WorkOrder
<1>3. RowOK(t)
  BY <1>1, <1>2 DEF RowOK
<1>4. Carried(r, t)
  BY <1>1, <1>2 DEF Carried, Live, WorkOrder
<1> QED
  BY <1>1, <1>3, <1>4

(* Pieces that are reported: no fewer than before, or marked so.           *)
LEMMA ReportedRow ==
  ASSUME NEW r \in WorkOrder, r.status # "unused",
         NEW t \in WorkOrder, t.status # "unused", r.status = "cancelled" => t.status = "cancelled",
         t.done >= r.done \/ t.lowered, r.lowered => t.lowered,
         t.line = r.line, t.so = r.so, t.source = r.source
  PROVE  RowOK(t) /\ Carried(r, t)
  BY DEF RowOK, Carried, Live

(* A work order that is closed keeps what it was made for.                 *)
LEMMA ClosedRow ==
  ASSUME NEW r \in WorkOrder
  PROVE  /\ Closed(r) \in WorkOrder /\ Closed(r).status = "complete"
         /\ Closed(r).done = r.done /\ Closed(r).qty = r.qty /\ Closed(r).lowered = r.lowered
         /\ Closed(r).line = r.line /\ Closed(r).so = r.so /\ Closed(r).source = r.source
  BY DEF Closed, WorkOrder, WoStatuses

(* An imported order is completed, and nothing marks it as shipped.        *)
LEMMA SalesInvInit == ASSUME Init PROVE SalesInv
<1>1. 0 \in Amounts /\ (\A q \in Quantities : q \in Amounts)
  BY SalesAssumption DEF Amounts, Quantities
<1>2. /\ NewOrder("unused", "lines") \in SalesOrder
      /\ ~NewOrder("unused", "lines").shippedAt /\ ~NewOrder("unused", "lines").reopened
      /\ ~NewOrder("unused", "lines").checked
  BY DEF NewOrder, SalesOrder, SoStatuses, Kinds
<1>3. OrderOK(NewOrder("unused", "lines"))
  BY <1>2 DEF OrderOK
<1>4. OrdersOK /\ \A o \in Orders : ~so[o].checked
  <2>1. CASE so = Fresh
    BY <1>2, <1>3, <2>1 DEF OrdersOK, Fresh
  <2>2. CASE \E o \in Orders : so = [Fresh EXCEPT ![o].status = "completed"]
    <3>1. PICK o \in Orders : so = [Fresh EXCEPT ![o].status = "completed"]
      BY <2>2
    <3> DEFINE x == NewOrder("unused", "lines")
               y == [x EXCEPT !.status = "completed"]
    <3>2. y \in SalesOrder /\ y.status = "completed" /\ ~y.shippedAt /\ ~y.reopened /\ ~y.checked
      BY <1>2, StatusOfRecord DEF SoStatuses, ShippedFamily
    <3>3. so = [[p \in Orders |-> x] EXCEPT ![o] = y]
      BY <3>1 DEF Fresh
    <3> HIDE DEF x, y
    <3>4. OrderOK(y) /\ OrderOK(x)
      BY <1>3, <3>2 DEF OrderOK, x
    <3>5. so \in [Orders -> SalesOrder] /\ \A p \in Orders : so[p] \in {x, y}
      BY <1>2, <3>2, <3>3 DEF x
    <3> QED
      BY <1>2, <3>2, <3>4, <3>5 DEF OrdersOK, x
  <2> QED
    BY <2>1, <2>2 DEF Init
<1>5. GoodsOK
  <2>1. /\ NoGoods \in Goods /\ NoGoods.posted = 0 /\ NoGoods.costed = 0 /\ NoGoods.shipments = 0
        /\ ~NoGoods.everHeld /\ \A q \in Amounts : NoGoods.held[q] = 0
    BY DEF NoGoods, Goods
  <2>2. goods = [o \in Orders |-> NoGoods]
    BY DEF Init
  <2>3. goods \in [Orders -> Goods] /\ \A o \in Orders : IssueOK(so[o], goods[o])
    BY <2>1, <2>2 DEF IssueOK
  <2>4. \A o \in Orders : TakenOK(so[o], goods[o], Total(LinesOf(o)))
    BY <1>4 DEF TakenOK
  <2> QED
    BY <2>3, <2>4 DEF GoodsOK
<1>6. WorkOK
  <2>1. /\ FreeWorkOrder \in WorkOrder /\ RowOK(FreeWorkOrder) /\ ~Live(FreeWorkOrder)
        /\ FreeWorkOrder.line = NoLine
    BY <1>1 DEF FreeWorkOrder, NewWorkOrder, WorkOrder, WoStatuses, RowOK, Live
  <2>2. wo = [w \in WorkOrders |-> FreeWorkOrder]
    BY DEF Init
  <2> QED
    BY <2>1, <2>2, SalesAssumption DEF WorkOK, Linked, PairOK
<1>7. LinesOK
  <2>1. \A l \in Lines : /\ line[l] \in OrderLine /\ LineOK(line[l]) /\ line[l].alloc = 0
    <3>1. CASE line = [l \in Lines |-> FreeLine]
      BY <1>1, <3>1, NewLineOK
    <3>2. CASE \E o \in Orders, q \in Quantities :
                 line = [l \in Lines |-> IF l = LegacyLine THEN NewLine(o, q) ELSE FreeLine]
      <4>1. PICK o \in Orders, q \in Quantities :
              line = [l \in Lines |-> IF l = LegacyLine THEN NewLine(o, q) ELSE FreeLine]
        BY <3>2
      <4>2. q \in Amounts
        BY <1>1
      <4>3. \A l \in Lines : line[l] \in {NewLine(o, q), FreeLine}
        BY <4>1
      <4> QED
        BY <4>2, <4>3, NewLineOK
    <3> QED
      BY <3>1, <3>2 DEF Init
  <2>2. line \in [Lines -> OrderLine]
    <3>1. \E f : line = [l \in Lines |-> f[l]]
      <4>1. CASE line = [l \in Lines |-> FreeLine]
        BY <4>1
      <4>2. CASE \E o \in Orders, q \in Quantities :
                   line = [l \in Lines |-> IF l = LegacyLine THEN NewLine(o, q) ELSE FreeLine]
        BY <4>2
      <4> QED
        BY <4>1, <4>2 DEF Init
    <3> QED
      BY <2>1, <3>1
  <2>3. wo \in [WorkOrders -> WorkOrder]
    BY <1>6 DEF WorkOK
  <2>4. ASSUME NEW l \in Lines PROVE Made(l) \in Nat
    <3> DEFINE S == {w \in WorkOrders : wo[w].line = l}
    <3>1. S \in SUBSET WorkOrders /\ S \in SUBSET S
      OBVIOUS
    <3>2. Made(l) = SumFunctionOnSet([w \in WorkOrders |-> wo[w].done], S)
      BY DEF Made, Produced
    <3> HIDE DEF S
    <3> QED
      BY <2>3, <3>1, <3>2, ProducedIs
  <2>5. \A l \in Lines : line[l].alloc <= Made(l)
    BY <2>1, <2>4
  <2> QED
    BY <2>1, <2>2, <2>5 DEF LinesOK
<1>8. fg \in Int
  BY SalesAssumption DEF Init
<1> QED
  BY <1>4, <1>5, <1>6, <1>7, <1>8 DEF SalesInv

-----------------------------------------------------------------------------
(* Orders and lines.                                                       *)

(* An order that is entered was never shipped.                             *)
LEMMA NewOrderMove ==
  ASSUME SalesInv, NEW o \in Orders, so[o].status = "unused",
         NEW s \in {"pending", "pending_confirmation"}, NEW k \in Kinds,
         so' = [so EXCEPT ![o] = NewOrder(s, k)]
  PROVE  OrdersMove /\ MarksKept
<1>1. /\ NewOrder(s, k) \in SalesOrder
      /\ NewOrder(s, k).status = s /\ ~NewOrder(s, k).shippedAt /\ ~NewOrder(s, k).checked
  BY DEF NewOrder, SalesOrder, SoStatuses
<1>2. OrderOK(NewOrder(s, k)) /\ Keeps(so[o], NewOrder(s, k))
  BY <1>1 DEF OrderOK, Keeps
<1>3. ~so[o].shippedAt /\ ~so[o].reopened
  BY DEF SalesInv, OrdersOK, OrderOK
<1> QED
  BY <1>2, <1>3, OneOrder

(* A line that is new to its order, or to nobody.                          *)
LEMMA HandedLine ==
  ASSUME SalesInv, NEW l \in Lines,
         \/ line'[l] = FreeLine
         \/ \E o \in Orders, q \in Amounts : so[o].status = "unused" /\ line'[l] = NewLine(o, q),
         line[l].so \notin Orders \/ \A w \in WorkOrders : wo[w].line # l
  PROVE  line'[l] \in OrderLine /\ LineOK(line'[l]) /\ Handed(l) /\ line'[l].alloc <= line[l].alloc
<1>1. line[l].alloc \in Nat
  BY DEF SalesInv, LinesOK, OrderLine
<1>2. CASE line'[l] = FreeLine
  <2>1. NoOrder \in Orders \cup {NoOrder} /\ 0 \in Amounts
    BY SalesAssumption DEF Amounts
  <2> QED
    BY <1>1, <1>2, <2>1, NewLineOK, SalesAssumption DEF Handed
<1>3. ASSUME NEW o \in Orders, NEW q \in Amounts, so[o].status = "unused", line'[l] = NewLine(o, q)
      PROVE  line'[l] \in OrderLine /\ LineOK(line'[l]) /\ Handed(l) /\ line'[l].alloc <= line[l].alloc
  BY <1>1, <1>3, NewLineOK DEF Handed
<1> QED
  BY <1>2, <1>3

(* Orders that are entered take lines that belong to nobody.               *)
LEMMA EntryKeeps ==
  ASSUME SalesInv, NEW o \in Orders,
         \/ \E k \in {"lines", "header"}, ls \in SUBSET Lines :
              \E q \in [ls -> Quantities] : CreateOrder(o, k, ls, q)
         \/ \E l \in Lines, w \in WorkOrders, q \in Quantities : ConvertPortalQuote(o, l, w, q)
         \/ \E l \in Lines, q \in Quantities : PlaceExternalOrder(o, l, q)
  PROVE  SalesInv' /\ LinesFrozen
<1>1. \A q \in Quantities : q \in Amounts
  BY SalesAssumption DEF Quantities, Amounts
<1>2. line \in [Lines -> OrderLine] /\ \A l \in Lines : LineOK(line[l]) /\ line[l].alloc \in Nat
  BY DEF SalesInv, LinesOK, OrderLine
<1>3. ASSUME NEW S \in SUBSET Lines, so[o].status = "unused", \A l \in S : line[l].so = NoOrder,
             line' \in [Lines -> OrderLine],
             \A l \in Lines \ S : line'[l] = line[l],
             \A l \in S : \E q \in Amounts : line'[l] = NewLine(o, q)
      PROVE  LinesMove
  <2>1. ASSUME NEW l \in S
        PROVE  LineOK(line'[l]) /\ Handed(l) /\ line'[l].alloc <= line[l].alloc /\ line[l].so \notin Orders
    BY <1>3, HandedLine, SalesAssumption
  <2>2. \A l \in Lines : line[l].alloc <= line[l].alloc
    BY <1>2
  <2> QED
    BY <1>2, <1>3, <2>1, <2>2 DEF LinesMove
<1>4. ASSUME NEW k \in {"lines", "header"}, NEW ls \in SUBSET Lines, NEW q \in [ls -> Quantities],
             CreateOrder(o, k, ls, q)
      PROVE  SalesInv' /\ LinesFrozen
  <2>1. /\ so[o].status = "unused" /\ goods' = goods /\ wo' = wo /\ fg' = fg
        /\ \A l \in ls : line[l].so = NoOrder
        /\ so' = [so EXCEPT ![o] = NewOrder("pending", k)]
        /\ line' = [l \in Lines |-> IF l \in ls THEN NewLine(o, q[l]) ELSE line[l]]
    BY <1>4 DEF CreateOrder
  <2>2. OrdersMove /\ MarksKept
    BY <2>1, NewOrderMove DEF Kinds
  <2>3. \A l \in ls : q[l] \in Amounts /\ NewLine(o, q[l]) \in OrderLine
    BY <1>1, NewLineOK
  <2>4. line' \in [Lines -> OrderLine]
    BY <1>2, <2>1, <2>3
  <2>5. \A l \in ls : \E x \in Amounts : line'[l] = NewLine(o, x)
    BY <2>1, <2>3
  <2>6. LinesMove
    BY <1>3, <2>1, <2>4, <2>5
  <2> QED
    BY <2>1, <2>2, <2>6, SameGoods, SameWork, SameStock, MovesKeep
<1>5. ASSUME NEW l \in Lines, NEW q \in Quantities,
             \/ PlaceExternalOrder(o, l, q)
             \/ \E w \in WorkOrders : ConvertPortalQuote(o, l, w, q)
      PROVE  SalesInv' /\ LinesFrozen
  <2>1. PICK s \in {"pending", "pending_confirmation"}, k \in Kinds :
          so' = [so EXCEPT ![o] = NewOrder(s, k)]
    BY <1>5 DEF PlaceExternalOrder, ConvertPortalQuote, Kinds
  <2>2. /\ so[o].status = "unused" /\ goods' = goods /\ line[l].so = NoOrder /\ fg' = fg
        /\ line' = [line EXCEPT ![l] = NewLine(o, q)]
    BY <1>5 DEF PlaceExternalOrder, ConvertPortalQuote
  <2>3. q \in Amounts /\ NewLine(o, q) \in OrderLine
    BY <1>1, NewLineOK
  <2>4. LinesMove
    <3> DEFINE S == {l}
    <3>1. /\ S \in SUBSET Lines /\ line' \in [Lines -> OrderLine]
          /\ \A m \in Lines \ S : line'[m] = line[m]
      BY <1>2, <2>2, <2>3
    <3>2. \A m \in S : line[m].so = NoOrder
      BY <2>2
    <3>3. \A m \in S : \E x \in Amounts : line'[m] = NewLine(o, x)
      BY <1>2, <2>2, <2>3
    <3> HIDE DEF S
    <3> QED
      BY <1>3, <2>2, <3>1, <3>2, <3>3
  <2>5. WorkMove
    <3>1. CASE PlaceExternalOrder(o, l, q)
      BY <3>1, SameWork DEF PlaceExternalOrder
    <3>2. ASSUME NEW w \in WorkOrders, ConvertPortalQuote(o, l, w, q) PROVE WorkMove
      <4> DEFINE r == NewWorkOrder("released", o, NoLine, q, "sales_order")
      <4>1. wo[w].status = "unused" /\ wo' = [wo EXCEPT ![w] = r]
        BY <3>2 DEF ConvertPortalQuote
      <4>2. r \in WorkOrder /\ RowOK(r) /\ r.line = NoLine
        <5>1. "released" \in WoStatuses \ {"unused"} /\ "sales_order" \in {"sales_order", "other"}
          BY DEF WoStatuses
        <5>2. o \in Orders \cup {NoOrder} /\ NoLine \in Lines \cup {NoLine}
          OBVIOUS
        <5> QED
          BY <2>3, <5>1, <5>2 DEF NewWorkOrder, WorkOrder, RowOK
      <4> HIDE DEF r
      <4>3. wo'[w] = r
        BY <4>1 DEF SalesInv, WorkOK
      <4>4. Entered(w)
        BY <4>1, <4>2, <4>3, SalesAssumption DEF Entered, Linked
      <4> QED
        BY <4>1, <4>2, <4>4, OneRow
    <3> QED
      BY <1>5, <3>1, <3>2
  <2> QED
    BY <2>1, <2>2, <2>4, <2>5, NewOrderMove, SameGoods, SameStock, MovesKeep
<1> QED
  BY <1>4, <1>5

(* Work that is generated for the lines of an order: no work order for     *)
(* such a line lives, as those of the line belong to the order.            *)
LEMMA GeneratedWorkMove ==
  ASSUME SalesInv, NEW o \in Orders, GenerateWork(o)
  PROVE  WorkMove
<1> DEFINE U == Uncovered(o)
           Row(l) == NewWorkOrder("draft", o, l, line[l].qty, "sales_order")
<1>1. PICK f \in [U -> WorkOrders] :
        /\ FreshWork(f)
        /\ wo' = [w \in WorkOrders |-> IF \E l \in U : f[l] = w
                                         THEN Row(CHOOSE k \in U : f[k] = w) ELSE wo[w]]
  BY Zenon DEF GenerateWork
<1>2. line' = line
  BY DEF GenerateWork
<1>3. /\ line \in [Lines -> OrderLine] /\ wo \in [WorkOrders -> WorkOrder]
      /\ \A w \in WorkOrders : RowOK(wo[w]) /\ Linked(wo[w], line)
  BY DEF SalesInv, LinesOK, WorkOK
<1>4. \A l \in U : l \in Lines /\ line[l].so = o
  BY DEF Uncovered, LinesOf
<1>5. \A l \in U : /\ Row(l) \in WorkOrder /\ RowOK(Row(l))
                   /\ Row(l).so = o /\ Row(l).line = l
  <2> SUFFICES ASSUME NEW l \in U
               PROVE  /\ Row(l) \in WorkOrder /\ RowOK(Row(l))
                      /\ Row(l).so = o /\ Row(l).line = l
    OBVIOUS
  <2>1. line[l].qty \in Amounts /\ l \in Lines \cup {NoLine} /\ o \in Orders \cup {NoOrder}
    BY <1>3, <1>4 DEF OrderLine
  <2>2. "draft" \in WoStatuses \ {"unused"} /\ "sales_order" \in {"sales_order", "other"}
    BY DEF WoStatuses
  <2> QED
    BY <2>1, <2>2, NewRow
<1> HIDE DEF Row
<1>6. \A w \in WorkOrders : \/ wo'[w] = wo[w]
                            \/ \E l \in U : f[l] = w /\ wo'[w] = Row(l)
  BY <1>1
<1>7. wo' \in [WorkOrders -> WorkOrder]
  <2>1. \A w \in WorkOrders : wo'[w] \in WorkOrder
    BY <1>3, <1>5, <1>6
  <2>2. wo' = [w \in WorkOrders |-> wo'[w]]
    BY <1>1
  <2> HIDE DEF U
  <2> QED
    BY <2>1, <2>2
<1>8. ASSUME NEW l \in U, NEW v \in WorkOrders, wo[v].line = l PROVE ~Live(wo[v])
  <2>1. wo[v].so = o
    BY <1>3, <1>4, <1>8 DEF Linked
  <2>2. v \notin Covering(o)
    BY <1>8 DEF Uncovered
  <2> QED
    BY <2>1, <2>2 DEF Covering, WorkOf, Live
<1>9. ASSUME NEW w \in WorkOrders, NEW l \in U, f[l] = w, wo'[w] = Row(l) PROVE Entered(w)
  <2>1. wo[w].status = "unused"
    BY <1>1, <1>9 DEF FreshWork
  <2>2. Linked(wo'[w], line')
    BY <1>2, <1>4, <1>5, <1>9 DEF Linked
  <2>3. ASSUME NEW v \in WorkOrders \ {w}, wo'[v].line = l PROVE ~Live(wo'[v])
    <3>1. wo'[v] = wo[v]
      BY <1>5, <1>6, <1>9, <2>3
    <3> QED
      BY <1>8, <2>3, <3>1
  <2> QED
    BY <1>5, <1>9, <2>1, <2>2, <2>3 DEF Entered
<1>10. \A w \in WorkOrders : Carried(wo[w], wo[w])
  BY <1>3 DEF Carried, WorkOrder
<1>11. ASSUME NEW w \in WorkOrders
       PROVE  RowOK(wo'[w]) /\ (Carried(wo[w], wo'[w]) \/ Entered(w))
  BY <1>3, <1>5, <1>6, <1>9, <1>10
<1> QED
  BY <1>7, <1>11 DEF WorkMove

(* The handlers that set a status and leave the lines alone.               *)
LEMMA StatusKeeps ==
  ASSUME SalesInv, NEW o \in Orders,
         \/ ConfirmExternal(o)
         \/ RejectExternal(o)
         \/ \E s \in SoStatuses : UpdateStatus(o, s)
         \/ CancelOrder(o)
         \/ GenerateWork(o)
         \/ \E w \in WorkOrders : GenerateHeaderWork(o, w)
         \/ LegacyReopen(o)
  PROVE  SalesInv' /\ LinesFrozen
<1>1. goods' = goods /\ line' = line /\ fg' = fg
  BY DEF ConfirmExternal, RejectExternal, UpdateStatus, CancelOrder, GenerateWork,
         GenerateHeaderWork, LegacyReopen
<1>2. OrdersMove /\ MarksKept
  <2>1. ASSUME NEW s \in SoStatuses, UpdateStatus(o, s) PROVE OrdersMove /\ MarksKept
    <3>1. s # "unused" /\ (so[o].status \in ShippedFamily => s \in ShippedFamily)
      BY <2>1 DEF UpdateStatus, NextStatuses, ShippedFamily
    <3> QED
      BY <2>1, <3>1, StatusMove DEF UpdateStatus, SetSo
  <2>2. CASE LegacyReopen(o)
    <3>1. ~so[o].shippedAt /\ so' = [so EXCEPT ![o].status = "ready_to_ship"]
      BY <2>2 DEF LegacyReopen, Evidence, SetSo
    <3> QED
      BY <3>1, StatusMove DEF SoStatuses
  <2>3. CASE \/ ConfirmExternal(o) \/ RejectExternal(o) \/ CancelOrder(o) \/ GenerateWork(o)
             \/ \E w \in WorkOrders : GenerateHeaderWork(o, w)
    <3>1. PICK s \in {"confirmed", "cancelled", "in_production"} :
            so' = [so EXCEPT ![o].status = s]
      BY <2>3 DEF ConfirmExternal, RejectExternal, CancelOrder, GenerateWork, GenerateHeaderWork, SetSo
    <3>2. so[o].status \notin ShippedFamily
      BY <2>3 DEF ConfirmExternal, RejectExternal, CancelOrder, GenerateWork, GenerateHeaderWork,
                  ShippedFamily
    <3> QED
      BY <3>1, <3>2, StatusMove DEF SoStatuses
  <2> QED
    BY <2>1, <2>2, <2>3
<1>3. WorkMove
  <2>1. CASE GenerateWork(o)
    BY <2>1, GeneratedWorkMove
  <2>2. ASSUME NEW w \in WorkOrders, GenerateHeaderWork(o, w) PROVE WorkMove
    <3>1. PICK l \in Lines :
            wo' = [wo EXCEPT ![w] = NewWorkOrder("draft", o, NoLine, line[l].qty, "sales_order")]
      BY <2>2, Zenon DEF GenerateHeaderWork, LinesOf
    <3>2. line[l].qty \in Amounts
      BY DEF SalesInv, LinesOK, OrderLine
    <3> DEFINE r == NewWorkOrder("draft", o, NoLine, line[l].qty, "sales_order")
    <3>3. r \in WorkOrder /\ RowOK(r)
      <4>1. "draft" \in WoStatuses \ {"unused"} /\ "sales_order" \in {"sales_order", "other"}
        BY DEF WoStatuses
      <4>2. o \in Orders \cup {NoOrder} /\ NoLine \in Lines \cup {NoLine}
        OBVIOUS
      <4> QED
        BY <3>2, <4>1, <4>2, NewRow
    <3>4. wo[w].status = "unused" /\ wo'[w] = r
      BY <2>2, <3>1 DEF GenerateHeaderWork, SalesInv, WorkOK
    <3>5. Entered(w)
      BY <3>4, EnteredRow, SalesAssumption
    <3> HIDE DEF r
    <3> QED
      BY <3>1, <3>3, <3>5, OneRow DEF r
  <2>3. CASE \/ ConfirmExternal(o) \/ RejectExternal(o) \/ CancelOrder(o) \/ LegacyReopen(o)
             \/ \E s \in SoStatuses : UpdateStatus(o, s)
    <3>1. wo' = wo
      BY <2>3 DEF ConfirmExternal, RejectExternal, UpdateStatus, CancelOrder, LegacyReopen
    <3> QED
      BY <3>1, SameWork
  <2> QED
    BY <2>1, <2>2, <2>3
<1> QED
  BY <1>1, <1>2, <1>3, SameGoods, SameLines, SameStock, MovesKeep

(* Lines are edited and removed before the shipment only, and removed only *)
(* when no work order was made for them.                                   *)
LEMMA EditKeeps ==
  ASSUME SalesInv, NEW o \in Orders,
         \/ DeleteOrder(o)
         \/ \E l \in Lines, q \in Quantities : EditLine(o, l, q)
         \/ \E l \in Lines : RemoveLine(o, l)
  PROVE  SalesInv' /\ LinesFrozen
<1>1. \A q \in Quantities : q \in Amounts
  BY SalesAssumption DEF Amounts, Quantities
<1>2. /\ line \in [Lines -> OrderLine]
      /\ \A l \in Lines : LineOK(line[l]) /\ line[l] \in OrderLine /\ line[l].alloc \in Nat
  BY DEF SalesInv, LinesOK, OrderLine
<1>3. CASE DeleteOrder(o)
  <2>1. /\ so[o].status \in {"cancelled", "pending"}
        /\ so' = [so EXCEPT ![o].status = "deleted"] /\ goods' = goods /\ fg' = fg
        /\ \A w \in WorkOrders : wo[w].line \notin LinesOf(o)
        /\ line' = [l \in Lines |-> IF l \in LinesOf(o) THEN FreeLine ELSE line[l]]
        /\ wo' = [w \in WorkOrders |-> IF w \in WorkOf(o) THEN [wo[w] EXCEPT !.so = NoOrder] ELSE wo[w]]
    BY <1>3 DEF DeleteOrder, SetSo
  <2>2. so[o].status \notin ShippedFamily
    BY <2>1 DEF ShippedFamily
  <2>3. OrdersMove /\ MarksKept
    BY <2>1, <2>2, StatusMove DEF SoStatuses
  <2>4. ASSUME NEW l \in LinesOf(o)
        PROVE  /\ line'[l] \in OrderLine /\ LineOK(line'[l]) /\ Handed(l)
               /\ line'[l].alloc <= line[l].alloc /\ line[l].so = o
    <3>1. line'[l] = FreeLine /\ l \in Lines /\ line[l].so = o
      BY <2>1 DEF LinesOf
    <3>2. \A w \in WorkOrders : wo[w].line # l
      BY <2>1
    <3> QED
      BY <3>1, <3>2, HandedLine
  <2>5. LinesMove
    <3>1. \A l \in Lines : line'[l] = line[l] \/ l \in LinesOf(o)
      BY <2>1
    <3>2. \A l \in Lines : line'[l] \in OrderLine
      BY <1>2, <2>4, <3>1
    <3>3. line' \in [Lines -> OrderLine]
      BY <2>1, <3>2
    <3>4. \A l \in Lines : line[l].alloc <= line[l].alloc
      BY <1>2
    <3> QED
      BY <1>2, <2>2, <2>4, <3>1, <3>3, <3>4 DEF LinesMove
  <2>6. WorkMove
    <3>1. wo \in [WorkOrders -> WorkOrder] /\ \A w \in WorkOrders : RowOK(wo[w]) /\ Linked(wo[w], line)
      BY DEF SalesInv, WorkOK
    <3>2. ASSUME NEW w \in WorkOrders
          PROVE  wo'[w] \in WorkOrder /\ RowOK(wo'[w]) /\ Carried(wo[w], wo'[w])
      <4>1. wo[w] \in WorkOrder /\ wo[w].done \in Nat
        BY <3>1 DEF WorkOrder
      <4>2. CASE wo'[w] = wo[w]
        BY <3>1, <4>1, <4>2 DEF Carried
      <4>3. CASE wo[w].so = o /\ wo'[w] = [wo[w] EXCEPT !.so = NoOrder]
        <5> DEFINE r == wo[w]
                   t == [r EXCEPT !.so = NoOrder]
        <5>1. r \in WorkOrder
          BY <4>1
        <5>2. r.line \notin Lines
          BY <2>1, <3>1, <4>3 DEF Linked, LinesOf
        <5> HIDE DEF r
        <5>3. t \in WorkOrder /\ t.status = r.status /\ t.line = r.line /\ t.done = r.done /\ t.source = r.source
          BY <5>1 DEF WorkOrder
        <5>4. t.lowered = r.lowered
          BY <5>1 DEF WorkOrder
        <5>5. wo'[w] = t /\ r = wo[w] /\ RowOK(r) /\ r.done \in Nat
          BY <3>1, <4>1, <4>3 DEF r
        <5> HIDE DEF t
        <5>6. RowOK(t)
          BY <5>3, <5>4, <5>5 DEF RowOK
        <5>7. Carried(r, t)
          BY <5>2, <5>3, <5>4, <5>5 DEF Carried, Live
        <5> QED
          BY <5>3, <5>5, <5>6, <5>7
      <4> QED
        BY <2>1, <4>2, <4>3 DEF WorkOf
    <3>3. wo' \in [WorkOrders -> WorkOrder]
      BY <2>1, <3>2
    <3> QED
      BY <3>2, <3>3 DEF WorkMove
  <2> QED
    BY <2>1, <2>3, <2>5, <2>6, SameGoods, SameStock, MovesKeep
<1>4. ASSUME NEW l \in Lines, NEW q \in Quantities, EditLine(o, l, q)
      PROVE  SalesInv' /\ LinesFrozen
  <2> DEFINE r == [line[l] EXCEPT !.qty = q]
  <2>1. /\ so' = so /\ goods' = goods /\ wo' = wo /\ fg' = fg /\ line[l].so = o
        /\ so[o].status \notin ShippedFamily /\ q >= line[l].shipped
        /\ line' = [line EXCEPT ![l] = r]
    BY <1>4 DEF EditLine, Editable, LinesOf, ShippedFamily
  <2>2. LineOK(r) /\ r \in OrderLine /\ r.so = line[l].so /\ r.alloc = line[l].alloc
    BY <1>1, <1>2, <2>1, LineRecord
  <2>3. r.alloc <= line[l].alloc
    BY <1>2, <2>2
  <2> HIDE DEF r
  <2>4. LinesMove
    BY <2>1, <2>2, <2>3, OneLine
  <2> QED
    BY <2>1, <2>4, SameOrders, SameGoods, SameWork, SameStock, MovesKeep
<1>5. ASSUME NEW l \in Lines, RemoveLine(o, l) PROVE SalesInv' /\ LinesFrozen
  <2>1. /\ so' = so /\ goods' = goods /\ wo' = wo /\ fg' = fg /\ line[l].so = o
        /\ so[o].status \notin ShippedFamily
        /\ \A w \in WorkOrders : wo[w].line # l
        /\ line' = [line EXCEPT ![l] = FreeLine]
    BY <1>5 DEF RemoveLine, Editable, LinesOf, ShippedFamily
  <2>2. line'[l] = FreeLine
    BY <1>2, <2>1
  <2>3. FreeLine \in OrderLine /\ LineOK(FreeLine) /\ Handed(l) /\ FreeLine.alloc <= line[l].alloc
    BY <2>1, <2>2, HandedLine
  <2> HIDE DEF FreeLine
  <2>4. LinesMove
    BY <2>1, <2>3, OneLine
  <2> QED
    BY <2>1, <2>4, SameOrders, SameGoods, SameWork, SameStock, MovesKeep
<1> QED
  BY <1>3, <1>4, <1>5

(* A quantity that was computed to be achievable is not below the shipped. *)
LEMMA CloseShortKeeps ==
  ASSUME SalesInv, NEW o \in Orders, CloseShort(o)
  PROVE  SalesInv' /\ LinesFrozen
<1>1. PICK s \in RowOrders(LinesOf(o)), q \in [LinesOf(o) -> Amounts] :
        /\ \A l \in LinesOf(o) : q[l] = CloseShortQuantities(o, s)[l]
        /\ line' = [l \in Lines |-> IF l \in LinesOf(o) THEN [line[l] EXCEPT !.qty = q[l]]
                                    ELSE line[l]]
  BY Zenon DEF CloseShort
<1>2. \A l \in LinesOf(o) : \E b : CloseShortQuantities(o, s)[l] = Achievable(o, l, b)
  BY Zenon DEF CloseShortQuantities
<1>3. /\ line \in [Lines -> OrderLine]
      /\ \A l \in Lines : LineOK(line[l]) /\ line[l] \in OrderLine /\ line[l].shipped \in Int
                          /\ line[l].alloc \in Nat
  BY SalesAssumption DEF SalesInv, LinesOK, LineOK, OrderLine, Amounts
<1>4. ASSUME NEW l \in LinesOf(o)
      PROVE  q[l] \in Amounts /\ q[l] >= line[l].shipped
  <2>1. q[l] \in Amounts /\ q[l] \in Int /\ l \in Lines
    BY SalesAssumption DEF Amounts, LinesOf
  <2>2. \E a : q[l] = Most(a, line[l].shipped)
    BY <1>1, <1>2, Zenon DEF Achievable
  <2> QED
    BY <1>3, <2>1, <2>2 DEF Most
<1>5. /\ so[o].status \in {"confirmed", "in_production", "ready_to_ship"}
      /\ goods' = goods /\ wo' = wo /\ fg' = fg
  BY DEF CloseShort
<1>6. LinesMove
  <2>1. ASSUME NEW l \in LinesOf(o)
        PROVE  /\ LineOK(line'[l]) /\ line'[l] \in OrderLine
               /\ line'[l].so = line[l].so /\ line'[l].alloc = line[l].alloc /\ line[l].so = o
    <3> DEFINE r == [line[l] EXCEPT !.qty = q[l]]
    <3>1. LineOK(r) /\ r \in OrderLine /\ r.so = line[l].so /\ r.alloc = line[l].alloc
      BY <1>3, <1>4, LineRecord DEF LinesOf
    <3>2. line'[l] = r /\ line[l].so = o
      BY <1>1 DEF LinesOf
    <3> HIDE DEF r
    <3> QED
      BY <3>1, <3>2
  <2>2. \A l \in Lines : line'[l] = line[l] \/ l \in LinesOf(o)
    BY <1>1
  <2>3. \A l \in Lines : line'[l] \in OrderLine /\ LineOK(line'[l])
    BY <1>3, <2>1, <2>2
  <2>4. line' \in [Lines -> OrderLine]
    BY <1>1, <2>3
  <2>5. so[o].status \notin ShippedFamily
    BY <1>5 DEF ShippedFamily
  <2>6. \A l \in Lines : line'[l].alloc <= line[l].alloc /\ line'[l].so = line[l].so
    BY <1>3, <2>1, <2>2
  <2> QED
    BY <2>1, <2>2, <2>3, <2>4, <2>5, <2>6 DEF LinesMove
<1>7. OrdersMove /\ MarksKept
  <2> DEFINE x == [so[o] EXCEPT !.status = "ready_to_ship"]
             y == [x EXCEPT !.closedShort = TRUE]
  <2>1. so' = [so EXCEPT ![o] = y]
    BY DEF CloseShort, SalesInv, OrdersOK
  <2>2. OrderOK(so[o]) /\ so[o] \in SalesOrder
    BY DEF SalesInv, OrdersOK
  <2>3. /\ x \in SalesOrder /\ x.status = "ready_to_ship" /\ x.kind = so[o].kind
        /\ x.shippedAt = so[o].shippedAt /\ x.reopened = so[o].reopened /\ x.checked = so[o].checked
    BY <2>2, StatusOfRecord, Zenon DEF SoStatuses
  <2> HIDE DEF x
  <2>4. y \in SalesOrder /\ y.status = x.status /\ y.kind = x.kind
    BY <2>3 DEF SalesOrder
  <2>5. y.shippedAt = x.shippedAt
    BY <2>3 DEF SalesOrder
  <2>6. y.reopened = x.reopened
    BY <2>3 DEF SalesOrder
  <2>7. y.checked = x.checked
    BY <2>3 DEF SalesOrder
  <2> HIDE DEF y
  <2>8. so[o].status \notin ShippedFamily
    BY <1>5 DEF ShippedFamily
  <2>9. /\ so[o].shippedAt => so[o].reopened
        /\ so[o].reopened => y.reopened
        /\ (so[o].shippedAt <=> y.shippedAt)
        /\ (so[o].checked <=> y.checked)
    BY <2>2, <2>3, <2>5, <2>6, <2>7, <2>8 DEF OrderOK
  <2>10. OrderOK(y)
    BY <2>2, <2>3, <2>4, <2>9 DEF OrderOK
  <2>11. Keeps(so[o], y)
    BY <2>3, <2>4, <2>9 DEF Keeps
  <2> QED
    BY <2>1, <2>9, <2>10, <2>11, OneOrder
<1> QED
  BY <1>5, <1>6, <1>7, SameGoods, SameWork, SameStock, MovesKeep

-----------------------------------------------------------------------------
(* Work orders.                                                            *)

(* The row of a work order in use.                                         *)
LEMMA RowIs ==
  ASSUME SalesInv, NEW w \in WorkOrders
  PROVE  /\ wo \in [WorkOrders -> WorkOrder]
         /\ wo[w] \in WorkOrder /\ RowOK(wo[w]) /\ Linked(wo[w], line)
         /\ wo[w].done \in Nat /\ wo[w].qty \in Amounts /\ wo[w].qty \in Nat
         /\ wo[w].so \in Orders \cup {NoOrder} /\ wo[w].line \in Lines \cup {NoLine}
  BY SalesAssumption DEF SalesInv, WorkOK, WorkOrder, Amounts

(* A work order that gets a status.                                        *)
LEMMA RowStatusMove ==
  ASSUME SalesInv, NEW w \in WorkOrders, wo[w].status # "unused",
         NEW s \in WoStatuses \ {"unused"},
         \/ /\ wo' = [wo EXCEPT ![w].status = s]
            /\ s = "cancelled" \/ wo[w].status # "cancelled"
         \/ wo' = [wo EXCEPT ![w].status = s,
                             ![w].source = IF wo[w].status = "cancelled" THEN "revived" ELSE @]
  PROVE  WorkMove
<1>1. wo \in [WorkOrders -> WorkOrder] /\ wo[w] \in WorkOrder /\ RowOK(wo[w])
  BY RowIs
<1>2. CASE /\ wo' = [wo EXCEPT ![w].status = s]
           /\ s = "cancelled" \/ wo[w].status # "cancelled"
  <2> DEFINE t == [wo[w] EXCEPT !.status = s]
  <2>1. t \in WorkOrder /\ RowOK(t) /\ Carried(wo[w], t)
    BY <1>1, <1>2, RowStatus
  <2>2. wo' = [wo EXCEPT ![w] = t]
    BY <1>2
  <2> HIDE DEF t
  <2> QED
    BY <2>1, <2>2, OneRow
<1>3. CASE wo' = [wo EXCEPT ![w].status = s,
                            ![w].source = IF wo[w].status = "cancelled" THEN "revived" ELSE @]
  <2> DEFINE t == [wo[w] EXCEPT !.status = s,
                                !.source = IF wo[w].status = "cancelled" THEN "revived" ELSE @]
  <2>1. t \in WorkOrder /\ RowOK(t) /\ Carried(wo[w], t)
    BY <1>1, RowStatus
  <2>2. wo' = [wo EXCEPT ![w] = t]
    BY <1>1, <1>3
  <2> HIDE DEF t
  <2> QED
    BY <2>1, <2>2, OneRow
<1> QED
  BY <1>2, <1>3

(* Finished goods that are received.                                       *)
LEMMA ReceiveMove == ASSUME SalesInv, NEW q \in Nat, Receive(q) PROVE StockMove
  BY DEF SalesInv, Receive, StockMove

(* The sum that is allocated to a line is over work orders for it, with    *)
(* what the finished one has now.                                          *)
LEMMA SyncSum ==
  ASSUME SalesInv, NEW w \in WorkOrders, NEW r \in WorkOrder,
         wo' = [wo EXCEPT ![w] = r], NEW l, r.line = l, wo[w].line = l,
         NEW known \in SUBSET {v \in WorkOrders : wo[v].line = l}
  PROVE  LET a == Produced(known) + (IF w \in known THEN r.done - wo[w].done ELSE 0)
         IN  a \in Nat /\ a <= Made(l)'
<1> DEFINE F == [v \in WorkOrders |-> wo[v].done]
           G == [v \in WorkOrders |-> wo'[v].done]
           U == {v \in WorkOrders : wo'[v].line = l}
           a == Produced(known) + (IF w \in known THEN r.done - wo[w].done ELSE 0)
<1>1. wo \in [WorkOrders -> WorkOrder]
  BY RowIs
<1>2. wo' \in [WorkOrders -> WorkOrder] /\ wo'[w] = r /\ \A v \in WorkOrders \ {w} : wo'[v] = wo[v]
  BY <1>1
<1>3. U \in SUBSET WorkOrders /\ known \in SUBSET U /\ known \in SUBSET known
      /\ known \in SUBSET WorkOrders
  BY <1>2
<1>4. Made(l)' = SumFunctionOnSet(G, U) /\ Produced(known) = SumFunctionOnSet(F, known)
  BY DEF Made, Produced
<1>5. SumFunctionOnSet(G, known) <= SumFunctionOnSet(G, U)
  BY <1>2, <1>3, ProducedIs
<1>6. SumFunctionOnSet(G, known) \in Nat
  BY <1>2, <1>3, ProducedIs
<1>7. SumFunctionOnSet(F, known) \in Nat
  BY <1>1, <1>3, ProducedIs
<1>8. /\ \A v \in WorkOrders : F[v] \in Int /\ G[v] \in Int
      /\ \A v \in WorkOrders \ {w} : F[v] = G[v]
      /\ F[w] = wo[w].done /\ G[w] = r.done
  BY <1>1, <1>2 DEF WorkOrder
<1>9. IsFiniteSet(known)
  BY <1>3, SalesAssumption, FS_Subset
<1>10. a = Produced(known) + (IF w \in known THEN r.done - wo[w].done ELSE 0)
  OBVIOUS
<1> HIDE DEF F, G, U, a
<1>11. CASE w \in known
  <2>1. SumFunctionOnSet(G, known) = SumFunctionOnSet(F, known) - F[w] + G[w]
    <3>1. \A v \in known : F[v] \in Int /\ G[v] \in Int
      BY <1>3, <1>8
    <3>2. \A v \in known \ {w} : F[v] = G[v]
      BY <1>3, <1>8
    <3> QED
      BY <1>9, <1>11, <3>1, <3>2, SumUpdate
  <2>2. a = SumFunctionOnSet(G, known)
    BY <1>4, <1>7, <1>8, <1>10, <1>11, <2>1
  <2> QED
    BY <1>4, <1>5, <1>6, <2>2 DEF a
<1>12. CASE w \notin known
  <2>1. SumFunctionOnSet(F, known) = SumFunctionOnSet(G, known)
    <3>1. \A v \in known : F[v] = G[v]
      BY <1>3, <1>8, <1>12
    <3> QED
      BY <1>9, <3>1, SumSame
  <2>2. a = SumFunctionOnSet(G, known)
    BY <1>4, <1>7, <1>10, <1>12, <2>1
  <2> QED
    BY <1>4, <1>5, <1>6, <2>2 DEF a
<1> QED
  BY <1>11, <1>12

(* Production moves an order that has not been shipped, and of a line only *)
(* what is allocated to it.                                                *)
LEMMA SyncMoves ==
  ASSUME SalesInv, NEW w \in WorkOrders, NEW r \in WorkOrder, RowOK(r),
         Carried(wo[w], r), r.line = wo[w].line,
         NEW known \in SUBSET {v \in WorkOrders : wo[v].line = r.line},
         SyncSales(w, r, known)
  PROVE  OrdersMove /\ MarksKept /\ LinesMove /\ WorkMove
<1>1. wo' = [wo EXCEPT ![w] = r]
  BY Zenon DEF SyncSales
<1>2. WorkMove
  BY <1>1, OneRow
<1>3. LinesMove
  <2> DEFINE a == Produced(known) + (IF w \in known THEN r.done - wo[w].done ELSE 0)
             given == [line[r.line] EXCEPT !.alloc = a]
  <2>1. line' = line \/ (r.line \in Lines /\ line' = [line EXCEPT ![r.line] = given])
    BY Zenon DEF SyncSales
  <2>2. CASE line' = line
    BY <2>2, SameLines
  <2>3. CASE r.line \in Lines /\ line' = [line EXCEPT ![r.line] = given]
    <3>1. a \in Nat /\ a <= Made(r.line)'
      BY <1>1, SyncSum
    <3>2. line[r.line] \in OrderLine /\ LineOK(line[r.line])
      BY <2>3 DEF SalesInv, LinesOK
    <3> HIDE DEF a
    <3>3. /\ LineOK(given) /\ given \in OrderLine
          /\ given.so = line[r.line].so /\ given.qty = line[r.line].qty /\ given.alloc = a
      BY <3>1, <3>2, LineRecord
    <3> HIDE DEF given
    <3> QED
      BY <2>3, <3>1, <3>3, OneLine
  <2> QED
    BY <2>1, <2>2, <2>3
<1>4. \/ so' = so
      \/ /\ so[r.so].status \in {"pending", "confirmed", "in_production"}
         /\ so' = [so EXCEPT ![r.so].status = "ready_to_ship"]
  BY Zenon DEF SyncSales
<1>5. OrdersMove /\ MarksKept
  <2>1. CASE so' = so
    BY <2>1, SameOrders
  <2>2. CASE /\ so[r.so].status \in {"pending", "confirmed", "in_production"}
             /\ so' = [so EXCEPT ![r.so].status = "ready_to_ship"]
    <3>1. CASE r.so \in Orders
      BY <2>2, <3>1, StatusMove DEF SoStatuses, ShippedFamily
    <3>2. CASE r.so \notin Orders
      <4>1. so' = so
        BY <2>2, <3>2 DEF SalesInv, OrdersOK
      <4> QED
        BY <4>1, SameOrders
    <3> QED
      BY <3>1, <3>2
  <2> QED
    BY <1>4, <2>1, <2>2
<1> QED
  BY <1>2, <1>3, <1>5

(* A work order by hand, and the part that is split off.                   *)
LEMMA AddedWorkMove ==
  ASSUME SalesInv, NEW w \in WorkOrders, line' = line,
         \/ \E o \in Orders, l \in Lines \cup {NoLine}, q \in Quantities : AddWorkOrder(w, o, l, q)
         \/ \E v \in WorkOrders, q \in Quantities : SplitWork(w, v, q)
  PROVE  WorkMove
<1>1. \A q \in Quantities : q \in Amounts /\ q \in Nat
  BY SalesAssumption DEF Amounts, Quantities
<1>2. "draft" \in WoStatuses \ {"unused"} /\ "other" \in {"sales_order", "other"}
  BY DEF WoStatuses
<1>3. ASSUME NEW o \in Orders, NEW l \in Lines \cup {NoLine}, NEW q \in Quantities, AddWorkOrder(w, o, l, q)
      PROVE  WorkMove
  <2> DEFINE r == NewWorkOrder("draft", o, l, q, "other")
  <2>1. wo[w].status = "unused" /\ wo' = [wo EXCEPT ![w] = r] /\ (l \in Lines => line[l].so = o)
    BY <1>3, SalesAssumption DEF AddWorkOrder, LinesOf
  <2>2. r \in WorkOrder /\ RowOK(r)
    BY <1>1, <1>2, NewRow
  <2>3. wo'[w] = r
    BY <2>1, RowIs
  <2>4. Entered(w)
    BY <2>1, <2>3, EnteredRow
  <2> HIDE DEF r
  <2> QED
    BY <2>1, <2>2, <2>4, OneRow
<1>4. ASSUME NEW v \in WorkOrders, NEW q \in Quantities, SplitWork(w, v, q)
      PROVE  WorkMove
  <2> DEFINE t == NewWorkOrder("draft", wo[w].so, wo[w].line, q, "other")
             r == [wo[w] EXCEPT !.qty = wo[w].qty - q]
  <2>1. /\ wo[w].status \in {"draft", "released"} /\ q < wo[w].qty /\ wo[v].status = "unused"
        /\ wo' = [wo EXCEPT ![w].qty = @ - q, ![v] = t]
    BY <1>4 DEF SplitWork
  <2>2. wo[w] \in WorkOrder /\ RowOK(wo[w]) /\ Linked(wo[w], line) /\ wo[w].qty \in Amounts
        /\ wo[w].so \in Orders \cup {NoOrder} /\ wo[w].line \in Lines \cup {NoLine}
    BY RowIs
  <2>3. w # v /\ wo[w].qty - q \in Amounts
    BY <1>1, <2>1, <2>2, SalesAssumption DEF Amounts
  <2>4. r \in WorkOrder /\ RowOK(r) /\ Carried(wo[w], r)
    <3> DEFINE c == wo[w].qty - q
    <3>1. c \in Amounts /\ wo[w].status \notin {"unused", "cancelled"}
      BY <2>1, <2>3
    <3>2. r = [wo[w] EXCEPT !.qty = c]
      OBVIOUS
    <3> HIDE DEF c, r
    <3> QED
      BY <2>2, <3>1, <3>2, RowQuantity
  <2>5. t \in WorkOrder /\ RowOK(t)
    BY <1>1, <1>2, <2>2, NewRow
  <2>6. wo' \in [WorkOrders -> WorkOrder] /\ wo'[w] = r /\ wo'[v] = t
        /\ \A u \in WorkOrders \ {w, v} : wo'[u] = wo[u]
    <3>1. wo \in [WorkOrders -> WorkOrder]
      BY RowIs
    <3>2. wo' = [[wo EXCEPT ![w] = r] EXCEPT ![v] = t]
      BY <2>1, <3>1
    <3> HIDE DEF r, t
    <3> QED
      BY <2>3, <2>4, <2>5, <3>1, <3>2
  <2>7. Entered(v)
    <3>1. wo[w].line \in Lines => wo[w].so \in Orders /\ line'[wo[w].line].so = wo[w].so
      BY <2>2 DEF Linked
    <3> QED
      BY <2>1, <2>6, <3>1, EnteredRow
  <2> HIDE DEF r, t
  <2> QED
    BY <2>3, <2>4, <2>5, <2>6, <2>7, TwoRows
<1> QED
  BY <1>3, <1>4

(* Pieces that are reported are added to those before, or are the first.   *)
LEMMA FinishedMove ==
  ASSUME SalesInv, NEW w \in WorkOrders,
         \/ \E good \in Amounts : FinishOperations(w, good)
         \/ \E good \in Amounts : CompleteWork(w, good)
  PROVE  OrdersMove /\ MarksKept /\ LinesMove /\ WorkMove /\ StockMove
<1>1. \A q \in Amounts : q \in Nat
  BY SalesAssumption DEF Amounts
<1>2. wo \in [WorkOrders -> WorkOrder] /\ wo[w] \in WorkOrder /\ RowOK(wo[w])
      /\ wo[w].done \in Nat /\ wo[w].qty \in Nat
  BY RowIs
<1>3. ASSUME NEW good \in Amounts, FinishOperations(w, good)
      PROVE  OrdersMove /\ MarksKept /\ LinesMove /\ WorkMove /\ StockMove
  <2> DEFINE s == IF good < wo[w].qty THEN "short" ELSE "complete"
             low == wo[w].lowered \/ good < wo[w].done
             last == [wo[w] EXCEPT !.done = good, !.open = FALSE, !.status = s, !.lowered = low]
             ends == s = "complete" /\ ~wo[w].ended
             r == IF ends THEN Closed(last) ELSE last
             known == DoneForLine(r.line) \cup {w}
  <2>1. wo[w].status = "in_progress"
    BY <1>3 DEF FinishOperations
  <2>2. s \in WoStatuses \ {"unused"} /\ low \in BOOLEAN
        /\ (wo[w].lowered => low) /\ (~low => good >= wo[w].done)
    BY <1>1, <1>2 DEF WoStatuses
  <2>9. last.status = s
    BY <1>2 DEF WorkOrder
  <2>3. \/ Receive(r.qty) /\ SyncSales(w, r, known)
        \/ wo' = [wo EXCEPT ![w] = r] /\ so' = so /\ line' = line /\ fg' = fg
    BY <1>3, <2>9, Zenon DEF FinishOperations
  <2>5. r \in WorkOrder /\ RowOK(r) /\ r.line = wo[w].line /\ r.qty = wo[w].qty /\ Carried(wo[w], r)
    <3> HIDE DEF s, low
    <3>1. /\ last \in WorkOrder /\ last.done = good /\ last.qty = wo[w].qty /\ last.lowered = low
          /\ last.line = wo[w].line /\ last.so = wo[w].so /\ last.source = wo[w].source
      BY <1>1, <1>2, <2>2 DEF WorkOrder
    <3> HIDE DEF last
    <3>2. /\ r \in WorkOrder /\ r.done = good /\ r.qty = wo[w].qty /\ r.lowered = low
          /\ r.line = wo[w].line /\ r.so = wo[w].so /\ r.source = wo[w].source
          /\ r.status # "unused"
      BY <2>2, <2>9, <3>1, ClosedRow
    <3> HIDE DEF r
    <3> QED
      BY <1>1, <1>2, <2>1, <2>2, <3>2, ReportedRow
  <2>4. r.qty = wo[w].qty
    BY <2>5
  <2> HIDE DEF r
  <2>6. known \in SUBSET {v \in WorkOrders : wo[v].line = r.line}
    BY <2>5 DEF DoneForLine
  <2> HIDE DEF known
  <2>7. CASE Receive(r.qty) /\ SyncSales(w, r, known)
    BY <1>2, <2>4, <2>5, <2>6, <2>7, SyncMoves, ReceiveMove
  <2>8. CASE wo' = [wo EXCEPT ![w] = r] /\ so' = so /\ line' = line /\ fg' = fg
    BY <2>5, <2>8, OneRow, SameOrders, SameLines, SameStock
  <2> QED
    BY <2>3, <2>7, <2>8
<1>4. ASSUME NEW good \in Amounts, CompleteWork(w, good)
      PROVE  OrdersMove /\ MarksKept /\ LinesMove /\ WorkMove /\ StockMove
  <2> DEFINE d == wo[w].done + good
             c == Closed(wo[w])
             r == [c EXCEPT !.done = d]
             known == DoneForLine(r.line) \ {w}
  <2>1. /\ wo[w].status \in {"released", "in_progress"}
        /\ Receive(r.qty) /\ SyncSales(w, r, known)
    <3>1. c.done = wo[w].done
      BY <1>2, ClosedRow
    <3> QED
      BY <1>4, <3>1, Zenon DEF CompleteWork
  <2>2. d \in Nat /\ d >= wo[w].done
    BY <1>1, <1>2
  <2> HIDE DEF d
  <2>6. /\ r \in WorkOrder /\ r.status = "complete" /\ r.done = d /\ r.lowered = wo[w].lowered
        /\ r.line = wo[w].line /\ r.so = wo[w].so /\ r.source = wo[w].source /\ r.qty = wo[w].qty
    <3>1. /\ c \in WorkOrder /\ c.status = "complete" /\ c.lowered = wo[w].lowered
          /\ c.line = wo[w].line /\ c.so = wo[w].so /\ c.source = wo[w].source /\ c.qty = wo[w].qty
      BY <1>2, ClosedRow
    <3> HIDE DEF c
    <3> QED
      BY <2>2, <3>1 DEF WorkOrder
  <2>3. r.qty = wo[w].qty
    BY <2>6
  <2>4. r \in WorkOrder /\ RowOK(r) /\ r.line = wo[w].line /\ Carried(wo[w], r)
    <3> HIDE DEF r
    <3>2. wo[w].status \notin {"unused", "cancelled"}
      BY <2>1
    <3> QED
      BY <1>2, <2>2, <2>6, <3>2, ReportedRow
  <2> HIDE DEF r
  <2>5. known \in SUBSET {v \in WorkOrders : wo[v].line = r.line}
    BY DEF DoneForLine
  <2> HIDE DEF known
  <2> QED
    BY <1>2, <2>1, <2>3, <2>4, <2>5, SyncMoves, ReceiveMove
<1> QED
  BY <1>3, <1>4

(* A work order whose record is marked, and that lives no more than before. *)
LEMMA MarkedMove ==
  ASSUME SalesInv, NEW w \in WorkOrders, wo[w].status # "unused",
         \/ RequeueWork(w)
         \/ AcceptShort(w)
         \/ CloseScrapped(w)
         \/ LegacyPassQC(w)
  PROVE  WorkMove
<1>1. wo \in [WorkOrders -> WorkOrder] /\ wo[w] \in WorkOrder /\ RowOK(wo[w]) /\ wo[w].done \in Nat
  BY RowIs
<1>2. PICK r \in WorkOrder :
        /\ wo' = [wo EXCEPT ![w] = r] /\ r.status # "unused"
        /\ wo[w].status = "cancelled" => r.status = "cancelled"
        /\ r.done = wo[w].done /\ r.lowered = wo[w].lowered
        /\ r.line = wo[w].line /\ r.so = wo[w].so /\ r.source = wo[w].source
  <2>1. CASE RequeueWork(w)
    <3> DEFINE r == [wo[w] EXCEPT !.open = TRUE]
    <3>1. wo' = [wo EXCEPT ![w] = r]
      BY <2>1 DEF RequeueWork
    <3>2. /\ r \in WorkOrder /\ r.status = wo[w].status
          /\ r.done = wo[w].done /\ r.lowered = wo[w].lowered
          /\ r.line = wo[w].line /\ r.so = wo[w].so /\ r.source = wo[w].source
      BY <1>1 DEF WorkOrder
    <3> HIDE DEF r
    <3> QED
      BY <3>1, <3>2
  <2>2. CASE AcceptShort(w)
    <3> DEFINE r == Closed(wo[w])
    <3>1. wo' = [wo EXCEPT ![w] = r] /\ wo[w].status = "short"
      BY <2>2 DEF AcceptShort
    <3>2. /\ r \in WorkOrder /\ r.status = "complete"
          /\ r.done = wo[w].done /\ r.lowered = wo[w].lowered
          /\ r.line = wo[w].line /\ r.so = wo[w].so /\ r.source = wo[w].source
      BY <1>1, ClosedRow
    <3> HIDE DEF r
    <3> QED
      BY <3>1, <3>2
  <2>3. CASE CloseScrapped(w)
    <3> DEFINE r == [wo[w] EXCEPT !.status = "scrapped", !.ended = TRUE]
    <3>1. wo' = [wo EXCEPT ![w] = r] /\ wo[w].status = "short"
      BY <1>1, <2>3 DEF CloseScrapped
    <3>2. /\ r \in WorkOrder /\ r.status = "scrapped"
          /\ r.done = wo[w].done /\ r.lowered = wo[w].lowered
          /\ r.line = wo[w].line /\ r.so = wo[w].so /\ r.source = wo[w].source
      BY <1>1 DEF WorkOrder, WoStatuses
    <3> HIDE DEF r
    <3> QED
      BY <3>1, <3>2
  <2>4. CASE LegacyPassQC(w)
    <3> DEFINE r == [wo[w] EXCEPT !.status = "completed", !.received = TRUE]
    <3>1. wo' = [wo EXCEPT ![w] = r] /\ wo[w].status = "printed"
      BY <1>1, <2>4 DEF LegacyPassQC
    <3>2. /\ r \in WorkOrder /\ r.status = "completed"
          /\ r.done = wo[w].done /\ r.lowered = wo[w].lowered
          /\ r.line = wo[w].line /\ r.so = wo[w].so /\ r.source = wo[w].source
      BY <1>1 DEF WorkOrder, WoStatuses
    <3> HIDE DEF r
    <3> QED
      BY <3>1, <3>2
  <2> QED
    BY <2>1, <2>2, <2>3, <2>4
<1>3. RowOK(r) /\ Carried(wo[w], r)
  BY <1>1, <1>2, ReportedRow
<1> QED
  BY <1>2, <1>3, OneRow

(* Work orders reach a sales order through the sync alone.                 *)
LEMMA ProductionKeeps ==
  ASSUME SalesInv, NEW w \in WorkOrders,
         \/ \E o \in Orders, l \in Lines \cup {NoLine}, q \in Quantities : AddWorkOrder(w, o, l, q)
         \/ ReleaseWork(w)
         \/ \E v \in WorkOrders, q \in Quantities : SplitWork(w, v, q)
         \/ RequeueWork(w)
         \/ StartWork(w)
         \/ HoldWork(w)
         \/ CancelWork(w)
         \/ \E good \in Amounts : FinishOperations(w, good)
         \/ \E good \in Amounts : CompleteWork(w, good)
         \/ AcceptShort(w)
         \/ CloseScrapped(w)
         \/ FailInspection(w)
         \/ PassInspection(w)
  PROVE  SalesInv' /\ LinesFrozen
<1>1. wo \in [WorkOrders -> WorkOrder] /\ wo[w] \in WorkOrder /\ RowOK(wo[w]) /\ wo[w].done \in Nat
  BY RowIs
<1>2. CASE /\ so' = so /\ line' = line /\ goods' = goods
           /\ WorkMove /\ StockMove
  BY <1>2, SameOrders, SameGoods, SameLines, MovesKeep
<1>3. CASE \/ \E o \in Orders, l \in Lines \cup {NoLine}, q \in Quantities : AddWorkOrder(w, o, l, q)
           \/ \E v \in WorkOrders, q \in Quantities : SplitWork(w, v, q)
  <2>1. so' = so /\ line' = line /\ goods' = goods /\ fg' = fg
    BY <1>3 DEF AddWorkOrder, SplitWork
  <2> QED
    BY <1>2, <1>3, <2>1, AddedWorkMove, SameStock
<1>4. CASE ReleaseWork(w) \/ HoldWork(w) \/ CancelWork(w) \/ FailInspection(w)
  <2>1. PICK s \in WoStatuses \ {"unused"} :
          /\ wo' = [wo EXCEPT ![w].status = s] /\ wo[w].status # "unused"
          /\ s = "cancelled" \/ wo[w].status # "cancelled"
    <3>1. /\ "released" \in WoStatuses \ {"unused"} /\ "cancelled" \in WoStatuses \ {"unused"}
          /\ "qc_hold" \in WoStatuses \ {"unused"}
      BY DEF WoStatuses
    <3>2. CASE ReleaseWork(w)
      BY <3>1, <3>2 DEF ReleaseWork
    <3>3. CASE CancelWork(w)
      BY <3>1, <3>3 DEF CancelWork
    <3>4. CASE HoldWork(w)
      BY <3>1, <3>4 DEF HoldWork
    <3>6. CASE FailInspection(w)
      BY <3>1, <3>6 DEF FailInspection, DoneWo
    <3> QED
      BY <1>4, <3>2, <3>3, <3>4, <3>6
  <2>2. WorkMove
    BY <2>1, RowStatusMove
  <2>3. so' = so /\ line' = line /\ goods' = goods /\ fg' = fg
    BY <1>4 DEF ReleaseWork, HoldWork, CancelWork, FailInspection
  <2> QED
    BY <1>2, <2>2, <2>3, SameStock
<1>8. CASE RequeueWork(w) \/ AcceptShort(w) \/ CloseScrapped(w)
  <2>1. wo[w].status # "unused" /\ so' = so /\ line' = line /\ goods' = goods
        /\ (fg' = fg \/ Receive(wo[w].done))
    BY <1>8 DEF RequeueWork, AcceptShort, CloseScrapped
  <2>2. WorkMove
    BY <1>8, <2>1, MarkedMove
  <2>3. StockMove
    BY <1>1, <2>1, SameStock, ReceiveMove
  <2> QED
    BY <1>2, <2>1, <2>2, <2>3
<1>5. CASE StartWork(w)
  <2>1. /\ so' = so /\ line' = line /\ goods' = goods /\ fg' = fg /\ wo[w].status # "unused"
        /\ wo' = [wo EXCEPT ![w].status = "in_progress",
                            ![w].source = IF wo[w].status = "cancelled" THEN "revived" ELSE @]
    BY <1>5 DEF StartWork
  <2>2. "in_progress" \in WoStatuses \ {"unused"}
    BY DEF WoStatuses
  <2>3. WorkMove
    BY <2>1, <2>2, RowStatusMove
  <2> QED
    BY <1>2, <2>1, <2>3, SameStock
<1>6. CASE \E good \in Amounts : FinishOperations(w, good) \/ CompleteWork(w, good)
  <2>1. goods' = goods
    BY <1>6, Zenon DEF FinishOperations, CompleteWork
  <2>2. OrdersMove /\ MarksKept /\ LinesMove /\ WorkMove /\ StockMove
    BY <1>6, FinishedMove
  <2> QED
    BY <2>1, <2>2, SameGoods, MovesKeep
<1>7. CASE PassInspection(w)
  <2> DEFINE r == [wo[w] EXCEPT !.status = "complete"]
             known == DoneForLine(wo[w].line)
  <2>1. wo[w].status = "qc_hold" /\ goods' = goods /\ fg' = fg /\ SyncSales(w, r, known)
    BY <1>7 DEF PassInspection
  <2>2. "complete" \in WoStatuses \ {"unused"} /\ wo[w].status # "unused" /\ wo[w].status # "cancelled"
    BY <2>1 DEF WoStatuses
  <2>3. r \in WorkOrder /\ RowOK(r) /\ r.line = wo[w].line /\ Carried(wo[w], r)
    BY <1>1, <2>2, RowStatus
  <2> HIDE DEF r
  <2>4. known \in SUBSET {v \in WorkOrders : wo[v].line = r.line}
    BY <2>3 DEF DoneForLine
  <2> HIDE DEF known
  <2>5. OrdersMove /\ MarksKept /\ LinesMove /\ WorkMove
    BY <2>1, <2>3, <2>4, SyncMoves
  <2> QED
    BY <2>1, <2>5, SameGoods, SameStock, MovesKeep
<1> QED
  BY <1>3, <1>4, <1>5, <1>6, <1>7, <1>8

(* The status the legacy queue sets, whatever the order's status was.      *)
LEMMA PassedOrder ==
  ASSUME SalesInv, NEW w \in WorkOrders, LegacyPassQC(w)
  PROVE  OrdersMove /\ MarksKept
<1>1. PICK o : so' = IF o = NoOrder THEN so
                     ELSE [so EXCEPT ![o].status = "ready_to_ship",
                                     ![o].reopened = @ \/ so[o].status \in ShippedFamily]
  BY Zenon DEF LegacyPassQC
<1>2. CASE o \notin Orders
  <2>1. so' = so
    BY <1>1, <1>2 DEF SalesInv, OrdersOK
  <2> QED
    BY <2>1, SameOrders
<1>3. CASE o \in Orders
  <2> DEFINE x == [so[o] EXCEPT !.status = "ready_to_ship"]
             y == [x EXCEPT !.reopened = @ \/ so[o].status \in ShippedFamily]
  <2>1. so' = [so EXCEPT ![o] = y]
    BY <1>1, <1>3, SalesAssumption DEF SalesInv, OrdersOK
  <2>2. OrderOK(so[o]) /\ so[o] \in SalesOrder
    BY <1>3 DEF SalesInv, OrdersOK
  <2>3. /\ x \in SalesOrder /\ x.status = "ready_to_ship" /\ x.kind = so[o].kind
        /\ x.shippedAt = so[o].shippedAt /\ x.reopened = so[o].reopened /\ x.checked = so[o].checked
    BY <2>2, StatusOfRecord, Zenon DEF SoStatuses
  <2> HIDE DEF x
  <2>4. y \in SalesOrder /\ y.status = x.status /\ y.kind = x.kind
    BY <2>3 DEF SalesOrder
  <2>5. y.shippedAt = x.shippedAt
    BY <2>3 DEF SalesOrder
  <2>6. y.reopened <=> (x.reopened \/ so[o].status \in ShippedFamily)
    BY <2>3 DEF SalesOrder
  <2>7. y.checked = x.checked
    BY <2>3 DEF SalesOrder
  <2> HIDE DEF y
  <2>8. /\ (so[o].shippedAt <=> y.shippedAt) /\ (so[o].reopened => y.reopened)
        /\ (so[o].status \in ShippedFamily => y.reopened)
        /\ (so[o].checked <=> y.checked)
    BY <2>3, <2>5, <2>6, <2>7, Zenon
  <2>9. OrderOK(y)
    BY <2>2, <2>3, <2>4, <2>8 DEF OrderOK
  <2>10. Keeps(so[o], y)
    BY <2>3, <2>4, <2>8 DEF Keeps
  <2> QED
    BY <2>1, <2>8, <2>9, <2>10, OneOrder
<1> QED
  BY <1>2, <1>3

(* Printed work that failed, and the work order that replaces it.          *)
LEMMA FailedWorkMove ==
  ASSUME SalesInv, NEW w \in WorkOrders, LegacyFailQC(w)
  PROVE  WorkMove /\ StockMove
<1>1. /\ wo \in [WorkOrders -> WorkOrder] /\ wo[w] \in WorkOrder /\ RowOK(wo[w])
      /\ wo[w].qty \in Amounts /\ wo[w].qty \in Nat
  BY RowIs
<1>2. wo[w].status = "printed" /\ fg' = fg - wo[w].qty
  BY DEF LegacyFailQC
<1>3. StockMove
  BY <1>1, <1>2 DEF SalesInv, StockMove
<1>4. "qc_failed" \in WoStatuses \ {"unused"} /\ "released" \in WoStatuses \ {"unused"}
      /\ "other" \in {"sales_order", "other"} /\ "qc_failed" # "unused"
  BY DEF WoStatuses
<1>5. CASE wo' = [wo EXCEPT ![w].status = "qc_failed"]
  <2>1. WorkMove
    BY <1>2, <1>4, <1>5, RowStatusMove
  <2> QED
    BY <1>3, <2>1
<1>6. ASSUME NEW v \in WorkOrders, wo[v].status = "unused",
             wo' = [wo EXCEPT ![w].status = "qc_failed",
                      ![v] = NewWorkOrder("released", NoOrder, NoLine, wo[w].qty, "other")]
      PROVE  WorkMove
  <2> DEFINE t == NewWorkOrder("released", NoOrder, NoLine, wo[w].qty, "other")
             r == [wo[w] EXCEPT !.status = "qc_failed"]
  <2>1. r \in WorkOrder /\ RowOK(r) /\ Carried(wo[w], r)
    BY <1>1, <1>2, <1>4, RowStatus
  <2>2. NoOrder \in Orders \cup {NoOrder} /\ NoLine \in Lines \cup {NoLine}
    OBVIOUS
  <2>3. t \in WorkOrder /\ RowOK(t)
    BY <1>1, <1>4, <2>2, NewRow
  <2>4. w # v
    BY <1>2, <1>6
  <2>5. wo' \in [WorkOrders -> WorkOrder] /\ wo'[w] = r /\ wo'[v] = t
        /\ \A u \in WorkOrders \ {w, v} : wo'[u] = wo[u]
    <3>1. wo' = [[wo EXCEPT ![w] = r] EXCEPT ![v] = t]
      BY <1>1, <1>6
    <3> HIDE DEF r, t
    <3> QED
      BY <1>1, <2>1, <2>3, <2>4, <3>1
  <2>6. Entered(v)
    BY <1>6, <2>5, EnteredRow, SalesAssumption
  <2> HIDE DEF r, t
  <2> QED
    BY <2>1, <2>3, <2>4, <2>5, <2>6, TwoRows
<1> QED
  BY <1>3, <1>5, <1>6 DEF LegacyFailQC

(* The legacy queue may move a shipped order, and then marks it.           *)
LEMMA LegacyQueueKeeps ==
  ASSUME SalesInv, NEW w \in WorkOrders, LegacyQueue(w)
  PROVE  SalesInv' /\ LinesFrozen
<1>1. wo[w].qty \in Nat
  BY RowIs
<1>2. CASE LegacyPassQC(w)
  <2>1. line' = line /\ goods' = goods /\ wo[w].status = "printed" /\ Receive(wo[w].qty)
    BY <1>2 DEF LegacyPassQC
  <2>3. WorkMove
    BY <1>2, <2>1, MarkedMove
  <2>4. StockMove
    BY <1>1, <2>1, ReceiveMove
  <2> QED
    BY <1>2, <2>1, <2>3, <2>4, PassedOrder, SameGoods, SameLines, MovesKeep
<1>3. CASE LegacyStart(w)
  <2>1. PICK o : so' = IF o # NoOrder /\ so[o].status = "confirmed"
                       THEN [so EXCEPT ![o].status = "in_production"] ELSE so
    BY <1>3, Zenon DEF LegacyStart
  <2>2. OrdersMove /\ MarksKept
    <3>1. CASE so' = so
      BY <3>1, SameOrders
    <3>2. CASE o \in Orders /\ so[o].status = "confirmed" /\ so' = [so EXCEPT ![o].status = "in_production"]
      BY <3>2, StatusMove DEF SoStatuses, ShippedFamily
    <3>3. CASE o \notin Orders
      <4>1. so' = so
        BY <2>1, <3>3 DEF SalesInv, OrdersOK
      <4> QED
        BY <3>1, <4>1
    <3> QED
      BY <2>1, <3>1, <3>2, <3>3
  <2>3. /\ line' = line /\ goods' = goods /\ fg' = fg /\ wo[w].status \in {"draft", "released"}
        /\ wo' = [wo EXCEPT ![w].status = "in_progress"]
    BY <1>3 DEF LegacyStart
  <2>4. "in_progress" \in WoStatuses \ {"unused"} /\ wo[w].status # "unused" /\ wo[w].status # "cancelled"
    BY <2>3 DEF WoStatuses
  <2>5. WorkMove
    BY <2>3, <2>4, RowStatusMove
  <2> QED
    BY <2>2, <2>3, <2>5, SameGoods, SameLines, SameStock, MovesKeep
<1>4. CASE \/ LegacyCompletePrint(w)
           \/ \E s \in {"released", "in_progress", "printed", "completed", "cancelled"} :
                LegacyBulkUpdate(w, s)
  <2>1. so' = so /\ line' = line /\ goods' = goods /\ fg' = fg
    BY <1>4 DEF LegacyCompletePrint, LegacyBulkUpdate
  <2>2. WorkMove
    <3>1. CASE LegacyCompletePrint(w)
      <4>1. wo[w].status = "in_progress" /\ wo' = [wo EXCEPT ![w].status = "printed"]
        BY <3>1 DEF LegacyCompletePrint
      <4>2. "printed" \in WoStatuses \ {"unused"} /\ wo[w].status # "unused" /\ wo[w].status # "cancelled"
        BY <4>1 DEF WoStatuses
      <4> QED
        BY <4>1, <4>2, RowStatusMove
    <3>2. ASSUME NEW s \in {"released", "in_progress", "printed", "completed", "cancelled"},
                 LegacyBulkUpdate(w, s)
          PROVE  WorkMove
      <4>1. s \in WoStatuses \ {"unused"}
        BY DEF WoStatuses
      <4> QED
        BY <3>2, <4>1, RowStatusMove DEF LegacyBulkUpdate
    <3> QED
      BY <1>4, <3>1, <3>2
  <2> QED
    BY <2>1, <2>2, SameOrders, SameGoods, SameLines, SameStock, MovesKeep
<1>5. CASE LegacyFailQC(w)
  <2>1. so' = so /\ line' = line /\ goods' = goods
    BY <1>5 DEF LegacyFailQC
  <2> QED
    BY <1>5, <2>1, FailedWorkMove, SameOrders, SameGoods, SameLines, MovesKeep
<1> QED
  BY <1>2, <1>3, <1>4, <1>5 DEF LegacyQueue

-----------------------------------------------------------------------------
(* Shipping.                                                               *)

(* The record of an order that was shipped just now.                       *)
LEMMA ShippedOK ==
  ASSUME SalesInv, NEW o \in Orders, NEW c \in BOOLEAN
  PROVE  /\ OrderOK(Shipped(o, c)) /\ Shipped(o, c).shippedAt
         /\ so[o].reopened => Shipped(o, c).reopened
         /\ Shipped(o, c).checked <=> c
<1> DEFINE x == so[o]
           y == [[[x EXCEPT !.status = "shipped"] EXCEPT !.shippedAt = TRUE] EXCEPT !.checked = c]
<1>1. x \in SalesOrder
  BY DEF SalesInv, OrdersOK
<1>2. Shipped(o, c) = y
  BY <1>1 DEF Shipped, SalesOrder
<1> HIDE DEF x
<1>3. y \in SalesOrder
  BY <1>1 DEF SalesOrder, SoStatuses, ShippedFamily
<1>4. y.status = "shipped" /\ y.shippedAt
  BY <1>1 DEF SalesOrder
<1>5. y.reopened = x.reopened
  BY <1>1 DEF SalesOrder
<1>6. y.checked = c
  BY <1>1 DEF SalesOrder
<1> HIDE DEF y
<1>7. OrderOK(y)
  BY <1>3, <1>4 DEF OrderOK, ShippedFamily
<1>8. x.reopened => y.reopened
  BY <1>5, Zenon
<1>9. y.checked <=> c
  BY <1>6, Zenon
<1> QED
  BY <1>2, <1>4, <1>7, <1>8, <1>9 DEF x

(* A shipment marks its order, and no other.                               *)
LEMMA ShippedMove ==
  ASSUME SalesInv, NEW o \in Orders, NEW c \in BOOLEAN,
         so' = [so EXCEPT ![o] = Shipped(o, c)]
  PROVE  /\ OrdersMove /\ so'[o] = Shipped(o, c)
         /\ \A p \in Orders \ {o} : so'[p] = so[p]
<1>1. /\ OrderOK(Shipped(o, c)) /\ Shipped(o, c).shippedAt
      /\ so[o].reopened => Shipped(o, c).reopened
  BY ShippedOK
<1>2. OrdersMove
  BY <1>1, OneOrderMoves
<1> QED
  BY <1>2 DEF SalesInv, OrdersOK

(* The goods of one order are taken or held.                               *)
LEMMA TakenMove ==
  ASSUME SalesInv, NEW o \in Orders, NEW c \in BOOLEAN,
         NEW take \in SUBSET Lines, NEW hold \in SUBSET Lines,
         so' = [so EXCEPT ![o] = Shipped(o, c)],
         goods' = [goods EXCEPT ![o] = Shipment(goods[o], take, hold)],
         so[o].status \notin ShippedFamily \/ ~AlreadyShipped(o),
         c => /\ so[o].status \notin ShippedFamily /\ hold = {}
              /\ so[o].kind # "portal" => Total(take) = Total(LinesOf(o))'
  PROVE  GoodsMove
<1>1. so'[o] = Shipped(o, c) /\ \A p \in Orders \ {o} : so'[p] = so[p]
  BY ShippedMove
<1>2. goods \in [Orders -> Goods]
  BY DEF SalesInv, GoodsOK
<1>3. Shipment(goods[o], take, hold) \in Goods
  BY <1>2, ShipmentIs DEF SalesInv
<1>4. /\ goods' \in [Orders -> Goods] /\ goods'[o] = Shipment(goods[o], take, hold)
      /\ \A p \in Orders \ {o} : goods'[p] = goods[p]
  BY <1>2, <1>3
<1>5. Issued(o)
  BY <1>1, <1>4 DEF Issued
<1>6. \A p \in Orders \ {o} : goods'[p] = goods[p] /\ Keeps(so[p], so'[p])
  BY <1>1, <1>4 DEF Keeps
<1> QED
  BY <1>4, <1>5, <1>6 DEF GoodsMove

(* ship_order ships from ready_to_ship only, and as it compared the sum    *)
(* with the stock no item is left for an approval.                         *)
LEMMA ShipOrderKeeps ==
  ASSUME SalesInv, NEW o \in Orders, ShipOrder(o)
  PROVE  SalesInv' /\ LinesFrozen
<1> DEFINE items == IssuedItems(o)
<1>1. PICK take \in SUBSET items :
        /\ \A l \in items \ take : fg - Total(take) < line[l].qty
        /\ take # {} => Total(take) <= fg
        /\ fg' = fg - Total(take)
        /\ goods' = [goods EXCEPT ![o] = Shipment(goods[o], take, items \ take)]
        /\ line' = [l \in Lines |-> IF l \in take /\ so[o].kind = "lines"
                                      THEN [line[l] EXCEPT !.shipped = line[l].qty] ELSE line[l]]
  BY Zenon DEF ShipOrder
<1>2. so[o].status \notin ShippedFamily /\ so' = [so EXCEPT ![o] = Shipped(o, TRUE)] /\ wo' = wo
      /\ Available(o)
  BY DEF ShipOrder, ShippedFamily
<1>3. OrdersMove
  BY <1>2, ShippedMove
<1>4. items \in SUBSET Lines /\ (so[o].kind # "portal" => items = LinesOf(o))
  BY DEF IssuedItems, LinesOf
<1>5. items # {} => Total(items) <= fg
  BY <1>2 DEF Available
<1> HIDE DEF items
<1>6. LinesOK /\ fg \in Int
  BY DEF SalesInv
<1>7. items \ take = {}
  <2> SUFFICES ASSUME NEW l \in items \ take PROVE FALSE
    OBVIOUS
  <2>1. Total(items) = Total(take) + Total(items \ take) /\ Total(items) \in Nat
    BY <1>4, <1>6, TotalIs
  <2>2. take \in SUBSET Lines /\ items \ take \in SUBSET Lines
    BY <1>4
  <2>3. Total(take) \in Nat /\ Total(items \ take) \in Nat /\ line[l].qty <= Total(items \ take)
    BY <1>6, <2>2, TotalIs
  <2>4. line[l].qty \in Int
    BY <1>6, <2>2, SalesAssumption DEF LinesOK, OrderLine, Amounts
  <2>5. fg - Total(take) < line[l].qty /\ Total(items) <= fg
    BY <1>1, <1>5
  <2> QED
    BY <1>6, <2>1, <2>3, <2>4, <2>5
<1>8. take = items
  BY <1>7
<1>9. line' = [l \in Lines |-> IF l \in {k \in take : so[o].kind = "lines"}
                                 THEN [line[l] EXCEPT !.shipped = line[l].qty] ELSE line[l]]
  BY <1>1
<1>10. LinesMove /\ \A l \in Lines : line'[l].so = line[l].so /\ line'[l].qty = line[l].qty
  BY <1>9, FullLinesMove
<1>11. Total(LinesOf(o))' = Total(LinesOf(o))
  <2> DEFINE F == [l \in Lines |-> line[l].qty]
             G == [l \in Lines |-> line'[l].qty]
             S == {l \in Lines : line[l].so = o}
             U == {l \in Lines : line'[l].so = o}
  <2>1. F = G
    BY <1>10, Zenon
  <2>2. S = U
    BY <1>10
  <2>3. Total(LinesOf(o)) = SumFunctionOnSet(F, S) /\ Total(LinesOf(o))' = SumFunctionOnSet(G, U)
    BY DEF Total, LinesOf
  <2> HIDE DEF F, G, S, U
  <2> QED
    BY <2>1, <2>2, <2>3, Zenon
<1>12. so[o].kind # "portal" => Total(take) = Total(LinesOf(o))'
  BY <1>4, <1>8, <1>11
<1>13. GoodsMove
  <2>1. take \in SUBSET Lines /\ {} \in SUBSET Lines
    BY <1>4
  <2>2. goods' = [goods EXCEPT ![o] = Shipment(goods[o], take, {})]
    BY <1>1, <1>7, Zenon
  <2> QED
    BY <1>2, <1>12, <2>1, <2>2, TakenMove
<1>14. StockMove
  <2>1. Total(take) \in Nat
    BY <1>4, <1>6, TotalIs
  <2> QED
    BY <1>1, <1>6, <2>1 DEF StockMove
<1> QED
  BY <1>2, <1>3, <1>10, <1>13, <1>14, SameWork, MovesKeep

(* So does the consolidated label, for two orders at once.                 *)
LEMMA ShipConsolidatedKeeps ==
  ASSUME SalesInv, NEW o \in Orders, NEW p \in Orders, ShipConsolidated(o, p)
  PROVE  SalesInv' /\ LinesFrozen
<1>1. /\ o # p /\ so[o].status \notin ShippedFamily /\ so[p].status \notin ShippedFamily
      /\ so' = [so EXCEPT ![o] = Shipped(o, FALSE), ![p] = Shipped(p, FALSE)]
      /\ line' = line /\ wo' = wo
  BY DEF ShipConsolidated, ShippedFamily
<1>2. goods \in [Orders -> Goods] /\ LinesOK /\ fg \in Int
  BY DEF SalesInv, GoodsOK
<1>3. PICK take \in SUBSET Lines, t1 \in SUBSET Lines, h1 \in SUBSET Lines,
           t2 \in SUBSET Lines, h2 \in SUBSET Lines :
        /\ fg' = fg - Total(take)
        /\ goods' = [goods EXCEPT ![o] = Shipment(goods[o], t1, h1),
                                  ![p] = Shipment(goods[p], t2, h2)]
  <2> DEFINE items == IssuedItems(o) \cup IssuedItems(p)
  <2>1. PICK take \in SUBSET items :
          /\ fg' = fg - Total(take)
          /\ goods' = [goods EXCEPT
               ![o] = Shipment(@, take \cap LinesOf(o), (items \ take) \cap LinesOf(o)),
               ![p] = Shipment(@, take \cap LinesOf(p), (items \ take) \cap LinesOf(p))]
    BY DEF ShipConsolidated
  <2>2. goods' = [goods EXCEPT
               ![o] = Shipment(goods[o], take \cap LinesOf(o), (items \ take) \cap LinesOf(o)),
               ![p] = Shipment(goods[p], take \cap LinesOf(p), (items \ take) \cap LinesOf(p))]
    BY <1>1, <1>2, <2>1
  <2>3. items \in SUBSET Lines
    BY DEF IssuedItems, LinesOf
  <2> HIDE DEF items
  <2>4. /\ take \in SUBSET Lines
        /\ take \cap LinesOf(o) \in SUBSET Lines /\ (items \ take) \cap LinesOf(o) \in SUBSET Lines
        /\ take \cap LinesOf(p) \in SUBSET Lines /\ (items \ take) \cap LinesOf(p) \in SUBSET Lines
    BY <2>3
  <2> QED
    BY <2>1, <2>2, <2>4
<1>4. /\ so'[o] = Shipped(o, FALSE) /\ so'[p] = Shipped(p, FALSE)
      /\ \A q \in Orders \ {o, p} : so'[q] = so[q]
  BY <1>1 DEF SalesInv, OrdersOK
<1>5. FALSE \in BOOLEAN /\ \A q \in Orders : OrderOK(so[q])
  BY DEF SalesInv, OrdersOK
<1>6. \A q \in Orders : /\ OrderOK(Shipped(q, FALSE)) /\ Shipped(q, FALSE).shippedAt
                        /\ so[q].reopened => Shipped(q, FALSE).reopened
  BY <1>5, ShippedOK
<1>7. OrdersMove
  <2>1. \A q \in Orders : so'[q] = so[q] \/ so'[q] = Shipped(q, FALSE)
    BY <1>4
  <2>2. \A q \in Orders : OrderOK(so'[q])
    BY <1>5, <1>6, <2>1
  <2>3. so' \in [Orders -> SalesOrder]
    BY <1>1, <2>2 DEF SalesInv, OrdersOK, OrderOK
  <2>4. \A q \in Orders : /\ so[q].shippedAt => so'[q].shippedAt
                          /\ so[q].reopened => so'[q].reopened
    BY <1>6, <2>1
  <2> QED
    BY <2>2, <2>3, <2>4 DEF OrdersMove
<1>8. GoodsMove
  <2>1. Shipment(goods[o], t1, h1) \in Goods
    BY <1>2, ShipmentIs
  <2>2. Shipment(goods[p], t2, h2) \in Goods
    BY <1>2, ShipmentIs
  <2>3. /\ goods' \in [Orders -> Goods]
        /\ goods'[o] = Shipment(goods[o], t1, h1) /\ goods'[p] = Shipment(goods[p], t2, h2)
        /\ \A q \in Orders \ {o, p} : goods'[q] = goods[q]
    BY <1>1, <1>2, <1>3, <2>1, <2>2
  <2>4. Issued(o)
    BY <1>1, <1>4, <2>3 DEF Issued
  <2>5. Issued(p)
    BY <1>1, <1>4, <2>3 DEF Issued
  <2>6. \A q \in Orders \ {o, p} : goods'[q] = goods[q] /\ Keeps(so[q], so'[q])
    BY <1>4, <2>3 DEF Keeps
  <2> QED
    BY <2>3, <2>4, <2>5, <2>6 DEF GoodsMove
<1>9. StockMove
  <2>1. Total(take) \in Nat
    BY <1>2, TotalIs
  <2> QED
    BY <1>2, <1>3, <2>1 DEF StockMove
<1> QED
  BY <1>1, <1>7, <1>8, <1>9, SameLines, SameWork, MovesKeep

(* The handlers that take the goods of a quoted product, or none.          *)
LEMMA LabelKeeps ==
  ASSUME SalesInv, NEW o \in Orders, BuyLabel(o) \/ ShipFromStock(o) \/ MarkShipped(o)
  PROVE  SalesInv' /\ LinesFrozen
<1>1. line' = line /\ wo' = wo /\ so' = [so EXCEPT ![o] = Shipped(o, FALSE)]
  BY DEF BuyLabel, ShipFromStock, MarkShipped
<1>2. FALSE \in BOOLEAN
  OBVIOUS
<1>3. OrdersMove /\ so'[o] = Shipped(o, FALSE) /\ \A p \in Orders \ {o} : so'[p] = so[p]
  BY <1>1, <1>2, ShippedMove
<1>4. so[o].status \notin ShippedFamily \/ ~AlreadyShipped(o)
  BY DEF BuyLabel, ShipFromStock, MarkShipped, ShippedFamily
<1>5. CASE goods' = goods /\ fg' = fg
  <2>1. MarksKept
    <3>1. ~Shipped(o, FALSE).checked
      BY <1>2, ShippedOK
    <3> QED
      BY <1>3, <3>1 DEF MarksKept, Keeps
  <2> QED
    BY <1>1, <1>3, <1>5, <2>1, SameGoods, SameLines, SameWork, SameStock, MovesKeep
<1>6. CASE TakeQuoted(o)
  <2> DEFINE items == LinesOf(o)
  <2>1. fg' = fg - Total(items) /\ goods' = [goods EXCEPT ![o] = Shipment(goods[o], items, {})]
    BY <1>6, Zenon DEF TakeQuoted
  <2>2. items \in SUBSET Lines /\ {} \in SUBSET Lines
    BY DEF LinesOf
  <2> HIDE DEF items
  <2>3. GoodsMove
    BY <1>1, <1>2, <1>4, <2>1, <2>2, TakenMove
  <2>4. Total(items) \in Nat
    BY <2>2, TotalIs DEF SalesInv
  <2>5. StockMove
    BY <2>1, <2>4 DEF SalesInv, StockMove
  <2> QED
    BY <1>1, <1>3, <2>3, <2>5, SameLines, SameWork, MovesKeep
<1> QED
  BY <1>5, <1>6, Zenon DEF BuyLabel, ShipFromStock, MarkShipped

(* An approval moves goods of a shipment that was counted.                 *)
LEMMA ApproveKeeps ==
  ASSUME SalesInv, NEW o \in Orders, NEW q \in Amounts, ApproveHeld(o, q)
  PROVE  SalesInv' /\ LinesFrozen
<1>1. /\ so' = so /\ line' = line /\ wo' = wo /\ fg' = fg - q /\ goods[o].held[q] > 0
      /\ goods' = [goods EXCEPT ![o].held[q] = @ - 1, ![o].posted = @ + q]
  BY DEF ApproveHeld
<1>2. goods \in [Orders -> Goods] /\ goods[o] \in Goods /\ q \in Nat
  BY SalesAssumption DEF SalesInv, GoodsOK, Amounts
<1> DEFINE g == goods[o]
           b == [g.held EXCEPT ![q] = @ - 1]
           h == [[g EXCEPT !.held = b] EXCEPT !.posted = g.posted + q]
<1>3. h = [g EXCEPT !.held[q] = @ - 1, !.posted = @ + q]
  BY <1>2 DEF Goods
<1>4. goods' = [goods EXCEPT ![o] = h]
  BY <1>1, <1>2 DEF Goods
<1>5. b \in [Amounts -> Nat]
  BY <1>1, <1>2 DEF Goods
<1> HIDE DEF b
<1>6. h \in Goods
  <2> DEFINE n == g.posted + q
  <2>1. n \in Nat /\ g \in Goods
    BY <1>2 DEF Goods
  <2>2. h = [[g EXCEPT !.held = b] EXCEPT !.posted = n]
    OBVIOUS
  <2> HIDE DEF g, n, h
  <2>3. [g EXCEPT !.held = b] \in Goods
    BY <1>5, <2>1 DEF Goods
  <2> QED
    BY <2>1, <2>2, <2>3 DEF Goods
<1> HIDE DEF h
<1>7. goods' \in [Orders -> Goods] /\ goods'[o] = h /\ \A p \in Orders \ {o} : goods'[p] = goods[p]
  BY <1>2, <1>4, <1>6
<1>8. Approved(o)
  BY <1>1, <1>3, <1>7 DEF Approved
<1>9. OrdersMove /\ MarksKept
  BY <1>1, SameOrders
<1>10. GoodsMove
  BY <1>7, <1>8, <1>9 DEF GoodsMove, MarksKept
<1>11. StockMove
  BY <1>1, <1>2 DEF SalesInv, StockMove
<1> QED
  BY <1>1, <1>9, <1>10, <1>11, SameLines, SameWork, MovesKeep

(* An imported order is marked as shipped, in full.                        *)
LEMMA CloseOutKeeps ==
  ASSUME SalesInv, NEW o \in Orders, LegacyCloseOut(o)
  PROVE  SalesInv' /\ LinesFrozen
<1>1. /\ goods' = goods /\ wo' = wo /\ fg' = fg /\ so[o].status \in ShippedFamily
      /\ so' = [so EXCEPT ![o].shippedAt = TRUE]
      /\ line' = [l \in Lines |-> IF l \in {k \in LinesOf(o) : so[o].kind = "lines"}
                                    THEN [line[l] EXCEPT !.shipped = line[l].qty] ELSE line[l]]
  BY DEF LegacyCloseOut
<1> DEFINE x == so[o]
           y == [x EXCEPT !.shippedAt = TRUE]
<1>2. x \in SalesOrder
  BY DEF SalesInv, OrdersOK
<1>3. so' = [so EXCEPT ![o] = y]
  BY <1>1
<1>4. x.status \in ShippedFamily /\ x.status # "unused"
  BY <1>1 DEF ShippedFamily
<1> HIDE DEF x
<1>5. y \in SalesOrder /\ y.status = x.status /\ y.kind = x.kind
  BY <1>2 DEF SalesOrder
<1>6. y.shippedAt
  BY <1>2 DEF SalesOrder
<1>7. y.reopened = x.reopened
  BY <1>2 DEF SalesOrder
<1>8. y.checked = x.checked
  BY <1>2 DEF SalesOrder
<1> HIDE DEF y
<1>9. OrderOK(y)
  BY <1>4, <1>5, <1>6 DEF OrderOK
<1>10. x.reopened => y.reopened
  BY <1>7, Zenon
<1>11. y.checked => x.checked
  BY <1>8, Zenon
<1>12. OrdersMove /\ MarksKept
  BY <1>3, <1>5, <1>6, <1>9, <1>10, <1>11, OneOrder DEF x, Keeps
<1>13. LinesMove
  BY <1>1, FullLinesMove
<1> QED
  BY <1>1, <1>12, <1>13, SameGoods, SameWork, SameStock, MovesKeep

(* Every step keeps the invariant and the lines of shipped orders.         *)
LEMMA SalesInvNext == ASSUME SalesInv, [Next]_vars PROVE SalesInv' /\ (LinesFrozen \/ UNCHANGED vars)
<1>1. CASE \E o \in Orders : Entry(o)
  <2>1. PICK o \in Orders : Entry(o)
    BY <1>1
  <2>2. CASE CloseShort(o)
    BY <2>2, CloseShortKeeps
  <2> QED
    BY <2>1, <2>2, EntryKeeps, StatusKeeps, EditKeeps DEF Entry
<1>2. CASE \E o \in Orders : GenerateWork(o)
  BY <1>2, StatusKeeps
<1>3. CASE \E w \in WorkOrders : Production(w)
  <2>1. PICK w \in WorkOrders : Production(w)
    BY <1>3
  <2>2. CASE \E o \in Orders : GenerateHeaderWork(o, w)
    BY <2>2, StatusKeeps
  <2> QED
    BY <2>1, <2>2, ProductionKeeps DEF Production
<1>4. CASE \E w \in WorkOrders : LegacyQueue(w)
  BY <1>4, LegacyQueueKeeps
<1>5. CASE \E o \in Orders : Shipping(o)
  BY <1>5, ShipOrderKeeps, ShipConsolidatedKeeps, LabelKeeps, ApproveKeeps, CloseOutKeeps,
     StatusKeeps DEF Shipping
<1>6. CASE UNCHANGED vars
  <2>1. so' = so /\ line' = line /\ wo' = wo /\ fg' = fg /\ goods' = goods
    BY <1>6 DEF vars
  <2> QED
    BY <1>6, <2>1, SameOrders, SameGoods, SameLines, SameWork, SameStock, MovesKeep
<1> QED
  BY <1>1, <1>2, <1>3, <1>4, <1>5, <1>6 DEF Next

-----------------------------------------------------------------------------

(* The invariant holds in every reachable state.                           *)
LEMMA SalesSafe == Spec => []SalesInv
<1>1. Init => SalesInv
  BY SalesInvInit
<1>2. SalesInv /\ [Next]_vars => SalesInv'
  BY SalesInvNext
<1> QED
  BY <1>1, <1>2, PTL DEF Spec

(* Orders, lines, work orders and goods keep their shape, and no sum or    *)
(* held count gets negative: every handler of sales_order_service.py and   *)
(* sales_order_fulfillment_service.py, and those of production.            *)
THEOREM SalesTyped == Spec => []TypeOK
<1>1. SalesInv => TypeOK
  BY DEF SalesInv, OrdersOK, GoodsOK, LinesOK, WorkOK, TypeOK
<1> QED
  BY <1>1, SalesSafe, PTL

(* The goods of an order leave stock in one shipment, whichever of the six *)
(* handlers ship it, unless the legacy queue moved it back                 *)
(* (sales_order_fulfillment_service.py, fulfillment_shipping.py).          *)
THEOREM GoodsLeaveOnce == Spec => []ShippedOnce
<1>1. SalesInv => ShippedOnce
  BY DEF SalesInv, GoodsOK, IssueOK, ShippedOnce
<1> QED
  BY <1>1, SalesSafe, PTL

(* The cost entry of an order covers what has left stock and nothing else, *)
(* unless the order was shipped again or a movement was held               *)
(* (_create_shipment_gl_entry, and the approval of held movements).        *)
THEOREM CostFollowsGoods == Spec => []CostMatchesGoods
<1>1. SalesInv => CostMatchesGoods
  BY DEF SalesInv, GoodsOK, IssueOK, CostMatchesGoods
<1> QED
  BY <1>1, SalesSafe, PTL

(* What ship_order ships has left stock in full, line by line: the check   *)
(* of the sum leaves nothing for the checks of the single movements.       *)
THEOREM ShipOrderTakesEverything == Spec => []ShipOrderTakesAll
<1>1. SalesInv => ShipOrderTakesAll
  <2> SUFFICES ASSUME SalesInv, NEW o \in Orders, so[o].checked, so[o].kind # "portal",
                      ~so[o].reopened
               PROVE  ~goods[o].everHeld /\ goods[o].posted = Total(LinesOf(o))
    BY DEF ShipOrderTakesAll
  <2> QED
    BY DEF SalesInv, GoodsOK, TakenOK
<1> QED
  BY <1>1, SalesSafe, PTL

(* No line gets two generated work orders that live, also after splits,    *)
(* cancellations and a second generation, unless a cancelled one came back *)
(* to life (generate_production_orders, and the handlers that start work). *)
THEOREM LinesAreMadeOnce == Spec => []LineNotMadeTwice
<1>1. SalesInv => LineNotMadeTwice
  <2> SUFFICES ASSUME SalesInv, NEW l \in Lines
               PROVE  LET live == {w \in WorkOrders : /\ wo[w].line = l /\ wo[w].source # "other"
                                                      /\ wo[w].status \notin {"unused", "cancelled"}}
                      IN  Cardinality(live) > 1 => \E w \in live : wo[w].source = "revived"
    BY DEF LineNotMadeTwice
  <2> DEFINE live == {w \in WorkOrders : /\ wo[w].line = l /\ wo[w].source # "other"
                                         /\ wo[w].status \notin {"unused", "cancelled"}}
  <2>1. \A w \in live : w \in WorkOrders /\ wo[w].line = l /\ Live(wo[w])
    BY DEF Live
  <2>2. ASSUME NEW w \in live, NEW v \in live \ {w} PROVE "revived" \in {wo[w].source, wo[v].source}
    <3>1. PairOK(wo[w], wo[v])
      BY <2>1 DEF SalesInv, WorkOK
    <3> HIDE DEF live
    <3> QED
      BY <2>1, <3>1 DEF PairOK
  <2>3. IsFiniteSet(live)
    BY SalesAssumption, FS_Subset
  <2> HIDE DEF live
  <2>4. ASSUME Cardinality(live) > 1 PROVE \E w \in live : wo[w].source = "revived"
    <3>1. live # {}
      BY <2>4, FS_EmptySet
    <3>2. PICK w \in live : TRUE
      BY <3>1
    <3>3. live # {w}
      BY <2>4, FS_Singleton
    <3>4. PICK v \in live : v # w
      BY <3>2, <3>3
    <3> QED
      BY <2>2, <3>4
  <2> QED
    BY <2>4 DEF live
<1> QED
  BY <1>1, SalesSafe, PTL

(* A line is never allocated more than its work orders completed: the sum  *)
(* of sync_on_production_complete is over those, and nothing takes a       *)
(* completed quantity back but the report of an operation that was         *)
(* scheduled again (complete_operation overwrites it, with fewer pieces).  *)
THEOREM AllocatedIsProduced == Spec => []AllocatedWasProduced
<1>1. SalesInv => AllocatedWasProduced
  BY DEF SalesInv, LinesOK, Made, Lowered, AllocatedWasProduced
<1> QED
  BY <1>1, SalesSafe, PTL

(* No line has shipped more than it asks for: the edits of a line and the  *)
(* quantities of a short close (sales_order_service.py).                   *)
THEOREM NothingBeyondTheOrder == Spec => []ShippedWithinOrdered
<1>1. SalesInv => ShippedWithinOrdered
  BY DEF SalesInv, LinesOK, LineOK, ShippedWithinOrdered
<1> QED
  BY <1>1, SalesSafe, PTL

(* No handler that edits lines reaches those of a shipped order, unless it *)
(* was moved back.                                                         *)
THEOREM ShippedLinesStay == Spec => ShippedLinesFrozen
<1>1. SalesInv /\ [Next]_vars => [LinesFrozen]_vars
  BY SalesInvNext
<1> QED
  BY <1>1, SalesSafe, PTL DEF Spec, ShippedLinesFrozen
=============================================================================
