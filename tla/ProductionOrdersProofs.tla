------------------------ MODULE ProductionOrdersProofs ------------------------
(***************************************************************************)
(* Theorems about ProductionOrders for every set of orders, every routing  *)
(* and every stock.                                                        *)
(*                                                                         *)
(* What every operation on the books of one order preserves comes first.   *)
(* The inductive invariant is FloorInv: Accounted (types, and an allocated *)
(* quantity that covers the reservation ledger), OrdersOK (what the status *)
(* of each order says about its receipt, its rows, its reservations and    *)
(* its operations) and Tallied (the shared inventory row is the sum of     *)
(* what the orders have booked).  Most of what OrdersOK says holds until a *)
(* finished operation is scheduled again (FirstRunOK); what is left after  *)
(* that pays each further receipt with such an operation.  Accounted is    *)
(* invariant by itself, and one lemma per handler shows that it keeps each *)
(* of the other two parts.                                                 *)
(***************************************************************************)
EXTENDS ProductionOrders, FiniteLemmas, TLAPS

(* The material rows of one order, one for each operation.                 *)
Rows == [Ops -> Row]

(* The books are well formed and no reservation is missing from them: the  *)
(* allocated quantity is not below the net of the reservation ledger.      *)
Sound(b) == b \in Books /\ b.inv.allocated >= b.inv.ledgerNet

(* Books put together from sound parts are sound.                          *)
LEMMA PartsAreSound ==
  ASSUME NEW v \in Inv, NEW m \in Rows, NEW t \in Txn, v.allocated >= v.ledgerNet
  PROVE  Sound([inv |-> v, mat |-> m, txn |-> t])
  BY DEF Sound, Books, Rows

(* Setting the two reservation columns of the inventory row.               *)
LEMMA SetAllocation ==
  ASSUME NEW v \in Inv, NEW a \in Nat, NEW n \in Int
  PROVE  /\ [v EXCEPT !.allocated = a, !.ledgerNet = n] \in Inv
         /\ [v EXCEPT !.allocated = a, !.ledgerNet = n].allocated = a
         /\ [v EXCEPT !.allocated = a, !.ledgerNet = n].ledgerNet = n
  BY DEF Inv

(* The columns of an order's ledger.                                       *)
LEMMA LedgerColumns ==
  ASSUME NEW t \in Txn
  PROVE  /\ t.reserved \in Nat /\ t.released \in Nat /\ t.consumed \in Nat
         /\ t.bom \in Postings /\ t.bomQty \in Nat
         /\ t.replaced \in Nat /\ t.applied \in Nat /\ t.left \in Seq(Nat)
         /\ t.receipts \in Nat /\ t.received \in Nat
  BY DEF Txn

(* One more reservation, release or consumption on it.                     *)
LEMMA AddToLedger ==
  ASSUME NEW t \in Txn, NEW q \in Nat
  PROVE  /\ [t EXCEPT !.reserved = @ + q] \in Txn
         /\ [t EXCEPT !.released = @ + q] \in Txn
         /\ [t EXCEPT !.consumed = @ + q] \in Txn
<1>1. t.reserved + q \in Nat /\ t.released + q \in Nat /\ t.consumed + q \in Nat
  BY LedgerColumns
<1>2. ASSUME NEW n \in Nat
      PROVE  /\ [t EXCEPT !.reserved = n] \in Txn
             /\ [t EXCEPT !.released = n] \in Txn
             /\ [t EXCEPT !.consumed = n] \in Txn
  BY DEF Txn
<1> QED
  BY <1>1, <1>2

(* The ledger columns a receipt writes.                                    *)
LEMMA SetReceipt ==
  ASSUME NEW t \in Txn, NEW n \in Nat, NEW q \in Nat
  PROVE  [t EXCEPT !.receipts = n, !.received = q] \in Txn
<1>1. [t EXCEPT !.receipts = n] \in Txn
  BY DEF Txn
<1>2. [[t EXCEPT !.receipts = n] EXCEPT !.received = q] \in Txn
  BY <1>1 DEF Txn
<1> QED
  BY <1>2

(* The ledger columns a BOM backflush writes.                              *)
LEMMA SetBackflush ==
  ASSUME NEW t \in Txn, NEW p \in Postings, NEW q \in Nat, NEW c \in Nat
  PROVE  [t EXCEPT !.bom = p, !.bomQty = q, !.consumed = c] \in Txn
<1>1. [t EXCEPT !.bom = p] \in Txn
  BY DEF Txn
<1>2. [[t EXCEPT !.bom = p] EXCEPT !.bomQty = q] \in Txn
  BY <1>1 DEF Txn
<1>3. [[[t EXCEPT !.bom = p] EXCEPT !.bomQty = q] EXCEPT !.consumed = c] \in Txn
  BY <1>2 DEF Txn
<1> QED
  BY <1>3

-----------------------------------------------------------------------------
(* Quantities.                                                             *)

(* Flooring at zero gives a natural number no smaller than the argument.   *)
LEMMA FloorIsNat == ASSUME NEW a \in Int PROVE Floor0(a) \in Nat /\ Floor0(a) >= a
  BY DEF Floor0

(* The smaller of two natural numbers is one.                              *)
LEMMA MinIsNat == ASSUME NEW a \in Nat, NEW b \in Nat PROVE Min2(a, b) \in Nat
  BY DEF Min2

(* What an order holds in the ledger is never counted below zero.          *)
LEMMA NetReservedIsNat == ASSUME NEW t \in Txn PROVE NetReserved(t) \in Nat
  BY FloorIsNat, LedgerColumns DEF NetReserved

(* What one operation's row requires.                                      *)
LEMMA RequiredAtIsNat ==
  ASSUME NEW m \in Rows, NEW S \in SUBSET Ops, NEW i
  PROVE  RequiredAt(m, S, i) \in Nat
  BY DEF RequiredAt, Rows, Row

(* What an order requires.                                                 *)
LEMMA NeedIsNat ==
  ASSUME NEW m \in Rows, NEW S \in SUBSET Ops, NEW ordered \in Nat
  PROVE  Need(m, S, ordered) \in Nat
  BY RequiredAtIsNat DEF Need

(* Distributing a quantity over the rows changes allocations only.         *)
LEMMA SyncKeepsRows ==
  ASSUME NEW m \in Rows, NEW S \in SUBSET Ops, NEW q \in Nat
  PROVE  Sync(m, S, q) \in Rows
<1> DEFINE before(i) == IF i = 2 THEN RequiredAt(m, S, 1) ELSE 0
<1>1. ASSUME NEW i \in Ops
      PROVE  [m[i] EXCEPT !.allocated = Min2(Floor0(q - before(i)), m[i].required)] \in Row
  <2>1. m[i] \in Row
    BY DEF Rows
  <2>2. before(i) \in Nat
    BY RequiredAtIsNat
  <2>3. Floor0(q - before(i)) \in Nat
    BY <2>2, FloorIsNat
  <2>4. Min2(Floor0(q - before(i)), m[i].required) \in Nat
    BY <2>1, <2>3, MinIsNat DEF Row
  <2> QED
    BY <2>1, <2>4 DEF Row
<1> QED
  BY <1>1 DEF Sync, Rows

-----------------------------------------------------------------------------
(* Reservation and release.                                                *)

(* Reserving adds the same delta to the row and to the ledger.             *)
LEMMA ReserveIsSound ==
  ASSUME NEW b, Sound(b), NEW S \in SUBSET Ops, NEW ordered \in Nat
  PROVE  Sound(Reserve(b, S, ordered))
<1> DEFINE net   == NetReserved(b.txn)
           delta == Floor0(Need(b.mat, S, ordered) - net)
<1>1. b.inv \in Inv /\ b.mat \in Rows /\ b.txn \in Txn
  BY DEF Sound, Books, Rows
<1>2. net \in Nat /\ delta \in Nat
  BY <1>1, NetReservedIsNat, NeedIsNat, FloorIsNat
<1>3. Sync(b.mat, S, net + delta) \in Rows
  BY <1>1, <1>2, SyncKeepsRows
<1>4. CASE HasNeed(S)
  <2> HIDE DEF net, delta
  <2> DEFINE v == [b.inv EXCEPT !.allocated = b.inv.allocated + delta,
                                !.ledgerNet = b.inv.ledgerNet + delta]
  <2>1. /\ b.inv.allocated + delta \in Nat /\ b.inv.ledgerNet + delta \in Int
        /\ b.inv.allocated + delta >= b.inv.ledgerNet + delta
    BY <1>1, <1>2 DEF Sound, Inv
  <2>2. v \in Inv /\ v.allocated >= v.ledgerNet
    BY <1>1, <2>1, SetAllocation
  <2>3. [b.txn EXCEPT !.reserved = @ + delta] \in Txn
    BY <1>1, <1>2, AddToLedger
  <2>4. Reserve(b, S, ordered) = [inv |-> v, mat |-> Sync(b.mat, S, net + delta),
                                  txn |-> [b.txn EXCEPT !.reserved = @ + delta]]
    BY <1>4 DEF Reserve, net, delta
  <2> HIDE DEF v
  <2> QED
    BY <1>3, <2>2, <2>3, <2>4, PartsAreSound
<1>5. CASE ~HasNeed(S)
  BY <1>5 DEF Reserve
<1> QED
  BY <1>4, <1>5

(* A release takes at most as much off the row as off the ledger.          *)
LEMMA WriteReleaseIsSound ==
  ASSUME NEW b, Sound(b), NEW q \in Nat
  PROVE  /\ Sound(WriteRelease(b, q))
         /\ WriteRelease(b, q).mat = b.mat
<1> DEFINE v == [b.inv EXCEPT !.allocated = Floor0(b.inv.allocated - q),
                              !.ledgerNet = b.inv.ledgerNet - q]
           t == [b.txn EXCEPT !.released = @ + q]
<1>1. b.inv \in Inv /\ b.mat \in Rows /\ b.txn \in Txn
  BY DEF Sound, Books, Rows
<1>2. WriteRelease(b, q) = [inv |-> v, mat |-> b.mat, txn |-> t]
  BY DEF WriteRelease
<1>3. Floor0(b.inv.allocated - q) \in Nat /\ Floor0(b.inv.allocated - q) >= b.inv.allocated - q
  BY <1>1, FloorIsNat DEF Inv
<1>4. b.inv.ledgerNet - q \in Int /\ Floor0(b.inv.allocated - q) >= b.inv.ledgerNet - q
  BY <1>1, <1>3 DEF Inv, Sound
<1>5. v \in Inv /\ v.allocated >= v.ledgerNet
  BY <1>1, <1>3, <1>4, SetAllocation
<1>6. t \in Txn
  BY <1>1, AddToLedger
<1> HIDE DEF v, t
<1> QED
  BY <1>1, <1>2, <1>5, <1>6, PartsAreSound

(* New rows under unchanged inventory and ledger leave the books sound.    *)
LEMMA NewRowsAreSound ==
  ASSUME NEW b, Sound(b), NEW m \in Rows
  PROVE  Sound([b EXCEPT !.mat = m])
  BY DEF Sound, Books, Rows

(* Releasing every reservation of the order.                               *)
LEMMA ReleaseAllIsSound ==
  ASSUME NEW b, Sound(b), NEW stored \in Rows
  PROVE  Sound(ReleaseAll(b, stored))
<1> DEFINE r    == WriteRelease(b, b.txn.reserved)
           rows == [i \in Ops |-> IF stored[i].posting = "none"
                                    THEN [b.mat[i] EXCEPT !.allocated = 0]
                                    ELSE b.mat[i]]
<1>1. b.txn.reserved \in Nat /\ b.mat \in Rows
  BY DEF Sound, Books, Txn, Rows
<1>2. Sound(r)
  BY <1>1, WriteReleaseIsSound
<1>3. rows \in Rows
  BY <1>1 DEF Rows, Row
<1> HIDE DEF r, rows
<1>4. Sound([r EXCEPT !.mat = rows])
  BY <1>2, <1>3, NewRowsAreSound
<1> QED
  BY <1>4 DEF ReleaseAll, r, rows

(* Releasing what a split leaves over.                                     *)
LEMMA ReleaseExcessIsSound ==
  ASSUME NEW b, Sound(b), NEW ordered \in Nat
  PROVE  Sound(ReleaseExcess(b, ordered))
<1> DEFINE net    == NetReserved(b.txn)
           excess == Floor0(net - Need(b.mat, Ops, ordered))
           r      == WriteRelease(b, excess)
<1>1. b.mat \in Rows /\ b.txn \in Txn
  BY DEF Sound, Books, Rows
<1>2. net \in Nat /\ excess \in Nat
  BY <1>1, NetReservedIsNat, NeedIsNat, FloorIsNat
<1>3. Sound(r)
  BY <1>2, WriteReleaseIsSound
<1>4. ASSUME net - excess > 0
      PROVE  Sound([r EXCEPT !.mat = Sync(b.mat, Ops, net - excess)])
  <2> HIDE DEF net, excess, r
  <2>1. Sync(b.mat, Ops, net - excess) \in Rows
    BY <1>1, <1>2, <1>4, SyncKeepsRows
  <2> QED
    BY <1>3, <2>1, NewRowsAreSound
<1> QED
  BY <1>3, <1>4 DEF ReleaseExcess

(* The repair of a stranded reservation.                                   *)
LEMMA ReleaseStrandedIsSound ==
  ASSUME NEW b, Sound(b)
  PROVE  Sound(ReleaseStranded(b))
  BY WriteReleaseIsSound, NetReservedIsNat DEF ReleaseStranded, Sound, Books

-----------------------------------------------------------------------------
(* Consumption and receipt touch neither the allocation nor the ledger.    *)

(* A consumption is posted or held, and on-hand stays a number.            *)
LEMMA PostingIsTyped ==
  ASSUME NEW v \in Inv, NEW q \in Nat
  PROVE  PostingOf(v, q) \in Postings /\ OnHandAfter(v, q) \in Int
  BY DEF PostingOf, OnHandAfter, Postings, Inv

(* Consuming one operation row.                                            *)
LEMMA ConsumeRowIsSound ==
  ASSUME NEW b, Sound(b), NEW i
  PROVE  Sound(ConsumeRow(b, i))
<1>1. b.inv \in Inv /\ b.mat \in Rows /\ b.txn \in Txn
  BY DEF Sound, Books, Rows
<1>2. CASE i \notin Ops \/ b.mat[i].posting # "none"
  BY <1>2 DEF ConsumeRow
<1>3. CASE i \in Ops /\ b.mat[i].posting = "none"
  <2> DEFINE q == b.mat[i].required
             p == PostingOf(b.inv, q)
             h == OnHandAfter(b.inv, q)
  <2>1. b.mat[i] \in Row /\ q \in Nat
    BY <1>1, <1>3 DEF Rows, Row
  <2>2. p \in Postings /\ h \in Int
    BY <1>1, <2>1, PostingIsTyped
  <2>3. ConsumeRow(b, i) =
           [inv |-> [b.inv EXCEPT !.onHand = h],
            mat |-> [b.mat EXCEPT ![i] = [@ EXCEPT !.posting = p]],
            txn |-> [b.txn EXCEPT !.consumed = @ + q]]
    BY <1>3 DEF ConsumeRow, Sound, Books
  <2> HIDE DEF q, p, h
  <2>4. [b.mat EXCEPT ![i] = [@ EXCEPT !.posting = p]] \in Rows
    BY <1>1, <2>1, <2>2 DEF Rows, Row
  <2>5. /\ [b.inv EXCEPT !.onHand = h] \in Inv
        /\ [b.inv EXCEPT !.onHand = h].allocated >= [b.inv EXCEPT !.onHand = h].ledgerNet
    BY <1>1, <2>2 DEF Inv, Sound
  <2>6. [b.txn EXCEPT !.consumed = @ + q] \in Txn
    BY <1>1, <2>1, AddToLedger
  <2> QED
    BY <2>3, <2>4, <2>5, <2>6, PartsAreSound
<1> QED
  BY <1>2, <1>3

(* The BOM backflush.                                                      *)
LEMMA ConsumeBomIsSound ==
  ASSUME NEW b, Sound(b), NEW q \in Nat
  PROVE  Sound(ConsumeBom(b, q))
<1>1. b.inv \in Inv /\ b.mat \in Rows /\ b.txn \in Txn
  BY DEF Sound, Books, Rows
<1>2. CASE b.txn.bom = "posted"
  BY <1>2 DEF ConsumeBom
<1>3. CASE b.txn.bom # "posted"
  <2> DEFINE p == PostingOf(b.inv, q)
             h == OnHandAfter(b.inv, q)
  <2>1. p \in Postings /\ h \in Int
    BY <1>1, PostingIsTyped
  <2> DEFINE v == [b.inv EXCEPT !.onHand = h]
             t == [b.txn EXCEPT !.bom = p, !.bomQty = q, !.consumed = b.txn.consumed + q]
  <2>2. ConsumeBom(b, q) = [inv |-> v, mat |-> b.mat, txn |-> t]
    BY <1>3 DEF ConsumeBom
  <2> HIDE DEF p, h
  <2>3. v \in Inv /\ v.allocated >= v.ledgerNet
    BY <1>1, <2>1 DEF Inv, Sound
  <2>4. b.txn.consumed + q \in Nat
    BY <1>1, LedgerColumns
  <2>5. t \in Txn
    BY <1>1, <2>1, <2>4, SetBackflush
  <2> HIDE DEF v, t
  <2> QED
    BY <1>1, <2>2, <2>3, <2>5, PartsAreSound
<1> QED
  BY <1>2, <1>3

(* A completion stage: release, then consume.                              *)
LEMMA ConsumeStageIsSound ==
  ASSUME NEW b, Sound(b), NEW stored \in Rows, NEW qty \in Nat
  PROVE  Sound(ConsumeStage(b, stored, qty))
<1> DEFINE r == ReleaseAll(b, stored)
<1>1. Sound(r)
  BY ReleaseAllIsSound
<1> HIDE DEF r
<1>2. Sound(ConsumeRow(r, 1))
  BY <1>1, ConsumeRowIsSound
<1>3. Sound(ConsumeRow(ConsumeRow(r, 1), 2))
  BY <1>2, ConsumeRowIsSound
<1>4. Sound(ConsumeBom(r, qty))
  BY <1>1, ConsumeBomIsSound
<1> QED
  BY <1>1, <1>3, <1>4 DEF ConsumeStage, r

(* Receiving the finished goods.                                           *)
LEMMA ReceiveIsSound ==
  ASSUME NEW b, Sound(b), NEW qty \in Nat
  PROVE  Sound(Receive(b, qty))
<1>1. b.inv \in Inv /\ b.mat \in Rows /\ b.txn \in Txn
  BY DEF Sound, Books, Rows
<1> DEFINE v == [b.inv EXCEPT !.fg = b.inv.fg + qty]
           t == [b.txn EXCEPT !.receipts = b.txn.receipts + 1,
                              !.received = b.txn.received + qty]
<1>2. Receive(b, qty) = [inv |-> v, mat |-> b.mat, txn |-> t]
  BY DEF Receive
<1>3. v \in Inv /\ v.allocated >= v.ledgerNet
  BY <1>1 DEF Inv, Sound
<1>4. b.txn.receipts + 1 \in Nat /\ b.txn.received + qty \in Nat
  BY <1>1, LedgerColumns
<1>5. t \in Txn
  BY <1>1, <1>4, SetReceipt
<1> HIDE DEF v, t
<1> QED
  BY <1>1, <1>2, <1>3, <1>5, PartsAreSound

(* What rows of some postings require, and the held ones among them.       *)
LEMMA RowsUsedIsNat ==
  ASSUME NEW m \in Rows, NEW P
  PROVE  RowsUsed(m, P) \in Nat
<1> DEFINE S == {i \in DOMAIN m : m[i].posting \in P}
<1>1. S \in SUBSET Ops
  BY DEF Rows
<1> HIDE DEF S
<1>2. RequiredAt(m, S, 1) \in Nat /\ RequiredAt(m, S, 2) \in Nat
  BY <1>1, RequiredAtIsNat
<1> QED
  BY <1>2 DEF RowsUsed, S

(* They leave the rows as a sequence of quantities.                        *)
LEMMA HeldAtIsTyped == ASSUME NEW m \in Rows, NEW i PROVE HeldAt(m, i) \in Seq(Nat)
<1>1. i \in Ops => m[i].required \in Nat
  BY DEF Rows, Row
<1> QED
  BY <1>1 DEF HeldAt

(* New rows for old ones: the consumption moves to the ledger's own        *)
(* columns, and neither the inventory row nor a reservation moves.         *)
LEMMA ReplaceRowsIsSound ==
  ASSUME NEW b, Sound(b), NEW m \in Rows
  PROVE  Sound(ReplaceRows(b, m))
<1> DEFINE n == b.txn.replaced + RowsUsed(b.mat, Postings \ {"none"})
           a == b.txn.applied + RowsUsed(b.mat, {"posted", "approved"})
           l == b.txn.left \o HeldAt(b.mat, 1) \o HeldAt(b.mat, 2)
           t == [b.txn EXCEPT !.replaced = n, !.applied = a, !.left = l]
<1>1. b.inv \in Inv /\ b.mat \in Rows /\ b.txn \in Txn /\ b.inv.allocated >= b.inv.ledgerNet
  BY DEF Sound, Books, Rows
<1>2. n \in Nat /\ a \in Nat
  BY <1>1, LedgerColumns, RowsUsedIsNat
<1>3. l \in Seq(Nat)
  <2>1. /\ b.txn.left \in Seq(Nat) /\ HeldAt(b.mat, 1) \in Seq(Nat)
        /\ HeldAt(b.mat, 2) \in Seq(Nat)
    BY <1>1, LedgerColumns, HeldAtIsTyped
  <2> QED
    BY <2>1
<1>4. ReplaceRows(b, m) = [inv |-> b.inv, mat |-> m, txn |-> t]
  BY DEF ReplaceRows
<1> HIDE DEF n, a, l
<1>5. t \in Txn
  <2>1. [b.txn EXCEPT !.replaced = n] \in Txn
    BY <1>1, <1>2 DEF Txn
  <2>2. [[b.txn EXCEPT !.replaced = n] EXCEPT !.applied = a] \in Txn
    BY <1>2, <2>1 DEF Txn
  <2>3. [[[b.txn EXCEPT !.replaced = n] EXCEPT !.applied = a] EXCEPT !.left = l] \in Txn
    BY <1>3, <2>2 DEF Txn
  <2> QED
    BY <2>3
<1> HIDE DEF t
<1> QED
  BY <1>1, <1>4, <1>5, PartsAreSound

(* Completing an order: the stage, then the receipt.                       *)
LEMMA CompletionIsSound ==
  ASSUME NEW b, Sound(b), NEW stored \in Rows, NEW ordered \in Nat, NEW qty \in Nat
  PROVE  Sound(Completion(b, stored, ordered, qty))
<1>1. Sound(ConsumeStage(b, stored, qty))
  BY ConsumeStageIsSound
<1>2. ordered + Floor0(qty - ordered) \in Nat
  BY FloorIsNat
<1> QED
  BY <1>1, <1>2, ReceiveIsSound DEF Completion

-----------------------------------------------------------------------------
(* The tables.                                                             *)

Accounted == TypeOK /\ AllocationCoversLedger

-----------------------------------------------------------------------------
(* One row of a table.                                                     *)

(* Writing one order.                                                      *)
LEMMA WriteOrder ==
  ASSUME NEW f \in [Orders -> Order], NEW o \in Orders, NEW w \in Order
  PROVE  [f EXCEPT ![o] = w] \in [Orders -> Order]
  OBVIOUS

(* The columns the handlers write, one at a time.                          *)
LEMMA WriteStatus ==
  ASSUME NEW w \in Order, NEW s \in Statuses PROVE [w EXCEPT !.status = s] \in Order
  BY DEF Order
(* The quantity ordered, which an update or a split changes.               *)
LEMMA WriteOrdered ==
  ASSUME NEW w \in Order, NEW q \in Nat PROVE [w EXCEPT !.ordered = q] \in Order
  BY DEF Order
(* The quantity completed, which reports replace or add to.                *)
LEMMA WriteCompleted ==
  ASSUME NEW w \in Order, NEW q \in Nat PROVE [w EXCEPT !.completed = q] \in Order
  BY DEF Order
(* The quantity scrapped.                                                  *)
LEMMA WriteScrapped ==
  ASSUME NEW w \in Order, NEW q \in Nat PROVE [w EXCEPT !.scrapped = q] \in Order
  BY DEF Order
(* The actual end.                                                         *)
LEMMA WriteEnded ==
  ASSUME NEW w \in Order, NEW e \in BOOLEAN PROVE [w EXCEPT !.ended = e] \in Order
  BY DEF Order
(* The quality status.                                                     *)
LEMMA WriteQc ==
  ASSUME NEW w \in Order, NEW r \in {"not_required", "pending", "passed", "failed"}
  PROVE  [w EXCEPT !.qc = r] \in Order
  BY DEF Order
(* The count of inspections.                                               *)
LEMMA WriteInspections ==
  ASSUME NEW w \in Order, NEW n \in Nat PROVE [w EXCEPT !.inspections = n] \in Order
  BY DEF Order
(* The count of finished operations taken up again.                        *)
LEMMA WriteReopened ==
  ASSUME NEW w \in Order, NEW n \in Nat PROVE [w EXCEPT !.reopened = n] \in Order
  BY DEF Order

(* A finished order, and one on its way into the inspection queue.         *)
LEMMA FinishedIsOrder ==
  ASSUME NEW w \in Order, NEW s \in Statuses
  PROVE  [w EXCEPT !.status = s, !.ended = TRUE, !.qc = QueueForQC(w)] \in Order
<1>1. QueueForQC(w) \in {"not_required", "pending", "passed", "failed"}
  BY DEF QueueForQC, Order
<1>2. [w EXCEPT !.status = s] \in Order
  BY WriteStatus
<1>3. [[w EXCEPT !.status = s] EXCEPT !.ended = TRUE] \in Order
  BY <1>2, WriteEnded
<1>4. [[[w EXCEPT !.status = s] EXCEPT !.ended = TRUE] EXCEPT !.qc = QueueForQC(w)] \in Order
  BY <1>1, <1>3, WriteQc
<1> QED
  BY <1>4

(* A new order.                                                            *)
LEMMA NewOrderIsOrder ==
  ASSUME NEW q \in Nat PROVE NewOrder(q) \in Order /\ NoOrder \in Order
  BY DEF NewOrder, NoOrder, Order, Statuses, Live

(* Operations and rows copied from a routing.                              *)
LEMMA RoutingIsTyped ==
  ASSUME NEW q \in Nat
  PROVE  PendingOps \in [Ops -> Operation] /\ RoutedRows(q) \in Rows
  BY DEF PendingOps, RoutedRows, NewRow, Operation, OpStatuses, Rows, Row, Postings

-----------------------------------------------------------------------------
(* From the tables to the books of an order and back.                      *)

(* The books of an order of an accounted state are sound.                  *)
LEMMA BooksAreSound ==
  ASSUME Accounted, NEW o \in Orders
  PROVE  /\ Sound(BooksOf(o)) /\ mat[o] \in Rows /\ txn[o] \in Txn /\ inv \in Inv
         /\ order[o] \in Order /\ op[o] \in [Ops -> Operation]
<1>1. mat[o] \in Rows /\ txn[o] \in Txn /\ inv \in Inv /\ inv.allocated >= inv.ledgerNet
  BY DEF Accounted, TypeOK, AllocationCoversLedger, Rows
<1>2. Sound(BooksOf(o))
  BY <1>1, PartsAreSound DEF BooksOf
<1> QED
  BY <1>1, <1>2 DEF Accounted, TypeOK

(* Writing sound books back, with typed orders and operations.             *)
LEMMA SoundBooksAccount ==
  ASSUME Accounted, NEW o \in Orders, NEW b, Sound(b), SetBooks(o, b),
         order' \in [Orders -> Order], op' \in [Orders -> [Ops -> Operation]]
  PROVE  Accounted'
<1>1. b.inv \in Inv /\ b.mat \in [Ops -> Row] /\ b.txn \in Txn /\ b.inv.allocated >= b.inv.ledgerNet
  BY DEF Sound, Books
<1>2. inv' = b.inv /\ mat' = [mat EXCEPT ![o] = b.mat] /\ txn' = [txn EXCEPT ![o] = b.txn]
  BY DEF SetBooks
<1>3. mat' \in [Orders -> [Ops -> Row]] /\ txn' \in [Orders -> Txn]
  BY <1>1, <1>2 DEF Accounted, TypeOK
<1> QED
  BY <1>1, <1>2, <1>3 DEF Accounted, TypeOK, AllocationCoversLedger

(* A handler that leaves the books alone.                                  *)
LEMMA UntouchedBooksAccount ==
  ASSUME Accounted, UNCHANGED <<mat, txn, inv>>,
         order' \in [Orders -> Order], op' \in [Orders -> [Ops -> Operation]]
  PROVE  Accounted'
  BY DEF Accounted, TypeOK, AllocationCoversLedger

(* Moving an order to another status.                                      *)
LEMMA SetStatusIsTyped ==
  ASSUME Accounted, NEW o \in Orders, NEW s \in Statuses, SetStatus(o, s)
  PROVE  order' \in [Orders -> Order]
<1>1. [order[o] EXCEPT !.status = s] \in Order
  BY WriteStatus DEF Accounted, TypeOK
<1>2. order' = [order EXCEPT ![o] = [order[o] EXCEPT !.status = s]]
  BY DEF SetStatus
<1> QED
  BY <1>1, <1>2, WriteOrder DEF Accounted, TypeOK

(* The books of a new order: the inventory row stays covered.              *)
LEMMA OpeningBooksAreSound ==
  ASSUME NEW v \in Inv, v.allocated >= v.ledgerNet, NEW q \in Nat
  PROVE  Sound(OpeningBooks(v, q))
<1>1. NoTxn \in Txn
  BY DEF NoTxn, Txn, Postings
<1>2. RoutedRows(q) \in Rows
  BY RoutingIsTyped
<1>3. Sound([inv |-> v, mat |-> RoutedRows(q), txn |-> NoTxn])
  BY <1>1, <1>2, PartsAreSound
<1>4. FlushedOps \in SUBSET Ops
  BY DEF FlushedOps
<1> QED
  BY <1>3, <1>4, ReserveIsSound DEF OpeningBooks

(* The status derived from the operations is a status.                     *)
LEMMA DerivedStatusIsStatus ==
  ASSUME NEW w \in Order, NEW ops PROVE DerivePoStatus(w, ops) \in Statuses
  BY DEF DerivePoStatus, Order, Statuses, Live

(* Every handler of an operation ends in update_po_status.                 *)
LEMMA UpdatePoStatusAccounts ==
  ASSUME Accounted, NEW o \in Orders, NEW w \in Order, NEW ops \in [Ops -> Operation],
         NEW b, Sound(b), UpdatePoStatus(o, w, ops, b)
  PROVE  Accounted'
<1> DEFINE new       == DerivePoStatus(w, ops)
           finishing == new # w.status /\ new = "complete" /\ ~w.ended
           made      == IF w.completed = 0 THEN w.ordered ELSE w.completed
           w2        == IF finishing
                          THEN [w EXCEPT !.status = new, !.ended = TRUE, !.qc = QueueForQC(w)]
                          ELSE [w EXCEPT !.status = new]
           b2        == IF finishing THEN Completion(b, mat[o], w.ordered, made) ELSE b
<1>1. op' = [op EXCEPT ![o] = ops] /\ order' = [order EXCEPT ![o] = w2] /\ SetBooks(o, b2)
  BY DEF UpdatePoStatus
<1>2. new \in Statuses
  BY DerivedStatusIsStatus
<1>3. w.ordered \in Nat /\ made \in Nat
  BY DEF Order
<1>4. mat[o] \in Rows
  BY BooksAreSound
<1>5. Sound(b2)
  BY <1>3, <1>4, CompletionIsSound
<1>6. w2 \in Order
  BY <1>2, FinishedIsOrder, WriteStatus
<1> HIDE DEF w2, b2
<1>7. op' \in [Orders -> [Ops -> Operation]] /\ order' \in [Orders -> Order]
  BY <1>1, <1>6, WriteOrder DEF Accounted, TypeOK
<1> QED
  BY <1>1, <1>5, <1>7, SoundBooksAccount

-----------------------------------------------------------------------------
(* Planning.                                                               *)

(* create_production_order.                                                *)
LEMMA CreateOrderAccounts ==
  ASSUME Accounted, NEW o \in Orders, NEW q \in Quantities, CreateOrder(o, q)
  PROVE  Accounted'
<1>1. q \in Nat
  BY QuantityAssumption DEF Quantities
<1>2. Sound(OpeningBooks(inv, q))
  BY <1>1, BooksAreSound, OpeningBooksAreSound DEF Accounted, AllocationCoversLedger
<1>3. NewOrder(q) \in Order /\ PendingOps \in [Ops -> Operation]
  BY <1>1, NewOrderIsOrder, RoutingIsTyped
<1>4. order' \in [Orders -> Order] /\ op' \in [Orders -> [Ops -> Operation]]
  BY <1>3, WriteOrder DEF CreateOrder, Accounted, TypeOK
<1> QED
  BY <1>2, <1>4, SoundBooksAccount DEF CreateOrder

(* update_production_order.                                                *)
LEMMA UpdateQuantityAccounts ==
  ASSUME Accounted, NEW o \in Orders, NEW q \in Quantities, UpdateQuantity(o, q)
  PROVE  Accounted'
<1>1. [order[o] EXCEPT !.ordered = q] \in Order
  BY BooksAreSound, WriteOrdered DEF Quantities
<1>2. order' = [order EXCEPT ![o] = [order[o] EXCEPT !.ordered = q]]
  BY DEF UpdateQuantity
<1>3. order' \in [Orders -> Order]
  BY <1>1, <1>2, WriteOrder DEF Accounted, TypeOK
<1> QED
  BY <1>3, UntouchedBooksAccount DEF UpdateQuantity, Accounted, TypeOK

(* delete_production_order: releases, then drops the rows.                 *)
LEMMA DeleteOrderAccounts ==
  ASSUME Accounted, NEW o \in Orders, DeleteOrder(o)
  PROVE  Accounted'
<1> DEFINE b == ReleaseAll(BooksOf(o), mat[o])
<1>1. Sound(b)
  BY BooksAreSound, ReleaseAllIsSound
<1> HIDE DEF b
<1>2. Sound([b EXCEPT !.mat = RoutedRows(0)])
  BY <1>1, RoutingIsTyped, NewRowsAreSound
<1>3. order' \in [Orders -> Order]
  BY SetStatusIsTyped DEF DeleteOrder, Statuses
<1>4. op' \in [Orders -> [Ops -> Operation]]
  BY RoutingIsTyped DEF DeleteOrder, Accounted, TypeOK
<1> QED
  BY <1>2, <1>3, <1>4, SoundBooksAccount DEF DeleteOrder, b

(* schedule_production_order.                                              *)
LEMMA ScheduleOrderAccounts ==
  ASSUME Accounted, NEW o \in Orders, ScheduleOrder(o)
  PROVE  Accounted'
<1>1. order' \in [Orders -> Order]
  BY SetStatusIsTyped DEF ScheduleOrder, Statuses, Live
<1> QED
  BY <1>1, UntouchedBooksAccount DEF ScheduleOrder, Accounted, TypeOK

(* Rebuilding the rows from the ledger, and reserving what is missing.     *)
LEMMA HealsAreSound ==
  ASSUME NEW b, Sound(b), NEW q \in Nat
  PROVE  Sound(Backfill(b)) /\ Sound(ReserveMissing(b, q))
<1>1. b.mat \in Rows /\ NetReserved(b.txn) \in Nat
  BY NetReservedIsNat DEF Sound, Books, Rows
<1>2. Sync(b.mat, Ops, NetReserved(b.txn)) \in Rows
  BY <1>1, SyncKeepsRows
<1>3. Sound([b EXCEPT !.mat = Sync(b.mat, Ops, NetReserved(b.txn))])
  BY <1>2, NewRowsAreSound
<1>4. Sound(Reserve(b, Ops, q))
  BY ReserveIsSound
<1> QED
  BY <1>3, <1>4 DEF Backfill, ReserveMissing

(* release_production_order, with its two self-heals.                      *)
LEMMA ReleaseOrderAccounts ==
  ASSUME Accounted, NEW o \in Orders, NEW force \in BOOLEAN, ReleaseOrder(o, force)
  PROVE  Accounted'
<1> DEFINE filled == Backfill(BooksOf(o))
           b == IF force THEN filled ELSE ReserveMissing(filled, order[o].ordered)
<1>1. Sound(BooksOf(o)) /\ order[o].ordered \in Nat
  BY BooksAreSound DEF Order
<1>2. Sound(filled)
  BY <1>1, HealsAreSound
<1> HIDE DEF filled
<1>3. Sound(b)
  BY <1>1, <1>2, HealsAreSound
<1>4. SetStatus(o, "released") /\ SetBooks(o, b) /\ UNCHANGED op
  BY DEF ReleaseOrder, b, filled
<1> HIDE DEF b
<1>5. order' \in [Orders -> Order]
  BY <1>4, SetStatusIsTyped DEF Statuses, Live
<1> QED
  BY <1>3, <1>4, <1>5, SoundBooksAccount DEF Accounted, TypeOK

(* A split writes the books of two orders: the parent's are made sound     *)
(* first, and the child's are opened on the inventory row they leave.      *)
LEMMA SplitOrderAccounts ==
  ASSUME Accounted, NEW o \in Orders, NEW child \in Orders, NEW q \in Quantities,
         SplitOrder(o, child, q)
  PROVE  Accounted'
<1> DEFINE remaining == order[o].ordered - q
           parent    == ReleaseExcess([BooksOf(o) EXCEPT !.mat = Rescale(o, remaining)], remaining)
           opening   == OpeningBooks(parent.inv, q)
<1>1. q \in Nat /\ remaining \in Nat
  BY QuantityAssumption, BooksAreSound DEF SplitOrder, Quantities, Order
<1>2. Rescale(o, remaining) \in Rows
  <2>1. ASSUME NEW i \in Ops PROVE [mat[o][i] EXCEPT !.required = remaining] \in Row
    BY <1>1, BooksAreSound DEF Rows, Row
  <2> HIDE DEF remaining
  <2> QED
    BY <2>1, BooksAreSound DEF Rescale, Rows
<1>3. Sound([BooksOf(o) EXCEPT !.mat = Rescale(o, remaining)])
  BY <1>2, BooksAreSound, NewRowsAreSound
<1>4. Sound(parent)
  BY <1>1, <1>3, ReleaseExcessIsSound
<1>5. /\ parent.inv \in Inv /\ parent.mat \in Rows /\ parent.txn \in Txn
      /\ parent.inv.allocated >= parent.inv.ledgerNet
  BY <1>4 DEF Sound, Books, Rows
<1>6. Sound(opening)
  BY <1>1, <1>5, OpeningBooksAreSound
<1>7. /\ opening.inv \in Inv /\ opening.mat \in Rows /\ opening.txn \in Txn
      /\ opening.inv.allocated >= opening.inv.ledgerNet
  BY <1>6 DEF Sound, Books, Rows
<1>8. /\ inv' = opening.inv
      /\ mat' = [mat EXCEPT ![o] = parent.mat, ![child] = opening.mat]
      /\ txn' = [txn EXCEPT ![o] = parent.txn, ![child] = opening.txn]
      /\ op' = [op EXCEPT ![child] = PendingOps]
      /\ order' = [order EXCEPT ![o].ordered = remaining, ![child] = NewOrder(q)]
  BY DEF SplitOrder
<1>9. [order[o] EXCEPT !.ordered = remaining] \in Order /\ NewOrder(q) \in Order
  BY <1>1, BooksAreSound, WriteOrdered, NewOrderIsOrder
<1> HIDE DEF remaining, parent, opening
<1>10. order' \in [Orders -> Order]
  BY <1>8, <1>9 DEF Accounted, TypeOK
<1>11. op' \in [Orders -> [Ops -> Operation]]
  BY <1>1, <1>8, RoutingIsTyped DEF Accounted, TypeOK
<1>12. mat' \in [Orders -> [Ops -> Row]] /\ txn' \in [Orders -> Txn]
  BY <1>5, <1>7, <1>8 DEF Accounted, TypeOK, Rows
<1> QED
  BY <1>7, <1>8, <1>10, <1>11, <1>12 DEF Accounted, TypeOK, AllocationCoversLedger

(* refresh_production_order_routing.                                       *)
LEMMA RefreshRoutingAccounts ==
  ASSUME Accounted, NEW o \in Orders, RefreshRouting(o)
  PROVE  Accounted'
<1>1. PendingOps \in [Ops -> Operation] /\ RoutedRows(order[o].ordered) \in Rows
  BY BooksAreSound, RoutingIsTyped DEF Order
<1>2. Sound(ReplaceRows(BooksOf(o), RoutedRows(order[o].ordered)))
  BY <1>1, BooksAreSound, ReplaceRowsIsSound
<1>3. order' \in [Orders -> Order] /\ op' \in [Orders -> [Ops -> Operation]]
  BY <1>1 DEF RefreshRouting, Accounted, TypeOK
<1> QED
  BY <1>2, <1>3, SoundBooksAccount DEF RefreshRouting

-----------------------------------------------------------------------------
(* The shop floor.                                                         *)

(* Moving one operation to another status.                                 *)
LEMMA OperationStatusIsTyped ==
  ASSUME Accounted, NEW o \in Orders, NEW i \in Ops, NEW s \in OpStatuses
  PROVE  /\ [op[o] EXCEPT ![i].status = s] \in [Ops -> Operation]
         /\ [op EXCEPT ![o][i].status = s] \in [Orders -> [Ops -> Operation]]
<1>1. op \in [Orders -> [Ops -> Operation]] /\ op[o] \in [Ops -> Operation]
  BY DEF Accounted, TypeOK
<1>2. [op[o][i] EXCEPT !.status = s] \in Operation
  BY <1>1 DEF Operation
<1> QED
  BY <1>1, <1>2

(* Queueing an operation on a resource and taking it back.                 *)
LEMMA DispatchAccounts ==
  ASSUME Accounted, NEW o \in Orders, NEW i \in Ops,
         QueueOperation(o, i) \/ UnscheduleOperation(o, i)
  PROVE  Accounted'
<1>1. "queued" \in OpStatuses /\ "pending" \in OpStatuses
  BY DEF OpStatuses
<1>2. CASE QueueOperation(o, i)
  <2> DEFINE n == order[o].reopened + IF Done(op[o][i].status) THEN 1 ELSE 0
  <2>1. order[o] \in Order /\ n \in Nat
    BY BooksAreSound DEF Order
  <2>2. order' = [order EXCEPT ![o] = [order[o] EXCEPT !.reopened = n]]
    BY <1>2 DEF QueueOperation
  <2> HIDE DEF n
  <2>3. order' \in [Orders -> Order]
    BY <2>1, <2>2, WriteReopened, WriteOrder DEF Accounted, TypeOK
  <2>4. op' = [op EXCEPT ![o][i].status = "queued"] /\ UNCHANGED <<mat, txn, inv>>
    BY <1>2 DEF QueueOperation, UnchangedBooks
  <2> QED
    BY <1>1, <2>3, <2>4, OperationStatusIsTyped, UntouchedBooksAccount
<1>3. CASE UnscheduleOperation(o, i)
  BY <1>1, <1>3, OperationStatusIsTyped, UntouchedBooksAccount
     DEF UnscheduleOperation, Accounted, TypeOK
<1> QED
  BY <1>2, <1>3

(* start_operation and skip_operation.                                     *)
LEMMA StartOrSkipAccounts ==
  ASSUME Accounted, NEW o \in Orders, NEW i \in Ops,
         StartOperation(o, i) \/ SkipOperation(o, i)
  PROVE  Accounted'
<1>1. Sound(BooksOf(o)) /\ order[o] \in Order
  BY BooksAreSound
<1>2. CASE StartOperation(o, i)
  <2>1. [op[o] EXCEPT ![i].status = "running"] \in [Ops -> Operation]
    BY OperationStatusIsTyped DEF OpStatuses
  <2> QED
    BY <1>1, <1>2, <2>1, UpdatePoStatusAccounts DEF StartOperation
<1>3. CASE SkipOperation(o, i)
  <2>1. [op[o] EXCEPT ![i].status = "skipped"] \in [Ops -> Operation]
    BY OperationStatusIsTyped DEF OpStatuses
  <2> QED
    BY <1>1, <1>3, <2>1, UpdatePoStatusAccounts DEF SkipOperation
<1> QED
  BY <1>2, <1>3

(* Skipping the operations that have nothing left to work on.              *)
LEMMA SkipLaterIsTyped ==
  ASSUME NEW ops \in [Ops -> Operation], NEW i \in Ops
  PROVE  SkipLater(ops, i) \in [Ops -> Operation]
<1>1. ASSUME NEW j \in Ops PROVE [ops[j] EXCEPT !.status = "skipped"] \in Operation
  BY DEF Operation, OpStatuses
<1> QED
  BY <1>1 DEF SkipLater

(* complete_operation, with its scrap, consumption and skips.              *)
LEMMA CompleteOperationAccounts ==
  ASSUME Accounted, NEW o \in Orders, NEW i \in Ops, NEW good \in Counts, NEW bad \in Counts,
         CompleteOperation(o, i, good, bad)
  PROVE  Accounted'
<1> DEFINE w     == [order[o] EXCEPT !.completed = good, !.scrapped = @ + bad]
           worse == IF bad = 0 THEN 0 ELSE op[o][i].bad + bad
           ops   == [op[o] EXCEPT ![i] = [status |-> "complete", good |-> good, bad |-> worse]]
           next  == IF good = 0 THEN SkipLater(ops, i) ELSE ops
<1>1. good \in Nat /\ bad \in Nat
  BY DEF Counts
<1>2. w \in Order
  <2>1. order[o] \in Order /\ order[o].scrapped + bad \in Nat
    BY <1>1, BooksAreSound DEF Order
  <2>2. [order[o] EXCEPT !.completed = good] \in Order
    BY <1>1, <2>1, WriteCompleted
  <2>3. [[order[o] EXCEPT !.completed = good] EXCEPT !.scrapped = order[o].scrapped + bad] \in Order
    BY <2>1, <2>2, WriteScrapped
  <2> QED
    BY <2>3
<1>3. worse \in Nat
  BY <1>1, BooksAreSound DEF Operation
<1> HIDE DEF worse
<1>4. ops \in [Ops -> Operation]
  BY <1>1, <1>3, BooksAreSound DEF Operation, OpStatuses
<1> HIDE DEF ops
<1>5. next \in [Ops -> Operation]
  BY <1>4, SkipLaterIsTyped
<1>6. Sound(ConsumeRow(BooksOf(o), i))
  BY BooksAreSound, ConsumeRowIsSound
<1>7. UpdatePoStatus(o, w, next, ConsumeRow(BooksOf(o), i))
  BY DEF CompleteOperation, ops, worse
<1> HIDE DEF w, next
<1> QED
  BY <1>2, <1>5, <1>6, <1>7, UpdatePoStatusAccounts

(* process_operation_scrap.                                                *)
LEMMA ScrapOperationAccounts ==
  ASSUME Accounted, NEW o \in Orders, NEW i \in Ops, NEW q \in Quantities,
         ScrapOperation(o, i, q)
  PROVE  Accounted'
<1> DEFINE bad  == op[o][i].bad + q
           ops  == [op[o] EXCEPT ![i].bad = bad]
           gone == op[o][i].status = "complete" /\ op[o][i].good <= bad
           next == IF gone THEN SkipLater(ops, i) ELSE ops
<1>1. op[o] \in [Ops -> Operation] /\ order[o] \in Order /\ q \in Nat
  BY BooksAreSound, QuantityAssumption DEF Quantities
<1>2. bad \in Nat /\ order[o].scrapped + q \in Nat
  BY <1>1 DEF Operation, Order
<1>3. ops \in [Ops -> Operation]
  <2>1. [op[o][i] EXCEPT !.bad = bad] \in Operation
    <3> HIDE DEF bad
    <3> QED
      BY <1>1, <1>2 DEF Operation
  <2> HIDE DEF bad
  <2> QED
    BY <1>1, <2>1
<1>4. order' = [order EXCEPT ![o] = [order[o] EXCEPT !.scrapped = order[o].scrapped + q]]
  BY DEF ScrapOperation
<1>5. op' = [op EXCEPT ![o] = next] /\ UnchangedBooks
  BY DEF ScrapOperation
<1> HIDE DEF bad, ops, gone
<1>6. next \in [Ops -> Operation]
  BY <1>3, SkipLaterIsTyped
<1>7. [order[o] EXCEPT !.scrapped = order[o].scrapped + q] \in Order
  BY <1>1, <1>2, WriteScrapped
<1> HIDE DEF next
<1>8. order' \in [Orders -> Order] /\ op' \in [Orders -> [Ops -> Operation]]
  BY <1>4, <1>5, <1>6, <1>7, WriteOrder DEF Accounted, TypeOK
<1> QED
  BY <1>5, <1>8, UntouchedBooksAccount DEF UnchangedBooks

(* start_production_order.                                                 *)
LEMMA StartOrderAccounts ==
  ASSUME Accounted, NEW o \in Orders, StartOrder(o)
  PROVE  Accounted'
<1>1. order' \in [Orders -> Order]
  BY SetStatusIsTyped DEF StartOrder, Statuses, Live
<1>2. op \in [Orders -> [Ops -> Operation]]
  BY DEF Accounted, TypeOK
<1>3. ASSUME NEW i \in Ops PROVE [op[o][i] EXCEPT !.status = "running"] \in Operation
  BY <1>2 DEF Operation, OpStatuses
<1>4. FirstRunning(op[o]) \in [Ops -> Operation]
  BY <1>2, <1>3 DEF FirstRunning
<1>5. op' \in [Orders -> [Ops -> Operation]]
  BY <1>2, <1>4 DEF StartOrder
<1> QED
  BY <1>1, <1>5, UntouchedBooksAccount DEF StartOrder, UnchangedBooks

(* hold_production_order.                                                  *)
LEMMA HoldOrderAccounts ==
  ASSUME Accounted, NEW o \in Orders, HoldOrder(o)
  PROVE  Accounted'
<1>1. order' \in [Orders -> Order]
  BY SetStatusIsTyped DEF HoldOrder, Statuses, Live
<1> QED
  BY <1>1, UntouchedBooksAccount DEF HoldOrder, Accounted, TypeOK

-----------------------------------------------------------------------------
(* Closing.                                                                *)

(* Every operation of the order becomes complete.                          *)
LEMMA AllCompleteIsTyped ==
  ASSUME NEW ops \in [Ops -> Operation]
  PROVE  AllComplete(ops) \in [Ops -> Operation]
<1>1. ASSUME NEW i \in Ops PROVE [ops[i] EXCEPT !.status = "complete"] \in Operation
  BY DEF Operation, OpStatuses
<1> QED
  BY <1>1 DEF AllComplete

(* complete_production_order.                                              *)
LEMMA CompleteOrderAccounts ==
  ASSUME Accounted, NEW o \in Orders, NEW good \in Counts, NEW bad \in Counts,
         NEW force \in BOOLEAN, CompleteOrder(o, good, bad, force)
  PROVE  Accounted'
<1> DEFINE w == Reported(Finished(order[o]), good, bad)
<1>1. good \in Nat /\ bad \in Nat
  BY DEF Counts
<1>2. w \in Order
  <2>1. Finished(order[o]) \in Order
    BY BooksAreSound, FinishedIsOrder DEF Finished, Statuses, Live
  <2> DEFINE f == Finished(order[o])
             c == f.completed + good
             s == f.scrapped + bad
  <2>2. f \in Order /\ c \in Nat /\ s \in Nat
    BY <1>1, <2>1 DEF Order
  <2> HIDE DEF f, c, s
  <2>3. [f EXCEPT !.completed = c] \in Order
    BY <2>2, WriteCompleted
  <2>4. [[f EXCEPT !.completed = c] EXCEPT !.scrapped = s] \in Order
    BY <2>2, <2>3, WriteScrapped
  <2>5. w = [f EXCEPT !.completed = c, !.scrapped = s]
    BY DEF Reported, f, c, s
  <2> QED
    BY <2>4, <2>5
<1>3. order' = [order EXCEPT ![o] = w] /\ op' = [op EXCEPT ![o] = AllComplete(op[o])]
  BY DEF CompleteOrder
<1> HIDE DEF w
<1>4. order' \in [Orders -> Order] /\ op' \in [Orders -> [Ops -> Operation]]
  BY <1>2, <1>3, BooksAreSound, AllCompleteIsTyped, WriteOrder DEF Accounted, TypeOK
<1>5. Sound(Completion(BooksOf(o), mat[o], order[o].ordered, good))
  BY <1>1, BooksAreSound, CompletionIsSound DEF Order
<1> QED
  BY <1>4, <1>5, SoundBooksAccount DEF CompleteOrder

(* accept_short_production_order.                                          *)
LEMMA AcceptShortAccounts ==
  ASSUME Accounted, NEW o \in Orders, AcceptShort(o)
  PROVE  Accounted'
<1>1. order[o].completed \in Nat
  BY BooksAreSound DEF Order
<1>2. Sound(Receive(ConsumeStage(BooksOf(o), mat[o], order[o].completed), order[o].completed))
  BY <1>1, BooksAreSound, ConsumeStageIsSound, ReceiveIsSound
<1>3. Finished(order[o]) \in Order
  BY BooksAreSound, FinishedIsOrder DEF Finished, Statuses, Live
<1>4. order' \in [Orders -> Order] /\ op' \in [Orders -> [Ops -> Operation]]
  BY <1>3, BooksAreSound, AllCompleteIsTyped, WriteOrder DEF AcceptShort, Accounted, TypeOK
<1> QED
  BY <1>2, <1>4, SoundBooksAccount DEF AcceptShort

(* Closing an order of which everything was scrapped.                      *)
LEMMA CloseScrappedAccounts ==
  ASSUME Accounted, NEW o \in Orders, CloseScrapped(o)
  PROVE  Accounted'
<1>1. [[order[o] EXCEPT !.status = "scrapped"] EXCEPT !.ended = TRUE] \in Order
  BY BooksAreSound, WriteStatus, WriteEnded DEF Statuses, Live
<1>2. order' = [order EXCEPT ![o] = [[order[o] EXCEPT !.status = "scrapped"] EXCEPT !.ended = TRUE]]
  BY DEF CloseScrapped, Accounted, TypeOK
<1>3. order' \in [Orders -> Order]
  BY <1>1, <1>2, WriteOrder DEF Accounted, TypeOK
<1>4. Sound(ReleaseAll(BooksOf(o), mat[o]))
  BY BooksAreSound, ReleaseAllIsSound
<1> QED
  BY <1>3, <1>4, SoundBooksAccount DEF CloseScrapped, Accounted, TypeOK

(* Recording scrap on an order.                                            *)
LEMMA ScrappedIsOrder ==
  ASSUME NEW w \in Order, NEW q \in Nat
  PROVE  Scrapped(w, q) \in Order
<1> DEFINE c == w.scrapped + q
           s == IF /\ w.completed = 0 /\ w.scrapped + q >= w.ordered
                   /\ w.status \in {"draft", "released", "scheduled",
                                    "in_progress", "short", "on_hold"}
                  THEN "scrapped" ELSE w.status
<1>1. c \in Nat /\ s \in Statuses
  BY DEF Order, Statuses, Live
<1>2. Scrapped(w, q) = [w EXCEPT !.scrapped = c, !.status = s]
  BY DEF Scrapped
<1> HIDE DEF c, s
<1>3. [w EXCEPT !.scrapped = c] \in Order
  BY <1>1, WriteScrapped
<1>4. [[w EXCEPT !.scrapped = c] EXCEPT !.status = s] \in Order
  BY <1>1, <1>3, WriteStatus
<1> QED
  BY <1>2, <1>4

(* A write-off takes finished goods that are there.                        *)
LEMMA WriteOffIsTyped ==
  ASSUME NEW v \in Inv, NEW n \in Nat, n <= v.fg
  PROVE  /\ [v EXCEPT !.fg = @ - n] \in Inv
         /\ [v EXCEPT !.fg = @ - n].allocated = v.allocated
         /\ [v EXCEPT !.fg = @ - n].ledgerNet = v.ledgerNet
<1>1. v.fg - n \in Nat
  BY DEF Inv
<1> QED
  BY <1>1 DEF Inv

(* record_scrap.                                                           *)
LEMMA RecordScrapAccounts ==
  ASSUME Accounted, NEW o \in Orders, NEW q \in Quantities, RecordScrap(o, q)
  PROVE  Accounted'
<1>1. q \in Nat /\ WriteOff(o, q) \in Nat
  BY DEF Quantities, WriteOff
<1>2. Scrapped(order[o], q) \in Order
  BY <1>1, BooksAreSound, ScrappedIsOrder
<1>3. order' \in [Orders -> Order]
  BY <1>2, WriteOrder DEF RecordScrap, Accounted, TypeOK
<1>4. inv' \in Inv /\ inv'.allocated = inv.allocated /\ inv'.ledgerNet = inv.ledgerNet
  BY <1>1, BooksAreSound, WriteOffIsTyped DEF RecordScrap
<1> QED
  BY <1>3, <1>4 DEF RecordScrap, Accounted, TypeOK, AllocationCoversLedger

(* record_scrap with a remake order.                                       *)
LEMMA RecordScrapAndRemakeAccounts ==
  ASSUME Accounted, NEW o \in Orders, NEW remake \in Orders, NEW q \in Quantities,
         RecordScrapAndRemake(o, remake, q)
  PROVE  Accounted'
<1> DEFINE v       == [inv EXCEPT !.fg = @ - WriteOff(o, q)]
           opening == OpeningBooks(v, q)
<1>1. q \in Nat /\ WriteOff(o, q) \in Nat
  BY DEF Quantities, WriteOff
<1>2. v \in Inv /\ v.allocated >= v.ledgerNet
  BY <1>1, BooksAreSound, WriteOffIsTyped
     DEF RecordScrapAndRemake, Accounted, AllocationCoversLedger
<1> HIDE DEF v
<1>3. Sound(opening)
  BY <1>1, <1>2, OpeningBooksAreSound
<1>4. Scrapped(order[o], q) \in Order /\ NewOrder(q) \in Order /\ PendingOps \in [Ops -> Operation]
  BY <1>1, BooksAreSound, ScrappedIsOrder, NewOrderIsOrder, RoutingIsTyped
<1>5. order' \in [Orders -> Order] /\ op' \in [Orders -> [Ops -> Operation]]
  BY <1>4 DEF RecordScrapAndRemake, Accounted, TypeOK
<1>6. SetBooks(remake, opening)
  BY DEF RecordScrapAndRemake, v
<1> HIDE DEF opening
<1> QED
  BY <1>3, <1>5, <1>6, SoundBooksAccount

(* cancel_production_order.                                                *)
LEMMA CancelOrderAccounts ==
  ASSUME Accounted, NEW o \in Orders, CancelOrder(o)
  PROVE  Accounted'
<1>1. order' \in [Orders -> Order]
  BY SetStatusIsTyped DEF CancelOrder, Statuses, Live
<1>2. Sound(ReleaseAll(BooksOf(o), mat[o]))
  BY BooksAreSound, ReleaseAllIsSound
<1> QED
  BY <1>1, <1>2, SoundBooksAccount DEF CancelOrder, Accounted, TypeOK

-----------------------------------------------------------------------------
(* Quality and stock control.                                              *)

(* record_qc_inspection.                                                   *)
LEMMA RecordInspectionAccounts ==
  ASSUME Accounted, NEW o \in Orders, NEW result \in {"passed", "failed"},
         NEW targets \in SUBSET Ops, RecordInspection(o, result, targets)
  PROVE  Accounted'
<1> DEFINE qty    == IF order[o].completed = 0 THEN order[o].ordered ELSE order[o].completed
           passed == IF result = "passed" THEN qty ELSE 0
           report == [status |-> "complete", good |-> passed, bad |-> qty - passed]
           n      == order[o].inspections + 1
           s      == IF result = "failed" THEN "qc_hold"
                     ELSE IF order[o].status = "qc_hold" THEN "complete" ELSE order[o].status
           w      == [order[o] EXCEPT !.qc = result, !.inspections = n, !.status = s]
<1>1. order[o] \in Order /\ op[o] \in [Ops -> Operation]
  BY BooksAreSound
<1>2. qty \in Nat /\ n \in Nat /\ s \in Statuses
  BY <1>1 DEF Order, Statuses, Live
<1>3. report \in Operation
  <2> HIDE DEF qty
  <2>1. passed \in Nat /\ qty - passed \in Nat
    BY <1>2
  <2> QED
    BY <2>1 DEF Operation, OpStatuses
<1>4. w \in Order
  <2> HIDE DEF n, s
  <2>1. [order[o] EXCEPT !.qc = result] \in Order
    BY <1>1, WriteQc
  <2>2. [[order[o] EXCEPT !.qc = result] EXCEPT !.inspections = n] \in Order
    BY <1>2, <2>1, WriteInspections
  <2>3. [[[order[o] EXCEPT !.qc = result] EXCEPT !.inspections = n] EXCEPT !.status = s] \in Order
    BY <1>2, <2>2, WriteStatus
  <2> QED
    BY <2>3
<1>5. order' = [order EXCEPT ![o] = w]
  BY DEF RecordInspection, Accounted, TypeOK
<1>6. op' = [op EXCEPT ![o] = [i \in Ops |-> IF i \in targets THEN report ELSE op[o][i]]]
  BY DEF RecordInspection
<1> HIDE DEF w, report
<1>7. order' \in [Orders -> Order] /\ op' \in [Orders -> [Ops -> Operation]]
  BY <1>1, <1>3, <1>4, <1>5, <1>6, WriteOrder DEF Accounted, TypeOK
<1> QED
  BY <1>7, UntouchedBooksAccount DEF RecordInspection, UnchangedBooks

(* Deciding about a held consumption: on-hand and one posting change.      *)
LEMMA HeldRowAccounts ==
  ASSUME Accounted, NEW o \in Orders, NEW i \in Ops, ApproveHeld(o, i) \/ RejectHeld(o, i)
  PROVE  Accounted'
<1>1. mat \in [Orders -> [Ops -> Row]] /\ inv \in Inv /\ inv.allocated >= inv.ledgerNet
  BY DEF Accounted, TypeOK, AllocationCoversLedger
<1>2. ASSUME NEW p \in Postings
      PROVE  [mat EXCEPT ![o][i].posting = p] \in [Orders -> [Ops -> Row]]
  <2>1. [mat[o][i] EXCEPT !.posting = p] \in Row
    BY <1>1 DEF Row
  <2> QED
    BY <1>1, <2>1
<1>3. mat' \in [Orders -> [Ops -> Row]]
  BY <1>2 DEF ApproveHeld, RejectHeld, Postings
<1>4. inv.onHand - mat[o][i].required \in Int
  BY <1>1 DEF Inv, Row
<1>5. inv' \in Inv /\ inv'.allocated >= inv'.ledgerNet
  BY <1>1, <1>4 DEF ApproveHeld, RejectHeld, Inv
<1> QED
  BY <1>3, <1>5 DEF ApproveHeld, RejectHeld, Accounted, TypeOK, AllocationCoversLedger

(* Approving or rejecting a held BOM backflush.                            *)
LEMMA HeldBomAccounts ==
  ASSUME Accounted, NEW o \in Orders, ApproveHeldBom(o) \/ RejectHeldBom(o)
  PROVE  Accounted'
<1>1. txn \in [Orders -> Txn] /\ inv \in Inv /\ inv.allocated >= inv.ledgerNet
  BY DEF Accounted, TypeOK, AllocationCoversLedger
<1>2. ASSUME NEW p \in Postings PROVE [txn EXCEPT ![o].bom = p] \in [Orders -> Txn]
  <2>1. [txn[o] EXCEPT !.bom = p] \in Txn
    BY <1>1 DEF Txn
  <2> QED
    BY <1>1, <2>1
<1>3. txn' \in [Orders -> Txn]
  BY <1>2 DEF ApproveHeldBom, RejectHeldBom, Postings
<1>4. inv.onHand - txn[o].bomQty \in Int
  BY <1>1 DEF Inv, Txn
<1>5. inv' \in Inv /\ inv'.allocated >= inv'.ledgerNet
  BY <1>1, <1>4 DEF ApproveHeldBom, RejectHeldBom, Inv
<1> QED
  BY <1>3, <1>5 DEF ApproveHeldBom, RejectHeldBom, Accounted, TypeOK, AllocationCoversLedger

(* Approving what a replaced row left behind.                              *)
LEMMA ApproveLeftAccounts ==
  ASSUME Accounted, NEW o \in Orders, NEW k \in DOMAIN txn[o].left, ApproveLeft(o, k)
  PROVE  Accounted'
<1> DEFINE q == txn[o].left[k]
           a == txn[o].applied + q
           l == [txn[o].left EXCEPT ![k] = 0]
<1>1. /\ txn \in [Orders -> Txn] /\ inv \in Inv /\ inv.allocated >= inv.ledgerNet
      /\ txn[o] \in Txn
  BY DEF Accounted, TypeOK, AllocationCoversLedger
<1>2. txn[o].left \in Seq(Nat) /\ txn[o].applied \in Nat
  BY <1>1, LedgerColumns
<1>3. q \in Nat /\ a \in Nat /\ l \in Seq(Nat)
  BY <1>2
<1>4. txn' = [txn EXCEPT ![o] = [txn[o] EXCEPT !.left = l, !.applied = a]]
  BY <1>1 DEF ApproveLeft
<1>5. inv' = [inv EXCEPT !.onHand = inv.onHand - q]
  BY DEF ApproveLeft
<1> HIDE DEF q, a, l
<1>6. [txn[o] EXCEPT !.left = l, !.applied = a] \in Txn
  <2>1. [txn[o] EXCEPT !.left = l] \in Txn
    BY <1>1, <1>3 DEF Txn
  <2>2. [[txn[o] EXCEPT !.left = l] EXCEPT !.applied = a] \in Txn
    BY <1>3, <2>1 DEF Txn
  <2> QED
    BY <2>2
<1>7. txn' \in [Orders -> Txn]
  BY <1>1, <1>4, <1>6
<1>8. inv.onHand - q \in Int
  BY <1>1, <1>3 DEF Inv
<1>9. inv' \in Inv /\ inv'.allocated >= inv'.ledgerNet
  BY <1>1, <1>5, <1>8 DEF Inv
<1> QED
  BY <1>7, <1>9 DEF ApproveLeft, Accounted, TypeOK, AllocationCoversLedger

(* release_stranded_reservations.                                          *)
LEMMA RepairStrandedAccounts ==
  ASSUME Accounted, NEW o \in Orders, RepairStranded(o)
  PROVE  Accounted'
<1>1. Sound(ReleaseStranded(BooksOf(o)))
  BY BooksAreSound, ReleaseStrandedIsSound
<1> QED
  BY <1>1, SoundBooksAccount DEF RepairStranded, Accounted, TypeOK

-----------------------------------------------------------------------------
(* The invariant.                                                          *)

(* A new database is accounted for.                                        *)
LEMMA InitAccounts == Init => Accounted
<1> SUFFICES ASSUME Init PROVE Accounted
  OBVIOUS
<1>1. NoOrder \in Order /\ PendingOps \in [Ops -> Operation] /\ RoutedRows(0) \in Rows
  BY NewOrderIsOrder, RoutingIsTyped
<1>2. NoTxn \in Txn
  BY DEF NoTxn, Txn, Postings
<1>3. PICK q \in StockLevels : inv = [onHand |-> q, allocated |-> 0, fg |-> 0, ledgerNet |-> 0]
  BY DEF Init
<1>4. inv \in Inv /\ inv.allocated >= inv.ledgerNet
  BY <1>3, OrdersAssumption DEF Inv
<1> QED
  BY <1>1, <1>2, <1>4 DEF Init, Accounted, TypeOK, AllocationCoversLedger, Rows

(* Every handler leaves it accounted for.                                  *)
LEMMA NextAccounts == Accounted /\ [Next]_vars => Accounted'
<1> SUFFICES ASSUME Accounted, [Next]_vars PROVE Accounted'
  OBVIOUS
<1>1. CASE UNCHANGED vars
  BY <1>1 DEF vars, Accounted, TypeOK, AllocationCoversLedger
<1>2. ASSUME NEW o \in Orders, Planning(o) PROVE Accounted'
  BY <1>2, CreateOrderAccounts, UpdateQuantityAccounts, DeleteOrderAccounts,
     ScheduleOrderAccounts, ReleaseOrderAccounts, SplitOrderAccounts, RefreshRoutingAccounts
     DEF Planning
<1>3. ASSUME NEW o \in Orders, Floor(o) PROVE Accounted'
  BY <1>3, DispatchAccounts, StartOrSkipAccounts, CompleteOperationAccounts,
     ScrapOperationAccounts, StartOrderAccounts, HoldOrderAccounts DEF Floor
<1>4. ASSUME NEW o \in Orders, Closing(o) PROVE Accounted'
  BY <1>4, CompleteOrderAccounts, AcceptShortAccounts, CloseScrappedAccounts,
     RecordScrapAccounts, RecordScrapAndRemakeAccounts, CancelOrderAccounts DEF Closing
<1>5. ASSUME NEW o \in Orders, Control(o) PROVE Accounted'
  <2>1. ASSUME NEW t \in {{}} \cup {{i} : i \in Ops} PROVE t \in SUBSET Ops
    BY <2>1
  <2> QED
    BY <1>5, <2>1, RecordInspectionAccounts, HeldRowAccounts, HeldBomAccounts,
       ApproveLeftAccounts, RepairStrandedAccounts DEF Control
<1> QED
  BY <1>1, <1>2, <1>3, <1>4, <1>5 DEF Next

(* Every reachable state is accounted for.                                 *)
THEOREM AlwaysAccounted == Spec => []Accounted
<1>1. Init => Accounted
  BY InitAccounts
<1>2. Accounted /\ [Next]_vars => Accounted'
  BY NextAccounts
<1>3. QED
  BY <1>1, <1>2, PTL DEF Spec

(* The tables keep their types: in particular quantities that the code     *)
(* subtracts from (allocated, finished goods) never become negative.       *)
THEOREM TypeCorrect == Spec => []TypeOK
<1>1. Accounted => TypeOK
  BY DEF Accounted
<1>2. QED
  BY <1>1, AlwaysAccounted, PTL

(* The inventory row never promises stock that the ledger says is taken.   *)
THEOREM LedgerIsCovered == Spec => []AllocationCoversLedger
<1>1. Accounted => AllocationCoversLedger
  BY DEF Accounted
<1>2. QED
  BY <1>1, AlwaysAccounted, PTL

-----------------------------------------------------------------------------
(* What the operations on the books of an order leave in balance.          *)

(* What an order has reserved and not released, below zero where releases  *)
(* outran it.                                                              *)
Held(t) == t.reserved - t.released

Applied == {"posted", "approved"}
Consumed == Postings \ {"none"}

(* Reservations and releases alone: they move the inventory row with the   *)
(* ledger, and leave what is required and what is consumed.                *)
Quiet(b, c) ==
    /\ \A i \in Ops : /\ c.mat[i].posting = b.mat[i].posting
                      /\ c.mat[i].required = b.mat[i].required
    /\ c.txn.bom = b.txn.bom /\ c.txn.bomQty = b.txn.bomQty
    /\ c.txn.consumed = b.txn.consumed
    /\ c.txn.replaced = b.txn.replaced /\ c.txn.applied = b.txn.applied
    /\ c.txn.receipts = b.txn.receipts
    /\ c.inv.onHand = b.inv.onHand
    /\ c.inv.ledgerNet - Held(c.txn) = b.inv.ledgerNet - Held(b.txn)

(* What an order took off on-hand, and what it consumed, with the part     *)
(* that no row shows any more.                                             *)
Stock(m, t) == Used(m, t, Applied) + t.applied
Spent(m, t) == Used(m, t, Consumed) + t.replaced

(* Three accounts agree after a step as far as they did before.            *)
Tallies(b, c) ==
    /\ c.inv.ledgerNet - Held(c.txn) = b.inv.ledgerNet - Held(b.txn)
    /\ c.inv.onHand + Stock(c.mat, c.txn) = b.inv.onHand + Stock(b.mat, b.txn)
    /\ c.txn.consumed - Spent(c.mat, c.txn) = b.txn.consumed - Spent(b.mat, b.txn)

(* They do, no row is replaced, and one that is consumed stays so.         *)
Balanced(b, c) ==
    /\ c.inv.ledgerNet - Held(c.txn) = b.inv.ledgerNet - Held(b.txn)
    /\ c.inv.onHand + Used(c.mat, c.txn, Applied) = b.inv.onHand + Used(b.mat, b.txn, Applied)
    /\ c.txn.consumed - Used(c.mat, c.txn, Consumed) = b.txn.consumed - Used(b.mat, b.txn, Consumed)
    /\ c.txn.replaced = b.txn.replaced /\ c.txn.applied = b.txn.applied
    /\ \A i \in Ops : b.mat[i].posting # "none" =>
         c.mat[i].required = b.mat[i].required /\ c.mat[i].posting # "none"

(* The types of the columns of sound books.                                *)
LEMMA SoundTypes ==
  ASSUME NEW b, Sound(b)
  PROVE  /\ b.mat \in Rows /\ b.txn \in Txn /\ b.inv \in Inv
         /\ \A i \in Ops : b.mat[i] \in Row /\ b.mat[i].required \in Nat /\ b.mat[i].allocated \in Nat
         /\ b.txn.reserved \in Nat /\ b.txn.released \in Nat /\ b.txn.consumed \in Nat
         /\ b.txn.bomQty \in Nat /\ b.txn.receipts \in Nat
         /\ b.txn.replaced \in Nat /\ b.txn.applied \in Nat
         /\ b.inv.onHand \in Int /\ b.inv.ledgerNet \in Int
         /\ Held(b.txn) \in Int
<1>1. b.mat \in Rows /\ b.txn \in Txn /\ b.inv \in Inv
  BY DEF Sound, Books, Rows
<1>2. \A i \in Ops : b.mat[i] \in Row /\ b.mat[i].required \in Nat /\ b.mat[i].allocated \in Nat
  BY <1>1 DEF Rows, Row
<1>3. b.inv.onHand \in Int /\ b.inv.ledgerNet \in Int
  BY <1>1 DEF Inv
<1>4. b.txn.reserved \in Nat /\ b.txn.released \in Nat
  BY <1>1, LedgerColumns
<1> QED
  BY <1>1, <1>2, <1>3, <1>4, LedgerColumns DEF Held

(* What one row contributes.                                               *)
RowUse(m, P, i) == IF i \in Ops /\ m[i].posting \in P THEN m[i].required ELSE 0
BomUse(t, P) == IF t.bom \in P THEN t.bomQty ELSE 0

(* What was used is the sum over the two rows and the BOM line.            *)
LEMMA UsedIs ==
  ASSUME NEW m \in Rows, NEW t \in Txn, NEW P
  PROVE  /\ Used(m, t, P) = RowUse(m, P, 1) + RowUse(m, P, 2) + BomUse(t, P)
         /\ RowUse(m, P, 1) \in Nat /\ RowUse(m, P, 2) \in Nat /\ BomUse(t, P) \in Nat
         /\ Used(m, t, P) \in Nat
<1> DEFINE S == {j \in DOMAIN m : m[j].posting \in P}
<1>1. \A i : RequiredAt(m, S, i) = RowUse(m, P, i)
  BY DEF RequiredAt, RowUse, Rows
<1>2. \A i : RowUse(m, P, i) \in Nat
  BY DEF RowUse, Rows, Row
<1>3. BomUse(t, P) \in Nat
  BY LedgerColumns DEF BomUse
<1> HIDE DEF S
<1>4. Used(m, t, P) = RowUse(m, P, 1) + RowUse(m, P, 2) + BomUse(t, P)
  BY <1>1 DEF Used, RowsUsed, BomUse, S
<1> QED
  BY <1>2, <1>3, <1>4

(* It depends on postings and requirements only.                           *)
LEMMA UsedSame ==
  ASSUME NEW m \in Rows, NEW t \in Txn, NEW n \in Rows, NEW u \in Txn, NEW P,
         \A i \in Ops : n[i].posting = m[i].posting /\ n[i].required = m[i].required,
         u.bom = t.bom, u.bomQty = t.bomQty
  PROVE  Used(n, u, P) = Used(m, t, P)
<1>1. \A i : RowUse(n, P, i) = RowUse(m, P, i)
  BY DEF RowUse
<1>2. BomUse(u, P) = BomUse(t, P)
  BY DEF BomUse
<1> QED
  BY <1>1, <1>2, UsedIs

(* Reservations and releases disturb no balance.                           *)
LEMMA QuietIsBalanced ==
  ASSUME NEW b, Sound(b), NEW c, Sound(c), Quiet(b, c)
  PROVE  Balanced(b, c)
<1>1. b.mat \in Rows /\ b.txn \in Txn /\ c.mat \in Rows /\ c.txn \in Txn
  BY SoundTypes
<1>2. \A P : Used(c.mat, c.txn, P) = Used(b.mat, b.txn, P)
  BY <1>1, UsedSame DEF Quiet
<1> QED
  BY <1>2 DEF Quiet, Balanced

(* One after another they are still quiet.                                 *)
LEMMA QuietTwice ==
  ASSUME NEW b, NEW c, NEW d, Quiet(b, c), Quiet(c, d)
  PROVE  Quiet(b, d)
  BY DEF Quiet

(* Balanced steps compose.                                                 *)
LEMMA BalancedTwice ==
  ASSUME NEW b, NEW c, NEW d, Balanced(b, c), Balanced(c, d)
  PROVE  Balanced(b, d)
  BY DEF Balanced

(* A balanced step leaves the three accounts in agreement.                 *)
LEMMA BalancedTallies ==
  ASSUME NEW b, Sound(b), NEW c, Sound(c), Balanced(b, c)
  PROVE  Tallies(b, c)
<1>1. /\ Used(b.mat, b.txn, Applied) \in Int /\ Used(c.mat, c.txn, Applied) \in Int
      /\ Used(b.mat, b.txn, Consumed) \in Int /\ Used(c.mat, c.txn, Consumed) \in Int
      /\ b.inv.onHand \in Int /\ c.inv.onHand \in Int
      /\ b.txn.consumed \in Int /\ c.txn.consumed \in Int
      /\ b.txn.replaced \in Int /\ b.txn.applied \in Int
  BY SoundTypes, UsedIs
<1>2. c.inv.onHand + Stock(c.mat, c.txn) = b.inv.onHand + Stock(b.mat, b.txn)
  BY <1>1 DEF Balanced, Stock
<1>3. c.txn.consumed - Spent(c.mat, c.txn) = b.txn.consumed - Spent(b.mat, b.txn)
  <2>1. /\ c.txn.consumed - Used(c.mat, c.txn, Consumed)
              = b.txn.consumed - Used(b.mat, b.txn, Consumed)
        /\ c.txn.replaced = b.txn.replaced
    BY DEF Balanced
  <2>2. /\ Spent(c.mat, c.txn) = Used(c.mat, c.txn, Consumed) + b.txn.replaced
        /\ Spent(b.mat, b.txn) = Used(b.mat, b.txn, Consumed) + b.txn.replaced
    BY <2>1 DEF Spent
  <2> QED
    BY <1>1, <2>1, <2>2
<1> QED
  BY <1>2, <1>3 DEF Balanced, Tallies

(* Distributing a quantity moves no posting and no requirement.            *)
LEMMA SyncIsQuiet ==
  ASSUME NEW m \in Rows, NEW S \in SUBSET Ops, NEW q
  PROVE  \A i \in Ops : /\ Sync(m, S, q)[i].posting = m[i].posting
                        /\ Sync(m, S, q)[i].required = m[i].required
  BY DEF Sync, Rows, Row

(* Reserving writes the row and the ledger alike.                          *)
LEMMA ReserveIsQuiet ==
  ASSUME NEW b, Sound(b), NEW S \in SUBSET Ops, NEW ordered \in Nat
  PROVE  Quiet(b, Reserve(b, S, ordered))
<1> DEFINE delta == Floor0(Need(b.mat, S, ordered) - NetReserved(b.txn))
           q == NetReserved(b.txn) + delta
           c == [inv |-> [b.inv EXCEPT !.allocated = @ + delta, !.ledgerNet = @ + delta],
                 mat |-> Sync(b.mat, S, q),
                 txn |-> [b.txn EXCEPT !.reserved = @ + delta]]
<1>1. b.mat \in Rows /\ b.txn \in Txn /\ b.inv \in Inv
  BY SoundTypes
<1>2. delta \in Nat
  <2>1. Need(b.mat, S, ordered) \in Nat /\ NetReserved(b.txn) \in Nat
    BY <1>1, NeedIsNat, NetReservedIsNat
  <2> QED
    BY <2>1, FloorIsNat
<1>3. Reserve(b, S, ordered) = IF HasNeed(S) THEN c ELSE b
  BY DEF Reserve
<1> HIDE DEF delta, q
<1>4. \A i \in Ops : /\ Sync(b.mat, S, q)[i].posting = b.mat[i].posting
                     /\ Sync(b.mat, S, q)[i].required = b.mat[i].required
  BY <1>1, SyncIsQuiet
<1>5. Quiet(b, c)
  <2>1. /\ c.txn.reserved = b.txn.reserved + delta /\ c.txn.released = b.txn.released
        /\ c.txn.bom = b.txn.bom /\ c.txn.bomQty = b.txn.bomQty
        /\ c.txn.consumed = b.txn.consumed /\ c.txn.receipts = b.txn.receipts
        /\ c.txn.replaced = b.txn.replaced /\ c.txn.applied = b.txn.applied
    BY <1>1 DEF Txn
  <2>2. c.inv.onHand = b.inv.onHand /\ c.inv.ledgerNet = b.inv.ledgerNet + delta
    BY <1>1 DEF Inv
  <2>3. /\ b.txn.reserved \in Int /\ b.txn.released \in Int /\ b.inv.ledgerNet \in Int
        /\ delta \in Int /\ c.mat = Sync(b.mat, S, q)
    <3>1. b.txn.reserved \in Int /\ b.txn.released \in Int
      BY <1>1, LedgerColumns
    <3>2. b.inv.ledgerNet \in Int
      BY <1>1 DEF Inv
    <3> QED
      BY <1>2, <3>1, <3>2
  <2> HIDE DEF c
  <2>4. c.inv.ledgerNet - Held(c.txn) = b.inv.ledgerNet - Held(b.txn)
    BY <2>1, <2>2, <2>3 DEF Held
  <2> QED
    BY <1>4, <2>1, <2>2, <2>3, <2>4 DEF Quiet
<1>6. Quiet(b, b)
  BY DEF Quiet
<1> QED
  BY <1>3, <1>5, <1>6

(* So does a release, of exactly the quantity on its row.                  *)
LEMMA WriteReleaseIsQuiet ==
  ASSUME NEW b, Sound(b), NEW q \in Nat
  PROVE  /\ Quiet(b, WriteRelease(b, q))
         /\ WriteRelease(b, q).mat = b.mat
         /\ Held(WriteRelease(b, q).txn) = Held(b.txn) - q
<1> DEFINE c == WriteRelease(b, q)
<1>1. b.mat \in Rows /\ b.txn \in Txn /\ b.inv \in Inv
  BY SoundTypes
<1>2. /\ c.txn.reserved = b.txn.reserved /\ c.txn.released = b.txn.released + q
      /\ c.txn.bom = b.txn.bom /\ c.txn.bomQty = b.txn.bomQty
      /\ c.txn.consumed = b.txn.consumed /\ c.txn.receipts = b.txn.receipts
      /\ c.txn.replaced = b.txn.replaced /\ c.txn.applied = b.txn.applied
  BY <1>1 DEF WriteRelease, Txn
<1>3. c.inv.onHand = b.inv.onHand /\ c.inv.ledgerNet = b.inv.ledgerNet - q
  BY <1>1 DEF WriteRelease, Inv
<1>4. /\ b.txn.reserved \in Int /\ b.txn.released \in Int /\ b.inv.ledgerNet \in Int /\ c.mat = b.mat
  BY <1>1, LedgerColumns DEF WriteRelease, Inv
<1> HIDE DEF c
<1>5. Held(c.txn) = Held(b.txn) - q /\ Held(b.txn) \in Int
  BY <1>2, <1>4 DEF Held
<1>6. c.inv.ledgerNet - Held(c.txn) = b.inv.ledgerNet - Held(b.txn)
  BY <1>3, <1>4, <1>5
<1> QED
  BY <1>2, <1>3, <1>4, <1>5, <1>6 DEF Quiet, c

(* The net is zero when releases have caught up.                           *)
LEMMA NothingHeld ==
  ASSUME NEW t, Held(t) \in Int
  PROVE  NetReserved(t) = 0 <=> Held(t) <= 0
  BY DEF NetReserved, Held, Floor0

(* Releasing every reservation leaves nothing held, in the ledger or on an *)
(* unconsumed row.                                                         *)
LEMMA ReleaseAllIsQuiet ==
  ASSUME NEW b, Sound(b), NEW stored \in Rows
  PROVE  /\ Quiet(b, ReleaseAll(b, stored))
         /\ NetReserved(ReleaseAll(b, stored).txn) = 0
         /\ \A i \in Ops : stored[i].posting = "none" => ReleaseAll(b, stored).mat[i].allocated = 0
<1> DEFINE r == WriteRelease(b, b.txn.reserved)
           rows == [i \in Ops |-> IF stored[i].posting = "none"
                                    THEN [b.mat[i] EXCEPT !.allocated = 0] ELSE b.mat[i]]
<1>1. b.mat \in Rows /\ b.txn \in Txn /\ b.inv \in Inv /\ b.txn.reserved \in Nat /\ b.txn.released \in Nat
  BY SoundTypes
<1>2. /\ Quiet(b, r) /\ Held(r.txn) = Held(b.txn) - b.txn.reserved
  BY <1>1, WriteReleaseIsQuiet
<1>3. ReleaseAll(b, stored) = [r EXCEPT !.mat = rows]
  BY DEF ReleaseAll
<1>4. r = [inv |-> r.inv, mat |-> r.mat, txn |-> r.txn]
  BY DEF WriteRelease
<1> HIDE DEF r
<1>5. ReleaseAll(b, stored).inv = r.inv /\ ReleaseAll(b, stored).txn = r.txn
      /\ ReleaseAll(b, stored).mat = rows
  BY <1>3, <1>4
<1>6. \A i \in Ops : /\ rows[i].posting = b.mat[i].posting /\ rows[i].required = b.mat[i].required
                     /\ stored[i].posting = "none" => rows[i].allocated = 0
  BY <1>1 DEF Rows, Row
<1>7. Held(r.txn) \in Int /\ Held(r.txn) <= 0
  BY <1>1, <1>2 DEF Held
<1>8. NetReserved(r.txn) = 0
  BY <1>7, NothingHeld
<1>9. Quiet(b, ReleaseAll(b, stored))
  BY <1>2, <1>5, <1>6 DEF Quiet
<1> QED
  BY <1>5, <1>6, <1>8, <1>9

(* So does the repair, which leaves the rows alone.                        *)
LEMMA ReleaseStrandedIsQuiet ==
  ASSUME NEW b, Sound(b)
  PROVE  /\ Quiet(b, ReleaseStranded(b))
         /\ ReleaseStranded(b).mat = b.mat
         /\ NetReserved(ReleaseStranded(b).txn) = 0
<1>1. Held(b.txn) \in Int /\ b.txn \in Txn
  BY SoundTypes
<1>2. NetReserved(b.txn) \in Nat /\ NetReserved(b.txn) >= Held(b.txn)
  BY <1>1, NetReservedIsNat DEF NetReserved, Held, Floor0
<1>3. /\ Quiet(b, ReleaseStranded(b)) /\ ReleaseStranded(b).mat = b.mat
      /\ Held(ReleaseStranded(b).txn) = Held(b.txn) - NetReserved(b.txn)
  BY <1>2, WriteReleaseIsQuiet DEF ReleaseStranded
<1>4. Held(ReleaseStranded(b).txn) \in Int /\ Held(ReleaseStranded(b).txn) <= 0
  BY <1>1, <1>2, <1>3
<1> QED
  BY <1>3, <1>4, NothingHeld

(* Releasing the excess of a split.                                        *)
LEMMA ReleaseExcessIsQuiet ==
  ASSUME NEW b, Sound(b), NEW ordered \in Nat
  PROVE  Quiet(b, ReleaseExcess(b, ordered))
<1> DEFINE net    == NetReserved(b.txn)
           excess == Floor0(net - Need(b.mat, Ops, ordered))
           r      == WriteRelease(b, excess)
<1>1. b.mat \in Rows /\ b.txn \in Txn
  BY SoundTypes
<1>2. excess \in Nat
  <2>1. Need(b.mat, Ops, ordered) \in Nat /\ net \in Nat
    BY <1>1, NeedIsNat, NetReservedIsNat
  <2> QED
    BY <2>1, FloorIsNat
<1>3. ReleaseExcess(b, ordered) = IF ~HasNeed(Ops) THEN b
        ELSE IF net - excess > 0 THEN [r EXCEPT !.mat = Sync(b.mat, Ops, net - excess)] ELSE r
  BY DEF ReleaseExcess
<1> HIDE DEF net, excess
<1>4. Quiet(b, r) /\ r.mat = b.mat
  BY <1>2, WriteReleaseIsQuiet
<1>5. r = [inv |-> r.inv, mat |-> r.mat, txn |-> r.txn]
  BY DEF WriteRelease
<1> HIDE DEF r
<1>6. \A i \in Ops : /\ Sync(b.mat, Ops, net - excess)[i].posting = b.mat[i].posting
                     /\ Sync(b.mat, Ops, net - excess)[i].required = b.mat[i].required
  BY <1>1, SyncIsQuiet
<1>7. Quiet(b, [r EXCEPT !.mat = Sync(b.mat, Ops, net - excess)])
  BY <1>4, <1>5, <1>6 DEF Quiet
<1>8. Quiet(b, b)
  BY DEF Quiet
<1> QED
  BY <1>3, <1>4, <1>7, <1>8

(* The two self-heals of a release.                                        *)
LEMMA HealsAreQuiet ==
  ASSUME NEW b, Sound(b), NEW q \in Nat
  PROVE  Quiet(b, Backfill(b)) /\ Quiet(b, ReserveMissing(b, q))
<1>1. b.mat \in Rows /\ b \in Books
  BY SoundTypes DEF Sound
<1>2. \A i \in Ops : /\ Sync(b.mat, Ops, NetReserved(b.txn))[i].posting = b.mat[i].posting
                     /\ Sync(b.mat, Ops, NetReserved(b.txn))[i].required = b.mat[i].required
  BY <1>1, SyncIsQuiet
<1>3. Quiet(b, [b EXCEPT !.mat = Sync(b.mat, Ops, NetReserved(b.txn))])
  BY <1>1, <1>2 DEF Quiet, Books
<1>4. Quiet(b, b)
  BY DEF Quiet
<1>5. Quiet(b, Reserve(b, Ops, q))
  BY ReserveIsQuiet
<1> QED
  BY <1>3, <1>4, <1>5 DEF Backfill, ReserveMissing

(* There are two operations at most.                                       *)
LEMMA FirstAndSecond == Ops \subseteq {1, 2}
  BY RoutingAssumption DEF Ops

(* One more row is consumed, or decided.                                   *)
LEMMA UsedMore ==
  ASSUME NEW m \in Rows, NEW t \in Txn, NEW n \in Rows, NEW u \in Txn, NEW P, NEW i \in Ops,
         m[i].posting \notin P, n[i].required = m[i].required,
         \A j \in Ops \ {i} : n[j] = m[j],
         u.bom = t.bom, u.bomQty = t.bomQty
  PROVE  Used(n, u, P) = Used(m, t, P) + IF n[i].posting \in P THEN m[i].required ELSE 0
<1>1. m[i].required \in Nat
  BY DEF Rows, Row
<1>2. RowUse(m, P, i) = 0
      /\ RowUse(n, P, i) = IF n[i].posting \in P THEN m[i].required ELSE 0
  BY DEF RowUse
<1>3. \A j : j # i => RowUse(n, P, j) = RowUse(m, P, j)
  BY DEF RowUse
<1>4. BomUse(u, P) = BomUse(t, P)
  BY DEF BomUse
<1>5. i = 1 \/ i = 2
  BY FirstAndSecond
<1>6. /\ Used(m, t, P) = RowUse(m, P, 1) + RowUse(m, P, 2) + BomUse(t, P)
      /\ Used(n, u, P) = RowUse(n, P, 1) + RowUse(n, P, 2) + BomUse(u, P)
      /\ RowUse(m, P, 1) \in Nat /\ RowUse(m, P, 2) \in Nat /\ BomUse(t, P) \in Nat
      /\ RowUse(n, P, 1) \in Nat /\ RowUse(n, P, 2) \in Nat
  BY UsedIs
<1> QED
  BY <1>1, <1>2, <1>3, <1>4, <1>5, <1>6

(* The line of the BOM is consumed, or decided.                            *)
LEMMA UsedBom ==
  ASSUME NEW m \in Rows, NEW t \in Txn, NEW u \in Txn, NEW P, t.bom \notin P
  PROVE  Used(m, u, P) = Used(m, t, P) + IF u.bom \in P THEN u.bomQty ELSE 0
<1>1. BomUse(t, P) = 0 /\ BomUse(u, P) = IF u.bom \in P THEN u.bomQty ELSE 0
  BY DEF BomUse
<1> QED
  BY <1>1, UsedIs

(* Consuming a row takes off on-hand what it posts, counts what it         *)
(* consumes, and consumes no other row.                                    *)
LEMMA ConsumeRowBalances ==
  ASSUME NEW b, Sound(b), NEW i
  PROVE  LET c == ConsumeRow(b, i)
         IN  /\ Balanced(b, c)
             /\ \A j \in Ops \ {i} : c.mat[j] = b.mat[j]
             /\ \A j \in Ops : /\ c.mat[j].allocated = b.mat[j].allocated
                               /\ c.mat[j].required = b.mat[j].required
                               /\ b.mat[j].posting # "none" => c.mat[j].posting # "none"
             /\ i \in Ops => c.mat[i].posting # "none"
             /\ NetReserved(c.txn) = NetReserved(b.txn)
             /\ c.txn.bom = b.txn.bom /\ c.txn.bomQty = b.txn.bomQty
             /\ c.txn.receipts = b.txn.receipts
<1> DEFINE c == ConsumeRow(b, i)
<1>1. CASE i \notin Ops \/ b.mat[i].posting # "none"
  BY <1>1 DEF ConsumeRow, Balanced
<1>2. CASE i \in Ops /\ b.mat[i].posting = "none"
  <2> DEFINE q == b.mat[i].required
             p == PostingOf(b.inv, q)
  <2>1. b \in Books /\ b.mat \in Rows /\ b.txn \in Txn /\ b.inv \in Inv /\ q \in Nat
        /\ b.inv.onHand \in Int /\ b.txn.consumed \in Nat
    BY <1>2, SoundTypes DEF Sound
  <2>2. p \in {"held", "posted"}
        /\ OnHandAfter(b.inv, q) = b.inv.onHand - IF p \in Applied THEN q ELSE 0
    BY <2>1 DEF PostingOf, OnHandAfter, Applied
  <2>3. c = [b EXCEPT !.mat[i].posting = p, !.inv.onHand = OnHandAfter(b.inv, q),
                      !.txn.consumed = @ + q]
    BY <1>2 DEF ConsumeRow
  <2>4. Sound(c)
    BY ConsumeRowIsSound
  <2> HIDE DEF p
  <2>5. /\ c.mat = [b.mat EXCEPT ![i].posting = p]
        /\ c.inv = [b.inv EXCEPT !.onHand = OnHandAfter(b.inv, q)]
        /\ c.txn = [b.txn EXCEPT !.consumed = @ + q]
    BY <2>1, <2>3 DEF Books
  <2> HIDE DEF c
  <2>6. /\ \A j \in Ops \ {i} : c.mat[j] = b.mat[j]
        /\ c.mat[i].posting = p /\ c.mat[i].required = q
        /\ c.mat[i].allocated = b.mat[i].allocated
    BY <1>2, <2>1, <2>5 DEF Rows, Row
  <2>7. /\ c.inv.onHand = b.inv.onHand - IF p \in Applied THEN q ELSE 0
        /\ c.inv.ledgerNet = b.inv.ledgerNet
    BY <2>1, <2>2, <2>5 DEF Inv
  <2>8. /\ c.txn.consumed = b.txn.consumed + q
        /\ c.txn.reserved = b.txn.reserved /\ c.txn.released = b.txn.released
        /\ c.txn.bom = b.txn.bom /\ c.txn.bomQty = b.txn.bomQty
        /\ c.txn.replaced = b.txn.replaced /\ c.txn.applied = b.txn.applied
        /\ c.txn.receipts = b.txn.receipts
    BY <2>1, <2>5 DEF Txn
  <2>9. c.mat \in Rows /\ c.txn \in Txn
    BY <2>4, SoundTypes
  <2>10. /\ Used(c.mat, c.txn, Applied)
              = Used(b.mat, b.txn, Applied) + IF p \in Applied THEN q ELSE 0
         /\ Used(c.mat, c.txn, Consumed) = Used(b.mat, b.txn, Consumed) + q
    <3>1. "none" \notin Applied /\ "none" \notin Consumed /\ p \in Consumed
      BY <2>2 DEF Applied, Consumed, Postings
    <3>2. \A P : b.mat[i].posting \notin P =>
            Used(c.mat, c.txn, P) = Used(b.mat, b.txn, P) + IF p \in P THEN q ELSE 0
      BY <1>2, <2>1, <2>6, <2>8, <2>9, UsedMore
    <3> QED
      BY <1>2, <3>1, <3>2
  <2>11. Used(b.mat, b.txn, Applied) \in Nat /\ Used(b.mat, b.txn, Consumed) \in Nat
    BY <2>1, UsedIs
  <2>12. \A j \in Ops : b.mat[j].posting # "none" => j # i
    BY <1>2
  <2>13. Balanced(b, c)
    <3>1. c.inv.onHand + Used(c.mat, c.txn, Applied) = b.inv.onHand + Used(b.mat, b.txn, Applied)
      BY <2>1, <2>7, <2>10, <2>11
    <3>2. c.txn.consumed - Used(c.mat, c.txn, Consumed) = b.txn.consumed - Used(b.mat, b.txn, Consumed)
      BY <2>1, <2>8, <2>10, <2>11
    <3>3. c.inv.ledgerNet - Held(c.txn) = b.inv.ledgerNet - Held(b.txn)
      BY <2>7, <2>8 DEF Held
    <3> QED
      BY <2>6, <2>8, <2>12, <3>1, <3>2, <3>3 DEF Balanced
  <2>14. NetReserved(c.txn) = NetReserved(b.txn)
    BY <2>8 DEF NetReserved
  <2> QED
    BY <1>2, <2>2, <2>6, <2>8, <2>12, <2>13, <2>14 DEF c
<1> QED
  BY <1>1, <1>2

(* The BOM backflush, of an order that had none.                           *)
LEMMA ConsumeBomBalances ==
  ASSUME NEW b, Sound(b), NEW q \in Nat, b.txn.bom = "none"
  PROVE  LET c == ConsumeBom(b, q)
         IN  /\ Balanced(b, c)
             /\ c.mat = b.mat
             /\ NetReserved(c.txn) = NetReserved(b.txn)
             /\ c.txn.receipts = b.txn.receipts
<1> DEFINE c == ConsumeBom(b, q)
           p == PostingOf(b.inv, q)
<1>1. b.mat \in Rows /\ b.txn \in Txn /\ b.inv \in Inv
      /\ b.inv.onHand \in Int /\ b.txn.consumed \in Nat
  BY SoundTypes
<1>2. p \in {"held", "posted"}
      /\ OnHandAfter(b.inv, q) = b.inv.onHand - IF p \in Applied THEN q ELSE 0
  BY <1>1 DEF PostingOf, OnHandAfter, Applied
<1>3. /\ c.mat = b.mat
      /\ c.inv = [b.inv EXCEPT !.onHand = OnHandAfter(b.inv, q)]
      /\ c.txn = [b.txn EXCEPT !.bom = p, !.bomQty = q, !.consumed = @ + q]
  BY DEF ConsumeBom
<1>4. Sound(c)
  BY ConsumeBomIsSound
<1> HIDE DEF p, c
<1>5. /\ c.inv.onHand = b.inv.onHand - IF p \in Applied THEN q ELSE 0
      /\ c.inv.ledgerNet = b.inv.ledgerNet
  BY <1>1, <1>2, <1>3 DEF Inv
<1>6. /\ c.txn.consumed = b.txn.consumed + q
      /\ c.txn.reserved = b.txn.reserved /\ c.txn.released = b.txn.released
      /\ c.txn.bom = p /\ c.txn.bomQty = q
      /\ c.txn.replaced = b.txn.replaced /\ c.txn.applied = b.txn.applied
      /\ c.txn.receipts = b.txn.receipts
  BY <1>1, <1>3 DEF Txn
<1>7. c.txn \in Txn
  BY <1>4, SoundTypes
<1>8. /\ Used(c.mat, c.txn, Applied)
            = Used(b.mat, b.txn, Applied) + IF p \in Applied THEN q ELSE 0
      /\ Used(c.mat, c.txn, Consumed) = Used(b.mat, b.txn, Consumed) + q
  <2>1. "none" \notin Applied /\ "none" \notin Consumed /\ p \in Consumed
    BY <1>2 DEF Applied, Consumed, Postings
  <2>2. \A P : b.txn.bom \notin P =>
          Used(c.mat, c.txn, P) = Used(b.mat, b.txn, P) + IF p \in P THEN q ELSE 0
    <3>1. \A P : b.txn.bom \notin P =>
            Used(b.mat, c.txn, P) = Used(b.mat, b.txn, P) + IF c.txn.bom \in P THEN c.txn.bomQty ELSE 0
      BY <1>1, <1>7, UsedBom
    <3> QED
      BY <1>3, <1>6, <3>1
  <2> QED
    BY <2>1, <2>2
<1>9. Used(b.mat, b.txn, Applied) \in Nat /\ Used(b.mat, b.txn, Consumed) \in Nat
  BY <1>1, UsedIs
<1>10. Balanced(b, c)
  <2>1. c.inv.onHand + Used(c.mat, c.txn, Applied) = b.inv.onHand + Used(b.mat, b.txn, Applied)
    BY <1>1, <1>5, <1>8, <1>9
  <2>2. c.txn.consumed - Used(c.mat, c.txn, Consumed) = b.txn.consumed - Used(b.mat, b.txn, Consumed)
    BY <1>1, <1>6, <1>8, <1>9
  <2>3. c.inv.ledgerNet - Held(c.txn) = b.inv.ledgerNet - Held(b.txn)
    BY <1>5, <1>6 DEF Held
  <2> QED
    BY <1>3, <1>6, <2>1, <2>2, <2>3 DEF Balanced
<1>11. NetReserved(c.txn) = NetReserved(b.txn)
  BY <1>6 DEF NetReserved
<1> QED
  BY <1>3, <1>6, <1>10, <1>11 DEF c

(* What a completion leaves, whatever it found.                            *)
LEMMA ConsumeStageSettles ==
  ASSUME NEW b, Sound(b), NEW stored \in Rows, NEW qty \in Nat, b.txn.bom = "none"
  PROVE  LET c == ConsumeStage(b, stored, qty)
         IN  /\ Balanced(b, c)
             /\ \A i \in Ops : c.mat[i].posting # "none" /\ c.mat[i].required = b.mat[i].required
             /\ NetReserved(c.txn) = 0
             /\ NumOps > 0 => c.txn.bom = "none"
             /\ c.txn.receipts = b.txn.receipts
<1> DEFINE r == ReleaseAll(b, stored)
           c == ConsumeStage(b, stored, qty)
<1>1. Sound(r) /\ Quiet(b, r) /\ NetReserved(r.txn) = 0
  BY ReleaseAllIsSound, ReleaseAllIsQuiet
<1>2. /\ Balanced(b, r) /\ r.txn.bom = "none" /\ r.txn.receipts = b.txn.receipts
      /\ \A i \in Ops : r.mat[i].required = b.mat[i].required
  BY <1>1, QuietIsBalanced DEF Quiet
<1>3. c = IF NumOps > 0 THEN ConsumeRow(ConsumeRow(r, 1), 2)
          ELSE IF HasBom THEN ConsumeBom(r, qty) ELSE r
  BY DEF ConsumeStage
<1> HIDE DEF r, c
<1>4. CASE NumOps > 0
  <2> DEFINE one == ConsumeRow(r, 1)
             two == ConsumeRow(one, 2)
  <2>1. Sound(one)
    BY <1>1, ConsumeRowIsSound
  <2>2. /\ Balanced(r, one) /\ NetReserved(one.txn) = NetReserved(r.txn)
        /\ one.txn.receipts = r.txn.receipts /\ one.txn.bom = r.txn.bom
        /\ 1 \in Ops => one.mat[1].posting # "none"
        /\ \A i \in Ops : one.mat[i].required = r.mat[i].required
    BY <1>1, ConsumeRowBalances
  <2> HIDE DEF one
  <2>3. /\ Balanced(one, two) /\ NetReserved(two.txn) = NetReserved(one.txn)
        /\ two.txn.receipts = one.txn.receipts /\ two.txn.bom = one.txn.bom
        /\ 2 \in Ops => two.mat[2].posting # "none"
        /\ \A i \in Ops : /\ one.mat[i].posting # "none" => two.mat[i].posting # "none"
                          /\ two.mat[i].required = one.mat[i].required
    BY <2>1, ConsumeRowBalances
  <2>4. c = two
    BY <1>3, <1>4 DEF one
  <2> HIDE DEF two
  <2>5. Balanced(b, c)
    BY <1>2, <2>2, <2>3, <2>4, BalancedTwice
  <2>6. \A i \in Ops : c.mat[i].posting # "none" /\ c.mat[i].required = b.mat[i].required
    BY <1>2, <2>2, <2>3, <2>4, FirstAndSecond
  <2> QED
    BY <1>1, <1>2, <2>2, <2>3, <2>4, <2>5, <2>6 DEF c
<1>5. CASE ~(NumOps > 0)
  <2>1. Ops = {}
    BY <1>5, RoutingAssumption DEF Ops
  <2>2. CASE HasBom
    <3> DEFINE d == ConsumeBom(r, qty)
    <3>1. /\ Balanced(r, d) /\ NetReserved(d.txn) = NetReserved(r.txn)
          /\ d.txn.receipts = r.txn.receipts
      BY <1>1, <1>2, ConsumeBomBalances
    <3>2. c = d
      BY <1>3, <1>5, <2>2
    <3> HIDE DEF d
    <3>3. Balanced(b, c)
      BY <1>2, <3>1, <3>2, BalancedTwice
    <3> QED
      BY <1>1, <1>2, <1>5, <2>1, <3>1, <3>2, <3>3 DEF c
  <2>3. CASE ~HasBom
    <3>1. c = r
      BY <1>3, <1>5, <2>3
    <3> QED
      BY <1>1, <1>2, <1>5, <2>1, <3>1 DEF c
  <2> QED
    BY <2>2, <2>3
<1> QED
  BY <1>4, <1>5

(* A receipt adds finished goods and one receipt, nothing else.            *)
LEMMA ReceiveBalances ==
  ASSUME NEW b, Sound(b), NEW qty \in Nat
  PROVE  LET c == Receive(b, qty)
         IN  /\ Balanced(b, c) /\ c.mat = b.mat
             /\ NetReserved(c.txn) = NetReserved(b.txn)
             /\ c.txn.bom = b.txn.bom
             /\ c.txn.receipts = b.txn.receipts + 1
<1> DEFINE c == Receive(b, qty)
<1>1. b.mat \in Rows /\ b.txn \in Txn /\ b.inv \in Inv
  BY SoundTypes
<1>2. c.inv.onHand = b.inv.onHand /\ c.inv.ledgerNet = b.inv.ledgerNet /\ c.mat = b.mat
  BY <1>1 DEF Receive, Inv
<1>3. /\ c.txn.reserved = b.txn.reserved /\ c.txn.released = b.txn.released
      /\ c.txn.bom = b.txn.bom /\ c.txn.bomQty = b.txn.bomQty
      /\ c.txn.consumed = b.txn.consumed /\ c.txn.receipts = b.txn.receipts + 1
      /\ c.txn.replaced = b.txn.replaced /\ c.txn.applied = b.txn.applied
  BY <1>1 DEF Receive, Txn
<1>4. c.txn \in Txn
  BY ReceiveIsSound, SoundTypes
<1> HIDE DEF c
<1>5. \A P : Used(c.mat, c.txn, P) = Used(b.mat, b.txn, P)
  BY <1>1, <1>2, <1>3, <1>4, UsedSame
<1>6. Balanced(b, c)
  BY <1>2, <1>3, <1>5 DEF Balanced, Held
<1>7. NetReserved(c.txn) = NetReserved(b.txn)
  BY <1>3 DEF NetReserved
<1> QED
  BY <1>2, <1>3, <1>6, <1>7 DEF c

(* The whole completion, and that of a short order.                        *)
LEMMA CompletionSettles ==
  ASSUME NEW b, Sound(b), NEW stored \in Rows, NEW qty \in Nat, NEW got \in Nat, b.txn.bom = "none"
  PROVE  LET c == Receive(ConsumeStage(b, stored, qty), got)
         IN  /\ Balanced(b, c)
             /\ \A i \in Ops : c.mat[i].posting # "none" /\ c.mat[i].required = b.mat[i].required
             /\ NetReserved(c.txn) = 0
             /\ NumOps > 0 => c.txn.bom = "none"
             /\ c.txn.receipts = b.txn.receipts + 1
<1> DEFINE s == ConsumeStage(b, stored, qty)
           c == Receive(s, got)
<1>1. /\ Sound(s) /\ Balanced(b, s) /\ NetReserved(s.txn) = 0 /\ s.txn.receipts = b.txn.receipts
      /\ \A i \in Ops : s.mat[i].posting # "none" /\ s.mat[i].required = b.mat[i].required
      /\ NumOps > 0 => s.txn.bom = "none"
  BY ConsumeStageIsSound, ConsumeStageSettles
<1> HIDE DEF s
<1>2. /\ Balanced(s, c) /\ c.mat = s.mat
      /\ NetReserved(c.txn) = NetReserved(s.txn) /\ c.txn.bom = s.txn.bom
      /\ c.txn.receipts = s.txn.receipts + 1
  BY <1>1, ReceiveBalances
<1> HIDE DEF c
<1>3. Balanced(b, c)
  BY <1>1, <1>2, BalancedTwice
<1> QED
  BY <1>1, <1>2, <1>3 DEF c, s

(* Rows that nobody consumed may be sized anew, or made anew.              *)
LEMMA ResizedBalances ==
  ASSUME NEW b, Sound(b), NEW n \in Rows,
         \A i \in Ops : /\ n[i].posting = b.mat[i].posting
                        /\ b.mat[i].posting # "none" => n[i].required = b.mat[i].required
  PROVE  Sound([b EXCEPT !.mat = n]) /\ Balanced(b, [b EXCEPT !.mat = n])
<1> DEFINE c == [b EXCEPT !.mat = n]
<1>1. b \in Books /\ b.mat \in Rows /\ b.txn \in Txn
  BY SoundTypes DEF Sound
<1>2. c.inv = b.inv /\ c.txn = b.txn /\ c.mat = n /\ Sound(c)
  BY <1>1 DEF Books, Rows, Sound
<1> HIDE DEF c
<1>3. ASSUME NEW P, "none" \notin P PROVE Used(n, b.txn, P) = Used(b.mat, b.txn, P)
  <2>1. \A i : RowUse(n, P, i) = RowUse(b.mat, P, i)
    BY <1>3 DEF RowUse
  <2> QED
    BY <1>1, <2>1, UsedIs
<1>4. "none" \notin Applied /\ "none" \notin Consumed
  BY DEF Applied, Consumed
<1>5. Balanced(b, c)
  BY <1>2, <1>3, <1>4 DEF Balanced
<1> QED
  BY <1>2, <1>5 DEF c

(* The books of a new order, on the inventory row as it is.                *)
LEMMA OpeningBalances ==
  ASSUME NEW v \in Inv, v.allocated >= v.ledgerNet, NEW q \in Nat,
         NEW m \in Rows, \A i \in Ops : m[i].posting = "none"
  PROVE  LET b == [inv |-> v, mat |-> m, txn |-> NoTxn]
             c == OpeningBooks(v, q)
         IN  /\ Balanced(b, c)
             /\ \A i \in Ops : c.mat[i].posting = "none" /\ c.mat[i].required = q
             /\ c.txn.bom = "none" /\ c.txn.receipts = 0 /\ c.txn.consumed = 0
             /\ c.txn.replaced = 0
<1> DEFINE b == [inv |-> v, mat |-> m, txn |-> NoTxn]
           s == [inv |-> v, mat |-> RoutedRows(q), txn |-> NoTxn]
           c == Reserve(s, FlushedOps, q)
<1>1. /\ NoTxn \in Txn /\ NoTxn.bom = "none" /\ NoTxn.receipts = 0 /\ NoTxn.consumed = 0
      /\ NoTxn.replaced = 0
  BY DEF NoTxn, Txn, Postings
<1>2. RoutedRows(q) \in Rows
      /\ \A i \in Ops : RoutedRows(q)[i].posting = "none" /\ RoutedRows(q)[i].required = q
  BY RoutingIsTyped DEF RoutedRows, NewRow
<1>3. Sound(b) /\ Sound(s)
  BY <1>1, <1>2, PartsAreSound
<1>4. s = [b EXCEPT !.mat = RoutedRows(q)] /\ b.mat = m
  OBVIOUS
<1>5. s.txn = NoTxn /\ s.mat = RoutedRows(q)
  OBVIOUS
<1>6. OpeningBooks(v, q) = c
  BY DEF OpeningBooks
<1> HIDE DEF b, s, c
<1>7. Balanced(b, s)
  BY <1>2, <1>3, <1>4, ResizedBalances
<1>8. Sound(c) /\ Quiet(s, c)
  <2>1. FlushedOps \in SUBSET Ops
    BY DEF FlushedOps
  <2> QED
    BY <1>3, <2>1, ReserveIsSound, ReserveIsQuiet DEF c
<1>9. Balanced(b, c)
  BY <1>3, <1>7, <1>8, QuietIsBalanced, BalancedTwice
<1> QED
  BY <1>1, <1>2, <1>5, <1>6, <1>8, <1>9 DEF Quiet, b

-----------------------------------------------------------------------------
(* The invariant of every order, and of the sums over them.                *)

Early == {"unused", "deleted", "draft", "scheduled"}
AllDone(ops) == \A i \in Ops : Done(ops[i].status)

(* An order that is received shows a status and operations like these,     *)
(* unless a finished operation was taken up again.                         *)
Settled(w, ops) == w.status \in {"complete", "qc_hold", "cancelled"} /\ AllDone(ops)

(* An order of which no finished operation was taken up again.  Beyond the *)
(* properties: a consumed row belongs to an operation that is done, and an *)
(* order that has an end has nothing left to report.                       *)
FirstRunOK(w, ops, m, t) ==
    /\ t.receipts > 0 => /\ Settled(w, ops) /\ NetReserved(t) = 0
                         /\ \A i \in Ops : m[i].posting # "none"
    /\ \A i \in Ops : m[i].posting # "none" => Done(ops[i].status)
    /\ w.ended => AllDone(ops)
    /\ w.status = "complete" /\ w.inspections = 0 => t.receipts = 1
    /\ w.status = "short" => t.receipts = 0 /\ AllDone(ops)
    /\ w.status \in Repairable /\ w.inspections = 0 =>
         /\ NetReserved(t) = 0
         /\ \A i \in Ops : m[i].posting = "none" => m[i].allocated = 0

(* The rows of any order.  Each receipt is paid for by a finished          *)
(* operation taken up again, but for one of an order that looks received;  *)
(* the BOM line is consumed by a receipt only, of an order without         *)
(* operations; nothing is consumed for an order still in planning; an id   *)
(* that was not given out has an empty ledger.                             *)
OrderOK(w, ops, m, t) ==
    /\ t.receipts <= w.reopened + 1
    /\ ~Settled(w, ops) => t.receipts <= w.reopened
    /\ NumOps > 0 \/ t.receipts = 0 => t.bom = "none"
    /\ NumOps = 0 => w.reopened = 0
    /\ w.status \in Early => ~w.ended /\ \A i \in Ops : m[i].posting = "none"
    /\ w.status = "unused" => t = NoTxn
    /\ t.consumed = Spent(m, t)
    /\ t.replaced > 0 => w.reopened > 0
    /\ w.status \notin {"unused", "deleted"} =>
         w.ordered > 0 /\ \A i \in Ops : m[i].required > 0
    /\ w.reopened = 0 => FirstRunOK(w, ops, m, t)

OrdersOK == \A o \in Orders : OrderOK(order[o], op[o], mat[o], txn[o])

LedgerOf(f) == [o \in Orders |-> Held(f[o])]
StockOf(g, f) == [o \in Orders |-> Stock(g[o], f[o])]

(* The inventory row against the rows of all orders.                       *)
Tallied(v, g, f) ==
    /\ v.ledgerNet = SumFunctionOnSet(LedgerOf(f), Orders)
    /\ v.onHand + SumFunctionOnSet(StockOf(g, f), Orders) \in StockLevels

FloorInv == Accounted /\ OrdersOK /\ Tallied(inv, mat, txn)

(* A step on the books of one order that leaves the accounts in agreement. *)
LEMMA TallyStep ==
  ASSUME NEW v, NEW g \in [Orders -> Rows], NEW f \in [Orders -> Txn], Tallied(v, g, f),
         NEW o \in Orders, NEW b, b = [inv |-> v, mat |-> g[o], txn |-> f[o]],
         Sound(b), NEW c, Sound(c), Tallies(b, c)
  PROVE  Tallied(c.inv, [g EXCEPT ![o] = c.mat], [f EXCEPT ![o] = c.txn])
<1> DEFINE g2 == [g EXCEPT ![o] = c.mat]
           f2 == [f EXCEPT ![o] = c.txn]
<1>1. c.mat \in Rows /\ c.txn \in Txn /\ c.inv.onHand \in Int /\ c.inv.ledgerNet \in Int
      /\ b.inv.onHand \in Int /\ b.inv.ledgerNet \in Int
      /\ b.inv = v /\ b.mat = g[o] /\ b.txn = f[o]
  BY SoundTypes
<1>2. /\ g2 \in [Orders -> Rows] /\ f2 \in [Orders -> Txn]
      /\ g2[o] = c.mat /\ f2[o] = c.txn
      /\ \A x \in Orders \ {o} : g2[x] = g[x] /\ f2[x] = f[x]
  BY <1>1
<1> HIDE DEF g2, f2
<1>3. IsFiniteSet(Orders)
  BY OrdersAssumption
<1>4. \A x \in Orders : LedgerOf(f)[x] \in Int /\ LedgerOf(f2)[x] \in Int
  <2>1. ASSUME NEW t \in Txn PROVE Held(t) \in Int
    BY LedgerColumns DEF Held
  <2> QED
    BY <1>2, <2>1 DEF LedgerOf
<1>5. \A x \in Orders : StockOf(g, f)[x] \in Int /\ StockOf(g2, f2)[x] \in Int
  <2>1. ASSUME NEW m \in Rows, NEW t \in Txn PROVE Stock(m, t) \in Int
    BY UsedIs, LedgerColumns DEF Stock
  <2> QED
    BY <1>2, <2>1 DEF StockOf
<1>6. \A x \in Orders \ {o} : LedgerOf(f)[x] = LedgerOf(f2)[x] /\ StockOf(g, f)[x] = StockOf(g2, f2)[x]
  BY <1>2 DEF LedgerOf, StockOf
<1>7. /\ LedgerOf(f)[o] = Held(b.txn) /\ LedgerOf(f2)[o] = Held(c.txn)
      /\ StockOf(g, f)[o] = Stock(b.mat, b.txn)
      /\ StockOf(g2, f2)[o] = Stock(c.mat, c.txn)
  BY <1>1, <1>2 DEF LedgerOf, StockOf
<1>8. SumFunctionOnSet(LedgerOf(f2), Orders)
        = SumFunctionOnSet(LedgerOf(f), Orders) - LedgerOf(f)[o] + LedgerOf(f2)[o]
  BY <1>3, <1>4, <1>6, SumUpdate
<1>9. SumFunctionOnSet(StockOf(g2, f2), Orders)
        = SumFunctionOnSet(StockOf(g, f), Orders) - StockOf(g, f)[o] + StockOf(g2, f2)[o]
  BY <1>3, <1>5, <1>6, SumUpdate
<1>10. /\ SumFunctionOnSet(LedgerOf(f), Orders) \in Int
       /\ SumFunctionOnSet(StockOf(g, f), Orders) \in Int
  BY <1>3, <1>4, <1>5, SumType
<1>11. c.inv.ledgerNet = SumFunctionOnSet(LedgerOf(f2), Orders)
  BY <1>1, <1>4, <1>7, <1>8, <1>10 DEF Tallied, Tallies
<1>12. c.inv.onHand + SumFunctionOnSet(StockOf(g2, f2), Orders)
         = v.onHand + SumFunctionOnSet(StockOf(g, f), Orders)
  BY <1>1, <1>5, <1>7, <1>9, <1>10 DEF Tallies
<1> QED
  BY <1>11, <1>12 DEF Tallied, g2, f2

(* A consumed row stays consumed, for what it required, unless a finished  *)
(* operation of its order was taken up again.                              *)
Frozen ==
    \A o \in Orders : \A i \in Ops :
        mat[o][i].posting # "none" /\ order[o].reopened = 0 =>
            mat'[o][i].required = mat[o][i].required /\ mat'[o][i].posting # "none"

Kept == OrdersOK' /\ Tallied(inv, mat, txn)' /\ Frozen

(* The types that every step starts from.                                  *)
LEMMA FloorTypes ==
  ASSUME FloorInv
  PROVE  /\ order \in [Orders -> Order] /\ op \in [Orders -> [Ops -> Operation]]
         /\ mat \in [Orders -> Rows] /\ txn \in [Orders -> Txn] /\ inv \in Inv
         /\ inv.allocated >= inv.ledgerNet
         /\ \A o \in Orders : /\ Sound(BooksOf(o))
                              /\ order[o] \in Order /\ op[o] \in [Ops -> Operation]
                              /\ mat[o] \in Rows /\ txn[o] \in Txn
                              /\ OrderOK(order[o], op[o], mat[o], txn[o])
  BY BooksAreSound DEF FloorInv, Accounted, TypeOK, AllocationCoversLedger, OrdersOK, Rows

(* A handler that writes one order and its books, whether or not it        *)
(* replaces material rows.                                                 *)
LEMMA OneOrderTallies ==
  ASSUME FloorInv, NEW o \in Orders, NEW c, Sound(c), SetBooks(o, c), Tallies(BooksOf(o), c),
         order[o].reopened = 0 =>
             \A i \in Ops : mat[o][i].posting # "none" =>
                 c.mat[i].required = mat[o][i].required /\ c.mat[i].posting # "none",
         \A x \in Orders \ {o} : order'[x] = order[x] /\ op'[x] = op[x],
         OrderOK(order'[o], op'[o], c.mat, c.txn)
  PROVE  Kept
<1>1. /\ mat \in [Orders -> Rows] /\ txn \in [Orders -> Txn] /\ Sound(BooksOf(o))
      /\ \A x \in Orders : OrderOK(order[x], op[x], mat[x], txn[x])
  BY FloorTypes
<1>2. /\ inv' = c.inv /\ mat' = [mat EXCEPT ![o] = c.mat] /\ txn' = [txn EXCEPT ![o] = c.txn]
  BY DEF SetBooks
<1>3. /\ mat'[o] = c.mat /\ txn'[o] = c.txn
      /\ \A x \in Orders \ {o} : mat'[x] = mat[x] /\ txn'[x] = txn[x]
  BY <1>1, <1>2
<1>4. OrdersOK'
  BY <1>1, <1>3 DEF OrdersOK
<1>5. Tallied(c.inv, [mat EXCEPT ![o] = c.mat], [txn EXCEPT ![o] = c.txn])
  <2>1. Tallied(inv, mat, txn)
    BY DEF FloorInv
  <2>2. BooksOf(o) = [inv |-> inv, mat |-> mat[o], txn |-> txn[o]]
    BY DEF BooksOf
  <2> QED
    BY <1>1, <2>1, <2>2, TallyStep
<1>6. Tallied(inv', mat', txn')
  BY <1>2, <1>5, Zenon
<1>7. Frozen
  BY <1>3 DEF Frozen
<1> QED
  BY <1>4, <1>6, <1>7 DEF Kept

(* One that keeps the rows.                                                *)
LEMMA OneOrderKeeps ==
  ASSUME FloorInv, NEW o \in Orders, NEW c, Sound(c), SetBooks(o, c), Balanced(BooksOf(o), c),
         \A x \in Orders \ {o} : order'[x] = order[x] /\ op'[x] = op[x],
         OrderOK(order'[o], op'[o], c.mat, c.txn)
  PROVE  Kept
<1>1. Sound(BooksOf(o)) /\ BooksOf(o).mat = mat[o]
  BY FloorTypes DEF BooksOf
<1>2. Tallies(BooksOf(o), c)
  BY <1>1, BalancedTallies
<1>3. \A i \in Ops : mat[o][i].posting # "none" =>
        c.mat[i].required = mat[o][i].required /\ c.mat[i].posting # "none"
  BY <1>1 DEF Balanced
<1> QED
  BY <1>2, <1>3, OneOrderTallies

(* A handler that writes one order, and at most the finished goods.        *)
LEMMA OneRowKeeps ==
  ASSUME FloorInv, NEW o \in Orders, UNCHANGED <<mat, txn>>,
         inv'.onHand = inv.onHand, inv'.ledgerNet = inv.ledgerNet,
         \A x \in Orders \ {o} : order'[x] = order[x] /\ op'[x] = op[x],
         OrderOK(order'[o], op'[o], mat[o], txn[o])
  PROVE  Kept
<1>1. OrdersOK'
  BY DEF FloorInv, OrdersOK
<1>2. Tallied(inv', mat, txn)
  BY DEF FloorInv, Tallied
<1>3. Tallied(inv', mat', txn')
  BY <1>2, Zenon
<1>4. Frozen
  BY DEF Frozen
<1> QED
  BY <1>1, <1>3, <1>4 DEF Kept

(* The account of what an order consumed survives a balanced step.         *)
LEMMA StillConsumed ==
  ASSUME NEW b, Sound(b), NEW c, Sound(c), Balanced(b, c),
         b.txn.consumed = Spent(b.mat, b.txn)
  PROVE  c.txn.consumed = Spent(c.mat, c.txn) /\ c.txn.replaced = b.txn.replaced
<1>1. /\ Used(b.mat, b.txn, Consumed) \in Int /\ Used(c.mat, c.txn, Consumed) \in Int
      /\ b.txn.consumed \in Int /\ c.txn.consumed \in Int /\ b.txn.replaced \in Int
  BY SoundTypes, UsedIs
<1> QED
  BY <1>1 DEF Balanced, Spent

(* An order with an operation left to report has as many receipts at most  *)
(* as finished operations were taken up again; without one it has no end   *)
(* and waits for no short decision.                                        *)
LEMMA NotYetDone ==
  ASSUME NEW w \in Order, NEW ops \in [Ops -> Operation], NEW m \in Rows, NEW t \in Txn,
         OrderOK(w, ops, m, t), NEW i \in Ops, ~Done(ops[i].status)
  PROVE  /\ t.receipts <= w.reopened /\ t.bom = "none"
         /\ w.reopened = 0 => /\ t.receipts = 0 /\ ~w.ended /\ w.status # "short"
                              /\ w.status = "complete" => w.inspections > 0
                              /\ m[i].posting = "none"
<1>1. NumOps > 0
  BY RoutingAssumption DEF Ops
<1>2. ~AllDone(ops)
  BY DEF AllDone
<1>3. t.receipts <= w.reopened /\ t.bom = "none"
  BY <1>1, <1>2 DEF OrderOK, Settled
<1>4. t.receipts \in Nat /\ w.inspections \in Nat
  BY LedgerColumns DEF Order
<1>5. ASSUME w.reopened = 0
      PROVE  /\ t.receipts = 0 /\ ~w.ended /\ w.status # "short"
             /\ w.status = "complete" => w.inspections > 0
             /\ m[i].posting = "none"
  <2>1. FirstRunOK(w, ops, m, t)
    BY <1>5 DEF OrderOK
  <2> QED
    BY <1>2, <1>3, <1>4, <1>5, <2>1 DEF FirstRunOK
<1> QED
  BY <1>3, <1>5

-----------------------------------------------------------------------------
(* The shop floor.                                                         *)

(* update_po_status, for a handler that found an operation not done.       *)
LEMMA UpdatePoStatusKeeps ==
  ASSUME FloorInv, NEW o \in Orders, NEW w \in Order, NEW ops \in [Ops -> Operation],
         NEW b, Sound(b), Balanced(BooksOf(o), b), UpdatePoStatus(o, w, ops, b),
         order[o].status \in Live, \E i \in Ops : ~Done(op[o][i].status),
         w.status = order[o].status, w.ended = order[o].ended,
         w.inspections = order[o].inspections, w.ordered = order[o].ordered,
         w.reopened = order[o].reopened,
         b.txn.bom = "none", b.txn.receipts = txn[o].receipts,
         \A i \in Ops : b.mat[i].required = mat[o][i].required,
         order[o].reopened = 0 =>
             \A i \in Ops : b.mat[i].posting # "none" => Done(ops[i].status)
  PROVE  Kept
<1> DEFINE new       == DerivePoStatus(w, ops)
           finishing == new # w.status /\ new = "complete" /\ ~w.ended
           made      == IF w.completed = 0 THEN w.ordered ELSE w.completed
           w2        == IF finishing
                          THEN [w EXCEPT !.status = new, !.ended = TRUE, !.qc = QueueForQC(w)]
                          ELSE [w EXCEPT !.status = new]
           got       == w.ordered + Floor0(made - w.ordered)
           c         == IF finishing THEN Receive(ConsumeStage(b, mat[o], made), got) ELSE b
<1>1. op' = [op EXCEPT ![o] = ops] /\ order' = [order EXCEPT ![o] = w2] /\ SetBooks(o, c)
  BY Zenon DEF UpdatePoStatus, Completion
<1>2. /\ Sound(BooksOf(o)) /\ order[o] \in Order /\ op[o] \in [Ops -> Operation]
      /\ mat[o] \in Rows /\ txn[o] \in Txn /\ OrderOK(order[o], op[o], mat[o], txn[o])
      /\ order \in [Orders -> Order] /\ op \in [Orders -> [Ops -> Operation]]
      /\ BooksOf(o).mat = mat[o] /\ BooksOf(o).txn = txn[o]
  BY FloorTypes DEF BooksOf
<1>3. PICK k \in Ops : ~Done(op[o][k].status)
  OBVIOUS
<1>4. /\ txn[o].receipts \in Nat /\ w.reopened \in Nat /\ txn[o].receipts <= w.reopened
      /\ w.reopened = 0 => ~w.ended /\ (w.status = "complete" => w.inspections > 0)
  <2>1. /\ txn[o].receipts <= order[o].reopened
        /\ order[o].reopened = 0 =>
             ~order[o].ended /\ (order[o].status = "complete" => order[o].inspections > 0)
    BY <1>2, <1>3, NotYetDone
  <2>2. txn[o].receipts \in Nat /\ order[o].reopened \in Nat
    BY <1>2, LedgerColumns DEF Order
  <2> QED
    BY <2>1, <2>2
<1>5. order[o].ordered > 0 /\ \A i \in Ops : mat[o][i].required > 0
  BY <1>2 DEF OrderOK, Live
<1>6. /\ order'[o] = w2 /\ op'[o] = ops
      /\ \A x \in Orders \ {o} : order'[x] = order[x] /\ op'[x] = op[x]
  BY <1>1, <1>2
<1>7. w.ordered \in Nat /\ made \in Nat /\ got \in Nat
  <2>1. w.ordered \in Nat /\ made \in Nat
    BY DEF Order
  <2> HIDE DEF made
  <2> QED
    BY <2>1, FloorIsNat
<1>8. Sound(c) /\ Balanced(b, c)
      /\ (finishing => /\ \A i \in Ops : c.mat[i].posting # "none"
                                         /\ c.mat[i].required = b.mat[i].required
                       /\ NetReserved(c.txn) = 0
                       /\ c.txn.receipts = txn[o].receipts + 1)
      /\ c.txn.bom = "none"
  <2> HIDE DEF made, got, new
  <2> DEFINE d == Receive(ConsumeStage(b, mat[o], made), got)
  <2>1. /\ Balanced(b, d) /\ NetReserved(d.txn) = 0
        /\ \A i \in Ops : d.mat[i].posting # "none" /\ d.mat[i].required = b.mat[i].required
        /\ d.txn.receipts = b.txn.receipts + 1
        /\ NumOps > 0 => d.txn.bom = "none"
    BY <1>2, <1>7, CompletionSettles
  <2>2. Sound(d)
    BY <1>2, <1>7, ConsumeStageIsSound, ReceiveIsSound
  <2>3. Balanced(b, b)
    BY DEF Balanced
  <2>4. NumOps > 0
    BY <1>3, RoutingAssumption DEF Ops
  <2> HIDE DEF d
  <2> QED
    BY <2>1, <2>2, <2>3, <2>4 DEF c, d
<1>9. Balanced(BooksOf(o), c)
  BY <1>8, BalancedTwice
<1>10. c.txn.consumed = Spent(c.mat, c.txn) /\ c.txn.replaced = txn[o].replaced
  <2> HIDE DEF c
  <2>1. BooksOf(o).txn.consumed = Spent(BooksOf(o).mat, BooksOf(o).txn)
    BY <1>2, Zenon DEF OrderOK
  <2> QED
    BY <1>2, <1>8, <1>9, <2>1, StillConsumed
<1>11. /\ w2.ordered = w.ordered /\ w2.inspections = w.inspections
       /\ w2.status = new /\ w2.reopened = w.reopened
       /\ ~finishing => w2.ended = w.ended
  BY DEF Order
<1>12. new \in {"released", "in_progress", "short", "complete"}
       /\ (new \in {"short", "complete"} => AllDone(ops))
  <2>1. NumOps # 0
    BY <1>3, RoutingAssumption DEF Ops
  <2> QED
    BY <2>1 DEF DerivePoStatus, AllDone
<1>13. /\ NumOps # 0 /\ new \notin Early \cup {"unused"}
       /\ txn[o].replaced > 0 => w.reopened > 0
  BY <1>2, <1>3, <1>12 DEF OrderOK, Ops, Early
<1>14. /\ c.txn.receipts <= w2.reopened + 1
       /\ ~Settled(w2, ops) => c.txn.receipts <= w2.reopened
       /\ w2.reopened = 0 => FirstRunOK(w2, ops, c.mat, c.txn)
  <2> HIDE DEF new, w2, c, made
  <2>1. CASE finishing
    <3>1. AllDone(ops) /\ w2.status = "complete" /\ Settled(w2, ops)
      BY <1>11, <1>12, <2>1 DEF Settled
    <3>2. ASSUME w2.reopened = 0 PROVE FirstRunOK(w2, ops, c.mat, c.txn)
      BY <1>4, <1>8, <1>11, <2>1, <3>1, <3>2 DEF FirstRunOK, AllDone
    <3> QED
      BY <1>4, <1>8, <1>11, <2>1, <3>1, <3>2
  <2>2. CASE ~finishing
    <3>1. c = b
      BY <2>2 DEF c
    <3>2. w2.reopened = 0 /\ new = "complete" => w2.inspections > 0
      BY <1>4, <1>11, <2>2
    <3>3. ASSUME w2.reopened = 0 PROVE FirstRunOK(w2, ops, c.mat, c.txn)
      <4>1. c.txn.receipts = 0 /\ ~w2.ended
        BY <1>4, <1>11, <2>2, <3>1, <3>3
      <4> QED
        BY <1>11, <1>12, <3>1, <3>2, <3>3, <4>1 DEF FirstRunOK, Repairable
    <3> QED
      BY <1>4, <1>11, <3>1, <3>3
  <2> QED
    BY <2>1, <2>2
<1>15. OrderOK(w2, ops, c.mat, c.txn)
  <2> HIDE DEF new, w2, c, made
  <2>1. \A i \in Ops : c.mat[i].required = b.mat[i].required
    BY <1>8 DEF c
  <2> QED
    BY <1>5, <1>8, <1>10, <1>11, <1>13, <1>14, <2>1 DEF OrderOK
<1> HIDE DEF w2, c
<1> QED
  BY <1>1, <1>6, <1>8, <1>9, <1>15, OneOrderKeeps, Zenon

(* start_operation and skip_operation.                                     *)
LEMMA StartOrSkipKeeps ==
  ASSUME FloorInv, NEW o \in Orders, NEW i \in Ops,
         StartOperation(o, i) \/ SkipOperation(o, i)
  PROVE  Kept
<1>1. /\ Sound(BooksOf(o)) /\ order[o] \in Order /\ op[o] \in [Ops -> Operation]
      /\ mat[o] \in Rows /\ txn[o] \in Txn /\ OrderOK(order[o], op[o], mat[o], txn[o])
      /\ BooksOf(o).mat = mat[o] /\ BooksOf(o).txn = txn[o]
  BY FloorTypes DEF BooksOf
<1>2. order[o].status \in Live /\ ~Done(op[o][i].status)
  BY DEF StartOperation, SkipOperation, Done
<1>3. txn[o].bom = "none"
  BY <1>1, <1>2, NotYetDone
<1>4. PICK s \in {"running", "skipped"} :
        UpdatePoStatus(o, order[o], [op[o] EXCEPT ![i].status = s], BooksOf(o))
  BY DEF StartOperation, SkipOperation
<1> DEFINE ops == [op[o] EXCEPT ![i].status = s]
<1>5. ops \in [Ops -> Operation]
  BY OperationStatusIsTyped DEF FloorInv, OpStatuses
<1>6. order[o].reopened = 0 => \A j \in Ops : mat[o][j].posting # "none" => Done(ops[j].status)
  BY <1>1, <1>2 DEF OrderOK, FirstRunOK
<1>7. Balanced(BooksOf(o), BooksOf(o))
  BY DEF Balanced
<1> HIDE DEF ops
<1>8. UpdatePoStatus(o, order[o], ops, BooksOf(o))
  BY <1>4 DEF ops
<1> QED
  BY <1>1, <1>2, <1>3, <1>5, <1>6, <1>7, <1>8, UpdatePoStatusKeeps

(* Skipping what follows undoes no operation.                              *)
LEMMA SkipLaterIsDone ==
  ASSUME NEW ops \in [Ops -> Operation], NEW i, NEW j \in Ops, Done(ops[j].status)
  PROVE  Done(SkipLater(ops, i)[j].status)
  BY DEF SkipLater, Done

(* complete_operation.                                                     *)
LEMMA CompleteOperationKeeps ==
  ASSUME FloorInv, NEW o \in Orders, NEW i \in Ops, NEW good \in Counts, NEW bad \in Counts,
         CompleteOperation(o, i, good, bad)
  PROVE  Kept
<1> DEFINE w     == [order[o] EXCEPT !.completed = good, !.scrapped = @ + bad]
           worse == IF bad = 0 THEN 0 ELSE op[o][i].bad + bad
           ops   == [op[o] EXCEPT ![i] = [status |-> "complete", good |-> good, bad |-> worse]]
           next  == IF good = 0 THEN SkipLater(ops, i) ELSE ops
           c     == ConsumeRow(BooksOf(o), i)
<1>1. /\ Sound(BooksOf(o)) /\ order[o] \in Order /\ op[o] \in [Ops -> Operation]
      /\ mat[o] \in Rows /\ txn[o] \in Txn /\ OrderOK(order[o], op[o], mat[o], txn[o])
      /\ BooksOf(o).mat = mat[o] /\ BooksOf(o).txn = txn[o]
  BY FloorTypes DEF BooksOf
<1>2. order[o].status \in Live /\ ~Done(op[o][i].status)
  BY DEF CompleteOperation, Done
<1>3. txn[o].bom = "none"
  BY <1>1, <1>2, NotYetDone
<1>4. UpdatePoStatus(o, w, next, c)
  BY Zenon DEF CompleteOperation
<1>5. good \in Nat /\ bad \in Nat /\ worse \in Nat /\ order[o].scrapped + bad \in Nat
  BY <1>1 DEF Counts, Operation, Order
<1>6. /\ w \in Order /\ w.status = order[o].status /\ w.ended = order[o].ended
      /\ w.inspections = order[o].inspections /\ w.ordered = order[o].ordered
      /\ w.reopened = order[o].reopened
  <2>1. [order[o] EXCEPT !.completed = good] \in Order
    BY <1>1, <1>5, WriteCompleted
  <2>2. [[order[o] EXCEPT !.completed = good] EXCEPT !.scrapped = order[o].scrapped + bad] \in Order
    BY <1>5, <2>1, WriteScrapped
  <2> QED
    BY <1>1, <2>2 DEF Order
<1>7. /\ ops \in [Ops -> Operation] /\ Done(ops[i].status)
      /\ \A j \in Ops : Done(op[o][j].status) => Done(ops[j].status)
  <2> HIDE DEF worse
  <2> QED
    BY <1>1, <1>5 DEF Operation, OpStatuses, Done
<1> HIDE DEF ops
<1>8. /\ next \in [Ops -> Operation] /\ Done(next[i].status)
      /\ \A j \in Ops : Done(op[o][j].status) => Done(next[j].status)
  BY <1>7, SkipLaterIsTyped, SkipLaterIsDone
<1>9. /\ Sound(c) /\ Balanced(BooksOf(o), c)
      /\ \A j \in Ops \ {i} : c.mat[j] = mat[o][j]
      /\ \A j \in Ops : c.mat[j].required = mat[o][j].required
      /\ c.txn.bom = "none" /\ c.txn.receipts = txn[o].receipts
  <2> DEFINE b == BooksOf(o)
  <2>1. Sound(b) /\ b.mat = mat[o] /\ b.txn = txn[o]
    BY <1>1
  <2> HIDE DEF b
  <2>3. Sound(ConsumeRow(b, i))
    BY <2>1, ConsumeRowIsSound
  <2>2. Balanced(b, ConsumeRow(b, i))
    BY <2>1, ConsumeRowBalances
  <2>4. /\ \A j \in Ops \ {i} : ConsumeRow(b, i).mat[j] = b.mat[j]
        /\ \A j \in Ops : ConsumeRow(b, i).mat[j].required = b.mat[j].required
    BY <2>1, ConsumeRowBalances
  <2>5. /\ ConsumeRow(b, i).txn.bom = b.txn.bom
        /\ ConsumeRow(b, i).txn.receipts = b.txn.receipts
    BY <2>1, ConsumeRowBalances
  <2> QED
    BY <1>3, <2>1, <2>2, <2>3, <2>4, <2>5 DEF b
<1> HIDE DEF w, next, c
<1>10. ASSUME order[o].reopened = 0
       PROVE  \A j \in Ops : c.mat[j].posting # "none" => Done(next[j].status)
  <2>1. \A j \in Ops : mat[o][j].posting # "none" => Done(op[o][j].status)
    BY <1>1, <1>10 DEF OrderOK, FirstRunOK
  <2> QED
    BY <1>8, <1>9, <2>1
<1> QED
  BY <1>2, <1>4, <1>6, <1>8, <1>9, <1>10, UpdatePoStatusKeeps

(* Operations that move and undo none that is done; orders that move       *)
(* between statuses of the floor.                                          *)
LEMMA FloorStepKeeps ==
  ASSUME FloorInv, NEW o \in Orders, UNCHANGED <<mat, txn, inv>>,
         \A x \in Orders \ {o} : order'[x] = order[x] /\ op'[x] = op[x],
         order[o].status \in Live,
         order'[o].ordered = order[o].ordered, order'[o].ended = order[o].ended,
         order'[o].inspections = order[o].inspections, order'[o].reopened = order[o].reopened,
         \/ order'[o].status = order[o].status
         \/ /\ order[o].status \in {"draft", "released", "scheduled", "in_progress", "short", "on_hold"}
            /\ order'[o].status \in {"in_progress", "on_hold", "scrapped"}
         \/ order[o].status \in {"draft", "scheduled"} /\ order'[o].status = "scheduled",
         \A i \in Ops : Done(op[o][i].status) => Done(op'[o][i].status)
  PROVE  Kept
<1>1. /\ mat[o] \in Rows /\ txn[o] \in Txn /\ order[o] \in Order
      /\ OrderOK(order[o], op[o], mat[o], txn[o])
  BY FloorTypes
<1>2. AllDone(op[o]) => AllDone(op'[o])
  BY DEF AllDone
<1>3. Settled(order[o], op[o]) => Settled(order'[o], op'[o])
  BY <1>2 DEF Settled
<1>4. FirstRunOK(order[o], op[o], mat[o], txn[o]) => FirstRunOK(order'[o], op'[o], mat[o], txn[o])
  BY <1>2, <1>3 DEF FirstRunOK, Settled, Repairable, Live
<1>5. order'[o].status \in Early => order[o].status \in Early
  BY DEF Early
<1>6. order'[o].status # "unused" /\ order[o].status \notin {"unused", "deleted"}
  BY DEF Live
<1>7. OrderOK(order'[o], op'[o], mat[o], txn[o])
  BY <1>1, <1>3, <1>4, <1>5, <1>6 DEF OrderOK
<1> QED
  BY <1>7, OneRowKeeps

(* Queueing an operation on a resource and taking it back.  Queueing one   *)
(* that is done pays for the receipt the order may have.                   *)
LEMMA DispatchKeeps ==
  ASSUME FloorInv, NEW o \in Orders, NEW i \in Ops,
         QueueOperation(o, i) \/ UnscheduleOperation(o, i)
  PROVE  Kept
<1>1. /\ order[o].status \in Live /\ UNCHANGED <<mat, txn, inv>>
      /\ order \in [Orders -> Order] /\ op \in [Orders -> [Ops -> Operation]]
      /\ order[o] \in Order /\ mat[o] \in Rows /\ txn[o] \in Txn
      /\ OrderOK(order[o], op[o], mat[o], txn[o])
  BY FloorTypes DEF QueueOperation, UnscheduleOperation, UnchangedBooks
<1>2. PICK s \in {"queued", "pending"} : op' = [op EXCEPT ![o][i].status = s]
  BY DEF QueueOperation, UnscheduleOperation
<1>3. /\ \A x \in Orders \ {o} : op'[x] = op[x]
      /\ \A j \in Ops \ {i} : op'[o][j] = op[o][j]
  BY <1>1, <1>2
<1>4. CASE ~Done(op[o][i].status)
  <2>1. \A j \in Ops : Done(op[o][j].status) => Done(op'[o][j].status)
    BY <1>3, <1>4
  <2>2. CASE UnscheduleOperation(o, i)
    <3>1. order' = order
      BY <2>2 DEF UnscheduleOperation
    <3> QED
      BY <1>1, <1>3, <2>1, <3>1, FloorStepKeeps
  <2>3. CASE QueueOperation(o, i)
    <3> DEFINE n == order[o].reopened + 0
    <3>1. n = order[o].reopened
      BY <1>1 DEF Order
    <3>2. order' = [order EXCEPT ![o].reopened = n]
      BY <1>4, <2>3 DEF QueueOperation
    <3> HIDE DEF n
    <3>3. /\ order'[o].ordered = order[o].ordered /\ order'[o].status = order[o].status
          /\ order'[o].inspections = order[o].inspections /\ order'[o].reopened = n
          /\ \A x \in Orders \ {o} : order'[x] = order[x]
      BY <1>1, <3>2 DEF Order
    <3>4. order'[o].ended = order[o].ended
      BY <1>1, <3>2 DEF Order
    <3> QED
      BY <1>1, <1>3, <2>1, <3>1, <3>3, <3>4, FloorStepKeeps
  <2> QED
    BY <2>2, <2>3
<1>5. CASE Done(op[o][i].status)
  <2>1. order' = [order EXCEPT ![o].reopened = order[o].reopened + 1]
    BY <1>5 DEF QueueOperation, UnscheduleOperation, Done
  <2>2. /\ order'[o].reopened = order[o].reopened + 1 /\ order'[o].status = order[o].status
        /\ order'[o].ordered = order[o].ordered
        /\ \A x \in Orders \ {o} : order'[x] = order[x]
    BY <1>1, <2>1 DEF Order
  <2>3. order'[o].ended = order[o].ended
    BY <1>1, <2>1 DEF Order
  <2>4. order[o].reopened \in Nat /\ txn[o].receipts \in Nat /\ NumOps # 0
    BY <1>1, LedgerColumns DEF Order, Ops
  <2>5. OrderOK(order'[o], op'[o], mat[o], txn[o])
    BY <1>1, <2>2, <2>3, <2>4 DEF OrderOK
  <2> QED
    BY <1>1, <1>3, <2>2, <2>5, OneRowKeeps
<1> QED
  BY <1>4, <1>5

(* process_operation_scrap.                                                *)
LEMMA ScrapOperationKeeps ==
  ASSUME FloorInv, NEW o \in Orders, NEW i \in Ops, NEW q \in Quantities, ScrapOperation(o, i, q)
  PROVE  Kept
<1> DEFINE bad  == op[o][i].bad + q
           ops  == [op[o] EXCEPT ![i].bad = bad]
           gone == op[o][i].status = "complete" /\ op[o][i].good <= bad
           next == IF gone THEN SkipLater(ops, i) ELSE ops
<1>1. /\ order \in [Orders -> Order] /\ op \in [Orders -> [Ops -> Operation]]
      /\ order[o] \in Order /\ op[o] \in [Ops -> Operation]
  BY FloorTypes
<1>2. /\ order' = [order EXCEPT ![o].scrapped = @ + q] /\ op' = [op EXCEPT ![o] = next]
      /\ order[o].status \in Live /\ UNCHANGED <<mat, txn, inv>>
  BY Zenon DEF ScrapOperation, UnchangedBooks
<1>3. bad \in Nat
  BY <1>1, QuantityAssumption DEF Operation, Quantities
<1>4. /\ ops \in [Ops -> Operation]
      /\ \A j \in Ops : ops[j].status = op[o][j].status
  <2> HIDE DEF bad
  <2>1. [op[o][i] EXCEPT !.bad = bad] \in Operation
    BY <1>1, <1>3 DEF Operation
  <2> QED
    BY <1>1, <2>1 DEF Operation
<1> HIDE DEF ops, gone
<1>5. \A j \in Ops : Done(op[o][j].status) => Done(next[j].status)
  BY <1>4, SkipLaterIsDone
<1> HIDE DEF next
<1>6. /\ \A x \in Orders \ {o} : op'[x] = op[x] /\ order'[x] = order[x]
      /\ op'[o] = next
  BY <1>1, <1>2
<1>7. /\ order'[o].ordered = order[o].ordered /\ order'[o].ended = order[o].ended
      /\ order'[o].inspections = order[o].inspections /\ order'[o].status = order[o].status
      /\ order'[o].reopened = order[o].reopened
  BY <1>1, <1>2 DEF Order
<1> QED
  BY <1>2, <1>5, <1>6, <1>7, FloorStepKeeps

(* start_production_order, hold_production_order and                       *)
(* schedule_production_order.                                              *)
LEMMA MoveOrderKeeps ==
  ASSUME FloorInv, NEW o \in Orders, StartOrder(o) \/ HoldOrder(o) \/ ScheduleOrder(o)
  PROVE  Kept
<1>1. /\ order \in [Orders -> Order] /\ op \in [Orders -> [Ops -> Operation]]
      /\ order[o] \in Order /\ op[o] \in [Ops -> Operation]
  BY FloorTypes
<1>2. PICK s \in {"in_progress", "on_hold", "scheduled"} :
        /\ order' = [order EXCEPT ![o].status = s]
        /\ \/ /\ order[o].status \in {"draft", "released", "scheduled", "in_progress", "short", "on_hold"}
              /\ s \in {"in_progress", "on_hold"}
           \/ order[o].status \in {"draft", "scheduled"} /\ s = "scheduled"
  BY DEF StartOrder, HoldOrder, ScheduleOrder, SetStatus
<1>3. order[o].status \in Live /\ UNCHANGED <<mat, txn, inv>>
  BY DEF StartOrder, HoldOrder, ScheduleOrder, UnchangedBooks, Live
<1>4. op' = [op EXCEPT ![o] = FirstRunning(op[o])] \/ op' = op
  BY DEF StartOrder, HoldOrder, ScheduleOrder
<1>5. \A j \in Ops : Done(op[o][j].status) => Done(FirstRunning(op[o])[j].status)
  BY DEF FirstRunning, Done
<1> HIDE DEF FirstRunning
<1>6. /\ \A x \in Orders \ {o} : op'[x] = op[x] /\ order'[x] = order[x]
      /\ \A j \in Ops : Done(op[o][j].status) => Done(op'[o][j].status)
  BY <1>1, <1>2, <1>4, <1>5
<1>7. /\ order'[o].ordered = order[o].ordered /\ order'[o].ended = order[o].ended
      /\ order'[o].inspections = order[o].inspections /\ order'[o].status = s
      /\ order'[o].reopened = order[o].reopened
  BY <1>1, <1>2 DEF Order
<1> QED
  BY <1>2, <1>3, <1>6, <1>7, FloorStepKeeps

-----------------------------------------------------------------------------
(* Planning.                                                               *)

(* A new order, opened on the row of an id not given out.                  *)
LEMMA OpenedOrder ==
  ASSUME NEW v \in Inv, v.allocated >= v.ledgerNet, NEW q \in Quantities,
         NEW m \in Rows, \A i \in Ops : m[i].posting = "none"
  PROVE  /\ Sound(OpeningBooks(v, q))
         /\ Sound([inv |-> v, mat |-> m, txn |-> NoTxn])
         /\ Balanced([inv |-> v, mat |-> m, txn |-> NoTxn], OpeningBooks(v, q))
         /\ OrderOK(NewOrder(q), PendingOps, OpeningBooks(v, q).mat, OpeningBooks(v, q).txn)
<1> DEFINE b == [inv |-> v, mat |-> m, txn |-> NoTxn]
           c == OpeningBooks(v, q)
<1>1. q \in Nat /\ q > 0
  BY QuantityAssumption DEF Quantities
<1>2. Sound(c)
  BY <1>1, OpeningBooksAreSound
<1>3. NoTxn \in Txn
  BY DEF NoTxn, Txn, Postings
<1>4. Sound(b)
  BY <1>3, PartsAreSound
<1>5. Balanced(b, c)
  BY <1>1, OpeningBalances
<1>6. \A i \in Ops : c.mat[i].posting = "none" /\ c.mat[i].required = q
  BY <1>1, OpeningBalances
<1>7. c.txn.bom = "none" /\ c.txn.receipts = 0 /\ c.txn.consumed = 0 /\ c.txn.replaced = 0
  BY <1>1, OpeningBalances
<1>8. c.mat \in Rows /\ c.txn \in Txn
  BY <1>2, SoundTypes
<1> HIDE DEF b, c
<1>9. Used(c.mat, c.txn, Consumed) = 0
  <2>1. \A i : RowUse(c.mat, Consumed, i) = 0
    BY <1>6 DEF RowUse, Consumed
  <2>2. BomUse(c.txn, Consumed) = 0
    BY <1>7 DEF BomUse, Consumed
  <2> QED
    BY <1>8, <2>1, <2>2, UsedIs
<1>10. OrderOK(NewOrder(q), PendingOps, c.mat, c.txn)
  <2>1. /\ NewOrder(q).status = "draft" /\ NewOrder(q).ordered = q /\ NewOrder(q).reopened = 0
        /\ ~NewOrder(q).ended
    BY DEF NewOrder
  <2>2. FirstRunOK(NewOrder(q), PendingOps, c.mat, c.txn)
    BY <1>6, <1>7, <2>1 DEF FirstRunOK, Repairable
  <2>3. Spent(c.mat, c.txn) = 0
    BY <1>7, <1>9 DEF Spent
  <2> QED
    BY <1>1, <1>6, <1>7, <2>1, <2>2, <2>3 DEF OrderOK
<1> QED
  BY <1>2, <1>4, <1>5, <1>10 DEF b, c

(* An id not given out has an empty ledger and no consumed row.            *)
LEMMA UnusedIsEmpty ==
  ASSUME FloorInv, NEW o \in Orders, order[o].status = "unused"
  PROVE  txn[o] = NoTxn /\ \A i \in Ops : mat[o][i].posting = "none"
  BY FloorTypes DEF OrderOK, Early

(* create_production_order.                                                *)
LEMMA CreateOrderKeeps ==
  ASSUME FloorInv, NEW o \in Orders, NEW q \in Quantities, CreateOrder(o, q)
  PROVE  Kept
<1> DEFINE c == OpeningBooks(inv, q)
<1>1. /\ order \in [Orders -> Order] /\ op \in [Orders -> [Ops -> Operation]]
      /\ mat[o] \in Rows /\ inv \in Inv /\ inv.allocated >= inv.ledgerNet
  BY FloorTypes
<1>2. /\ order[o].status = "unused" /\ order' = [order EXCEPT ![o] = NewOrder(q)]
      /\ op' = [op EXCEPT ![o] = PendingOps] /\ SetBooks(o, c)
  BY DEF CreateOrder
<1>3. txn[o] = NoTxn /\ \A i \in Ops : mat[o][i].posting = "none"
  BY <1>2, UnusedIsEmpty
<1>4. BooksOf(o) = [inv |-> inv, mat |-> mat[o], txn |-> NoTxn]
  BY <1>3 DEF BooksOf
<1>5. Sound(c) /\ Balanced(BooksOf(o), c) /\ OrderOK(NewOrder(q), PendingOps, c.mat, c.txn)
  BY <1>1, <1>3, <1>4, OpenedOrder
<1> HIDE DEF c
<1>6. /\ order'[o] = NewOrder(q) /\ op'[o] = PendingOps
      /\ \A x \in Orders \ {o} : order'[x] = order[x] /\ op'[x] = op[x]
  BY <1>1, <1>2
<1>7. OrderOK(order'[o], op'[o], c.mat, c.txn)
  BY <1>5, <1>6, Zenon
<1> QED
  BY <1>2, <1>5, <1>6, <1>7, OneOrderKeeps

(* update_production_order.                                                *)
LEMMA UpdateQuantityKeeps ==
  ASSUME FloorInv, NEW o \in Orders, NEW q \in Quantities, UpdateQuantity(o, q)
  PROVE  Kept
<1>1. /\ order \in [Orders -> Order] /\ order[o] \in Order /\ q > 0
      /\ OrderOK(order[o], op[o], mat[o], txn[o])
  BY FloorTypes DEF Quantities
<1>2. /\ order' = [order EXCEPT ![o].ordered = q] /\ UNCHANGED <<op, mat, txn, inv>>
      /\ order[o].status \in {"draft", "scheduled"}
  BY DEF UpdateQuantity
<1>3. /\ order'[o].ordered = q /\ order'[o].status = order[o].status
      /\ order'[o].inspections = order[o].inspections /\ order'[o].reopened = order[o].reopened
      /\ \A x \in Orders \ {o} : order'[x] = order[x]
  BY <1>1, <1>2 DEF Order
<1>4. order'[o].ended = order[o].ended
  BY <1>1, <1>2 DEF Order
<1>5. OrderOK(order'[o], op'[o], mat[o], txn[o])
  <2>1. Settled(order'[o], op[o]) <=> Settled(order[o], op[o])
    BY <1>3 DEF Settled
  <2>2. FirstRunOK(order[o], op[o], mat[o], txn[o]) => FirstRunOK(order'[o], op[o], mat[o], txn[o])
    BY <1>3, <1>4, <2>1 DEF FirstRunOK
  <2> QED
    BY <1>1, <1>2, <1>3, <1>4, <2>1, <2>2 DEF OrderOK
<1> QED
  BY <1>2, <1>3, <1>5, OneRowKeeps

(* delete_production_order.                                                *)
LEMMA DeleteOrderKeeps ==
  ASSUME FloorInv, NEW o \in Orders, DeleteOrder(o)
  PROVE  Kept
<1> DEFINE b == BooksOf(o)
           r == ReleaseAll(b, mat[o])
           m == RoutedRows(0)
           c == [r EXCEPT !.mat = m]
<1>1. /\ order \in [Orders -> Order] /\ op \in [Orders -> [Ops -> Operation]]
      /\ order[o] \in Order /\ mat[o] \in Rows /\ txn[o] \in Txn
      /\ Sound(b) /\ b.mat = mat[o] /\ b.txn = txn[o]
      /\ OrderOK(order[o], op[o], mat[o], txn[o])
  BY FloorTypes DEF BooksOf
<1>2. /\ order[o].status = "draft" /\ order' = [order EXCEPT ![o].status = "deleted"]
      /\ op' = [op EXCEPT ![o] = PendingOps] /\ SetBooks(o, c)
  BY DEF DeleteOrder, SetStatus
<1>3. /\ txn[o].receipts <= order[o].reopened /\ ~order[o].ended
      /\ order[o].reopened \in Nat /\ txn[o].receipts \in Nat
      /\ \A i \in Ops : mat[o][i].posting = "none"
  <2>1. txn[o].receipts <= order[o].reopened /\ ~order[o].ended
        /\ \A i \in Ops : mat[o][i].posting = "none"
    BY <1>1, <1>2 DEF OrderOK, Early, Settled
  <2>2. order[o].reopened \in Nat /\ txn[o].receipts \in Nat
    BY <1>1, LedgerColumns DEF Order
  <2> QED
    BY <2>1, <2>2
<1> HIDE DEF b
<1>4. Sound(r) /\ Quiet(b, r) /\ NetReserved(r.txn) = 0
  BY <1>1, ReleaseAllIsSound, ReleaseAllIsQuiet
<1> HIDE DEF r
<1>5. m \in Rows /\ \A i \in Ops : m[i].posting = "none" /\ m[i].allocated = 0
  BY RoutingIsTyped DEF RoutedRows, NewRow
<1> HIDE DEF m
<1>6. /\ \A i \in Ops : r.mat[i].posting = "none"
      /\ r.txn.receipts = txn[o].receipts /\ r.txn.bom = txn[o].bom
  BY <1>1, <1>3, <1>4 DEF Quiet
<1>7. Sound(c) /\ Balanced(r, c)
  BY <1>4, <1>5, <1>6, ResizedBalances
<1>8. Balanced(b, c)
  BY <1>1, <1>4, <1>7, QuietIsBalanced, BalancedTwice
<1>9. c.mat = m /\ c.txn = r.txn
  BY <1>4 DEF Sound, Books
<1>10. c.txn.consumed = Spent(c.mat, c.txn) /\ c.txn.replaced = txn[o].replaced
  <2>1. b.txn.consumed = Spent(b.mat, b.txn)
    BY <1>1, Zenon DEF OrderOK
  <2> HIDE DEF c
  <2> QED
    BY <1>1, <1>7, <1>8, <2>1, StillConsumed
<1> HIDE DEF c
<1>11. /\ order'[o].status = "deleted" /\ order'[o].ended = order[o].ended /\ op'[o] = PendingOps
       /\ order'[o].reopened = order[o].reopened
       /\ \A x \in Orders \ {o} : order'[x] = order[x] /\ op'[x] = op[x]
  BY <1>1, <1>2 DEF Order
<1>12. OrderOK(order'[o], op'[o], c.mat, c.txn)
  <2>1. c.txn.receipts = txn[o].receipts /\ c.txn.bom = txn[o].bom /\ NetReserved(c.txn) = 0
    BY <1>4, <1>6, <1>9
  <2>2. order[o].reopened = 0 => FirstRunOK(order'[o], op'[o], c.mat, c.txn)
    <3>1. ASSUME order[o].reopened = 0 PROVE txn[o].receipts = 0
      BY <1>3, <3>1
    <3> QED
      BY <1>3, <1>5, <1>9, <1>11, <2>1, <3>1 DEF FirstRunOK
  <2>3. /\ NumOps > 0 \/ txn[o].receipts = 0 => txn[o].bom = "none"
        /\ NumOps = 0 => order[o].reopened = 0
        /\ txn[o].replaced > 0 => order[o].reopened > 0
    BY <1>1 DEF OrderOK
  <2>4. txn[o].receipts <= order[o].reopened + 1
    BY <1>3
  <2> QED
    BY <1>3, <1>5, <1>9, <1>10, <1>11, <2>1, <2>2, <2>3, <2>4 DEF OrderOK
<1> QED
  BY <1>2, <1>7, <1>8, <1>11, <1>12, OneOrderKeeps DEF b

(* A handler that only reserves or releases for an order, and moves it:    *)
(* to the floor, out of it with nothing held, or not at all.               *)
LEMMA QuietKeeps ==
  ASSUME FloorInv, NEW o \in Orders, NEW c, Sound(c), SetBooks(o, c), Quiet(BooksOf(o), c),
         UNCHANGED op, NEW s \in Statuses, NEW e \in BOOLEAN,
         order' = [order EXCEPT ![o] = [@ EXCEPT !.status = s, !.ended = e]],
         order[o].status # "unused",
         \/ order[o].status \in {"draft", "scheduled", "on_hold"} /\ s = "released"
            /\ e = order[o].ended
         \/ /\ NetReserved(c.txn) = 0
            /\ \A i \in Ops : c.mat[i].posting = "none" => c.mat[i].allocated = 0
            /\ \/ s = "cancelled" /\ e = order[o].ended /\ order[o].status \in Live
               \/ s = "scrapped" /\ order[o].status = "short"
         \/ /\ NetReserved(c.txn) = 0 /\ c.mat = mat[o]
            /\ s = order[o].status /\ e = order[o].ended /\ s \in Repairable
  PROVE  Kept
<1> DEFINE b == BooksOf(o)
<1>1. /\ order \in [Orders -> Order] /\ order[o] \in Order /\ mat[o] \in Rows /\ txn[o] \in Txn
      /\ Sound(b) /\ b.mat = mat[o] /\ b.txn = txn[o]
      /\ OrderOK(order[o], op[o], mat[o], txn[o])
  BY FloorTypes DEF BooksOf
<1> HIDE DEF b
<1>2. Balanced(b, c)
  BY <1>1, QuietIsBalanced DEF b
<1>3. c.txn.consumed = Spent(c.mat, c.txn) /\ c.txn.replaced = txn[o].replaced
  <2>1. b.txn.consumed = Spent(b.mat, b.txn)
    BY <1>1, Zenon DEF OrderOK
  <2> QED
    BY <1>1, <1>2, <2>1, StillConsumed
<1>4. /\ \A i \in Ops : /\ c.mat[i].posting = mat[o][i].posting
                        /\ c.mat[i].required = mat[o][i].required
      /\ c.txn.bom = txn[o].bom /\ c.txn.receipts = txn[o].receipts
  BY <1>1 DEF Quiet, b
<1>5. /\ order'[o].status = s /\ order'[o].ended = e
      /\ order'[o].ordered = order[o].ordered /\ order'[o].inspections = order[o].inspections
      /\ order'[o].reopened = order[o].reopened
      /\ \A x \in Orders \ {o} : order'[x] = order[x] /\ op'[x] = op[x]
      /\ op'[o] = op[o]
  BY <1>1 DEF Order
<1>6. /\ Settled(order[o], op[o]) => Settled(order'[o], op[o])
      /\ order[o].reopened = 0 => FirstRunOK(order'[o], op[o], c.mat, c.txn)
  <2>1. order[o].reopened = 0 => FirstRunOK(order[o], op[o], mat[o], txn[o])
    BY <1>1 DEF OrderOK
  <2>2. CASE order[o].status \in {"draft", "scheduled", "on_hold"} /\ s = "released"
             /\ e = order[o].ended
    BY <1>4, <1>5, <2>1, <2>2 DEF FirstRunOK, Settled, Repairable
  <2>3. CASE /\ NetReserved(c.txn) = 0
             /\ \A i \in Ops : c.mat[i].posting = "none" => c.mat[i].allocated = 0
             /\ s = "cancelled" /\ e = order[o].ended /\ order[o].status \in Live
    BY <1>4, <1>5, <2>1, <2>3 DEF FirstRunOK, Settled
  <2>4. CASE /\ NetReserved(c.txn) = 0
             /\ s = "scrapped" /\ order[o].status = "short"
    BY <1>4, <1>5, <2>1, <2>4 DEF FirstRunOK, Settled, Repairable
  <2>5. CASE /\ NetReserved(c.txn) = 0 /\ c.mat = mat[o]
             /\ s = order[o].status /\ e = order[o].ended /\ s \in Repairable
    BY <1>4, <1>5, <2>1, <2>5 DEF FirstRunOK, Settled, Repairable
  <2> QED
    BY <2>2, <2>3, <2>4, <2>5
<1>7. s \in Early => order[o].status \in Early /\ e = order[o].ended
  BY DEF Early, Repairable
<1>8. s \notin {"unused", "deleted"} => order[o].status \notin {"unused", "deleted"}
  BY DEF Live
<1>9. OrderOK(order'[o], op[o], c.mat, c.txn)
  <2>1. s # "unused"
    OBVIOUS
  <2> QED
    BY <1>1, <1>3, <1>4, <1>5, <1>6, <1>7, <1>8, <2>1 DEF OrderOK
<1> QED
  BY <1>2, <1>5, <1>9, OneOrderKeeps DEF b

(* release_production_order, with its two self-heals.                      *)
LEMMA ReleaseOrderKeeps ==
  ASSUME FloorInv, NEW o \in Orders, NEW force \in BOOLEAN, ReleaseOrder(o, force)
  PROVE  Kept
<1> DEFINE b      == BooksOf(o)
           filled == Backfill(b)
           c      == IF force THEN filled ELSE ReserveMissing(filled, order[o].ordered)
<1>1. /\ order \in [Orders -> Order] /\ order[o] \in Order /\ Sound(b)
      /\ order[o].ordered \in Nat /\ order[o].ended \in BOOLEAN
  BY FloorTypes DEF Order
<1>2. /\ order[o].status \in {"draft", "scheduled", "on_hold"}
      /\ order' = [order EXCEPT ![o].status = "released"] /\ SetBooks(o, c) /\ UNCHANGED op
  BY DEF ReleaseOrder, SetStatus
<1> HIDE DEF b
<1>3. Sound(filled) /\ Quiet(b, filled)
  BY <1>1, HealsAreSound, HealsAreQuiet
<1> HIDE DEF filled
<1>4. /\ Sound(ReserveMissing(filled, order[o].ordered))
      /\ Quiet(filled, ReserveMissing(filled, order[o].ordered))
  BY <1>1, <1>3, HealsAreSound, HealsAreQuiet
<1>5. Sound(c) /\ Quiet(b, c)
  BY <1>3, <1>4, QuietTwice
<1> HIDE DEF c
<1> DEFINE e == order[o].ended
<1>6. order' = [order EXCEPT ![o] = [@ EXCEPT !.status = "released", !.ended = e]]
  BY <1>1, <1>2 DEF Order
<1>7. "released" \in Statuses
  BY DEF Statuses, Live
<1> QED
  BY <1>1, <1>2, <1>5, <1>6, <1>7, QuietKeeps DEF b

(* cancel_production_order, close_scrapped and the repair of stranded      *)
(* reservations.                                                           *)
LEMMA ReleasingKeeps ==
  ASSUME FloorInv, NEW o \in Orders,
         CancelOrder(o) \/ CloseScrapped(o) \/ RepairStranded(o)
  PROVE  Kept
<1> DEFINE b == BooksOf(o)
<1>1. /\ order \in [Orders -> Order] /\ order[o] \in Order /\ Sound(b)
      /\ b.mat = mat[o] /\ mat[o] \in Rows /\ order[o].ended \in BOOLEAN
      /\ order[o].status \in Statuses
  BY FloorTypes DEF Order, BooksOf
<1> HIDE DEF b
<1>2. /\ Sound(ReleaseAll(b, mat[o])) /\ Quiet(b, ReleaseAll(b, mat[o]))
      /\ NetReserved(ReleaseAll(b, mat[o]).txn) = 0
      /\ \A i \in Ops : mat[o][i].posting = "none" => ReleaseAll(b, mat[o]).mat[i].allocated = 0
      /\ \A i \in Ops : ReleaseAll(b, mat[o]).mat[i].posting = mat[o][i].posting
  BY <1>1, ReleaseAllIsSound, ReleaseAllIsQuiet DEF Quiet
<1>3. CASE CancelOrder(o)
  <2> DEFINE s == "cancelled"
             e == order[o].ended
  <2>1. order' = [order EXCEPT ![o] = [@ EXCEPT !.status = s, !.ended = e]]
    BY <1>1, <1>3 DEF Order, CancelOrder, SetStatus
  <2>2. /\ order[o].status \in Live /\ UNCHANGED op /\ SetBooks(o, ReleaseAll(b, mat[o]))
        /\ order[o].status # "unused" /\ s \in Statuses
    BY <1>3 DEF CancelOrder, b, Live, Statuses
  <2>3. \A i \in Ops : ReleaseAll(b, mat[o]).mat[i].posting = "none"
                         => ReleaseAll(b, mat[o]).mat[i].allocated = 0
    BY <1>2
  <2> HIDE DEF e
  <2>4. e = order[o].ended /\ e \in BOOLEAN
    BY <1>1 DEF e
  <2> QED
    BY <1>2, <2>1, <2>2, <2>3, <2>4, QuietKeeps DEF b
<1>4. CASE CloseScrapped(o)
  <2> DEFINE s == "scrapped"
             e == TRUE
  <2>1. order' = [order EXCEPT ![o] = [@ EXCEPT !.status = s, !.ended = e]]
    BY <1>1, <1>4 DEF Order, CloseScrapped
  <2>2. /\ order[o].status = "short" /\ UNCHANGED op /\ SetBooks(o, ReleaseAll(b, mat[o]))
        /\ s \in Statuses
    BY <1>4 DEF CloseScrapped, b, Live, Statuses
  <2> QED
    BY <1>1, <1>2, <2>1, <2>2, QuietKeeps DEF b
<1>5. CASE RepairStranded(o)
  <2> DEFINE s == order[o].status
             e == order[o].ended
  <2>1. order' = [order EXCEPT ![o] = [@ EXCEPT !.status = s, !.ended = e]]
    BY <1>1, <1>5 DEF Order, RepairStranded
  <2>2. /\ s \in Repairable /\ UNCHANGED op /\ SetBooks(o, ReleaseStranded(b)) /\ s # "unused"
    BY <1>5 DEF RepairStranded, b, Repairable
  <2>3. /\ Sound(ReleaseStranded(b)) /\ Quiet(b, ReleaseStranded(b))
        /\ ReleaseStranded(b).mat = b.mat /\ NetReserved(ReleaseStranded(b).txn) = 0
    BY <1>1, ReleaseStrandedIsSound, ReleaseStrandedIsQuiet
  <2> HIDE DEF s, e
  <2>4. s \in Statuses /\ e \in BOOLEAN
    BY <1>1 DEF s, e
  <2> QED
    BY <1>1, <2>1, <2>2, <2>3, <2>4, QuietKeeps DEF b, s, e
<1> QED
  BY <1>3, <1>4, <1>5

(* New rows for old ones move what the old ones used to where no row shows *)
(* it.                                                                     *)
LEMMA ReplaceRowsTallies ==
  ASSUME NEW b, Sound(b), NEW m \in Rows, \A i \in Ops : m[i].posting = "none"
  PROVE  LET c == ReplaceRows(b, m)
         IN  /\ Tallies(b, c)
             /\ c.mat = m /\ NetReserved(c.txn) = NetReserved(b.txn)
             /\ c.txn.bom = b.txn.bom /\ c.txn.receipts = b.txn.receipts
             /\ c.txn.replaced = b.txn.replaced + RowsUsed(b.mat, Consumed)
<1> DEFINE c == ReplaceRows(b, m)
<1>1. /\ b.mat \in Rows /\ b.txn \in Txn
      /\ b.inv.onHand \in Int /\ b.txn.consumed \in Nat
      /\ b.txn.replaced \in Nat /\ b.txn.applied \in Nat
  BY SoundTypes
<1>2. c.inv = b.inv /\ c.mat = m
  BY DEF ReplaceRows
<1>3. /\ c.txn.reserved = b.txn.reserved /\ c.txn.released = b.txn.released
      /\ c.txn.bom = b.txn.bom /\ c.txn.bomQty = b.txn.bomQty
      /\ c.txn.consumed = b.txn.consumed /\ c.txn.receipts = b.txn.receipts
      /\ c.txn.replaced = b.txn.replaced + RowsUsed(b.mat, Consumed)
      /\ c.txn.applied = b.txn.applied + RowsUsed(b.mat, Applied)
  BY <1>1 DEF ReplaceRows, Txn, Consumed, Applied
<1>4. c.txn \in Txn
  BY ReplaceRowsIsSound, SoundTypes
<1> HIDE DEF c
<1>5. ASSUME NEW P, "none" \notin P
      PROVE  /\ Used(c.mat, c.txn, P) = BomUse(b.txn, P)
             /\ Used(b.mat, b.txn, P) = RowsUsed(b.mat, P) + BomUse(b.txn, P)
             /\ RowsUsed(b.mat, P) \in Nat /\ BomUse(b.txn, P) \in Nat
  <2>1. \A i : RowUse(c.mat, P, i) = 0
    BY <1>2, <1>5 DEF RowUse
  <2>2. BomUse(c.txn, P) = BomUse(b.txn, P)
    BY <1>3 DEF BomUse
  <2>3. Used(b.mat, b.txn, P) = RowsUsed(b.mat, P) + BomUse(b.txn, P)
    BY DEF Used, BomUse
  <2> QED
    BY <1>1, <1>2, <1>4, <2>1, <2>2, <2>3, UsedIs, RowsUsedIsNat
<1>6. "none" \notin Applied /\ "none" \notin Consumed
  BY DEF Applied, Consumed
<1>7. Stock(c.mat, c.txn) = Stock(b.mat, b.txn)
  <2>1. /\ Used(c.mat, c.txn, Applied) = BomUse(b.txn, Applied)
        /\ Used(b.mat, b.txn, Applied) = RowsUsed(b.mat, Applied) + BomUse(b.txn, Applied)
        /\ RowsUsed(b.mat, Applied) \in Nat /\ BomUse(b.txn, Applied) \in Nat
    BY <1>5, <1>6
  <2> QED
    BY <1>1, <1>3, <2>1 DEF Stock
<1>8. Spent(c.mat, c.txn) = Spent(b.mat, b.txn)
  <2>1. /\ Used(c.mat, c.txn, Consumed) = BomUse(b.txn, Consumed)
        /\ Used(b.mat, b.txn, Consumed) = RowsUsed(b.mat, Consumed) + BomUse(b.txn, Consumed)
        /\ RowsUsed(b.mat, Consumed) \in Nat /\ BomUse(b.txn, Consumed) \in Nat
    BY <1>5, <1>6
  <2> QED
    BY <1>1, <1>3, <2>1 DEF Spent
<1>9. Tallies(b, c)
  BY <1>2, <1>3, <1>7, <1>8 DEF Tallies, Held
<1> QED
  BY <1>2, <1>3, <1>9 DEF NetReserved, c

(* refresh_production_order_routing: no operation has started, so that no  *)
(* row has been consumed, unless one was taken up again.                   *)
LEMMA RefreshRoutingKeeps ==
  ASSUME FloorInv, NEW o \in Orders, RefreshRouting(o)
  PROVE  Kept
<1> DEFINE b == BooksOf(o)
           m == RoutedRows(order[o].ordered)
           c == ReplaceRows(b, m)
<1>1. /\ order[o] \in Order /\ op \in [Orders -> [Ops -> Operation]]
      /\ mat[o] \in Rows /\ txn[o] \in Txn
      /\ Sound(b) /\ b.mat = mat[o] /\ b.txn = txn[o]
      /\ OrderOK(order[o], op[o], mat[o], txn[o])
  BY FloorTypes DEF BooksOf
<1>2. /\ NumOps > 0 /\ order[o].status \in {"draft", "released", "on_hold"}
      /\ \A i \in Ops : op[o][i].status = "pending"
      /\ op' = [op EXCEPT ![o] = PendingOps] /\ SetBooks(o, c)
      /\ UNCHANGED order
  BY DEF RefreshRouting
<1>3. order[o].ordered \in Nat /\ order[o].ordered > 0
  BY <1>1, <1>2 DEF OrderOK, Order
<1>4. m \in Rows /\ \A i \in Ops : m[i].posting = "none" /\ m[i].required > 0
  BY <1>3, RoutingIsTyped DEF RoutedRows, NewRow
<1>5. order[o].reopened = 0 => /\ \A i \in Ops : mat[o][i].posting = "none"
                               /\ ~order[o].ended /\ txn[o].receipts = 0
  <2>1. 1 \in Ops
    BY <1>2, RoutingAssumption DEF Ops
  <2>2. ~Done(op[o][1].status) /\ \A i \in Ops : ~Done(op[o][i].status)
    BY <1>2, <2>1 DEF Done
  <2> QED
    BY <1>1, <2>1, <2>2, NotYetDone
<1> HIDE DEF m, b
<1>6. /\ Tallies(b, c) /\ c.mat = m /\ NetReserved(c.txn) = NetReserved(b.txn)
      /\ c.txn.bom = b.txn.bom /\ c.txn.receipts = b.txn.receipts
      /\ c.txn.replaced = b.txn.replaced + RowsUsed(b.mat, Consumed)
  BY <1>1, <1>4, ReplaceRowsTallies
<1>7. Sound(c)
  BY <1>1, <1>4, ReplaceRowsIsSound
<1> HIDE DEF c
<1>8. c.txn.consumed = Spent(c.mat, c.txn)
  <2>1. b.txn.consumed = Spent(b.mat, b.txn)
    BY <1>1, Zenon DEF OrderOK
  <2>2. /\ Spent(b.mat, b.txn) \in Int /\ Spent(c.mat, c.txn) \in Int
        /\ b.txn.consumed \in Int /\ c.txn.consumed \in Int
    BY <1>1, <1>7, SoundTypes, UsedIs DEF Spent
  <2> QED
    BY <1>6, <2>1, <2>2 DEF Tallies
<1>9. c.txn.replaced > 0 => order[o].reopened > 0
  <2>1. order[o].reopened \in Nat
    BY <1>1 DEF Order
  <2>2. ASSUME order[o].reopened = 0 PROVE c.txn.replaced = txn[o].replaced
    <3>1. \A i : RequiredAt(mat[o], {j \in DOMAIN mat[o] : mat[o][j].posting \in Consumed}, i) = 0
      BY <1>1, <1>5, <2>2 DEF RequiredAt, Rows, Consumed
    <3>2. RowsUsed(b.mat, Consumed) = 0
      BY <1>1, <3>1 DEF RowsUsed
    <3> QED
      BY <1>1, <1>6, <3>2, LedgerColumns
  <2>3. txn[o].replaced > 0 => order[o].reopened > 0
    BY <1>1 DEF OrderOK
  <2> QED
    BY <2>1, <2>2, <2>3
<1>10. /\ order'[o] = order[o] /\ op'[o] = PendingOps
       /\ \A x \in Orders \ {o} : order'[x] = order[x] /\ op'[x] = op[x]
  BY <1>1, <1>2
<1>11. ~Settled(order[o], op[o]) /\ txn[o].receipts <= order[o].reopened
  BY <1>1, <1>2 DEF OrderOK, Settled
<1>12. OrderOK(order[o], PendingOps, c.mat, c.txn)
  <2>1. order[o].reopened = 0 => FirstRunOK(order[o], PendingOps, c.mat, c.txn)
    BY <1>1, <1>2, <1>4, <1>5, <1>6 DEF FirstRunOK, Repairable
  <2>2. /\ c.txn.receipts <= order[o].reopened + 1
        /\ NumOps > 0 \/ c.txn.receipts = 0 => c.txn.bom = "none"
        /\ NumOps = 0 => order[o].reopened = 0
        /\ order[o].status \in Early => ~order[o].ended
    BY <1>1, <1>2, <1>6 DEF OrderOK
  <2>3. \A i \in Ops : c.mat[i].posting = "none" /\ c.mat[i].required > 0
    BY <1>4, <1>6
  <2>4. c.txn.receipts <= order[o].reopened
    BY <1>1, <1>6, <1>11
  <2> QED
    BY <1>2, <1>3, <1>8, <1>9, <2>1, <2>2, <2>3, <2>4 DEF OrderOK
<1>13. OrderOK(order'[o], op'[o], c.mat, c.txn)
  BY <1>10, <1>12, Zenon
<1> QED
  BY <1>2, <1>5, <1>6, <1>7, <1>10, <1>13, OneOrderTallies DEF b

-----------------------------------------------------------------------------
(* Closing.                                                                *)

(* Bulk completion and accept-short, of an order whose receipts are all    *)
(* paid for: not received yet, or taken up again since.                    *)
LEMMA FinishKeeps ==
  ASSUME FloorInv, NEW o \in Orders, NEW made \in Nat, NEW got \in Nat, NEW w \in Order,
         txn[o].receipts <= order[o].reopened, order[o].status \in Live,
         w.status = "complete", w.ordered = order[o].ordered, w.reopened = order[o].reopened,
         order' = [order EXCEPT ![o] = w], op' = [op EXCEPT ![o] = AllComplete(op[o])],
         SetBooks(o, Receive(ConsumeStage(BooksOf(o), mat[o], made), got))
  PROVE  Kept
<1> DEFINE b == BooksOf(o)
           c == Receive(ConsumeStage(b, mat[o], made), got)
<1>1. /\ order \in [Orders -> Order] /\ op \in [Orders -> [Ops -> Operation]]
      /\ order[o] \in Order /\ op[o] \in [Ops -> Operation] /\ mat[o] \in Rows
      /\ Sound(b) /\ b.mat = mat[o] /\ b.txn = txn[o]
      /\ OrderOK(order[o], op[o], mat[o], txn[o])
  BY FloorTypes DEF BooksOf
<1> HIDE DEF b
<1>2. b.txn.bom = "none" /\ order[o].reopened \in Nat /\ txn[o].receipts \in Nat
  <2>1. order[o].reopened \in Nat /\ txn[o].receipts \in Nat
    BY FloorTypes, LedgerColumns DEF Order
  <2>2. NumOps > 0 \/ order[o].reopened = 0
    BY <1>1, RoutingAssumption DEF OrderOK
  <2>3. NumOps > 0 \/ txn[o].receipts = 0
    BY <2>1, <2>2
  <2> QED
    BY <1>1, <2>1, <2>3 DEF OrderOK
<1>3. Sound(c)
  BY <1>1, ConsumeStageIsSound, ReceiveIsSound
<1>4. Balanced(b, c)
  BY <1>1, <1>2, CompletionSettles
<1>5. /\ \A i \in Ops : c.mat[i].posting # "none" /\ c.mat[i].required = b.mat[i].required
      /\ NetReserved(c.txn) = 0
  BY <1>1, <1>2, CompletionSettles
<1>6. c.txn.receipts = txn[o].receipts + 1 /\ (NumOps > 0 => c.txn.bom = "none")
  BY <1>1, <1>2, CompletionSettles
<1>7. SetBooks(o, c)
  BY DEF b
<1> HIDE DEF c
<1>8. c.txn.consumed = Spent(c.mat, c.txn) /\ c.txn.replaced = txn[o].replaced
  <2>1. b.txn.consumed = Spent(b.mat, b.txn)
    BY <1>1, Zenon DEF OrderOK
  <2> QED
    BY <1>1, <1>3, <1>4, <2>1, StillConsumed
<1>9. /\ order'[o] = w /\ op'[o] = AllComplete(op[o])
      /\ \A x \in Orders \ {o} : order'[x] = order[x] /\ op'[x] = op[x]
  BY <1>1
<1>10. AllDone(AllComplete(op[o]))
  BY <1>1 DEF AllDone, AllComplete, Done, Operation
<1>11. OrderOK(w, AllComplete(op[o]), c.mat, c.txn)
  <2>1. w.ordered > 0 /\ \A i \in Ops : mat[o][i].required > 0
    BY <1>1 DEF OrderOK, Live
  <2>2. \A i \in Ops : Done(AllComplete(op[o])[i].status)
    BY <1>10 DEF AllDone
  <2>3. \A i \in Ops : c.mat[i].posting # "none" /\ c.mat[i].required > 0
    BY <1>1, <1>5, <2>1
  <2>4. Settled(w, AllComplete(op[o]))
    BY <1>10 DEF Settled
  <2>5. /\ c.txn.receipts <= w.reopened + 1 /\ c.txn.receipts > 0
        /\ w.reopened = 0 => c.txn.receipts = 1
    BY <1>2, <1>6
  <2>6. w.reopened = 0 => FirstRunOK(w, AllComplete(op[o]), c.mat, c.txn)
    BY <1>5, <1>10, <2>2, <2>4, <2>5 DEF FirstRunOK
  <2>7. /\ NumOps = 0 => w.reopened = 0
        /\ c.txn.replaced > 0 => w.reopened > 0
    BY <1>1, <1>8 DEF OrderOK
  <2>8. w.status \notin Early
    BY DEF Early
  <2> QED
    BY <1>2, <1>6, <1>8, <2>1, <2>3, <2>4, <2>5, <2>6, <2>7, <2>8 DEF OrderOK
<1>12. OrderOK(order'[o], op'[o], c.mat, c.txn)
  BY <1>9, <1>11, Zenon
<1> QED
  BY <1>3, <1>4, <1>7, <1>9, <1>12, OneOrderKeeps DEF b

(* complete_production_order and accept_short_production_order.            *)
LEMMA ClosingKeeps ==
  ASSUME FloorInv, NEW o \in Orders, NEW good \in Counts, NEW bad \in Counts,
         NEW force \in BOOLEAN, CompleteOrder(o, good, bad, force) \/ AcceptShort(o)
  PROVE  Kept
<1>1. /\ order[o] \in Order /\ txn[o] \in Txn /\ OrderOK(order[o], op[o], mat[o], txn[o])
      /\ order[o].ordered \in Nat /\ order[o].completed \in Nat /\ order[o].scrapped \in Nat
      /\ good \in Nat /\ bad \in Nat
  BY FloorTypes DEF Order, Counts
<1> DEFINE f == Finished(order[o])
           w == Reported(f, good, bad)
<1>2. f \in Order /\ f.status = "complete" /\ f.ordered = order[o].ordered
      /\ f.reopened = order[o].reopened
      /\ f.completed = order[o].completed /\ f.scrapped = order[o].scrapped
  BY <1>1, FinishedIsOrder DEF Finished, Statuses, Live, Order
<1> HIDE DEF f
<1>3. w \in Order /\ w.status = "complete" /\ w.ordered = order[o].ordered
      /\ w.reopened = order[o].reopened
  <2> DEFINE n == f.completed + good
             k == f.scrapped + bad
  <2>1. n \in Nat /\ k \in Nat
    BY <1>1, <1>2
  <2>2. w = [f EXCEPT !.completed = n, !.scrapped = k]
    BY DEF Reported
  <2> HIDE DEF n, k
  <2>3. [f EXCEPT !.completed = n] \in Order
    BY <1>2, <2>1, WriteCompleted
  <2>4. [[f EXCEPT !.completed = n] EXCEPT !.scrapped = k] \in Order
    BY <2>1, <2>3, WriteScrapped
  <2>5. w.status = f.status /\ w.ordered = f.ordered /\ w.reopened = f.reopened
    BY <1>2, <2>2 DEF Order
  <2> QED
    BY <1>2, <2>2, <2>4, <2>5
<1> HIDE DEF w
<1>4. CASE CompleteOrder(o, good, bad, force)
  <2> DEFINE got == order[o].ordered + Floor0(good - order[o].ordered)
  <2>1. /\ order' = [order EXCEPT ![o] = w] /\ op' = [op EXCEPT ![o] = AllComplete(op[o])]
        /\ SetBooks(o, Receive(ConsumeStage(BooksOf(o), mat[o], good), got))
    BY <1>4, Zenon DEF CompleteOrder, Completion, w, f
  <2>2. order[o].status \in {"in_progress", "released"}
    BY <1>4 DEF CompleteOrder
  <2>3. txn[o].receipts <= order[o].reopened /\ order[o].status \in Live
    BY <1>1, <2>2 DEF OrderOK, Live, Settled
  <2>4. got \in Nat
    BY <1>1, FloorIsNat
  <2> HIDE DEF got
  <2> QED
    BY <1>1, <1>3, <2>1, <2>3, <2>4, FinishKeeps
<1>5. CASE AcceptShort(o)
  <2>1. /\ order' = [order EXCEPT ![o] = f] /\ op' = [op EXCEPT ![o] = AllComplete(op[o])]
        /\ SetBooks(o, Receive(ConsumeStage(BooksOf(o), mat[o], order[o].completed),
                               order[o].completed))
    BY <1>5, Zenon DEF AcceptShort, f
  <2>2. txn[o].receipts <= order[o].reopened /\ order[o].status \in Live
    <3>1. order[o].reopened \in Nat
      BY <1>1 DEF Order
    <3> QED
      BY <1>5, <3>1 DEF AcceptShort, Live
  <2> QED
    BY <1>1, <1>2, <2>1, <2>2, FinishKeeps
<1> QED
  BY <1>4, <1>5

(* record_scrap leaves the order where it was or scrapped.                 *)
LEMMA ScrappedFields ==
  ASSUME NEW w \in Order, NEW q \in Nat
  PROVE  LET s == Scrapped(w, q)
         IN  /\ s.ordered = w.ordered /\ s.ended = w.ended /\ s.inspections = w.inspections
             /\ s.reopened = w.reopened
             /\ \/ s.status = w.status
                \/ /\ w.status \in {"draft", "released", "scheduled", "in_progress", "short", "on_hold"}
                   /\ s.status = "scrapped"
  BY DEF Scrapped, Order

(* An order scrapped stays in order, or goes to 'scrapped' in order.       *)
LEMMA ScrappedIsOK ==
  ASSUME NEW w \in Order, NEW q \in Nat, NEW ops, NEW m, NEW t, OrderOK(w, ops, m, t),
         w.status \in Live
  PROVE  OrderOK(Scrapped(w, q), ops, m, t)
<1> DEFINE s == Scrapped(w, q)
<1>1. /\ s.ordered = w.ordered /\ s.ended = w.ended /\ s.inspections = w.inspections
      /\ s.reopened = w.reopened
      /\ \/ s.status = w.status
         \/ /\ w.status \in {"draft", "released", "scheduled", "in_progress", "short", "on_hold"}
            /\ s.status = "scrapped"
  BY ScrappedFields
<1> HIDE DEF s
<1>2. Settled(w, ops) => Settled(s, ops)
  BY <1>1 DEF Settled
<1>3. FirstRunOK(w, ops, m, t) => FirstRunOK(s, ops, m, t)
  BY <1>1, <1>2 DEF FirstRunOK, Settled, Repairable
<1>4. s.status \in Early => w.status \in Early
  BY <1>1 DEF Early
<1>5. s.status # "unused" /\ w.status \notin {"unused", "deleted"}
  BY <1>1 DEF Live
<1>6. OrderOK(s, ops, m, t)
  BY <1>1, <1>2, <1>3, <1>4, <1>5 DEF OrderOK
<1> QED
  BY <1>6 DEF s

(* record_scrap.                                                           *)
LEMMA RecordScrapKeeps ==
  ASSUME FloorInv, NEW o \in Orders, NEW q \in Quantities, RecordScrap(o, q)
  PROVE  Kept
<1>1. /\ order \in [Orders -> Order] /\ op \in [Orders -> [Ops -> Operation]]
      /\ mat[o] \in Rows /\ txn[o] \in Txn /\ inv \in Inv /\ q \in Nat
      /\ order[o] \in Order /\ OrderOK(order[o], op[o], mat[o], txn[o])
  BY FloorTypes, QuantityAssumption DEF Quantities
<1>2. /\ order[o].status \in Live /\ order' = [order EXCEPT ![o] = Scrapped(order[o], q)]
      /\ inv' = [inv EXCEPT !.fg = @ - WriteOff(o, q)] /\ UNCHANGED <<op, mat, txn>>
  BY DEF RecordScrap
<1>3. /\ order'[o] = Scrapped(order[o], q) /\ op'[o] = op[o]
      /\ \A x \in Orders \ {o} : order'[x] = order[x] /\ op'[x] = op[x]
  BY <1>1, <1>2
<1>4. inv'.onHand = inv.onHand /\ inv'.ledgerNet = inv.ledgerNet
  BY <1>1, <1>2 DEF Inv
<1> DEFINE s == Scrapped(order[o], q)
<1>5. OrderOK(s, op[o], mat[o], txn[o])
  BY <1>1, <1>2, ScrappedIsOK
<1>6. OrderOK(order'[o], op'[o], mat[o], txn[o])
  BY <1>3, <1>5, Zenon DEF s
<1> QED
  BY <1>2, <1>3, <1>4, <1>6, OneRowKeeps

(* Two orders are written: o keeps what it consumed and stays in order,    *)
(* and the books of a new one are opened on what o leaves in stock.        *)
LEMMA TwoOrdersKeep ==
  ASSUME FloorInv, NEW o \in Orders, NEW child \in Orders, NEW q \in Quantities,
         order[o].status # "unused", order[child].status = "unused",
         NEW c, Sound(c), Balanced(BooksOf(o), c), NEW w,
         OrderOK(w, op[o], c.mat, c.txn),
         order' = [order EXCEPT ![o] = w, ![child] = NewOrder(q)],
         op' = [op EXCEPT ![child] = PendingOps],
         inv' = OpeningBooks(c.inv, q).inv,
         mat' = [mat EXCEPT ![o] = c.mat, ![child] = OpeningBooks(c.inv, q).mat],
         txn' = [txn EXCEPT ![o] = c.txn, ![child] = OpeningBooks(c.inv, q).txn]
  PROVE  Kept
<1> DEFINE g1 == [mat EXCEPT ![o] = c.mat]
           f1 == [txn EXCEPT ![o] = c.txn]
           d  == OpeningBooks(c.inv, q)
<1>1. /\ order \in [Orders -> Order] /\ op \in [Orders -> [Ops -> Operation]]
      /\ mat \in [Orders -> Rows] /\ txn \in [Orders -> Txn] /\ Sound(BooksOf(o))
      /\ BooksOf(o) = [inv |-> inv, mat |-> mat[o], txn |-> txn[o]]
      /\ \A x \in Orders : OrderOK(order[x], op[x], mat[x], txn[x])
  BY FloorTypes DEF BooksOf
<1>2. child # o
  OBVIOUS
<1>3. /\ c.inv \in Inv /\ c.inv.allocated >= c.inv.ledgerNet /\ c.mat \in Rows /\ c.txn \in Txn
  BY SoundTypes DEF Sound
<1>4. Tallied(c.inv, g1, f1)
  BY <1>1, TallyStep, BalancedTallies DEF FloorInv
<1>5. txn[child] = NoTxn /\ \A i \in Ops : mat[child][i].posting = "none"
  BY UnusedIsEmpty
<1>6. /\ g1 \in [Orders -> Rows] /\ f1 \in [Orders -> Txn]
      /\ g1[child] = mat[child] /\ f1[child] = NoTxn
  BY <1>1, <1>2, <1>3, <1>5
<1> DEFINE b == [inv |-> c.inv, mat |-> g1[child], txn |-> f1[child]]
<1>7. Sound(d) /\ OrderOK(NewOrder(q), PendingOps, d.mat, d.txn)
      /\ Sound([inv |-> c.inv, mat |-> mat[child], txn |-> NoTxn])
      /\ Balanced([inv |-> c.inv, mat |-> mat[child], txn |-> NoTxn], d)
  BY <1>1, <1>3, <1>5, OpenedOrder
<1>8. /\ mat' = [g1 EXCEPT ![child] = d.mat] /\ txn' = [f1 EXCEPT ![child] = d.txn]
      /\ inv' = d.inv
  OBVIOUS
<1> HIDE DEF d, g1, f1
<1>9. Sound(b) /\ Balanced(b, d)
  BY <1>6, <1>7, Zenon
<1>10. Tallied(d.inv, [g1 EXCEPT ![child] = d.mat], [f1 EXCEPT ![child] = d.txn])
  BY <1>4, <1>6, <1>7, <1>9, TallyStep, BalancedTallies
<1>11. Tallied(inv', mat', txn')
  BY <1>8, <1>10, Zenon
<1>12. /\ order'[o] = w /\ op'[o] = op[o] /\ mat'[o] = c.mat /\ txn'[o] = c.txn
       /\ order'[child] = NewOrder(q) /\ op'[child] = PendingOps
       /\ mat'[child] = d.mat /\ txn'[child] = d.txn
       /\ \A x \in Orders \ {o, child} : /\ order'[x] = order[x] /\ op'[x] = op[x]
                                         /\ mat'[x] = mat[x] /\ txn'[x] = txn[x]
  BY <1>1, <1>2 DEF d
<1>13. OrderOK(order'[o], op'[o], mat'[o], txn'[o])
       /\ OrderOK(order'[child], op'[child], mat'[child], txn'[child])
  BY <1>7, <1>12, Zenon
<1>14. OrdersOK'
  <2>1. ASSUME NEW x \in Orders PROVE OrderOK(order'[x], op'[x], mat'[x], txn'[x])
    <3>1. CASE x = o \/ x = child
      BY <1>13, <3>1
    <3>2. CASE x \notin {o, child}
      BY <1>1, <1>12, <3>2
    <3> QED
      BY <3>1, <3>2
  <2> QED
    BY <2>1 DEF OrdersOK
<1>15. Frozen
  <2>1. \A i \in Ops : mat[o][i].posting # "none" =>
          mat'[o][i].required = mat[o][i].required /\ mat'[o][i].posting # "none"
    BY <1>12 DEF Balanced, BooksOf
  <2> QED
    BY <1>5, <1>12, <2>1 DEF Frozen
<1> QED
  BY <1>11, <1>14, <1>15 DEF Kept

(* record_scrap with a remake order.                                       *)
LEMMA RecordScrapAndRemakeKeeps ==
  ASSUME FloorInv, NEW o \in Orders, NEW remake \in Orders, NEW q \in Quantities,
         RecordScrapAndRemake(o, remake, q)
  PROVE  Kept
<1> DEFINE v == [inv EXCEPT !.fg = @ - WriteOff(o, q)]
           w == Scrapped(order[o], q)
           c == [inv |-> v, mat |-> mat[o], txn |-> txn[o]]
           d == OpeningBooks(v, q)
<1>1. /\ order \in [Orders -> Order] /\ mat \in [Orders -> Rows] /\ txn \in [Orders -> Txn]
      /\ inv \in Inv /\ inv.allocated >= inv.ledgerNet /\ q \in Nat
      /\ order[o] \in Order /\ OrderOK(order[o], op[o], mat[o], txn[o])
  BY FloorTypes, QuantityAssumption DEF Quantities
<1>2. /\ order[o].status \in Live /\ order[remake].status = "unused"
      /\ order' = [order EXCEPT ![o] = w, ![remake] = NewOrder(q)]
      /\ op' = [op EXCEPT ![remake] = PendingOps] /\ SetBooks(remake, d)
      /\ WriteOff(o, q) <= inv.fg
  BY DEF RecordScrapAndRemake
<1>3. /\ v \in Inv /\ v.allocated >= v.ledgerNet
      /\ v.onHand = inv.onHand /\ v.ledgerNet = inv.ledgerNet
  <2>1. WriteOff(o, q) \in Nat
    BY <1>1 DEF WriteOff
  <2> QED
    BY <1>1, <1>2, <2>1, WriteOffIsTyped DEF Inv
<1> HIDE DEF v
<1>4. Sound(c)
  BY <1>1, <1>3, PartsAreSound
<1>5. Balanced(BooksOf(o), c)
  BY <1>3 DEF Balanced, BooksOf
<1>7. OrderOK(w, op[o], mat[o], txn[o])
  BY <1>1, <1>2, ScrappedIsOK
<1> HIDE DEF w
<1>8. /\ inv' = OpeningBooks(c.inv, q).inv
      /\ mat' = [mat EXCEPT ![o] = c.mat, ![remake] = OpeningBooks(c.inv, q).mat]
      /\ txn' = [txn EXCEPT ![o] = c.txn, ![remake] = OpeningBooks(c.inv, q).txn]
  <2>1. c.inv = v /\ c.mat = mat[o] /\ c.txn = txn[o]
    OBVIOUS
  <2>2. mat' = [mat EXCEPT ![remake] = d.mat] /\ txn' = [txn EXCEPT ![remake] = d.txn]
        /\ inv' = d.inv
    BY <1>2 DEF SetBooks
  <2>3. [mat EXCEPT ![o] = mat[o]] = mat /\ [txn EXCEPT ![o] = txn[o]] = txn
    BY <1>1
  <2> HIDE DEF c
  <2> QED
    BY <2>1, <2>2, <2>3, Zenon
<1>9. OrderOK(w, op[o], c.mat, c.txn)
  BY <1>7
<1>10. order[o].status # "unused"
  BY <1>2 DEF Live
<1> HIDE DEF c, d
<1> QED
  BY <1>2, <1>4, <1>5, <1>8, <1>9, <1>10, TwoOrdersKeep

(* split_production_order.                                                 *)
LEMMA SplitOrderKeeps ==
  ASSUME FloorInv, NEW o \in Orders, NEW child \in Orders, NEW q \in Quantities,
         SplitOrder(o, child, q)
  PROVE  Kept
<1> DEFINE remaining == order[o].ordered - q
           b         == BooksOf(o)
           m         == Rescale(o, remaining)
           sized     == [b EXCEPT !.mat = m]
           c         == ReleaseExcess(sized, remaining)
           w         == [order[o] EXCEPT !.ordered = remaining]
<1>1. /\ order \in [Orders -> Order] /\ order[o] \in Order /\ mat[o] \in Rows /\ txn[o] \in Txn
      /\ Sound(b) /\ b.mat = mat[o] /\ b.txn = txn[o]
      /\ OrderOK(order[o], op[o], mat[o], txn[o])
  BY FloorTypes DEF BooksOf
<1>2. /\ remaining > 0 /\ order[o].status \in {"draft", "scheduled", "released"}
      /\ order[child].status = "unused"
      /\ order' = [order EXCEPT ![o].ordered = remaining, ![child] = NewOrder(q)]
      /\ op' = [op EXCEPT ![child] = PendingOps]
      /\ inv' = OpeningBooks(c.inv, q).inv
      /\ mat' = [mat EXCEPT ![o] = c.mat, ![child] = OpeningBooks(c.inv, q).mat]
      /\ txn' = [txn EXCEPT ![o] = c.txn, ![child] = OpeningBooks(c.inv, q).txn]
  BY Zenon DEF SplitOrder
<1>3. remaining \in Nat
  BY <1>1, <1>2 DEF Order, Quantities
<1>4. order' = [order EXCEPT ![o] = w, ![child] = NewOrder(q)]
  BY <1>2
<1>5. /\ w.ordered = remaining /\ w.status = order[o].status
      /\ w.ended = order[o].ended /\ w.inspections = order[o].inspections
      /\ w.reopened = order[o].reopened
  BY <1>1 DEF Order
<1> HIDE DEF remaining, w, b
<1>6. m \in Rows
  <2>1. ASSUME NEW i \in Ops PROVE [mat[o][i] EXCEPT !.required = remaining] \in Row
    BY <1>1, <1>3 DEF Rows, Row
  <2> QED
    BY <1>1, <2>1 DEF Rescale, Rows
<1>7. \A i \in Ops : /\ m[i].posting = mat[o][i].posting
                     /\ mat[o][i].posting # "none" => m[i].required = mat[o][i].required
                     /\ m[i].required \in {remaining, mat[o][i].required}
  BY <1>1 DEF Rescale, Rows, Row
<1> HIDE DEF m
<1>8. Sound(sized) /\ Balanced(b, sized)
  BY <1>1, <1>6, <1>7, ResizedBalances
<1>9. sized.mat = m /\ sized.txn = b.txn
  BY <1>1 DEF Sound, Books
<1> HIDE DEF sized
<1>10. Sound(c) /\ Quiet(sized, c)
  BY <1>3, <1>8, ReleaseExcessIsSound, ReleaseExcessIsQuiet
<1> HIDE DEF c
<1>11. Balanced(b, c)
  BY <1>8, <1>10, QuietIsBalanced, BalancedTwice
<1>12. c.txn.consumed = Spent(c.mat, c.txn) /\ c.txn.replaced = txn[o].replaced
  <2>1. b.txn.consumed = Spent(b.mat, b.txn)
    BY <1>1, Zenon DEF OrderOK
  <2> QED
    BY <1>1, <1>10, <1>11, <2>1, StillConsumed
<1>13. OrderOK(w, op[o], c.mat, c.txn)
  <2>1. /\ order[o].status \notin {"unused", "deleted"}
        /\ \A i \in Ops : mat[o][i].required > 0
    BY <1>1, <1>2 DEF OrderOK
  <2>2. \A i \in Ops : c.mat[i].posting = mat[o][i].posting /\ c.mat[i].required > 0
    BY <1>2, <1>7, <1>9, <1>10, <2>1 DEF Quiet
  <2>3. c.txn.receipts = txn[o].receipts /\ c.txn.bom = txn[o].bom
    BY <1>1, <1>9, <1>10 DEF Quiet
  <2>4. Settled(w, op[o]) <=> Settled(order[o], op[o])
    BY <1>5 DEF Settled
  <2>5. order[o].reopened = 0 => FirstRunOK(w, op[o], c.mat, c.txn)
    <3>1. order[o].reopened = 0 => FirstRunOK(order[o], op[o], mat[o], txn[o])
      BY <1>1 DEF OrderOK
    <3> QED
      BY <1>2, <1>5, <2>2, <2>3, <2>4, <3>1 DEF FirstRunOK, Repairable, Settled
  <2> QED
    BY <1>1, <1>2, <1>3, <1>5, <1>12, <2>2, <2>3, <2>4, <2>5 DEF OrderOK
<1>14. order[o].status # "unused"
  BY <1>2
<1> QED
  <2>1. Sound(c) /\ Balanced(BooksOf(o), c)
    BY <1>10, <1>11 DEF b
  <2>2. /\ order[child].status = "unused"
        /\ op' = [op EXCEPT ![child] = PendingOps]
        /\ inv' = OpeningBooks(c.inv, q).inv
        /\ mat' = [mat EXCEPT ![o] = c.mat, ![child] = OpeningBooks(c.inv, q).mat]
        /\ txn' = [txn EXCEPT ![o] = c.txn, ![child] = OpeningBooks(c.inv, q).txn]
    BY <1>2
  <2> QED
    BY <1>4, <1>13, <1>14, <2>1, <2>2, TwoOrdersKeep

-----------------------------------------------------------------------------
(* Quality and stock control.                                              *)

(* record_qc_inspection.                                                   *)
LEMMA RecordInspectionKeeps ==
  ASSUME FloorInv, NEW o \in Orders, NEW result \in {"passed", "failed"},
         NEW targets \in SUBSET Ops, RecordInspection(o, result, targets)
  PROVE  Kept
<1> DEFINE qty    == IF order[o].completed = 0 THEN order[o].ordered ELSE order[o].completed
           passed == IF result = "passed" THEN qty ELSE 0
           report == [status |-> "complete", good |-> passed, bad |-> qty - passed]
           ops    == [i \in Ops |-> IF i \in targets THEN report ELSE op[o][i]]
           n      == order[o].inspections + 1
           s      == IF result = "failed" THEN "qc_hold"
                     ELSE IF order[o].status = "qc_hold" THEN "complete" ELSE order[o].status
           w      == [order[o] EXCEPT !.qc = result, !.inspections = n, !.status = s]
<1>1. /\ order \in [Orders -> Order] /\ op \in [Orders -> [Ops -> Operation]]
      /\ mat[o] \in Rows /\ txn[o] \in Txn /\ order[o] \in Order
      /\ OrderOK(order[o], op[o], mat[o], txn[o])
  BY FloorTypes
<1>2. /\ order[o].status \in Live /\ op' = [op EXCEPT ![o] = ops]
      /\ UNCHANGED <<mat, txn, inv>>
  BY DEF RecordInspection, UnchangedBooks
<1>3. order' = [order EXCEPT ![o] = w]
  BY <1>1 DEF RecordInspection
<1>4. /\ w.status = s /\ w.inspections = n /\ w.ordered = order[o].ordered
      /\ w.ended = order[o].ended /\ w.reopened = order[o].reopened
  BY <1>1 DEF Order
<1>5. n > 0
  BY <1>1 DEF Order
<1>6. \A i \in Ops : Done(op[o][i].status) => Done(ops[i].status)
  BY DEF Done
<1>7. /\ order'[o] = w /\ op'[o] = ops
      /\ \A x \in Orders \ {o} : order'[x] = order[x] /\ op'[x] = op[x]
  BY <1>1, <1>2, <1>3
<1> HIDE DEF w, ops, n
<1>8. AllDone(op[o]) => AllDone(ops)
  BY <1>6 DEF AllDone
<1>9. OrderOK(w, ops, mat[o], txn[o])
  <2>1. Settled(order[o], op[o]) => Settled(w, ops)
    BY <1>4, <1>8 DEF Settled
  <2>2. FirstRunOK(order[o], op[o], mat[o], txn[o]) => FirstRunOK(w, ops, mat[o], txn[o])
    BY <1>4, <1>5, <1>6, <1>8, <2>1 DEF FirstRunOK, Settled
  <2>3. s \in Early => order[o].status \in Early
    BY DEF Early
  <2>4. s # "unused" /\ order[o].status \notin {"unused", "deleted"}
    BY <1>2 DEF Live
  <2> QED
    BY <1>1, <1>4, <2>1, <2>2, <2>3, <2>4 DEF OrderOK
<1>10. OrderOK(order'[o], op'[o], mat[o], txn[o])
  BY <1>7, <1>9, Zenon
<1> QED
  BY <1>2, <1>7, <1>10, OneRowKeeps

(* Moving one posting inside or outside of a class of postings.            *)
LEMMA UsedReposted ==
  ASSUME NEW m \in Rows, NEW n \in Rows, NEW t \in Txn, NEW P,
         \A i \in Ops : n[i].required = m[i].required /\ (n[i].posting \in P <=> m[i].posting \in P)
  PROVE  Used(n, t, P) = Used(m, t, P)
<1>1. \A i : RowUse(n, P, i) = RowUse(m, P, i)
  BY DEF RowUse
<1> QED
  BY <1>1, UsedIs

(* approve_negative_inventory and its rejection, of an operation's row.    *)
LEMMA HeldRowKeeps ==
  ASSUME FloorInv, NEW o \in Orders, NEW i \in Ops, ApproveHeld(o, i) \/ RejectHeld(o, i)
  PROVE  Kept
<1>1. /\ order \in [Orders -> Order] /\ op \in [Orders -> [Ops -> Operation]]
      /\ mat \in [Orders -> Rows] /\ txn \in [Orders -> Txn]
      /\ mat[o] \in Rows /\ txn[o] \in Txn /\ inv \in Inv /\ inv.allocated >= inv.ledgerNet
      /\ Sound(BooksOf(o)) /\ BooksOf(o) = [inv |-> inv, mat |-> mat[o], txn |-> txn[o]]
      /\ mat[o][i] \in Row /\ OrderOK(order[o], op[o], mat[o], txn[o])
  BY FloorTypes DEF BooksOf, Rows
<1>2. PICK p \in {"approved", "voided"} :
        /\ mat' = [mat EXCEPT ![o][i].posting = p]
        /\ p = "approved" => /\ mat[o][i].posting \in {"held", "voided"}
                             /\ inv' = [inv EXCEPT !.onHand = @ - mat[o][i].required]
        /\ p = "voided" => mat[o][i].posting = "held" /\ inv' = inv
        /\ UNCHANGED <<order, op, txn>>
  BY DEF ApproveHeld, RejectHeld
<1> DEFINE n == [mat[o] EXCEPT ![i].posting = p]
           v == inv'
           c == [inv |-> v, mat |-> n, txn |-> txn[o]]
<1>3. /\ n \in Rows /\ n[i].posting = p /\ n[i].required = mat[o][i].required
      /\ \A j \in Ops : n[j].required = mat[o][j].required /\ n[j].allocated = mat[o][j].allocated
      /\ \A j \in Ops \ {i} : n[j] = mat[o][j]
  <2>1. [mat[o][i] EXCEPT !.posting = p] \in Row
    BY <1>1 DEF Row, Postings
  <2> QED
    BY <1>1, <2>1 DEF Rows, Row
<1>4. /\ v \in Inv /\ v.allocated = inv.allocated /\ v.ledgerNet = inv.ledgerNet
      /\ v.onHand = inv.onHand - (IF p = "approved" THEN mat[o][i].required ELSE 0)
  <2>1. inv.onHand - mat[o][i].required \in Int /\ mat[o][i].required \in Nat
    BY <1>1 DEF Inv, Row
  <2> QED
    BY <1>1, <1>2, <2>1 DEF Inv
<1>5. mat[o][i].posting \in {"held", "voided"}
  BY <1>2
<1>6. mat' = [mat EXCEPT ![o] = n] /\ txn' = [txn EXCEPT ![o] = txn[o]]
  BY <1>1, <1>2
<1> HIDE DEF n, v
<1>7. Sound(c)
  BY <1>1, <1>3, <1>4, PartsAreSound
<1>8. Used(n, txn[o], Applied)
        = Used(mat[o], txn[o], Applied) + (IF p = "approved" THEN mat[o][i].required ELSE 0)
  <2>1. mat[o][i].posting \notin Applied /\ (n[i].posting \in Applied <=> p = "approved")
    BY <1>3, <1>5 DEF Applied
  <2>2. Used(n, txn[o], Applied)
          = Used(mat[o], txn[o], Applied) + IF n[i].posting \in Applied THEN mat[o][i].required ELSE 0
    BY <1>1, <1>3, <2>1, UsedMore
  <2> QED
    BY <2>1, <2>2
<1>9. Used(n, txn[o], Consumed) = Used(mat[o], txn[o], Consumed)
  <2>1. \A j \in Ops : n[j].posting \in Consumed <=> mat[o][j].posting \in Consumed
    BY <1>3, <1>5 DEF Consumed, Postings
  <2> QED
    BY <1>1, <1>3, <2>1, UsedReposted
<1>10. Balanced(BooksOf(o), c)
  <2>1. /\ Used(mat[o], txn[o], Applied) \in Int /\ inv.onHand \in Int
        /\ mat[o][i].required \in Int
    BY <1>1, UsedIs DEF Inv, Row
  <2>2. v.onHand + Used(n, txn[o], Applied) = inv.onHand + Used(mat[o], txn[o], Applied)
    BY <1>4, <1>8, <2>1
  <2>3. \A j \in Ops : n[j].required = mat[o][j].required
                       /\ (mat[o][j].posting # "none" => n[j].posting # "none")
    BY <1>3
  <2> QED
    BY <1>1, <1>4, <1>9, <2>2, <2>3 DEF Balanced
<1>11. c.mat = n /\ c.txn = txn[o] /\ c.inv = v
  OBVIOUS
<1>12. \A j \in Ops : n[j].posting = "none" <=> mat[o][j].posting = "none"
  BY <1>3, <1>5
<1>13. OrderOK(order[o], op[o], n, txn[o])
  <2>1. FirstRunOK(order[o], op[o], mat[o], txn[o]) => FirstRunOK(order[o], op[o], n, txn[o])
    BY <1>3, <1>12 DEF FirstRunOK
  <2>2. Spent(n, txn[o]) = Spent(mat[o], txn[o])
    BY <1>9 DEF Spent
  <2> QED
    BY <1>1, <1>3, <1>12, <2>1, <2>2 DEF OrderOK
<1> HIDE DEF c
<1>14. SetBooks(o, c)
  BY <1>6, <1>11 DEF SetBooks, v
<1>15. OrderOK(order'[o], op'[o], c.mat, c.txn)
  BY <1>2, <1>11, <1>13, Zenon
<1> QED
  BY <1>2, <1>7, <1>10, <1>14, <1>15, OneOrderKeeps

(* The same, of a BOM backflush.                                           *)
LEMMA HeldBomKeeps ==
  ASSUME FloorInv, NEW o \in Orders, ApproveHeldBom(o) \/ RejectHeldBom(o)
  PROVE  Kept
<1>1. /\ mat \in [Orders -> Rows] /\ txn \in [Orders -> Txn]
      /\ mat[o] \in Rows /\ txn[o] \in Txn /\ inv \in Inv /\ inv.allocated >= inv.ledgerNet
      /\ Sound(BooksOf(o)) /\ BooksOf(o) = [inv |-> inv, mat |-> mat[o], txn |-> txn[o]]
      /\ OrderOK(order[o], op[o], mat[o], txn[o])
  BY FloorTypes DEF BooksOf
<1>2. PICK p \in {"approved", "voided"} :
        /\ txn' = [txn EXCEPT ![o].bom = p]
        /\ p = "approved" => /\ txn[o].bom \in {"held", "voided"}
                             /\ inv' = [inv EXCEPT !.onHand = @ - txn[o].bomQty]
        /\ p = "voided" => txn[o].bom = "held" /\ inv' = inv
        /\ UNCHANGED <<order, op, mat>>
  BY DEF ApproveHeldBom, RejectHeldBom
<1> DEFINE u == [txn[o] EXCEPT !.bom = p]
           v == inv'
           c == [inv |-> v, mat |-> mat[o], txn |-> u]
<1>3. /\ u \in Txn /\ u.bom = p /\ u.bomQty = txn[o].bomQty
      /\ u.reserved = txn[o].reserved /\ u.released = txn[o].released
      /\ u.consumed = txn[o].consumed /\ u.receipts = txn[o].receipts
      /\ u.replaced = txn[o].replaced /\ u.applied = txn[o].applied
  <2>1. p \in Postings
    BY DEF Postings
  <2> QED
    BY <1>1, <2>1 DEF Txn
<1>4. /\ v \in Inv /\ v.allocated = inv.allocated /\ v.ledgerNet = inv.ledgerNet
      /\ v.onHand = inv.onHand - (IF p = "approved" THEN txn[o].bomQty ELSE 0)
  <2>1. inv.onHand - txn[o].bomQty \in Int /\ txn[o].bomQty \in Nat
    BY <1>1, LedgerColumns DEF Inv
  <2> QED
    BY <1>1, <1>2, <2>1 DEF Inv
<1>5. txn[o].bom \in {"held", "voided"}
  BY <1>2
<1>6. txn' = [txn EXCEPT ![o] = u] /\ mat' = [mat EXCEPT ![o] = mat[o]]
  BY <1>1, <1>2
<1> HIDE DEF u, v
<1>7. Sound(c)
  BY <1>1, <1>3, <1>4, PartsAreSound
<1>8. Used(mat[o], u, Applied)
        = Used(mat[o], txn[o], Applied) + (IF p = "approved" THEN txn[o].bomQty ELSE 0)
  <2>1. txn[o].bom \notin Applied /\ (u.bom \in Applied <=> p = "approved")
    BY <1>3, <1>5 DEF Applied
  <2>2. Used(mat[o], u, Applied)
          = Used(mat[o], txn[o], Applied) + IF u.bom \in Applied THEN u.bomQty ELSE 0
    BY <1>1, <1>3, <2>1, UsedBom
  <2> QED
    BY <1>3, <2>1, <2>2
<1>9. Used(mat[o], u, Consumed) = Used(mat[o], txn[o], Consumed)
  <2>1. BomUse(u, Consumed) = BomUse(txn[o], Consumed)
    BY <1>3, <1>5 DEF BomUse, Consumed, Postings
  <2> QED
    BY <1>1, <1>3, <2>1, UsedIs
<1>10. Balanced(BooksOf(o), c)
  <2>1. /\ Used(mat[o], txn[o], Applied) \in Int /\ inv.onHand \in Int
        /\ txn[o].bomQty \in Int
    BY <1>1, UsedIs, LedgerColumns DEF Inv
  <2>2. v.onHand + Used(mat[o], u, Applied) = inv.onHand + Used(mat[o], txn[o], Applied)
    BY <1>4, <1>8, <2>1
  <2> QED
    BY <1>1, <1>3, <1>4, <1>9, <2>2 DEF Balanced, Held
<1>11. c.mat = mat[o] /\ c.txn = u /\ c.inv = v
  OBVIOUS
<1>12. OrderOK(order[o], op[o], mat[o], u)
  <2>1. NetReserved(u) = NetReserved(txn[o])
    BY <1>3 DEF NetReserved
  <2>2. FirstRunOK(order[o], op[o], mat[o], txn[o]) => FirstRunOK(order[o], op[o], mat[o], u)
    BY <1>3, <2>1 DEF FirstRunOK
  <2>3. Spent(mat[o], u) = Spent(mat[o], txn[o])
    BY <1>3, <1>9 DEF Spent
  <2>4. order[o].status # "unused"
    BY <1>1, <1>5 DEF OrderOK, NoTxn
  <2>5. ~(NumOps > 0 \/ txn[o].receipts = 0)
    BY <1>1, <1>5 DEF OrderOK
  <2> QED
    BY <1>1, <1>3, <2>2, <2>3, <2>4, <2>5 DEF OrderOK
<1> HIDE DEF c
<1>13. SetBooks(o, c)
  BY <1>6, <1>11 DEF SetBooks, v
<1>14. OrderOK(order'[o], op'[o], c.mat, c.txn)
  BY <1>2, <1>11, <1>12, Zenon
<1> QED
  BY <1>2, <1>7, <1>10, <1>13, <1>14, OneOrderKeeps

(* The same, of a consumption no row shows any more.                       *)
LEMMA ApproveLeftKeeps ==
  ASSUME FloorInv, NEW o \in Orders, NEW k \in DOMAIN txn[o].left, ApproveLeft(o, k)
  PROVE  Kept
<1> DEFINE q == txn[o].left[k]
           a == txn[o].applied + q
           l == [txn[o].left EXCEPT ![k] = 0]
           h == inv.onHand - q
           u == [txn[o] EXCEPT !.left = l, !.applied = a]
           v == [inv EXCEPT !.onHand = h]
           c == [inv |-> v, mat |-> mat[o], txn |-> u]
<1>1. /\ mat \in [Orders -> Rows] /\ txn \in [Orders -> Txn]
      /\ mat[o] \in Rows /\ txn[o] \in Txn /\ inv \in Inv /\ inv.allocated >= inv.ledgerNet
      /\ Sound(BooksOf(o)) /\ BooksOf(o) = [inv |-> inv, mat |-> mat[o], txn |-> txn[o]]
      /\ OrderOK(order[o], op[o], mat[o], txn[o])
  BY FloorTypes DEF BooksOf
<1>2. /\ txn[o].left \in Seq(Nat) /\ txn[o].applied \in Nat /\ inv.onHand \in Int
  BY <1>1, LedgerColumns DEF Inv
<1>3. q \in Nat /\ a \in Nat /\ l \in Seq(Nat) /\ h \in Int /\ a = txn[o].applied + q
      /\ h = inv.onHand - q
  <2>1. q \in Nat /\ l \in Seq(Nat)
    BY <1>2
  <2> HIDE DEF q, l
  <2> QED
    BY <1>2, <2>1
<1>4. txn' = [txn EXCEPT ![o] = u] /\ inv' = v /\ UNCHANGED <<order, op, mat>>
  BY <1>1 DEF ApproveLeft
<1> HIDE DEF q, a, l, h
<1>5. /\ u \in Txn /\ u.applied = a /\ u.bom = txn[o].bom /\ u.bomQty = txn[o].bomQty
      /\ u.reserved = txn[o].reserved /\ u.released = txn[o].released
      /\ u.consumed = txn[o].consumed /\ u.receipts = txn[o].receipts
      /\ u.replaced = txn[o].replaced
  <2>1. [txn[o] EXCEPT !.left = l] \in Txn
    BY <1>1, <1>3 DEF Txn
  <2>2. [[txn[o] EXCEPT !.left = l] EXCEPT !.applied = a] \in Txn
    BY <1>3, <2>1 DEF Txn
  <2> QED
    BY <1>1, <2>2 DEF Txn
<1>6. /\ v \in Inv /\ v.onHand = h /\ v.ledgerNet = inv.ledgerNet
      /\ v.allocated = inv.allocated
  BY <1>1, <1>3 DEF Inv
<1> HIDE DEF u, v
<1>7. Sound(c)
  BY <1>1, <1>5, <1>6, PartsAreSound
<1>8. c.inv = v /\ c.mat = mat[o] /\ c.txn = u
  OBVIOUS
<1>9. \A P : Used(mat[o], u, P) = Used(mat[o], txn[o], P)
  BY <1>1, <1>5, UsedSame
<1>10. /\ Spent(mat[o], u) = Spent(mat[o], txn[o])
       /\ h + Stock(mat[o], u) = inv.onHand + Stock(mat[o], txn[o])
  <2>1. Used(mat[o], txn[o], Applied) \in Nat
    BY <1>1, UsedIs
  <2>2. /\ Used(mat[o], u, Applied) = Used(mat[o], txn[o], Applied)
        /\ Used(mat[o], u, Consumed) = Used(mat[o], txn[o], Consumed)
    BY <1>9
  <2>3. Spent(mat[o], u) = Spent(mat[o], txn[o])
    BY <1>5, <2>2 DEF Spent
  <2>4. /\ Stock(mat[o], u) = Used(mat[o], txn[o], Applied) + a
        /\ Stock(mat[o], txn[o]) = Used(mat[o], txn[o], Applied) + txn[o].applied
    BY <1>5, <2>2 DEF Stock
  <2>5. /\ q \in Int /\ txn[o].applied \in Int /\ inv.onHand \in Int
        /\ a = txn[o].applied + q /\ h = inv.onHand - q
    BY <1>2, <1>3
  <2>6. h + Stock(mat[o], u) = inv.onHand + Stock(mat[o], txn[o])
    BY <2>1, <2>4, <2>5
  <2> QED
    BY <2>3, <2>6
<1>11. Tallies(BooksOf(o), c)
  BY <1>1, <1>5, <1>6, <1>8, <1>10 DEF Tallies, Held
<1>12. OrderOK(order[o], op[o], mat[o], u)
  <2>1. NetReserved(u) = NetReserved(txn[o])
    BY <1>5 DEF NetReserved
  <2>2. FirstRunOK(order[o], op[o], mat[o], txn[o]) => FirstRunOK(order[o], op[o], mat[o], u)
    BY <1>5, <2>1 DEF FirstRunOK
  <2>3. order[o].status # "unused"
    <3>1. txn[o].left # <<>>
      OBVIOUS
    <3> QED
      BY <1>1, <3>1 DEF OrderOK, NoTxn
  <2> QED
    BY <1>1, <1>5, <1>10, <2>2, <2>3 DEF OrderOK
<1> HIDE DEF c
<1>13. SetBooks(o, c)
  <2>1. mat' = [mat EXCEPT ![o] = mat[o]]
    BY <1>1, <1>4
  <2> QED
    BY <1>4, <1>8, <2>1 DEF SetBooks
<1>14. OrderOK(order'[o], op'[o], c.mat, c.txn)
  BY <1>4, <1>8, <1>12, Zenon
<1>15. \A i \in Ops : mat[o][i].posting # "none" =>
         c.mat[i].required = mat[o][i].required /\ c.mat[i].posting # "none"
  BY <1>8
<1> QED
  BY <1>4, <1>7, <1>11, <1>13, <1>14, <1>15, OneOrderTallies

-----------------------------------------------------------------------------
(* The invariant holds.                                                    *)

(* Nothing was reserved or consumed in a new database.                     *)
LEMMA InitIsOK == Init => OrdersOK /\ Tallied(inv, mat, txn)
<1> SUFFICES ASSUME Init PROVE OrdersOK /\ Tallied(inv, mat, txn)
  OBVIOUS
<1>1. /\ order = [o \in Orders |-> NoOrder] /\ op = [o \in Orders |-> PendingOps]
      /\ mat = [o \in Orders |-> RoutedRows(0)] /\ txn = [o \in Orders |-> NoTxn]
  BY DEF Init
<1>2. PICK q \in StockLevels : inv = [onHand |-> q, allocated |-> 0, fg |-> 0, ledgerNet |-> 0]
  BY DEF Init
<1>3. RoutedRows(0) \in Rows /\ \A i \in Ops : RoutedRows(0)[i].posting = "none"
  BY RoutingIsTyped DEF RoutedRows, NewRow
<1>4. NoTxn \in Txn
  BY DEF NoTxn, Txn, Postings
<1>5. ASSUME NEW P, "none" \notin P PROVE Used(RoutedRows(0), NoTxn, P) = 0
  <2>1. \A i : RowUse(RoutedRows(0), P, i) = 0
    BY <1>3, <1>5 DEF RowUse
  <2>2. BomUse(NoTxn, P) = 0
    BY <1>5 DEF BomUse, NoTxn
  <2> QED
    BY <1>3, <1>4, <2>1, <2>2, UsedIs
<1>6. Used(RoutedRows(0), NoTxn, Consumed) = 0 /\ Used(RoutedRows(0), NoTxn, Applied) = 0
  BY <1>5 DEF Consumed, Applied
<1>7. OrderOK(NoOrder, PendingOps, RoutedRows(0), NoTxn)
  <2>1. NoTxn.receipts = 0 /\ NoTxn.bom = "none" /\ NoTxn.consumed = 0 /\ NoTxn.replaced = 0
    BY DEF NoTxn
  <2>2. NoOrder.status = "unused" /\ ~NoOrder.ended /\ NoOrder.reopened = 0
    BY DEF NoOrder, NewOrder
  <2>3. FirstRunOK(NoOrder, PendingOps, RoutedRows(0), NoTxn)
    BY <1>3, <2>1, <2>2 DEF FirstRunOK, Repairable
  <2>4. Spent(RoutedRows(0), NoTxn) = 0
    BY <1>6, <2>1 DEF Spent
  <2> QED
    BY <1>3, <2>1, <2>2, <2>3, <2>4 DEF OrderOK
<1>8. OrdersOK
  BY <1>1, <1>7 DEF OrdersOK
<1>9. \A o \in Orders : LedgerOf(txn)[o] = 0 /\ StockOf(mat, txn)[o] = 0
  <2>1. Held(NoTxn) = 0 /\ Stock(RoutedRows(0), NoTxn) = 0
    BY <1>6 DEF Held, Stock, NoTxn
  <2> QED
    BY <1>1, <2>1 DEF LedgerOf, StockOf
<1>10. /\ SumFunctionOnSet(LedgerOf(txn), Orders) = 0
       /\ SumFunctionOnSet(StockOf(mat, txn), Orders) = 0
  BY <1>9, OrdersAssumption, SumZero
<1>11. inv.onHand + 0 \in StockLevels /\ inv.ledgerNet = 0
  BY <1>2, OrdersAssumption
<1> QED
  BY <1>8, <1>10, <1>11 DEF Tallied

(* Every handler keeps it, and freezes what is consumed.                   *)
LEMMA NextKeeps == FloorInv /\ [Next]_vars => Kept
<1> SUFFICES ASSUME FloorInv, [Next]_vars PROVE Kept
  OBVIOUS
<1>1. CASE UNCHANGED vars
  <2>1. Tallied(inv', mat', txn')
    BY <1>1, Zenon DEF vars, FloorInv
  <2>2. OrdersOK'
    BY <1>1 DEF vars, FloorInv, OrdersOK
  <2>3. Frozen
    BY <1>1 DEF vars, Frozen
  <2> QED
    BY <2>1, <2>2, <2>3 DEF Kept
<1>2. ASSUME NEW o \in Orders, Planning(o) PROVE Kept
  BY <1>2, CreateOrderKeeps, UpdateQuantityKeeps, DeleteOrderKeeps, MoveOrderKeeps,
     ReleaseOrderKeeps, SplitOrderKeeps, RefreshRoutingKeeps DEF Planning
<1>3. ASSUME NEW o \in Orders, Floor(o) PROVE Kept
  BY <1>3, DispatchKeeps, StartOrSkipKeeps, CompleteOperationKeeps, ScrapOperationKeeps,
     MoveOrderKeeps DEF Floor
<1>4. ASSUME NEW o \in Orders, Closing(o) PROVE Kept
  <2>1. 0 \in Counts
    BY QuantityAssumption DEF Counts
  <2> QED
    BY <1>4, <2>1, ClosingKeeps, ReleasingKeeps, RecordScrapKeeps, RecordScrapAndRemakeKeeps
       DEF Closing
<1>5. ASSUME NEW o \in Orders, Control(o) PROVE Kept
  <2>1. ASSUME NEW t \in {{}} \cup {{i} : i \in Ops} PROVE t \in SUBSET Ops
    BY <2>1
  <2> QED
    BY <1>5, <2>1, RecordInspectionKeeps, HeldRowKeeps, HeldBomKeeps, ApproveLeftKeeps,
       ReleasingKeeps DEF Control
<1> QED
  BY <1>1, <1>2, <1>3, <1>4, <1>5 DEF Next

(* Every reachable state satisfies it.                                     *)
THEOREM FloorIsInOrder == Spec => []FloorInv
<1>1. Init => FloorInv
  BY InitAccounts, InitIsOK DEF FloorInv
<1>2. FloorInv /\ [Next]_vars => FloorInv'
  <2> SUFFICES ASSUME FloorInv, [Next]_vars PROVE FloorInv'
    OBVIOUS
  <2>1. Accounted'
    BY NextAccounts DEF FloorInv
  <2>2. Kept
    BY NextKeeps
  <2> QED
    BY <2>1, <2>2 DEF Kept, FloorInv
<1>3. QED
  BY <1>1, <1>2, PTL DEF Spec

-----------------------------------------------------------------------------
(* What it says of an order.                                               *)

(* A received order is received once and holds, owes and reports nothing   *)
(* any more, whichever of the handlers received it, until one of its       *)
(* finished operations is scheduled again; every further receipt takes     *)
(* another of those.                                                       *)
THEOREM ReceivedOrdersAreSettled == Spec => []ReceivedIsSettled
<1>1. FloorInv => ReceivedIsSettled
  <2> SUFFICES ASSUME FloorInv, NEW o \in Orders
               PROVE  /\ txn[o].receipts <= 1 + order[o].reopened
                      /\ txn[o].receipts > 0 /\ order[o].reopened = 0 =>
                           /\ order[o].status \in {"complete", "qc_hold", "cancelled"}
                           /\ NetReserved(txn[o]) = 0
                           /\ \A i \in Ops : Done(op[o][i].status) /\ mat[o][i].posting # "none"
    BY Zenon DEF ReceivedIsSettled
  <2>1. OrderOK(order[o], op[o], mat[o], txn[o])
    BY FloorTypes
  <2>2. order[o].reopened \in Nat
    BY FloorTypes DEF Order
  <2>3. order[o].reopened = 0 => FirstRunOK(order[o], op[o], mat[o], txn[o])
    BY <2>1 DEF OrderOK
  <2>4. txn[o].receipts <= 1 + order[o].reopened
    BY <2>1, <2>2 DEF OrderOK
  <2> QED
    BY <2>3, <2>4 DEF FirstRunOK, Settled, AllDone
<1>2. QED
  BY <1>1, FloorIsInOrder, PTL

(* An order no inspection completed was received when it was completed,    *)
(* unless it was taken up again after it had been closed as scrapped.      *)
THEOREM CompletedOrdersAreReceived == Spec => []UninspectedCompletionIsReceived
<1>1. FloorInv => UninspectedCompletionIsReceived
  BY DEF FloorInv, OrdersOK, OrderOK, FirstRunOK, UninspectedCompletionIsReceived
<1>2. QED
  BY <1>1, FloorIsInOrder, PTL

(* A short order awaits its first receipt with every operation reported,   *)
(* if none of its finished operations was taken up again.                  *)
THEOREM ShortOrdersAwaitReceipt == Spec => []ShortIsUnreceived
<1>1. FloorInv => ShortIsUnreceived
  BY DEF FloorInv, OrdersOK, OrderOK, FirstRunOK, AllDone, ShortIsUnreceived
<1>2. QED
  BY <1>1, FloorIsInOrder, PTL

(* A closed order holds nothing, unless an inspection closed it or a       *)
(* finished operation of it was taken up again.                            *)
THEOREM ClosedOrdersHoldNothing == Spec => []ClosedHoldsNothing
<1>1. FloorInv => ClosedHoldsNothing
  BY DEF FloorInv, OrdersOK, OrderOK, FirstRunOK, ClosedHoldsNothing
<1>2. QED
  BY <1>1, FloorIsInOrder, PTL

(* Between them the two consumption paths consume each row once, and only  *)
(* an order taken up again loses sight of what it consumed.                *)
THEOREM RowsAreConsumedOnce == Spec => []ConsumptionMatchesRows
<1>1. FloorInv => ConsumptionMatchesRows
  BY DEF FloorInv, OrdersOK, OrderOK, Spent, ConsumptionMatchesRows, UsedBy, Consumed
<1>2. QED
  BY <1>1, FloorIsInOrder, PTL

(* The reconciliation report finds the inventory row at or above the sum   *)
(* over all orders.                                                        *)
THEOREM DriftStaysOneSided == Spec => []DriftIsOneSided
<1>1. FloorInv => DriftIsOneSided
  <2> SUFFICES ASSUME FloorInv PROVE DriftIsOneSided
    OBVIOUS
  <2>1. inv.ledgerNet = SumFunctionOnSet(LedgerOf(txn), Orders)
    BY DEF FloorInv, Tallied
  <2>2. inv.allocated >= inv.ledgerNet
    BY FloorTypes
  <2>3. LedgerOf(txn) = [o \in Orders |-> txn[o].reserved - txn[o].released]
    BY DEF LedgerOf, Held
  <2> QED
    BY <2>1, <2>2, <2>3 DEF DriftIsOneSided
<1>2. QED
  BY <1>1, FloorIsInOrder, PTL

(* On-hand accounts for every posted and every approved consumption, also  *)
(* of rows that a routing refresh replaced.                                *)
THEOREM OnHandIsAccounted == Spec => []OnHandMatchesPostings
<1>1. FloorInv => OnHandMatchesPostings
  <2> SUFFICES ASSUME FloorInv PROVE OnHandMatchesPostings
    OBVIOUS
  <2>1. inv.onHand + SumFunctionOnSet(StockOf(mat, txn), Orders) \in StockLevels
    BY DEF FloorInv, Tallied
  <2>2. StockOf(mat, txn) = [o \in Orders |-> UsedBy(o, {"posted", "approved"}) + txn[o].applied]
    BY DEF StockOf, Stock, UsedBy, Applied
  <2> QED
    BY <2>1, <2>2 DEF OnHandMatchesPostings
<1>2. QED
  BY <1>1, FloorIsInOrder, PTL

(* No handler rewrites what was consumed for an order of which no finished *)
(* operation was taken up again.                                           *)
THEOREM ConsumedRowsAreFrozen == Spec => ConsumedRowFrozen
<1>1. FloorInv /\ [Next]_vars =>
        [\A o \in Orders : \A i \in Ops :
            mat[o][i].posting # "none" /\ order[o].reopened = 0 =>
               mat'[o][i].required = mat[o][i].required /\ mat'[o][i].posting # "none"]_vars
  BY NextKeeps DEF Kept, Frozen
<1>2. QED
  BY <1>1, FloorIsInOrder, PTL DEF Spec, ConsumedRowFrozen

-----------------------------------------------------------------------------
(* What a split leaves to the parent.                                      *)

(* Only a split changes what a released order is for.                      *)
LEMMA OnlySplitsResize ==
  ASSUME FloorInv, [Next]_vars, NEW o \in Orders, order[o].status = "released",
         order'[o].ordered # order[o].ordered
  PROVE  \E child \in Orders, q \in Quantities : SplitOrder(o, child, q)
<1>1. order \in [Orders -> Order] /\ \A x \in Orders : order[x] \in Order
  BY FloorTypes
<1>2. PICK x \in Orders : Planning(x) \/ Floor(x) \/ Closing(x) \/ Control(x)
  BY DEF vars, Next
<1>3. ASSUME NEW w \in Order, NEW ops, NEW b, UpdatePoStatus(x, w, ops, b),
             w.ordered = order[x].ordered
      PROVE  FALSE
  <2> DEFINE new       == DerivePoStatus(w, ops)
             finishing == new # w.status /\ new = "complete" /\ ~w.ended
             w2        == IF finishing
                            THEN [w EXCEPT !.status = new, !.ended = TRUE, !.qc = QueueForQC(w)]
                            ELSE [w EXCEPT !.status = new]
  <2>1. order' = [order EXCEPT ![x] = w2]
    BY <1>3, Zenon DEF UpdatePoStatus
  <2>2. w2.ordered = w.ordered
    BY DEF Order
  <2> HIDE DEF w2
  <2> QED
    BY <1>1, <1>3, <2>1, <2>2
<1>4. CASE Planning(x)
  <2>1. ASSUME NEW q \in Quantities, CreateOrder(x, q) \/ UpdateQuantity(x, q) PROVE FALSE
    BY <1>1, <2>1 DEF CreateOrder, UpdateQuantity
  <2>2. ASSUME DeleteOrder(x) \/ ScheduleOrder(x) \/ (\E force \in BOOLEAN : ReleaseOrder(x, force))
        PROVE  FALSE
    BY <1>1, <2>2 DEF DeleteOrder, ScheduleOrder, ReleaseOrder, SetStatus, Order
  <2>3. ASSUME RefreshRouting(x) PROVE FALSE
    BY <2>3 DEF RefreshRouting
  <2>4. ASSUME NEW child \in Orders, NEW q \in Quantities, SplitOrder(x, child, q)
        PROVE  x = o
    <3>1. order' = [order EXCEPT ![x].ordered = order[x].ordered - q, ![child] = NewOrder(q)]
      BY <2>4, Zenon DEF SplitOrder
    <3>2. order[child].status = "unused"
      BY <2>4 DEF SplitOrder
    <3> QED
      BY <1>1, <3>1, <3>2
  <2> QED
    BY <1>4, <2>1, <2>2, <2>3, <2>4 DEF Planning
<1>5. CASE Floor(x)
  <2>1. ASSUME NEW i \in Ops, QueueOperation(x, i) \/ UnscheduleOperation(x, i) PROVE FALSE
    <3>1. order' = order \/ \E n : order' = [order EXCEPT ![x].reopened = n]
      BY <2>1 DEF QueueOperation, UnscheduleOperation
    <3> QED
      BY <1>1, <3>1 DEF Order
  <2>2. ASSUME NEW i \in Ops, StartOperation(x, i) \/ SkipOperation(x, i) PROVE FALSE
    BY <1>1, <1>3, <2>2 DEF StartOperation, SkipOperation
  <2>3. ASSUME NEW i \in Ops, NEW good \in Counts, NEW bad \in Counts,
               CompleteOperation(x, i, good, bad)
        PROVE  FALSE
    <3> DEFINE k == order[x].scrapped + bad
               w == [order[x] EXCEPT !.completed = good, !.scrapped = k]
    <3>1. good \in Nat /\ k \in Nat
      BY <1>1 DEF Counts, Order
    <3> HIDE DEF k
    <3>2. w \in Order /\ w.ordered = order[x].ordered
      <4>1. [order[x] EXCEPT !.completed = good] \in Order
        BY <1>1, <3>1, WriteCompleted
      <4>2. [[order[x] EXCEPT !.completed = good] EXCEPT !.scrapped = k] \in Order
        BY <3>1, <4>1, WriteScrapped
      <4> QED
        BY <1>1, <4>2 DEF Order
    <3>3. \E ops, b : UpdatePoStatus(x, w, ops, b)
      BY <2>3, Zenon DEF CompleteOperation, k
    <3> HIDE DEF w
    <3> QED
      BY <1>3, <3>2, <3>3
  <2>4. ASSUME NEW i \in Ops, NEW q \in Quantities, ScrapOperation(x, i, q) PROVE FALSE
    <3>1. order' = [order EXCEPT ![x].scrapped = @ + q]
      BY <2>4, Zenon DEF ScrapOperation
    <3> QED
      BY <1>1, <3>1 DEF Order
  <2>5. ASSUME StartOrder(x) \/ HoldOrder(x) PROVE FALSE
    BY <1>1, <2>5 DEF StartOrder, HoldOrder, SetStatus, Order
  <2> QED
    BY <1>5, <2>1, <2>2, <2>3, <2>4, <2>5 DEF Floor
<1>6. CASE Closing(x)
  <2>1. ASSUME NEW good \in Counts, NEW bad \in Counts, NEW force \in BOOLEAN,
               CompleteOrder(x, good, bad, force)
        PROVE  FALSE
    <3>1. order' = [order EXCEPT ![x] = Reported(Finished(@), good, bad)]
      BY <2>1, Zenon DEF CompleteOrder
    <3>2. Reported(Finished(order[x]), good, bad).ordered = order[x].ordered
      BY <1>1 DEF Reported, Finished, Order
    <3> QED
      BY <1>1, <3>1, <3>2
  <2>2. ASSUME AcceptShort(x) \/ CloseScrapped(x) \/ CancelOrder(x) PROVE FALSE
    BY <1>1, <2>2 DEF AcceptShort, CloseScrapped, CancelOrder, SetStatus, Finished, Order
  <2>3. ASSUME NEW q \in Quantities,
               RecordScrap(x, q) \/ \E r \in Orders : RecordScrapAndRemake(x, r, q)
        PROVE  FALSE
    <3>1. q \in Nat
      BY QuantityAssumption DEF Quantities
    <3>2. Scrapped(order[x], q).ordered = order[x].ordered
      BY <1>1, <3>1, ScrappedFields
    <3> QED
      BY <1>1, <2>3, <3>2 DEF RecordScrap, RecordScrapAndRemake
  <2> QED
    BY <1>6, <2>1, <2>2, <2>3 DEF Closing
<1>7. CASE Control(x)
  <2>1. ASSUME NEW result, NEW targets, RecordInspection(x, result, targets) PROVE FALSE
    BY <1>1, <2>1 DEF RecordInspection, Order
  <2>2. ASSUME order' = order PROVE FALSE
    BY <2>2
  <2> QED
    BY <1>7, <2>1, <2>2
       DEF Control, ApproveHeld, RejectHeld, ApproveHeldBom, RejectHeldBom, ApproveLeft,
           RepairStranded
<1> QED
  BY <1>2, <1>4, <1>5, <1>6, <1>7

(* Rows that do not grow need no more than covered rows were allocated, so *)
(* that what the excess leaves is exactly what they need.                  *)
LEMMA SmallerRowsStayBacked ==
  ASSUME NEW b, Sound(b), NEW n \in Rows, NEW ordered \in Nat, Backed(b.mat, b.txn),
         \A i \in Ops : n[i].required > 0 /\ n[i].required <= b.mat[i].required
  PROVE  LET c == ReleaseExcess([b EXCEPT !.mat = n], ordered) IN Backed(c.mat, c.txn)
<1> DEFINE s      == [b EXCEPT !.mat = n]
           net    == NetReserved(b.txn)
           need   == RequiredAt(n, Ops, 1) + RequiredAt(n, Ops, 2)
           excess == Floor0(net - need)
           r      == WriteRelease(s, excess)
           c      == ReleaseExcess(s, ordered)
<1>1. /\ b.mat \in Rows /\ b.txn \in Txn /\ net \in Nat /\ need \in Nat
      /\ RequiredAt(n, Ops, 1) \in Nat /\ RequiredAt(n, Ops, 2) \in Nat
      /\ AllocatedAt(b.mat, 1) \in Nat /\ AllocatedAt(b.mat, 2) \in Nat
  BY SoundTypes, NetReservedIsNat, RequiredAtIsNat DEF AllocatedAt
<1>2. s.mat = n /\ s.txn = b.txn /\ s.inv = b.inv
  BY DEF Sound, Books
<1> HIDE DEF net
<1>3. CASE NumOps = 0
  <2>1. Ops = {}
    BY <1>3 DEF Ops
  <2>2. c.txn \in Txn
    <3>1. Sound(s)
      BY NewRowsAreSound
    <3> HIDE DEF s
    <3> QED
      BY <3>1, ReleaseExcessIsSound, SoundTypes
  <2>3. NetReserved(c.txn) \in Nat
    BY <2>2, NetReservedIsNat
  <2> HIDE DEF c
  <2> QED
    BY <2>1, <2>3 DEF Backed, Covered, AllocatedAt, c
<1>4. CASE NumOps # 0
  <2>1. 1 \in Ops /\ Ops # {}
    BY <1>4, RoutingAssumption DEF Ops
  <2>2. RequiredAt(n, Ops, 1) > 0
    BY <2>1 DEF RequiredAt
  <2>3. need <= net
    <3>1. RequiredAt(n, Ops, 1) <= AllocatedAt(b.mat, 1)
      BY <1>1, <2>1 DEF RequiredAt, AllocatedAt, Backed, Covered, Rows, Row
    <3>2. RequiredAt(n, Ops, 2) <= AllocatedAt(b.mat, 2)
      BY <1>1 DEF RequiredAt, AllocatedAt, Backed, Covered, Rows, Row
    <3>3. AllocatedAt(b.mat, 1) + AllocatedAt(b.mat, 2) <= net
      BY DEF Backed, net
    <3> QED
      BY <1>1, <3>1, <3>2, <3>3
  <2>4. excess = net - need /\ net - excess = need /\ need > 0
    BY <1>1, <2>2, <2>3 DEF Floor0
  <2>5. c = [r EXCEPT !.mat = Sync(n, Ops, need)]
    <3>1. Need(s.mat, Ops, ordered) = need
      BY <1>2, <2>1 DEF Need
    <3>2. HasNeed(Ops)
      BY <2>1 DEF HasNeed
    <3>3. NetReserved(s.txn) = net
      BY <1>2 DEF net
    <3>4. c = [r EXCEPT !.mat = Sync(s.mat, Ops, net - excess)]
      <4>1. net - excess > 0
        BY <1>1, <2>4
      <4> HIDE DEF need, s
      <4> QED
        BY <3>1, <3>2, <3>3, <4>1 DEF ReleaseExcess
    <3> QED
      BY <1>2, <2>4, <3>4
  <2>6. c.mat = Sync(n, Ops, need) /\ c.txn = [b.txn EXCEPT !.released = @ + excess]
    BY <1>2, <2>5 DEF WriteRelease
  <2>7. NetReserved(c.txn) = need
    <3>1. net > 0
      BY <1>1, <2>3, <2>4
    <3>2. net = b.txn.reserved - b.txn.released
      BY <1>1, <3>1, LedgerColumns DEF net, NetReserved, Floor0
    <3>3. b.txn.reserved \in Int /\ b.txn.released \in Int
      BY <1>1, LedgerColumns
    <3>4. excess \in Int /\ need \in Int /\ net \in Int
      BY <1>1, <2>4
    <3> HIDE DEF c, excess, need
    <3>5. c.txn.reserved = b.txn.reserved /\ c.txn.released = b.txn.released + excess
      BY <1>1, <2>6 DEF Txn
    <3>6. c.txn.reserved - c.txn.released = need
      BY <2>4, <3>2, <3>3, <3>4, <3>5
    <3> QED
      BY <1>1, <2>4, <3>6 DEF NetReserved, Floor0
  <2>8. \A i \in Ops : Sync(n, Ops, need)[i].allocated = n[i].required
                       /\ Sync(n, Ops, need)[i].required = n[i].required
    <3>1. ASSUME NEW i \in Ops
          PROVE  /\ Sync(n, Ops, need)[i].allocated
                      = Min2(Floor0(need - (IF i = 2 THEN RequiredAt(n, Ops, 1) ELSE 0)), n[i].required)
                 /\ Sync(n, Ops, need)[i].required = n[i].required
      BY DEF Sync, Rows, Row
    <3>2. ASSUME NEW i \in Ops
          PROVE  need - (IF i = 2 THEN RequiredAt(n, Ops, 1) ELSE 0) >= n[i].required
      <4>1. i \in {1, 2}
        BY FirstAndSecond
      <4>2. RequiredAt(n, Ops, i) = n[i].required
        BY DEF RequiredAt
      <4> QED
        BY <1>1, <4>1, <4>2
    <3>3. \A i \in Ops : n[i].required \in Nat
      BY DEF Rows, Row
    <3> HIDE DEF need
    <3> QED
      BY <1>1, <3>1, <3>2, <3>3 DEF Min2, Floor0
  <2>9. \A i : AllocatedAt(c.mat, i) = RequiredAt(n, Ops, i)
    BY <2>6, <2>8 DEF AllocatedAt, RequiredAt
  <2>10. Covered(c.mat)
    BY <2>6, <2>8, SoundTypes DEF Covered, Rows, Row
  <2>11. AllocatedAt(c.mat, 1) + AllocatedAt(c.mat, 2) <= NetReserved(c.txn)
    BY <1>1, <2>7, <2>9
  <2> QED
    BY <2>10, <2>11 DEF Backed
<1> QED
  BY <1>3, <1>4

(* The parent of a split that makes no row larger stays backed.            *)
THEOREM SplitsKeepBacking == Spec => SplitKeepsBacking
<1> DEFINE Kept1 ==
      \A o \in Orders :
          /\ order[o].status = "released" /\ order'[o].status = "released"
          /\ order'[o].ordered < order[o].ordered
          /\ Backed(mat[o], txn[o])
          /\ \A i \in Ops : mat'[o][i].required <= mat[o][i].required
          => Backed(mat'[o], txn'[o])
<1>1. FloorInv /\ [Next]_vars => [Kept1]_vars
  <2> SUFFICES ASSUME FloorInv, [Next]_vars, NEW o \in Orders,
                      order[o].status = "released", order'[o].ordered < order[o].ordered,
                      Backed(mat[o], txn[o]),
                      \A i \in Ops : mat'[o][i].required <= mat[o][i].required
               PROVE  Backed(mat'[o], txn'[o])
    BY Zenon
  <2>1. /\ order[o] \in Order /\ order \in [Orders -> Order]
        /\ mat \in [Orders -> Rows] /\ txn \in [Orders -> Txn]
        /\ Sound(BooksOf(o)) /\ BooksOf(o).mat = mat[o] /\ BooksOf(o).txn = txn[o]
        /\ OrderOK(order[o], op[o], mat[o], txn[o])
    BY FloorTypes DEF BooksOf
  <2>2. order'[o].ordered # order[o].ordered
    <3>1. order[o].ordered \in Int
      BY <2>1 DEF Order
    <3> QED
      BY <3>1
  <2>3. PICK child \in Orders, q \in Quantities : SplitOrder(o, child, q)
    BY <2>2, OnlySplitsResize
  <2> DEFINE remaining == order[o].ordered - q
             m         == Rescale(o, remaining)
             b         == BooksOf(o)
             c         == ReleaseExcess([b EXCEPT !.mat = m], remaining)
  <2>4. /\ remaining > 0 /\ order[child].status = "unused"
        /\ mat' = [mat EXCEPT ![o] = c.mat, ![child] = OpeningBooks(c.inv, q).mat]
        /\ txn' = [txn EXCEPT ![o] = c.txn, ![child] = OpeningBooks(c.inv, q).txn]
    BY <2>3, Zenon DEF SplitOrder
  <2>5. mat'[o] = c.mat /\ txn'[o] = c.txn
    BY <2>1, <2>4
  <2>6. remaining \in Nat /\ remaining > 0
    BY <2>1, <2>4 DEF Order, Quantities
  <2>7. \A i \in Ops : mat[o][i].required > 0
    BY <2>1 DEF OrderOK
  <2> HIDE DEF remaining, b
  <2>8. m \in Rows
    <3>2. mat[o] \in Rows
      BY <2>1
    <3>1. ASSUME NEW i \in Ops PROVE [mat[o][i] EXCEPT !.required = remaining] \in Row
      BY <2>6, <3>2 DEF Rows, Row
    <3> QED
      BY <3>1, <3>2 DEF Rescale, Rows
  <2>9. \A i \in Ops : m[i].required > 0
    BY <2>1, <2>6, <2>7 DEF Rescale, Rows, Row
  <2> HIDE DEF m
  <2>10. \A i \in Ops : c.mat[i].required = m[i].required
    <3> DEFINE s == [b EXCEPT !.mat = m]
    <3>1. Sound(s) /\ s.mat = m
      BY <2>1, <2>8, NewRowsAreSound DEF b, Sound, Books
    <3> HIDE DEF s
    <3>2. Quiet(s, ReleaseExcess(s, remaining))
      BY <2>6, <3>1, ReleaseExcessIsQuiet
    <3> QED
      BY <3>1, <3>2 DEF Quiet, s
  <2>11. \A i \in Ops : m[i].required <= b.mat[i].required
    BY <2>1, <2>5, <2>10 DEF b
  <2>12. Sound(b) /\ Backed(b.mat, b.txn)
    BY <2>1 DEF b
  <2>13. Backed(c.mat, c.txn)
    BY <2>6, <2>8, <2>9, <2>11, <2>12, SmallerRowsStayBacked
  <2> HIDE DEF c
  <2> QED
    BY <2>5, <2>13, Zenon
<1>2. QED
  BY <1>1, FloorIsInOrder, PTL DEF Spec, SplitKeepsBacking

=============================================================================
