-------------------------- MODULE ProductionOrders --------------------------
(***************************************************************************)
(* The life of production orders: their status, their operations, the      *)
(* materials they reserve and consume and the goods they deliver.          *)
(*                                                                         *)
(* One action per request handler; a handler runs in one database          *)
(* transaction that commits at its end, and here handlers run one after    *)
(* another (module InventoryPosting is about their overlap).  A request    *)
(* the code refuses leaves no trace and is a disabled action.              *)
(***************************************************************************)
EXTENDS WorkOrderBooks, FiniteSets, Functions

CONSTANTS
    Orders,          \* the ids production orders get
    StockLevels,     \* the on-hand quantities of the material to start from
    MaxInspections,  \* bound: QC inspections recorded per order
    MaxReopened      \* bound: finished operations of an order taken up again

ASSUME OrdersAssumption ==
    /\ IsFiniteSet(Orders) /\ StockLevels \subseteq Nat
    /\ MaxInspections \in Nat /\ MaxReopened \in Nat

VARIABLES
    order,   \* production_orders
    op,      \* production_order_operations
    mat,     \* production_order_operation_materials
    txn,     \* inventory_transactions, summed per order
    inv      \* inventory

vars == <<order, op, mat, txn, inv>>

Quantities == 1..MaxQty
Counts == 0..MaxQty

Live == {"draft", "scheduled", "released", "in_progress", "on_hold", "short",
         "complete", "scrapped", "cancelled", "qc_hold"}
Statuses == Live \cup {"unused", "deleted"}
OpStatuses == {"pending", "queued", "running", "complete", "skipped"}

Order == [status: Statuses, ordered: Nat, completed: Nat, scrapped: Nat,
          ended: BOOLEAN,        \* actual_end is set
          qc: {"not_required", "pending", "passed", "failed"},
          inspections: Nat,
          reopened: Nat]         \* history: finished operations scheduled again
Operation == [status: OpStatuses, good: Nat, bad: Nat]

TypeOK ==
    /\ order \in [Orders -> Order]
    /\ op \in [Orders -> [Ops -> Operation]]
    /\ mat \in [Orders -> [Ops -> Row]]
    /\ txn \in [Orders -> Txn]
    /\ inv \in Inv

-----------------------------------------------------------------------------

NewOrder(q) == [status |-> "draft", ordered |-> q, completed |-> 0, scrapped |-> 0,
                ended |-> FALSE, qc |-> "not_required", inspections |-> 0,
                reopened |-> 0]
NoOrder == [NewOrder(0) EXCEPT !.status = "unused"]
PendingOps == [i \in Ops |-> [status |-> "pending", good |-> 0, bad |-> 0]]
RoutedRows(q) == [i \in Ops |-> NewRow(q)]

(* The operations whose material rows are in the database when a new order *)
(* reserves: copying the routing flushes each operation, and with it the   *)
(* materials of the one before, but nothing flushes the last one's.        *)
FlushedOps == Ops \ {NumOps}

BooksOf(o) == [inv |-> inv, mat |-> mat[o], txn |-> txn[o]]
SetBooks(o, b) == /\ inv' = b.inv
                  /\ mat' = [mat EXCEPT ![o] = b.mat]
                  /\ txn' = [txn EXCEPT ![o] = b.txn]
UnchangedBooks == UNCHANGED <<inv, mat, txn>>

SetStatus(o, s) == order' = [order EXCEPT ![o].status = s]

(* The books of a new order: its rows copied from the routing, then        *)
(* reserved as far as the query sees them.                                 *)
OpeningBooks(v, q) ==
    Reserve([inv |-> v, mat |-> RoutedRows(q), txn |-> NoTxn], FlushedOps, q)

Done(s) == s \in {"complete", "skipped"}
PreviousDone(o, i) == i > 1 => Done(op[o][i - 1].status)

-----------------------------------------------------------------------------
(* The status of an order derived from its operations, and what follows    *)
(* when it becomes complete.                                               *)

DerivePoStatus(w, ops) ==
    IF NumOps = 0 THEN w.status
    ELSE IF \A i \in Ops : ops[i].status = "pending" THEN "released"
    ELSE IF \A i \in Ops : Done(ops[i].status)
           THEN IF w.completed >= w.ordered THEN "complete" ELSE "short"
    ELSE "in_progress"

QueueForQC(w) == IF w.qc = "not_required" THEN "pending" ELSE w.qc

(* Mutant of UpdatePoStatus: a short order is received as well.            *)
UpdatePoStatusReceivingShort(o, w, ops, b) ==
    LET new       == DerivePoStatus(w, ops)
        finishing == new # w.status /\ new \in {"complete", "short"} /\ ~w.ended
        made      == IF w.completed = 0 THEN w.ordered ELSE w.completed
    IN  /\ op' = [op EXCEPT ![o] = ops]
        /\ order' = [order EXCEPT ![o] =
                       IF finishing
                         THEN [w EXCEPT !.status = new, !.ended = TRUE, !.qc = QueueForQC(w)]
                         ELSE [w EXCEPT !.status = new]]
        /\ SetBooks(o, IF finishing THEN Completion(b, mat[o], w.ordered, made) ELSE b)

UpdatePoStatus(o, w, ops, b) ==
    LET new       == DerivePoStatus(w, ops)
        finishing == new # w.status /\ new = "complete" /\ ~w.ended
        made      == IF w.completed = 0 THEN w.ordered ELSE w.completed
    IN  /\ op' = [op EXCEPT ![o] = ops]
        /\ order' = [order EXCEPT ![o] =
                       IF finishing
                         THEN [w EXCEPT !.status = new, !.ended = TRUE, !.qc = QueueForQC(w)]
                         ELSE [w EXCEPT !.status = new]]
        /\ SetBooks(o, IF finishing THEN Completion(b, mat[o], w.ordered, made) ELSE b)

(* Bulk completion and accept-short close every operation.                 *)
Finished(w) == [w EXCEPT !.status = "complete", !.ended = TRUE, !.qc = QueueForQC(w)]
AllComplete(ops) == [i \in Ops |-> [ops[i] EXCEPT !.status = "complete"]]

-----------------------------------------------------------------------------
(* Planning: create, change, release, split.                               *)

CreateOrder(o, q) ==
    /\ order[o].status = "unused"
    /\ order' = [order EXCEPT ![o] = NewOrder(q)]
    /\ op' = [op EXCEPT ![o] = PendingOps]
    /\ SetBooks(o, OpeningBooks(inv, q))

(* Neither the rows nor the reservation follow the new quantity.           *)
UpdateQuantity(o, q) ==
    /\ order[o].status \in {"draft", "scheduled"}
    /\ order' = [order EXCEPT ![o].ordered = q]
    /\ UNCHANGED <<op, mat, txn, inv>>

DeleteOrder(o) ==
    /\ order[o].status = "draft"
    /\ SetStatus(o, "deleted")
    /\ op' = [op EXCEPT ![o] = PendingOps]
    /\ SetBooks(o, [ReleaseAll(BooksOf(o), mat[o]) EXCEPT !.mat = RoutedRows(0)])

ScheduleOrder(o) ==
    /\ order[o].status \in {"draft", "scheduled"}
    /\ SetStatus(o, "scheduled")
    /\ UNCHANGED <<op, mat, txn, inv>>

(* Heal 1: reservations in the ledger, nothing on the rows: rebuild them.  *)
Backfill(b) ==
    IF /\ NumOps > 0 /\ b.txn.reserved > 0
       /\ \A i \in Ops : b.mat[i].allocated = 0
       /\ NetReserved(b.txn) > 0
      THEN [b EXCEPT !.mat = Sync(b.mat, Ops, NetReserved(b.txn))]
      ELSE b

(* Heal 2: some row is short of its requirement: reserve the shortfall.    *)
Covered(m) == \A i \in Ops : m[i].allocated >= m[i].required
ReserveMissing(b, ordered) == IF Covered(b.mat) THEN b ELSE Reserve(b, Ops, ordered)

ReleaseOrder(o, force) ==
    LET b == IF force THEN Backfill(BooksOf(o))
             ELSE ReserveMissing(Backfill(BooksOf(o)), order[o].ordered)
    IN  /\ order[o].status \in {"draft", "scheduled", "on_hold"}
        /\ force \/ Covered(b.mat)
        /\ SetStatus(o, "released")
        /\ SetBooks(o, b)
        /\ UNCHANGED op

(* The rows of pending operations are sized again for the new quantity.    *)
Rescale(o, q) ==
    [i \in Ops |-> IF op[o][i].status = "pending" /\ mat[o][i].posting = "none"
                     THEN [mat[o][i] EXCEPT !.required = q]
                     ELSE mat[o][i]]

SplitOrder(o, child, q) ==
    LET remaining == order[o].ordered - q
        parent    == ReleaseExcess([BooksOf(o) EXCEPT !.mat = Rescale(o, remaining)], remaining)
        opening   == OpeningBooks(parent.inv, q)
    IN  /\ order[o].status \in {"draft", "scheduled", "released"}
        /\ order[child].status = "unused"
        /\ remaining > 0
        /\ order' = [order EXCEPT ![o].ordered = remaining, ![child] = NewOrder(q)]
        /\ op' = [op EXCEPT ![child] = PendingOps]
        /\ inv' = opening.inv
        /\ mat' = [mat EXCEPT ![o] = parent.mat, ![child] = opening.mat]
        /\ txn' = [txn EXCEPT ![o] = parent.txn, ![child] = opening.txn]

(* Mutant of RefreshRouting: operations that were started do not block it. *)
RefreshRoutingAnyway(o) ==
    /\ NumOps > 0
    /\ order[o].status \in {"draft", "released", "on_hold"}
    /\ op' = [op EXCEPT ![o] = PendingOps]
    /\ SetBooks(o, ReplaceRows(BooksOf(o), RoutedRows(order[o].ordered)))
    /\ UNCHANGED order

(* Operations and their rows are replaced; nothing is reserved for them.   *)
(* Only the status of the operations is asked: rows that were consumed     *)
(* before their operation was scheduled again are replaced as well.        *)
RefreshRouting(o) ==
    /\ NumOps > 0
    /\ order[o].status \in {"draft", "released", "on_hold"}
    /\ \A i \in Ops : op[o][i].status = "pending"
    /\ op' = [op EXCEPT ![o] = PendingOps]
    /\ SetBooks(o, ReplaceRows(BooksOf(o), RoutedRows(order[o].ordered)))
    /\ UNCHANGED order

-----------------------------------------------------------------------------
(* The shop floor: operations.  None of these handlers looks at the status *)
(* of the order.                                                           *)

(* Scheduling an operation on a resource queues it, whatever its status:   *)
(* one that is running, complete or skipped as well.                       *)
QueueOperation(o, i) ==
    LET reopened == order[o].reopened + IF Done(op[o][i].status) THEN 1 ELSE 0
    IN  /\ order[o].status \in Live
        /\ reopened <= MaxReopened
        /\ order' = [order EXCEPT ![o].reopened = reopened]
        /\ op' = [op EXCEPT ![o][i].status = "queued"]
        /\ UnchangedBooks

(* Taking it off the schedule.                                             *)
UnscheduleOperation(o, i) ==
    /\ order[o].status \in Live
    /\ op[o][i].status = "queued"
    /\ op' = [op EXCEPT ![o][i].status = "pending"]
    /\ UNCHANGED <<order, mat, txn, inv>>

(* The row is short if what it was allocated and what nobody was allocated *)
(* do not cover it.                                                        *)
MaterialShort(o, i) ==
    /\ mat[o][i].posting = "none"
    /\ mat[o][i].required - mat[o][i].allocated > inv.onHand - inv.allocated

StartOperation(o, i) ==
    /\ order[o].status \in Live
    /\ op[o][i].status \in {"pending", "queued"}
    /\ PreviousDone(o, i)
    /\ ~MaterialShort(o, i)
    /\ UpdatePoStatus(o, order[o], [op[o] EXCEPT ![i].status = "running"], BooksOf(o))

SkipOperation(o, i) ==
    /\ order[o].status \in Live
    /\ op[o][i].status \in {"pending", "queued"}
    /\ PreviousDone(o, i)
    /\ UpdatePoStatus(o, order[o], [op[o] EXCEPT ![i].status = "skipped"], BooksOf(o))

(* What an operation may report: what the operation before it passed on.   *)
MaxQuantity(o, i) ==
    IF i = 1 \/ op[o][i - 1].status = "skipped" THEN order[o].ordered
    ELSE IF op[o][i - 1].status = "complete" THEN op[o][i - 1].good
    ELSE 0

(* No good piece is left to pass on.                                       *)
SkipLater(ops, i) ==
    [j \in Ops |-> IF j > i /\ ops[j].status \in {"pending", "queued"}
                     THEN [ops[j] EXCEPT !.status = "skipped"] ELSE ops[j]]

(* Report an operation: consume its material, skip what is left if nothing *)
(* good came out of it, and let the order's quantity be this operation's.  *)
(* Bad pieces are scrapped first, on top of those scrapped while it ran;   *)
(* a report without any overwrites the operation's count of them.          *)
CompleteOperation(o, i, good, bad) ==
    LET w     == [order[o] EXCEPT !.completed = good, !.scrapped = @ + bad]
        worse == IF bad = 0 THEN 0 ELSE op[o][i].bad + bad
        ops   == [op[o] EXCEPT ![i] = [status |-> "complete", good |-> good, bad |-> worse]]
        next  == IF good = 0 THEN SkipLater(ops, i) ELSE ops
    IN  /\ order[o].status \in Live
        /\ op[o][i].status = "running"
        /\ good + bad <= MaxQuantity(o, i)
        /\ bad > 0 => worse <= MaxQuantity(o, i)
        /\ UpdatePoStatus(o, w, next, ConsumeRow(BooksOf(o), i))

(* Scrap at an operation, running or reported.  Scrapping the last good    *)
(* piece of a reported one skips what follows; the status of the order is  *)
(* not derived again.                                                      *)
ScrapOperation(o, i, q) ==
    LET bad  == op[o][i].bad + q
        ops  == [op[o] EXCEPT ![i].bad = bad]
        gone == op[o][i].status = "complete" /\ op[o][i].good <= bad
    IN  /\ order[o].status \in Live
        /\ bad <= (IF op[o][i].status = "running" THEN MaxQuantity(o, i) ELSE op[o][i].good)
        /\ order' = [order EXCEPT ![o].scrapped = @ + q]
        /\ op' = [op EXCEPT ![o] = IF gone THEN SkipLater(ops, i) ELSE ops]
        /\ UnchangedBooks

-----------------------------------------------------------------------------
(* The shop floor: whole orders.                                           *)

(* Starting an order starts its first operation, if that is pending.       *)
FirstRunning(ops) ==
    [i \in Ops |-> IF i = 1 /\ ops[i].status = "pending"
                     THEN [ops[i] EXCEPT !.status = "running"] ELSE ops[i]]

StartOrder(o) ==
    /\ order[o].status \in {"released", "scheduled"}
    /\ SetStatus(o, "in_progress")
    /\ op' = [op EXCEPT ![o] = FirstRunning(@)]
    /\ UnchangedBooks

HoldOrder(o) ==
    /\ order[o].status \in {"released", "in_progress"}
    /\ SetStatus(o, "on_hold")
    /\ UNCHANGED <<op, mat, txn, inv>>

Reported(w, good, bad) == [w EXCEPT !.completed = @ + good, !.scrapped = @ + bad]

(* Mutant of CompleteOrder: a completed order may be completed again.      *)
CompleteOrderAgain(o, good, bad, force) ==
    /\ order[o].status \in {"in_progress", "released", "complete"}
    /\ good + bad <= order[o].ordered
    /\ Consumable(good)
    /\ order' = [order EXCEPT ![o] = Reported(Finished(@), good, bad)]
    /\ op' = [op EXCEPT ![o] = AllComplete(@)]
    /\ SetBooks(o, Completion(BooksOf(o), mat[o], order[o].ordered, good))

(* Bulk completion.  The guard compares good with what remains; the books  *)
(* receive the ordered quantity.                                           *)
CompleteOrder(o, good, bad, force) ==
    /\ order[o].status \in {"in_progress", "released"}
    /\ good + bad <= order[o].ordered
    /\ good >= order[o].ordered - order[o].completed \/ force
    /\ Consumable(good)
    /\ order' = [order EXCEPT ![o] = Reported(Finished(@), good, bad)]
    /\ op' = [op EXCEPT ![o] = AllComplete(@)]
    /\ SetBooks(o, Completion(BooksOf(o), mat[o], order[o].ordered, good))

AcceptShort(o) ==
    /\ order[o].status = "short"
    /\ order[o].completed > 0 /\ order[o].completed < order[o].ordered
    /\ txn[o].receipts = 0
    /\ order' = [order EXCEPT ![o] = Finished(@)]
    /\ op' = [op EXCEPT ![o] = AllComplete(@)]
    /\ SetBooks(o, Receive(ConsumeStage(BooksOf(o), mat[o], order[o].completed),
                           order[o].completed))

(* Mutant of CloseScrapped: closed as complete.                            *)
CloseScrappedAsComplete(o) ==
    /\ order[o].status = "short"
    /\ order[o].completed = 0 /\ order[o].scrapped > 0
    /\ txn[o].receipts = 0
    /\ order' = [order EXCEPT ![o] = Finished(@)]
    /\ SetBooks(o, ReleaseAll(BooksOf(o), mat[o]))
    /\ UNCHANGED op

CloseScrapped(o) ==
    /\ order[o].status = "short"
    /\ order[o].completed = 0 /\ order[o].scrapped > 0
    /\ txn[o].receipts = 0
    /\ order' = [order EXCEPT ![o].status = "scrapped", ![o].ended = TRUE]
    /\ SetBooks(o, ReleaseAll(BooksOf(o), mat[o]))
    /\ UNCHANGED op

(* An order scrapped to the last unit before anything was completed is     *)
(* moved to 'scrapped'; its reservations stay.  Units of an order that has *)
(* been received are written off the finished goods.                       *)
Scrapped(w, q) ==
    LET all == w.completed = 0 /\ w.scrapped + q >= w.ordered
    IN  [w EXCEPT !.scrapped = @ + q,
                  !.status = IF all /\ @ \in {"draft", "released", "scheduled",
                                              "in_progress", "short", "on_hold"}
                               THEN "scrapped" ELSE @]

WriteOff(o, q) == IF order[o].status \in {"complete", "qc_hold"} THEN q ELSE 0

RecordScrap(o, q) ==
    /\ order[o].status \in Live
    /\ q <= order[o].ordered - order[o].completed - order[o].scrapped
    /\ WriteOff(o, q) <= inv.fg
    /\ order' = [order EXCEPT ![o] = Scrapped(@, q)]
    /\ inv' = [inv EXCEPT !.fg = @ - WriteOff(o, q)]
    /\ UNCHANGED <<op, mat, txn>>

(* The same, with a remake order for the scrapped quantity.                *)
RecordScrapAndRemake(o, remake, q) ==
    LET opening == OpeningBooks([inv EXCEPT !.fg = @ - WriteOff(o, q)], q)
    IN  /\ order[o].status \in Live
        /\ order[remake].status = "unused"
        /\ q <= order[o].ordered - order[o].completed - order[o].scrapped
        /\ WriteOff(o, q) <= inv.fg
        /\ order' = [order EXCEPT ![o] = Scrapped(@, q), ![remake] = NewOrder(q)]
        /\ op' = [op EXCEPT ![remake] = PendingOps]
        /\ SetBooks(remake, opening)

(* Mutant of CancelOrder: the reservations stay.                           *)
CancelOrderUnreleased(o) ==
    /\ order[o].status \in Live \ {"cancelled", "complete"}
    /\ SetStatus(o, "cancelled")
    /\ UNCHANGED <<op, mat, txn, inv>>

CancelOrder(o) ==
    /\ order[o].status \in Live \ {"cancelled", "complete"}
    /\ SetStatus(o, "cancelled")
    /\ SetBooks(o, ReleaseAll(BooksOf(o), mat[o]))
    /\ UNCHANGED op

-----------------------------------------------------------------------------
(* Quality and stock control.                                              *)

(* An inspection of the order, or of one operation, which it completes.    *)
(* A failure holds the order whatever its status was; any other result     *)
(* turns a held order into a complete one.                                 *)
RecordInspection(o, result, targets) ==
    LET qty    == IF order[o].completed = 0 THEN order[o].ordered ELSE order[o].completed
        passed == IF result = "passed" THEN qty ELSE 0
        report == [status |-> "complete", good |-> passed, bad |-> qty - passed]
    IN  /\ order[o].status \in Live
        /\ order[o].inspections < MaxInspections
        /\ order' = [order EXCEPT ![o].qc = result,
                                  ![o].inspections = @ + 1,
                                  ![o].status = IF result = "failed" THEN "qc_hold"
                                                ELSE IF @ = "qc_hold" THEN "complete" ELSE @]
        /\ op' = [op EXCEPT ![o] = [i \in Ops |-> IF i \in targets THEN report ELSE @[i]]]
        /\ UnchangedBooks

(* A held consumption is applied to on-hand, or voided.  Approval asks     *)
(* whether the row is held and not approved, which a voided row still is.  *)
ApproveHeld(o, i) ==
    /\ mat[o][i].posting \in {"held", "voided"}
    /\ mat' = [mat EXCEPT ![o][i].posting = "approved"]
    /\ inv' = [inv EXCEPT !.onHand = @ - mat[o][i].required]
    /\ UNCHANGED <<order, op, txn>>

RejectHeld(o, i) ==
    /\ mat[o][i].posting = "held"
    /\ mat' = [mat EXCEPT ![o][i].posting = "voided"]
    /\ UNCHANGED <<order, op, txn, inv>>

ApproveHeldBom(o) ==
    /\ txn[o].bom \in {"held", "voided"}
    /\ txn' = [txn EXCEPT ![o].bom = "approved"]
    /\ inv' = [inv EXCEPT !.onHand = @ - txn[o].bomQty]
    /\ UNCHANGED <<order, op, mat>>

RejectHeldBom(o) ==
    /\ txn[o].bom = "held"
    /\ txn' = [txn EXCEPT ![o].bom = "voided"]
    /\ UNCHANGED <<order, op, mat, inv>>

(* The same, of a consumption whose material row was replaced.  Rejecting  *)
(* one of these changes nothing that matters here.                         *)
ApproveLeft(o, k) ==
    LET q == txn[o].left[k]
    IN  /\ q > 0
        /\ txn' = [txn EXCEPT ![o].left[k] = 0, ![o].applied = @ + q]
        /\ inv' = [inv EXCEPT !.onHand = @ - q]
        /\ UNCHANGED <<order, op, mat>>

(* Staff release what a finished or deleted order still holds.             *)
Repairable == {"complete", "cancelled", "deleted"}

RepairStranded(o) ==
    /\ order[o].status \in Repairable
    /\ NetReserved(txn[o]) > 0
    /\ SetBooks(o, ReleaseStranded(BooksOf(o)))
    /\ UNCHANGED <<order, op>>

-----------------------------------------------------------------------------

Init ==
    /\ order = [o \in Orders |-> NoOrder]
    /\ op = [o \in Orders |-> PendingOps]
    /\ mat = [o \in Orders |-> RoutedRows(0)]
    /\ txn = [o \in Orders |-> NoTxn]
    /\ inv \in {[onHand |-> q, allocated |-> 0, fg |-> 0, ledgerNet |-> 0] : q \in StockLevels}

Planning(o) ==
    \/ \E q \in Quantities : CreateOrder(o, q)
    \/ \E q \in Quantities : UpdateQuantity(o, q)
    \/ DeleteOrder(o)
    \/ ScheduleOrder(o)
    \/ \E force \in BOOLEAN : ReleaseOrder(o, force)
    \/ \E child \in Orders, q \in Quantities : SplitOrder(o, child, q)
    \/ RefreshRouting(o)

Floor(o) ==
    \/ \E i \in Ops : QueueOperation(o, i)
    \/ \E i \in Ops : UnscheduleOperation(o, i)
    \/ \E i \in Ops : StartOperation(o, i)
    \/ \E i \in Ops : SkipOperation(o, i)
    \/ \E i \in Ops, good, bad \in Counts : CompleteOperation(o, i, good, bad)
    \/ \E i \in Ops, q \in Quantities : ScrapOperation(o, i, q)
    \/ StartOrder(o)
    \/ HoldOrder(o)

Closing(o) ==
    \/ \E good, bad \in Counts, force \in BOOLEAN : CompleteOrder(o, good, bad, force)
    \/ AcceptShort(o)
    \/ CloseScrapped(o)
    \/ \E q \in Quantities : RecordScrap(o, q)
    \/ \E remake \in Orders, q \in Quantities : RecordScrapAndRemake(o, remake, q)
    \/ CancelOrder(o)

Control(o) ==
    \/ \E result \in {"passed", "failed"}, targets \in {{}} \cup {{i} : i \in Ops} :
          RecordInspection(o, result, targets)
    \/ \E i \in Ops : ApproveHeld(o, i)
    \/ \E i \in Ops : RejectHeld(o, i)
    \/ ApproveHeldBom(o)
    \/ RejectHeldBom(o)
    \/ \E k \in DOMAIN txn[o].left : ApproveLeft(o, k)
    \/ RepairStranded(o)

Next == \E o \in Orders : Planning(o) \/ Floor(o) \/ Closing(o) \/ Control(o)

Spec == Init /\ [][Next]_vars

-----------------------------------------------------------------------------
(* Properties.                                                             *)

(* The allocated quantity of the inventory row is never below the sum of   *)
(* reservations minus releases.  The release path floors the former at     *)
(* zero and not the latter, so the two may part, but only to this side:    *)
(* stock is never promised that the ledger knows to be reserved.           *)
AllocationCoversLedger == inv.allocated >= inv.ledgerNet

(* The same, with the sum taken over the rows of every order as the        *)
(* reconciliation report takes it, whatever the orders do to each other    *)
(* through the shared inventory row.                                       *)
DriftIsOneSided ==
    LET net == SumFunctionOnSet([o \in Orders |-> txn[o].reserved - txn[o].released], Orders)
    IN  inv.ledgerNet = net /\ inv.allocated >= net

(* What was consumed for the rows an order shows, or its BOM line.         *)
Used(m, t, postings) == RowsUsed(m, postings) + IF t.bom \in postings THEN t.bomQty ELSE 0
UsedBy(o, postings) == Used(mat[o], txn[o], postings)

(* The per-operation path and the completion backflush consume the same    *)
(* rows; between them every row is consumed at most once, at the           *)
(* requirement it still shows.  What no row shows any more was consumed    *)
(* for an order of which a finished operation was scheduled again.         *)
ConsumptionMatchesRows ==
    \A o \in Orders :
        /\ txn[o].consumed = UsedBy(o, Postings \ {"none"}) + txn[o].replaced
        /\ txn[o].replaced > 0 => order[o].reopened > 0

(* On-hand is what the stock started with, less every consumption that was *)
(* posted or approved, also of rows that a refresh has replaced since: a   *)
(* held one counts once, when it is approved, and not before.              *)
OnHandMatchesPostings ==
    inv.onHand + SumFunctionOnSet(
        [o \in Orders |-> UsedBy(o, {"posted", "approved"}) + txn[o].applied], Orders)
      \in StockLevels

(* Four handlers can receive an order into stock and nothing in the order  *)
(* says that it has been.  Each receipt after the first takes a finished   *)
(* operation that scheduling queued again.  Without one, the order is      *)
(* received at most once, and from then on it holds no reservation, every  *)
(* operation is closed and every material is consumed, whatever QC or a    *)
(* cancellation do later.                                                  *)
ReceivedIsSettled ==
    \A o \in Orders :
        /\ txn[o].receipts <= 1 + order[o].reopened
        /\ txn[o].receipts > 0 /\ order[o].reopened = 0 =>
             /\ order[o].status \in {"complete", "qc_hold", "cancelled"}
             /\ NetReserved(txn[o]) = 0
             /\ \A i \in Ops : Done(op[o][i].status) /\ mat[o][i].posting # "none"

(* Without an inspection (which moves orders to complete by itself) a      *)
(* complete order has been received; an order closed as scrapped that was  *)
(* taken up again can complete without.                                    *)
UninspectedCompletionIsReceived ==
    \A o \in Orders :
        order[o].status = "complete" /\ order[o].inspections = 0 /\ order[o].reopened = 0 =>
            txn[o].receipts = 1

(* An order awaiting the short decision has not been received and has no   *)
(* operation left to report: accept-short is not the second receipt.       *)
(* Taken up again after its receipt, an order can report short, and        *)
(* neither decision is open to it.                                         *)
ShortIsUnreceived ==
    \A o \in Orders : order[o].status = "short" /\ order[o].reopened = 0 =>
        txn[o].receipts = 0 /\ \A i \in Ops : Done(op[o][i].status)

(* Complete, cancelled and deleted orders hold nothing, neither in the     *)
(* ledger nor on an unconsumed row, so that the stranded-reservation       *)
(* repair has only inspected and reopened orders left to repair.           *)
ClosedHoldsNothing ==
    \A o \in Orders :
        order[o].status \in Repairable /\ order[o].inspections = 0 /\ order[o].reopened = 0 =>
            /\ NetReserved(txn[o]) = 0
            /\ \A i \in Ops : mat[o][i].posting = "none" => mat[o][i].allocated = 0

(* Once consumed a material row stays consumed at the same requirement: no *)
(* split, deletion or release rewrites what was posted, and a refresh does *)
(* so only after a finished operation was scheduled again.                 *)
ConsumedRowFrozen ==
    [][\A o \in Orders : \A i \in Ops :
          mat[o][i].posting # "none" /\ order[o].reopened = 0 =>
             mat'[o][i].required = mat[o][i].required /\ mat'[o][i].posting # "none"]_vars

AllocatedAt(m, i) == IF i \in Ops THEN m[i].allocated ELSE 0
Backed(m, t) == Covered(m) /\ AllocatedAt(m, 1) + AllocatedAt(m, 2) <= NetReserved(t)

(* A split takes from a released order what the child will need, not what  *)
(* the parent still needs: if the parent's rows were covered and its       *)
(* ledger backed them, they still are, queued operations included.  Only a *)
(* row that grows is not: a draft made larger keeps its rows, and a split  *)
(* sizes them for what remains, but reserves nothing.                      *)
SplitKeepsBacking ==
    [][\A o \in Orders :
          /\ order[o].status = "released" /\ order'[o].status = "released"
          /\ order'[o].ordered < order[o].ordered
          /\ Backed(mat[o], txn[o])
          /\ \A i \in Ops : mat'[o][i].required <= mat[o][i].required
          => Backed(mat'[o], txn'[o])]_vars

=============================================================================
