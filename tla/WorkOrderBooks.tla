--------------------------- MODULE WorkOrderBooks ---------------------------
(***************************************************************************)
(* What the inventory service does to the books of ONE production order    *)
(* (backend/app/services/inventory_service.py and                          *)
(* production_order_quantity_change.py), as functions of the books.        *)
(*                                                                         *)
(* The books of an order are three groups of database columns:             *)
(*   inv   the inventory row of the material every operation uses, with    *)
(*         the on-hand of the finished item (fg), and ledgerNet, the sum   *)
(*         of reservation minus reservation_release rows of ALL orders     *)
(*         that the reconciliation report recomputes;                      *)
(*   mat   the order's operation-material rows, one per operation;         *)
(*   txn   the order's rows of the transaction ledger, summed by type.     *)
(*                                                                         *)
(* Data abstracted: one material, one unit of it per piece at each         *)
(* operation (per-unit rates, scrap factors, units of measure and costs    *)
(* only scale the numbers), one location, no lots, no general ledger.      *)
(* A routing has at most two operations: 2 is the last one, whose material *)
(* rows the session has not flushed when a new order reserves, and 1       *)
(* stands for the earlier ones.                                            *)
(***************************************************************************)
EXTENDS Integers, Sequences

CONSTANTS
    NumOps,     \* operations on the product's active routing (0: no routing)
    HasBom,     \* the product also has an active bill of materials
    MaxQty      \* bound: the largest quantity an order is created for

ASSUME RoutingAssumption == NumOps \in 0..2 /\ HasBom \in BOOLEAN
ASSUME QuantityAssumption == MaxQty \in Nat \ {0}

Ops == 1..NumOps

(* The fate of the consumption an operation material (or the BOM line)     *)
(* caused: no transaction yet, applied to on-hand, held for approval, and  *)
(* then approved (applied) or voided.  After any but the first the         *)
(* material row is 'consumed'.                                             *)
Postings == {"none", "posted", "held", "approved", "voided"}

Inv == [onHand: Int, allocated: Nat, fg: Nat, ledgerNet: Int]
Row == [required: Nat, allocated: Nat, posting: Postings]
Txn == [reserved: Nat,    \* sum of the order's reservation rows
        released: Nat,    \* sum of its reservation_release rows
        consumed: Nat,    \* sum of its consumption rows, held ones included
        bom: Postings,    \* the consumption row of the BOM backflush
        bomQty: Nat,      \* and its quantity
        replaced: Nat,    \* of consumed, what material rows show no more
        applied: Nat,     \* of replaced, what was taken off on-hand
        left: Seq(Nat),   \* of replaced, each row still held (0: approved)
        receipts: Nat,    \* completions that wrote finished-goods receipts
        received: Nat]    \* the quantity on them
Books == [inv: Inv, mat: [Ops -> Row], txn: Txn]

NoTxn == [reserved |-> 0, released |-> 0, consumed |-> 0, bom |-> "none",
          bomQty |-> 0, replaced |-> 0, applied |-> 0, left |-> <<>>,
          receipts |-> 0, received |-> 0]
NewRow(qty) == [required |-> qty, allocated |-> 0, posting |-> "none"]

Min2(a, b) == IF a <= b THEN a ELSE b
Floor0(a) == IF a >= 0 THEN a ELSE 0

-----------------------------------------------------------------------------
(* Reservation.                                                            *)

(* What the order still holds in the ledger, floored at zero.              *)
NetReserved(t) == Floor0(t.reserved - t.released)

RequiredAt(m, S, i) == IF i \in S THEN m[i].required ELSE 0

(* The requirement of the rows a query returns: S is the set of operations *)
(* whose rows have been flushed.  No visible row: the BOM walk.            *)
HasNeed(S) == S # {} \/ HasBom
Need(m, S, ordered) ==
    IF S # {} THEN RequiredAt(m, S, 1) + RequiredAt(m, S, 2)
    ELSE IF HasBom THEN ordered ELSE 0

(* Distribute q over the visible rows in operation order, each up to what  *)
(* it requires.                                                            *)
Sync(m, S, q) ==
    LET before(i) == IF i = 2 THEN RequiredAt(m, S, 1) ELSE 0
    IN  [i \in Ops |->
           IF i \in S
             THEN [m[i] EXCEPT !.allocated = Min2(Floor0(q - before(i)), m[i].required)]
             ELSE m[i]]

(* Mutant of Reserve: a top-up records the whole requirement.              *)
ReserveRecordingNeed(b, S, ordered) ==
    LET net   == NetReserved(b.txn)
        need  == Need(b.mat, S, ordered)
        delta == Floor0(need - net)
    IN  IF delta > 0
          THEN [inv |-> [b.inv EXCEPT !.allocated = @ + delta, !.ledgerNet = @ + need],
                mat |-> Sync(b.mat, S, net + delta),
                txn |-> [b.txn EXCEPT !.reserved = @ + need]]
          ELSE b

(* Reserve only what the ledger does not already hold, then sync the rows. *)
Reserve(b, S, ordered) ==
    LET net   == NetReserved(b.txn)
        delta == Floor0(Need(b.mat, S, ordered) - net)
    IN  IF HasNeed(S)
          THEN [inv |-> [b.inv EXCEPT !.allocated = @ + delta, !.ledgerNet = @ + delta],
                mat |-> Sync(b.mat, S, net + delta),
                txn |-> [b.txn EXCEPT !.reserved = @ + delta]]
          ELSE b

(* Mutants of WriteRelease: no release row; no floor.                      *)
WriteReleaseUnrecorded(b, q) == [b EXCEPT !.inv.allocated = Floor0(@ - q)]
WriteReleaseUnfloored(b, q) ==
    [b EXCEPT !.inv.allocated = @ - q, !.inv.ledgerNet = @ - q, !.txn.released = @ + q]

(* Take q off the inventory row (never below zero) and write the release.  *)
WriteRelease(b, q) ==
    [inv |-> [b.inv EXCEPT !.allocated = Floor0(@ - q), !.ledgerNet = @ - q],
     mat |-> b.mat,
     txn |-> [b.txn EXCEPT !.released = @ + q]]

(* Every reservation row the order ever wrote is released again, whether   *)
(* or not it has been released before; rows that are unconsumed in the     *)
(* database (stored) lose their allocation.                                *)
ReleaseAll(b, stored) ==
    [WriteRelease(b, b.txn.reserved) EXCEPT
        !.mat = [i \in Ops |-> IF stored[i].posting = "none"
                                 THEN [b.mat[i] EXCEPT !.allocated = 0]
                                 ELSE b.mat[i]]]

(* Mutant of ReleaseExcess: the rows are not synced to what is left.       *)
ReleaseExcessUnsynced(b, ordered) ==
    IF HasNeed(Ops)
      THEN WriteRelease(b, Floor0(NetReserved(b.txn) - Need(b.mat, Ops, ordered)))
      ELSE b

(* After a split: release what the ledger holds above the requirement.     *)
ReleaseExcess(b, ordered) ==
    LET net    == NetReserved(b.txn)
        excess == Floor0(net - Need(b.mat, Ops, ordered))
        r      == WriteRelease(b, excess)
    IN  IF ~HasNeed(Ops) THEN b
        ELSE IF net - excess > 0
               THEN [r EXCEPT !.mat = Sync(b.mat, Ops, net - excess)]
               ELSE r

(* The staff repair: release what the ledger still holds.                  *)
ReleaseStranded(b) == WriteRelease(b, NetReserved(b.txn))

-----------------------------------------------------------------------------
(* Replacement.                                                            *)

(* What the rows with such a posting require.                              *)
RowsUsed(m, postings) ==
    LET S == {i \in DOMAIN m : m[i].posting \in postings}
    IN  RequiredAt(m, S, 1) + RequiredAt(m, S, 2)

(* The consumption of a row whose approval is still open, as a sequence.   *)
HeldAt(m, i) ==
    IF i \in Ops /\ m[i].posting \in {"held", "voided"} THEN <<m[i].required>> ELSE <<>>

(* New rows for old ones.  The ledger keeps what the old ones consumed.    *)
ReplaceRows(b, rows) ==
    [inv |-> b.inv,
     mat |-> rows,
     txn |-> [b.txn EXCEPT !.replaced = @ + RowsUsed(b.mat, Postings \ {"none"}),
                           !.applied  = @ + RowsUsed(b.mat, {"posted", "approved"}),
                           !.left     = @ \o HeldAt(b.mat, 1) \o HeldAt(b.mat, 2)]]

-----------------------------------------------------------------------------
(* Consumption and receipt.                                                *)

(* A consumption that would leave on_hand - allocated negative is written  *)
(* but held: on_hand is untouched until somebody approves it.              *)
PostingOf(v, q) == IF v.onHand - v.allocated - q < 0 THEN "held" ELSE "posted"

(* Mutant of OnHandAfter: a held consumption is taken off on-hand too.     *)
OnHandAfterUnheld(v, q) == v.onHand - q

OnHandAfter(v, q) == IF PostingOf(v, q) = "held" THEN v.onHand ELSE v.onHand - q

(* Mutant of ConsumeRow: a row that is consumed already is consumed again. *)
ConsumeRowAgain(b, i) ==
    IF i \notin Ops THEN b
    ELSE [b EXCEPT !.mat[i].posting = PostingOf(b.inv, b.mat[i].required),
                   !.inv.onHand     = OnHandAfter(b.inv, b.mat[i].required),
                   !.txn.consumed   = @ + b.mat[i].required]

(* An operation material is consumed once, for its whole requirement.      *)
ConsumeRow(b, i) ==
    IF i \notin Ops \/ b.mat[i].posting # "none" THEN b
    ELSE [b EXCEPT !.mat[i].posting = PostingOf(b.inv, b.mat[i].required),
                   !.inv.onHand     = OnHandAfter(b.inv, b.mat[i].required),
                   !.txn.consumed   = @ + b.mat[i].required]

(* The BOM backflush looks for a 'consumption' row; one that was held is   *)
(* stored as 'negative_adjustment' and is not found.                       *)
ConsumeBom(b, q) ==
    IF b.txn.bom = "posted" THEN b
    ELSE [inv |-> [b.inv EXCEPT !.onHand = OnHandAfter(b.inv, q)],
          mat |-> b.mat,
          txn |-> [b.txn EXCEPT !.bom = PostingOf(b.inv, q), !.bomQty = q, !.consumed = @ + q]]

(* Release, then consume: every unconsumed operation row for its whole     *)
(* requirement, or (no rows at all) the BOM line for the quantity made.    *)
ConsumeStage(b, stored, qty) ==
    LET r == ReleaseAll(b, stored)
    IN  IF NumOps > 0 THEN ConsumeRow(ConsumeRow(r, 1), 2)
        ELSE IF HasBom THEN ConsumeBom(r, qty) ELSE r

Receive(b, qty) ==
    [inv |-> [b.inv EXCEPT !.fg = @ + qty],
     mat |-> b.mat,
     txn |-> [b.txn EXCEPT !.receipts = @ + 1, !.received = @ + qty]]

(* The ordered quantity is received whatever was made, plus any overrun.   *)
Completion(b, stored, ordered, qty) ==
    Receive(ConsumeStage(b, stored, qty), ordered + Floor0(qty - ordered))

(* A zero-quantity posting is refused by the ledger, which fails the whole *)
(* completion.                                                             *)
Consumable(qty) == NumOps > 0 \/ ~HasBom \/ qty > 0

=============================================================================
