------------------------------ MODULE Billing ------------------------------
(***************************************************************************)
(* The invoices and payments of one sales order that may be invoiced, and  *)
(* the journal entries booked for them.                                    *)
(*                                                                         *)
(* The payment endpoints are async: they run on the event loop, one at a   *)
(* time.  The invoice endpoints run in the thread pool, at any time.  A    *)
(* handler that reads, waits for a lock of the database and then writes    *)
(* takes several steps; the others are one action each.  Two locks matter: *)
(* the advisory lock of the payment numbers and the row of the order, both *)
(* kept until the handler commits.  The payment status of the order, which *)
(* is set from the same sum as the invoice, is left out.                   *)
(***************************************************************************)
EXTENDS Integers, FiniteSets, Functions

CONSTANTS
    Payments,    \* the numbers payments and refunds get, in their order
    Invoices,    \* the numbers invoices get, in their order
    Threads,     \* the threads that serve invoice requests
    EventLoop,   \* the thread that serves payment requests
    NoInvoice,   \* no invoice
    NoPayment,   \* no payment
    OrderTotal,  \* what the order costs
    MaxAmount    \* bound: the amount of a payment, of either sign

ASSUME BillingAssumption ==
    /\ Payments \subseteq Nat /\ Invoices \subseteq Nat /\ IsFiniteSet(Payments)
    /\ EventLoop \notin Threads
    /\ NoInvoice \notin Invoices
    /\ NoPayment \notin Payments
    /\ OrderTotal \in Nat \ {0}
    /\ MaxAmount \in Nat \ {0}
    /\ IsFiniteSet(Invoices) /\ IsFiniteSet(Threads) /\ Cardinality(Threads) <= Cardinality(Invoices)

Sessions == Threads \cup {EventLoop}

VARIABLES
    pay,      \* payments
    inv,      \* invoices
    session   \* what each handler that is under way has read

vars == <<pay, inv, session>>

PayStatuses == {"unused", "pending", "completed", "voided"}   \* pending: or failed
InvStatuses == {"unused", "draft", "sent", "partially_paid", "paid", "voided"}
Amounts == 1..MaxAmount
InvoiceAmounts == -MaxAmount..MaxAmount

Payment == [status: PayStatuses, amount: Int, refund: BOOLEAN,
            posted: Nat, reversed: Nat,   \* journal entries of the receipt
            patched: BOOLEAN]             \* history: its status was set by PATCH
Invoice == [status: InvStatuses, paid: Int,
            posted: Nat, reversed: Nat,   \* journal entries of the receivable
            nonpositive: BOOLEAN]         \* history: of an amount or a sum reconciled

(* recorder: loaded -> numbered -> inserted; refund: locked -> numbered.   *)
Session == [pc: {"idle", "loaded", "numbered", "inserted", "sending", "creating",
                 "refunding", "refund_numbered"},
            pay: Payments \cup {NoPayment}, amount: Int,
            inv: Invoices \cup {NoInvoice},
            seen: [status: InvStatuses, paid: Int, posted: BOOLEAN],
            unposted: SUBSET Payments]

TypeOK ==
    /\ pay \in [Payments -> Payment]
    /\ inv \in [Invoices -> Invoice]
    /\ session \in [Sessions -> Session]

-----------------------------------------------------------------------------

FreePayment == [status |-> "unused", amount |-> 0, refund |-> FALSE,
                posted |-> 0, reversed |-> 0, patched |-> FALSE]
FreeInvoice == [status |-> "unused", paid |-> 0, posted |-> 0, reversed |-> 0,
                nonpositive |-> FALSE]
Unread == [status |-> "unused", paid |-> 0, posted |-> FALSE]
Idle == [pc |-> "idle", pay |-> NoPayment, amount |-> 0, inv |-> NoInvoice, seen |-> Unread,
         unposted |-> {}]

HoldsNumbers(s) == session[s].pc \in {"numbered", "inserted", "refund_numbered"}
HoldsOrder(s) == session[s].pc \in {"refunding", "refund_numbered"}
NumbersFree == \A s \in Sessions : ~HoldsNumbers(s)
OrderFree == \A s \in Sessions : ~HoldsOrder(s)
LoopFree == session[EventLoop].pc = "idle"

Completed(f) == {p \in Payments : f[p].status = "completed"}
Net(f) == SumFunctionOnSet([p \in Payments |-> f[p].amount], Completed(f))

(* A payment of nothing has no journal entry.                              *)
Unposted(f) == {p \in Completed(f) : f[p].posted = 0 /\ f[p].amount # 0}
AtLeast0(n) == IF n < 0 THEN 0 ELSE n

Existing == {i \in Invoices : inv[i].status # "unused"}

(* The next payment, counting those of the handlers under way.             *)
FreshPayments == {p \in Payments : pay[p].status = "unused" /\ \A s \in Sessions : session[s].pay # p}
NextPayment(p) == p \in FreshPayments /\ \A q \in FreshPayments : p <= q

Post(f, S) ==
    [p \in Payments |-> IF p \in S /\ f[p].amount # 0 THEN [f[p] EXCEPT !.posted = @ + 1]
                        ELSE f[p]]

(* Mutant of ReverseReceipt: a reversal booked before is not looked for.   *)
ReverseReceiptAgain(r) == IF r.posted > 0 THEN [r EXCEPT !.reversed = @ + 1] ELSE r

(* Once: there is a receipt, and no reversal of it yet.                    *)
ReverseReceipt(r) ==
    IF r.posted > 0 /\ r.reversed = 0 THEN [r EXCEPT !.reversed = 1] ELSE r

PostReceivable(r) == IF r.posted = 0 THEN [r EXCEPT !.posted = 1] ELSE r

-----------------------------------------------------------------------------
(* Recording a payment.                                                    *)

(* The handler reads the invoice and the order.                            *)
Load(s, p, a, i) ==
    /\ session[s].pc = "idle" /\ NextPayment(p)
    /\ session' = [session EXCEPT ![s] =
         [Idle EXCEPT !.pc = "loaded", !.pay = p, !.amount = a, !.inv = i,
                      !.seen = IF i = NoInvoice THEN Unread
                               ELSE [status |-> inv[i].status, paid |-> inv[i].paid,
                                     posted |-> inv[i].posted > 0]]]
    /\ UNCHANGED <<pay, inv>>

(* PATCH /invoices: of an invoice that is not paid; a voided one passes.   *)
(* Nobody asks for the sign of the amount.                                 *)
LoadForInvoice(t, p, a, i) ==
    /\ inv[i].status \notin {"unused", "paid"}
    /\ Load(t, p, a, i)

(* POST /payments: with the open invoice of the order, if there is one.    *)
LoadForOrder(p, a) ==
    LET open == {i \in Existing : inv[i].status # "paid"}
    IN  IF Cardinality(open) = 1 THEN \E i \in open : Load(EventLoop, p, a, i)
        ELSE Load(EventLoop, p, a, NoInvoice)

TakeNumber(s) ==
    /\ session[s].pc = "loaded" /\ NumbersFree
    /\ session' = [session EXCEPT ![s].pc = "numbered"]
    /\ UNCHANGED <<pay, inv>>

(* The new row refers to the order, so it waits for whoever has locked it. *)
(* Which payments have no receipt yet is read before the lock of the       *)
(* journal is taken.                                                       *)
InsertPayment(s) ==
    /\ session[s].pc = "numbered" /\ OrderFree
    /\ session' = [session EXCEPT ![s].pc = "inserted",
                                  ![s].unposted = Unposted(pay)]
    /\ UNCHANGED <<pay, inv>>

(* _reconcile_invoice locks the row but works with what it had read; what  *)
(* it does not change, it does not write.                                  *)
Reconciled(r, seen, amount) ==
    LET paid == seen.paid + amount
        status == IF paid >= OrderTotal THEN "paid"
                  ELSE IF paid > 0 THEN "partially_paid" ELSE seen.status
    IN  PostReceivable([r EXCEPT !.paid = IF amount = 0 THEN @ ELSE paid,
                                 !.status = IF status = seen.status THEN @ ELSE status,
                                 !.nonpositive = @ \/ amount <= 0 \/ paid <= 0])

CommitPayment(s) ==
    LET r == session[s]
        row == [FreePayment EXCEPT !.status = "completed", !.amount = r.amount]
        rows == Post([pay EXCEPT ![r.pay] = row], r.unposted \cup {r.pay})
    IN  /\ r.pc = "inserted"
        /\ pay' = rows
        /\ inv' = IF r.inv = NoInvoice THEN inv
                  ELSE [inv EXCEPT ![r.inv] = Reconciled(@, r.seen, r.amount)]
        /\ session' = [session EXCEPT ![s] = Idle]

-----------------------------------------------------------------------------
(* Refunds, voided payments and payments whose status is set.              *)

(* resync_invoice_paid_from_payments: any one invoice of the order is set  *)
(* from the payments the database knows.                                   *)
Resynced(r, net) ==
    IF r.status = "voided" THEN r
    ELSE [r EXCEPT !.paid = AtLeast0(net),
                   !.status = IF net >= OrderTotal THEN "paid"
                              ELSE IF net > 0 THEN "partially_paid"
                              ELSE IF @ \in {"paid", "partially_paid"} THEN "sent" ELSE @]

Resync(net) ==
    IF Existing = {} THEN UNCHANGED inv
    ELSE \E i \in Existing : inv' = [inv EXCEPT ![i] = Resynced(@, net)]

(* Mutant of LockOrder: what was collected is not asked for.               *)
LockOrderUnasked(p, a) ==
    /\ LoopFree /\ NextPayment(p)
    /\ \A s \in Sessions : session[s].pc # "inserted"
    /\ session' = [session EXCEPT ![EventLoop] =
         [Idle EXCEPT !.pc = "refunding", !.pay = p, !.amount = -a]]
    /\ UNCHANGED <<pay, inv>>

(* The order row is locked before what was collected is summed up: a       *)
(* payment that is being inserted holds a share of that lock.              *)
LockOrder(p, a) ==
    /\ LoopFree /\ NextPayment(p)
    /\ \A s \in Sessions : session[s].pc # "inserted"
    /\ a <= Net(pay)
    /\ session' = [session EXCEPT ![EventLoop] =
         [Idle EXCEPT !.pc = "refunding", !.pay = p, !.amount = -a]]
    /\ UNCHANGED <<pay, inv>>

NumberRefund ==
    /\ session[EventLoop].pc = "refunding" /\ NumbersFree
    /\ session' = [session EXCEPT ![EventLoop].pc = "refund_numbered"]
    /\ UNCHANGED <<pay, inv>>

CommitRefund ==
    LET r == session[EventLoop]
        row == [FreePayment EXCEPT !.status = "completed", !.amount = r.amount, !.refund = TRUE]
        rows == [pay EXCEPT ![r.pay] = row]
    IN  /\ r.pc = "refund_numbered"
        /\ pay' = Post(rows, Unposted(rows))
        /\ Resync(Net(rows))
        /\ session' = [session EXCEPT ![EventLoop] = Idle]

(* The status is set in memory only.  The queries that follow do not see   *)
(* it, unless the receipt of another payment is posted in between.         *)
SetPaymentStatus(p, s, patched) ==
    LET old == pay[p].status
        left == old = "completed" /\ s # "completed"
        row == [IF left THEN ReverseReceipt(pay[p]) ELSE pay[p]
                  EXCEPT !.status = s, !.patched = @ \/ patched]
        rows == [pay EXCEPT ![p] = row]
        others == Unposted(pay) \ {p}
        known == IF others = {} THEN Net(pay) ELSE Net(rows)
    IN  /\ LoopFree
        /\ pay' = Post(rows, others)
        /\ IF left THEN Resync(known) ELSE UNCHANGED inv
        /\ UNCHANGED session

VoidPayment(p) ==
    /\ pay[p].status \notin {"unused", "voided"}
    /\ SetPaymentStatus(p, "voided", FALSE)

UpdatePayment(p, s) ==
    /\ pay[p].status \notin {"unused", s}
    /\ SetPaymentStatus(p, s, TRUE)

-----------------------------------------------------------------------------
(* Invoices.                                                               *)

CheckNoInvoice(t) ==
    /\ session[t].pc = "idle"
    /\ Existing = {}
    /\ session' = [session EXCEPT ![t] = [Idle EXCEPT !.pc = "creating"]]
    /\ UNCHANGED <<pay, inv>>

(* What has been paid so far counts; a paid invoice is issued at once.     *)
CommitInvoice(t, i) ==
    LET paid == AtLeast0(Net(pay))
        new == [FreeInvoice EXCEPT !.paid = paid,
                                   !.status = IF paid >= OrderTotal THEN "paid" ELSE "draft"]
    IN  /\ session[t].pc = "creating"
        /\ i \notin Existing /\ \A j \in Invoices \ Existing : i <= j
        /\ inv' = [inv EXCEPT ![i] = IF new.status = "paid" THEN PostReceivable(new) ELSE new]
        /\ pay' = IF Net(pay) = 0 THEN pay ELSE Post(pay, Unposted(pay))
        /\ session' = [session EXCEPT ![t] = Idle]

LoadToSend(t, i) ==
    /\ session[t].pc = "idle"
    /\ inv[i].status = "draft"
    /\ session' = [session EXCEPT ![t] =
         [Idle EXCEPT !.pc = "sending", !.inv = i,
                      !.seen = [status |-> "draft", paid |-> inv[i].paid,
                                posted |-> inv[i].posted > 0]]]
    /\ UNCHANGED <<pay, inv>>

(* Whatever has become of the invoice meanwhile.                           *)
CommitSend(t) ==
    LET r == session[t]
    IN  /\ r.pc = "sending"
        /\ inv' = [inv EXCEPT ![r.inv].status = "sent",
                              ![r.inv].posted = IF r.seen.posted THEN @ ELSE @ + 1]
        /\ session' = [session EXCEPT ![t] = Idle]
        /\ UNCHANGED pay

(* Mutant of VoidInvoice: the receivable stays in the books.               *)
VoidInvoiceOnly(i) ==
    /\ inv[i].status \notin {"unused", "voided"}
    /\ inv[i].paid = 0
    /\ inv' = [inv EXCEPT ![i].status = "voided"]
    /\ UNCHANGED <<pay, session>>

(* The invoice is read under its row lock.                                 *)
VoidInvoice(i) ==
    /\ inv[i].status \notin {"unused", "voided"}
    /\ inv[i].paid = 0
    /\ inv' = [inv EXCEPT ![i].status = "voided",
                          ![i].reversed = IF inv[i].posted > 0 THEN 1 ELSE 0]
    /\ UNCHANGED <<pay, session>>

-----------------------------------------------------------------------------
(* The database ends a deadlock: a refund holds the order and waits for    *)
(* the numbers, a payment holds the numbers and waits for the order.  One  *)
(* of the two handlers is rolled back.                                     *)
Deadlocked(s) ==
    /\ session[EventLoop].pc = "refunding" /\ session[s].pc = "numbered"

(* Mutant of Deadlock: nobody looks for it.                                *)
DeadlockUnseen(s, victim) == FALSE /\ UNCHANGED vars

Deadlock(s, victim) ==
    /\ Deadlocked(s) /\ victim \in {s, EventLoop}
    /\ session' = [session EXCEPT ![victim] = Idle]
    /\ UNCHANGED <<pay, inv>>

-----------------------------------------------------------------------------

Init ==
    /\ pay = [p \in Payments |-> FreePayment]
    /\ inv = [i \in Invoices |-> FreeInvoice]
    /\ session = [s \in Sessions |-> Idle]

Requests ==
    \/ \E t \in Threads, p \in Payments, a \in InvoiceAmounts, i \in Invoices :
          LoadForInvoice(t, p, a, i)
    \/ \E p \in Payments, a \in Amounts : LoadForOrder(p, a) \/ LockOrder(p, a)
    \/ \E p \in Payments :
         \/ VoidPayment(p)
         \/ \E s \in {"pending", "completed", "voided"} : UpdatePayment(p, s)
    \/ \E t \in Threads : CheckNoInvoice(t) \/ \E i \in Invoices : LoadToSend(t, i)
    \/ \E i \in Invoices : VoidInvoice(i)

(* The rest of a handler that is under way.                                *)
Commit(s) ==
    \/ CommitPayment(s)
    \/ s = EventLoop /\ CommitRefund
    \/ s \in Threads /\ (CommitSend(s) \/ \E i \in Invoices : CommitInvoice(s, i))

Wait(s) ==
    \/ TakeNumber(s)
    \/ InsertPayment(s)
    \/ s = EventLoop /\ NumberRefund

Next ==
    \/ Requests
    \/ \E s \in Sessions : Commit(s) \/ Wait(s)
    \/ \E s \in Threads : \E victim \in Sessions : Deadlock(s, victim)

(* A thread goes on; the locks are granted in the order they are asked     *)
(* for, so a handler that waits again and again gets one; the database     *)
(* looks for deadlocks.                                                    *)
Fairness ==
    /\ \A s \in Sessions : WF_vars(Commit(s)) /\ SF_vars(Wait(s))
    /\ \A s \in Threads : WF_vars(\E victim \in Sessions : Deadlock(s, victim))

Spec == Init /\ [][Next]_vars
FairSpec == Spec /\ Fairness

-----------------------------------------------------------------------------
(* Properties.                                                             *)

(* The cash account follows the payments: a completed payment of any       *)
(* amount but zero is in it once, a voided one was taken out once,         *)
(* whichever handler posted it and however the handlers overlap.  A        *)
(* payment whose status was PATCHed is excepted: completed again it stays  *)
(* reversed, and two handlers may post it.                                 *)
CashMatchesPayments ==
    \A p \in Payments :
        LET booked == pay[p].status # "unused" /\ pay[p].amount # 0
        IN  /\ ~pay[p].patched =>
                 /\ pay[p].posted = IF booked THEN 1 ELSE 0
                 /\ pay[p].reversed = IF booked /\ pay[p].status = "voided" THEN 1 ELSE 0
            /\ pay[p].reversed <= 1

(* Refunds never exceed what was collected, also when payments and refunds *)
(* overlap.  Only a payment voided or changed by hand after the refund     *)
(* makes them exceed it.  What PATCH /invoices records as a payment of a   *)
(* negative amount is no refund, and no guard bounds it.                   *)
Collected(f) ==
    SumFunctionOnSet([p \in Payments |-> f[p].amount],
                     {p \in Completed(f) : f[p].refund \/ f[p].amount > 0})
RefundsWithinCollected ==
    Collected(pay) < 0 => \E p \in Payments : pay[p].status = "voided" \/ pay[p].patched

(* A voided invoice without payments leaves nothing in the books: no send, *)
(* payment or refund that was under way books its receivable after the     *)
(* void, unless it takes the invoice out of the voided status, or two      *)
(* sends have booked it twice.  An amount that is not positive, recorded   *)
(* for a voided draft, books its receivable and leaves it voided: an       *)
(* invoice that had one is excepted.                                       *)
VoidedIsReversed ==
    \A i \in Invoices :
        /\ inv[i].status = "voided" /\ inv[i].paid = 0 /\ inv[i].posted <= 1
        /\ ~inv[i].nonpositive
        => inv[i].reversed = inv[i].posted

(* The event loop is given back: it stands still while a payment handler   *)
(* waits for the database, and a refund takes the two locks in the order   *)
(* opposite to that of a payment recorded by a thread.                     *)
EventLoopFreed == session[EventLoop].pc # "idle" ~> session[EventLoop].pc = "idle"

(* What payments.py and payment_service.py say of a voided payment: it no  *)
(* longer counts, so the invoice drops back off paid.                      *)
VoidedPaymentUncounted ==
    [][\A p \in Payments, i \in Invoices :
         /\ pay[p].status = "completed" /\ pay'[p].status = "voided"
         /\ Existing = {i} /\ inv[i].status # "voided"
         => inv'[i].paid = AtLeast0(Net(pay'))]_vars
=============================================================================
