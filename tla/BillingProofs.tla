---------------------------- MODULE BillingProofs ----------------------------
(***************************************************************************)
(* The cash account follows the payments, refunds stay within what was     *)
(* collected and a voided invoice leaves nothing in the books, for any     *)
(* number of payments, invoices and threads.                               *)
(*                                                                         *)
(* A handler that books receipts left over by others does so from a list   *)
(* it read before.  The argument is that only a payment whose status was   *)
(* PATCHed is ever on such a list, and that the row a handler is about to  *)
(* insert is known to no other: that needs of a session only what it does  *)
(* to payments (CashInv).  On top of it LedgerInv follows what was         *)
(* collected, a sum over the payments, and what a refund will take of it.  *)
(* LocksInv says who may hold which lock, and that the event loop is only  *)
(* kept waiting by handlers that go on.                                    *)
(***************************************************************************)
EXTENDS Billing, FiniteLemmas, TLAPS

(* A row of payments and its journal entries.                              *)
RowOK(r) ==
    /\ r \in Payment
    /\ r.status = "unused" => ~r.patched
    /\ ~r.patched => /\ r.status # "pending"
                     /\ r.posted = IF r.status # "unused" /\ r.amount # 0 THEN 1 ELSE 0
                     /\ r.reversed = IF r.status = "voided" /\ r.amount # 0 THEN 1 ELSE 0
    /\ r.reversed <= 1

RowsOK(f) == f \in [Payments -> Payment] /\ \A p \in Payments : RowOK(f[p])

Paying == {"loaded", "numbered", "inserted", "refunding", "refund_numbered"}

(* What a handler has read, against the rows there are.                    *)
SessionOK(r, f) ==
    /\ {"pc", "pay", "amount", "unposted"} \subseteq DOMAIN r
    /\ r.pay \in Payments \cup {NoPayment}
    /\ r.pc \in Paying => r.pay \in Payments
    /\ r.amount \in Int
    /\ r.unposted \subseteq {p \in Payments : f[p].patched}
    /\ r.pay \in Payments => f[r.pay].status = "unused"

SessionsOK ==
    /\ DOMAIN session = Sessions
    /\ \A s \in Sessions : SessionOK(session[s], pay)

OwnRows ==
    \A s, t \in Sessions :
        session[s].pay \in Payments /\ session[t].pay = session[s].pay => s = t

CashInv == RowsOK(pay) /\ SessionsOK /\ OwnRows

-----------------------------------------------------------------------------

(* Receipts are booked of payments that were PATCHed, at most.             *)
LEMMA UnpostedWerePatched ==
  ASSUME NEW f, RowsOK(f)
  PROVE  Unposted(f) \subseteq {p \in Payments : f[p].patched}
  BY DEF RowsOK, RowOK, Payment, Unposted, Completed

(* One more receipt in the books changes nothing else of a payment.        *)
LEMMA PostedPayment ==
  ASSUME NEW r \in Payment
  PROVE  LET posted == [r EXCEPT !.posted = r.posted + 1]
         IN  /\ posted \in Payment /\ posted.posted = r.posted + 1
             /\ posted.patched = r.patched /\ posted.status = r.status
             /\ posted.reversed = r.reversed
             /\ posted.amount = r.amount /\ posted.refund = r.refund
<1> DEFINE posted == [r EXCEPT !.posted = r.posted + 1]
<1>1. posted \in Payment
  BY DEF Payment
<1>2. posted.patched = r.patched
  BY DEF Payment
<1>3. posted.status = r.status /\ posted.reversed = r.reversed /\ posted.posted = r.posted + 1
      /\ posted.amount = r.amount
  BY DEF Payment
<1>4. posted.refund = r.refund
  BY DEF Payment
<1> QED
  BY <1>1, <1>2, <1>3, <1>4

(* Of a PATCHed payment the receipts are not counted.                      *)
LEMMA PostedRow ==
  ASSUME NEW r \in Payment, RowOK(r), r.patched
  PROVE  LET posted == [r EXCEPT !.posted = r.posted + 1]
         IN  RowOK(posted) /\ posted.patched = r.patched /\ posted.status = r.status
<1> DEFINE posted == [r EXCEPT !.posted = r.posted + 1]
<1>1. /\ posted \in Payment /\ posted.patched = r.patched /\ posted.status = r.status
      /\ posted.reversed = r.reversed
  BY PostedPayment
<1> HIDE DEF posted
<1>2. RowOK(posted)
  BY <1>1 DEF RowOK
<1> QED
  BY <1>1, <1>2 DEF posted

(* Booking receipts of PATCHed payments keeps the rows in order.           *)
LEMMA PostKeepsRows ==
  ASSUME NEW f, RowsOK(f), NEW S, S \subseteq {p \in Payments : f[p].patched}
  PROVE  /\ RowsOK(Post(f, S))
         /\ \A p \in Payments : /\ Post(f, S)[p].patched = f[p].patched
                                /\ Post(f, S)[p].status = f[p].status
<1>1. \A p \in Payments : RowOK(f[p]) /\ f[p] \in Payment
  BY DEF RowsOK
<1>2. \A p \in Payments :
        Post(f, S)[p] = IF p \in S /\ f[p].amount # 0 THEN [f[p] EXCEPT !.posted = f[p].posted + 1]
                        ELSE f[p]
  BY DEF Post
<1>3. ASSUME NEW p \in S, f[p].amount # 0
      PROVE  /\ RowOK(Post(f, S)[p])
             /\ Post(f, S)[p].patched = f[p].patched
             /\ Post(f, S)[p].status = f[p].status
  <2>1. Post(f, S)[p] = [f[p] EXCEPT !.posted = f[p].posted + 1]
    BY <1>2, <1>3
  <2>2. RowOK(f[p]) /\ f[p] \in Payment /\ f[p].patched
    BY <1>1
  <2> QED
    BY <2>1, <2>2, PostedRow
<1>4. \A p \in Payments : /\ RowOK(Post(f, S)[p])
                          /\ Post(f, S)[p].patched = f[p].patched
                          /\ Post(f, S)[p].status = f[p].status
  BY <1>1, <1>2, <1>3
<1>5. Post(f, S) \in [Payments -> Payment]
  BY <1>4 DEF Post, RowOK
<1> QED
  BY <1>4, <1>5 DEF RowsOK

(* There are no payments at the start.                                     *)
LEMMA CashInvInit == ASSUME Init PROVE CashInv
<1>1. RowsOK(pay)
  BY DEF Init, RowsOK, RowOK, FreePayment, Payment, PayStatuses
<1>2. session = [s \in Sessions |-> Idle]
  BY DEF Init
<1>3. SessionOK(Idle, pay) /\ Idle.pay = NoPayment
  BY BillingAssumption DEF SessionOK, Idle, Paying
<1> QED
  BY <1>1, <1>2, <1>3, BillingAssumption DEF CashInv, SessionsOK, OwnRows

(* A step of one handler that leaves the rows alone and takes no row that  *)
(* is used or taken.                                                       *)
LEMMA SessionStep ==
  ASSUME CashInv, NEW s \in Sessions, pay' = pay,
         DOMAIN session' = Sessions,
         \A t \in Sessions \ {s} : session'[t] = session[t],
         SessionOK(session'[s], pay),
         \/ session'[s].pay = session[s].pay
         \/ session'[s].pay = NoPayment
         \/ \A t \in Sessions : session[t].pay # session'[s].pay
  PROVE  CashInv'
<1>1. RowsOK(pay)'
  BY DEF CashInv, RowsOK, RowOK
<1>2. \A t \in Sessions : SessionOK(session'[t], pay)
  BY DEF CashInv, SessionsOK
<1>3. SessionsOK'
  BY <1>2 DEF SessionsOK, SessionOK
<1>4. OwnRows'
  BY BillingAssumption DEF CashInv, OwnRows
<1> QED
  BY <1>1, <1>3, <1>4 DEF CashInv

(* A record that replaces the session of a handler.                        *)
LEMMA SessionReplaced ==
  ASSUME CashInv, NEW s \in Sessions, NEW r, pay' = pay,
         session' = [session EXCEPT ![s] = r],
         SessionOK(r, pay),
         \/ r.pay = session[s].pay
         \/ r.pay = NoPayment
         \/ \A t \in Sessions : session[t].pay # r.pay
  PROVE  CashInv'
<1>1. session'[s] = r /\ DOMAIN session' = Sessions
      /\ \A t \in Sessions \ {s} : session'[t] = session[t]
  BY DEF CashInv, SessionsOK
<1> QED
  BY <1>1, SessionStep

(* A commit that changes rows: it makes none of another handler used, and  *)
(* forgets none that was PATCHed.                                          *)
LEMMA RowsStep ==
  ASSUME CashInv, RowsOK(pay'),
         \A p \in Payments : pay[p].patched => pay'[p].patched,
         \/ /\ session' = session
            /\ \A p \in Payments : pay[p].status = "unused" => pay'[p].status = "unused"
         \/ \E s \in Sessions :
              /\ session' = [session EXCEPT ![s] = Idle]
              /\ \A p \in Payments : pay[p].status = "unused" /\ p # session[s].pay
                                     => pay'[p].status = "unused"
  PROVE  CashInv'
<1>1. RowsOK(pay)'
  BY DEF RowsOK, RowOK
<1>2. \A s \in Sessions : SessionOK(session[s], pay)
  BY DEF CashInv, SessionsOK
<1>3. /\ Idle.pay = NoPayment /\ Idle.unposted = {}
      /\ SessionOK(Idle, pay')
  BY BillingAssumption DEF SessionOK, Idle, Paying
<1>4. CASE session' = session /\ \A p \in Payments : pay[p].status = "unused" => pay'[p].status = "unused"
  <2>1. \A t \in Sessions : SessionOK(session[t], pay')
    BY <1>2, <1>4 DEF SessionOK
  <2> QED
    BY <1>1, <1>4, <2>1 DEF CashInv, SessionsOK, SessionOK, OwnRows
<1>5. ASSUME NEW s \in Sessions, session' = [session EXCEPT ![s] = Idle],
             \A p \in Payments : pay[p].status = "unused" /\ p # session[s].pay
                                 => pay'[p].status = "unused"
      PROVE  CashInv'
  <2>1. /\ DOMAIN session' = Sessions /\ session'[s] = Idle
        /\ \A t \in Sessions \ {s} : session'[t] = session[t]
    BY <1>5 DEF CashInv, SessionsOK
  <2>2. \A t \in Sessions \ {s} : session[t].pay \in Payments => session[t].pay # session[s].pay
    BY DEF CashInv, OwnRows
  <2>3. \A t \in Sessions \ {s} : SessionOK(session[t], pay')
    BY <1>2, <1>5, <2>2 DEF SessionOK
  <2>4. SessionsOK'
    BY <1>3, <2>1, <2>3 DEF SessionsOK, SessionOK
  <2>5. OwnRows'
    BY <1>3, <2>1, BillingAssumption DEF CashInv, OwnRows
  <2> QED
    BY <1>1, <2>4, <2>5 DEF CashInv
<1> QED
  BY <1>4, <1>5

-----------------------------------------------------------------------------

(* A handler that begins takes a number nobody has.                        *)
LEMMA LoadKeeps ==
  ASSUME CashInv, NEW s \in Sessions, NEW p \in Payments, NEW a \in Int, NEW i, Load(s, p, a, i)
  PROVE  CashInv'
<1>1. PICK seen :
        session' = [session EXCEPT ![s] =
          [Idle EXCEPT !.pc = "loaded", !.pay = p, !.amount = a, !.inv = i, !.seen = seen]]
  BY DEF Load
<1> DEFINE r == [Idle EXCEPT !.pc = "loaded", !.pay = p, !.amount = a, !.inv = i, !.seen = seen]
<1>2. pay[p].status = "unused" /\ (\A t \in Sessions : session[t].pay # p) /\ pay' = pay
  BY DEF Load, NextPayment, FreshPayments
<1>3. r.pay = p /\ SessionOK(r, pay)
  BY <1>2 DEF Idle, SessionOK, Paying
<1> HIDE DEF r
<1> QED
  BY <1>1, <1>2, <1>3, SessionReplaced DEF r

(* So does a refund.                                                       *)
LEMMA LockKeeps ==
  ASSUME CashInv, NEW p \in Payments, NEW a \in Int, LockOrder(p, a)
  PROVE  CashInv'
<1> DEFINE r == [Idle EXCEPT !.pc = "refunding", !.pay = p, !.amount = -a]
<1>1. /\ session' = [session EXCEPT ![EventLoop] = r]
      /\ pay[p].status = "unused" /\ (\A t \in Sessions : session[t].pay # p) /\ pay' = pay
  BY DEF LockOrder, NextPayment, FreshPayments
<1>2. r.pay = p /\ SessionOK(r, pay)
  BY <1>1 DEF Idle, SessionOK, Paying
<1> HIDE DEF r
<1>3. EventLoop \in Sessions
  BY DEF Sessions
<1> QED
  BY <1>1, <1>2, <1>3, SessionReplaced

(* A lock that is granted.                                                 *)
LEMMA WaitKeeps ==
  ASSUME CashInv, NEW s \in Sessions, Wait(s)
  PROVE  CashInv'
<1>1. SessionOK(session[s], pay)
  BY DEF CashInv, SessionsOK
<1>2. CASE TakeNumber(s) \/ (s = EventLoop /\ NumberRefund)
  <2>1. PICK c \in {"numbered", "refund_numbered"} :
          /\ session' = [session EXCEPT ![s].pc = c]
          /\ session[s].pc \in Paying /\ pay' = pay
    BY <1>2 DEF TakeNumber, NumberRefund, Paying
  <2> DEFINE r == [session[s] EXCEPT !.pc = c]
  <2>2. session' = [session EXCEPT ![s] = r]
    BY <2>1
  <2>3. SessionOK(r, pay) /\ r.pay = session[s].pay
    BY <1>1, <2>1 DEF SessionOK, Paying
  <2> HIDE DEF r
  <2> QED
    BY <2>1, <2>2, <2>3, SessionReplaced
<1>3. CASE InsertPayment(s)
  <2> DEFINE r == [[session[s] EXCEPT !.pc = "inserted"] EXCEPT !.unposted = Unposted(pay)]
  <2>1. session' = [session EXCEPT ![s] = r] /\ session[s].pc \in Paying /\ pay' = pay
    BY <1>3 DEF InsertPayment, Paying, CashInv, SessionsOK
  <2>2. Unposted(pay) \subseteq {p \in Payments : pay[p].patched}
    BY UnpostedWerePatched DEF CashInv
  <2>3. SessionOK(r, pay) /\ r.pay = session[s].pay
    BY <1>1, <2>1, <2>2 DEF SessionOK, Paying
  <2> HIDE DEF r
  <2> QED
    BY <2>1, <2>3, SessionReplaced
<1> QED
  BY <1>2, <1>3 DEF Wait

(* The invoice handlers that touch no payment, and the database's end to a *)
(* deadlock.                                                               *)
LEMMA InvoiceKeeps ==
  ASSUME CashInv,
         \/ \E t \in Threads : \/ CheckNoInvoice(t) \/ CommitSend(t)
                               \/ \E i \in Invoices : LoadToSend(t, i)
         \/ \E i \in Invoices : VoidInvoice(i)
         \/ \E s \in Threads, victim \in Sessions : Deadlock(s, victim)
  PROVE  CashInv'
<1>1. ASSUME NEW s \in Sessions, NEW r, pay' = pay, session' = [session EXCEPT ![s] = r],
             r.pay = NoPayment, SessionOK(r, pay)
      PROVE  CashInv'
  BY <1>1, SessionReplaced
<1>2. Idle.pay = NoPayment /\ SessionOK(Idle, pay)
  BY BillingAssumption DEF Idle, SessionOK, Paying
<1>3. ASSUME NEW t \in Threads, CheckNoInvoice(t) PROVE CashInv'
  <2> DEFINE r == [Idle EXCEPT !.pc = "creating"]
  <2>1. r.pay = NoPayment /\ SessionOK(r, pay)
    BY BillingAssumption DEF Idle, SessionOK, Paying
  <2>2. pay' = pay /\ session' = [session EXCEPT ![t] = r] /\ t \in Sessions
    BY <1>3 DEF CheckNoInvoice, Sessions
  <2> HIDE DEF r
  <2> QED
    BY <1>1, <2>1, <2>2
<1>4. ASSUME NEW t \in Threads, NEW i \in Invoices, LoadToSend(t, i) PROVE CashInv'
  <2>1. PICK seen : session' = [session EXCEPT ![t] =
                      [Idle EXCEPT !.pc = "sending", !.inv = i, !.seen = seen]]
    BY <1>4 DEF LoadToSend
  <2> DEFINE r == [Idle EXCEPT !.pc = "sending", !.inv = i, !.seen = seen]
  <2>2. r.pay = NoPayment /\ SessionOK(r, pay)
    BY BillingAssumption DEF Idle, SessionOK, Paying
  <2>3. pay' = pay /\ session' = [session EXCEPT ![t] = r] /\ t \in Sessions
    BY <1>4, <2>1 DEF LoadToSend, Sessions
  <2> HIDE DEF r
  <2> QED
    BY <1>1, <2>2, <2>3
<1>5. ASSUME NEW t \in Threads, CommitSend(t) PROVE CashInv'
  <2>1. pay' = pay /\ session' = [session EXCEPT ![t] = Idle] /\ t \in Sessions
    BY <1>5 DEF CommitSend, Sessions
  <2> QED
    BY <1>1, <1>2, <2>1
<1>6. ASSUME NEW s \in Threads, NEW victim \in Sessions, Deadlock(s, victim) PROVE CashInv'
  BY <1>1, <1>2, <1>6 DEF Deadlock
<1>7. ASSUME NEW i \in Invoices, VoidInvoice(i) PROVE CashInv'
  <2>1. pay' = pay /\ session' = session
    BY <1>7 DEF VoidInvoice
  <2> QED
    BY <2>1, RowsStep DEF CashInv
<1> QED
  BY <1>3, <1>4, <1>5, <1>6, <1>7

-----------------------------------------------------------------------------
(* The steps that write payments.                                          *)

(* The row of a payment or a refund.                                       *)
Inserted(amount, refund) ==
    IF refund THEN [FreePayment EXCEPT !.status = "completed", !.amount = amount, !.refund = TRUE]
    ELSE [FreePayment EXCEPT !.status = "completed", !.amount = amount]

(* A row that a handler inserts, completed and not yet in the books.       *)
LEMMA InsertedRow ==
  ASSUME CashInv, NEW s \in Sessions, session[s].pc \in Paying,
         NEW refund \in BOOLEAN, NEW row, row = Inserted(session[s].amount, refund)
  PROVE  /\ session[s].pay \in Payments /\ pay[session[s].pay].status = "unused"
         /\ ~pay[session[s].pay].patched
         /\ row \in Payment /\ ~row.patched /\ row.status = "completed"
         /\ row.posted = 0 /\ row.reversed = 0
         /\ row.amount = session[s].amount /\ row.refund = refund
<1>1. SessionOK(session[s], pay)
  BY DEF CashInv, SessionsOK
<1>2. session[s].pay \in Payments /\ pay[session[s].pay].status = "unused" /\ session[s].amount \in Int
  BY <1>1 DEF SessionOK
<1>3. ~pay[session[s].pay].patched
  BY <1>2 DEF CashInv, RowsOK, RowOK
<1>4. /\ row.status = "completed" /\ row.posted = 0 /\ row.reversed = 0
      /\ row.amount = session[s].amount
  BY DEF Inserted, FreePayment
<1>5. ~row.patched /\ row.refund = refund
  BY DEF Inserted, FreePayment
<1>6. row \in Payment
  BY <1>2 DEF Inserted, FreePayment, Payment, PayStatuses
<1> QED
  BY <1>2, <1>3, <1>4, <1>5, <1>6

(* What a handler inserts it posts, with a list of others.                 *)
LEMMA InsertKeeps ==
  ASSUME CashInv, NEW s \in Sessions, session[s].pc \in Paying,
         NEW refund \in BOOLEAN, NEW row, row = Inserted(session[s].amount, refund),
         NEW S, S \subseteq {p \in Payments : pay[p].patched},
         pay' = Post([pay EXCEPT ![session[s].pay] = row], S \cup {session[s].pay}),
         session' = [session EXCEPT ![s] = Idle]
  PROVE  CashInv'
<1> DEFINE mine == session[s].pay
           posted == IF row.amount # 0 THEN [row EXCEPT !.posted = row.posted + 1] ELSE row
           rows == [pay EXCEPT ![mine] = posted]
<1>1. /\ mine \in Payments /\ pay[mine].status = "unused" /\ ~pay[mine].patched
      /\ row \in Payment /\ ~row.patched /\ row.status = "completed"
      /\ row.posted = 0 /\ row.reversed = 0
  BY InsertedRow
<1>2. posted \in Payment /\ ~posted.patched
  BY <1>1, PostedPayment
<1>3. /\ posted.status = "completed" /\ posted.reversed = 0 /\ posted.amount = row.amount
      /\ posted.posted = IF posted.amount # 0 THEN 1 ELSE 0
  BY <1>1, PostedPayment
<1> HIDE DEF posted
<1>5. RowOK(posted)
  BY <1>2, <1>3 DEF RowOK
<1>6. RowsOK(pay) /\ pay \in [Payments -> Payment]
  BY DEF CashInv, RowsOK
<1>7. RowsOK(rows) /\ \A p \in Payments \ {mine} : rows[p] = pay[p]
  BY <1>1, <1>2, <1>5, <1>6 DEF RowsOK
<1>8. S \subseteq {p \in Payments : rows[p].patched} /\ mine \notin S
  BY <1>1, <1>7
<1>9. pay' = Post(rows, S)
  <2>1. \A p \in Payments : pay'[p] = Post(rows, S)[p]
    <3> SUFFICES ASSUME NEW p \in Payments PROVE pay'[p] = Post(rows, S)[p]
      OBVIOUS
    <3>1. CASE p = mine
      BY <1>1, <1>6, <1>8, <3>1 DEF Post, posted
    <3>2. CASE p # mine
      BY <1>6, <1>7, <3>2 DEF Post
    <3> QED
      BY <3>1, <3>2
  <2> QED
    BY <2>1 DEF Post
<1> HIDE DEF rows
<1>10. RowsOK(pay') /\ \A p \in Payments : /\ pay'[p].patched = rows[p].patched
                                           /\ pay'[p].status = rows[p].status
  <2>1. /\ RowsOK(Post(rows, S))
        /\ \A p \in Payments : /\ Post(rows, S)[p].patched = rows[p].patched
                               /\ Post(rows, S)[p].status = rows[p].status
    BY <1>7, <1>8, PostKeepsRows, Zenon
  <2> QED
    BY <1>9, <2>1, Zenon
<1>11. \A p \in Payments : pay[p].patched => pay'[p].patched
  BY <1>1, <1>7, <1>10
<1>12. \A p \in Payments : pay[p].status = "unused" /\ p # mine => pay'[p].status = "unused"
  BY <1>7, <1>10
<1> QED
  BY <1>10, <1>11, <1>12, RowsStep

(* Payments and refunds insert their own row, and post it once.            *)
LEMMA CommitKeeps ==
  ASSUME CashInv, NEW s \in Sessions, CommitPayment(s) \/ (s = EventLoop /\ CommitRefund)
  PROVE  CashInv'
<1> DEFINE mine == session[s].pay
           row == Inserted(session[s].amount, FALSE)
           back == Inserted(session[s].amount, TRUE)
<1>1. CASE CommitPayment(s)
  <2>1. session[s].pc \in Paying /\ session[s].unposted \subseteq {p \in Payments : pay[p].patched}
    BY <1>1 DEF CommitPayment, Paying, CashInv, SessionsOK, SessionOK
  <2>2. /\ pay' = Post([pay EXCEPT ![mine] = row], session[s].unposted \cup {mine})
        /\ session' = [session EXCEPT ![s] = Idle]
    BY <1>1, Zenon DEF CommitPayment, Inserted
  <2> QED
    BY <2>1, <2>2, InsertKeeps
<1>2. CASE s = EventLoop /\ CommitRefund
  <2> DEFINE rows == [pay EXCEPT ![mine] = back]
             S == Unposted(pay)
  <2>1. session[s].pc \in Paying
    BY <1>2 DEF CommitRefund, Paying
  <2>2. pay' = Post(rows, Unposted(rows)) /\ session' = [session EXCEPT ![s] = Idle]
    BY <1>2, Zenon DEF CommitRefund, Inserted
  <2>3. S \subseteq {p \in Payments : pay[p].patched}
    BY UnpostedWerePatched DEF CashInv
  <2>4. mine \in Payments /\ pay[mine].status = "unused" /\ back.status = "completed" /\ back.posted = 0
    BY <2>1, InsertedRow
  <2>5. \A p \in Payments : rows[p].amount # 0 => (p \in Unposted(rows) <=> p \in S \cup {mine})
    <3>1. pay \in [Payments -> Payment]
      BY DEF CashInv, RowsOK
    <3> HIDE DEF back
    <3> QED
      BY <2>4, <3>1 DEF Unposted, Completed
  <2> HIDE DEF S
  <2>6. pay' = Post(rows, S \cup {mine})
    <3> HIDE DEF rows
    <3> QED
      BY <2>2, <2>5 DEF Post
  <2> QED
    BY <2>1, <2>2, <2>3, <2>6, InsertKeeps
<1> QED
  BY <1>1, <1>2

(* The reversal of a receipt books one entry, unless there is one.         *)
LEMMA ReversedRow ==
  ASSUME NEW r \in Payment, RowOK(r), r.status = "completed",
         NEW s \in {"pending", "voided"}, NEW patched \in BOOLEAN, s = "pending" => patched
  PROVE  LET row == [ReverseReceipt(r) EXCEPT !.status = s, !.patched = @ \/ patched]
         IN  RowOK(row) /\ (r.patched => row.patched) /\ row.status # "unused"
<1> DEFINE v == ReverseReceipt(r)
           row == [v EXCEPT !.status = s, !.patched = @ \/ patched]
<1>1. v = r \/ v = [r EXCEPT !.reversed = 1]
  BY DEF ReverseReceipt
<1>2. /\ v \in Payment /\ v.posted = r.posted
      /\ v.reversed = IF r.posted > 0 /\ r.reversed = 0 THEN 1 ELSE r.reversed
      /\ v.amount = r.amount
  BY DEF ReverseReceipt, Payment
<1>3. v.patched = r.patched
  BY <1>1 DEF Payment
<1>4. ~r.patched => r.posted = (IF r.amount # 0 THEN 1 ELSE 0) /\ r.reversed = 0
  BY DEF RowOK
<1>5. r.reversed <= 1
  BY DEF RowOK
<1> HIDE DEF v
<1>6. /\ row \in Payment /\ row.posted = v.posted /\ row.reversed = v.reversed /\ row.status = s
      /\ row.amount = v.amount
  BY <1>2 DEF Payment, PayStatuses
<1>7. row.patched <=> (v.patched \/ patched)
  BY <1>2 DEF Payment
<1> HIDE DEF row
<1>8. RowOK(row)
  BY <1>2, <1>3, <1>4, <1>5, <1>6, <1>7 DEF RowOK, Payment
<1> QED
  BY <1>3, <1>6, <1>7, <1>8 DEF row, v

(* A status that is written over another, without a reversal.              *)
LEMMA RewrittenRow ==
  ASSUME NEW r \in Payment, RowOK(r), r.status \notin {"unused", "completed"},
         NEW s \in {"pending", "completed", "voided"}, NEW patched \in BOOLEAN,
         patched \/ (s = "voided" /\ r.status = "pending")
  PROVE  LET row == [r EXCEPT !.status = s, !.patched = @ \/ patched]
         IN  RowOK(row) /\ (r.patched => row.patched) /\ row.status # "unused"
<1> DEFINE row == [r EXCEPT !.status = s, !.patched = @ \/ patched]
<1>1. row \in Payment /\ row.reversed = r.reversed /\ row.status = s
  BY DEF Payment, PayStatuses
<1>2. row.patched <=> (r.patched \/ patched)
  BY DEF Payment
<1>3. r.patched \/ patched
  BY DEF RowOK
<1>4. r.reversed <= 1
  BY DEF RowOK
<1> HIDE DEF row
<1>5. RowOK(row)
  BY <1>1, <1>2, <1>3, <1>4 DEF RowOK
<1> QED
  BY <1>1, <1>2, <1>5 DEF row

(* A voided receipt is reversed; what is PATCHed is remembered.            *)
LEMMA StatusKeeps ==
  ASSUME CashInv, NEW p \in Payments,
         VoidPayment(p) \/ \E s \in {"pending", "completed", "voided"} : UpdatePayment(p, s)
  PROVE  CashInv'
<1>1. PICK s \in {"pending", "completed", "voided"}, patched \in BOOLEAN :
        /\ pay[p].status \notin {"unused", s}
        /\ patched \/ s = "voided"
        /\ SetPaymentStatus(p, s, patched)
  BY DEF VoidPayment, UpdatePayment
<1> DEFINE left == pay[p].status = "completed" /\ s # "completed"
           row == [IF left THEN ReverseReceipt(pay[p]) ELSE pay[p]
                     EXCEPT !.status = s, !.patched = @ \/ patched]
           rows == [pay EXCEPT ![p] = row]
           others == Unposted(pay) \ {p}
<1>2. pay' = Post(rows, others) /\ session' = session
  BY <1>1, Zenon DEF SetPaymentStatus
<1>3. pay \in [Payments -> Payment] /\ RowsOK(pay) /\ RowOK(pay[p]) /\ pay[p] \in Payment
  BY DEF CashInv, RowsOK
<1>4. RowOK(row) /\ (pay[p].patched => row.patched) /\ row.status # "unused"
  <2>1. CASE pay[p].status = "completed"
    <3>1. s \in {"pending", "voided"} /\ (s = "pending" => patched) /\ left
      BY <1>1, <2>1
    <3>2. row = [ReverseReceipt(pay[p]) EXCEPT !.status = s, !.patched = @ \/ patched]
      BY <3>1, Zenon
    <3> HIDE DEF row
    <3> QED
      BY <1>1, <1>3, <2>1, <3>1, <3>2, ReversedRow
  <2>2. CASE pay[p].status # "completed"
    <3>1. /\ pay[p].status \notin {"unused", "completed"}
          /\ patched \/ (s = "voided" /\ pay[p].status = "pending")
      BY <1>1, <1>3, <2>2 DEF Payment, PayStatuses
    <3>2. row = [pay[p] EXCEPT !.status = s, !.patched = @ \/ patched]
      BY <2>2, Zenon
    <3> HIDE DEF row
    <3> QED
      BY <1>1, <1>3, <3>1, <3>2, RewrittenRow
  <2> QED
    BY <2>1, <2>2
<1>5. others \subseteq {q \in Payments : pay[q].patched} /\ p \notin others
  BY <1>3, UnpostedWerePatched
<1> HIDE DEF row, others
<1>6. /\ rows[p] = row /\ \A q \in Payments \ {p} : rows[q] = pay[q]
      /\ row \in Payment /\ rows \in [Payments -> Payment]
  BY <1>3, <1>4 DEF RowOK
<1> HIDE DEF rows
<1>7. RowsOK(rows)
  BY <1>3, <1>4, <1>6 DEF RowsOK
<1>8. others \subseteq {q \in Payments : rows[q].patched}
  BY <1>5, <1>6
<1>9. /\ RowsOK(pay')
      /\ \A q \in Payments : pay'[q].patched = rows[q].patched /\ pay'[q].status = rows[q].status
  <2>1. /\ RowsOK(Post(rows, others))
        /\ \A q \in Payments : /\ Post(rows, others)[q].patched = rows[q].patched
                               /\ Post(rows, others)[q].status = rows[q].status
    BY <1>7, <1>8, PostKeepsRows, Zenon
  <2> QED
    BY <1>2, <2>1, Zenon
<1>10. \A q \in Payments : /\ pay[q].patched => pay'[q].patched
                           /\ pay[q].status = "unused" => pay'[q].status = "unused"
  <2>1. \A q \in Payments : /\ pay[q].patched => rows[q].patched
                            /\ pay[q].status = "unused" => rows[q].status = "unused"
    BY <1>1, <1>4, <1>6
  <2> QED
    BY <1>9, <2>1
<1> QED
  BY <1>2, <1>9, <1>10, RowsStep

(* A new invoice books the receipts that were left over.                   *)
LEMMA CreateInvoiceKeeps ==
  ASSUME CashInv, NEW t \in Threads, NEW i, CommitInvoice(t, i)
  PROVE  CashInv'
<1>1. (pay' = pay \/ pay' = Post(pay, Unposted(pay))) /\ session' = [session EXCEPT ![t] = Idle]
  BY DEF CommitInvoice
<1>2. RowsOK(pay) /\ t \in Sessions
  BY DEF CashInv, Sessions
<1>3. RowsOK(pay') /\ \A p \in Payments : /\ pay'[p].patched = pay[p].patched
                                          /\ pay'[p].status = pay[p].status
  <2>1. /\ RowsOK(Post(pay, Unposted(pay)))
        /\ \A p \in Payments : /\ Post(pay, Unposted(pay))[p].patched = pay[p].patched
                               /\ Post(pay, Unposted(pay))[p].status = pay[p].status
    BY <1>2, UnpostedWerePatched, PostKeepsRows, Zenon
  <2> QED
    BY <1>1, <1>2, <2>1, Zenon
<1> QED
  BY <1>1, <1>2, <1>3, RowsStep

(* Every step keeps the rows and the sessions in order.                    *)
LEMMA CashInvNext == ASSUME CashInv, [Next]_vars PROVE CashInv'
<1>1. (\A a \in Amounts : a \in Int) /\ (\A a \in InvoiceAmounts : a \in Int)
  BY BillingAssumption DEF Amounts, InvoiceAmounts
<1>2. CASE Requests
  <2>1. ASSUME NEW p \in Payments, NEW a \in InvoiceAmounts, NEW t \in Threads, NEW i \in Invoices,
               LoadForInvoice(t, p, a, i)
        PROVE  CashInv'
    <3>1. Load(t, p, a, i) /\ t \in Sessions
      BY <2>1 DEF LoadForInvoice, Sessions
    <3> QED
      BY <1>1, <3>1, LoadKeeps
  <2>2. ASSUME NEW p \in Payments, NEW a \in Amounts, LoadForOrder(p, a)
        PROVE  CashInv'
    <3>1. EventLoop \in Sessions /\ \E i : Load(EventLoop, p, a, i)
      BY <2>2 DEF LoadForOrder, Sessions
    <3> QED
      BY <1>1, <3>1, LoadKeeps
  <2>3. ASSUME NEW p \in Payments, NEW a \in Amounts, LockOrder(p, a)
        PROVE  CashInv'
    BY <1>1, <2>3, LockKeeps
  <2>4. CASE \E p \in Payments : \/ VoidPayment(p)
                                 \/ \E s \in {"pending", "completed", "voided"} : UpdatePayment(p, s)
    BY <2>4, StatusKeeps
  <2>5. CASE \/ \E t \in Threads : CheckNoInvoice(t) \/ \E i \in Invoices : LoadToSend(t, i)
             \/ \E i \in Invoices : VoidInvoice(i)
    BY <2>5, InvoiceKeeps
  <2> QED
    BY <1>2, <2>1, <2>2, <2>3, <2>4, <2>5 DEF Requests
<1>3. ASSUME NEW s \in Sessions, Commit(s) PROVE CashInv'
  <2>1. CASE CommitPayment(s) \/ (s = EventLoop /\ CommitRefund)
    BY <2>1, CommitKeeps
  <2>2. CASE s \in Threads /\ CommitSend(s)
    BY <2>2, InvoiceKeeps
  <2>3. CASE s \in Threads /\ \E i \in Invoices : CommitInvoice(s, i)
    BY <2>3, CreateInvoiceKeeps
  <2> QED
    BY <1>3, <2>1, <2>2, <2>3 DEF Commit
<1>4. CASE \E s \in Sessions : Wait(s)
  BY <1>4, WaitKeeps
<1>5. CASE \E s \in Threads : \E victim \in Sessions : Deadlock(s, victim)
  BY <1>5, InvoiceKeeps
<1>6. CASE UNCHANGED vars
  <2>1. pay' = pay /\ session' = session
    BY <1>6 DEF vars
  <2> QED
    BY <2>1, RowsStep DEF CashInv
<1> QED
  BY <1>2, <1>3, <1>4, <1>5, <1>6 DEF Next

(* A completed payment is in the cash account once and a voided one was    *)
(* taken out once, whichever handler of payments.py or invoices.py posted  *)
(* it and however the handlers overlap (payment_service.py).               *)
THEOREM CashFollowsPayments == Spec => []CashMatchesPayments
<1>1. Init => CashInv
  BY CashInvInit
<1>2. CashInv /\ [Next]_vars => CashInv'
  BY CashInvNext
<1>3. CashInv => CashMatchesPayments
  BY DEF CashInv, RowsOK, RowOK, CashMatchesPayments
<1> QED
  BY <1>1, <1>2, <1>3, PTL DEF Spec

-----------------------------------------------------------------------------
(* What was collected.  The net is a sum over the completed payments; it   *)
(* is also the sum over all payments of what each counts.                  *)

Counts(f) == [p \in Payments |-> IF f[p].status = "completed" THEN f[p].amount ELSE 0]

(* The net of the payments is a sum over them.                             *)
LEMMA NetIsSum ==
  ASSUME NEW f \in [Payments -> Payment]
  PROVE  Net(f) = SumFunctionOnSet(Counts(f), Payments) /\ Net(f) \in Int
<1> DEFINE amount == [p \in Payments |-> f[p].amount]
<1>1. IsFiniteSet(Payments) /\ Completed(f) \in SUBSET Payments /\ IsFiniteSet(Completed(f))
  BY BillingAssumption, FS_Subset DEF Completed
<1>2. \A p \in Payments : Counts(f)[p] \in Int /\ amount[p] \in Int
  BY DEF Counts, Payment
<1>3. /\ \A p \in Payments \ Completed(f) : Counts(f)[p] = 0
      /\ \A p \in Completed(f) : Counts(f)[p] = amount[p]
  BY DEF Counts, Completed
<1> HIDE DEF amount
<1>4. SumFunctionOnSet(Counts(f), Payments) = SumFunctionOnSet(Counts(f), Completed(f))
  BY <1>1, <1>2, <1>3, SumRestrict
<1>5. SumFunctionOnSet(Counts(f), Completed(f)) = SumFunctionOnSet(amount, Completed(f))
  BY <1>1, <1>3, SumSame
<1>6. SumFunctionOnSet(Counts(f), Payments) \in Int
  BY <1>1, <1>2, SumType
<1> QED
  BY <1>4, <1>5, <1>6 DEF Net, amount

(* What was collected is a sum over them as well, of what each gathers.    *)
Gathered(f) ==
    [p \in Payments |->
        IF f[p].status = "completed" /\ (f[p].refund \/ f[p].amount > 0) THEN f[p].amount ELSE 0]

LEMMA CollectedIsSum ==
  ASSUME NEW f \in [Payments -> Payment]
  PROVE  Collected(f) = SumFunctionOnSet(Gathered(f), Payments) /\ Collected(f) \in Int
<1> DEFINE amount == [p \in Payments |-> f[p].amount]
           S == {p \in Completed(f) : f[p].refund \/ f[p].amount > 0}
<1>1. IsFiniteSet(Payments) /\ S \in SUBSET Payments /\ IsFiniteSet(S)
  BY BillingAssumption, FS_Subset DEF Completed
<1>2. \A p \in Payments : Gathered(f)[p] \in Int /\ amount[p] \in Int
  BY DEF Gathered, Payment
<1>3. /\ \A p \in Payments \ S : Gathered(f)[p] = 0
      /\ \A p \in S : Gathered(f)[p] = amount[p]
  BY Zenon DEF Gathered, Completed
<1> HIDE DEF amount, S
<1>4. SumFunctionOnSet(Gathered(f), Payments) = SumFunctionOnSet(Gathered(f), S)
  BY <1>1, <1>2, <1>3, SumRestrict
<1>5. SumFunctionOnSet(Gathered(f), S) = SumFunctionOnSet(amount, S)
  BY <1>1, <1>3, SumSame
<1>6. SumFunctionOnSet(Gathered(f), Payments) \in Int
  BY <1>1, <1>2, SumType
<1> QED
  BY <1>4, <1>5, <1>6 DEF Collected, amount, S

(* The net, which negative payments lower too, is never more than that.    *)
LEMMA NetBelowCollected ==
  ASSUME NEW f \in [Payments -> Payment]
  PROVE  Net(f) <= Collected(f)
<1> DEFINE C == Counts(f)
           G == Gathered(f)
<1>1. \A p \in Payments : C[p] \in Int /\ G[p] \in Int /\ C[p] <= G[p]
  BY DEF Counts, Gathered, Payment
<1>2. IsFiniteSet(Payments) /\ Net(f) = SumFunctionOnSet(C, Payments)
      /\ Collected(f) = SumFunctionOnSet(G, Payments)
  BY BillingAssumption, NetIsSum, CollectedIsSum
<1> HIDE DEF C, G
<1> QED
  BY <1>1, <1>2, SumMonotone

(* Journal entries do not count.                                           *)
LEMMA CollectedSame ==
  ASSUME NEW f \in [Payments -> Payment], NEW g \in [Payments -> Payment],
         \A p \in Payments : /\ g[p].status = f[p].status /\ g[p].amount = f[p].amount
                             /\ g[p].refund = f[p].refund
  PROVE  Collected(g) = Collected(f)
<1>1. \A p \in Payments : Gathered(f)[p] = Gathered(g)[p]
  BY Zenon DEF Gathered
<1>2. Gathered(f) = Gathered(g)
  BY <1>1 DEF Gathered
<1> QED
  BY <1>2, CollectedIsSum

(* A payment that is inserted adds what it gathers.                        *)
LEMMA CollectedOfInserted ==
  ASSUME NEW f \in [Payments -> Payment], NEW g \in [Payments -> Payment], NEW p \in Payments,
         f[p].status # "completed", g[p].status = "completed",
         \A q \in Payments \ {p} : /\ g[q].status = f[q].status /\ g[q].amount = f[q].amount
                                   /\ g[q].refund = f[q].refund
  PROVE  /\ Collected(f) \in Int /\ Collected(g) \in Int
         /\ g[p].refund => Collected(g) = Collected(f) + g[p].amount
         /\ ~g[p].refund => Collected(g) >= Collected(f)
<1>1. \A q \in Payments : Gathered(f)[q] \in Int /\ Gathered(g)[q] \in Int
  BY DEF Gathered, Payment
<1>2. \A q \in Payments \ {p} : Gathered(f)[q] = Gathered(g)[q]
  BY Zenon DEF Gathered
<1>3. /\ Gathered(f)[p] = 0
      /\ Gathered(g)[p] = IF g[p].refund \/ g[p].amount > 0 THEN g[p].amount ELSE 0
  BY Zenon DEF Gathered
<1> DEFINE F == Gathered(f)
           G == Gathered(g)
<1>4. IsFiniteSet(Payments) /\ Collected(f) = SumFunctionOnSet(F, Payments)
      /\ Collected(g) = SumFunctionOnSet(G, Payments)
  BY BillingAssumption, CollectedIsSum
<1>5. Collected(f) \in Int /\ g[p].amount \in Int
  BY CollectedIsSum DEF Payment
<1> HIDE DEF F, G
<1>6. SumFunctionOnSet(G, Payments) = SumFunctionOnSet(F, Payments) - F[p] + G[p]
  BY <1>1, <1>2, <1>4, SumUpdate DEF F, G
<1>7. F[p] = 0 /\ G[p] = IF g[p].refund \/ g[p].amount > 0 THEN g[p].amount ELSE 0
  BY <1>3 DEF F, G
<1>8. CASE g[p].refund
  BY <1>4, <1>5, <1>6, <1>7, <1>8
<1>9. CASE ~g[p].refund
  <2>1. G[p] = IF g[p].amount > 0 THEN g[p].amount ELSE 0
    BY <1>7, <1>9, Zenon
  <2>2. G[p] >= 0 /\ G[p] \in Int
    BY <1>5, <2>1
  <2> QED
    BY <1>4, <1>5, <1>6, <1>7, <1>9, <2>2
<1> QED
  BY <1>8, <1>9

(* Booking receipts changes neither a status nor an amount.                *)
LEMMA PostKeepsAmounts ==
  ASSUME NEW f \in [Payments -> Payment], NEW S
  PROVE  /\ Post(f, S) \in [Payments -> Payment]
         /\ \A p \in Payments : /\ Post(f, S)[p].status = f[p].status
                                /\ Post(f, S)[p].amount = f[p].amount
                                /\ Post(f, S)[p].patched = f[p].patched
                                /\ Post(f, S)[p].refund = f[p].refund
<1> SUFFICES ASSUME NEW p \in Payments
             PROVE  /\ Post(f, S)[p] \in Payment /\ Post(f, S)[p].status = f[p].status
                    /\ Post(f, S)[p].amount = f[p].amount
                    /\ Post(f, S)[p].patched = f[p].patched
                    /\ Post(f, S)[p].refund = f[p].refund
  BY DEF Post
<1>1. Post(f, S)[p] = IF p \in S /\ f[p].amount # 0 THEN [f[p] EXCEPT !.posted = f[p].posted + 1]
                      ELSE f[p]
  BY DEF Post
<1> QED
  BY <1>1, PostedPayment

-----------------------------------------------------------------------------
(* Refunds and invoices.                                                   *)

(* Who pays back, and what is sent.                                        *)
AmountOK(s, r) ==
    /\ r.pc \in {"refunding", "refund_numbered"} => s = EventLoop
    /\ r.pc = "sending" => r.inv \in Invoices

AmountsOK == \A s \in Sessions : AmountOK(s, session[s])

(* The refund under way is covered; a payment voided or changed by hand    *)
(* lifts the promise for good.                                             *)
ByHand == \E p \in Payments : pay[p].status = "voided" \/ pay[p].patched

Covered ==
    ByHand \/ /\ Collected(pay) >= 0
              /\ HoldsOrder(EventLoop) => Collected(pay) + session[EventLoop].amount >= 0

(* A voided invoice without payments is as VoidInvoice has left it, unless *)
(* an amount that is not positive was recorded for it.                     *)
InvoiceOK(r) ==
    r.status = "voided" /\ r.paid = 0 /\ ~r.nonpositive
    => r.reversed = IF r.posted > 0 THEN 1 ELSE 0

InvoicesOK == \A i \in Invoices : InvoiceOK(inv[i])

LedgerInv == CashInv /\ TypeOK /\ AmountsOK /\ Covered /\ InvoicesOK

(* A handler that has not begun holds no amount.                           *)
LEMMA IdleTyped == Idle \in Session /\ \A s : AmountOK(s, Idle)
BY BillingAssumption DEF Idle, Session, Unread, InvStatuses, AmountOK

(* A handler writes no record but its own.                                 *)
SessionWritten ==
    \/ session' = session
    \/ \E s \in Sessions, r \in Session : AmountOK(s, r) /\ session' = [session EXCEPT ![s] = r]

(* Loading writes the record of one handler.                               *)
LEMMA LoadWrites ==
  ASSUME TypeOK, NEW s \in Sessions, NEW p \in Payments, NEW a \in Int,
         NEW i \in Invoices \cup {NoInvoice}, Load(s, p, a, i)
  PROVE  SessionWritten
<1>1. PICK seen \in [status: InvStatuses, paid: Int, posted: BOOLEAN] :
        session' = [session EXCEPT ![s] =
          [Idle EXCEPT !.pc = "loaded", !.pay = p, !.amount = a, !.inv = i, !.seen = seen]]
  <2> DEFINE now == IF i = NoInvoice THEN Unread
                    ELSE [status |-> inv[i].status, paid |-> inv[i].paid, posted |-> inv[i].posted > 0]
  <2>1. now \in [status: InvStatuses, paid: Int, posted: BOOLEAN]
    BY DEF Unread, InvStatuses, TypeOK, Invoice
  <2>2. session' = [session EXCEPT ![s] =
          [Idle EXCEPT !.pc = "loaded", !.pay = p, !.amount = a, !.inv = i, !.seen = now]]
    BY DEF Load
  <2> HIDE DEF now
  <2> QED
    BY <2>1, <2>2
<1> DEFINE r == [Idle EXCEPT !.pc = "loaded", !.pay = p, !.amount = a, !.inv = i, !.seen = seen]
<1>3. r \in Session /\ r.pc = "loaded"
  BY IdleTyped DEF Idle, Session
<1> HIDE DEF r
<1>4. AmountOK(s, r)
  BY <1>3 DEF AmountOK
<1> QED
  BY <1>1, <1>3, <1>4 DEF SessionWritten, r

(* So does waiting for a lock.                                             *)
LEMMA WaitWrites ==
  ASSUME TypeOK, AmountsOK, NEW s \in Sessions, Wait(s)
  PROVE  SessionWritten
<1>1. session[s] \in Session /\ AmountOK(s, session[s])
  BY DEF TypeOK, AmountsOK
<1>2. CASE TakeNumber(s)
  <2> DEFINE r == [session[s] EXCEPT !.pc = "numbered"]
  <2>1. session' = [session EXCEPT ![s] = r] /\ session[s].pc = "loaded"
    BY <1>2 DEF TakeNumber
  <2>2. r \in Session /\ AmountOK(s, r)
    BY <1>1, <2>1 DEF Session, AmountOK
  <2> HIDE DEF r
  <2> QED
    BY <2>1, <2>2 DEF SessionWritten
<1>3. CASE InsertPayment(s)
  <2> DEFINE r == [session[s] EXCEPT !.pc = "inserted", !.unposted = Unposted(pay)]
  <2>1. session' = [session EXCEPT ![s] = r] /\ session[s].pc = "numbered"
    BY <1>3 DEF InsertPayment, TypeOK
  <2>2. Unposted(pay) \in SUBSET Payments
    BY DEF Unposted, Completed
  <2>3. r \in Session /\ AmountOK(s, r)
    BY <1>1, <2>1, <2>2 DEF Session, AmountOK
  <2> HIDE DEF r
  <2> QED
    BY <2>1, <2>3 DEF SessionWritten
<1>4. CASE s = EventLoop /\ NumberRefund
  <2> DEFINE r == [session[s] EXCEPT !.pc = "refund_numbered"]
  <2>1. session' = [session EXCEPT ![s] = r] /\ session[s].pc = "refunding"
    BY <1>4 DEF NumberRefund
  <2>2. r \in Session /\ AmountOK(s, r)
    BY <1>1, <1>4, <2>1 DEF Session, AmountOK
  <2> HIDE DEF r
  <2> QED
    BY <2>1, <2>2 DEF SessionWritten
<1> QED
  BY <1>2, <1>3, <1>4 DEF Wait

(* So does every step.                                                     *)
LEMMA SessionSteps ==
  ASSUME TypeOK, AmountsOK, [Next]_vars
  PROVE  SessionWritten
<1>1. (\A a \in Amounts : a \in Int) /\ (\A a \in InvoiceAmounts : a \in Int)
  BY BillingAssumption DEF Amounts, InvoiceAmounts
<1>2. EventLoop \in Sessions /\ \A t \in Threads : t \in Sessions
  BY DEF Sessions
<1>3. CASE Requests
  <2>1. ASSUME NEW p \in Payments, NEW a \in InvoiceAmounts, NEW t \in Threads, NEW i \in Invoices,
               LoadForInvoice(t, p, a, i)
        PROVE  SessionWritten
    BY <1>1, <1>2, <2>1, LoadWrites DEF LoadForInvoice
  <2>2. ASSUME NEW p \in Payments, NEW a \in Amounts, LoadForOrder(p, a)
        PROVE  SessionWritten
    <3>1. PICK i \in Invoices \cup {NoInvoice} : Load(EventLoop, p, a, i)
      BY <2>2 DEF LoadForOrder, Existing
    <3> QED
      BY <1>1, <1>2, <3>1, LoadWrites
  <2>3. ASSUME NEW p \in Payments, NEW a \in Amounts, LockOrder(p, a)
        PROVE  SessionWritten
    <3> DEFINE back == -a
               r == [Idle EXCEPT !.pc = "refunding", !.pay = p, !.amount = back]
    <3>1. session' = [session EXCEPT ![EventLoop] = r] /\ back \in Int
      BY <1>1, <2>3 DEF LockOrder
    <3> HIDE DEF back
    <3>2. r \in Session /\ AmountOK(EventLoop, r)
      BY <3>1, IdleTyped DEF Session, AmountOK
    <3> HIDE DEF r
    <3> QED
      BY <1>2, <3>1, <3>2 DEF SessionWritten
  <2>4. CASE \E p \in Payments : \/ VoidPayment(p)
                                 \/ \E s \in {"pending", "completed", "voided"} : UpdatePayment(p, s)
    BY <2>4 DEF VoidPayment, UpdatePayment, SetPaymentStatus, SessionWritten
  <2>5. ASSUME NEW t \in Threads, CheckNoInvoice(t) PROVE SessionWritten
    <3> DEFINE r == [Idle EXCEPT !.pc = "creating"]
    <3>1. session' = [session EXCEPT ![t] = r]
      BY <2>5 DEF CheckNoInvoice
    <3>2. r \in Session /\ AmountOK(t, r)
      BY IdleTyped DEF Session, AmountOK
    <3> HIDE DEF r
    <3> QED
      BY <1>2, <3>1, <3>2 DEF SessionWritten
  <2>6. ASSUME NEW t \in Threads, NEW i \in Invoices, LoadToSend(t, i) PROVE SessionWritten
    <3> DEFINE seen == [status |-> "draft", paid |-> inv[i].paid, posted |-> inv[i].posted > 0]
               r == [Idle EXCEPT !.pc = "sending", !.inv = i, !.seen = seen]
    <3>1. session' = [session EXCEPT ![t] = r]
      BY <2>6 DEF LoadToSend
    <3>2. seen \in [status: InvStatuses, paid: Int, posted: BOOLEAN]
      BY DEF InvStatuses, TypeOK, Invoice
    <3> HIDE DEF seen
    <3>3. r \in Session /\ AmountOK(t, r)
      BY <3>2, IdleTyped DEF Session, AmountOK
    <3> HIDE DEF r
    <3> QED
      BY <1>2, <3>1, <3>3 DEF SessionWritten
  <2>7. CASE \E i \in Invoices : VoidInvoice(i)
    BY <2>7 DEF VoidInvoice, SessionWritten
  <2> QED
    BY <1>3, <2>1, <2>2, <2>3, <2>4, <2>5, <2>6, <2>7 DEF Requests
<1>4. ASSUME NEW s \in Sessions, Commit(s) PROVE SessionWritten
  <2>1. session' = [session EXCEPT ![s] = Idle]
    BY <1>4 DEF Commit, CommitPayment, CommitRefund, CommitSend, CommitInvoice
  <2> QED
    BY <2>1, IdleTyped DEF SessionWritten
<1>5. CASE \E s \in Sessions : Wait(s)
  BY <1>5, WaitWrites
<1>6. ASSUME NEW s \in Threads, NEW victim \in Sessions, Deadlock(s, victim) PROVE SessionWritten
  BY <1>6, IdleTyped DEF Deadlock, SessionWritten
<1>7. CASE UNCHANGED vars
  BY <1>7 DEF vars, SessionWritten
<1> QED
  BY <1>3, <1>4, <1>5, <1>6, <1>7 DEF Next


-----------------------------------------------------------------------------
(* The invoices.                                                           *)

InvoiceWritten ==
    \/ inv' = inv
    \/ \E i \in Invoices, r \in Invoice : InvoiceOK(r) /\ inv' = [inv EXCEPT ![i] = r]

(* A receivable is booked once.                                            *)
LEMMA PostedReceivable ==
  ASSUME NEW r \in Invoice
  PROVE  /\ PostReceivable(r) \in Invoice
         /\ PostReceivable(r).status = r.status /\ PostReceivable(r).paid = r.paid
         /\ PostReceivable(r).nonpositive = r.nonpositive
<1>1. /\ PostReceivable(r) \in Invoice
      /\ PostReceivable(r).status = r.status /\ PostReceivable(r).paid = r.paid
  BY DEF PostReceivable, Invoice
<1>2. PostReceivable(r).nonpositive = r.nonpositive
  BY DEF PostReceivable, Invoice
<1> QED
  BY <1>1, <1>2

(* An invoice that is set from the payments stays voided, if it is.        *)
LEMMA ResyncWrites ==
  ASSUME TypeOK, InvoicesOK, NEW net \in Int, Resync(net)
  PROVE  InvoiceWritten
<1>1. CASE Existing = {}
  BY <1>1 DEF Resync, InvoiceWritten
<1>2. ASSUME NEW i \in Existing, inv' = [inv EXCEPT ![i] = Resynced(@, net)]
      PROVE  InvoiceWritten
  <2>1. i \in Invoices /\ inv[i] \in Invoice /\ InvoiceOK(inv[i])
    BY <1>2 DEF Existing, TypeOK, InvoicesOK
  <2> DEFINE r == Resynced(inv[i], net)
  <2>2. r \in Invoice /\ InvoiceOK(r)
    <3>1. CASE inv[i].status = "voided"
      BY <2>1, <3>1 DEF Resynced
    <3>2. CASE inv[i].status # "voided"
      <4>1. AtLeast0(net) \in Int
        BY DEF AtLeast0
      <4>2. PICK status \in InvStatuses \ {"voided"} :
              r = [inv[i] EXCEPT !.paid = AtLeast0(net), !.status = status]
        BY <2>1, <3>2 DEF Resynced, Invoice, InvStatuses
      <4> HIDE DEF r
      <4>3. r \in Invoice
        BY <2>1, <4>1, <4>2 DEF Invoice
      <4>4. r.status # "voided"
        BY <2>1, <4>2 DEF Invoice
      <4> QED
        BY <4>3, <4>4 DEF InvoiceOK
    <3> QED
      BY <3>1, <3>2
  <2>3. inv' = [inv EXCEPT ![i] = r]
    BY <1>2
  <2> HIDE DEF r
  <2> QED
    BY <2>1, <2>2, <2>3 DEF InvoiceWritten
<1> QED
  BY <1>1, <1>2 DEF Resync

(* A payment that is recorded leaves what is paid on the invoice, or a     *)
(* mark that it was not positive.                                          *)
LEMMA ReconciledWrites ==
  ASSUME TypeOK, AmountsOK, NEW s \in Sessions, CommitPayment(s)
  PROVE  InvoiceWritten
<1> DEFINE i == session[s].inv
           seen == session[s].seen
           amount == session[s].amount
           r == Reconciled(inv[i], seen, amount)
<1>1. session[s] \in Session
  BY DEF TypeOK
<1>2. seen.paid \in Int /\ seen.status \in InvStatuses /\ amount \in Int
      /\ i \in Invoices \cup {NoInvoice}
  BY <1>1 DEF Session
<1>3. inv' = IF i = NoInvoice THEN inv ELSE [inv EXCEPT ![i] = r]
  BY DEF CommitPayment
<1>4. CASE i = NoInvoice
  BY <1>3, <1>4 DEF InvoiceWritten
<1>5. CASE i # NoInvoice
  <2>1. i \in Invoices /\ inv[i] \in Invoice
    BY <1>2, <1>5 DEF TypeOK
  <2> DEFINE paid == seen.paid + amount
             left == IF amount = 0 THEN inv[i].paid ELSE paid
             status == IF paid >= OrderTotal THEN "paid"
                       ELSE IF paid > 0 THEN "partially_paid" ELSE seen.status
             kept == IF status = seen.status THEN inv[i].status ELSE status
             low == inv[i].nonpositive \/ amount <= 0 \/ paid <= 0
             set == [inv[i] EXCEPT !.paid = left, !.status = kept, !.nonpositive = low]
  <2>2. /\ left \in Int /\ kept \in InvStatuses /\ low \in BOOLEAN
        /\ low \/ left > 0
    BY <1>2, <2>1 DEF Invoice, InvStatuses
  <2>3. r = PostReceivable(set)
    BY Zenon DEF Reconciled
  <2> HIDE DEF seen, amount, i, r, paid, left, status, kept, low
  <2>4. set \in Invoice /\ set.paid = left
    BY <2>1, <2>2 DEF Invoice
  <2>5. set.nonpositive = low
    BY <2>1, <2>2 DEF Invoice
  <2> HIDE DEF set
  <2>6. r \in Invoice /\ r.paid = left /\ r.nonpositive = low
    BY <2>3, <2>4, <2>5, PostedReceivable
  <2>7. InvoiceOK(r)
    BY <2>2, <2>6 DEF InvoiceOK
  <2> QED
    BY <1>3, <1>5, <2>1, <2>6, <2>7 DEF InvoiceWritten
<1> QED
  BY <1>4, <1>5

(* A new invoice is a draft or paid, and an invoice that is sent is sent.  *)
LEMMA IssueWrites ==
  ASSUME TypeOK, AmountsOK, NEW t \in Threads, CommitSend(t) \/ \E i \in Invoices : CommitInvoice(t, i)
  PROVE  InvoiceWritten
<1>1. CASE CommitSend(t)
  <2> DEFINE i == session[t].inv
             n == IF session[t].seen.posted THEN inv[i].posted ELSE inv[i].posted + 1
             r == [inv[i] EXCEPT !.status = "sent", !.posted = n]
  <2>1. i \in Invoices /\ inv[i] \in Invoice
    BY <1>1 DEF CommitSend, TypeOK, Sessions, AmountsOK, AmountOK
  <2>2. n \in Nat
    BY <2>1 DEF Invoice
  <2>3. inv' = [inv EXCEPT ![i] = r]
    BY <1>1, <2>1 DEF CommitSend, TypeOK
  <2> HIDE DEF n, i
  <2>4. r \in Invoice /\ InvoiceOK(r)
    BY <2>1, <2>2 DEF Invoice, InvStatuses, InvoiceOK
  <2> HIDE DEF r
  <2> QED
    BY <2>1, <2>3, <2>4 DEF InvoiceWritten
<1>2. ASSUME NEW i \in Invoices, CommitInvoice(t, i) PROVE InvoiceWritten
  <2> DEFINE paid == AtLeast0(Net(pay))
             status == IF paid >= OrderTotal THEN "paid" ELSE "draft"
             new == [FreeInvoice EXCEPT !.paid = paid, !.status = status]
             r == IF status = "paid" THEN PostReceivable(new) ELSE new
  <2>1. paid \in Int
    BY NetIsSum DEF AtLeast0, TypeOK
  <2>2. inv' = [inv EXCEPT ![i] = IF new.status = "paid" THEN PostReceivable(new) ELSE new]
    BY <1>2 DEF CommitInvoice
  <2> HIDE DEF paid
  <2>3. status \in InvStatuses \ {"voided"}
    BY DEF InvStatuses
  <2> HIDE DEF status
  <2>4. new \in Invoice /\ new.status = status
    <3>1. FreeInvoice \in Invoice
      BY DEF Invoice, FreeInvoice, InvStatuses
    <3> QED
      BY <2>1, <2>3, <3>1 DEF Invoice
  <2> HIDE DEF new
  <2>5. r \in Invoice /\ r.status # "voided"
    BY <2>3, <2>4, PostedReceivable
  <2>6. inv' = [inv EXCEPT ![i] = r] /\ InvoiceOK(r)
    BY <2>2, <2>4, <2>5 DEF InvoiceOK
  <2> HIDE DEF r
  <2> QED
    BY <2>5, <2>6 DEF InvoiceWritten
<1> QED
  BY <1>1, <1>2

(* A status that is set by hand is remembered, and leaves the net a number.*)
LEMMA StatusSteps ==
  ASSUME CashInv, TypeOK, InvoicesOK, NEW p \in Payments,
         VoidPayment(p) \/ \E s \in {"pending", "completed", "voided"} : UpdatePayment(p, s)
  PROVE  InvoiceWritten /\ ByHand'
<1>1. PICK s \in {"pending", "completed", "voided"}, patched \in BOOLEAN :
        /\ patched \/ s = "voided"
        /\ SetPaymentStatus(p, s, patched)
  BY DEF VoidPayment, UpdatePayment
<1> DEFINE left == pay[p].status = "completed" /\ s # "completed"
           row == [IF left THEN ReverseReceipt(pay[p]) ELSE pay[p]
                     EXCEPT !.status = s, !.patched = @ \/ patched]
           v == IF left THEN ReverseReceipt(pay[p]) ELSE pay[p]
           rows == [pay EXCEPT ![p] = row]
           others == Unposted(pay) \ {p}
           known == IF others = {} THEN Net(pay) ELSE Net(rows)
<1>2. /\ pay' = Post(rows, others)
      /\ IF left THEN Resync(known) ELSE UNCHANGED inv
  BY <1>1, Zenon DEF SetPaymentStatus
<1>3. s \in PayStatuses /\ left \in BOOLEAN /\ pay \in [Payments -> Payment]
  BY DEF PayStatuses, TypeOK
<1>4. row \in Payment /\ row.status = s /\ row.patched = (pay[p].patched \/ patched)
  <2>1. v \in Payment /\ v.patched = pay[p].patched
    <3>1. pay[p] \in Payment /\ v \in {pay[p], [pay[p] EXCEPT !.reversed = 1]}
      BY <1>3 DEF ReverseReceipt
    <3> HIDE DEF v
    <3> QED
      BY <3>1 DEF Payment
  <2>2. row = [v EXCEPT !.status = s, !.patched = @ \/ patched]
    BY DEF v
  <2> HIDE DEF row, v
  <2>3. row \in Payment /\ row.status = s
    BY <1>3, <2>1, <2>2 DEF Payment
  <2>4. row.patched = (v.patched \/ patched)
    BY <2>1, <2>2 DEF Payment
  <2> QED
    BY <2>1, <2>3, <2>4
<1> HIDE DEF row, v, left, others
<1>5. rows \in [Payments -> Payment] /\ rows[p] = row
  BY <1>3, <1>4
<1> HIDE DEF rows
<1>6. known \in Int
  BY <1>3, <1>5, NetIsSum
<1> HIDE DEF known
<1>7. InvoiceWritten
  BY <1>2, <1>6, ResyncWrites DEF InvoiceWritten
<1>8. pay'[p].status = s /\ pay'[p].patched = (pay[p].patched \/ patched)
  BY <1>2, <1>4, <1>5, PostKeepsAmounts
<1> QED
  BY <1>1, <1>7, <1>8 DEF ByHand

(* Every step writes one invoice at most, within its bounds.               *)
LEMMA InvoiceSteps ==
  ASSUME CashInv, TypeOK, AmountsOK, InvoicesOK, [Next]_vars
  PROVE  InvoiceWritten
<1>1. CASE Requests
  <2>1. CASE \E p \in Payments : \/ VoidPayment(p)
                                 \/ \E s \in {"pending", "completed", "voided"} : UpdatePayment(p, s)
    BY <2>1, StatusSteps
  <2>2. ASSUME NEW i \in Invoices, VoidInvoice(i) PROVE InvoiceWritten
    <3> DEFINE n == IF inv[i].posted > 0 THEN 1 ELSE 0
               r == [inv[i] EXCEPT !.status = "voided", !.reversed = n]
    <3>1. inv' = [inv EXCEPT ![i] = r]
      BY <2>2 DEF VoidInvoice, TypeOK
    <3>2. n \in Nat /\ inv[i] \in Invoice
      BY DEF TypeOK
    <3> HIDE DEF n
    <3>3. r \in Invoice /\ r.reversed = n /\ r.posted = inv[i].posted
      BY <3>2 DEF Invoice, InvStatuses
    <3> HIDE DEF r
    <3>4. InvoiceOK(r)
      BY <3>3 DEF InvoiceOK, n
    <3> QED
      BY <3>1, <3>3, <3>4 DEF InvoiceWritten
  <2>3. CASE inv' = inv
    BY <2>3 DEF InvoiceWritten
  <2> QED
    BY <1>1, <2>1, <2>2, <2>3
       DEF Requests, LoadForInvoice, LoadForOrder, Load, LockOrder, CheckNoInvoice, LoadToSend
<1>2. ASSUME NEW s \in Sessions, CommitPayment(s) PROVE InvoiceWritten
  BY <1>2, ReconciledWrites
<1>3. ASSUME CommitRefund PROVE InvoiceWritten
  <2> DEFINE r == session[EventLoop]
             row == Inserted(r.amount, TRUE)
             rows == [pay EXCEPT ![r.pay] = row]
  <2>1. Resync(Net(rows)) /\ r.pc \in Paying /\ EventLoop \in Sessions
    BY <1>3 DEF CommitRefund, Paying, Sessions, Inserted
  <2>2. row \in Payment /\ pay \in [Payments -> Payment]
    BY <2>1, InsertedRow DEF TypeOK
  <2> HIDE DEF row
  <2>3. Net(rows) \in Int
    BY <2>2, NetIsSum
  <2> QED
    BY <2>1, <2>3, ResyncWrites
<1>4. ASSUME NEW t \in Threads, CommitSend(t) \/ \E i \in Invoices : CommitInvoice(t, i)
      PROVE  InvoiceWritten
  BY <1>4, IssueWrites
<1>5. CASE (\E s \in Sessions : Wait(s)) \/ (\E s \in Threads : \E victim \in Sessions : Deadlock(s, victim))
           \/ UNCHANGED vars
  BY <1>5 DEF Wait, TakeNumber, InsertPayment, NumberRefund, Deadlock, vars, InvoiceWritten
<1> QED
  BY <1>1, <1>2, <1>3, <1>4, <1>5 DEF Next, Commit

(* No step leaves the invoices, the sessions or their types in disorder.   *)
LEMMA TypesNext ==
  ASSUME CashInv, TypeOK, AmountsOK, InvoicesOK, [Next]_vars
  PROVE  TypeOK' /\ AmountsOK' /\ InvoicesOK'
<1>1. pay' \in [Payments -> Payment]
  BY CashInvNext DEF CashInv, RowsOK
<1>2. session' \in [Sessions -> Session] /\ AmountsOK'
  BY SessionSteps DEF SessionWritten, TypeOK, AmountsOK, AmountOK
<1>3. inv' \in [Invoices -> Invoice] /\ InvoicesOK'
  BY InvoiceSteps DEF InvoiceWritten, TypeOK, InvoicesOK, InvoiceOK
<1> QED
  BY <1>1, <1>2, <1>3 DEF TypeOK

-----------------------------------------------------------------------------
(* Refunds are covered.                                                    *)

(* The row of a refund lowers what was collected by its amount; that of a  *)
(* payment, of whatever amount, does not lower it.                         *)
LEMMA InsertCovered ==
  ASSUME LedgerInv, NEW s \in Sessions, session[s].pc \in Paying,
         NEW refund \in BOOLEAN, NEW row, row = Inserted(session[s].amount, refund),
         NEW S, pay' = Post([pay EXCEPT ![session[s].pay] = row], S),
         session' = [session EXCEPT ![s] = Idle],
         refund <=> HoldsOrder(s)
  PROVE  Covered'
<1> DEFINE mine == session[s].pay
           amount == session[s].amount
           rows == [pay EXCEPT ![mine] = row]
<1>1. /\ mine \in Payments /\ pay[mine].status = "unused" /\ ~pay[mine].patched
      /\ row \in Payment /\ row.status = "completed" /\ row.amount = amount /\ row.refund = refund
  BY InsertedRow DEF LedgerInv
<1>2. pay \in [Payments -> Payment] /\ DOMAIN session = Sessions /\ EventLoop \in Sessions
  BY DEF LedgerInv, TypeOK, Sessions
<1>3. amount \in Int
  BY DEF LedgerInv, TypeOK, Session
<1> HIDE DEF mine, amount
<1>4. rows \in [Payments -> Payment] /\ rows[mine] = row /\ \A q \in Payments \ {mine} : rows[q] = pay[q]
  BY <1>1, <1>2
<1> HIDE DEF rows
<1>5. /\ pay' \in [Payments -> Payment]
      /\ \A q \in Payments : /\ pay'[q].status = rows[q].status
                             /\ pay'[q].amount = rows[q].amount
                             /\ pay'[q].patched = rows[q].patched
                             /\ pay'[q].refund = rows[q].refund
  <2>1. pay' = Post(rows, S)
    BY Zenon DEF rows, mine
  <2> QED
    <3>1. /\ Post(rows, S) \in [Payments -> Payment]
          /\ \A q \in Payments : /\ Post(rows, S)[q].status = rows[q].status
                                 /\ Post(rows, S)[q].amount = rows[q].amount
                                 /\ Post(rows, S)[q].patched = rows[q].patched
                                 /\ Post(rows, S)[q].refund = rows[q].refund
      BY <1>4, PostKeepsAmounts
    <3> QED
      BY <2>1, <3>1, Zenon
<1>6. CASE ByHand
  <2>1. PICK q \in Payments : pay[q].status = "voided" \/ pay[q].patched
    BY <1>6 DEF ByHand
  <2>2. pay'[q].status = pay[q].status /\ pay'[q].patched = pay[q].patched
    BY <1>1, <1>4, <1>5, <2>1
  <2>3. ByHand'
    BY <2>1, <2>2, Zenon DEF ByHand
  <2> QED
    BY <2>3 DEF Covered
<1>7. CASE ~ByHand
  <2>1. /\ Collected(pay) \in Int /\ Collected(pay)' \in Int
        /\ refund => Collected(pay)' = Collected(pay) + amount
        /\ ~refund => Collected(pay)' >= Collected(pay)
    <3> DEFINE new == pay'
    <3>1. /\ new[mine].status = "completed" /\ new[mine].amount = amount /\ new[mine].refund = refund
          /\ \A q \in Payments \ {mine} : /\ new[q].status = pay[q].status
                                         /\ new[q].amount = pay[q].amount
                                         /\ new[q].refund = pay[q].refund
          /\ new \in [Payments -> Payment]
      BY <1>1, <1>4, <1>5
    <3>2. pay[mine].status # "completed"
      BY <1>1
    <3> HIDE DEF new
    <3>3. /\ Collected(pay) \in Int /\ Collected(new) \in Int
          /\ new[mine].refund => Collected(new) = Collected(pay) + new[mine].amount
          /\ ~new[mine].refund => Collected(new) >= Collected(pay)
      BY <1>1, <1>2, <3>1, <3>2, CollectedOfInserted
    <3> QED
      BY <3>1, <3>3 DEF new
  <2>2. /\ Collected(pay) >= 0
        /\ HoldsOrder(EventLoop) => Collected(pay) + session[EventLoop].amount >= 0
    BY <1>7 DEF LedgerInv, Covered
  <2>3. HoldsOrder(s) => s = EventLoop
    BY DEF LedgerInv, AmountsOK, AmountOK, HoldsOrder
  <2>4. Collected(pay)' >= 0
    BY <2>1, <2>2, <2>3 DEF amount
  <2>5. ASSUME HoldsOrder(EventLoop)' PROVE Collected(pay)' + session'[EventLoop].amount >= 0
    <3>1. EventLoop # s
      BY <1>2, <2>5 DEF HoldsOrder, Idle
    <3>2. session'[EventLoop] = session[EventLoop] /\ ~refund
      BY <1>2, <2>3, <3>1
    <3>3. HoldsOrder(EventLoop) /\ session[EventLoop].amount \in Int
      BY <1>2, <2>5, <3>2 DEF HoldsOrder, LedgerInv, TypeOK, Session
    <3> QED
      BY <2>1, <2>2, <3>2, <3>3
  <2> QED
    BY <2>4, <2>5 DEF Covered
<1> QED
  BY <1>6, <1>7

(* A step that leaves what counts alone, and takes no refund on.           *)
LEMMA NetKeptCovered ==
  ASSUME LedgerInv, pay' \in [Payments -> Payment],
         \A p \in Payments : /\ pay'[p].status = pay[p].status
                             /\ pay'[p].amount = pay[p].amount
                             /\ pay'[p].patched = pay[p].patched
                             /\ pay'[p].refund = pay[p].refund,
         HoldsOrder(EventLoop)' =>
           HoldsOrder(EventLoop) /\ session'[EventLoop].amount = session[EventLoop].amount
  PROVE  Covered'
<1>1. CASE ByHand
  BY <1>1 DEF ByHand, Covered
<1>2. CASE ~ByHand
  <2> DEFINE new == pay'
  <2>1. new \in [Payments -> Payment] /\ pay \in [Payments -> Payment]
        /\ \A p \in Payments : /\ new[p].status = pay[p].status /\ new[p].amount = pay[p].amount
                               /\ new[p].refund = pay[p].refund
    BY DEF LedgerInv, TypeOK
  <2> HIDE DEF new
  <2>2. Collected(new) = Collected(pay)
    BY <2>1, CollectedSame
  <2>3. Collected(pay)' = Collected(pay)
    BY <2>2 DEF new
  <2> QED
    BY <1>2, <2>3 DEF LedgerInv, Covered
<1> QED
  BY <1>1, <1>2

(* Refunds stay within what was collected.                                 *)
LEMMA CoveredNext ==
  ASSUME LedgerInv, [Next]_vars
  PROVE  Covered'
<1>1. /\ pay \in [Payments -> Payment] /\ session \in [Sessions -> Session] /\ EventLoop \in Sessions
      /\ CashInv /\ TypeOK /\ AmountsOK /\ InvoicesOK
      /\ EventLoop \notin Threads /\ \A t \in Threads : t \in Sessions
  BY BillingAssumption DEF LedgerInv, TypeOK, Sessions
<1>2. ASSUME pay' = pay,
             \/ session' = session
             \/ \E s \in Sessions : \E r :
                  /\ session' = [session EXCEPT ![s] = r]
                  /\ \/ r.pc \notin {"refunding", "refund_numbered"}
                     \/ HoldsOrder(s) /\ r.amount = session[s].amount
      PROVE  Covered'
  BY <1>1, <1>2, NetKeptCovered DEF HoldsOrder
<1>3. Idle.pc \notin {"refunding", "refund_numbered"}
  BY DEF Idle
<1>4. CASE Requests
  <2>1. ASSUME NEW s \in Sessions, NEW p, NEW a, NEW i, Load(s, p, a, i)
        PROVE  Covered'
    <3>1. PICK seen : session' = [session EXCEPT ![s] =
            [Idle EXCEPT !.pc = "loaded", !.pay = p, !.amount = a, !.inv = i, !.seen = seen]]
      BY <2>1 DEF Load
    <3> DEFINE r == [Idle EXCEPT !.pc = "loaded", !.pay = p, !.amount = a, !.inv = i, !.seen = seen]
    <3>2. r.pc = "loaded" /\ session' = [session EXCEPT ![s] = r]
      BY <3>1 DEF Idle
    <3> HIDE DEF r
    <3> QED
      BY <1>2, <2>1, <3>2 DEF Load
  <2>2. ASSUME NEW p \in Payments, NEW a \in Amounts, LockOrder(p, a) PROVE Covered'
    <3> DEFINE back == -a
               r == [Idle EXCEPT !.pc = "refunding", !.pay = p, !.amount = back]
    <3>1. /\ pay' = pay /\ session' = [session EXCEPT ![EventLoop] = r] /\ back \in Int
          /\ Collected(pay) + back >= 0
      BY <1>1, <2>2, NetIsSum, CollectedIsSum, NetBelowCollected DEF LockOrder, Amounts
    <3> HIDE DEF back
    <3>2. session'[EventLoop].amount = back
      BY <1>1, <3>1 DEF Idle
    <3>3. Collected(pay)' = Collected(pay) /\ (ByHand <=> ByHand')
      BY <3>1 DEF ByHand
    <3>4. ByHand \/ Collected(pay) >= 0
      BY DEF LedgerInv, Covered
    <3> QED
      BY <3>1, <3>2, <3>3, <3>4 DEF Covered
  <2>3. CASE \E p \in Payments : \/ VoidPayment(p)
                                 \/ \E s \in {"pending", "completed", "voided"} : UpdatePayment(p, s)
    BY <1>1, <2>3, StatusSteps DEF Covered
  <2>4. ASSUME NEW t \in Threads, CheckNoInvoice(t) \/ \E i \in Invoices : LoadToSend(t, i)
        PROVE  Covered'
    <3>1. CASE CheckNoInvoice(t)
      <4> DEFINE r == [Idle EXCEPT !.pc = "creating"]
      <4>1. r.pc = "creating" /\ session' = [session EXCEPT ![t] = r] /\ pay' = pay
        BY <3>1 DEF CheckNoInvoice, Idle
      <4> HIDE DEF r
      <4> QED
        BY <1>1, <1>2, <4>1
    <3>2. ASSUME NEW i \in Invoices, LoadToSend(t, i) PROVE Covered'
      <4>1. PICK seen : session' = [session EXCEPT ![t] =
                          [Idle EXCEPT !.pc = "sending", !.inv = i, !.seen = seen]]
        BY <3>2 DEF LoadToSend
      <4> DEFINE r == [Idle EXCEPT !.pc = "sending", !.inv = i, !.seen = seen]
      <4>2. r.pc = "sending" /\ session' = [session EXCEPT ![t] = r] /\ pay' = pay
        BY <3>2, <4>1 DEF LoadToSend, Idle
      <4> HIDE DEF r
      <4> QED
        BY <1>1, <1>2, <4>2
    <3> QED
      BY <2>4, <3>1, <3>2
  <2>5. CASE \E i \in Invoices : VoidInvoice(i)
    BY <1>2, <2>5 DEF VoidInvoice
  <2> QED
    BY <1>1, <1>4, <2>1, <2>2, <2>3, <2>4, <2>5 DEF Requests, LoadForInvoice, LoadForOrder
<1>5. ASSUME NEW s \in Sessions, CommitPayment(s) PROVE Covered'
  <2> DEFINE row == Inserted(session[s].amount, FALSE)
  <2>1. /\ pay' = Post([pay EXCEPT ![session[s].pay] = row], session[s].unposted \cup {session[s].pay})
        /\ session' = [session EXCEPT ![s] = Idle] /\ session[s].pc = "inserted"
    BY <1>5, Zenon DEF CommitPayment, Inserted
  <2>2. session[s].pc \in Paying /\ ~HoldsOrder(s)
    BY <2>1 DEF Paying, HoldsOrder
  <2> HIDE DEF row
  <2> QED
    BY <2>1, <2>2, InsertCovered DEF row
<1>6. ASSUME CommitRefund PROVE Covered'
  <2> DEFINE row == Inserted(session[EventLoop].amount, TRUE)
             rows == [pay EXCEPT ![session[EventLoop].pay] = row]
  <2>1. /\ pay' = Post(rows, Unposted(rows))
        /\ session' = [session EXCEPT ![EventLoop] = Idle] /\ session[EventLoop].pc = "refund_numbered"
    BY <1>6, Zenon DEF CommitRefund, Inserted
  <2>2. session[EventLoop].pc \in Paying /\ HoldsOrder(EventLoop)
    BY <2>1 DEF Paying, HoldsOrder
  <2> HIDE DEF row
  <2> QED
    BY <1>1, <2>1, <2>2, InsertCovered DEF row
<1>7. ASSUME NEW t \in Threads, CommitSend(t) PROVE Covered'
  BY <1>1, <1>2, <1>3, <1>7 DEF CommitSend
<1>8. ASSUME NEW t \in Threads, NEW i, CommitInvoice(t, i) PROVE Covered'
  <2>1. (pay' = pay \/ pay' = Post(pay, Unposted(pay))) /\ session' = [session EXCEPT ![t] = Idle]
    BY <1>8 DEF CommitInvoice
  <2>2. session'[EventLoop] = session[EventLoop]
    BY <1>1, <2>1
  <2>3. /\ pay' \in [Payments -> Payment]
        /\ \A p \in Payments : /\ pay'[p].status = pay[p].status
                               /\ pay'[p].amount = pay[p].amount
                               /\ pay'[p].patched = pay[p].patched
                               /\ pay'[p].refund = pay[p].refund
    BY <1>1, <2>1, PostKeepsAmounts
  <2> QED
    BY <2>2, <2>3, NetKeptCovered DEF HoldsOrder
<1>9. ASSUME NEW s \in Sessions, TakeNumber(s) \/ InsertPayment(s) PROVE Covered'
  <2>1. PICK r : session' = [session EXCEPT ![s] = r] /\ r.pc \in {"numbered", "inserted"}
    BY <1>1, <1>9 DEF TakeNumber, InsertPayment, Session
  <2> QED
    BY <1>2, <1>9, <2>1 DEF TakeNumber, InsertPayment
<1>10. ASSUME NumberRefund PROVE Covered'
  <2> DEFINE r == [session[EventLoop] EXCEPT !.pc = "refund_numbered"]
  <2>1. session' = [session EXCEPT ![EventLoop] = r] /\ HoldsOrder(EventLoop) /\ pay' = pay
    BY <1>10 DEF NumberRefund, HoldsOrder
  <2>2. r.amount = session[EventLoop].amount
    BY <1>1 DEF Session
  <2> HIDE DEF r
  <2> QED
    BY <1>1, <1>2, <2>1, <2>2
<1>11. ASSUME NEW s, NEW victim \in Sessions, Deadlock(s, victim) PROVE Covered'
  BY <1>2, <1>3, <1>11 DEF Deadlock
<1>12. CASE UNCHANGED vars
  BY <1>2, <1>12 DEF vars
<1> QED
  BY <1>4, <1>5, <1>6, <1>7, <1>8, <1>9, <1>10, <1>11, <1>12 DEF Next, Commit, Wait

(* An empty ledger satisfies the invariant.                                *)
LEMMA LedgerInvInit == ASSUME Init PROVE LedgerInv
<1>1. pay = [p \in Payments |-> FreePayment] /\ inv = [i \in Invoices |-> FreeInvoice]
      /\ session = [s \in Sessions |-> Idle]
  BY DEF Init
<1>2. TypeOK
  BY <1>1, IdleTyped DEF TypeOK, FreePayment, Payment, PayStatuses, FreeInvoice, Invoice, InvStatuses
<1>3. AmountsOK /\ InvoicesOK
  BY <1>1, IdleTyped DEF AmountsOK, InvoicesOK, InvoiceOK, FreeInvoice
<1>4. Collected(pay) = 0
  <2>1. \A p \in Payments : Gathered(pay)[p] = 0
    BY <1>1 DEF Gathered, FreePayment
  <2> QED
    BY <1>2, <2>1, CollectedIsSum, SumZero, BillingAssumption DEF TypeOK
<1>5. ~HoldsOrder(EventLoop)
  BY <1>1 DEF HoldsOrder, Sessions, Idle
<1> QED
  BY <1>2, <1>3, <1>4, <1>5, CashInvInit DEF LedgerInv, Covered

(* Every step keeps it.                                                    *)
LEMMA LedgerInvNext == ASSUME LedgerInv, [Next]_vars PROVE LedgerInv'
BY CashInvNext, TypesNext, CoveredNext DEF LedgerInv

(* What the rows of payments, invoices and handlers may hold.              *)
THEOREM BillingTyped == Spec => []TypeOK
<1>1. Init => LedgerInv
  BY LedgerInvInit
<1>2. LedgerInv /\ [Next]_vars => LedgerInv'
  BY LedgerInvNext
<1>3. LedgerInv => TypeOK
  BY DEF LedgerInv
<1> QED
  BY <1>1, <1>2, <1>3, PTL DEF Spec

(* Refunds never exceed what was collected, however payments and refunds   *)
(* overlap and whatever amounts PATCH /invoices records, unless a payment  *)
(* was voided or its status set by hand (payments.py, payment_service.py). *)
THEOREM RefundsAreCovered == Spec => []RefundsWithinCollected
<1>1. Init => LedgerInv
  BY LedgerInvInit
<1>2. LedgerInv /\ [Next]_vars => LedgerInv'
  BY LedgerInvNext
<1>3. LedgerInv => RefundsWithinCollected
  BY CollectedIsSum DEF LedgerInv, TypeOK, Covered, ByHand, RefundsWithinCollected
<1> QED
  BY <1>1, <1>2, <1>3, PTL DEF Spec

(* No handler that was under way books the receivable of an invoice that   *)
(* was voided meanwhile and stays voided (invoice_service.py).             *)
THEOREM VoidedStaysReversed == Spec => []VoidedIsReversed
<1>1. Init => LedgerInv
  BY LedgerInvInit
<1>2. LedgerInv /\ [Next]_vars => LedgerInv'
  BY LedgerInvNext
<1>3. LedgerInv => VoidedIsReversed
  BY DEF LedgerInv, TypeOK, Invoice, InvoicesOK, InvoiceOK, VoidedIsReversed
<1> QED
  BY <1>1, <1>2, <1>3, PTL DEF Spec

-----------------------------------------------------------------------------
(* The event loop and the two locks.                                       *)

(* One handler has the lock of the numbers.  While a refund holds the      *)
(* order no payment shares it, and the event loop serves no invoice.       *)
OneHolder == \A s, t \in Sessions : HoldsNumbers(s) /\ HoldsNumbers(t) => s = t
OrderUnshared == HoldsOrder(EventLoop) => \A s \in Sessions : session[s].pc # "inserted"
LoopPays == session[EventLoop].pc \notin {"sending", "creating"}

LocksInv == OneHolder /\ OrderUnshared /\ LoopPays

(* A payment handler that has what it needs for its next step.             *)
MayGoOn(s) ==
    \/ session[s].pc = "loaded" /\ NumbersFree
    \/ session[s].pc = "numbered" /\ OrderFree
    \/ session[s].pc = "inserted"
    \/ /\ s = EventLoop
       /\ \/ session[s].pc = "refunding" /\ NumbersFree
          \/ session[s].pc = "refund_numbered"

(* What the event loop waits for is held by a thread that may go on, or    *)
(* that the database finds in a deadlock with it.                          *)
LoopIsServed ==
    session[EventLoop].pc # "idle" =>
        \/ MayGoOn(EventLoop)
        \/ \E s \in Threads : HoldsNumbers(s) /\ (MayGoOn(s) \/ Deadlocked(s))

(* How many steps a handler has left at most.                              *)
StepsLeft(pc) ==
    CASE pc = "loaded" -> 3
      [] pc \in {"numbered", "refunding"} -> 2
      [] pc \in {"inserted", "refund_numbered", "sending", "creating"} -> 1
      [] OTHER -> 0

(* A new request touches no handler under way; any other step brings one   *)
(* handler nearer to its end and leaves the others where they are.         *)
EveryStepCounts ==
    \/ \A s \in Sessions : session[s].pc # "idle" => session'[s] = session[s]
    \/ \E s \in Sessions :
         /\ \A t \in Sessions \ {s} : session'[t] = session[t]
         /\ StepsLeft(session'[s].pc) < StepsLeft(session[s].pc)

(* A step of one handler keeps the locks in order.                         *)
LEMMA LocksStep ==
  ASSUME LocksInv, session \in [Sessions -> Session], NEW s \in Sessions, NEW r,
         session' = [session EXCEPT ![s] = r],
         r.pc \in {"numbered", "inserted", "refund_numbered"} =>
           NumbersFree \/ HoldsNumbers(s),
         r.pc \in {"refunding", "refund_numbered"} =>
           s = EventLoop /\ \A t \in Sessions : session[t].pc # "inserted",
         r.pc = "inserted" => OrderFree,
         s = EventLoop => r.pc \notin {"sending", "creating"}
  PROVE  LocksInv'
<1>1. session'[s] = r /\ \A t \in Sessions \ {s} : session'[t] = session[t]
  OBVIOUS
<1>2. EventLoop \in Sessions
  BY DEF Sessions
<1>3. OneHolder'
  BY <1>1 DEF LocksInv, OneHolder, HoldsNumbers, NumbersFree
<1>4. OrderUnshared'
  BY <1>1, <1>2 DEF LocksInv, OrderUnshared, HoldsOrder, OrderFree
<1>5. LoopPays'
  BY <1>1, <1>2 DEF LocksInv, LoopPays
<1> QED
  BY <1>3, <1>4, <1>5 DEF LocksInv

LEMMA LocksInvInit == ASSUME Init PROVE LocksInv
BY DEF Init, LocksInv, OneHolder, OrderUnshared, LoopPays, HoldsNumbers, HoldsOrder, Sessions, Idle

(* A request starts a handler that holds no lock but, for a refund, that   *)
(* of the order.                                                           *)
RequestStarts ==
    \/ UNCHANGED session
    \/ \E s \in Sessions : \E r :
         /\ session[s].pc = "idle" /\ session' = [session EXCEPT ![s] = r]
         /\ \/ r.pc = "loaded"
            \/ s # EventLoop /\ r.pc \in {"sending", "creating"}
            \/ /\ s = EventLoop /\ r.pc = "refunding"
               /\ \A t \in Sessions : session[t].pc # "inserted"

LEMMA RequestsStart == ASSUME Requests PROVE RequestStarts
<1>1. EventLoop \in Sessions /\ \A t \in Threads : t \in Sessions /\ t # EventLoop
  BY BillingAssumption DEF Sessions
<1>2. ASSUME NEW s \in Sessions, NEW p, NEW a, NEW i, Load(s, p, a, i) PROVE RequestStarts
  <2> DEFINE seen == IF i = NoInvoice THEN Unread
                     ELSE [status |-> inv[i].status, paid |-> inv[i].paid, posted |-> inv[i].posted > 0]
             r == [Idle EXCEPT !.pc = "loaded", !.pay = p, !.amount = a, !.inv = i, !.seen = seen]
  <2>1. session[s].pc = "idle" /\ session' = [session EXCEPT ![s] = r]
    BY <1>2 DEF Load
  <2> HIDE DEF seen
  <2>2. r.pc = "loaded"
    BY DEF Idle
  <2> QED
    BY <2>1, <2>2 DEF RequestStarts
<1>3. ASSUME NEW p, NEW a, LockOrder(p, a) PROVE RequestStarts
  <2> DEFINE back == -a
             r == [Idle EXCEPT !.pc = "refunding", !.pay = p, !.amount = back]
  <2>1. /\ session[EventLoop].pc = "idle" /\ session' = [session EXCEPT ![EventLoop] = r]
        /\ \A t \in Sessions : session[t].pc # "inserted"
    BY <1>3 DEF LockOrder, LoopFree
  <2> HIDE DEF back
  <2>2. r.pc = "refunding"
    BY DEF Idle
  <2> HIDE DEF r
  <2> QED
    BY <1>1, <2>1, <2>2 DEF RequestStarts
<1>4. ASSUME NEW t \in Threads, CheckNoInvoice(t) PROVE RequestStarts
  <2> DEFINE r == [Idle EXCEPT !.pc = "creating"]
  <2>1. session[t].pc = "idle" /\ session' = [session EXCEPT ![t] = r]
    BY <1>4 DEF CheckNoInvoice
  <2>2. r.pc = "creating"
    BY DEF Idle
  <2> HIDE DEF r
  <2> QED
    BY <1>1, <2>1, <2>2 DEF RequestStarts
<1>5. ASSUME NEW t \in Threads, NEW i \in Invoices, LoadToSend(t, i) PROVE RequestStarts
  <2> DEFINE seen == [status |-> "draft", paid |-> inv[i].paid, posted |-> inv[i].posted > 0]
             r == [Idle EXCEPT !.pc = "sending", !.inv = i, !.seen = seen]
  <2>1. session[t].pc = "idle" /\ session' = [session EXCEPT ![t] = r]
    BY <1>5 DEF LoadToSend
  <2> HIDE DEF seen
  <2>2. r.pc = "sending"
    BY DEF Idle
  <2> HIDE DEF r
  <2> QED
    BY <1>1, <2>1, <2>2 DEF RequestStarts
<1>6. CASE \/ \E p \in Payments : \/ VoidPayment(p)
                                  \/ \E s \in {"pending", "completed", "voided"} : UpdatePayment(p, s)
           \/ \E i \in Invoices : VoidInvoice(i)
  BY <1>6 DEF VoidPayment, UpdatePayment, SetPaymentStatus, VoidInvoice, RequestStarts
<1>7. ASSUME NEW p \in Payments, NEW a,
             \/ \E t \in Threads, i \in Invoices : LoadForInvoice(t, p, a, i)
             \/ LoadForOrder(p, a)
      PROVE  RequestStarts
  <2>1. \E s \in Sessions : \E i : Load(s, p, a, i)
    BY <1>1, <1>7 DEF LoadForInvoice, LoadForOrder
  <2> QED
    BY <1>2, <2>1
<1>8. CASE \/ \E t \in Threads, p \in Payments, a \in InvoiceAmounts, i \in Invoices :
                LoadForInvoice(t, p, a, i)
           \/ \E p \in Payments, a \in Amounts : LoadForOrder(p, a) \/ LockOrder(p, a)
  BY <1>3, <1>7, <1>8
<1>9. CASE \E t \in Threads : CheckNoInvoice(t) \/ \E i \in Invoices : LoadToSend(t, i)
  BY <1>4, <1>5, <1>9
<1> QED
  BY <1>6, <1>8, <1>9 DEF Requests

(* A handler under way waits for a lock and gets it, or ends.              *)
LEMMA HandlersGoOn ==
  ASSUME session \in [Sessions -> Session], NEW s \in Sessions, Commit(s) \/ Wait(s)
  PROVE  \E r : /\ session' = [session EXCEPT ![s] = r]
                /\ \/ /\ r.pc = "idle"
                      /\ session[s].pc \in {"inserted", "refund_numbered", "sending", "creating"}
                   \/ session[s].pc = "loaded" /\ r.pc = "numbered" /\ NumbersFree
                   \/ session[s].pc = "numbered" /\ r.pc = "inserted" /\ OrderFree
                   \/ /\ s = EventLoop /\ NumbersFree
                      /\ session[s].pc = "refunding" /\ r.pc = "refund_numbered"
<1>1. session[s] \in Session
  OBVIOUS
<1>2. CASE Commit(s)
  <2>1. session' = [session EXCEPT ![s] = Idle]
    BY <1>2 DEF Commit, CommitPayment, CommitRefund, CommitSend, CommitInvoice
  <2>2. session[s].pc \in {"inserted", "refund_numbered", "sending", "creating"}
    BY <1>2 DEF Commit, CommitPayment, CommitRefund, CommitSend, CommitInvoice
  <2>3. Idle.pc = "idle"
    BY DEF Idle
  <2> QED
    BY <2>1, <2>2, <2>3
<1>3. CASE TakeNumber(s)
  <2> DEFINE r == [session[s] EXCEPT !.pc = "numbered"]
  <2>1. session' = [session EXCEPT ![s] = r] /\ session[s].pc = "loaded" /\ NumbersFree
    BY <1>3 DEF TakeNumber
  <2>2. r.pc = "numbered"
    BY <1>1 DEF Session
  <2> HIDE DEF r
  <2> QED
    BY <2>1, <2>2
<1>4. CASE InsertPayment(s)
  <2> DEFINE r == [session[s] EXCEPT !.pc = "inserted", !.unposted = Unposted(pay)]
  <2>1. session' = [session EXCEPT ![s] = r] /\ session[s].pc = "numbered" /\ OrderFree
    BY <1>4 DEF InsertPayment
  <2>2. r.pc = "inserted"
    BY <1>1 DEF Session
  <2> HIDE DEF r
  <2> QED
    BY <2>1, <2>2
<1>5. CASE s = EventLoop /\ NumberRefund
  <2> DEFINE r == [session[s] EXCEPT !.pc = "refund_numbered"]
  <2>1. session' = [session EXCEPT ![s] = r] /\ session[s].pc = "refunding" /\ NumbersFree
    BY <1>5 DEF NumberRefund
  <2>2. r.pc = "refund_numbered"
    BY <1>1 DEF Session
  <2> HIDE DEF r
  <2> QED
    BY <1>5, <2>1, <2>2
<1> QED
  BY <1>2, <1>3, <1>4, <1>5 DEF Wait

LEMMA LocksInvNext ==
  ASSUME LocksInv, session \in [Sessions -> Session], [Next]_vars
  PROVE  LocksInv' /\ EveryStepCounts
<1>1. CASE UNCHANGED session
  BY <1>1 DEF EveryStepCounts, LocksInv, OneHolder, OrderUnshared, LoopPays, HoldsNumbers, HoldsOrder
<1>2. ASSUME NEW s \in Sessions, NEW r, session[s].pc = "idle", session' = [session EXCEPT ![s] = r],
             \/ r.pc = "loaded"
             \/ s # EventLoop /\ r.pc \in {"sending", "creating"}
             \/ /\ s = EventLoop /\ r.pc = "refunding"
                /\ \A t \in Sessions : session[t].pc # "inserted"
      PROVE  LocksInv' /\ EveryStepCounts
  <2>1. LocksInv'
    BY <1>2, LocksStep
  <2>2. \A t \in Sessions : session[t].pc # "idle" => session'[t] = session[t]
    BY <1>2
  <2> QED
    BY <2>1, <2>2 DEF EveryStepCounts
<1>3. ASSUME NEW s \in Sessions, Commit(s) \/ Wait(s) PROVE LocksInv' /\ EveryStepCounts
  <2>1. PICK r :
          /\ session' = [session EXCEPT ![s] = r]
          /\ \/ /\ r.pc = "idle"
                /\ session[s].pc \in {"inserted", "refund_numbered", "sending", "creating"}
             \/ session[s].pc = "loaded" /\ r.pc = "numbered" /\ NumbersFree
             \/ session[s].pc = "numbered" /\ r.pc = "inserted" /\ OrderFree
             \/ /\ s = EventLoop /\ NumbersFree
                /\ session[s].pc = "refunding" /\ r.pc = "refund_numbered"
    BY <1>3, HandlersGoOn
  <2>2. LocksInv'
    BY <2>1, LocksStep DEF LocksInv, OrderUnshared, HoldsOrder, HoldsNumbers
  <2>3. StepsLeft(session'[s].pc) < StepsLeft(session[s].pc)
    BY <2>1 DEF StepsLeft
  <2>4. \A t \in Sessions \ {s} : session'[t] = session[t]
    BY <2>1
  <2> QED
    BY <2>2, <2>3, <2>4 DEF EveryStepCounts
<1>4. ASSUME NEW t \in Threads, NEW victim \in Sessions, Deadlock(t, victim)
      PROVE  LocksInv' /\ EveryStepCounts
  <2>1. /\ session' = [session EXCEPT ![victim] = Idle]
        /\ session[victim].pc \in {"numbered", "refunding"} /\ Idle.pc = "idle"
    BY <1>4 DEF Deadlock, Deadlocked, Idle
  <2>2. LocksInv'
    BY <2>1, LocksStep
  <2>3. StepsLeft(session'[victim].pc) < StepsLeft(session[victim].pc)
    BY <2>1 DEF StepsLeft
  <2>4. \A s \in Sessions \ {victim} : session'[s] = session[s]
    BY <2>1
  <2> QED
    BY <2>2, <2>3, <2>4 DEF EveryStepCounts
<1>5. CASE Requests
  BY <1>1, <1>2, <1>5, RequestsStart DEF RequestStarts
<1>6. CASE UNCHANGED vars
  BY <1>1, <1>6 DEF vars
<1> QED
  BY <1>3, <1>4, <1>5, <1>6 DEF Next

(* The two locks are never waited for in vain: who has the numbers inserts *)
(* or commits, or waits for the order that only the event loop locks.      *)
LEMMA LoopGetsOn ==
  ASSUME LocksInv, AmountsOK, session \in [Sessions -> Session]
  PROVE  LoopIsServed
<1> SUFFICES ASSUME session[EventLoop].pc # "idle", ~MayGoOn(EventLoop)
             PROVE  \E s \in Threads : HoldsNumbers(s) /\ (MayGoOn(s) \/ Deadlocked(s))
  BY DEF LoopIsServed
<1>1. EventLoop \in Sessions /\ \A s \in Sessions : s \in Threads \/ s = EventLoop
  BY DEF Sessions
<1>2. \A s \in Sessions : HoldsOrder(s) => s = EventLoop
  BY DEF AmountsOK, AmountOK, HoldsOrder
<1>3. session[EventLoop].pc \in {"loaded", "numbered", "refunding"}
  BY <1>1 DEF Session, LocksInv, LoopPays, MayGoOn
<1>4. session[EventLoop].pc # "numbered"
  BY <1>2 DEF MayGoOn, OrderFree, HoldsOrder
<1>5. ~NumbersFree
  BY <1>3, <1>4 DEF MayGoOn
<1>6. PICK s \in Sessions : HoldsNumbers(s)
  BY <1>5 DEF NumbersFree
<1>7. s # EventLoop
  BY <1>3, <1>4, <1>6 DEF HoldsNumbers
<1>8. session[s].pc \in {"numbered", "inserted"}
  BY <1>2, <1>6, <1>7 DEF HoldsNumbers, HoldsOrder
<1>9. CASE session[s].pc = "inserted"
  BY <1>1, <1>6, <1>7, <1>9 DEF MayGoOn
<1>10. CASE session[s].pc = "numbered" /\ session[EventLoop].pc = "refunding"
  BY <1>1, <1>6, <1>7, <1>10 DEF Deadlocked
<1>11. CASE session[s].pc = "numbered" /\ session[EventLoop].pc = "loaded"
  <2>1. OrderFree
    BY <1>2, <1>11 DEF OrderFree, HoldsOrder
  <2> QED
    BY <1>1, <1>6, <1>7, <1>11, <2>1 DEF MayGoOn
<1> QED
  BY <1>3, <1>4, <1>8, <1>9, <1>10, <1>11

(* The event loop, which stands still while a payment handler waits for    *)
(* the database, never waits for somebody who cannot go on: the numbers    *)
(* have one holder, a thread that may go on or is deadlocked with the      *)
(* loop, and the steps of every handler are numbered (payments.py,         *)
(* payment_service.py).                                                    *)
THEOREM LoopNeverWaitsInVain == Spec => [](OneHolder /\ LoopIsServed) /\ [][EveryStepCounts]_vars
<1> DEFINE Inv == LedgerInv /\ LocksInv
           Promise == OneHolder /\ LoopIsServed
<1>1. Init => Inv
  BY LedgerInvInit, LocksInvInit
<1>2. Inv /\ [Next]_vars => Inv' /\ EveryStepCounts
  BY LedgerInvNext, LocksInvNext DEF LedgerInv, TypeOK
<1>3. Inv => Promise
  BY LoopGetsOn DEF LedgerInv, TypeOK, LocksInv
<1>4. Spec => []Promise
  BY <1>1, <1>2, <1>3, PTL DEF Spec
<1>5. Spec => [][EveryStepCounts]_vars
  BY <1>1, <1>2, PTL DEF Spec
<1> QED
  BY <1>4, <1>5, PTL
=============================================================================
