-------------------------- MODULE CompletionPosting -------------------------
(***************************************************************************)
(* One production order of one operation, its handlers split where another *)
(* request can get in between: what they load, the stock they post under   *)
(* the lock of the inventory row, the sweep of the rows that no journal    *)
(* entry has yet, and the commit.  Operation handlers run in threads,      *)
(* order handlers on the event loop, the backfill script by itself.        *)
(*                                                                         *)
(* Left out are the handlers that only move the order between statuses     *)
(* (hold, release, cancel) and the routing refresh, for which see          *)
(* ProductionOrders, and taking an operation off the schedule: no handler  *)
(* here tells a queued operation from a pending one.                       *)
(***************************************************************************)
EXTENDS Integers, FiniteSets, Functions

CONSTANTS Threads, EventLoop, Script, NoSession,
          Ordered,                              \* quantity_ordered
          MaterialCost, LaborCost, UnitCost,    \* of one piece
          MaxRows, MaxEntries, NoEntry          \* bounds: ledger rows, journal entries

Sessions == Threads \cup {EventLoop, Script}
Rows == 1..MaxRows
Entries == 1..MaxEntries

ASSUME SessionsAssumption ==
    /\ EventLoop \notin Threads /\ Script \notin Threads /\ EventLoop # Script
    /\ NoSession \notin Sessions
ASSUME BoundsAssumption == MaxRows \in Nat /\ MaxEntries \in Nat /\ NoEntry \notin Entries
ASSUME CostsAssumption ==
    {Ordered, MaterialCost, LaborCost, UnitCost} \subseteq Nat \ {0}

VARIABLES
    job,        \* the order and its operation, as committed
    mat,        \* status of the operation's material row, if it has one
    row,        \* inventory_transactions of the order
    entry,      \* completion journal entries of the order
    credits,    \* credits to work in progress by scrap journal entries
    session,    \* what each request has read and is about to write
    overlapped  \* history: a request committed over another one's commit

vars == <<job, mat, row, entry, credits, session, overlapped>>

FreshJob == [status |-> "released", done |-> 0, scrapped |-> 0, ended |-> FALSE,
             op |-> "pending", opDone |-> 0, opScrapped |-> 0,
             reopened |-> FALSE]   \* history: scheduled after it was complete

(* unconvertible: the unit of the component was changed after the material *)
(* had been reserved.                                                      *)
MaterialStatuses == {"none", "pending", "consumed", "unconvertible"}

(* Kinds: consumption, negative_adjustment (consumption held for           *)
(* approval), receipt; "by" is the session that has not committed it yet.  *)
FreeRow == [kind |-> "free", cost |-> 0, entry |-> NoEntry, by |-> NoSession]

(* Statuses: posted, voided.                                               *)
FreeEntry == [status |-> "free", rows |-> {}, consumed |-> 0, received |-> 0,
              scrap |-> 0, scripted |-> FALSE]

(* Steps: loaded, read, scrapped, posted, swept.  Kinds: schedule, start,  *)
(* report, scrap, complete, accept, close, backfill.                       *)
Idle == [pc |-> "idle", kind |-> "none", good |-> 0, bad |-> 0, seen |-> FreshJob,
         read |-> "none", swept |-> {}, scrap |-> 0, stale |-> FALSE]

-----------------------------------------------------------------------------
(* What a session sees and holds.                                          *)

Free == {r \in Rows : row[r].kind = "free"}
Mine(s) == {r \in Rows : row[r].kind # "free" /\ row[r].by = s}
Visible(s) == {r \in Rows : row[r].kind # "free" /\ row[r].by \in {s, NoSession}}
Receipts == {r \in Rows : row[r].kind = "receipt" /\ row[r].by = NoSession}
Posted == {e \in Entries : entry[e].status = "posted"}
Unused == {e \in Entries : entry[e].status = "free"}
First(S) == CHOOSE x \in S : \A y \in S : x <= y

(* A report that scraps posts its journal entry first, and keeps the lock  *)
(* of the entry numbers and the rows it has flushed.                       *)
HoldsNumbers(s) ==
    session[s].kind = "report" /\ session[s].bad > 0 /\ session[s].pc \in {"scrapped", "posted", "swept"}
HoldsOperation(s) ==
    \/ HoldsNumbers(s)
    \/ session[s].kind = "report" /\ session[s].pc \in {"posted", "swept"}
HoldsOrder(s) == HoldsOperation(s) \/ session[s].kind \in {"accept", "close"}
HoldsStock(s) == session[s].pc \in {"posted", "swept"} /\ Mine(s) # {}
HoldsGuard(s) == session[s].pc = "swept"

NumbersFree(s) == \A t \in Sessions \ {s} : ~HoldsNumbers(t)
OperationFree(s) == \A t \in Sessions \ {s} : ~HoldsOperation(t)
OrderFree(s) == \A t \in Sessions \ {s} : ~HoldsOrder(t)
StockFree(s) == \A t \in Sessions \ {s} : ~HoldsStock(t)
GuardFree(s) == \A t \in Sessions \ {s} : ~HoldsGuard(t)

-----------------------------------------------------------------------------
(* The order as each handler leaves it, from what it has loaded.           *)

(* The last report completes an order that was made in full, once.         *)
Completes(s) ==
    LET seen == session[s].seen
    IN  CASE session[s].kind = "report" ->
               session[s].good >= Ordered /\ seen.status # "complete" /\ ~seen.ended
          [] OTHER -> session[s].kind \in {"complete", "accept"}

Scheduled(seen) == [seen EXCEPT !.op = "queued", !.reopened = @ \/ seen.op = "complete"]
Started(seen) == [seen EXCEPT !.op = "running", !.status = "in_progress"]

Reported(s) ==
    LET seen == session[s].seen
        good == session[s].good
        bad == session[s].bad
    IN  [status |-> IF good >= Ordered THEN "complete" ELSE "short",
         done |-> good, scrapped |-> seen.scrapped + bad,
         ended |-> seen.ended \/ Completes(s),
         op |-> "complete", opDone |-> good,
         opScrapped |-> IF bad > 0 THEN seen.opScrapped + bad ELSE 0,
         reopened |-> seen.reopened]

Scrapped(seen, bad) == [seen EXCEPT !.scrapped = @ + bad, !.opScrapped = @ + bad]

Finished(seen) == [seen EXCEPT !.status = "complete", !.ended = TRUE, !.op = "complete"]
Completed(seen, good, bad) ==
    [Finished(seen) EXCEPT !.done = @ + good, !.scrapped = @ + bad]

Left(s) ==
    CASE session[s].kind = "schedule" -> Scheduled(session[s].seen)
      [] session[s].kind = "start"    -> Started(session[s].seen)
      [] session[s].kind = "report"   -> Reported(s)
      [] session[s].kind = "scrap"    -> Scrapped(session[s].seen, session[s].bad)
      [] session[s].kind = "complete" -> Completed(session[s].seen, session[s].good, session[s].bad)
      [] session[s].kind = "accept"   -> Finished(session[s].seen)
      [] session[s].kind = "close"    -> [session[s].seen EXCEPT !.status = "scrapped", !.ended = TRUE]
      [] OTHER                        -> job

(* An UPDATE carries the columns that differ from what was loaded.         *)
Written(seen, new) == [f \in DOMAIN job |-> IF new[f] # seen[f] THEN new[f] ELSE job[f]]
-----------------------------------------------------------------------------
(* Requests load the order and check it.                                   *)

Loads(s, kind, good, bad) ==
    /\ session[s] = Idle
    /\ session' = [session EXCEPT ![s] =
                      [Idle EXCEPT !.pc = "loaded", !.kind = kind, !.good = good,
                                   !.bad = bad, !.seen = job]]
    /\ UNCHANGED <<job, mat, row, entry, credits, overlapped>>

(* An operation is queued on a resource whatever its status.               *)
LoadSchedule(s) == Loads(s, "schedule", 0, 0)

LoadStart(s) == job.op \in {"pending", "queued"} /\ Loads(s, "start", 0, 0)

LoadReport(s, good, bad) ==
    /\ job.op = "running"
    /\ good + bad <= Ordered
    /\ bad > 0 => job.opScrapped + bad <= Ordered
    /\ Loads(s, "report", good, bad)

(* Scrap on its own, at any status of the order.                           *)
LoadScrap(s, bad) ==
    /\ bad > 0
    /\ job.opScrapped + bad <= IF job.op = "running" THEN Ordered ELSE job.opDone
    /\ Loads(s, "scrap", 0, bad)

(* Mutant of LoadComplete: a complete order is completed once more.        *)
LoadCompleteAgain(good, bad) ==
    /\ job.status \in {"in_progress", "released", "complete"}
    /\ good + bad <= Ordered
    /\ Loads(EventLoop, "complete", good, bad)

(* A complete order is left as it is, a short one refused.                 *)
LoadComplete(good, bad) ==
    /\ job.status \in {"in_progress", "released"}
    /\ good + bad <= Ordered
    /\ Loads(EventLoop, "complete", good, bad)

(* Mutant of LoadAccept: the status alone is checked.                      *)
LoadAcceptByStatus ==
    /\ OrderFree(EventLoop)
    /\ job.status = "short" /\ job.done \in 1..Ordered - 1
    /\ Loads(EventLoop, "accept", 0, 0)

(* Under a lock of the order's row, and only if nothing was received.      *)
LoadAccept ==
    /\ OrderFree(EventLoop)
    /\ job.status = "short" /\ job.done \in 1..Ordered - 1
    /\ Receipts = {}
    /\ Loads(EventLoop, "accept", 0, 0)

(* The same for a short order of which nothing but scrap was made.         *)
LoadClose ==
    /\ OrderFree(EventLoop)
    /\ job.status = "short" /\ job.done = 0 /\ job.scrapped > 0
    /\ Receipts = {}
    /\ Loads(EventLoop, "close", 0, 0)

(* The material rows are read before any lock.                             *)
ReadMaterials(s) ==
    /\ session[s].pc = "loaded" /\ session[s].kind \in {"report", "complete", "accept"}
    /\ session' = [session EXCEPT ![s].pc = "read", ![s].read = mat]
    /\ UNCHANGED <<job, mat, row, entry, credits, overlapped>>

-----------------------------------------------------------------------------
(* What they post.                                                         *)

(* The scrap of a report, flushed with its journal entry.                  *)
PostScrap(s) ==
    /\ session[s].pc = "read" /\ session[s].kind = "report" /\ session[s].bad > 0
    /\ NumbersFree(s) /\ OrderFree(s)
    /\ session' = [session EXCEPT ![s].pc = "scrapped"]
    /\ UNCHANGED <<job, mat, row, entry, credits, overlapped>>

ReadyToPost(s) ==
    IF session[s].kind = "report" /\ session[s].bad > 0 THEN session[s].pc = "scrapped"
    ELSE session[s].pc = "read"

(* Nothing of the reserved material can be consumed: the completion        *)
(* raises, which a report logs and commits without receipt, while the      *)
(* order handlers answer it with an error.                                 *)
Raises(s) == session[s].read = "unconvertible" /\ Completes(s)

(* Finished goods are received in the ordered quantity, by an accepted     *)
(* short order in what was made.                                           *)
ReceiptCost(s) ==
    UnitCost * IF session[s].kind = "accept" THEN session[s].seen.done ELSE Ordered

(* Consumption of the material, held for approval or not, and the receipt. *)
PostStock(s, held) ==
    LET consumes == session[s].read = "pending"
        receives == Completes(s) /\ ~Raises(s)
        used == First(Free)
        made == First(IF consumes THEN Free \ {used} ELSE Free)
        Post(r, kind, cost) == [kind |-> kind, cost |-> cost, entry |-> NoEntry, by |-> s]
    IN  /\ ReadyToPost(s)
        /\ session[s].kind # "report" => ~Raises(s)
        /\ consumes \/ receives => StockFree(s) /\ Cardinality(Free) >= 2   \* bound: MaxRows
        /\ session[s].kind = "report" => OrderFree(s)
        /\ row' = [r \in Rows |->
                     CASE consumes /\ r = used ->
                            Post(r, IF held THEN "negative_adjustment" ELSE "consumption",
                                 Ordered * MaterialCost)
                       [] receives /\ r = made -> Post(r, "receipt", ReceiptCost(s))
                       [] OTHER -> row[r]]
        /\ session' = [session EXCEPT ![s].pc = "posted"]
        /\ UNCHANGED <<job, mat, entry, credits, overlapped>>

Unjournaled(s) ==
    {r \in Visible(s) : row[r].kind \in {"consumption", "receipt"} /\ row[r].entry = NoEntry}

(* Credits to work in progress that scrap records show: a scrap of labour  *)
(* alone writes none.                                                      *)
RecordedScrap(s) ==
    IF session[s].kind \in {"report", "scrap"} /\ session[s].bad > 0
      THEN session[s].bad * (LaborCost + IF mat = "none" THEN 0 ELSE MaterialCost) ELSE 0

SweptScrap(s) ==
    credits.recorded + IF mat = "none" \/ session[s].kind # "report" THEN 0 ELSE RecordedScrap(s)

(* After the receipt, or before an order is closed as scrapped.            *)
Sweeps(s) ==
    \/ session[s].pc = "posted" /\ \E r \in Mine(s) : row[r].kind = "receipt"
    \/ session[s].pc = "loaded" /\ session[s].kind = "close" /\ Unjournaled(s) # {}

(* Mutant of Sweep: completions of the same order are not serialized.      *)
SweepUnguarded(s) ==
    /\ Sweeps(s)
    /\ Unused # {}
    /\ session' = [session EXCEPT ![s].pc = "swept", ![s].swept = Unjournaled(s),
                                  ![s].scrap = SweptScrap(s)]
    /\ UNCHANGED <<job, mat, row, entry, credits, overlapped>>

(* The completion's journal entry, under the order's advisory lock.        *)
Sweep(s) ==
    /\ Sweeps(s)
    /\ GuardFree(s)
    /\ Unused # {}                                \* bound: MaxEntries
    /\ session' = [session EXCEPT ![s].pc = "swept", ![s].swept = Unjournaled(s),
                                  ![s].scrap = SweptScrap(s)]
    /\ UNCHANGED <<job, mat, row, entry, credits, overlapped>>

(* The backfill script takes any order that has such rows.                 *)
SweepBackfill ==
    /\ session[Script] = Idle
    /\ GuardFree(Script)
    /\ Unjournaled(Script) # {}
    /\ Unused # {}                                \* bound: MaxEntries
    /\ session' = [session EXCEPT ![Script] =
                      [Idle EXCEPT !.pc = "swept", !.kind = "backfill",
                                   !.swept = Unjournaled(Script), !.scrap = SweptScrap(Script)]]
    /\ UNCHANGED <<job, mat, row, entry, credits, overlapped>>
-----------------------------------------------------------------------------
(* Commit, and what undoes it.                                             *)

(* Mutant of Variance: the scrap that has left already is not offset.      *)
VarianceWithoutScrap(received, scrap, consumed) == received - consumed

(* What the entry moves between work in progress and production variance.  *)
Variance(received, scrap, consumed) == received + scrap - consumed

CostOf(rows, kind) ==
    SumFunctionOnSet([r \in Rows |-> row[r].cost], {r \in rows : row[r].kind = kind})

(* Mutant of EntryOf: rows that are in an entry already count once more.   *)
EntryOfEveryRow(s) ==
    [status |-> "posted", rows |-> session[s].swept,
     consumed |-> CostOf(Visible(s), "consumption"),
     received |-> CostOf(Visible(s), "receipt"),
     scrap |-> session[s].scrap, scripted |-> s = Script]

EntryOf(s) ==
    [status |-> "posted", rows |-> session[s].swept,
     consumed |-> CostOf(session[s].swept, "consumption"),
     received |-> CostOf(session[s].swept, "receipt"),
     scrap |-> session[s].scrap, scripted |-> s = Script]

Done(s) ==
    \/ session[s].pc = "swept"
    \/ session[s].pc = "posted" /\ ~Sweeps(s)
    \/ session[s].pc = "loaded" /\ session[s].kind \in {"schedule", "start", "scrap", "close"} /\ ~Sweeps(s)

(* An entry that shows the receipt is in the books, or about to be.        *)
ReceiptSwept(s) ==
    \/ \E e \in Posted : \E r \in entry[e].rows : row[r].kind = "receipt"
    \/ \E t \in Sessions \ {s} : \E r \in session[t].swept : row[r].kind = "receipt"

Credited(s) ==
    LET amount == RecordedScrap(s)
        late == amount > 0 /\ (ReceiptSwept(s) \/ job.status = "scrapped")
    IN  IF mat = "none" THEN [credits EXCEPT !.unrecorded = @ + amount, !.late = @ \/ late]
        ELSE [credits EXCEPT !.recorded = @ + amount, !.late = @ \/ late]

Commit(s) ==
    LET journals == session[s].swept # {}
        e == First(Unused)
    IN  /\ Done(s)
        /\ journals \/ RecordedScrap(s) > 0 => NumbersFree(s)
        /\ IF session[s].kind = "schedule" THEN OperationFree(s) ELSE s # Script => OrderFree(s)
        /\ job' = Written(session[s].seen, Left(s))
        /\ mat' = IF \E r \in Mine(s) : row[r].kind # "receipt" THEN "consumed" ELSE mat
        /\ row' = [r \in Rows |->
                     [row[r] EXCEPT
                        !.by = IF r \in Mine(s) THEN NoSession ELSE @,
                        !.entry = IF journals /\ r \in session[s].swept THEN e ELSE @]]
        /\ entry' = IF journals THEN [entry EXCEPT ![e] = EntryOf(s)] ELSE entry
        /\ credits' = Credited(s)
        /\ session' = [t \in Sessions |->
                         IF t = s THEN Idle
                         ELSE [session[t] EXCEPT
                                 !.stale = @ \/ (session[t].pc # "idle" /\ s # Script)]]
        /\ overlapped' = (overlapped \/ session[s].stale)

(* An error, a deadlock resolved against the request, or a crash of the    *)
(* server: nothing of what it wrote stays.                                 *)
Abort(s) ==
    /\ session[s].pc # "idle"
    /\ row' = [r \in Rows |-> IF r \in Mine(s) THEN FreeRow ELSE row[r]]
    /\ session' = [session EXCEPT ![s] = Idle]
    /\ UNCHANGED <<job, mat, entry, credits, overlapped>>

(* The script's rollback voids an entry it has made and frees its rows.    *)
RollBack(e) ==
    /\ session[Script] = Idle
    /\ entry[e].status = "posted" /\ entry[e].scripted
    /\ entry' = [entry EXCEPT ![e].status = "voided"]
    /\ row' = [r \in Rows |-> IF row[r].entry = e THEN [row[r] EXCEPT !.entry = NoEntry] ELSE row[r]]
    /\ UNCHANGED <<job, mat, credits, session, overlapped>>

-----------------------------------------------------------------------------

Init ==
    /\ job = FreshJob
    /\ mat \in MaterialStatuses \ {"consumed"}
    /\ row = [r \in Rows |-> FreeRow]
    /\ entry = [e \in Entries |-> FreeEntry]
    /\ credits = [recorded |-> 0, unrecorded |-> 0, late |-> FALSE]
    /\ session = [s \in Sessions |-> Idle]
    /\ overlapped = FALSE

Next ==
    \/ \E t \in Threads :
         \/ LoadSchedule(t)
         \/ LoadStart(t)
         \/ \E good, bad \in 0..Ordered : LoadReport(t, good, bad)
         \/ \E bad \in 1..Ordered : LoadScrap(t, bad)
         \/ PostScrap(t)
    \/ \E good, bad \in 0..Ordered : LoadComplete(good, bad)
    \/ LoadAccept
    \/ LoadClose
    \/ SweepBackfill
    \/ \E s \in Sessions :
         \/ ReadMaterials(s)
         \/ \E held \in BOOLEAN : PostStock(s, held)
         \/ Sweep(s)
         \/ Commit(s)
         \/ Abort(s)
    \/ \E e \in Entries : RollBack(e)

Spec == Init /\ [][Next]_vars

-----------------------------------------------------------------------------
(* Properties.                                                             *)

(* A row of the ledger is in one posted journal entry at most, the one it  *)
(* points to, however completions of the order and the script overlap, and *)
(* also after a rollback.                                                  *)
JournaledOnce ==
    /\ \A e \in Posted : \A r \in entry[e].rows : row[r].entry = e
    /\ \A r \in Rows : row[r].entry # NoEntry =>
         row[r].entry \in Posted /\ r \in entry[row[r].entry].rows

(* The finished goods of an order are received once.  Twice, and the       *)
(* material is consumed twice, only where a request committed over what    *)
(* another one had committed since it loaded, or where the operation was   *)
(* scheduled again after it was complete; a complete order was not         *)
(* received only in these cases, or where the material could not be        *)
(* consumed, which a report swallows.                                      *)
ReceivedOnce ==
    LET OfKind(kinds) == {r \in Rows : row[r].kind \in kinds /\ row[r].by = NoSession}
    IN  overlapped \/ job.reopened \/
          /\ Cardinality(Receipts) <= 1
          /\ Cardinality(OfKind({"consumption", "negative_adjustment"})) <= 1
          /\ job.status = "complete" /\ Receipts = {} => mat = "unconvertible"

(* Nothing was received of a short order while it is being accepted, or    *)
(* closed as scrapped, although reports and completions that have loaded   *)
(* it go on.                                                               *)
AcceptIsFirst ==
    session[EventLoop].kind \in {"accept", "close"} => Receipts = {}

OnWip(e) ==
    entry[e].consumed - entry[e].received
      + Variance(entry[e].received, entry[e].scrap, entry[e].consumed)

Swept ==
    \/ \E e \in Posted : \E r \in entry[e].rows : row[r].kind = "receipt"
    \/ /\ job.status = "scrapped" /\ ~overlapped /\ ~job.reopened
       /\ Posted # {} /\ \A e \in Posted : ~entry[e].scripted

(* "guarantees 1210 nets to exactly zero for every completed production    *)
(* order": it does, and for an order closed as scrapped that neither the   *)
(* script has swept before nor a stale request or scheduling has revived,  *)
(* where the scrap had a record, came before that last sweep, and was      *)
(* counted by one sweep only.                                              *)
WipClears ==
    Swept =>
        \/ SumFunctionOnSet([e \in Entries |-> OnWip(e)], Posted)
             = credits.recorded + credits.unrecorded
        \/ credits.unrecorded > 0 \/ credits.late
        \/ Cardinality({e \in Posted : entry[e].scrap > 0}) > 1

(* What is committed of the ledger, the entry of every row, and the books. *)
Committed ==
    [r \in Rows |-> IF row[r].by = NoSession THEN [kind |-> row[r].kind, cost |-> row[r].cost]
                     ELSE [kind |-> "free", cost |-> 0]]
Journaled == [r \in Rows |-> row[r].entry]
Booked ==
    [e \in Entries |-> [status |-> entry[e].status, rows |-> entry[e].rows,
                        consumed |-> entry[e].consumed, received |-> entry[e].received]]

(* However requests, the script and its rollback overlap, fail or are      *)
(* aborted, what is committed looks as if rows and entries were made at    *)
(* once: an entry covers rows that no other one has and books what they    *)
(* cost, the ledger never changes, and a rollback takes one entry back.    *)
Journal == INSTANCE JournalBook WITH
    ledger <- Committed, journaled <- Journaled, book <- Booked
RefinesJournal == Journal!Spec
=============================================================================
