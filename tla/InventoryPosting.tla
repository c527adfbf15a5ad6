-------------------------- MODULE InventoryPosting --------------------------
(***************************************************************************)
(* Overlapping requests that post to the inventory: where the database     *)
(* serializes them, what they read before it does, and who waits for whom. *)
(*                                                                         *)
(* A request runs in a database session of its own.  A handler declared    *)
(* with async def occupies the event loop of the one server process from   *)
(* its first line to its last, blocking calls included; a plain def runs   *)
(* in a thread beside it.  A row locked by FOR UPDATE or by an UPDATE      *)
(* stays locked until its session commits or is closed, and the closing    *)
(* of a session whose handler failed has to be dispatched by the loop.     *)
(*                                                                         *)
(* An inventory row is one quantity here: on-hand with the sum of its      *)
(* movements, or allocated with the sum of reservations minus releases.    *)
(* Both are read into the session and written back as absolute values.     *)
(***************************************************************************)
EXTENDS Integers

CONSTANTS
    Sessions,   \* requests
    Inline,     \* those whose handler is async def
    Kind,       \* what each request does, see Kinds
    Rows,       \* inventory rows
    Opening,    \* the quantity every row opens with, which its ledger records
    Deltas,     \* the signed quantities a request may post
    MaxSteps,   \* bound: postings of one request
    Nobody      \* nobody holds the lock of a row

(* direct: posts without having looked at the row (physical counts, finished *)
(* goods written off); policy: looks at the row first, to decide whether the *)
(* consumption is to be held; repair: releases what the ledger shows to be   *)
(* stranded.                                                                 *)
Kinds == {"direct", "policy", "repair"}

ASSUME SessionsAssumption == Kind \in [Sessions -> Kinds] /\ Inline \subseteq Sessions
ASSUME RowsAssumption == Opening \in Nat /\ Deltas \subseteq Int /\ MaxSteps \in Nat
ASSUME NobodyAssumption == Nobody \notin Sessions /\ Nobody \notin Rows

VARIABLES
    inv,       \* the committed quantity on every row
    ledger,    \* the sum of the committed ledger rows behind it
    lock,      \* the session that holds the lock of a row
    pc,        \* where every request is
    todo,      \* how many postings it may still make
    want,      \* the posting whose row lock it is waiting for
    seen,      \* what a repair has found stranded and not yet released
    loaded,    \* the rows its session has read
    draft,     \* the quantities its session believes in
    effect     \* the sum of the ledger rows it has not committed yet

vars == <<inv, ledger, lock, pc, todo, want, seen, loaded, draft, effect>>

Requests == [row: Rows, delta: Int] \cup {[row |-> Nobody, delta |-> 0]}
NoRequest == [row |-> Nobody, delta |-> 0]
NoChange == [r \in Rows |-> 0]

TypeOK ==
    /\ inv \in [Rows -> Int] /\ ledger \in [Rows -> Int]
    /\ lock \in [Rows -> Sessions \cup {Nobody}]
    /\ pc \in [Sessions -> {"idle", "open", "failed", "closed", "done"}]
    /\ todo \in [Sessions -> 0..MaxSteps]
    /\ want \in [Sessions -> Requests]
    /\ seen \in [Sessions -> [Rows -> Int]]
    /\ loaded \in [Sessions -> SUBSET Rows]
    /\ draft \in [Sessions -> [Rows -> Int]]
    /\ effect \in [Sessions -> [Rows -> Int]]

-----------------------------------------------------------------------------

Floor0(a) == IF a >= 0 THEN a ELSE 0

(* The loop dispatches nothing while it runs an async handler.             *)
LoopFree == \A s \in Inline : pc[s] # "open"

(* A repair starts by summing up the ledger of an order that is closed.    *)
Begin(s) ==
    /\ pc[s] = "idle" /\ LoopFree
    /\ pc' = [pc EXCEPT ![s] = "open"]
    /\ seen' = [seen EXCEPT ![s] = IF Kind[s] = "repair" THEN ledger ELSE NoChange]
    /\ UNCHANGED <<inv, ledger, lock, todo, want, loaded, draft, effect>>

(* What the session takes the quantity of a row to be: what it has read,   *)
(* if it has, because reading a row again does not refresh it.             *)
Believes(s, r) == IF r \in loaded[s] THEN draft[s][r] ELSE inv[r]

(* Open, and not waiting for a lock.                                       *)
Running(s) == pc[s] = "open" /\ want[s] = NoRequest

WaitFor(s, r, d) ==
    /\ Running(s)
    /\ want' = [want EXCEPT ![s] = [row |-> r, delta |-> d]]

Post(s, r, d) ==
    /\ WaitFor(s, r, d)
    /\ todo[s] > 0
    /\ todo' = [todo EXCEPT ![s] = @ - 1]

(* Asks for the lock of the row without having read it.                    *)
RequestDirect(s, r, d) ==
    /\ Kind[s] = "direct"
    /\ Post(s, r, d)
    /\ UNCHANGED <<inv, ledger, lock, pc, seen, loaded, draft, effect>>

(* Reads the row, without a lock, decides by what it reads whether the     *)
(* posting is held (its row is locked all the same, and nothing is moved), *)
(* and asks for the lock.                                                  *)
RequestPolicy(s, r, d) ==
    /\ Kind[s] = "policy"
    /\ Post(s, r, IF d < 0 /\ Believes(s, r) + d < 0 THEN 0 ELSE d)
    /\ loaded' = [loaded EXCEPT ![s] = @ \cup {r}]
    /\ draft' = [draft EXCEPT ![s][r] = Believes(s, r)]
    /\ UNCHANGED <<inv, ledger, lock, pc, seen, effect>>

(* Asks for the lock of the next row with something stranded, to release   *)
(* what was found; the ledger is not summed up again.                      *)
RequestRepair(s, r) ==
    /\ seen[s][r] > 0
    /\ WaitFor(s, r, -seen[s][r])
    /\ seen' = [seen EXCEPT ![s][r] = 0]
    /\ UNCHANGED <<inv, ledger, lock, pc, todo, loaded, draft, effect>>

(* A repair floors the quantity at zero.                                   *)
Moved(s, q) == IF Kind[s] = "repair" THEN Floor0(q) ELSE q

(* Mutant of MayLock: the row is read without FOR UPDATE.                  *)
MayLockAnyway(s) == want[s].row # Nobody

(* Mutant of MayLock: a session waits for a row it has locked itself.      *)
MayLockOnce(s) == want[s].row # Nobody /\ lock[want[s].row] = Nobody

(* The row it waits for is free, or its own.                               *)
MayLock(s) == want[s].row # Nobody /\ lock[want[s].row] \in {Nobody, s}

(* The lock is granted: the row is read, unless the session has read it    *)
(* before, and the ledger row and the new quantity are flushed.            *)
Grant(s) ==
    LET r == want[s].row
    IN  /\ MayLock(s)
        /\ lock' = [lock EXCEPT ![r] = s]
        /\ loaded' = [loaded EXCEPT ![s] = @ \cup {r}]
        /\ draft' = [draft EXCEPT ![s][r] = Moved(s, Believes(s, r) + want[s].delta)]
        /\ effect' = [effect EXCEPT ![s][r] = @ + want[s].delta]
        /\ want' = [want EXCEPT ![s] = NoRequest]
        /\ UNCHANGED <<inv, ledger, pc, todo, seen>>

Unlocked(s) == [r \in Rows |-> IF lock[r] = s THEN Nobody ELSE lock[r]]

(* A session that has ended believes nothing and has nothing pending.      *)
Ended(s, where) ==
    /\ pc' = [pc EXCEPT ![s] = where]
    /\ todo' = [todo EXCEPT ![s] = 0]
    /\ want' = [want EXCEPT ![s] = NoRequest]
    /\ seen' = [seen EXCEPT ![s] = NoChange]
    /\ loaded' = [loaded EXCEPT ![s] = {}]
    /\ draft' = [draft EXCEPT ![s] = NoChange]
    /\ effect' = [effect EXCEPT ![s] = NoChange]

(* Mutant of Commit: the locks outlive the transaction.                    *)
CommitKeepingLocks(s) ==
    /\ Running(s)
    /\ \A r \in Rows : seen[s][r] <= 0
    /\ inv' = [r \in Rows |-> IF lock[r] = s THEN draft[s][r] ELSE inv[r]]
    /\ ledger' = [r \in Rows |-> ledger[r] + effect[s][r]]
    /\ lock' = lock
    /\ Ended(s, "done")

(* The handler returns, a repair when nothing it found is left: its        *)
(* quantities overwrite those of the rows it has locked.                   *)
Commit(s) ==
    /\ Running(s)
    /\ \A r \in Rows : seen[s][r] <= 0
    /\ inv' = [r \in Rows |-> IF lock[r] = s THEN draft[s][r] ELSE inv[r]]
    /\ ledger' = [r \in Rows |-> ledger[r] + effect[s][r]]
    /\ lock' = Unlocked(s)
    /\ Ended(s, "done")

(* The handler raises.  Nothing is rolled back until its session is closed.*)
Fail(s) ==
    /\ Running(s)
    /\ pc' = [pc EXCEPT ![s] = "failed"]
    /\ UNCHANGED <<inv, ledger, lock, todo, want, seen, loaded, draft, effect>>

MayClose(s) == pc[s] = "failed" /\ LoopFree

(* Mutant of Close: what was flushed is committed.                         *)
CloseCommitting(s) ==
    /\ MayClose(s)
    /\ ledger' = [r \in Rows |-> ledger[r] + effect[s][r]]
    /\ lock' = Unlocked(s)
    /\ Ended(s, "closed")
    /\ UNCHANGED inv

Close(s) ==
    /\ MayClose(s)
    /\ lock' = Unlocked(s)
    /\ Ended(s, "closed")
    /\ UNCHANGED <<inv, ledger>>

(* Who holds the row that a session is waiting for.                        *)
Holder(s) ==
    IF want[s].row = Nobody \/ lock[want[s].row] = s THEN Nobody ELSE lock[want[s].row]

(* The sessions of C wait for each other in a circle.                      *)
Circle(C) == C # {} /\ C = {Holder(s) : s \in C}
InCircle(s) == \E C \in SUBSET Sessions : s \in C /\ Circle(C)

(* The database notices and aborts one of them, which gives up its locks   *)
(* at once.                                                                *)
DeadlockAbort(s) ==
    /\ InCircle(s)
    /\ lock' = Unlocked(s)
    /\ Ended(s, "closed")
    /\ UNCHANGED <<inv, ledger>>

-----------------------------------------------------------------------------

Init ==
    /\ inv = [r \in Rows |-> Opening]
    /\ ledger = [r \in Rows |-> Opening]
    /\ lock = [r \in Rows |-> Nobody]
    /\ pc = [s \in Sessions |-> "idle"]
    /\ todo = [s \in Sessions |-> MaxSteps]
    /\ want = [s \in Sessions |-> NoRequest]
    /\ seen = [s \in Sessions |-> NoChange]
    /\ loaded = [s \in Sessions |-> {}]
    /\ draft = [s \in Sessions |-> NoChange]
    /\ effect = [s \in Sessions |-> NoChange]

(* What an open request does unless its handler raises.                    *)
Run(s) ==
    \/ \E r \in Rows, d \in Deltas : RequestDirect(s, r, d)
    \/ \E r \in Rows, d \in Deltas : RequestPolicy(s, r, d)
    \/ \E r \in Rows : RequestRepair(s, r)
    \/ Grant(s)
    \/ Commit(s)
    \/ Close(s)
    \/ DeadlockAbort(s)

Next == \E s \in Sessions : Begin(s) \/ Run(s) \/ Fail(s)

Spec == Init /\ [][Next]_vars

(* Threads and the loop run on, the database hands a lock over when it is  *)
(* given up, and breaks circles.  Nobody has to send a request, and no     *)
(* handler has to raise.                                                   *)
FairSpec == Spec /\ \A s \in Sessions : WF_vars(Run(s))

-----------------------------------------------------------------------------
(* Properties.                                                             *)

(* As long as no request that read before it locked has committed, every   *)
(* quantity is the sum of its ledger rows: postings that take the lock     *)
(* first neither lose updates nor make others lose them, whatever overlaps *)
(* them, fails or is aborted.                                              *)
DriftComesFromStaleReads ==
    (\A s \in Sessions : Kind[s] # "direct" => pc[s] # "done") => inv = ledger

(* Requests that take the lock first behave as if they ran one at a time.  *)
Applied == {s \in Sessions : pc[s] = "done"}
Book == INSTANCE StockBook WITH applied <- Applied
RefinesBook == Book!Spec

(* The database breaks circles of sessions, but it does not see the loop:  *)
(* the one way for requests to be stuck is an async handler that waits,    *)
(* itself or behind others, for a row whose holder has failed and cannot   *)
(* be closed while the loop is blocked.  Neither a request that might      *)
(* still be sent nor a handler that might raise counts as a way out.       *)
Underway == {s \in Sessions : pc[s] \in {"open", "failed"}}
MayRun(s) == Running(s) \/ MayLock(s) \/ MayClose(s) \/ InCircle(s)
Stuck == Underway # {} /\ \A s \in Sessions : ~MayRun(s)
StuckOnlyBehindFailure ==
    Stuck => /\ ~LoopFree
             /\ \E s \in Sessions : Holder(s) # Nobody /\ pc[Holder(s)] = "failed"

(* If no handler raises, every request that is begun is answered.          *)
EveryRequestEnds ==
    [](\A s \in Sessions : pc[s] # "failed") =>
        \A s \in Sessions : pc[s] = "open" ~> pc[s] \in {"closed", "done"}

=============================================================================
